------------------------ MODULE MCCollectionContext ------------------------
\* Three routes of the map, in the order of their names; two scripts of
\* one layer of the baseline, and a directed script.
EXTENDS CollectionContext, TLC

R(signals, categories, paths, weight) ==
    [signals |-> signals, categories |-> categories, paths |-> paths,
     weight |-> weight]

MCFacts == {"refused", "pressure", "oom"}
MCRoutes == << R({"refused"}, {}, {}, 1000),         \* connection-failure
               R({"pressure"}, {}, {}, 1000),        \* kubernetes-runtime
               R({"pressure"}, {"oom"}, {}, 850) >>  \* resource-exhaustion

MCScripts == {"get_shard_map", "rs_status", "describe"}
MCLayer == [get_shard_map |-> "service", rs_status |-> "service"]
MCRequired == << {"rs_status"}, {"describe"}, {"get_shard_map", "rs_status"} >>
MCClues == {<<0, 5, 0>>}
=============================================================================
