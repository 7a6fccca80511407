-------------------------- MODULE MCRulesAnalysis --------------------------
\* One fact of each kind that the rules tell apart.
EXTENDS RulesAnalysis

MCScenarios == {"unknown", "baseline", "kubernetes-runtime",
                "connection-failure", "replica-inconsistency",
                "queue-backlog"}
MCObserved ==
    [mongodb |->
        {"pod-node-selector-mismatch", "pod-crashloop", "node-resource-pressure",
         "dns-resolution-failed", "flannel-vxlan-down", "pod-subnet-isolated",
         "kube-dns-backend-on-overlay-partition", "service-endpoints-not-ready",
         "replica-member-recovering", "evicted", "corruption", "fatal",
         "peer-unreachable", "cannot-resolve", "dns-flood", "election",
         "members", "member-down", "divergent-views", "conf-same",
         "conf-divergent", "gap-rs.status", "gap-short-logs", "gap-executor",
         "gap-pod-status"},
     pulsar |->
        {"topic-backlog-high", "consumer-lag-high", "gap-topic-stats",
         "gap-executor"}]
=============================================================================
