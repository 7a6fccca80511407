-------------------------- MODULE MCConclusionGate --------------------------
EXTENDS ConclusionGate

\* A sound candidate, one that leaves a critical gap open, one that cites the
\* deep analysis, one with a flaw whose text has a term of direct evidence.
MCCandidates ==
    {[flaws |-> {}, deep |-> FALSE, gap |-> "none", term |-> FALSE],
     [flaws |-> {}, deep |-> FALSE, gap |-> "open", term |-> FALSE],
     [flaws |-> {}, deep |-> TRUE, gap |-> "none", term |-> FALSE],
     [flaws |-> {"incomplete"}, deep |-> FALSE, gap |-> "none", term |-> TRUE]}

MCDrafts == UNION {[1..n -> MCCandidates] : n \in 0..2}
=============================================================================
