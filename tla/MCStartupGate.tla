---------------------------- MODULE MCStartupGate ----------------------------
EXTENDS StartupGate, TLC

\* A user who has at most two things to say at a time.
MCAnswers ==
    {a \in Said : Cardinality({f \in DOMAIN a : a[f] # None}) <= 2}

\* Namespaces and hosts are told apart by nothing but equality.
MCSymmetry == Permutations(Namespaces) \cup Permutations(Hosts)
===============================================================================
