SPECIFICATION StartSpec
CONSTANTS
    None = None
    Namespaces = {n1, n2}
    Hosts = {a, b}
    Answers <- MCAnswers
    MaxStarts = 3
INVARIANTS
    StartTypeOK
    ReadyIsAnalysable
    NamespaceDecided
    AnswersKept
SYMMETRY MCSymmetry
CHECK_DEADLOCK FALSE
