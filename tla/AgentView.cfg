SPECIFICATION Spec
CONSTANTS
    None = None
    T = T
    n1 = n1
    n2 = n2
    d = d
    Spawn <- MCSpawn
    Start <- MCStart
    Owner = {None, n1}
INVARIANTS TypeOK OneParent EvidenceWins PositionalExact BoardExact
PROPERTY NoRegression
