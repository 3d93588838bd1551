SPECIFICATION MCSpec
CONSTANTS
    Newline = nl
    Text = {"v"}
    JSON <- GenericJSON
    Proc = {p1, p2}
    t1 = t1
    t2 = t2
    Path = {t1, t2}
    Schema = {1, 2}
    Inode = {n1, n2, n3}
    NoPath = NoPath
    NoInode = NoInode
    Empty = Empty
    Torn = Torn
    MaxLen = 3
    MaxFaults = 1
    MaxTruncs = 0
SYMMETRY Symmetry
INVARIANT TypeOK
INVARIANT ExactSnapshot
INVARIANT ExactTick
PROPERTIES OffsetNeverRegresses LikeFullExtraction
