SPECIFICATION FairTruncSpec
CONSTANTS
    Newline = nl
    Text = {}
    JSON <- NoJSON
    Proc = {p1, p2}
    t1 = t1
    t2 = t2
    Path = {t1}
    Schema = {1}
    Inode = {n1, n2, n3}
    NoPath = NoPath
    NoInode = NoInode
    Empty = Empty
    Torn = Torn
    MaxLen = 1
    MaxFaults = 1
    MaxTruncs = 1
PROPERTIES EveryLinePersisted StaleOffsetReplaced
