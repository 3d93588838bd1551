SPECIFICATION Spec
CONSTANTS
    Newline = nl
    Text = {"v"}
    JSON <- GenericJSON
    Proc = {p1, p2}
    t1 = t1
    t2 = t2
    Path = {t1}
    Schema = {1}
    Inode = {n1, n2, n3}
    NoPath = NoPath
    NoInode = NoInode
    Empty = Empty
    Torn = Torn
    MaxLen = 2
    MaxFaults = 0
    MaxTruncs = 0
INVARIANT NoPartialReads
