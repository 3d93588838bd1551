SPECIFICATION Spec
CONSTANTS
    c1 = c1
    c2 = c2
    Cmd = {c1, c2}
    Gear = {opus}
    NoGear = NoGear
    Proc = {p1, p2}
    Inode = {i1, i2, i3}
    None = None
    Link = Link
    Empty = Empty
    Torn = Torn
    Want <- MCWant
    Start <- MCStart
    MaxFaults = 1
INVARIANTS TypeOK NoDuplicate CompleteFile NothingLost
PROPERTIES LinkKept KeepsPromise
