SPECIFICATION MCSpec
CONSTANTS
    s1 = s1
    s2 = s2
    p1 = p1
    p2 = p2
    stamp = stamp
    a = a
    b = b
    Session = {s1, s2}
    Title = {stamp, a, b}
    NoTitle = NoTitle
    Picker = {p1, p2}
    Threshold = 1
    NoEntry = NoEntry
    MaxTime = 4
    MaxLines = 4
    MaxFaults = 1
    Stamp = stamp
    Contains <- MCContains
    Pid = {1, 2}
    NoFile = NoFile
    Limit = 1
    Wanted = {a}
    Stamped = {s1}
    Long = {b}
    Rollout = {r1}
CHECK_DEADLOCK FALSE
INVARIANTS CacheSound ListingTrue RenameShown NameResolves LimitExact
