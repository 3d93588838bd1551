SPECIFICATION MCSpec
CONSTANTS
    t1 = t1
    t2 = t2
    NoId = NoId
    ToolId = {t1, t2}
    Entry <- MCEntry
    MaxEntries = 4
INVARIANT PendingMeansUnanswered
CHECK_DEADLOCK FALSE
