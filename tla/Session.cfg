SPECIFICATION MCSpec
CONSTANTS
    t1 = t1
    t2 = t2
    NoId = NoId
    ToolId = {t1, t2}
    Entry <- MCEntry
    MaxEntries = 5
INVARIANTS TypeOK VerdictExact TurnCountExact VerdictsAgree
INVARIANTS ShownOnce ResultsAnswerCalls CyclesPartition
PROPERTY SettledChunks
CHECK_DEADLOCK FALSE
