SPECIFICATION Spec
CONSTANTS
    Responses <- GoodResponses
    Modes <- AllModes
    Verdicts = {"accept", "reject", "error", "close"}
    MaxContentLength = 3
    MaxRedirects = 1
    ReadSizes = {1, 2}
    Session = {s1}
    MaxConnects = 1
    Reconnects = 1
    MaxWrites = 2
    MaxReads = 2
    Timer = {t1, t2}
    Intervals = {0, 40}
    Counts <- TimerCounts
    MaxFires = 4
INVARIANTS GetAnswered BodyIntact LwsInv
PROPERTIES OneOffCloses ModulesQuiet ModulesAnswer
CHECK_DEADLOCK FALSE
