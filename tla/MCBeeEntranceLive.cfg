SPECIFICATION FairSpec
CONSTANTS
    Threads = {t1, t2}
    Handles = {h1}
    NoHandle = NoHandle
    Svcs = {s1}
    Codes = {c1}
    c1 = c1
    Sids = {i1, i2}
    NoSvc = NoSvc
    NoSid = NoSid
    NoThread = NoThread
    SvcCode <- MCSvcCode
    MaxQueue = 3
PROPERTIES
    CallReturns
    StopEnds
