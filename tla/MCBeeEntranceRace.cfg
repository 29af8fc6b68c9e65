SPECIFICATION Spec
CONSTANTS
    Threads = {t1}
    Handles = {h1}
    NoHandle = NoHandle
    Svcs = {s1}
    Codes = {c1}
    c1 = c1
    Sids = {i1, i2}
    NoSvc = NoSvc
    NoSid = NoSid
    NoThread = NoThread
    SvcCode <- MCSvcCode
    MaxQueue = 2
INVARIANT SessionStateInTable
