SPECIFICATION Spec
CONSTANTS
    Threads = {t1, t2}
    Handles = {h1, h2}
    NoHandle = NoHandle
    Svcs = {s1}
    Codes = {c1}
    c1 = c1
    Sids = {i1, i2, i3}
    NoSvc = NoSvc
    NoSid = NoSid
    NoThread = NoThread
    SvcCode <- MCSvcCode
    MaxQueue = 3
SYMMETRY Symmetry
PROPERTY PoolSpec
INVARIANTS
    TypeOK
    PoolConsistent
    NoSessionLeak
    WaiterHasTask
    LateExecuteStaysInSession
    SidNotStale
