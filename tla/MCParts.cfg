SPECIFICATION Spec
CONSTANTS
    User = {"t"}
    Teacher = "t"
    NoLayer = 0
    RemoteTools = {"pen"}
    LocalModes = {"laser"}
    Infos <- MCInfos
    MaxLayers = 3
    MaxBlocks = 2
    MaxPages = 3
    MaxInputs = 6
    Uid = {"u"}
    MediaTypes = {{"audio", "video"}}
    MaxCalls = 4
    MaxQueue = 2
    Coroutines = {"c1", "c2"}
    Sizes = {2, 4}
    Width = 8
    Numbers = 5
    MaxLen = 2
    GivenUpReads <- NoReads
    Capacities = {1, 2, 3}
    MaxObjs = 1
    Bytes = {1, 2}
    Writer = {w1}
    VolumeCounts = {0, 1, 3}
    VolumeSize = 4
    MaxLine = 2
    MsgLength = 4
    Lengths = {2}
    LogLevel = 3
    Levels = {3, 5}
    MaxWritten = 5
    MaxRestarts = 2
    MaxClock = 2
    MaxWaiting = 1
    Worker = {t1, t2}
    queue_size = 2
    Scripts <- MCScripts
    Codes = {1, 2}
    Coroutine = {c1, c2}
    MaxOpens = 3
    CodecType = {"VP8", "VP9", "H264"}
    kMaxPendingFrames <- MCPending
    MAX_QUEUED_OUTPUTBUFFERS = 3
    MaxReleases = 2
CHECK_DEADLOCK FALSE
INVARIANTS BoardInv AudioFollows BuffersInv LogInv ThreadInv EngineInv DecoderInv
PROPERTIES LeftQuiet OnlyOldestLost
