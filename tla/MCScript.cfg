SPECIFICATION Spec
CONSTANTS
    Client = {1, 2}
    MaxVersion = 3
    Bits = 2
    BackupCount = 1
    Peer = {p1}
    CallbackSets = {{"gathering"}, {"candidate", "media_ready"}}
    MaxAsks = 1
    MaxPosted = 2
INVARIANTS ScriptNotBehindMd5 StartHasScript
PROPERTIES StartReturns RtcQuiet SdpAnswered
CHECK_DEADLOCK FALSE
