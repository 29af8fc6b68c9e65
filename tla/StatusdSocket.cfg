SPECIFICATION StatusdSpec
CONSTANTS
    MaxClients = 2
    MaxOpens = 0
    MaxPackets = 3
    MaxQueue = 2
CHECK_DEADLOCK FALSE
INVARIANT WritesHaveSocket
