SPECIFICATION Spec
CONSTANTS
    Hosts = {h1, h2}
    First = h1
    N = 3
    StartIndex = 1
    Tls = {TRUE, FALSE}
    ConnectTimeouts = {2, 5}
    EndpointTimeout = 2
    MaxRedirects = 2
    MaxClients = 2
    MaxOpens = 2
    MaxPackets = 2
    MaxQueue = 2
    Urls <- MCUrls
    Responses <- MCResponses
    Vals <- MCVals
    Ports = {80, 8080}
    Offsets <- MCOffsets
    MaxChanges = 3
CHECK_DEADLOCK FALSE
INVARIANTS ExchangeHasSocket SentOnce NothingStuck SidReachesServer MessageInv
PROPERTIES AllEndpointsTried ConnectReports SuccessIsFinal ClientReplaced
