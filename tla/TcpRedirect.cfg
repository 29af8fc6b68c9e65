SPECIFICATION TcpSpec
CONSTANTS
    Hosts = {h1, h2}
    First = h1
    N = 1
    StartIndex = 0
    Tls = {FALSE}
    ConnectTimeouts = {3}
    EndpointTimeout = 3
    MaxRedirects = 1
CHECK_DEADLOCK FALSE
INVARIANT RedirectReachesHost
