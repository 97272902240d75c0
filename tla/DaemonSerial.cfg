\* Two servers, two SIGHUPs and a SIGTERM, one forwarded peer update, and a
\* proxy that every reset starts again (ProxyStatus false).
CONSTANTS
    Servers = {s1, s2}
    ChanCap <- MCChanCap
    ProxyStatusValues = {FALSE}
    MaxResets <- MCMaxResets
    MaxUpdates <- MCMaxUpdates
SPECIFICATION Spec
PROPERTY ShutdownCompletes
PROPERTY ProxyDrainsChan
CHECK_DEADLOCK FALSE
