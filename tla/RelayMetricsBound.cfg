\* Two servers, three datagrams of length 1 or 2, ProxyStatus set.
CONSTANTS
    Servers = {s1, s2}
    Sizes <- MCSizes
    MaxPkts <- MCMaxPkts
    ProxyStatus = TRUE
SPECIFICATION Spec
INVARIANT TypeOK
\* The loop stops reading once the bounded traffic is consumed.
CHECK_DEADLOCK FALSE
