\* One setup goroutine and three peers on a CIDR of three addresses: relays
\* fill the CIDR, GetFreeIp then reports exhaustion, removals free addresses.
CONSTANTS
    Peers = {p1, p2, p3}
    Actors = {a1}
    NumAddrs <- MCNumAddrs
SPECIFICATION Spec
INVARIANT TypeOK
INVARIANT FreeIpMatchesReference
