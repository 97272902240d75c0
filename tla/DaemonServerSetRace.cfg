\* Two servers: their messageQueue goroutines store their clients in
\* ServerSet at the same time, or one stores while closeRoutines ranges.
CONSTANTS
    Servers = {s1, s2}
    ChanCap <- MCChanCap
    ProxyStatusValues = {FALSE}
    MaxResets <- MCMaxResets
    MaxUpdates <- MCMaxUpdates
SPECIFICATION Spec
INVARIANT ServerSetExclusive
CHECK_DEADLOCK FALSE
