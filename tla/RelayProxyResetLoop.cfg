\* Spec P5: after Reset at most one toRemote loop runs for the peer.
CONSTANTS
    Peers = {p1}
    Actors = {a1}
    MaxInst <- MCMaxInst
    MaxPkts <- MCMaxPkts
    DumpCap <- MCDumpCap
SPECIFICATION Spec
INVARIANT ResetStopsOldLoop
CHECK_DEADLOCK FALSE
