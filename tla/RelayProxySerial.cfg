\* One control-plane goroutine: Add, Remove and Reset are serialised.
CONSTANTS
    Peers = {p1}
    Actors = {a1}
    MaxInst <- MCMaxInst
    MaxPkts <- MCMaxPkts
    DumpCap <- MCDumpCap
SPECIFICATION Spec
INVARIANT TypeOK
INVARIANT IndicesAgree
PROPERTY ClosedLoopEnds
 
\* The relay really stops: loops block in LocalConn.Read once the tunnel is quiet.
CHECK_DEADLOCK FALSE
PROPERTY ImplementsRelayAbstract
