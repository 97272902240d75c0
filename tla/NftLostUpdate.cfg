\* Two callers on one server, Flush never fails, no DeleteRoutingRule.
CONSTANTS
    s1 = s1  e1 = e1  e2 = e2  g1 = g1  q1 = q1  r1 = r1  r2 = r2  i1 = i1  i2 = i2
    Servers = {s1}
    Exts = {e1, e2}
    Gateways = {g1}
    PeerKeys = {q1}
    Ranges = {r1, r2}
    Ifaces = {i1, i2}
    IfaceOf <- MCIfaceSplit
    Callers = {c1, c2}
    Ops <- MCOpsNoDelete
    MaxObj <- MCMaxObj
    MaxCopies <- MCMaxCopies
    FlushCanFail = FALSE
SPECIFICATION Spec
INVARIANT NoOrphanRule
CHECK_DEADLOCK FALSE
