\* One caller refreshing the egress ranges of the gateway.
CONSTANTS
    s1 = s1  e1 = e1  e2 = e2  g1 = g1  q1 = q1  r1 = r1  r2 = r2  i1 = i1  i2 = i2
    Servers = {s1}
    Exts = {e1, e2}
    Gateways = {g1}
    PeerKeys = {q1}
    Ranges = {r1, r2}
    Ifaces = {i1, i2}
    IfaceOf <- MCIfaceSplit
    Callers = {c1}
    Ops <- MCOpsOneExt
    MaxObj <- MCMaxObj
    MaxCopies <- MCMaxCopies
    FlushCanFail = FALSE
SPECIFICATION Spec
INVARIANT EgressRulesMatchRanges
