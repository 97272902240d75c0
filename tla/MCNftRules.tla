---------------------------- MODULE MCNftRules ----------------------------
(* Instantiation of NftRules for TLC: one server, ext clients e1 (and e2), *)
(* one egress gateway g1, one peer key q1 and two egress ranges.           *)
EXTENDS NftRules

CONSTANTS s1, e1, e2, g1, q1, r1, r2, i1, i2

Mk(k, t, e, q, P, m, R, u) ==
    [kind |-> k, tbl |-> t, s |-> s1, e |-> e, q |-> q, peers |-> P, masq |-> m,
     ranges |-> R, update |-> u]

\* Every call with the parameters the ingress handlers pass.
MCOps ==
    {Mk("insertIngress", "ingress", e, q1, P, m, <<>>, FALSE) : e \in Exts, P \in SUBSET PeerKeys, m \in BOOLEAN}
    \cup {Mk(k, "ingress", e, q1, {}, FALSE, <<>>, FALSE) : k \in {"addIngress", "remove", "deleteRule"}, e \in Exts}
    \cup {Mk("refresh", "ingress", e1, q1, {}, FALSE, R, FALSE) : R \in RangeSeqs}
    \cup {Mk("clean", "ingress", e1, q1, {}, FALSE, <<>>, FALSE)}

\* Ops without DeleteRoutingRule.
MCOpsNoDelete == {o \in MCOps : o.kind # "deleteRule"}

\* Ops with a single ext client and no masquerade rules.
MCOpsOneExt == {o \in MCOps : o.e = e1 /\ ~o.masq}

\* Every call with the parameters the egress handlers pass for gateway g1,
\* whose configuration has all the ranges (in either order); a gateway's configuration may
\* be sent again (update).
MCEgressOps ==
    {Mk("insertEgress", "egress", g1, q1, P, m, R, u) :
        P \in SUBSET PeerKeys, m \in BOOLEAN, R \in SetToSeqs(Ranges), u \in BOOLEAN}
    \cup {Mk(k, "egress", g1, q, {}, FALSE, R, FALSE) :
            k \in {"addEgress", "deleteRule"}, q \in PeerKeys, R \in SetToSeqs(Ranges)}
    \cup {Mk(k, "egress", g1, q1, {}, FALSE, <<>>, FALSE) : k \in {"remove", "clean"}}

\* Egress ops with each gateway inserted once and no DeleteRoutingRule.
MCEgressFirst == {o \in MCEgressOps : ~o.update /\ o.kind # "deleteRule"}

\* Ingress and egress ops, each owner inserted once, no DeleteRoutingRule.
MCOpsSerial == MCOpsNoDelete \cup MCEgressFirst

\* Egress ops with NAT, the gateway inserted once, no DeleteRoutingRule.
MCEgressNat == {o \in MCEgressFirst : o.kind = "insertEgress" => o.masq}

\* Egress ops in which the gateway's configuration may be sent again.
MCEgressUpdate == {o \in MCEgressOps : o.kind # "deleteRule" /\ ~o.masq}

\* The two ranges routed through different interfaces, or the same one.
MCIfaceSplit == (r1 :> i1) @@ (r2 :> i2)
MCIfaceShared == [r \in Ranges |-> i1]

MCMaxObj == 4
MCMaxCopies == 2
=============================================================================
