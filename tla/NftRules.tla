------------------------------ MODULE NftRules ------------------------------
(***************************************************************************)
(* The nftables rule manager of the router package (nftablesManager): the  *)
(* rules it installs in the kernel for ext clients of an ingress gateway   *)
(* and for the peers of an egress gateway, and the rule tables, per server *)
(* and per table (ingressTable: n.ingRules, egressTable: n.engressRules),  *)
(* in which it records them so that it can delete them later.              *)
(*                                                                         *)
(* Every public operation runs in three critical sections of n.mux:        *)
(*   FetchRuleTable   returns the stored table -- a Go map, so a           *)
(*                    reference to the stored object -- or a fresh map;    *)
(*   the body         installs/deletes rules and edits the fetched map;    *)
(*   SaveRules        (deferred) stores the fetched map for the server,    *)
(*                    or, for CleanRoutingRules, DeleteRuleTable drops it. *)
(* Rule tables are modelled as heap objects obj[o]; the two maps of tables *)
(* and the callers' local variables hold object ids.                       *)
(*                                                                         *)
(* The kernel holds a bag of rules: inserting a rule spec that is already  *)
(* installed installs a second copy, and deleteRule removes the first      *)
(* rule whose UserData (genRuleKey of the spec) matches.  A rulesMap entry *)
(* is a slice of ruleInfo; each element is a distinct record (it holds its *)
(* own nfRule), so two records may carry the same rule spec.               *)
(***************************************************************************)
EXTENDS Naturals, Sequences, FiniteSets, Bags, SequencesExt, TLC

CONSTANTS
    Servers,        \* netmaker servers the host is registered with
    Exts,           \* ext client public keys
    Gateways,       \* egress gateway ids (egressInfo.EgressID)
    PeerKeys,       \* keys of the other peers
    Ranges,         \* egress ranges
    Ifaces,         \* interfaces egress ranges are routed through
    IfaceOf,        \* IfaceOf[r]: getInterfaceName of range r
    Callers,        \* goroutines calling the manager
    Ops,            \* the calls they make (records, see OpKinds)
    MaxObj,         \* rule-table objects that may be live at once
    MaxCopies,      \* bound on the copies of one rule in the kernel
    FlushCanFail    \* whether a netlink Flush may fail

ASSUME /\ FlushCanFail \in BOOLEAN
       /\ MaxObj >= 2 * Cardinality(Servers) + Cardinality(Callers)
       /\ MaxCopies \in Nat \ {0}
       /\ IfaceOf \in [Ranges -> Ifaces]
       /\ (Exts \cup Gateways) \cap PeerKeys = {}

\* The rule tables: one per table name and server.
TblIds == {"ingress", "egress"} \X Servers

VARIABLES
    kernel,         \* bag of installed rule keys
    stored,         \* stored[<<tbl, s>>]: the object held for the table, NoObj if none
    obj,            \* obj[o]: owner key -> (rulesMap: key -> set of ruleInfo)
    curRanges,      \* currEgressRangesMap[s]
    caller,         \* caller[c]: program counter, call and fetched object
    crashed,        \* a goroutine panicked: the process is gone
    known           \* the callers' view: known[ts][e] = peers owner e was given rules for

vars == <<kernel, stored, obj, curRanges, caller, crashed, known>>

-----------------------------------------------------------------------------
(* Rule keys (genRuleKey of each ruleSpec).                                *)

FwdJump(e)    == <<"fwdjump", e, e>>  \* -s ext ! -d gw -j netmakerfilter (FORWARD)
ExtNet(e)     == <<"extnet", e, e>>   \* -s network -d ext -j ACCEPT
ExtPeer(e, q) == <<"extpeer", e, q>>  \* -s ext -d peer -j ACCEPT
ExtEgr(e, r)  == <<"extegr", e, r>>   \* -s ext -d range -j ACCEPT
EgrExt(r, e)  == <<"egrext", e, r>>   \* -s range -d ext -j ACCEPT
MasqSrc(e)    == <<"masqsrc", e, e>>  \* -s ext -o iface -j MASQUERADE (nat)
MasqDst(e)    == <<"masqdst", e, e>>  \* -d ext -o iface -j MASQUERADE (nat)
GwFwd(r)      == <<"gwfwd", r, r>>    \* -i netmaker -d range -j netmakerfilter
PeerEgr(q, r) == <<"peeregr", q, r>>  \* -s peer -d range -j ACCEPT
\* -s network -o iface -j MASQUERADE and -d network -o iface -j MASQUERADE:
\* the network of the server's egress gateway and the range's interface.
MasqNetSrc(s, i) == <<"masqnsrc", s, i>>
MasqNetDst(s, i) == <<"masqndst", s, i>>

EgrKeysOf(e, R) == {ExtEgr(e, r) : r \in R} \cup {EgrExt(r, e) : r \in R}

Keys == {FwdJump(e) : e \in Exts} \cup {ExtNet(e) : e \in Exts}
        \cup {ExtPeer(e, q) : e \in Exts, q \in PeerKeys}
        \cup UNION {EgrKeysOf(e, Ranges) : e \in Exts}
        \cup {MasqSrc(e) : e \in Exts} \cup {MasqDst(e) : e \in Exts}
        \cup {GwFwd(r) : r \in Ranges} \cup {PeerEgr(q, r) : q \in PeerKeys, r \in Ranges}
        \cup {MasqNetSrc(s, i) : s \in Servers, i \in Ifaces}
        \cup {MasqNetDst(s, i) : s \in Servers, i \in Ifaces}

\* ruleInfo: the rule spec and the egressExtRule flag.  A rulesMap entry is
\* a slice of ruleInfo, modelled as a sequence.
Info(k, egr) == [key |-> k, egr |-> egr]

OpKinds == {"insertIngress", "addIngress", "insertEgress", "addEgress",
            "remove", "deleteRule", "refresh", "clean"}

NoObj == 0
Objs == 1..MaxObj

Idle == [pc |-> "idle", op |-> CHOOSE o \in Ops : TRUE, ref |-> NoObj]

\* Keys recorded in a rulesMap entry.
InfoKeys(sq) == {sq[i].key : i \in DOMAIN sq}

\* The records of key k in a rulesMap entry.
Count(sq, k) == Cardinality({i \in DOMAIN sq : sq[i].key = k})

\* The records of a rulesCfg, as <<entry, index>>, and of a table, as
\* <<owner, entry, index>>.
CfgRecs(m) == UNION {{<<x, i>> : i \in DOMAIN m[x]} : x \in DOMAIN m}
TableRecs(t) == UNION {{<<e, p[1], p[2]>> : p \in CfgRecs(t[e])} : e \in DOMAIN t}

\* The keys recorded in a rulesCfg, and in a table, as bags: one copy per
\* record.
CfgKeys(m) ==
    LET key(p) == m[p[1]][p[2]].key IN
    [k \in {key(p) : p \in CfgRecs(m)} |-> Cardinality({p \in CfgRecs(m) : key(p) = k})]
TableKeys(t) ==
    LET key(p) == t[p[1]][p[2]][p[3]].key IN
    [k \in {key(p) : p \in TableRecs(t)} |-> Cardinality({p \in TableRecs(t) : key(p) = k})]

\* Mutant of RulesInOrder: only the rulesMap entry keyed by the owner.
RulesInOrderOwn(m, xs) ==
    FlattenSeq([i \in DOMAIN xs |-> IF xs[i] \in Exts \cup Gateways THEN m[xs[i]] ELSE <<>>])

\* `for _, rules := range rulesCfg.rulesMap { for _, rule := range rules`:
\* the records of a rulesCfg, its entries taken in the (Go map) order xs.
RulesInOrder(m, xs) == FlattenSeq([i \in DOMAIN xs |-> m[xs[i]]])

\* Egress range lists: sequences of distinct ranges.
RangeSeqs == SetToAllKPermutations(Ranges)

TypeOK ==
    /\ IsABag(kernel) /\ BagToSet(kernel) \subseteq Keys
    /\ stored \in [TblIds -> Objs \cup {NoObj}]
    /\ DOMAIN obj = Objs
    /\ \A o \in Objs : /\ DOMAIN obj[o] \subseteq Exts \cup Gateways
                       /\ \A e \in DOMAIN obj[o] : \A x \in DOMAIN obj[o][e] :
                              obj[o][e][x] \in Seq([key : Keys, egr : BOOLEAN])
    /\ curRanges \in [Servers -> RangeSeqs]
    /\ \A c \in Callers : /\ caller[c].pc \in {"idle", "body", "save", "drop"}
                          /\ caller[c].op \in Ops
                          /\ caller[c].ref \in IF caller[c].pc = "idle" THEN {NoObj} ELSE Objs
    /\ crashed \in BOOLEAN

Init ==
    /\ kernel = EmptyBag
    /\ stored = [ts \in TblIds |-> NoObj]
    /\ obj = [o \in Objs |-> <<>>]
    /\ curRanges = [s \in Servers |-> <<>>]
    /\ caller = [c \in Callers |-> Idle]
    /\ crashed = FALSE
    /\ known = [ts \in TblIds |-> <<>>]

-----------------------------------------------------------------------------
(* Kernel.                                                                 *)

\* InsertRule + Flush of each key of ks; ok[k] is that Flush's result.
FlushOutcomes(ks) == [ks -> IF FlushCanFail THEN BOOLEAN ELSE {TRUE}]
Installed(ks, ok) == {k \in ks : ok[k]}

\* deleteRule (getRule, DelRule, Flush) for each record of the sequence sq
\* in order, on the kernel K, stopping at the first error: getRule finds no
\* rule with the record's key, or the Flush fails.  An outcome says whether
\* all were deleted, and the bag of rules that were.
RECURSIVE DeleteUntilError(_, _)
DeleteUntilError(sq, K) ==
    IF sq = <<>> THEN {[done |-> TRUE, del |-> EmptyBag]}
    ELSE LET k == Head(sq).key IN
         IF ~BagIn(k, K) THEN {[done |-> FALSE, del |-> EmptyBag]}
         ELSE (IF FlushCanFail THEN {[done |-> FALSE, del |-> EmptyBag]} ELSE {})
              \cup {[o EXCEPT !.del = @ (+) SetToBag({k})] :
                      o \in DeleteUntilError(Tail(sq), K (-) SetToBag({k}))}

\* deleteRule for each record of the bag kb, logging and skipping errors: a
\* record deletes a copy as long as one is left and its Flush succeeds.
DeleteSkippingErrors(kb) ==
    LET all == [k \in {k \in BagToSet(kb) : BagIn(k, kernel)} |->
                  IF CopiesIn(k, kb) < CopiesIn(k, kernel) THEN CopiesIn(k, kb) ELSE CopiesIn(k, kernel)]
    IN IF FlushCanFail THEN SubBag(all) ELSE {all}

\* The masquerade step of InsertEgressRoutingRules, repeated for the n
\* ranges routed through one interface, on a rule with c copies: deleteRule
\* of the spec (an error, such as no such rule, is ignored), then
\* InsertRule + Flush.  The set of <<copies left, for each iteration
\* whether its insert succeeded (and was recorded)>>.
RECURSIVE MasqSteps(_, _)
MasqSteps(n, c) ==
    IF n = 0 THEN {<<c, <<>>>>}
    ELSE UNION {{<<p[1], <<a = 1>> \o p[2]>> : p \in MasqSteps(n - 1, c - d + a)} :
                  <<d, a>> \in (IF c = 0 THEN {0} ELSE IF FlushCanFail THEN {0, 1} ELSE {1})
                               \X (IF FlushCanFail THEN {0, 1} ELSE {1})}

-----------------------------------------------------------------------------
(* FetchRuleTable, SaveRules, DeleteRuleTable.                             *)

InUse == {stored[ts] : ts \in TblIds} \cup {caller[c].ref : c \in Callers}

\* Mutant of FetchRuleTable: the nil map is returned as is.
FetchRuleTableNil(ts) == stored[ts]

\* Mutant of FetchRuleTable: always a fresh map.
FetchRuleTableFresh(ts) == CHOOSE o \in Objs \ InUse : TRUE

\* FetchRuleTable: the stored map of the table, or make(ruletable) when
\* there is none.
FetchRuleTable(ts) ==
    IF stored[ts] # NoObj THEN stored[ts] ELSE CHOOSE o \in Objs \ InUse : TRUE

\* The table a call works on.
TblOf(op) == <<op.tbl, op.s>>

\* The caller's protocol: which calls it makes given what it has set up.
\* An egress gateway may be inserted again (op.update) when its
\* configuration is sent again.
Allowed(op) ==
    LET K == known[TblOf(op)] IN
    CASE op.kind = "insertIngress"          -> op.e \notin DOMAIN K
      [] op.kind = "insertEgress"           -> op.e \notin DOMAIN K \/ op.update
      [] op.kind \in {"addIngress", "addEgress"} -> op.e \in DOMAIN K /\ op.q \notin K[op.e]
      [] op.kind = "remove"                 -> op.e \in DOMAIN K
      [] op.kind = "deleteRule"             -> op.e \in DOMAIN K /\ op.q \in K[op.e]
      [] OTHER                              -> TRUE

Forget(K, e) == [x \in DOMAIN K \ {e} |-> K[x]]

AfterCall(K, op) ==
    CASE op.kind \in {"insertIngress", "insertEgress"} -> (op.e :> op.peers) @@ K
      [] op.kind \in {"addIngress", "addEgress"}       -> [K EXCEPT ![op.e] = @ \cup {op.q}]
      [] op.kind = "remove"        -> Forget(K, op.e)
      [] op.kind = "deleteRule"    -> [K EXCEPT ![op.e] = @ \ {op.q}]
      [] op.kind = "clean"         -> <<>>
      [] OTHER                     -> K

Adds(op) == op.kind \in {"insertIngress", "addIngress", "insertEgress", "addEgress", "refresh"}

\* A caller makes a call: its first section fetches the rule table.
Call(c) ==
    /\ ~crashed
    /\ caller[c].pc = "idle"
    /\ \E op \in Ops :
          /\ Allowed(op)
          /\ Adds(op) => \A k \in BagToSet(kernel) : CopiesIn(k, kernel) < MaxCopies
          /\ known' = [known EXCEPT ![TblOf(op)] = AfterCall(@, op)]
          /\ LET o == FetchRuleTable(TblOf(op)) IN
             /\ obj' = IF stored[TblOf(op)] = NoObj THEN [obj EXCEPT ![o] = <<>>] ELSE obj
             /\ caller' = [caller EXCEPT ![c] = [pc |-> "body", op |-> op, ref |-> o]]
    /\ UNCHANGED <<kernel, stored, curRanges, crashed>>

\* Deferred SaveRules: n.ingRules[server] (or n.engressRules[server]) =
\* the fetched map.
SaveRules(c) ==
    /\ ~crashed /\ caller[c].pc = "save"
    /\ stored' = [stored EXCEPT ![TblOf(caller[c].op)] = caller[c].ref]
    /\ caller' = [caller EXCEPT ![c] = Idle]
    /\ UNCHANGED <<kernel, obj, curRanges, crashed, known>>

\* Deferred DeleteRuleTable: delete(n.ingRules, server) (or n.engressRules).
DeleteRuleTable(c) ==
    /\ ~crashed /\ caller[c].pc = "drop"
    /\ stored' = [stored EXCEPT ![TblOf(caller[c].op)] = NoObj]
    /\ caller' = [caller EXCEPT ![c] = Idle]
    /\ UNCHANGED <<kernel, obj, curRanges, crashed, known>>

-----------------------------------------------------------------------------
(* The bodies: the second critical section of each call.                   *)

Op(c) == caller[c].op
Tbl(c) == obj[caller[c].ref]

\* Writes the fetched map back to its object and moves to the deferred call.
Finish(c, t, next) ==
    /\ obj' = [obj EXCEPT ![caller[c].ref] = t]
    /\ caller' = [caller EXCEPT ![c].pc = next]

InBody(c, kind) == ~crashed /\ caller[c].pc = "body" /\ Op(c).kind = kind

\* The egress-range records appended for ext e, range by range in the
\* order of R: `-s ext -d range` if its Flush succeeds, and then (a failed
\* Flush `continue`s the loop first) `-s range -d ext` if its Flush does.
EgrRoutes(e, R, ok) ==
    FlattenSeq([j \in DOMAIN R |->
        IF ok[ExtEgr(e, R[j])]
           THEN <<Info(ExtEgr(e, R[j]), TRUE)>>
                \o (IF ok[EgrExt(R[j], e)] THEN <<Info(EgrExt(R[j], e), TRUE)>> ELSE <<>>)
           ELSE <<>>])

\* rulesMap[ext] of a new ext: the FORWARD jump and the network rule, then
\* the egress-range rules and (with Masquerade) the masquerade rules whose
\* Flush succeeded.
IngressRoutes(e, R, m, ok) ==
    <<Info(FwdJump(e), FALSE), Info(ExtNet(e), FALSE)>> \o EgrRoutes(e, R, ok)
    \o (IF m THEN SelectSeq(<<Info(MasqSrc(e), FALSE), Info(MasqDst(e), FALSE)>>, LAMBDA i : ok[i.key])
             ELSE <<>>)

\* InsertIngressRoutingRules: a fresh rulesCfg replaces the ext's entry; the
\* FORWARD jump and the network rule are recorded whether or not their Flush
\* succeeds, the peer, egress-range and masquerade rules only if it does.
\* The egress ranges passed are the gateway's current ones.
InsertIngressRoutingRules(c) ==
    LET e == Op(c).e
        R == curRanges[Op(c).s]
        masqKeys == IF Op(c).masq THEN {MasqSrc(e), MasqDst(e)} ELSE {}
        ks == {FwdJump(e), ExtNet(e)} \cup {ExtPeer(e, q) : q \in Op(c).peers} \cup masqKeys
    IN /\ InBody(c, "insertIngress")
       /\ \E ok \in FlushOutcomes(ks \cup EgrKeysOf(e, Range(R))) :
            LET routes == IngressRoutes(e, R, Op(c).masq, ok)
                peerRules == [q \in {p \in Op(c).peers : ok[ExtPeer(e, p)]} |->
                                <<Info(ExtPeer(e, q), FALSE)>>]
            IN /\ kernel' = kernel (+) SetToBag(Installed(ks, ok) \cup InfoKeys(EgrRoutes(e, R, ok)))
               /\ Finish(c, (e :> ((e :> routes) @@ peerRules)) @@ Tbl(c), "save")
       /\ UNCHANGED <<stored, curRanges, crashed, known>>

\* AddIngressRoutingRule: the rule is inserted, then recorded under
\* ruleTable[ext].rulesMap[peer] whatever Flush returned; with no entry for
\* the ext the map is nil and the assignment panics.
AddIngressRoutingRule(c) ==
    LET e == Op(c).e
        k == ExtPeer(e, Op(c).q)
    IN /\ InBody(c, "addIngress")
       /\ \E ok \in FlushOutcomes({k}) : kernel' = kernel (+) SetToBag(Installed({k}, ok))
       /\ IF e \in DOMAIN Tbl(c)
             THEN /\ Finish(c, [Tbl(c) EXCEPT ![e] = (Op(c).q :> <<Info(k, FALSE)>>) @@ @], "save")
                  /\ UNCHANGED crashed
             ELSE /\ crashed' = TRUE
                  /\ UNCHANGED <<obj, caller>>
       /\ UNCHANGED <<stored, curRanges, known>>

\* RemoveRoutingRules: deletes every rule recorded for the ext or gateway
\* (the rulesMap entries in Go map order, each slice in order) and, if all
\* deletions succeed, its entry; the first error returns with the entry
\* kept.
RemoveRoutingRules(c) ==
    LET e == Op(c).e
        t == Tbl(c)
    IN /\ InBody(c, "remove")
       /\ IF e \notin DOMAIN t
             THEN Finish(c, t, "save") /\ UNCHANGED kernel
             ELSE \E xs \in SetToSeqs(DOMAIN t[e]) :
                  \E out \in DeleteUntilError(RulesInOrder(t[e], xs), kernel) :
                     /\ kernel' = kernel (-) out.del
                     /\ Finish(c, IF out.done THEN Forget(t, e) ELSE t, "save")
       /\ UNCHANGED <<stored, curRanges, crashed, known>>

\* DeleteRoutingRule: deletes the rules recorded under rulesMap[dst] of the
\* src entry, in order until the first error, and leaves the record in place.
DeleteRoutingRule(c) ==
    LET e == Op(c).e
        q == Op(c).q
        t == Tbl(c)
    IN /\ InBody(c, "deleteRule")
       /\ Finish(c, t, "save")
       /\ IF e \notin DOMAIN t \/ q \notin DOMAIN t[e]
             THEN UNCHANGED kernel
             ELSE \E out \in DeleteUntilError(t[e][q], kernel) : kernel' = kernel (-) out.del
       /\ UNCHANGED <<stored, curRanges, crashed, known>>

\* The deletion loop of RefreshEgressRangesOnIngressGw over the exts xs (in
\* Go map order) on kernel K: the egress-range records of rulesMap[ext] are
\* deleted in order and, once all are, rulesMap[ext] keeps the others; the
\* first error returns, leaving that ext's records as they were.  The set of
\* outcomes [done, t: the table, K: the kernel].
RECURSIVE RefreshDelete(_, _, _)
RefreshDelete(t, xs, K) ==
    IF xs = <<>> THEN {[done |-> TRUE, t |-> t, K |-> K]}
    ELSE LET x == Head(xs) IN
         IF x \notin DOMAIN t[x] THEN RefreshDelete(t, Tail(xs), K)
         ELSE UNION {IF o.done
                       THEN RefreshDelete([t EXCEPT ![x][x] = SelectSeq(@, LAMBDA i : ~i.egr)],
                                          Tail(xs), K (-) o.del)
                       ELSE {[done |-> FALSE, t |-> t, K |-> K (-) o.del]} :
                     o \in DeleteUntilError(SelectSeq(t[x][x], LAMBDA i : i.egr), K)}

\* The table with the egress-range rules for R that were installed appended
\* to rulesMap[ext] of each ext.
Record(t, R, ok) ==
    [x \in DOMAIN t |->
        (x :> ((IF x \in DOMAIN t[x] THEN t[x][x] ELSE <<>>) \o EgrRoutes(x, R, ok))) @@ t[x]]

\* RefreshEgressRangesOnIngressGw: when the new ranges are empty or differ
\* in NUMBER from currEgressRangesMap[server], deletes every recorded
\* egress-range rule (returning at the first error) and, for non-empty
\* ranges, installs the rules for the new ranges for every ext in the
\* table; otherwise it returns at once.  The deferred function stores the
\* new ranges in every case.
RefreshEgressRangesOnIngressGw(c) ==
    LET s == Op(c).s
        R == Op(c).ranges
        t == Tbl(c)
        newKeys == UNION {EgrKeysOf(x, Range(R)) : x \in DOMAIN t}
    IN /\ InBody(c, "refresh")
       /\ curRanges' = [curRanges EXCEPT ![s] = R]
       /\ IF R # <<>> /\ Len(R) = Len(curRanges[s])
             THEN Finish(c, t, "save") /\ UNCHANGED kernel
             ELSE \E xs \in SetToSeqs(DOMAIN t) : \E out \in RefreshDelete(t, xs, kernel) :
                    \/ /\ out.done /\ R = <<>>
                       /\ kernel' = out.K
                       /\ Finish(c, out.t, "save")
                    \/ /\ out.done /\ R # <<>>
                       /\ \E ok \in FlushOutcomes(newKeys) :
                            /\ kernel' = out.K (+) SetToBag(UNION {InfoKeys(EgrRoutes(x, R, ok)) : x \in DOMAIN t})
                            /\ Finish(c, Record(out.t, R, ok), "save")
                    \/ /\ ~out.done
                       /\ kernel' = out.K
                       /\ Finish(c, out.t, "save")
       /\ UNCHANGED <<stored, crashed, known>>

\* CleanRoutingRules: deletes every recorded rule, logging and skipping
\* errors; the deferred DeleteRuleTable drops the server's table.
CleanRoutingRules(c) ==
    /\ InBody(c, "clean")
    /\ \E D \in DeleteSkippingErrors(TableKeys(Tbl(c))) : kernel' = kernel (-) D
    /\ Finish(c, Tbl(c), "drop")
    /\ UNCHANGED <<stored, curRanges, crashed, known>>

\* The ranges of R before and at position j routed through the same
\* interface as R[j]: the iteration of the masquerade step for R[j].
Nth(R, j) == Cardinality({i \in 1..j : IfaceOf[R[i]] = IfaceOf[R[j]]})

\* egressGwRoutes, range by range in the order of R: the FORWARD rule if
\* its Flush succeeded, then the masquerade rules whose insert succeeded in
\* that range's iteration (mo[mk][2]).
GwRoutes(s, R, m, ok, mo) ==
    FlattenSeq([j \in DOMAIN R |->
        (IF ok[GwFwd(R[j])] THEN <<Info(GwFwd(R[j]), FALSE)>> ELSE <<>>)
        \o (IF m THEN SelectSeq(<<Info(MasqNetSrc(s, IfaceOf[R[j]]), FALSE),
                                  Info(MasqNetDst(s, IfaceOf[R[j]]), FALSE)>>,
                                LAMBDA i : mo[i.key][2][Nth(R, j)])
                 ELSE <<>>)])

\* rulesMap[peer]: the peer's rule per range of R whose Flush succeeded.
PeerRoutes(q, R, ok) ==
    SelectSeq([j \in DOMAIN R |-> Info(PeerEgr(q, R[j]), FALSE)], LAMBDA i : ok[i.key])

\* InsertEgressRoutingRules: a fresh rulesCfg replaces ruleTable[gw].  For
\* each range: the FORWARD rule, recorded if its Flush succeeds; with NAT,
\* for each of the two masquerade rules of (network, range interface),
\* deleteRule of that spec ("to avoid duplicate iface route rule") and a
\* fresh insert, recorded if its Flush succeeds.  Then for each allowed
\* peer a new rulesMap[peer] with its rule per range, recorded on success;
\* finally rulesMap[gw] = the gateway routes.
InsertEgressRoutingRules(c) ==
    LET g == Op(c).e
        s == Op(c).s
        R == Op(c).ranges
        fwd == {GwFwd(R[j]) : j \in DOMAIN R}
        peer == {PeerEgr(q, R[j]) : q \in Op(c).peers, j \in DOMAIN R}
        masq == IF Op(c).masq
                  THEN UNION {{MasqNetSrc(s, IfaceOf[R[j]]), MasqNetDst(s, IfaceOf[R[j]])} : j \in DOMAIN R}
                  ELSE {}
        steps(mk) == MasqSteps(Cardinality({j \in DOMAIN R : IfaceOf[R[j]] = mk[3]}), CopiesIn(mk, kernel))
    IN /\ InBody(c, "insertEgress")
       /\ \E ok \in FlushOutcomes(fwd \cup peer) :
          \E mo \in {f \in [masq -> UNION {steps(mk) : mk \in masq}] : \A mk \in masq : f[mk] \in steps(mk)} :
            LET masqKernel == [k \in {k \in DOMAIN kernel \cup masq : k \in masq => mo[k][1] > 0} |->
                                 IF k \in masq THEN mo[k][1] ELSE kernel[k]]
                peerRules == [q \in Op(c).peers |-> PeerRoutes(q, R, ok)]
            IN /\ kernel' = masqKernel (+) SetToBag(Installed(fwd \cup peer, ok))
               /\ Finish(c, (g :> ((g :> GwRoutes(s, R, Op(c).masq, ok, mo)) @@ peerRules)) @@ Tbl(c), "save")
       /\ UNCHANGED <<stored, curRanges, crashed, known>>

\* AddEgressRoutingRule: rulesMap[peer] = make(...) on the gateway's entry,
\* which panics when the table has no entry for the gateway (nil map);
\* then the peer's rule per range, recorded if its Flush succeeds.
AddEgressRoutingRule(c) ==
    LET g == Op(c).e
        q == Op(c).q
        R == Op(c).ranges
        ks == {PeerEgr(q, R[j]) : j \in DOMAIN R}
    IN /\ InBody(c, "addEgress")
       /\ IF g \in DOMAIN Tbl(c)
             THEN \E ok \in FlushOutcomes(ks) :
                    /\ kernel' = kernel (+) SetToBag(Installed(ks, ok))
                    /\ Finish(c, [Tbl(c) EXCEPT ![g] = (q :> PeerRoutes(q, R, ok)) @@ @], "save")
                    /\ UNCHANGED crashed
             ELSE /\ crashed' = TRUE
                  /\ UNCHANGED <<kernel, obj, caller>>
       /\ UNCHANGED <<stored, curRanges, known>>

Body(c) ==
    \/ InsertIngressRoutingRules(c)
    \/ AddIngressRoutingRule(c)
    \/ RemoveRoutingRules(c)
    \/ DeleteRoutingRule(c)
    \/ RefreshEgressRangesOnIngressGw(c)
    \/ CleanRoutingRules(c)
    \/ InsertEgressRoutingRules(c)
    \/ AddEgressRoutingRule(c)

\* After a panic the process is gone and nothing moves.
Next == \E c \in Callers : Call(c) \/ Body(c) \/ SaveRules(c) \/ DeleteRuleTable(c)

Spec == Init /\ [][Next]_vars

-----------------------------------------------------------------------------

\* No call in progress and the process alive.
Quiescent == ~crashed /\ \A c \in Callers : caller[c].pc = "idle"

\* The tables stored for the servers.
StoredTbls == {ts \in TblIds : stored[ts] # NoObj}

\* The records of each rule in the stored tables.
StoredKeys == [ts \in StoredTbls |-> TableKeys(obj[stored[ts]])]

\* Between calls, every rule the manager installed in the kernel is recorded
\* in the stored tables (as many times as it is installed), so
\* RemoveRoutingRules and CleanRoutingRules can still find and delete it.
NoOrphanRule ==
    Quiescent =>
        LET recs == StoredKeys IN
        \A k \in BagToSet(kernel) :
            CopiesIn(k, kernel) <= MapThenSumSet(LAMBDA ts : CopiesIn(k, recs[ts]), StoredTbls)

\* Between calls, every installed rule is recorded under an ext client or
\* gateway the callers still have set up: once they have removed one (or
\* cleaned the table), none of its rules is left in the kernel.
RemovedOwnerHasNoRule ==
    Quiescent =>
        \A k \in BagToSet(kernel) : \E ts \in StoredTbls :
            \E e \in DOMAIN known[ts] \cap DOMAIN obj[stored[ts]] :
                BagIn(k, CfgKeys(obj[stored[ts]][e]))

\* Between calls, an ext client of the gateway may reach exactly the egress
\* ranges of the last RefreshEgressRangesOnIngressGw.
EgressRulesMatchRanges ==
    Quiescent =>
        \A s \in Servers : \A e \in DOMAIN known[<<"ingress", s>>] : \A r \in Ranges :
            BagIn(ExtEgr(e, r), kernel) <=> r \in Range(curRanges[s])

\* No call ever panics on the nil rulesMap of an ext client or gateway
\* missing from the table (AddIngressRoutingRule or AddEgressRoutingRule on
\* one the caller has set up).
NoPanic == ~crashed

=============================================================================
