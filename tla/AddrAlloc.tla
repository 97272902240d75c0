------------------------------ MODULE AddrAlloc ------------------------------
(***************************************************************************)
(* GetFreeIp (nmproxy/proxy/proxy_helper.go) and the peer setups that use  *)
(* it.  The CIDR's usable addresses are 1..NumAddrs in iplib order:        *)
(* FirstAddress is 1 and NextIP fails after NumAddrs.  A probe DialUDP     *)
(* from an address fails with "address already in use" while a relay      *)
(* socket holds it, and, on darwin, with "can't assign requested address" *)
(* until the address is an alias of lo0.                                   *)
(*                                                                         *)
(* Setup goroutines (Actors) each set up one new peer at a time: GetFreeIp *)
(* and then the Start of the peer's relay, which binds its LocalConn to   *)
(* the address.  Start and the peer add/remove handlers are not under     *)
(* src/ and are modelled from spec.md (4.1, 4.2).                          *)
(***************************************************************************)
EXTENDS Naturals, FiniteSets, FiniteSetsExt

CONSTANTS
    Peers,      \* peers whose relays are set up
    Actors,     \* goroutines running peer setups
    NumAddrs    \* usable addresses of the CIDR

ASSUME NumAddrs \in Nat \ {0}

VARIABLES
    darwin,     \* runtime.GOOS == "darwin"
    aliases,    \* addresses ifconfig has made aliases of lo0
    relay,      \* relay[p]: address p's relay socket is bound to, 0 if none
    actor       \* actor[a]: a setup goroutine, and the address GetFreeIp gave it

vars == <<darwin, aliases, relay, actor>>

Addrs == 1..NumAddrs

\* Mutant of FirstAddress: the network address instead of iplib's first
\* usable address.
FirstAddressNet == 0

FirstAddress == 1

ActorState == [pc : {"idle", "bind"}, peer : Peers, addr : 0..NumAddrs]

TypeOK ==
    /\ darwin \in BOOLEAN
    /\ aliases \subseteq Addrs
    /\ relay \in [Peers -> 0..NumAddrs]
    /\ actor \in [Actors -> ActorState]

Init ==
    /\ darwin \in BOOLEAN
    /\ aliases = {}
    /\ relay = [p \in Peers |-> 0]
    /\ actor = [a \in Actors |-> [pc |-> "idle", peer |-> CHOOSE p \in Peers : TRUE, addr |-> 0]]

\* Addresses a relay socket is bound to.
Bound == {relay[p] : p \in Peers} \ {0}

\* The DialUDP from address x succeeds: no socket holds it, and on darwin it
\* is an alias of lo0.
Assignable(dw, used, al, x) == x \notin used /\ (dw => x \in al)

-----------------------------------------------------------------------------
(* GetFreeIp's loop as a function of the platform dw, the bound addresses  *)
(* used, the aliases al, the addresses AF whose ifconfig alias command     *)
(* fails (logged, not fatal) and the addresses DF whose DialUDP fails with *)
(* any other error (returned).  The result records whether an address was  *)
(* returned, the last address tried, and the aliases afterwards.           *)

\* Mutant of FreeIpLoop: the address before NextIP's range check is taken
\* for the last one, and exhaustion is reported one address early.
RECURSIVE FreeIpLoopShort(_, _, _, _, _, _)
FreeIpLoopShort(dw, used, al, AF, DF, x) ==
    LET al2 == IF dw /\ x \notin AF THEN al \cup {x} ELSE al IN
    CASE Assignable(dw, used, al2, x) /\ x \notin DF -> [ok |-> TRUE, addr |-> x, aliases |-> al2]
      [] Assignable(dw, used, al2, x)               -> [ok |-> FALSE, addr |-> x, aliases |-> al2]
      [] x + 1 = NumAddrs                            -> [ok |-> FALSE, addr |-> x, aliases |-> al2]
      [] OTHER -> FreeIpLoopShort(dw, used, al2, AF, DF, x + 1)

RECURSIVE FreeIpLoop(_, _, _, _, _, _)
FreeIpLoop(dw, used, al, AF, DF, x) ==
    LET al2 == IF dw /\ x \notin AF THEN al \cup {x} ELSE al IN
    CASE Assignable(dw, used, al2, x) /\ x \notin DF -> [ok |-> TRUE, addr |-> x, aliases |-> al2]
      [] Assignable(dw, used, al2, x)               -> [ok |-> FALSE, addr |-> x, aliases |-> al2]
      [] x = NumAddrs                                -> [ok |-> FALSE, addr |-> x, aliases |-> al2]
      [] OTHER -> FreeIpLoop(dw, used, al2, AF, DF, x + 1)

\* GetFreeIp: a zero dstPort or an unparsable CIDR fails before any probe.
GetFreeIpResult(valid, dw, used, al, AF, DF) ==
    IF valid THEN FreeIpLoop(dw, used, al, AF, DF, FirstAddress)
             ELSE [ok |-> FALSE, addr |-> 0, aliases |-> al]

\* The same result stated without the loop: the first address whose alias
\* and dial would succeed is returned unless its dial fails otherwise; no
\* such address is address-space exhaustion.  Every address up to the last
\* one tried is aliased unless its alias command failed.
FreeIpReference(dw, used, al, AF, DF) ==
    LET S    == {x \in Addrs : x \notin used /\ (dw => x \in al \/ x \notin AF)}
        last == IF S = {} THEN NumAddrs ELSE Min(S)
    IN [ok |-> S # {} /\ last \notin DF, addr |-> last,
        aliases |-> al \cup {x \in 1..last : dw /\ x \notin AF}]

-----------------------------------------------------------------------------
(* Peer setups.                                                            *)

Idle(a) == actor[a].pc = "idle"

\* A setup of a new peer calls GetFreeIp; on an error the setup is
\* abandoned, otherwise the address goes to New/Start.
GetFreeIp(a, p) ==
    /\ Idle(a)
    /\ relay[p] = 0
    /\ \A b \in Actors : Idle(b) \/ actor[b].peer # p
    /\ \E valid \in BOOLEAN, AF \in SUBSET Addrs, DF \in SUBSET Addrs :
          LET r == GetFreeIpResult(valid, darwin, Bound, aliases, AF, DF) IN
          /\ aliases' = r.aliases
          /\ actor' = IF r.ok THEN [actor EXCEPT ![a] = [pc |-> "bind", peer |-> p, addr |-> r.addr]]
                              ELSE actor
    /\ UNCHANGED <<darwin, relay>>

\* Start binds LocalConn to the address: the bind fails while another
\* relay socket holds it.  Either way the setup goroutine is done.
StartBind(a) ==
    LET p == actor[a].peer
        x == actor[a].addr
    IN
    /\ actor[a].pc = "bind"
    /\ relay' = IF Assignable(darwin, Bound, aliases, x) THEN [relay EXCEPT ![p] = x] ELSE relay
    /\ actor' = [actor EXCEPT ![a] = [@ EXCEPT !.pc = "idle", !.addr = 0]]
    /\ UNCHANGED <<darwin, aliases>>

\* The peer leaves: StopConn closes its relay and frees the address; the
\* lo0 alias stays.
RemovePeer(p) ==
    /\ relay[p] # 0
    /\ relay' = [relay EXCEPT ![p] = 0]
    /\ UNCHANGED <<darwin, aliases, actor>>

Next ==
    \/ \E a \in Actors, p \in Peers : GetFreeIp(a, p)
    \/ \E a \in Actors : StartBind(a)
    \/ \E p \in Peers : RemovePeer(p)

Spec == Init /\ [][Next]_vars

-----------------------------------------------------------------------------
(* Properties.                                                             *)

\* GetFreeIp's probing loop returns what its contract says, for the current
\* bound addresses and aliases and every pattern of alias and dial failures:
\* the first usable address of the CIDR, exhaustion, or the first fatal
\* dial error.
FreeIpMatchesReference ==
    \A AF, DF \in SUBSET Addrs :
        FreeIpLoop(darwin, Bound, aliases, AF, DF, FirstAddress)
            = FreeIpReference(darwin, Bound, aliases, AF, DF)

\* The refinement mapping: the address a setup holds between GetFreeIp and
\* Start is the abstract pending reservation.
PendingAddr ==
    [p \in Peers |-> IF \E a \in Actors : actor[a].pc = "bind" /\ actor[a].peer = p
                     THEN actor[CHOOSE a \in Actors : actor[a].pc = "bind" /\ actor[a].peer = p].addr
                     ELSE 0]

Abstract == INSTANCE AddrAllocAbstract WITH pending <- PendingAddr

\* Spec P3 and the localConn invariant: every address GetFreeIp hands out is
\* one no relay holds and no other setup was given, and the Start that
\* follows binds it.
ImplementsAbstract == Abstract!Spec
=============================================================================
