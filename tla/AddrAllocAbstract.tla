-------------------------- MODULE AddrAllocAbstract --------------------------
(***************************************************************************)
(* What the address allocator promises a peer setup (spec.md 4.2, P3 and   *)
(* the RelayEndpoint invariant that localConn is never shared): a setup    *)
(* is given an address of the CIDR that no relay holds and no other setup  *)
(* has been given, or nothing; the relay it starts then binds that        *)
(* address.  A removed peer releases its address.                          *)
(***************************************************************************)
EXTENDS Naturals

CONSTANTS Peers, NumAddrs

VARIABLES
    relay,      \* relay[p]: address p's relay socket holds, 0 if none
    pending     \* pending[p]: address handed to p's setup, not yet bound

Addrs == 1..NumAddrs

Taken == {relay[p] : p \in Peers} \cup {pending[p] : p \in Peers}

Init ==
    /\ relay = [p \in Peers |-> 0]
    /\ pending = [p \in Peers |-> 0]

\* The allocator hands p an address nobody holds or has been given.
Alloc(p) ==
    /\ relay[p] = 0 /\ pending[p] = 0
    /\ \E a \in Addrs \ Taken : pending' = [pending EXCEPT ![p] = a]
    /\ UNCHANGED relay

\* The relay's socket binds the address it was given.
Bind(p) ==
    /\ pending[p] # 0
    /\ relay' = [relay EXCEPT ![p] = pending[p]]
    /\ pending' = [pending EXCEPT ![p] = 0]

Release(p) ==
    /\ relay[p] # 0
    /\ relay' = [relay EXCEPT ![p] = 0]
    /\ UNCHANGED pending

Next == \E p \in Peers : Alloc(p) \/ Bind(p) \/ Release(p)

\* A failed allocation changes nothing: it is a stuttering step.
Spec == Init /\ [][Next]_<<relay, pending>>
=============================================================================
