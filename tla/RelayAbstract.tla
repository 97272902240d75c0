---------------------------- MODULE RelayAbstract ----------------------------
(***************************************************************************)
(* What the relay layer promises a peer's traffic (spec.md P1 and 7): the *)
(* tunnel writes datagrams 1, 2, ... for each peer, and the remote peer   *)
(* receives some of them, each at most once and only after it was written. *)
(* Datagrams may be lost (a write error, a closed socket); order is not   *)
(* promised across a Reset, so it is not part of this specification.      *)
(***************************************************************************)
EXTENDS Naturals, Sequences

CONSTANTS Peers, MaxPkts

VARIABLES
    sent,       \* sent[p]: datagrams the tunnel has written for p
    delivered   \* delivered[p]: datagrams the remote peer has received, in order

Received(p) == {delivered[p][k] : k \in DOMAIN delivered[p]}

Init ==
    /\ sent = [p \in Peers |-> 0]
    /\ delivered = [p \in Peers |-> <<>>]

Write(p) ==
    /\ sent[p] < MaxPkts
    /\ sent' = [sent EXCEPT ![p] = @ + 1]
    /\ UNCHANGED delivered

\* The remote peer receives a datagram written and not yet received.
Receive(p) ==
    /\ \E d \in (1..sent[p]) \ Received(p) :
          delivered' = [delivered EXCEPT ![p] = Append(@, d)]
    /\ UNCHANGED sent

Next == \E p \in Peers : Write(p) \/ Receive(p)

Spec == Init /\ [][Next]_<<sent, delivered>>
=============================================================================
