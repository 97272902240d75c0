------------------------------ MODULE PeerStatus ------------------------------
(***************************************************************************)
(* PeerConnectionStatus (nmproxy/proxy/proxy_helper.go): whether the       *)
(* tunnel interface's statistics show a live connection to a peer.  Times  *)
(* are seconds of the wall clock; the GetPeers result is a sequence of     *)
(* records in the order the interface reports its peers.                   *)
(***************************************************************************)
EXTENDS Integers, Sequences

\* -3*time.Minute
Window == 3 * 60

\* The first entry of ifacePeers with the key, as the range loop finds it.
FirstWithKey(ifacePeers, key) ==
    LET I == {i \in DOMAIN ifacePeers : ifacePeers[i].key = key} IN
    CHOOSE i \in I : \A j \in I : i <= j

\* A failed GetPeers or a peer missing from the list is not connected;
\* otherwise the handshake must be strictly later than now minus three
\* minutes and some bytes must have been received or sent.
PeerConnectionStatus(getPeersErr, ifacePeers, key, now) ==
    /\ ~getPeersErr
    /\ \E i \in DOMAIN ifacePeers : ifacePeers[i].key = key
    /\ LET e == ifacePeers[FirstWithKey(ifacePeers, key)] IN
       /\ e.lastHandshake > now - Window
       /\ e.rx + e.tx > 0
=============================================================================
