----------------------------- MODULE RelayProxy -----------------------------
(***************************************************************************)
(* The per-peer UDP relay of nmproxy/proxy (proxy_helper.go): one Proxy    *)
(* instance per peer owns a loopback socket (LocalConn) and a toRemote     *)
(* loop that forwards what the tunnel writes there to the remote peer.     *)
(* Proxy.Reset closes the instance, builds a new one, starts it and        *)
(* publishes it in the peer registry under the peer key and under the      *)
(* peer hash, then signals the persistence task.                           *)
(*                                                                         *)
(* Instances are numbered 1..MaxInst in creation order.  Datagrams are the *)
(* numbers 1..MaxPkts written by the tunnel in that order.  Control-plane  *)
(* goroutines (Actors) add and remove peers and call the ResetConn handle  *)
(* they read from the registry.                                            *)
(***************************************************************************)
EXTENDS Naturals, Sequences, FiniteSets

CONSTANTS
    Peers,      \* peer public keys
    Actors,     \* control-plane goroutines calling Add/Remove/Reset
    MaxInst,    \* bound on Proxy instances created by New
    MaxPkts,    \* bound on datagrams the tunnel writes per peer
    DumpCap     \* capacity of config.DumpSignalChan

ASSUME MaxInst \in Nat \ {0} /\ MaxPkts \in Nat /\ DumpCap \in Nat

VARIABLES
    inst,       \* inst[i]: state of Proxy instance i
    sock,       \* sock[i]: datagrams queued on instance i's LocalConn
    wgEp,       \* wgEp[p]: instance whose LocalConn the tunnel sends p's traffic to (0: none)
    sent,       \* sent[p]: datagrams the tunnel has written for p
    delivered,  \* delivered[p]: datagrams written to the remote peer, in order
    byKey,      \* registry entry by public key: [inst, ep] or Absent
    byHash,     \* registry entry by peer hash: the LocalConn's instance, 0 if absent
    actor,      \* actor[a]: program counter of a control-plane goroutine
    dumpq,      \* signals pending on DumpSignalChan
    nextInst    \* id of the next instance New creates

vars == <<inst, sock, wgEp, sent, delivered, byKey, byHash, actor, dumpq, nextInst>>

InstIds == 1..MaxInst
Absent  == [inst |-> 0, ep |-> FALSE]
Entry   == [inst : InstIds, ep : BOOLEAN] \cup {Absent}

\* Lifecycle of an instance.  ctx is the Proxy's context; conn its LocalConn;
\* loop the toRemote goroutine: "none" not launched, "idle" at the select,
\* "reading" blocked in LocalConn.Read, "held" holding a datagram, "done" returned.
InstState == [peer : Peers, ep : BOOLEAN, ctx : {"live", "cancelled"},
              conn : {"unbound", "open", "closed"},
              loop : {"none", "idle", "reading", "held", "done"},
              held : 0..MaxPkts]

Unused == [peer |-> CHOOSE p \in Peers : TRUE, ep |-> FALSE, ctx |-> "live",
           conn |-> "unbound", loop |-> "none", held |-> 0]

ActorPc == {"idle", "start", "getKey", "saveKey", "getHash", "saveHash", "dump"}

TypeOK ==
    /\ inst \in [InstIds -> InstState]
    /\ sock \in [InstIds -> Seq(1..MaxPkts)]
    /\ wgEp \in [Peers -> 0..MaxInst]
    /\ sent \in [Peers -> 0..MaxPkts]
    /\ delivered \in [Peers -> Seq(1..MaxPkts)]
    /\ byKey \in [Peers -> Entry]
    /\ byHash \in [Peers -> 0..MaxInst]
    /\ actor \in [Actors -> [pc : ActorPc, peer : Peers, old : 0..MaxInst, new : 0..MaxInst]]
    /\ dumpq \in 0..DumpCap
    /\ nextInst \in 1..(MaxInst + 1)

Init ==
    /\ inst = [i \in InstIds |-> Unused]
    /\ sock = [i \in InstIds |-> <<>>]
    /\ wgEp = [p \in Peers |-> 0]
    /\ sent = [p \in Peers |-> 0]
    /\ delivered = [p \in Peers |-> <<>>]
    /\ byKey = [p \in Peers |-> Absent]
    /\ byHash = [p \in Peers |-> 0]
    /\ actor = [a \in Actors |-> [pc |-> "idle", peer |-> CHOOSE p \in Peers : TRUE,
                                  old |-> 0, new |-> 0]]
    /\ dumpq = 0
    /\ nextInst = 1

-----------------------------------------------------------------------------
(* Proxy lifecycle.                                                        *)

\* Mutant of Close: the context is cancelled but LocalConn stays open.
CloseCancelOnly(i) ==
    inst' = [inst EXCEPT ![i].ctx = "cancelled"]

\* Proxy.Close: cancel the context and close LocalConn (idempotent).
Close(i) ==
    inst' = [inst EXCEPT ![i].ctx = "cancelled",
                         ![i].conn = IF @ = "open" THEN "closed" ELSE @]

\* LocalConn binds the peer's allocated loopback address: the bind fails while
\* another instance of the same peer still holds it open.
AddrFree(p) == \A k \in InstIds : inst[k].peer = p => inst[k].conn # "open"

\* Proxy.updateEndpoint: the tunnel's endpoint for the peer becomes LocalConn.
updateEndpoint(p, j) == wgEp' = [wgEp EXCEPT ![p] = j]

\* New(cfg) followed by a successful Start: bind LocalConn, update the tunnel
\* endpoint and launch ProxyPeer, whose goroutine runs toRemote.
StartOk(j, p, ep) ==
    /\ AddrFree(p)
    /\ inst' = [inst EXCEPT ![j] = [peer |-> p, ep |-> ep, ctx |-> "live",
                                    conn |-> "open", loop |-> "idle", held |-> 0]]
    /\ updateEndpoint(p, j)

\* New(cfg) followed by a Start that fails to create LocalConn.
StartFail(j, p, ep) ==
    /\ inst' = [inst EXCEPT ![j] = [Unused EXCEPT !.peer = p, !.ep = ep]]
    /\ UNCHANGED wgEp

-----------------------------------------------------------------------------
(* The toRemote loop of instance i.                                        *)

\* select on p.Ctx.Done(): return if cancelled, otherwise go to Read.
CheckCtx(i) ==
    /\ inst[i].loop = "idle"
    /\ inst' = [inst EXCEPT ![i].loop = IF inst[i].ctx = "cancelled" THEN "done" ELSE "reading"]
    /\ UNCHANGED <<sock, wgEp, sent, delivered, byKey, byHash, actor, dumpq, nextInst>>

\* Mutant of Read: the datagram is copied out of the socket's queue but
\* left there, so the next Read returns it again.
ReadPeek(i) ==
    /\ inst[i].loop = "reading"
    /\ \/ /\ inst[i].conn = "closed"
          /\ inst' = [inst EXCEPT ![i].loop = "done"]
       \/ /\ inst[i].conn = "open"
          /\ sock[i] # <<>>
          /\ inst' = [inst EXCEPT ![i].loop = "held", ![i].held = Head(sock[i])]
    /\ UNCHANGED <<sock, wgEp, sent, delivered, byKey, byHash, actor, dumpq, nextInst>>

\* LocalConn.Read: an error (the socket was closed) ends the loop; otherwise
\* it blocks until a datagram is queued.
Read(i) ==
    /\ inst[i].loop = "reading"
    /\ \/ /\ inst[i].conn = "closed"
          /\ inst' = [inst EXCEPT ![i].loop = "done"]
          /\ UNCHANGED sock
       \/ /\ inst[i].conn = "open"
          /\ sock[i] # <<>>
          /\ inst' = [inst EXCEPT ![i].loop = "held", ![i].held = Head(sock[i])]
          /\ sock' = [sock EXCEPT ![i] = Tail(@)]
    /\ UNCHANGED <<wgEp, sent, delivered, byKey, byHash, actor, dumpq, nextInst>>

\* Write the datagram to RemoteConn through the TURN conn or the shared
\* uplink; a write error is logged and the datagram dropped.  Either way the
\* loop goes back to the select.
Forward(i) ==
    LET p == inst[i].peer IN
    /\ inst[i].loop = "held"
    /\ \/ delivered' = [delivered EXCEPT ![p] = Append(@, inst[i].held)]
       \/ UNCHANGED delivered
    /\ inst' = [inst EXCEPT ![i].loop = "idle", ![i].held = 0]
    /\ UNCHANGED <<sock, wgEp, sent, byKey, byHash, actor, dumpq, nextInst>>

-----------------------------------------------------------------------------
(* The tunnel writes the next datagram for p to its current endpoint; a    *)
(* datagram sent to a closed or unbound socket is lost.                     *)
TunnelSend(p) ==
    LET d == sent[p] + 1
        j == wgEp[p]
    IN
    /\ sent[p] < MaxPkts
    /\ sent' = [sent EXCEPT ![p] = d]
    /\ IF j # 0 /\ inst[j].conn = "open"
          THEN sock' = [sock EXCEPT ![j] = Append(@, d)]
          ELSE UNCHANGED sock
    /\ UNCHANGED <<inst, wgEp, delivered, byKey, byHash, actor, dumpq, nextInst>>

-----------------------------------------------------------------------------
(* Control plane: establishing and removing a peer relay.                  *)

Idle(a) == actor[a].pc = "idle"

\* A new peer: New, Start, and on success save both registry entries.
AddPeer(a, p) ==
    LET j == nextInst IN
    /\ Idle(a)
    /\ byKey[p] = Absent
    /\ nextInst <= MaxInst
    /\ nextInst' = nextInst + 1
    /\ \E ep \in BOOLEAN :
          \/ /\ StartOk(j, p, ep)
             /\ byKey' = [byKey EXCEPT ![p] = [inst |-> j, ep |-> ep]]
             /\ byHash' = [byHash EXCEPT ![p] = j]
          \/ /\ StartFail(j, p, ep)
             /\ UNCHANGED <<byKey, byHash>>
    /\ UNCHANGED <<sock, sent, delivered, actor, dumpq>>

\* The peer leaves the mesh: call its StopConn handle and delete both entries.
RemovePeer(a, p) ==
    /\ Idle(a)
    /\ byKey[p] # Absent
    /\ Close(byKey[p].inst)
    /\ wgEp' = [wgEp EXCEPT ![p] = 0]
    /\ byKey' = [byKey EXCEPT ![p] = Absent]
    /\ byHash' = [byHash EXCEPT ![p] = 0]
    /\ UNCHANGED <<sock, sent, delivered, actor, dumpq, nextInst>>

-----------------------------------------------------------------------------
(* Proxy.Reset, called through the ResetConn handle of the registry entry. *)

SetPc(a, pc) == actor' = [actor EXCEPT ![a].pc = pc]

\* p.Close(); return early if the config has no peer endpoint.
ResetClose(a, p) ==
    LET i == byKey[p].inst IN
    /\ Idle(a)
    /\ byKey[p] # Absent
    /\ nextInst <= MaxInst    \* bound: an instance is left for the Reset to start
    /\ Close(i)
    /\ actor' = [actor EXCEPT ![a] = [pc |-> IF inst[i].ep THEN "start" ELSE "idle",
                                      peer |-> p, old |-> i, new |-> 0]]
    /\ UNCHANGED <<sock, wgEp, sent, delivered, byKey, byHash, dumpq, nextInst>>

\* Proxy.pullLatestConfig: the endpoint of the registry entry, or, when the
\* peer is not found, the config the old instance already had.
pullLatestConfig(p, old) == IF byKey[p] # Absent THEN byKey[p].ep ELSE inst[old].ep

\* pullLatestConfig (its "peer not found" error is only logged), then
\* p = New(p.Config) and p.Start(); a failed Start returns.
ResetStart(a) ==
    LET p  == actor[a].peer
        j  == nextInst
        ep == pullLatestConfig(p, actor[a].old)
    IN
    /\ actor[a].pc = "start"
    /\ nextInst <= MaxInst
    /\ nextInst' = nextInst + 1
    /\ \/ /\ StartOk(j, p, ep)
          /\ actor' = [actor EXCEPT ![a].pc = "getKey", ![a].new = j]
       \/ /\ StartFail(j, p, ep)
          /\ actor' = [actor EXCEPT ![a].pc = "idle"]
    /\ UNCHANGED <<sock, sent, delivered, byKey, byHash, dumpq>>

\* config.GetCfg().GetPeer: the entry is copied out under the registry lock.
ResetGetKey(a) ==
    /\ actor[a].pc = "getKey"
    /\ SetPc(a, IF byKey[actor[a].peer] # Absent THEN "saveKey" ELSE "getHash")
    /\ UNCHANGED <<inst, sock, wgEp, sent, delivered, byKey, byHash, dumpq, nextInst>>

\* SavePeer(&peer): the copy, now naming the new instance, is written back.
ResetSaveKey(a) ==
    LET j == actor[a].new IN
    /\ actor[a].pc = "saveKey"
    /\ byKey' = [byKey EXCEPT ![actor[a].peer] = [inst |-> j, ep |-> inst[j].ep]]
    /\ SetPc(a, "getHash")
    /\ UNCHANGED <<inst, sock, wgEp, sent, delivered, byHash, dumpq, nextInst>>

\* Mutant of ResetGetHash: the lookup uses a hash the registry does not hold.
ResetGetHashMiss(a) ==
    /\ actor[a].pc = "getHash"
    /\ SetPc(a, "dump")
    /\ UNCHANGED <<inst, sock, wgEp, sent, delivered, byKey, byHash, dumpq, nextInst>>

\* GetPeerInfoByHash(ConvPeerKeyToHash(key)).
ResetGetHash(a) ==
    /\ actor[a].pc = "getHash"
    /\ SetPc(a, IF byHash[actor[a].peer] # 0 THEN "saveHash" ELSE "dump")
    /\ UNCHANGED <<inst, sock, wgEp, sent, delivered, byKey, byHash, dumpq, nextInst>>

\* SavePeerByHash with the new LocalConn.
ResetSaveHash(a) ==
    /\ actor[a].pc = "saveHash"
    /\ byHash' = [byHash EXCEPT ![actor[a].peer] = actor[a].new]
    /\ SetPc(a, "dump")
    /\ UNCHANGED <<inst, sock, wgEp, sent, delivered, byKey, dumpq, nextInst>>

ResetDumpUnbounded(a) ==
    /\ actor[a].pc = "dump"
    /\ dumpq' = dumpq + 1
    /\ SetPc(a, "idle")
    /\ UNCHANGED <<inst, sock, wgEp, sent, delivered, byKey, byHash, nextInst>>

\* config.DumpSignalChan <- struct{}{}: a blocking send.
ResetDump(a) ==
    /\ actor[a].pc = "dump"
    /\ dumpq < DumpCap
    /\ dumpq' = dumpq + 1
    /\ SetPc(a, "idle")
    /\ UNCHANGED <<inst, sock, wgEp, sent, delivered, byKey, byHash, nextInst>>

\* The persistence task receives a signal and writes the peer state.
Persist ==
    /\ dumpq > 0
    /\ dumpq' = dumpq - 1
    /\ UNCHANGED <<inst, sock, wgEp, sent, delivered, byKey, byHash, actor, nextInst>>

-----------------------------------------------------------------------------

ResetStep(a) ==
    \/ ResetStart(a) \/ ResetGetKey(a) \/ ResetSaveKey(a)
    \/ ResetGetHash(a) \/ ResetSaveHash(a) \/ ResetDump(a)

LoopStep(i) == CheckCtx(i) \/ Read(i) \/ Forward(i)

Next ==
    \/ \E i \in InstIds : LoopStep(i)
    \/ \E p \in Peers : TunnelSend(p)
    \/ \E a \in Actors, p \in Peers : AddPeer(a, p) \/ RemovePeer(a, p) \/ ResetClose(a, p)
    \/ \E a \in Actors : ResetStep(a)
    \/ Persist

\* Goroutines are scheduled fairly by the Go runtime: every started loop and
\* every Reset in progress keeps running, and the persistence task keeps
\* draining its channel.  The tunnel and the control-plane events are not fair.
Fairness ==
    /\ \A i \in InstIds : WF_vars(LoopStep(i))
    /\ \A a \in Actors : WF_vars(ResetStep(a))
    /\ WF_vars(Persist)

Spec == Init /\ [][Next]_vars /\ Fairness

-----------------------------------------------------------------------------
(* Properties.                                                             *)

Running(i) == inst[i].loop \notin {"none", "done"}

\* Every LocalConn left open belongs to the instance the registry names for
\* its peer, or to the instance a Reset has started and is about to publish:
\* Reset and peer removal never leave a socket and its loop that no StopConn
\* handle reaches (spec scenario C).
NoOrphanRelay ==
    \A i \in InstIds :
        inst[i].conn = "open" =>
            \/ byKey[inst[i].peer].inst = i
            \/ \E a \in Actors : actor[a].new = i /\ actor[a].pc \in {"getKey", "saveKey"}

IndicesAgree ==
    (\A a \in Actors : Idle(a)) =>
        \A p \in Peers : byHash[p] = byKey[p].inst

\* Spec P5: once Reset has started the new instance, the loop of the old one
\* has returned: from then on the new loop is the only one running for the
\* peer.
ResetStopsOldLoop ==
    \A a \in Actors :
        actor[a].pc \in {"getKey", "saveKey", "getHash", "saveHash", "dump"} =>
            \A i \in InstIds :
                inst[i].peer = actor[a].peer /\ Running(i) => i = actor[a].new

\* Close stops the loop: once an instance's context is cancelled its toRemote
\* goroutine eventually returns, even when it is blocked in LocalConn.Read.
ClosedLoopEnds ==
    \A i \in InstIds : inst[i].ctx = "cancelled" ~> ~Running(i)


\* The relay layer implements RelayAbstract: every datagram the remote peer
\* receives was written by the tunnel, and none is received twice, however
\* Reset, Close and removal interleave with the toRemote loops (spec P1's
\* "no datagram is duplicated").
Relay == INSTANCE RelayAbstract

ImplementsRelayAbstract == Relay!Spec

=============================================================================
