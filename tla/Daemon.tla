------------------------------- MODULE Daemon -------------------------------
(***************************************************************************)
(* The netclient daemon's main goroutine (Daemon, closeRoutines,           *)
(* startGoRoutines, startProxy) and the goroutines it starts: one         *)
(* messageQueue per server, with setupMQTT's three connect attempts, and  *)
(* the proxy (nmproxy.Start), the only reader of ProxyManagerChan.        *)
(* SIGTERM and SIGHUP arrive on channels of capacity 1 (signal.Notify     *)
(* drops a signal when its channel is full).  A goroutine is in the       *)
(* WaitGroup wg from its start until it returns.  The Checkin and         *)
(* interface-detection goroutines return on ctx.Done and hold no state    *)
(* the properties read; they are left out.                                 *)
(***************************************************************************)
EXTENDS Naturals, FiniteSets, Sequences, SequencesExt

CONSTANTS
    Servers,            \* servers the server config file may list
    ChanCap,            \* capacity of ProxyManagerChan (50 in the code)
    ProxyStatusValues,  \* values proxy_cfg.GetCfg().ProxyStatus may have at a reset
    MaxResets,          \* bound on the SIGHUPs sent to the daemon
    MaxUpdates          \* bound on the peer updates MQTT handlers forward

ASSUME ChanCap \in Nat \ {0} /\ ProxyStatusValues \subseteq BOOLEAN

VARIABLES
    main,       \* the main goroutine: "start", "send", "select", "quitting", "resetting", "done"
    first,      \* startGoRoutines is the one in Daemon's prologue
    quitSig,    \* a SIGTERM waits in the quit channel
    resetSig,   \* a SIGHUP waits in the reset channel
    ctxDone,    \* cancel and stopProxy of the current goroutines were called
    servers,    \* config.Servers as startGoRoutines read it
    q,          \* q[s]: the messageQueue goroutines of server s, oldest first
    proxy,      \* the proxy goroutine: "running" or "stopped"
    pmc,        \* updates buffered in ProxyManagerChan
    resets,     \* SIGHUPs sent so far
    updates,    \* peer updates forwarded by MQTT handlers so far
    ranging     \* closeRoutines is in its range over ServerSet

vars == <<main, first, quitSig, resetSig, ctxDone, servers, q, proxy, pmc, resets, updates, ranging>>

\* setupMQTT's loop: for count := 0; count < 3; count++
ConnectAttempts == 3

\* A messageQueue goroutine: in setupMQTT before ("reg") or in ("regw")
\* its write of ServerSet[server.Name], after n connect attempts, or
\* waiting on <-ctx.Done() with its client connected.
QState == [pc : {"reg", "regw", "wait"}] \cup [pc : {"dial"}, n : 0..ConnectAttempts]

TypeOK ==
    /\ main \in {"start", "send", "select", "quitting", "resetting", "done"}
    /\ first \in BOOLEAN /\ quitSig \in BOOLEAN /\ resetSig \in BOOLEAN /\ ctxDone \in BOOLEAN
    /\ servers \subseteq Servers
    /\ q \in [Servers -> Seq(QState)]
    /\ proxy \in {"running", "stopped"}
    /\ pmc \in 0..ChanCap
    /\ resets \in 0..MaxResets /\ updates \in 0..MaxUpdates
    /\ ranging \in BOOLEAN

Init ==
    /\ main = "start" /\ first = TRUE
    /\ quitSig = FALSE /\ resetSig = FALSE /\ ctxDone = FALSE
    /\ servers = {}
    /\ q = [s \in Servers |-> <<>>]
    /\ proxy = "stopped" /\ pmc = 0
    /\ resets = 0 /\ updates = 0
    /\ ranging = FALSE

\* Some goroutine of the current or an earlier generation is still in wg.
WgBusy == proxy = "running" \/ \E s \in Servers : q[s] # <<>>

-----------------------------------------------------------------------------
(* The main goroutine.                                                     *)

\* Mutant of StartProxy: the ProxyStatus test inverted.
StartProxyInverted ==
    \E ps \in ProxyStatusValues :
        proxy' = IF first \/ ps THEN "running" ELSE proxy

\* startProxy runs in the prologue and, after a reset, only when
\* ProxyStatus is false.
StartProxy ==
    \E ps \in ProxyStatusValues :
        proxy' = IF first \/ ~ps THEN "running" ELSE proxy

\* startGoRoutines: read the config files (a new ctx), configure WireGuard;
\* with no server it sends ProxyDeleteAllPeers on ProxyManagerChan, which
\* blocks while the channel is full, otherwise it starts a messageQueue per
\* server.  With no send to wait for, startProxy follows.
StartGoRoutines ==
    /\ main = "start"
    /\ \E S \in SUBSET Servers :
          /\ servers' = S
          /\ IF S = {}
                THEN /\ main' = "send"
                     /\ UNCHANGED <<q, proxy, first>>
                ELSE /\ q' = [s \in Servers |-> IF s \in S THEN Append(q[s], [pc |-> "reg"])
                                                          ELSE q[s]]
                     /\ StartProxy
                     /\ main' = "select" /\ first' = FALSE
    /\ ctxDone' = FALSE
    /\ UNCHANGED <<quitSig, resetSig, pmc, resets, updates, ranging>>

\* The send of ProxyDeleteAllPeers completes; startProxy follows.
SendDeleteAll ==
    /\ main = "send"
    /\ pmc < ChanCap
    /\ pmc' = pmc + 1
    /\ StartProxy
    /\ main' = "select" /\ first' = FALSE
    /\ UNCHANGED <<quitSig, resetSig, ctxDone, servers, q, resets, updates, ranging>>

\* The select takes a signal; closeRoutines calls cancel and stopProxy and
\* disconnects the MQTT clients, then waits on wg.
SelectQuit ==
    /\ main = "select" /\ quitSig
    /\ quitSig' = FALSE /\ ctxDone' = TRUE /\ main' = "quitting" /\ ranging' = TRUE
    /\ UNCHANGED <<first, resetSig, servers, q, proxy, pmc, resets, updates>>

SelectReset ==
    /\ main = "select" /\ resetSig
    /\ resetSig' = FALSE /\ ctxDone' = TRUE /\ main' = "resetting" /\ ranging' = TRUE
    /\ UNCHANGED <<first, quitSig, servers, q, proxy, pmc, resets, updates>>

\* The range over ServerSet (calling Disconnect on each client) ends.
RangeEnd ==
    /\ main \in {"quitting", "resetting"} /\ ranging
    /\ ranging' = FALSE
    /\ UNCHANGED <<main, first, quitSig, resetSig, ctxDone, servers, q, proxy, pmc, resets, updates>>

\* wg.Wait returns and the interface is closed; on quit the HTTP server is
\* stopped and Daemon returns, on reset getNatInfo and cleanUpRoutes run
\* and startGoRoutines follows.
WaitRoutines ==
    /\ main \in {"quitting", "resetting"} /\ ~ranging
    /\ ~WgBusy
    /\ main' = IF main = "quitting" THEN "done" ELSE "start"
    /\ UNCHANGED <<first, quitSig, resetSig, ctxDone, servers, q, proxy, pmc, resets, updates, ranging>>

-----------------------------------------------------------------------------
(* The goroutines the main goroutine starts.                               *)

\* Mutant of Attempt: a failed third attempt starts the loop over instead
\* of returning the error, so setupMQTT retries until the broker accepts.
AttemptRestart(s, i) ==
    LET n2 == q[s][i].n + 1 IN
    /\ q[s][i].pc = "dial"
    /\ \E ok \in BOOLEAN :
          q' = [q EXCEPT ![s][i] = CASE n2 < ConnectAttempts -> [pc |-> "dial", n |-> n2]
                                     [] ok                    -> [pc |-> "wait"]
                                     [] OTHER                 -> [pc |-> "dial", n |-> 0]]
    /\ UNCHANGED <<main, first, quitSig, resetSig, ctxDone, servers, proxy, pmc, resets, updates, ranging>>

\* One iteration of setupMQTT's connect loop: Connect and WaitTimeout(30s),
\* which either succeeds or sets connecterr.  The loop does not stop at a
\* success and does not look at ctx; after the third attempt connecterr
\* (the last attempt's) decides: messageQueue returns (wg.Done), or it
\* publishes the ACK and waits on ctx.Done().
Attempt(s, i) ==
    LET n2 == q[s][i].n + 1 IN
    /\ q[s][i].pc = "dial"
    /\ \E ok \in BOOLEAN :
          q' = [q EXCEPT ![s] = CASE n2 < ConnectAttempts -> [@ EXCEPT ![i] = [pc |-> "dial", n |-> n2]]
                                  [] ok                    -> [@ EXCEPT ![i] = [pc |-> "wait"]]
                                  [] OTHER                 -> RemoveAt(@, i)]
    /\ UNCHANGED <<main, first, quitSig, resetSig, ctxDone, servers, proxy, pmc, resets, updates, ranging>>

\* setupMQTT, after building the client options, stores the new client
\* in the package map ServerSet, with no lock: the write begins ...
RegBegin(s, i) ==
    /\ q[s][i].pc = "reg"
    /\ q' = [q EXCEPT ![s][i] = [pc |-> "regw"]]
    /\ UNCHANGED <<main, first, quitSig, resetSig, ctxDone, servers, proxy, pmc, resets, updates, ranging>>

\* ... and ends; the connect loop follows.
RegEnd(s, i) ==
    /\ q[s][i].pc = "regw"
    /\ q' = [q EXCEPT ![s][i] = [pc |-> "dial", n |-> 0]]
    /\ UNCHANGED <<main, first, quitSig, resetSig, ctxDone, servers, proxy, pmc, resets, updates, ranging>>

\* <-ctx.Done() returns; the deferred Disconnect and wg.Done run.
QueueExit(s, i) ==
    /\ q[s][i].pc = "wait" /\ ctxDone
    /\ q' = [q EXCEPT ![s] = RemoveAt(@, i)]
    /\ UNCHANGED <<main, first, quitSig, resetSig, ctxDone, servers, proxy, pmc, resets, updates, ranging>>

\* A connected client's host-peer-update handler forwards the update to the
\* proxy on ProxyManagerChan (blocking while it is full).
HandlerForward(s) ==
    /\ \E i \in DOMAIN q[s] : q[s][i].pc = "wait"
    /\ ~ctxDone /\ updates < MaxUpdates /\ pmc < ChanCap
    /\ pmc' = pmc + 1 /\ updates' = updates + 1
    /\ UNCHANGED <<main, first, quitSig, resetSig, ctxDone, servers, q, proxy, resets, ranging>>

\* The proxy's manager takes an update off ProxyManagerChan.
ProxyConsume ==
    /\ proxy = "running" /\ pmc > 0
    /\ pmc' = pmc - 1
    /\ UNCHANGED <<main, first, quitSig, resetSig, ctxDone, servers, q, proxy, resets, updates, ranging>>

\* The proxy sees its ctx cancelled and returns (wg.Done); what is left in
\* ProxyManagerChan stays there.
ProxyExit ==
    /\ proxy = "running" /\ ctxDone
    /\ proxy' = "stopped"
    /\ UNCHANGED <<main, first, quitSig, resetSig, ctxDone, servers, q, pmc, resets, updates, ranging>>

\* SIGTERM or SIGHUP sent to the running daemon (netclient commands restart
\* it with SIGHUP); a signal finding its channel full is dropped.
SendQuit ==
    /\ main # "done" /\ ~quitSig
    /\ quitSig' = TRUE
    /\ UNCHANGED <<main, first, resetSig, ctxDone, servers, q, proxy, pmc, resets, updates, ranging>>

SendReset ==
    /\ main # "done" /\ resets < MaxResets
    /\ resetSig' = TRUE /\ resets' = resets + 1
    /\ UNCHANGED <<main, first, quitSig, ctxDone, servers, q, proxy, pmc, updates, ranging>>

QueueStep(s) ==
    \E i \in DOMAIN q[s] : RegBegin(s, i) \/ RegEnd(s, i) \/ Attempt(s, i) \/ QueueExit(s, i)

Next ==
    \/ StartGoRoutines \/ SendDeleteAll \/ SelectQuit \/ SelectReset \/ RangeEnd \/ WaitRoutines
    \/ \E s \in Servers : QueueStep(s) \/ HandlerForward(s)
    \/ ProxyConsume \/ ProxyExit
    \/ SendQuit \/ SendReset

\* The main goroutine and the goroutines it starts are scheduled (weak
\* fairness); Go's select picks among ready cases at random, so a pending
\* SIGTERM is taken however often a SIGHUP competes (strong fairness).
\* Signals and MQTT traffic come from outside and are not assumed.
Fairness ==
    /\ WF_vars(StartGoRoutines) /\ WF_vars(SendDeleteAll) /\ WF_vars(RangeEnd) /\ WF_vars(WaitRoutines)
    /\ SF_vars(SelectQuit) /\ WF_vars(SelectReset)
    /\ \A s \in Servers : WF_vars(QueueStep(s))
    /\ WF_vars(ProxyConsume) /\ WF_vars(ProxyExit)

Spec == Init /\ [][Next]_vars /\ Fairness

-----------------------------------------------------------------------------
(* Properties.                                                             *)

\* A SIGTERM always ends the daemon: the connect attempts of a dialing
\* messageQueue are bounded though they ignore ctx, every goroutine in wg
\* returns once cancelled, and a reset in progress completes first.
ShutdownCompletes == quitSig ~> (main = "done")

\* An update put in ProxyManagerChan (by startGoRoutines or an MQTT
\* handler) is read by a proxy, unless the daemon shuts down first: a
\* reset stops the proxy and the proxy it starts again reads it.
ProxyDrainsChan == (pmc > 0) ~> (pmc = 0 \/ main = "done")

\* Go maps are not safe for concurrent use, and the runtime aborts the
\* process on a write that overlaps another write or a range: at most one
\* access to ServerSet (a setupMQTT store or closeRoutines' range) is in
\* progress at a time.
ServerSetWrites ==
    UNION {{<<s, i>> : i \in {j \in DOMAIN q[s] : q[s][j].pc = "regw"}} : s \in Servers}
ServerSetExclusive ==
    Cardinality(ServerSetWrites) + (IF ranging THEN 1 ELSE 0) <= 1
=============================================================================
