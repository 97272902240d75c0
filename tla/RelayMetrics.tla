---------------------------- MODULE RelayMetrics ----------------------------
(***************************************************************************)
(* Traffic accounting in Proxy.toRemote (proxy_helper.go): for every       *)
(* datagram read from LocalConn the loop spawns a goroutine that looks the *)
(* peer up in the registry and, for every server in its ServerMap, reads   *)
(* the metric with metrics.GetMetric, adds the datagram length to          *)
(* TrafficSent and writes it back with metrics.UpdateMetric.  GetMetric    *)
(* and UpdateMetric are each atomic; nothing makes the pair atomic.        *)
(***************************************************************************)
EXTENDS Integers, FiniteSets

CONSTANTS
    Servers,      \* servers in the peer's ServerMap
    Sizes,        \* datagram lengths returned by LocalConn.Read
    MaxPkts,      \* bound on datagrams read by the loop
    ProxyStatus   \* p.Config.ProxyStatus

ASSUME Servers # {} /\ Sizes \subseteq Nat \ {0} /\ MaxPkts \in Nat /\ ProxyStatus \in BOOLEAN

VARIABLES
    metric,       \* metric[s]: TrafficSent stored by the metrics package
    readBytes,    \* bytes the loop has read so far
    registered,   \* the peer still has a registry entry
    g             \* g[k]: the goroutine spawned for the k-th datagram

vars == <<metric, readBytes, registered, g>>

Pkts == 1..MaxPkts

\* A goroutine: "none" not spawned, "lookup" before GetPeer, "get" before
\* GetMetric of a server still in todo, "update" holding the incremented
\* value val for server cur, "done" returned.
GState == [pc : {"none", "lookup", "get", "update", "done"}, n : Sizes \cup {0},
           todo : SUBSET Servers, cur : Servers \cup {"none"}, val : Int]

Unspawned == [pc |-> "none", n |-> 0, todo |-> {}, cur |-> "none", val |-> 0]

TypeOK ==
    /\ metric \in [Servers -> Nat]
    /\ readBytes \in Nat
    /\ registered \in BOOLEAN
    /\ g \in [Pkts -> GState]

Init ==
    /\ metric = [s \in Servers |-> 0]
    /\ readBytes = 0
    /\ registered = TRUE
    /\ g = [k \in Pkts |-> Unspawned]

Spawned == {k \in Pkts : g[k].pc # "none"}

\* LocalConn.Read returns n bytes and the loop spawns go func(n, cfg).
ReadAndSpawn ==
    LET k == Cardinality(Spawned) + 1 IN
    /\ k <= MaxPkts
    /\ \E n \in Sizes :
          /\ readBytes' = readBytes + n
          /\ g' = [g EXCEPT ![k] = [Unspawned EXCEPT !.pc = "lookup", !.n = n]]
    /\ UNCHANGED <<metric, registered>>

\* The peer is removed from the registry by the control plane.
Deregister ==
    /\ registered
    /\ registered' = FALSE
    /\ UNCHANGED <<metric, readBytes, g>>

\* peerConnCfg is looked up only when ProxyStatus is set; a missing entry
\* leaves an empty ServerMap and the goroutine does nothing.
Lookup(k) ==
    /\ g[k].pc = "lookup"
    /\ g' = [g EXCEPT ![k].pc = IF ProxyStatus /\ registered THEN "get" ELSE "done",
                      ![k].todo = IF ProxyStatus /\ registered THEN Servers ELSE {}]
    /\ UNCHANGED <<metric, readBytes, registered>>

\* Mutant of GetMetric: the length is subtracted instead of added.
GetMetricSubtract(k) ==
    /\ g[k].pc = "get"
    /\ \E s \in g[k].todo :
          g' = [g EXCEPT ![k].pc = "update", ![k].cur = s,
                         ![k].todo = @ \ {s}, ![k].val = metric[s] - g[k].n]
    /\ UNCHANGED <<metric, readBytes, registered>>

\* metric := metrics.GetMetric(server, key); metric.TrafficSent += n, for the
\* next server of the map (Go map order is unspecified).
GetMetric(k) ==
    /\ g[k].pc = "get"
    /\ \E s \in g[k].todo :
          g' = [g EXCEPT ![k].pc = "update", ![k].cur = s,
                         ![k].todo = @ \ {s}, ![k].val = metric[s] + g[k].n]
    /\ UNCHANGED <<metric, readBytes, registered>>

\* metrics.UpdateMetric(server, key, &metric): the value read earlier,
\* incremented, overwrites whatever is stored now.
UpdateMetric(k) ==
    /\ g[k].pc = "update"
    /\ metric' = [metric EXCEPT ![g[k].cur] = g[k].val]
    /\ g' = [g EXCEPT ![k].pc = IF g[k].todo = {} THEN "done" ELSE "get", ![k].cur = "none"]
    /\ UNCHANGED <<readBytes, registered>>

Worker(k) == Lookup(k) \/ GetMetric(k) \/ UpdateMetric(k)

Next ==
    \/ ReadAndSpawn
    \/ Deregister
    \/ \E k \in Pkts : Worker(k)

\* Spawned goroutines are scheduled fairly; reads depend on traffic.
Spec == Init /\ [][Next]_vars /\ \A k \in Pkts : WF_vars(Worker(k))

-----------------------------------------------------------------------------

\* Spec P2: the bytes-sent counter of every server only ever increases.
MetricMonotone == [][\A s \in Servers : metric'[s] >= metric[s]]_vars

=============================================================================
