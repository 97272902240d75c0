-------------------------------- MODULE Pull --------------------------------
(***************************************************************************)
(* functions.Pull (functions/pull.go), run by a process other than the    *)
(* daemon (it restarts the daemon, or starts it), and the daemon's reset   *)
(* (startGoRoutines, part_001), which reads the node config file and only  *)
(* later configures WireGuard.  The two processes share the file and the   *)
(* WireGuard interface, not their node maps.  A node is abstracted to the  *)
(* version the server has of it and its Connected flag; the peers of a     *)
(* node are named by <<network, version>>.  wg is the peer list last given *)
(* to WireGuard (a bag: the same node's peers can be given twice).         *)
(***************************************************************************)
EXTENDS Naturals, FiniteSets, Bags

CONSTANTS
    Networks,   \* networks the host may have a node in
    MaxVer,     \* bound on server-side changes of a node
    ReadCanFail \* whether the daemon's ReadNodeConfig may fail

ASSUME MaxVer \in Nat \ {0} /\ ReadCanFail \in BOOLEAN

VARIABLES
    srv,        \* srv[n]: the node the server holds for this host in n
    mem,        \* mem[n]: the node in the Pull process's node map, NoNode if none
    disk,       \* disk[n]: the node in the node config file
    dmem,       \* the daemon's node map
    dpc,        \* the daemon's reset: "idle", or "read" (file read, WireGuard not yet configured)
    hup,        \* a SIGHUP waits in the daemon's reset channel
    wg,         \* bag of the node peer lists WireGuard was last configured with
    igw,        \* whether newHost.InternetGateway has been set
    installed,  \* config.Netclient().DaemonInstalled
    daemon,     \* the daemon process: "running" or "stopped"
    pulled      \* pulled[n]: node the last Pull of n returned with no error, NoNode otherwise

vars == <<srv, mem, disk, dmem, dpc, hup, wg, igw, installed, daemon, pulled>>

Node == [ver : 1..MaxVer, conn : BOOLEAN]
NoNode == [ver |-> 0, conn |-> FALSE]

\* The peers of every connected node of node map m.
ConnectedPeers(m) ==
    SetToBag({<<n, m[n].ver>> : n \in {x \in Networks : m[x] # NoNode /\ m[x].conn}})

TypeOK ==
    /\ srv \in [Networks -> Node]
    /\ mem \in [Networks -> Node \cup {NoNode}]
    /\ disk \in [Networks -> Node \cup {NoNode}]
    /\ dmem \in [Networks -> Node \cup {NoNode}]
    /\ dpc \in {"idle", "read"} /\ hup \in BOOLEAN
    /\ IsABag(wg) /\ BagToSet(wg) \subseteq Networks \X (1..MaxVer)
    /\ igw \in BOOLEAN /\ installed \in BOOLEAN
    /\ daemon \in {"running", "stopped"}
    /\ pulled \in [Networks -> Node \cup {NoNode}]

\* The host has joined some networks; the maps, the file and WireGuard agree.
Init ==
    /\ srv \in [Networks -> {[ver |-> 1, conn |-> c] : c \in BOOLEAN}]
    /\ \E J \in SUBSET Networks :
          /\ mem = [n \in Networks |-> IF n \in J THEN srv[n] ELSE NoNode]
          /\ disk = mem /\ dmem = mem
    /\ wg = ConnectedPeers(mem)
    /\ igw = FALSE
    /\ installed \in BOOLEAN
    /\ daemon \in {"running", "stopped"}
    /\ dpc = "idle" /\ hup = FALSE
    /\ pulled = [n \in Networks |-> NoNode]

-----------------------------------------------------------------------------

\* The server changes the host's node in n (a new version, connected or not).
ServerUpdate(n) ==
    /\ srv[n].ver < MaxVer
    /\ \E c \in BOOLEAN : srv' = [srv EXCEPT ![n] = [ver |-> @.ver + 1, conn |-> c]]
    /\ UNCHANGED <<mem, disk, dmem, dpc, hup, wg, igw, installed, daemon, pulled>>

\* Mutant of WriteNodeConfig: the file is written from the node map as it
\* was before UpdateNodeMap.
WriteNodeConfigStale(m, ok) == IF ok THEN mem ELSE disk

\* config.WriteNodeConfig: the node config file after writing node map m.
WriteNodeConfig(m, ok) == IF ok THEN m ELSE disk

\* Mutant of PullPeers: only the pulled node's peers are given to WireGuard.
PullPeersOwn(n, new, m) == SetToBag({<<n, new.ver>>})

\* The peers Pull gives UpdateWgPeers: the new node's, then those of every
\* connected node of the map, which already holds the new node.
PullPeers(n, new, m) == SetToBag({<<n, new.ver>>}) (+) ConnectedPeers(m)

\* daemon.Restart signals a running daemon (SIGHUP; a signal finding one
\* pending is dropped) and fails when none runs; daemon.Start then starts
\* one, whose startGoRoutines reads the file as a reset does.  The result:
\* whether a daemon runs afterwards.
RestartDaemon(startOk) ==
    IF daemon = "running" \/ startOk
       THEN /\ daemon' = "running" /\ hup' = TRUE
       ELSE UNCHANGED <<daemon, hup>>

\* Pull(n) whose fetch succeeded: UpdateNodeMap, WriteNodeConfig (an error
\* returns), SaveServer and the config writes whose errors are ignored,
\* UpdateWgPeers, then the daemon restart (or start) when it is installed.
Apply(n) ==
    LET new == srv[n]
        m   == [mem EXCEPT ![n] = new]
    IN
    /\ mem' = m
    /\ \E writeOk \in BOOLEAN :
          /\ disk' = WriteNodeConfig(m, writeOk)
          /\ IF ~writeOk
                THEN /\ pulled' = [pulled EXCEPT ![n] = NoNode]
                     /\ UNCHANGED <<wg, igw, daemon, hup>>
                ELSE \E wgErr, gwSet, startOk \in BOOLEAN :
                       LET running == daemon = "running" \/ startOk
                           ok      == ~wgErr /\ (installed => running)
                       IN
                       /\ wg' \in IF wgErr THEN {wg, PullPeers(n, new, m)} ELSE {PullPeers(n, new, m)}
                       /\ igw' = (igw \/ (gwSet /\ wgErr))
                       /\ IF installed THEN RestartDaemon(startOk) ELSE UNCHANGED <<daemon, hup>>
                       /\ pulled' = [pulled EXCEPT ![n] = IF ok THEN new ELSE NoNode]
    /\ UNCHANGED <<srv, dmem, dpc, installed>>

\* Pull(n): a network with no node returns at once; a failed Authenticate or
\* GET returns its error with nothing changed.
Pull(n) ==
    /\ mem[n] # NoNode
    /\ \/ /\ pulled' = [pulled EXCEPT ![n] = NoNode]
          /\ UNCHANGED <<srv, mem, disk, dmem, dpc, hup, wg, igw, installed, daemon>>
       \/ Apply(n)

\* A new process that pulls (a netclient command) loads the node file.
PullProcessStart ==
    /\ mem' = disk
    /\ UNCHANGED <<srv, disk, dmem, dpc, hup, wg, igw, installed, daemon, pulled>>

\* A SIGHUP from elsewhere (UpdateKeys, another command).
OtherReset ==
    /\ daemon = "running" /\ ~hup
    /\ hup' = TRUE
    /\ UNCHANGED <<srv, mem, disk, dmem, dpc, wg, igw, installed, daemon, pulled>>

\* Mutant of DaemonRead: the reset keeps the node map it has.
DaemonReadKeep ==
    /\ daemon = "running" /\ dpc = "idle" /\ hup
    /\ hup' = FALSE /\ dpc' = "read"
    /\ UNCHANGED <<srv, mem, disk, dmem, wg, igw, installed, daemon, pulled>>

\* The daemon takes the SIGHUP; startGoRoutines reads the node config file
\* (an error is logged and the map kept).
DaemonRead ==
    /\ daemon = "running" /\ dpc = "idle" /\ hup
    /\ hup' = FALSE /\ dpc' = "read"
    /\ dmem' \in IF ReadCanFail THEN {disk, dmem} ELSE {disk}
    /\ UNCHANGED <<srv, mem, disk, wg, igw, installed, daemon, pulled>>

\* NewNCIface(config.GetNodes()) and Configure: WireGuard gets the peers of
\* the connected nodes of the daemon's map.
DaemonConfigure ==
    /\ dpc = "read"
    /\ wg' = ConnectedPeers(dmem) /\ dpc' = "idle"
    /\ UNCHANGED <<srv, mem, disk, dmem, hup, igw, installed, daemon, pulled>>

Next ==
    \/ \E n \in Networks : ServerUpdate(n) \/ Pull(n)
    \/ PullProcessStart \/ OtherReset
    \/ DaemonRead \/ DaemonConfigure

\* The daemon's main goroutine is scheduled; Pulls, server changes and
\* SIGHUPs from elsewhere come from outside and are not assumed.
Spec == Init /\ [][Next]_vars /\ WF_vars(DaemonRead) /\ WF_vars(DaemonConfigure)

-----------------------------------------------------------------------------
(* Properties.                                                             *)

\* A node Pull reported as pulled is the one in the process's node map and
\* in the node config file, until the next Pull of that network: later
\* Pulls of other networks, failed writes and daemon resets keep it.
PulledNodePersisted ==
    \A n \in Networks : pulled[n] # NoNode => mem[n] = pulled[n] /\ disk[n] = pulled[n]

\* The peers of a connected node Pull reported as pulled are in WireGuard in
\* every state.  This fails while a daemon reset that read the file before
\* Pull wrote it is configuring WireGuard; no run checks it, the eventual
\* form below is what the code provides.
PulledPeersInstalled ==
    \A n \in Networks :
        pulled[n] # NoNode /\ pulled[n].conn => BagIn(<<n, pulled[n].ver>>, wg)

\* A connected node that Pull reported as pulled ends up with its peers in
\* WireGuard (or is pulled again), when the daemon is installed or none
\* runs: later Pulls of other networks rebuild the peer list from the whole
\* node map, and a daemon reset that read the file before Pull wrote it may
\* overwrite Pull's peer list with the old one, but the SIGHUP Pull sends
\* makes the daemon read the file again.
PulledPeersEventuallyInstalled ==
    \A n \in Networks, v \in Node :
        (pulled[n] = v /\ v.conn /\ (installed \/ daemon = "stopped"))
            ~> (BagIn(<<n, v.ver>>, wg) \/ pulled[n] # v)
=============================================================================
