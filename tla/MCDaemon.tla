------------------------------ MODULE MCDaemon ------------------------------
(* Model-checking instance of Daemon: room in ProxyManagerChan for the     *)
(* initial send, one per reset and every forwarded update.                *)
EXTENDS Daemon

MCChanCap == 4
MCMaxResets == 2
MCMaxUpdates == 1
=============================================================================
