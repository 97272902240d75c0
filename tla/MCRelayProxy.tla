---------------------------- MODULE MCRelayProxy ----------------------------
(* Model-checking instance of RelayProxy: one peer, bounded instances and   *)
(* datagrams.                                                               *)
EXTENDS RelayProxy

MCMaxInst == 3
MCMaxPkts == 2
MCDumpCap == 1
=============================================================================
