----------------------------- MODULE MCAddrAlloc -----------------------------
(* Model-checking instance of AddrAlloc: a CIDR of three usable addresses. *)
EXTENDS AddrAlloc

MCNumAddrs == 3
=============================================================================
