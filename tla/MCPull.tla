-------------------------------- MODULE MCPull --------------------------------
(* Model-checking instance of Pull: two networks, two versions of a node. *)
EXTENDS Pull

MCMaxVer == 2
=============================================================================
