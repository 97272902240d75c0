--------------------------- MODULE MCRelayMetrics ---------------------------
(* Model-checking instance of RelayMetrics.                                 *)
EXTENDS RelayMetrics

MCSizes == {1, 2}
MCMaxPkts == 3
=============================================================================
