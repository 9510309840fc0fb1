---------------------------- MODULE MC_YcsbClient ----------------------------
(* Model-checking instance of YcsbClient: two threads loading six records  *)
(* in batches of two (so a batch is left part-used by the load), then     *)
(* operationcount 7 split 3/4, that is one and two transactions of two     *)
(* operations, with one retry, over one request key plus sequence keys.    *)
EXTENDS YcsbClient

CONSTANTS k1

MC_Keys == {k1}
MC_Mix == {"READ", "SCAN", "INSERT"}
=============================================================================
