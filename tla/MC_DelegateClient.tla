-------------------------- MODULE MC_DelegateClient --------------------------
(* Model-checking instance of DelegateClient with two worker threads.      *)
(* 101 operations split 50/51 and cross a percent on nearly every         *)
(* operation (sync_interval 1); in the max_txn loop they give 50           *)
(* transactions per thread.  Run phases take ops_per_transaction 1 or 2:   *)
(* with 2, a num_ops thread runs 25 transactions of its 50 or 51           *)
(* operations, and a max_txn phase has total_ops 200 for its 100           *)
(* transactions.  The timed loop is checked with total_ops 100 (a report   *)
(* on every transaction) and 2000 (sync_interval 2, so reports skip odd    *)
(* transactions and ProgressFinish adds a remainder).                      *)
EXTENDS DelegateClient

MC_Modes == {"load", "timed", "max_txn", "num_ops"}
MC_TotalOpsOf == [m \in MC_Modes |-> IF m = "timed" THEN {100, 2000} ELSE {101}]
MC_OpsPerTxn == {1, 2}
=============================================================================
