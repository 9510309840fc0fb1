---------------------------- MODULE TxnOpBuilder ----------------------------
(***************************************************************************)
(* The operation-set builder of TxnClient                                 *)
(* (src/YCSB-C/core/txn_client.h, GenerateClientTransactionalOperations): *)
(* for each kind with a positive proportion, in the order read, insert,   *)
(* update, scan, read-modify-write, it adds                                *)
(* size_t(num_ops * proportion + 0.5) operations on keys not yet in the   *)
(* set (at least one), then asserts that the set has num_ops operations.  *)
(*                                                                         *)
(* Proportions are percentages (the doubles of the workload file with two *)
(* decimals); the counts are then exact.  The model picks one workload    *)
(* configuration per initial state.                                       *)
(***************************************************************************)
EXTENDS Naturals, FiniteSets, Functions

CONSTANTS
  OpsPerTxn,    \* values of workload_.ops_per_transaction() considered
  Percents      \* proportion values considered, in percent

\* The kinds the builder visits (the order does not change the size).
KindSet == {"READ", "INSERT", "UPDATE", "SCAN", "READMODIFYWRITE"}

\* Workload configurations: proportions summing to 100%.
Configs ==
  {c \in [num_ops : OpsPerTxn, p : [KindSet -> Percents]] :
     FoldFunction(LAMBDA x, y : x + y, 0, c.p) = 100}

\* size_t n_ops = num_ops * proportion + 0.5; n_ops += (n_ops == 0);
KindOps(num_ops, percent) ==
  LET n == (num_ops * percent + 50) \div 100
  IN  IF n = 0 THEN 1 ELSE n

\* The size of the set once every kind's while-loop has finished: each loop
\* adds exactly its count of new keys.
BuiltSize(c) ==
  FoldFunction(LAMBDA x, y : x + y, 0,
               [k \in KindSet |-> IF c.p[k] > 0 THEN KindOps(c.num_ops, c.p[k]) ELSE 0])

VARIABLE config

Init == config \in Configs

\* The builder is a pure function of the configuration.
Next == UNCHANGED config

Spec == Init /\ [][Next]_config

-----------------------------------------------------------------------------
\* assert(num_ops == operations_in_transaction.size()) at the end of the
\* builder holds for every workload whose proportions sum to 1.
BuildSizeMatches == BuiltSize(config) = config.num_ops

=============================================================================
