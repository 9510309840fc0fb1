----------------------------- MODULE TpccLedger -----------------------------
(***************************************************************************)
(* What TPCCClient::run_transactions (src/YCSB-C/core/tpcc_client.h)      *)
(* promises, seen from outside: each thread finishes at most              *)
(* g_total_num_transactions transactions, one at a time.  A transaction   *)
(* it finishes either took effect on the committed tables exactly once,   *)
(* as a whole Payment or New-Order running alone (TpccSerial), and was    *)
(* counted in commit_cnt, or left no trace at all.  The retries, the      *)
(* store calls and the attempts abandoned midway are hidden.               *)
(***************************************************************************)
EXTENDS TpccRows

VARIABLES
  db,        \* committed rows
  finished,  \* transactions each thread has finished
  commits    \* of them, those that took effect

Serial == INSTANCE TpccSerial

Init ==
  /\ Serial!Init
  /\ finished = [t \in Threads |-> 0]
  /\ commits = [t \in Threads |-> 0]

\* A transaction of thread t takes effect as a whole and is counted.
TxnCommits(t) ==
  /\ finished[t] < TxnsPerThread
  /\ Serial!RunTxn(t)
  /\ finished' = [finished EXCEPT ![t] = @ + 1]
  /\ commits' = [commits EXCEPT ![t] = @ + 1]

\* A transaction of thread t is given up: the tables are untouched.
TxnGivenUp(t) ==
  /\ finished[t] < TxnsPerThread
  /\ finished' = [finished EXCEPT ![t] = @ + 1]
  /\ UNCHANGED <<db, commits>>

Next == \E t \in Threads : TxnCommits(t) \/ TxnGivenUp(t)

Spec == Init /\ [][Next]_<<db, finished, commits>>

=============================================================================
