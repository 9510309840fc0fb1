---------------------------- MODULE DelegateClient ----------------------------
(***************************************************************************)
(* The worker threads of one YCSB phase (src/YCSB-C/ycsbc.cc): main splits *)
(* the operations among NumThreads DelegateClient threads, and each runs   *)
(* one of its four loops:                                                  *)
(*   "load"    for (i = 0; i < num_ops; ++i) DoInsert, ProgressUpdate(i);  *)
(*   "timed"   while global_num_clients_done < total_num_clients:          *)
(*             DoTransaction, ProgressUpdate(txn_cnt), and a fetch_add(1)  *)
(*             once the worker's timer has passed benchmark_seconds (the   *)
(*             same loop as DelegateTPCCClient);                           *)
(*   "max_txn" while (txn_cnt < max_txn_count): DoTransaction,             *)
(*             ProgressUpdate(txn_cnt);                                    *)
(*   "num_ops" for (i = 0; i < num_ops; ++i): DoTransaction,               *)
(*             ProgressUpdate(i).                                          *)
(* All but "load" end with ProgressFinish.  Progress is reported in        *)
(* "percent" mode: ProgressUpdate adds sync_interval to the shared         *)
(* global_op_counter (__sync_fetch_and_add); a worker whose addition       *)
(* crosses a percent boundary spins until *last_printed is the percent     *)
(* before its own, prints, and stores its percent in *last_printed.        *)
(*                                                                         *)
(* A transaction or insert is one step (it touches no shared harness       *)
(* state; DoTransaction always returns true).  The wall clock is the       *)
(* environment: Elapse(w) is the moment w's timer passes the duration.     *)
(***************************************************************************)
EXTENDS Naturals, Sequences, FiniteSets

CONSTANTS
  NumThreads,   \* num_threads / num_run_threads
  Modes,        \* the loops of DelegateClient considered
  TotalOpsOf,   \* [mode -> set of record_count / operationcount values]
  OpsPerTxn,    \* values of a run workload's ops_per_transaction
  MaxIter       \* bound: a worker's timer has passed by its MaxIter-th txn

Workers == 0..(NumThreads - 1)

\* main: thread thr_i gets ops [total*thr_i/n, total*(thr_i+1)/n).
Share(total, w) == (total * (w + 1)) \div NumThreads - (total * w) \div NumThreads

\* ProgressUpdate / ProgressFinish: sync_interval.
SyncInterval(total_ops) == IF 0 < total_ops \div 1000 THEN total_ops \div 1000 ELSE 1

\* ReportProgress: the addition from old crosses a percent boundary.
Percent(c, total_ops) == (100 * c) \div total_ops
Crosses(old, step, total_ops) == Percent(old, total_ops) # Percent(old + step, total_ops)

VARIABLES
  mode,         \* the loop every worker of the phase runs
  totalOps,     \* total_ops (the progress denominator)
  numOps,       \* input->num_ops per worker
  maxTxnCount,  \* wl->max_txn_count()
  opsPerTxn,    \* ops_per_transactions of the run phase
  pc,           \* "test": loop condition, "txn": DoTransaction / DoInsert,
                \* "report": ProgressUpdate, "timer": the duration check,
                \* "spin": waiting on *last_printed, "finish": ProgressFinish,
                \* "done": returned
  ret,          \* where a worker goes after it has printed
  myPercent,    \* my_percent of the worker's ReportProgress
  txnCnt,       \* loop iterations done: txn_cnt, or i + 1 in the for-loops
  elapsed,      \* benchmark_timer.End() > benchmark_seconds, per worker
  doneCnt,      \* *global_num_clients_done
  opCounter,    \* *global_op_counter (load_progress / run_progress)
  lastPrinted,  \* *last_printed
  printed       \* the percentages written to cout, in order

phaseVars == <<mode, totalOps, numOps, maxTxnCount, opsPerTxn>>
progressVars == <<ret, myPercent, opCounter, lastPrinted, printed>>
vars == <<phaseVars, pc, txnCnt, elapsed, doneCnt, progressVars>>

\* main, load phase: total_ops is record_count and each thread's num_ops
\* its share.  Run phase: total_ops is max_txn_count * num_run_threads *
\* ops_per_transactions, or operationcount, and each thread's num_ops is
\* its share divided by ops_per_transactions.  The load phase does not
\* read ops_per_transaction (it is 1 there).
Init ==
  /\ mode \in Modes
  /\ opsPerTxn \in IF mode = "load" THEN {1} ELSE OpsPerTxn
  /\ \E t \in TotalOpsOf[mode] :
       /\ maxTxnCount = IF mode = "max_txn" THEN t \div NumThreads ELSE 0
       /\ totalOps = IF mode = "max_txn" THEN maxTxnCount * NumThreads * opsPerTxn ELSE t
  /\ numOps = [w \in Workers |-> Share(totalOps, w) \div opsPerTxn]
  /\ pc = [w \in Workers |-> "test"]
  /\ ret = [w \in Workers |-> "test"]
  /\ myPercent = [w \in Workers |-> 0]
  /\ txnCnt = [w \in Workers |-> 0]
  /\ elapsed = [w \in Workers |-> FALSE]
  /\ doneCnt = 0
  /\ opCounter = 0
  /\ lastPrinted = 0
  /\ printed = <<>>

\* Mutant: my_percent is computed from old_counter instead of new_counter.
ReportProgressOldPercent(w, step, next) ==
  /\ opCounter' = opCounter + step
  /\ IF Crosses(opCounter, step, totalOps)
       THEN /\ pc' = [pc EXCEPT ![w] = "spin"]
            /\ myPercent' = [myPercent EXCEPT ![w] = Percent(opCounter, totalOps)]
            /\ ret' = [ret EXCEPT ![w] = next]
       ELSE /\ pc' = [pc EXCEPT ![w] = next]
            /\ UNCHANGED <<myPercent, ret>>

\* ReportProgress(percent_progress, total_ops, ..., stepsize, ...): the
\* fetch-and-add, then, if a boundary was crossed, the spin wait; next is
\* where the worker continues.
ReportProgress(w, step, next) ==
  /\ opCounter' = opCounter + step
  /\ IF Crosses(opCounter, step, totalOps)
       THEN /\ pc' = [pc EXCEPT ![w] = "spin"]
            /\ myPercent' = [myPercent EXCEPT ![w] = Percent(opCounter + step, totalOps)]
            /\ ret' = [ret EXCEPT ![w] = next]
       ELSE /\ pc' = [pc EXCEPT ![w] = next]
            /\ UNCHANGED <<myPercent, ret>>

\* The exit of the loop: ProgressFinish, except after the load loop.
AfterLoop == IF mode = "load" THEN "done" ELSE "finish"

\* Mutant: the timed loop test compares with <=.
LoopTestInclusive(w) ==
  /\ pc[w] = "test"
  /\ LET continue == CASE mode = "timed"   -> doneCnt <= NumThreads
                       [] mode = "max_txn" -> txnCnt[w] < maxTxnCount
                       [] OTHER            -> txnCnt[w] < numOps[w]
     IN  pc' = [pc EXCEPT ![w] = IF continue THEN "txn" ELSE AfterLoop]
  /\ UNCHANGED <<phaseVars, elapsed, doneCnt, txnCnt, progressVars>>

\* The loop condition of the worker's branch.
LoopTest(w) ==
  /\ pc[w] = "test"
  /\ LET continue == CASE mode = "timed"   -> doneCnt < NumThreads
                       [] mode = "max_txn" -> txnCnt[w] < maxTxnCount
                       [] OTHER            -> txnCnt[w] < numOps[w]
     IN  pc' = [pc EXCEPT ![w] = IF continue THEN "txn" ELSE AfterLoop]
  /\ UNCHANGED <<phaseVars, elapsed, doneCnt, txnCnt, progressVars>>

\* txn_cnt += client.DoTransaction() (or DoInsert); the loop counter
\* advances by one.
RunTxn(w) ==
  /\ pc[w] = "txn"
  \* Once its timer has passed a timed worker signals on every iteration,
  \* so it leaves the loop within N more transactions: the second bound
  \* never binds unless the signal is lost.
  /\ mode = "timed" => txnCnt[w] < MaxIter \/ (elapsed[w] /\ txnCnt[w] < MaxIter + NumThreads)
  /\ txnCnt' = [txnCnt EXCEPT ![w] = @ + 1]
  /\ pc' = [pc EXCEPT ![w] = "report"]
  /\ UNCHANGED <<phaseVars, elapsed, doneCnt, progressVars>>

\* ProgressUpdate(pmode, total_ops, ..., i, ...): when the index passed is a
\* multiple of sync_interval, report sync_interval operations.  The
\* for-loops pass i (iterations done - 1), the while-loops txn_cnt.
Report(w) ==
  /\ pc[w] = "report"
  /\ LET s == SyncInterval(totalOps)
         i == IF mode \in {"load", "num_ops"} THEN txnCnt[w] - 1 ELSE txnCnt[w]
         next == IF mode = "timed" THEN "timer" ELSE "test"
     IN  IF i % s = 0
           THEN ReportProgress(w, s, next)
           ELSE /\ pc' = [pc EXCEPT ![w] = next]
                /\ UNCHANGED <<opCounter, myPercent, ret>>
  /\ UNCHANGED <<phaseVars, txnCnt, elapsed, doneCnt, lastPrinted, printed>>

\* while (*last_printed + 1 != my_percent) {}  then cout << percent and
\* *last_printed = my_percent.  The busy loop is the guard.
PrintPercent(w) ==
  /\ pc[w] = "spin"
  /\ lastPrinted + 1 = myPercent[w]
  /\ printed' = Append(printed, myPercent[w])
  /\ lastPrinted' = myPercent[w]
  /\ pc' = [pc EXCEPT ![w] = ret[w]]
  \* my_percent goes out of scope
  /\ myPercent' = [myPercent EXCEPT ![w] = 0]
  /\ ret' = [ret EXCEPT ![w] = "test"]
  /\ UNCHANGED <<phaseVars, txnCnt, elapsed, doneCnt, opCounter>>

\* Mutant of the duration check: the fetch_add is lost.
CheckTimerNeverSignals(w) ==
  /\ pc[w] = "timer"
  /\ pc' = [pc EXCEPT ![w] = "test"]
  /\ UNCHANGED <<phaseVars, elapsed, doneCnt, txnCnt, progressVars>>

\* if (duration > benchmark_seconds) global_num_clients_done->fetch_add(1);
CheckTimer(w) ==
  /\ pc[w] = "timer"
  /\ doneCnt' = IF elapsed[w] THEN doneCnt + 1 ELSE doneCnt
  /\ pc' = [pc EXCEPT ![w] = "test"]
  /\ UNCHANGED <<phaseVars, elapsed, txnCnt, progressVars>>

\* ProgressFinish(pmode, total_ops, ..., i, ...) reports i % sync_interval:
\* i is txn_cnt after the while-loops and num_ops after the for-loop.
Finish(w) ==
  /\ pc[w] = "finish"
  /\ LET i == IF mode = "num_ops" THEN numOps[w] ELSE txnCnt[w]
     IN  ReportProgress(w, i % SyncInterval(totalOps), "done")
  /\ UNCHANGED <<phaseVars, txnCnt, elapsed, doneCnt, lastPrinted, printed>>

\* The worker's timer passes benchmark_seconds (it was started on entry).
Elapse(w) ==
  /\ mode = "timed"
  /\ ~elapsed[w]
  /\ pc[w] \in {"test", "txn", "report", "spin", "timer"}
  /\ elapsed' = [elapsed EXCEPT ![w] = TRUE]
  /\ UNCHANGED <<phaseVars, pc, txnCnt, doneCnt, progressVars>>

Step(w) ==
  LoopTest(w) \/ RunTxn(w) \/ Report(w) \/ PrintPercent(w) \/ CheckTimer(w) \/ Finish(w)

\* When every worker has returned the threads are joined and the phase
\* stops; that is the only state without a successor that AllWorkersStop
\* accepts.
Next == \E w \in Workers : Step(w) \/ Elapse(w)

\* Each worker is an OS thread that keeps being scheduled, and wall-clock
\* time keeps advancing, so every enabled step of a worker eventually runs.
Fairness == \A w \in Workers : WF_vars(Step(w)) /\ WF_vars(Elapse(w))

Spec == Init /\ [][Next]_vars /\ Fairness

-----------------------------------------------------------------------------
\* The worker has left its loop.
LeftLoop(w) == pc[w] \in {"finish", "done"} \/ (pc[w] = "spin" /\ ret[w] = "done")

TypeOK ==
  /\ pc \in [Workers -> {"test", "txn", "report", "spin", "timer", "finish", "done"}]
  /\ elapsed \in [Workers -> BOOLEAN]
  \* A worker adds 1 only after testing doneCnt < N, so the counter
  \* overshoots N by at most the other N - 1 workers.
  /\ doneCnt \in 0..(2 * NumThreads - 1)

\* Spec section 5: each worker signals completion once, and workers keep
\* running until every worker has signalled, so a worker leaves the loop
\* only when every worker's own timer has passed benchmark_seconds.
NoStopBeforeAllDeadlines ==
  mode = "timed" => \A w \in Workers : LeftLoop(w) => \A v \in Workers : elapsed[v]

\* The workers in the spin loop of ReportProgress.
Spinning == {w \in Workers : pc[w] = "spin"}

\* Every percent boundary the shared global_op_counter has crossed is
\* accounted for exactly once, whatever order the workers' fetch-and-adds
\* and spin waits took: the lines printed so far are 1, 2, ... in order,
\* and each later percent up to the counter's is held by exactly one
\* worker waiting in the spin loop to print it.  When no worker spins, the
\* last line printed is the counter's percent.
PercentsAccounted ==
  LET p == Percent(opCounter, totalOps)
  IN  /\ printed = [i \in 1..Len(printed) |-> i]
      /\ {myPercent[w] : w \in Spinning} = (Len(printed) + 1)..p
      /\ Cardinality(Spinning) = p - Len(printed)

\* The phase terminates: every worker eventually returns, past its loop
\* and the spin waits of its progress reports.
AllWorkersStop == <>(\A w \in Workers : pc[w] = "done")

=============================================================================
