----------------------------- MODULE YcsbClient -----------------------------
(***************************************************************************)
(* The YCSB transactional client engine: ycsbc::Client                     *)
(* (src/YCSB-C/core/client.h) driven by the loops of DelegateClient        *)
(* (src/YCSB-C/ycsbc.cc), against the store calls of                       *)
(* TransactionalSplinterDB (src/YCSB-C/db/transactional_splinter_db.cc),   *)
(* with the key allocation of the workloads (CoreWorkload and the shared   *)
(* BatchedCounterGenerator that main builds for all of them).              *)
(*                                                                         *)
(* main sizes the counter's batches and lets every thread's workload claim *)
(* one batch (InitLoadWorkload, in thread order).  Unless the store is     *)
(* preloaded, each load thread inserts its share of record_count rows      *)
(* under sequence keys (DoInsert).  After the load threads are joined,     *)
(* each run thread repeatedly builds one transaction, an operation at a    *)
(* time, into a set deduplicated by key                                    *)
(* (GenerateClientTransactionalOperations), then runs attempts (Begin, one *)
(* store call per operation in set-iteration order, Commit) until one      *)
(* commits or retry exceeds MaxTxnRetry, and records the outcome           *)
(* (DoTransactionalOperations).                                            *)
(*                                                                         *)
(* The store is the environment: every store call may answer OK or        *)
(* Conflict, as the optimistic store may; Scan on TransactionalSplinterDB  *)
(* always answers NotSupport.  Latencies are abstracted to the number of   *)
(* samples pushed into each series; the backoff sleep is a delay only.    *)
(* Request keys are model values; sequence keys are the counter's ids.     *)
(***************************************************************************)
EXTENDS Integers, Sequences, FiniteSets, SequencesExt, Functions

CONSTANTS
  NumThreads,     \* num_threads: load and run threads, and workloads wls[]
  RecordCount,    \* record_count of the load workload
  Preloaded,      \* load_workload.preloaded: the load phase is skipped
  Keys,           \* keys the request key chooser can return
  Mix,            \* operation kinds registered in op_chooser_ (proportion > 0)
  OpsPerTxn,      \* workload_.ops_per_transaction()
  MaxTxnRetry,    \* workload_.max_txn_retry()
  OperationCount  \* operationcount of the run workload (max_txn_count 0)

Threads == 0..(NumThreads - 1)

Kinds == {"READ", "UPDATE", "INSERT", "SCAN", "READMODIFYWRITE"}

ASSUME NumThreads \in Nat \ {0} /\ RecordCount \in Nat \ {0}
ASSUME Mix \subseteq Kinds /\ Mix # {}
ASSUME OpsPerTxn \in Nat \ {0} /\ MaxTxnRetry \in Nat /\ OperationCount \in Nat
\* The build loop can only end if OpsPerTxn distinct keys can be drawn.
ASSUME "INSERT" \in Mix \/ Cardinality(Keys) >= OpsPerTxn

\* Return codes of the DB interface used by the client.
OK == "kOK"
Conflict == "kErrorConflict"
NotSupport == "kErrorNotSupport"
Statuses == {OK, Conflict, NotSupport}

\* main: batch_size = sqrt(record_count), lowered to record_count /
\* num_threads when that leaves fewer batches than threads, and at least 1.
ISqrt(n) == CHOOSE r \in 0..n : r * r <= n /\ (r + 1) * (r + 1) > n
BatchSizeFor(rc, n) ==
  LET s == ISqrt(rc)
      b == IF rc \div s < n THEN rc \div n ELSE s
  IN  IF b < 1 THEN 1 ELSE b

BatchSize == BatchSizeFor(RecordCount, NumThreads)

\* BatchedCounterGenerator key_generator(preloaded ? record_count : 0, ...)
Start == IF Preloaded THEN RecordCount ELSE 0

\* main: load thread thr_i inserts rows [rc*thr_i/n, rc*(thr_i+1)/n).
LoadShare(t) == (RecordCount * (t + 1)) \div NumThreads
                  - (RecordCount * t) \div NumThreads

\* main: run thread thr_i gets operations [total*thr_i/n, total*(thr_i+1)/n)
\* and runs that many divided by ops_per_transaction transactions
\* (ycsb_inputs[thr_i].num_ops of the fixed-count loop).
TxnsOf(t) == ((OperationCount * (t + 1)) \div NumThreads
                - (OperationCount * t) \div NumThreads) \div OpsPerTxn

\* Bound: the ids a thread can be handed, its load share and at most one per
\* operation of each transaction; it never binds unless the builder loses
\* operations it drew.
MaxIssued(t) == (IF Preloaded THEN 0 ELSE LoadShare(t)) + TxnsOf(t) * OpsPerTxn

\* The answers the store can give to the call(s) made for one operation.
\* READMODIFYWRITE is a Read then an Insert; either may conflict.
StoreReplies(kind) ==
  IF kind = "SCAN" THEN {NotSupport} ELSE {OK, Conflict}

InTxn == {"exec", "commit", "after"}

VARIABLES
  pc,             \* where each thread is in DelegateClient / the Client calls
  cursor,         \* the shared atomic cursor of key_generator
  nextId,         \* key_generator_batch_: the next id of the thread's batch
  batchRemaining, \* batch_remaining_
  issued,         \* ids NextSequenceKey handed to the thread, in order
  built,          \* operations_in_transaction while it is being built
  ops,            \* operations_in_transaction, in its iteration order
  idx,            \* index of the next operation of the attempt
  isAbort,        \* is_abort
  retry,          \* retry
  handles,        \* Transaction objects allocated by Begin and not yet deleted
  abortCnt,       \* abort_cnt
  txnCnt,         \* Client::txn_cnt (committed transactions)
  commitLat,      \* number of samples in commit_txn_latencies
  abortLat,       \* number of samples in abort_txn_latencies
  abortCntPerTxn, \* abort_cnt_per_txn
  loopCnt         \* DelegateClient's loop counter i

keyVars == <<cursor, nextId, batchRemaining, issued>>
statVars == <<abortCnt, txnCnt, commitLat, abortLat, abortCntPerTxn>>
vars == <<pc, keyVars, built, ops, idx, isAbort, retry, handles,
          statVars, loopCnt>>

Op == [kind : Kinds, key : Keys \cup Nat]

\* The ids of the thread's batch it has not yet been handed.
BatchRest(t) == nextId[t]..(nextId[t] + batchRemaining[t] - 1)

-----------------------------------------------------------------------------
\* main constructs the counter at Start and calls InitLoadWorkload for
\* wls[0], wls[1], ... in turn: each takes key_generator->Next() as its
\* batch start and BatchSize() as batch_remaining_.  Load threads start in
\* the load loop, run threads (preloaded store) in the run loop.
Init ==
  /\ cursor = Start + NumThreads * BatchSize
  /\ nextId = [t \in Threads |-> Start + t * BatchSize]
  /\ batchRemaining = [t \in Threads |-> BatchSize]
  /\ issued = [t \in Threads |-> <<>>]
  /\ pc = [t \in Threads |-> IF Preloaded THEN "loop" ELSE "load"]
  /\ built = [t \in Threads |-> {}]
  /\ ops = [t \in Threads |-> <<>>]
  /\ idx = [t \in Threads |-> 1]
  /\ isAbort = [t \in Threads |-> FALSE]
  /\ retry = [t \in Threads |-> 0]
  /\ handles = [t \in Threads |-> 0]
  /\ abortCnt = [t \in Threads |-> 0]
  /\ txnCnt = [t \in Threads |-> 0]
  /\ commitLat = [t \in Threads |-> 0]
  /\ abortLat = [t \in Threads |-> 0]
  /\ abortCntPerTxn = [t \in Threads |-> <<>>]
  /\ loopCnt = [t \in Threads |-> 0]

\* Mutant: a fresh batch is handed out with batch_remaining_ = BatchSize
\* after its first id was already returned.
NextSequenceKeyOverrun(t, id) ==
  /\ Len(issued[t]) < MaxIssued(t)
  /\ IF batchRemaining[t] = 0
       THEN /\ id = cursor
            /\ cursor' = cursor + BatchSize
            /\ nextId' = [nextId EXCEPT ![t] = id + 1]
            /\ batchRemaining' = [batchRemaining EXCEPT ![t] = BatchSize]
       ELSE /\ id = nextId[t]
            /\ nextId' = [nextId EXCEPT ![t] = @ + 1]
            /\ batchRemaining' = [batchRemaining EXCEPT ![t] = @ - 1]
            /\ UNCHANGED cursor
  /\ issued' = [issued EXCEPT ![t] = Append(@, id)]

\* workload_.NextSequenceKey: the next id of the thread's batch; when the
\* batch is used up, a new one is claimed with the atomic fetch-and-add of
\* key_generator_->Next() and its first id returned.  id is the id handed
\* out (the key string is its formatting).
NextSequenceKey(t, id) ==
  /\ Len(issued[t]) < MaxIssued(t)
  /\ IF batchRemaining[t] = 0
       THEN /\ id = cursor
            /\ cursor' = cursor + BatchSize
            /\ nextId' = [nextId EXCEPT ![t] = id + 1]
            /\ batchRemaining' = [batchRemaining EXCEPT ![t] = BatchSize - 1]
       ELSE /\ id = nextId[t]
            /\ nextId' = [nextId EXCEPT ![t] = @ + 1]
            /\ batchRemaining' = [batchRemaining EXCEPT ![t] = @ - 1]
            /\ UNCHANGED cursor
  /\ issued' = [issued EXCEPT ![t] = Append(@, id)]

\* One iteration of the load loop: DoInsert takes the next sequence key and
\* stores the row with the non-transactional Insert, which returns kOK.
LoadInsert(t) ==
  /\ pc[t] = "load"
  /\ loopCnt[t] < LoadShare(t)
  /\ \E id \in {cursor, nextId[t]} : NextSequenceKey(t, id)
  /\ loopCnt' = [loopCnt EXCEPT ![t] = @ + 1]
  /\ UNCHANGED <<pc, built, ops, idx, isAbort, retry, handles, statVars>>

\* The load loop ends; main joins the load threads and starts the run
\* threads, whose loop counter starts at 0.
LoadDone(t) ==
  /\ pc[t] = "load"
  /\ loopCnt[t] = LoadShare(t)
  /\ pc' = [pc EXCEPT ![t] = "loop"]
  /\ loopCnt' = [loopCnt EXCEPT ![t] = 0]
  /\ UNCHANGED <<keyVars, built, ops, idx, isAbort, retry, handles, statVars>>

\* db_.Begin(&txn) at the top of the do-loop: a new Transaction is
\* allocated and is_abort is reset.
BeginAttempt(t) ==
  /\ handles' = [handles EXCEPT ![t] = @ + 1]
  /\ isAbort' = [isAbort EXCEPT ![t] = FALSE]
  /\ idx' = [idx EXCEPT ![t] = 1]
  /\ pc' = [pc EXCEPT ![t] = "exec"]

\* DelegateClient calls DoTransaction while i < num_ops; it starts the
\* timer and enters the build loop with an empty operation set.
StartTxn(t) ==
  /\ pc[t] = "loop"
  /\ \A u \in Threads : pc[u] # "load"
  /\ loopCnt[t] < TxnsOf(t)
  /\ pc' = [pc EXCEPT ![t] = "build"]
  /\ UNCHANGED <<keyVars, built, ops, idx, isAbort, retry, handles,
                 statVars, loopCnt>>

\* Mutant: ClientOperation equality ignores the key, so the set keeps the
\* first operation of the table only.
EmplaceTableOnly(t, op) ==
  built' = [built EXCEPT ![t] = IF @ = {} THEN {op} ELSE @]

\* operations_in_transaction.emplace(client_op): the set already holds an
\* operation equal to it (same table and key) or it gains it.
Emplace(t, op) ==
  built' = [built EXCEPT ![t] =
              IF op.key \in {o.key : o \in @} THEN @ ELSE @ \cup {op}]

\* GenerateClientOperation<Kind> and the emplace: the operation's key is
\* workload_.NextTransactionKey(), except that an INSERT takes the next
\* sequence key; table, fields and values are left out.
DrawOp(t, kind) ==
  IF kind = "INSERT"
    THEN \E id \in {cursor, nextId[t]} :
           /\ NextSequenceKey(t, id)
           /\ Emplace(t, [kind |-> kind, key |-> id])
    ELSE \E k \in Keys :
           /\ Emplace(t, [kind |-> kind, key |-> k])
           /\ UNCHANGED keyVars

\* One iteration of the build loop, while the set has fewer than
\* ops_per_transaction operations: op_chooser_ draws a kind and an
\* operation of that kind is generated and emplaced.
BuildOp(t) ==
  /\ pc[t] = "build"
  /\ Cardinality(built[t]) < OpsPerTxn
  /\ \E kind \in Mix : DrawOp(t, kind)
  /\ UNCHANGED <<pc, ops, idx, isAbort, retry, handles, statVars, loopCnt>>

\* A draw that grows the set (its key is not in it yet).
BuildFresh(t) == BuildOp(t) /\ built'[t] # built[t]

\* The set is complete: its iteration order is fixed from now on (the
\* unordered_set is not modified until cleared), retry = 0, and the first
\* attempt begins.
BeginTxn(t) ==
  /\ pc[t] = "build"
  /\ Cardinality(built[t]) = OpsPerTxn
  /\ \E s \in SetToSeqs(built[t]) : ops' = [ops EXCEPT ![t] = s]
  /\ retry' = [retry EXCEPT ![t] = 0]
  /\ BeginAttempt(t)
  /\ UNCHANGED <<keyVars, built, statVars, loopCnt>>

\* One iteration of the for-loop over operations_in_transaction: the store
\* call for the operation; a non-zero status sets is_abort and breaks.
ExecOp(t) ==
  /\ pc[t] = "exec"
  /\ \E st \in StoreReplies(ops[t][idx[t]].kind) :
       IF st # OK
         THEN /\ isAbort' = [isAbort EXCEPT ![t] = TRUE]
              /\ pc' = [pc EXCEPT ![t] = "after"]
         ELSE /\ pc' = [pc EXCEPT ![t] =
                          IF idx[t] = Len(ops[t]) THEN "commit" ELSE "exec"]
              /\ UNCHANGED isAbort
  \* the loop iterator dies when the loop is left
  /\ idx' = [idx EXCEPT ![t] = IF pc'[t] = "exec" THEN @ + 1 ELSE 1]
  /\ UNCHANGED <<keyVars, built, ops, retry, handles, statVars, loopCnt>>

\* if (!is_abort) is_abort = (db_.Commit(&txn) == kErrorConflict);
\* Commit deletes the Transaction whatever the outcome.
Commit(t) ==
  /\ pc[t] = "commit"
  /\ \E st \in {OK, Conflict} : isAbort' = [isAbort EXCEPT ![t] = (st = Conflict)]
  /\ handles' = [handles EXCEPT ![t] = @ - 1]
  /\ pc' = [pc EXCEPT ![t] = "after"]
  /\ UNCHANGED <<keyVars, built, ops, idx, retry, statVars, loopCnt>>

\* An aborted attempt: ++abort_cnt, back off, ++retry; the do-while test
\* retry <= max_txn_retry holds, so the same operation set is replayed.
Retry(t) ==
  /\ pc[t] = "after"
  /\ isAbort[t]
  /\ retry[t] + 1 <= MaxTxnRetry
  /\ abortCnt' = [abortCnt EXCEPT ![t] = @ + 1]
  /\ retry' = [retry EXCEPT ![t] = @ + 1]
  /\ BeginAttempt(t)
  /\ UNCHANGED <<keyVars, built, ops, txnCnt, commitLat, abortLat,
                 abortCntPerTxn, loopCnt>>

\* DoTransactionalOperations returns: its locals retry, is_abort and the
\* loop iterator go out of scope (the model resets them).
ResetLocals(t) ==
  /\ retry' = [retry EXCEPT ![t] = 0]
  /\ isAbort' = [isAbort EXCEPT ![t] = FALSE]
  /\ idx' = [idx EXCEPT ![t] = 1]

\* Mutants of Finish.  FinishUncountedLastAbort: ++abort_cnt only happens
\* when another attempt follows.  FinishRetryNotBumped: ++retry is skipped
\* on the last failed attempt.  FinishRecordsAborts: abort_cnt_per_txn
\* records retry - 1.
FinishUncountedLastAbort(t) ==
  /\ pc[t] = "after"
  /\ LET r == IF isAbort[t] THEN retry[t] + 1 ELSE retry[t]
     IN  /\ isAbort[t] => r > MaxTxnRetry
         /\ abortCntPerTxn' = [abortCntPerTxn EXCEPT ![t] = Append(@, r)]
  /\ IF isAbort[t]
       THEN /\ abortLat' = [abortLat EXCEPT ![t] = @ + 1]
            /\ UNCHANGED <<commitLat, txnCnt>>
       ELSE /\ commitLat' = [commitLat EXCEPT ![t] = @ + 1]
            /\ txnCnt' = [txnCnt EXCEPT ![t] = @ + 1]
            /\ UNCHANGED abortLat
  /\ ops' = [ops EXCEPT ![t] = <<>>]
  /\ built' = [built EXCEPT ![t] = {}]
  /\ loopCnt' = [loopCnt EXCEPT ![t] = @ + 1]
  /\ pc' = [pc EXCEPT ![t] = "loop"]
  /\ ResetLocals(t)
  /\ UNCHANGED <<keyVars, handles, abortCnt>>

FinishRetryNotBumped(t) ==
  /\ pc[t] = "after"
  /\ isAbort[t] => retry[t] + 1 > MaxTxnRetry
  /\ abortCnt' = [abortCnt EXCEPT ![t] = @ + (IF isAbort[t] THEN 1 ELSE 0)]
  /\ abortCntPerTxn' = [abortCntPerTxn EXCEPT ![t] = Append(@, retry[t])]
  /\ IF isAbort[t]
       THEN /\ abortLat' = [abortLat EXCEPT ![t] = @ + 1]
            /\ UNCHANGED <<commitLat, txnCnt>>
       ELSE /\ commitLat' = [commitLat EXCEPT ![t] = @ + 1]
            /\ txnCnt' = [txnCnt EXCEPT ![t] = @ + 1]
            /\ UNCHANGED abortLat
  /\ ops' = [ops EXCEPT ![t] = <<>>]
  /\ built' = [built EXCEPT ![t] = {}]
  /\ loopCnt' = [loopCnt EXCEPT ![t] = @ + 1]
  /\ pc' = [pc EXCEPT ![t] = "loop"]
  /\ ResetLocals(t)
  /\ UNCHANGED <<keyVars, handles>>

FinishRecordsAborts(t) ==
  /\ pc[t] = "after"
  /\ LET r == IF isAbort[t] THEN retry[t] + 1 ELSE retry[t]
     IN  /\ isAbort[t] => r > MaxTxnRetry
         /\ abortCnt' = [abortCnt EXCEPT ![t] = @ + (IF isAbort[t] THEN 1 ELSE 0)]
         /\ abortCntPerTxn' = [abortCntPerTxn EXCEPT ![t] = Append(@, r - 1)]
  /\ IF isAbort[t]
       THEN /\ abortLat' = [abortLat EXCEPT ![t] = @ + 1]
            /\ UNCHANGED <<commitLat, txnCnt>>
       ELSE /\ commitLat' = [commitLat EXCEPT ![t] = @ + 1]
            /\ txnCnt' = [txnCnt EXCEPT ![t] = @ + 1]
            /\ UNCHANGED abortLat
  /\ ops' = [ops EXCEPT ![t] = <<>>]
  /\ built' = [built EXCEPT ![t] = {}]
  /\ loopCnt' = [loopCnt EXCEPT ![t] = @ + 1]
  /\ pc' = [pc EXCEPT ![t] = "loop"]
  /\ ResetLocals(t)
  /\ UNCHANGED <<keyVars, handles>>

\* The do-while exits (commit, or retry past the bound): the latency goes
\* to the commit or abort series, retry is appended to abort_cnt_per_txn,
\* the set is cleared, txn_cnt counts a commit; DelegateClient's i grows.
Finish(t) ==
  /\ pc[t] = "after"
  /\ LET r == IF isAbort[t] THEN retry[t] + 1 ELSE retry[t]
     IN  /\ isAbort[t] => r > MaxTxnRetry
         /\ abortCnt' = [abortCnt EXCEPT ![t] = @ + (IF isAbort[t] THEN 1 ELSE 0)]
         /\ abortCntPerTxn' = [abortCntPerTxn EXCEPT ![t] = Append(@, r)]
  /\ IF isAbort[t]
       THEN /\ abortLat' = [abortLat EXCEPT ![t] = @ + 1]
            /\ UNCHANGED <<commitLat, txnCnt>>
       ELSE /\ commitLat' = [commitLat EXCEPT ![t] = @ + 1]
            /\ txnCnt' = [txnCnt EXCEPT ![t] = @ + 1]
            /\ UNCHANGED abortLat
  /\ ops' = [ops EXCEPT ![t] = <<>>]
  /\ built' = [built EXCEPT ![t] = {}]
  /\ loopCnt' = [loopCnt EXCEPT ![t] = @ + 1]
  /\ pc' = [pc EXCEPT ![t] = "loop"]
  /\ ResetLocals(t)
  /\ UNCHANGED <<keyVars, handles>>

\* The run loop ends after num_ops transactions; db->Close().
Exit(t) ==
  /\ pc[t] = "loop"
  /\ loopCnt[t] >= TxnsOf(t)
  /\ pc' = [pc EXCEPT ![t] = "done"]
  /\ UNCHANGED <<keyVars, built, ops, idx, isAbort, retry, handles,
                 statVars, loopCnt>>

Terminated ==
  /\ \A t \in Threads : pc[t] = "done"
  /\ UNCHANGED vars

\* Every step of thread t.
ThreadStep(t) ==
  \/ LoadInsert(t) \/ LoadDone(t)
  \/ StartTxn(t) \/ BuildOp(t) \/ BeginTxn(t)
  \/ ExecOp(t) \/ Commit(t) \/ Retry(t) \/ Finish(t) \/ Exit(t)

Next == (\E t \in Threads : ThreadStep(t)) \/ Terminated

\* Each thread is an OS thread that keeps running while it can (weak
\* fairness).  A build step draws its key from the key chooser, which
\* returns every key with positive probability, so a key not yet in the
\* set is drawn eventually while one is left (weak fairness of BuildFresh).
Fairness ==
  \A t \in Threads : WF_vars(ThreadStep(t)) /\ WF_vars(BuildFresh(t))

Spec == Init /\ [][Next]_vars /\ Fairness

-----------------------------------------------------------------------------
TypeOK ==
  /\ pc \in [Threads -> {"load", "loop", "build", "exec", "commit", "after", "done"}]
  /\ cursor \in Nat /\ nextId \in [Threads -> Nat]
  /\ batchRemaining \in [Threads -> 0..BatchSize]
  /\ \A t \in Threads : issued[t] \in Seq(Nat) /\ built[t] \subseteq Op
  /\ \A t \in Threads : ops[t] \in Seq(Op) /\ abortCntPerTxn[t] \in Seq(Nat)
  /\ idx \in [Threads -> Nat \ {0}]
  /\ isAbort \in [Threads -> BOOLEAN]
  /\ retry \in [Threads -> Nat]
  /\ handles \in [Threads -> Nat]
  /\ abortCnt \in [Threads -> Nat]
  /\ txnCnt \in [Threads -> Nat]
  /\ commitLat \in [Threads -> Nat]
  /\ abortLat \in [Threads -> Nat]
  /\ loopCnt \in [Threads -> Nat]

SumSeq(s) == FoldSeq(LAMBDA x, y : x + y, 0, s)

\* abort_cnt counts every failed attempt: it equals the retries recorded in
\* abort_cnt_per_txn for finished transactions plus the attempts already
\* failed by the transaction in progress (Client::DoTransactionalOperations).
AbortsAccounted ==
  \A t \in Threads :
    abortCnt[t] = SumSeq(abortCntPerTxn[t])
                    + (IF pc[t] \in InTxn THEN retry[t] ELSE 0)

\* A finished transaction lands in the abort-latency series exactly when it
\* used up all MaxTxnRetry + 1 attempts; every other one committed, and no
\* entry of abort_cnt_per_txn exceeds MaxTxnRetry + 1 (the do-while bound).
OutcomeMatchesRetries ==
  \A t \in Threads :
    /\ \A i \in 1..Len(abortCntPerTxn[t]) : abortCntPerTxn[t][i] <= MaxTxnRetry + 1
    /\ abortLat[t] =
         Cardinality({i \in 1..Len(abortCntPerTxn[t]) :
                        abortCntPerTxn[t][i] = MaxTxnRetry + 1})
    /\ commitLat[t] + abortLat[t] = Len(abortCntPerTxn[t])
    /\ txnCnt[t] = commitLat[t]

\* Each attempt owns exactly one store transaction handle while it is in
\* flight and none outside it: the Transaction from Begin is released
\* (Commit deletes it) before the next Begin.
OneHandlePerAttempt ==
  \A t \in Threads :
    handles[t] = IF pc[t] \in {"exec", "commit"} THEN 1 ELSE 0

\* The batched counter never hands one id out twice and loses none: the ids
\* handed to the threads (by DoInsert in the load and by INSERT operations
\* in the run) and the unused rests of their current batches together are
\* exactly [start, cursor), each id once (BatchedCounterGenerator and
\* CoreWorkload::NextSequenceKey, shared by all wls[]).
IdsConserved ==
  LET holds(t) == Range(issued[t]) \cup BatchRest(t)
      size(t) == Len(issued[t]) + batchRemaining[t]
  IN  /\ UNION {holds(t) : t \in Threads} = Start..(cursor - 1)
      /\ FoldFunction(LAMBDA x, y : x + y, 0, [t \in Threads |-> size(t)])
           = cursor - Start

\* Every thread eventually returns from DelegateClient: each build loop
\* completes its set, and each transaction ends within MaxTxnRetry + 1
\* attempts, including those whose SCAN always answers NotSupport.
AllThreadsFinish == <>(\A t \in Threads : pc[t] = "done")

=============================================================================
