----------------------------- MODULE TpccClient -----------------------------
(***************************************************************************)
(* TPC-C client threads against the transactional store:                  *)
(*   - TPCCClient::run_transaction (src/YCSB-C/core/tpcc_client.h): build  *)
(*     one TPCCTransaction, run attempts until one does not conflict or    *)
(*     retry exceeds g_max_txn_retry, count attempts and aborts per type;  *)
(*   - TPCCWorkload::run_payment / run_new_order                           *)
(*     (src/YCSB-C/core/tpcc_workload.cc): each body is the sequence of    *)
(*     store calls it makes, in either g_use_upserts mode; a call that     *)
(*     answers kErrorConflict returns from the body at once, without       *)
(*     Commit; otherwise the body returns what Commit answers.             *)
(*                                                                         *)
(* The store is modelled from the specification (section 10, "Conflict")  *)
(* and the TicToc mode selected in experimental_mode.h: reads record the  *)
(* version they saw, writes go to a private write set, Commit validates   *)
(* the read versions and installs the write set atomically.  Any call may *)
(* also answer conflict.  Rows hold only the fields the properties watch:  *)
(* w_ytd, d_ytd and d_next_o_id, c_payment_cnt, s_order_cnt, and the      *)
(* existence of History, NewOrder, Order and OrderLine rows.  A New-Order *)
(* has one order line.                                                     *)
(***************************************************************************)
EXTENDS TpccRows, Sequences, FiniteSets, Functions, TLC

CONSTANTS
  MaxTxnRetry,    \* g_max_txn_retry
  UpsertModes     \* values of g_use_upserts considered

\* A store call: op is Read, Insert, Update (blind upsert) or RMW (a Read
\* and an Insert of the row computed from it); fn names the computation.
Call(op, key, fn) == [op |-> op, key |-> key, fn |-> fn]

\* Increase a YTD, or bump a counter: read-modify-write or blind upsert.
Aggregate(key, fn, ups) == IF ups THEN Call("Update", key, fn) ELSE Call("RMW", key, fn)

\* run_payment: warehouse and district YTD, customer, then the History row
\* keyed by hKey(c_id, c_d_id, c_w_id).
PaymentCalls(p, ups) ==
  << Aggregate(WKey(p.w), "ytd", ups),
     Aggregate(DKey(p.w, p.d), "ytd", ups),
     Aggregate(CKey(p.w, p.d, p.c), "payment", ups),
     Call("Insert", HKey(p.w, p.d, p.c), "row") >>

\* run_new_order: read warehouse, read the district and write it back with
\* d_next_o_id + 1, read customer, insert NEW_ORDER and ORDER, then per
\* line read the item, update the stock, insert the ORDER_LINE.  "oid"
\* keys are completed with the order id read from the district.
\* Mutant of run_new_order: the stock row is read but not written back.
NewOrderCallsNoStockWrite(p, ups) ==
  << Call("Read", WKey(p.w), "none"),
     Call("RMW", DKey(p.w, p.d), "next"),
     Call("Read", CKey(p.w, p.d, p.c), "none"),
     Call("Insert", <<"NO", p.w, p.d>>, "row"),
     Call("Insert", <<"O", p.w, p.d>>, "row"),
     Call("Read", IKey, "none"),
     Call("Read", SKey(p.w), "none"),
     Call("Insert", <<"OL", p.w, p.d>>, "row") >>

NewOrderCalls(p, ups) ==
  << Call("Read", WKey(p.w), "none"),
     Call("RMW", DKey(p.w, p.d), "next"),
     Call("Read", CKey(p.w, p.d, p.c), "none"),
     Call("Insert", <<"NO", p.w, p.d>>, "row"),
     Call("Insert", <<"O", p.w, p.d>>, "row"),
     Call("Read", IKey, "none"),
     Aggregate(SKey(p.w), "order", ups),
     Call("Insert", <<"OL", p.w, p.d>>, "row") >>

\* TPCCWorkload::run_transaction dispatches on the type.
Program(p, ups) ==
  IF p.type = "PAYMENT" THEN PaymentCalls(p, ups) ELSE NewOrderCalls(p, ups)

\* Mutant: the district row is written back without d_next_o_id bumped.
ModifyNoBump(fn, key, v, p) ==
  CASE fn = "ytd" /\ key[1] = "D" -> [v EXCEPT !.ytd = @ + p.amount]
    [] fn = "ytd" -> v + p.amount
    [] fn = "next" -> v
    [] OTHER -> v + 1

\* The row a read-modify-write computes from the row it read.
Modify(fn, key, v, p) ==
  CASE fn = "ytd" /\ key[1] = "D" -> [v EXCEPT !.ytd = @ + p.amount]
    [] fn = "ytd" -> v + p.amount
    [] fn = "next" -> [v EXCEPT !.next = @ + 1]
    [] OTHER -> v + 1                  \* "payment", "order"

\* Mutant: the merge keeps the delta instead of adding it to the row.
MergeDeltaOverwrite(fn, key, v, p) ==
  CASE fn = "ytd" /\ key[1] = "D" -> [v EXCEPT !.ytd = p.amount]
    [] fn = "ytd" -> p.amount
    [] OTHER -> 1

\* tpcc_merge_tuple on an UPDATE delta and the row: w_ytd / d_ytd +=
\* h_amount, c_payment_cnt += total_payment_cnt, s_order_cnt += order_cnt.
MergeDelta(fn, key, v, p) ==
  CASE fn = "ytd" /\ key[1] = "D" -> [v EXCEPT !.ytd = @ + p.amount]
    [] fn = "ytd" -> v + p.amount
    [] OTHER -> v + 1                  \* "payment", "order"

VARIABLES
  useUpserts,   \* g_use_upserts
  db,           \* committed rows
  ver,          \* version of each committed row
  pc,           \* "idle", "body", "commit", "after", "done"
  txn,          \* the TPCCTransaction of the thread
  idx,          \* next store call of the body
  orderId,      \* order_id computed by run_new_order
  rs,           \* read set: key -> version read
  ws,           \* write set: key -> [kind, val] ("row") or [kind, fn] ("delta")
  needRetry,    \* need_retry
  retry,        \* retry
  attempts,     \* attempts_payment / attempts_new_order
  aborts,       \* abort_cnt_payment / abort_cnt_new_order
  abortCnt,     \* abort_cnt
  commitCnt,    \* commit_cnt
  commitLat,    \* samples in commit_txn_latencies
  abortLat,     \* samples in abort_txn_latencies
  loopCnt,      \* run_transactions' loop counter i
  paid,         \* ghost: committed Payment amount per district
  ordered       \* ghost: committed New-Orders per district

vars == <<useUpserts, db, ver, pc, txn, idx, orderId, rs, ws, needRetry, retry,
          attempts, aborts, abortCnt, commitCnt, commitLat, abortLat, loopCnt,
          paid, ordered>>
storeVars == <<db, ver>>
statVars == <<attempts, aborts, abortCnt, commitCnt, commitLat, abortLat, loopCnt>>
ghostVars == <<paid, ordered>>

Init ==
  /\ useUpserts \in UpsertModes
  /\ db = [k \in Keys |-> InitRow(k)]
  /\ ver = [k \in Keys |-> 0]
  /\ pc = [t \in Threads |-> "idle"]
  /\ txn = [t \in Threads |-> CHOOSE p \in Params(t) : TRUE]
  /\ idx = [t \in Threads |-> 1]
  /\ orderId = [t \in Threads |-> NextOidInit]
  /\ rs = [t \in Threads |-> <<>>]
  /\ ws = [t \in Threads |-> <<>>]
  /\ needRetry = [t \in Threads |-> FALSE]
  /\ retry = [t \in Threads |-> 0]
  /\ attempts = [t \in Threads |-> [y \in Types |-> 0]]
  /\ aborts = [t \in Threads |-> [y \in Types |-> 0]]
  /\ abortCnt = [t \in Threads |-> 0]
  /\ commitCnt = [t \in Threads |-> 0]
  /\ commitLat = [t \in Threads |-> 0]
  /\ abortLat = [t \in Threads |-> 0]
  /\ loopCnt = [t \in Threads |-> 0]
  /\ paid = [w \in Wh |-> [d \in Dist |-> 0]]
  /\ ordered = [w \in Wh |-> [d \in Dist |-> 0]]

\* The key a call addresses, with the order id for the order tables.
Resolve(t, key) == IF key[1] \in {"NO", "O", "OL"} THEN Append(key, orderId[t]) ELSE key

\* The row a read returns: the transaction's own row write, else the
\* committed row.
View(t, k) == IF k \in DOMAIN ws[t] /\ ws[t][k].kind = "row" THEN ws[t][k].val ELSE db[k]

\* A read records the version it saw (the first time).
Record(t, k) == IF k \in DOMAIN rs[t] THEN rs[t] ELSE (k :> ver[k]) @@ rs[t]

\* One attempt of the do-loop: ++attempts_<type>, _db->Begin(&t).
BeginAttempt(t) ==
  /\ attempts' = [attempts EXCEPT ![t][txn'[t].type] = @ + 1]
  /\ rs' = [rs EXCEPT ![t] = <<>>]
  /\ ws' = [ws EXCEPT ![t] = <<>>]
  /\ idx' = [idx EXCEPT ![t] = 1]
  /\ pc' = [pc EXCEPT ![t] = "body"]

\* run_transactions calls run_transaction: txn.init draws the type and the
\* parameters, retry = 0, and the first attempt begins.
StartTxn(t) ==
  /\ pc[t] = "idle"
  /\ loopCnt[t] < TxnsPerThread
  /\ \E p \in Params(t) : txn' = [txn EXCEPT ![t] = p]
  /\ retry' = [retry EXCEPT ![t] = 0]
  /\ BeginAttempt(t)
  /\ UNCHANGED <<useUpserts, storeVars, orderId, needRetry, aborts, abortCnt,
                 commitCnt, commitLat, abortLat, loopCnt, ghostVars>>

\* An early `return ycsbc::DB::kErrorConflict` of the body: Commit is not
\* called.
ReturnConflict(t) ==
  /\ needRetry' = [needRetry EXCEPT ![t] = TRUE]
  /\ pc' = [pc EXCEPT ![t] = "after"]

\* The next store call of the body, with every answer the store can give.
ExecCall(t) ==
  /\ pc[t] = "body"
  /\ LET c == Program(txn[t], useUpserts)[idx[t]]
         k == Resolve(t, c.key)
         last == idx[t] = Len(Program(txn[t], useUpserts))
         Next1 == /\ idx' = [idx EXCEPT ![t] = @ + 1]
                  /\ pc' = [pc EXCEPT ![t] = IF last THEN "commit" ELSE "body"]
                  /\ UNCHANGED needRetry
     IN \/ /\ c.op = "Read"
           /\ \/ ReturnConflict(t) /\ UNCHANGED <<idx, rs>>
              \/ rs' = [rs EXCEPT ![t] = Record(t, k)] /\ Next1
           /\ UNCHANGED <<ws, orderId>>
        \/ /\ c.op = "Insert"
           /\ \/ ReturnConflict(t) /\ UNCHANGED <<idx, ws>>
              \/ /\ ws' = [ws EXCEPT ![t] = (k :> [kind |-> "row", val |-> Row]) @@ @]
                 /\ Next1
           /\ UNCHANGED <<rs, orderId>>
        \/ /\ c.op = "Update"
           /\ \/ ReturnConflict(t) /\ UNCHANGED <<idx, ws>>
              \/ /\ ws' = [ws EXCEPT ![t] = (k :> [kind |-> "delta", fn |-> c.fn]) @@ @]
                 /\ Next1
           /\ UNCHANGED <<rs, orderId>>
        \/ /\ c.op = "RMW"
           /\ \/ ReturnConflict(t) /\ UNCHANGED <<idx, rs, ws, orderId>>
              \/ LET v == Modify(c.fn, k, View(t, k), txn[t])
                 IN /\ rs' = [rs EXCEPT ![t] = Record(t, k)]
                    /\ orderId' = IF c.fn = "next"
                                    THEN [orderId EXCEPT ![t] = v.next]
                                    ELSE orderId
                    /\ \/ ReturnConflict(t) /\ UNCHANGED <<idx, ws>>
                       \/ /\ ws' = [ws EXCEPT ![t] = (k :> [kind |-> "row", val |-> v]) @@ @]
                          /\ Next1
  /\ UNCHANGED <<useUpserts, storeVars, txn, retry, statVars, ghostVars>>
\* The rows after a commit installs the write set: row writes replace the
\* row, blind upserts are merged into it.
Install(t) ==
  [k \in Keys |->
     IF k \notin DOMAIN ws[t] THEN db[k]
     ELSE IF ws[t][k].kind = "row" THEN ws[t][k].val
     ELSE MergeDelta(ws[t][k].fn, k, db[k], txn[t])]

\* Mutant: the body returns kOK whatever Commit answers.
CommitResultIgnored(t) ==
  /\ pc[t] = "commit"
  /\ LET p == txn[t]
         valid == \A k \in DOMAIN rs[t] : ver[k] = rs[t][k]
     IN \/ /\ valid
           /\ db' = Install(t)
           /\ ver' = [k \in Keys |-> IF k \in DOMAIN ws[t] THEN ver[k] + 1 ELSE ver[k]]
           /\ IF p.type = "PAYMENT"
                THEN /\ paid' = [paid EXCEPT ![p.w][p.d] = @ + p.amount]
                     /\ UNCHANGED ordered
                ELSE /\ ordered' = [ordered EXCEPT ![p.w][p.d] = @ + 1]
                     /\ UNCHANGED paid
        \/ UNCHANGED <<storeVars, ghostVars>>
  /\ needRetry' = [needRetry EXCEPT ![t] = FALSE]
  /\ pc' = [pc EXCEPT ![t] = "after"]
  /\ UNCHANGED <<useUpserts, txn, idx, orderId, rs, ws, retry, statVars>>

\* return _db->Commit(&t): the store validates the read versions and
\* installs the write set, or answers kErrorConflict.
Commit(t) ==
  /\ pc[t] = "commit"
  /\ LET p == txn[t]
         valid == \A k \in DOMAIN rs[t] : ver[k] = rs[t][k]
     IN \/ /\ valid
           /\ db' = Install(t)
           /\ ver' = [k \in Keys |-> IF k \in DOMAIN ws[t] THEN ver[k] + 1 ELSE ver[k]]
           /\ needRetry' = [needRetry EXCEPT ![t] = FALSE]
           /\ IF p.type = "PAYMENT"
                THEN /\ paid' = [paid EXCEPT ![p.w][p.d] = @ + p.amount]
                     /\ UNCHANGED ordered
                ELSE /\ ordered' = [ordered EXCEPT ![p.w][p.d] = @ + 1]
                     /\ UNCHANGED paid
        \/ /\ needRetry' = [needRetry EXCEPT ![t] = TRUE]
           /\ UNCHANGED <<storeVars, ghostVars>>
  /\ pc' = [pc EXCEPT ![t] = "after"]
  /\ UNCHANGED <<useUpserts, txn, idx, orderId, rs, ws, retry, statVars>>

\* A conflicting attempt: ++abort_cnt_<type>, ++abort_cnt, back off,
\* ++retry; retry <= g_max_txn_retry, so the same txn runs again.
Retry(t) ==
  /\ pc[t] = "after"
  /\ needRetry[t]
  /\ retry[t] + 1 <= MaxTxnRetry
  /\ aborts' = [aborts EXCEPT ![t][txn[t].type] = @ + 1]
  /\ abortCnt' = [abortCnt EXCEPT ![t] = @ + 1]
  /\ retry' = [retry EXCEPT ![t] = @ + 1]
  /\ txn' = txn
  /\ BeginAttempt(t)
  /\ UNCHANGED <<useUpserts, storeVars, orderId, needRetry, commitCnt,
                 commitLat, abortLat, loopCnt, ghostVars>>

\* Mutant: the per-type abort counter is not bumped on the last attempt.
GiveUpUncounted(t) ==
  /\ pc[t] = "after"
  /\ needRetry[t]
  /\ retry[t] + 1 > MaxTxnRetry
  /\ abortCnt' = [abortCnt EXCEPT ![t] = @ + 1]
  /\ retry' = [retry EXCEPT ![t] = @ + 1]
  /\ abortLat' = [abortLat EXCEPT ![t] = @ + 1]
  /\ loopCnt' = [loopCnt EXCEPT ![t] = @ + 1]
  /\ pc' = [pc EXCEPT ![t] = "idle"]
  /\ UNCHANGED <<useUpserts, storeVars, txn, idx, orderId, rs, ws, needRetry,
                 attempts, aborts, commitCnt, commitLat, ghostVars>>

\* The last attempt conflicted: the abort is counted and the latency goes
\* to abort_txn_latencies.
GiveUp(t) ==
  /\ pc[t] = "after"
  /\ needRetry[t]
  /\ retry[t] + 1 > MaxTxnRetry
  /\ aborts' = [aborts EXCEPT ![t][txn[t].type] = @ + 1]
  /\ abortCnt' = [abortCnt EXCEPT ![t] = @ + 1]
  /\ retry' = [retry EXCEPT ![t] = @ + 1]
  /\ abortLat' = [abortLat EXCEPT ![t] = @ + 1]
  /\ loopCnt' = [loopCnt EXCEPT ![t] = @ + 1]
  /\ pc' = [pc EXCEPT ![t] = "idle"]
  /\ UNCHANGED <<useUpserts, storeVars, txn, idx, orderId, rs, ws, needRetry,
                 attempts, commitCnt, commitLat, ghostVars>>

\* The attempt committed: ++commit_cnt and the latency goes to
\* commit_txn_latencies.
Committed(t) ==
  /\ pc[t] = "after"
  /\ ~needRetry[t]
  /\ commitCnt' = [commitCnt EXCEPT ![t] = @ + 1]
  /\ commitLat' = [commitLat EXCEPT ![t] = @ + 1]
  /\ loopCnt' = [loopCnt EXCEPT ![t] = @ + 1]
  /\ pc' = [pc EXCEPT ![t] = "idle"]
  /\ UNCHANGED <<useUpserts, storeVars, txn, idx, orderId, rs, ws, needRetry,
                 retry, attempts, aborts, abortCnt, abortLat, ghostVars>>

\* run_transactions has run g_total_num_transactions transactions.
Exit(t) ==
  /\ pc[t] = "idle"
  /\ loopCnt[t] >= TxnsPerThread
  /\ pc' = [pc EXCEPT ![t] = "done"]
  /\ UNCHANGED <<useUpserts, storeVars, txn, idx, orderId, rs, ws, needRetry,
                 retry, statVars, ghostVars>>

Terminated ==
  /\ \A t \in Threads : pc[t] = "done"
  /\ UNCHANGED vars

Next ==
  \/ \E t \in Threads :
       \/ StartTxn(t) \/ ExecCall(t) \/ Commit(t)
       \/ Retry(t) \/ GiveUp(t) \/ Committed(t) \/ Exit(t)
  \/ Terminated

Spec == Init /\ [][Next]_vars

-----------------------------------------------------------------------------
SumOf(f) == FoldFunction(LAMBDA x, y : x + y, 0, f)

\* No Payment is lost or applied twice, in either mode, however the
\* threads interleave: each district's d_ytd is the sum of the committed
\* payments to it, and w_ytd the sum over its districts.
YtdConserved ==
  \A w \in Wh :
    /\ db[WKey(w)] = SumOf(paid[w])
    /\ \A d \in Dist : db[DKey(w, d)].ytd = paid[w][d]

\* Order ids are handed out without gaps or reuse: a district's
\* d_next_o_id has advanced once per committed New-Order, and exactly the
\* ids up to it have NEW_ORDER, ORDER and ORDER_LINE rows.
OrderIdsDense ==
  \A w \in Wh, d \in Dist :
    LET next == db[DKey(w, d)].next
    IN  /\ next = NextOidInit + ordered[w][d]
        /\ \A o \in OrderIds :
             \A k \in {NOKey(w, d, o), OKey(w, d, o), OLKey(w, d, o)} :
               (db[k] # NoRow) <=> o <= next

\* s_order_cnt counts the committed order lines on the stock row.
StockCounted == \A w \in Wh : db[SKey(w)] = SumOf(ordered[w])

\* The per-type counters of TPCCClient add up: every attempt is in flight,
\* committed or aborted; abort_cnt is the sum of the per-type counts; each
\* finished transaction has exactly one latency sample.
AttemptsAccounted ==
  \A t \in Threads :
    /\ SumOf(attempts[t]) = commitCnt[t] + abortCnt[t]
                             + (IF pc[t] \in {"body", "commit", "after"} THEN 1 ELSE 0)
    /\ abortCnt[t] = SumOf(aborts[t])
    /\ commitLat[t] = commitCnt[t]
    /\ commitLat[t] + abortLat[t] = loopCnt[t]

\* The attempt has committed but run_transaction has not yet counted it.
CommitPending(t) == IF pc[t] = "after" /\ ~needRetry[t] THEN 1 ELSE 0

\* The client implements TpccLedger: the committed tables evolve as if each
\* Payment and New-Order ran alone and at once, however the threads
\* interleave their store calls, abort midway or retry; and commit_cnt and
\* the loop counter i of run_transactions agree with the store, every
\* transaction the client counts as committed having taken effect exactly
\* once and every transaction it gives up none.  The refinement mapping
\* counts an attempt whose Commit succeeded as finished from that step on.
Ledger == INSTANCE TpccLedger
            WITH finished <- [t \in Threads |-> loopCnt[t] + CommitPending(t)],
                 commits <- [t \in Threads |-> commitCnt[t] + CommitPending(t)]
LedgerRefined == Ledger!Spec

\* Spec section 4.5: every committed Payment inserts one History row, so a
\* customer has as many History rows as its c_payment_cnt.
HistoryRowPerPayment ==
  \A w \in Wh, d \in Dist, c \in Cust :
    Cardinality({k \in Keys : k[1] = "H" /\ SubSeq(k, 2, 4) = <<w, d, c>> /\ db[k] # NoRow})
      = db[CKey(w, d, c)]

====
