----------------------------- MODULE TpccSerial -----------------------------
(***************************************************************************)
(* What the TPC-C client promises of the committed tables: they change    *)
(* only by whole Payments and New-Orders, one at a time, each with the     *)
(* effect its body (src/YCSB-C/core/tpcc_workload.cc) has when it runs     *)
(* alone.  Aborted attempts, and the attempts a thread abandons after a    *)
(* conflicting call, leave no trace.  The effect is the same in both       *)
(* g_use_upserts modes.                                                    *)
(***************************************************************************)
EXTENDS TpccRows

VARIABLE db   \* committed rows

\* run_payment alone: w_ytd and d_ytd grow by h_amount, c_payment_cnt by
\* one, and the History row of the customer is written.
SerialPayment(p) ==
  [db EXCEPT ![WKey(p.w)] = @ + p.amount,
             ![DKey(p.w, p.d)].ytd = @ + p.amount,
             ![CKey(p.w, p.d, p.c)] = @ + 1,
             ![HKey(p.w, p.d, p.c)] = Row]

\* run_new_order alone: the order id is d_next_o_id + 1, which becomes the
\* district's d_next_o_id; the NEW_ORDER, ORDER and ORDER_LINE rows of
\* that id are written and s_order_cnt grows by one.
SerialNewOrder(p) ==
  LET o == db[DKey(p.w, p.d)].next + 1
  IN  [db EXCEPT ![DKey(p.w, p.d)].next = o,
                 ![NOKey(p.w, p.d, o)] = Row,
                 ![OKey(p.w, p.d, o)] = Row,
                 ![OLKey(p.w, p.d, o)] = Row,
                 ![SKey(p.w)] = @ + 1]

Init == db = [k \in Keys |-> InitRow(k)]

\* One transaction of some thread takes effect.
RunTxn(t) ==
  \E p \in Params(t) :
    \* the order ids the model covers
    /\ p.type = "NEW_ORDER" => db[DKey(p.w, p.d)].next + 1 \in OrderIds
    /\ db' = IF p.type = "PAYMENT" THEN SerialPayment(p) ELSE SerialNewOrder(p)

Next == \E t \in Threads : RunTxn(t)

Spec == Init /\ [][Next]_db

=============================================================================
