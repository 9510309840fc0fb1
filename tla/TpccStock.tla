------------------------------ MODULE TpccStock ------------------------------
(***************************************************************************)
(* One STOCK row of TPC-C under New-Order's stock update, in both modes of *)
(* src/YCSB-C/core/tpcc_workload.cc:                                       *)
(*   - upsert mode (g_use_upserts): each order line blind-writes a         *)
(*     StockUpdate delta; the store later combines pending deltas with    *)
(*     tpcc_merge_tuple, either two updates into one or the oldest update *)
(*     into the base row, in whatever order its compaction chooses;       *)
(*   - read-modify-write mode: each order line reads the row, applies the *)
(*     restock rule and writes it back.                                   *)
(* The model keeps the upsert-mode state (base row and pending deltas) and *)
(* beside it the row the read-modify-write mode would hold after the same *)
(* order lines in the same commit order.                                  *)
(***************************************************************************)
EXTENDS Integers, Sequences, SequencesExt

CONSTANTS
  InitQty,     \* s_quantity values the loader can store (URand(10, 100))
  Qty,         \* ol_quantity values of an order line (URand(1, 10))
  MaxLines     \* order lines that write this stock row in the model

ASSUME InitQty \subseteq 10..100 /\ Qty \subseteq 1..10 /\ MaxLines \in Nat

\* A row is a record of the tpcc_stock_row_t fields the transactions
\* change (s_quantity, s_ytd, s_order_cnt, s_remote_cnt); a delta is a
\* struct StockUpdate (ol_quantity, order_cnt, remote_cnt).

\* Mutant: the remote count of the older delta is dropped.
MergeStockUpdatesDropRemote(new_su, old_su) ==
  [ol_quantity |-> new_su.ol_quantity + old_su.ol_quantity,
   order_cnt   |-> new_su.order_cnt + old_su.order_cnt,
   remote_cnt  |-> new_su.remote_cnt]

\* tpcc_merge_tuple, STOCK, old message an UPDATE: the pending deltas add up.
MergeStockUpdates(new_su, old_su) ==
  [ol_quantity |-> new_su.ol_quantity + old_su.ol_quantity,
   order_cnt   |-> new_su.order_cnt + old_su.order_cnt,
   remote_cnt  |-> new_su.remote_cnt + old_su.remote_cnt]

\* Mutant: the restock below 10 after subtracting the delta is lost.
MergeStockNoLowRestock(s_r, su) ==
  LET q1 == IF s_r.s_quantity < su.ol_quantity
              THEN s_r.s_quantity + ((su.ol_quantity + 90) \div 91) * 91
              ELSE s_r.s_quantity
  IN  [s_quantity   |-> q1 - su.ol_quantity,
       s_ytd        |-> s_r.s_ytd + su.ol_quantity,
       s_order_cnt  |-> s_r.s_order_cnt + su.order_cnt,
       s_remote_cnt |-> s_r.s_remote_cnt + su.remote_cnt]

\* tpcc_merge_tuple, STOCK, old message the INSERTed row: restock by a
\* multiple of 91 covering the delta, subtract it, restock again below 10.
MergeStockIntoRow(s_r, su) ==
  LET q1 == IF s_r.s_quantity < su.ol_quantity
              THEN s_r.s_quantity + ((su.ol_quantity + 90) \div 91) * 91
              ELSE s_r.s_quantity
      q2 == q1 - su.ol_quantity
  IN  [s_quantity   |-> IF q2 < 10 THEN q2 + 91 ELSE q2,
       s_ytd        |-> s_r.s_ytd + su.ol_quantity,
       s_order_cnt  |-> s_r.s_order_cnt + su.order_cnt,
       s_remote_cnt |-> s_r.s_remote_cnt + su.remote_cnt]

\* run_new_order without upserts: read the row, apply the TPC-C rule for
\* one order line, write it back.
StockReadModifyWrite(s_r, ol_quantity, remote) ==
  [s_quantity   |-> IF s_r.s_quantity >= ol_quantity + 10
                      THEN s_r.s_quantity - ol_quantity
                      ELSE s_r.s_quantity - ol_quantity + 91,
   s_ytd        |-> s_r.s_ytd + ol_quantity,
   s_order_cnt  |-> s_r.s_order_cnt + 1,
   s_remote_cnt |-> s_r.s_remote_cnt + (IF remote THEN 1 ELSE 0)]

\* The StockUpdate run_new_order blind-writes for one order line.
LineUpdate(ol_quantity, remote) ==
  [ol_quantity |-> ol_quantity, order_cnt |-> 1,
   remote_cnt |-> IF remote THEN 1 ELSE 0]

VARIABLES
  base,     \* the row as last merged into the INSERT message
  pending,  \* pending UPDATE messages for the key, oldest first
  rmwRow,   \* the row read-modify-write mode holds after the same lines
  lines     \* order lines written so far

vars == <<base, pending, rmwRow, lines>>

Init ==
  /\ \E q \in InitQty :
       base = [s_quantity |-> q, s_ytd |-> 0, s_order_cnt |-> 0, s_remote_cnt |-> 0]
  /\ pending = <<>>
  /\ rmwRow = base
  /\ lines = 0

\* A New-Order line commits its write of this stock row.
WriteLine ==
  /\ lines < MaxLines
  /\ \E q \in Qty, remote \in BOOLEAN :
       /\ pending' = Append(pending, LineUpdate(q, remote))
       /\ rmwRow' = StockReadModifyWrite(rmwRow, q, remote)
  /\ lines' = lines + 1
  /\ UNCHANGED base

\* The store merges two adjacent pending updates: the newer is the
\* accumulator, the older the old message.
MergeUpdates ==
  \E i \in 1..(Len(pending) - 1) :
    /\ pending' = SubSeq(pending, 1, i - 1)
                  \o <<MergeStockUpdates(pending[i + 1], pending[i])>>
                  \o SubSeq(pending, i + 2, Len(pending))
    /\ UNCHANGED <<base, rmwRow, lines>>

\* The store merges the oldest pending update into the row.
MergeIntoRow ==
  /\ pending # <<>>
  /\ base' = MergeStockIntoRow(base, Head(pending))
  /\ pending' = Tail(pending)
  /\ UNCHANGED <<rmwRow, lines>>

\* All modelled lines are written and merged into the row.
Quiescent ==
  /\ lines = MaxLines /\ pending = <<>>
  /\ UNCHANGED vars

Next == WriteLine \/ MergeUpdates \/ MergeIntoRow \/ Quiescent

Spec == Init /\ [][Next]_vars

-----------------------------------------------------------------------------
SumField(s, f) == FoldSeq(LAMBDA u, acc : u[f] + acc, 0, s)

\* No blind write is lost or counted twice by compaction, whatever order
\* the store merges in: the row's s_ytd, s_order_cnt and s_remote_cnt plus
\* the pending deltas equal what read-modify-write mode has counted.
CountersConserved ==
  /\ base.s_ytd + SumField(pending, "ol_quantity") = rmwRow.s_ytd
  /\ base.s_order_cnt + SumField(pending, "order_cnt") = rmwRow.s_order_cnt
  /\ base.s_remote_cnt + SumField(pending, "remote_cnt") = rmwRow.s_remote_cnt

\* s_quantity (a uint64_t) never drops below the restock threshold of 10,
\* in particular it never wraps around, in either mode.
QuantityRestocked == base.s_quantity >= 10 /\ rmwRow.s_quantity >= 10

\* Spec sections 4.5 and 8: merging into the row applies the same restock
\* rule as read-modify-write, and merging A then B into the row equals
\* merging A+B: once everything is merged the stock quantity is the one
\* read-modify-write mode would have.
MergedQuantityMatchesRmw ==
  pending = <<>> => base.s_quantity = rmwRow.s_quantity

=============================================================================
