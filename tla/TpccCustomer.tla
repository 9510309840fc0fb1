----------------------------- MODULE TpccCustomer -----------------------------
(***************************************************************************)
(* One CUSTOMER row of TPC-C under Payment, in both modes of               *)
(* src/YCSB-C/core/tpcc_workload.cc:                                       *)
(*   - upsert mode: each payment blind-writes a CustomerLogFragment; the   *)
(*     store combines two pending fragments (log capped at                 *)
(*     MAX_CUSTOMER_LOG_RECORDS entries) or merges the oldest into the row *)
(*     (counters, and for a bad-credit customer one note per log entry     *)
(*     written by the snprintf loop and prepended to c_data);              *)
(*   - read-modify-write mode: each payment reads the row, counts the      *)
(*     payment and, for a bad-credit customer, prepends one note.          *)
(* c_data is a C string kept as a sequence of chunks [id, len]: a note of  *)
(* payment id, or the loaded text "orig"; only byte lengths and the order  *)
(* of the chunks are kept, not the characters.                             *)
(***************************************************************************)
EXTENDS Integers, Sequences, SequencesExt

CONSTANTS
  MaxPayments,   \* payments to this customer in the model
  Credits,       \* c_credit values the loader stores ("GC" or "BC")
  DataLens       \* strlen(c_data) the loader stores (MakeAlphaString(300, 500))

MAX_CUSTOMER_LOG_RECORDS == 16
\* sizeof(c_new_data) is 501; c_data keeps 500 bytes (memcpy ..., 500).
BufSize == 501
DataBudget == 500
\* strlen of "| %4ld %2ld %4ld %2ld %4ld $%7.2f" for ids and amounts of
\* the configured ranges (h_amount < 10000.00).
EntryLen == 31
\* The size_t argument of snprintf, c_new_data - start, is the negated
\* offset modulo 2^64; every value above the buffer size behaves alike, so
\* the modulus is scaled down to one TLC can represent.
SizeMod == 2^30

Lesser(a, b) == IF a < b THEN a ELSE b

\* Bytes of a C string held as chunks.
Bytes(s) == FoldSeq(LAMBDA c, acc : c.len + acc, 0, s)

\* The first n bytes of a string (strncat / memcpy with a byte budget).
RECURSIVE Truncate(_, _)
Truncate(s, n) ==
  IF s = <<>> \/ n = 0 THEN <<>>
  ELSE IF Head(s).len >= n THEN <<[Head(s) EXCEPT !.len = n]>>
  ELSE <<Head(s)>> \o Truncate(Tail(s), n - Head(s).len)

Note(p) == [id |-> p, len |-> EntryLen]

\* Mutants of the UPDATE/UPDATE merge.  OldLogFirst: the older log is put
\* in front.  DropOldCount: the older fragment's payment count is lost.
MergeFragmentsOldLogFirst(new_clf, old_clf) ==
  [total_payment_cnt |-> new_clf.total_payment_cnt + old_clf.total_payment_cnt,
   log |-> SubSeq(old_clf.log \o new_clf.log, 1,
                  Lesser(Len(old_clf.log) + Len(new_clf.log), MAX_CUSTOMER_LOG_RECORDS))]

MergeFragmentsDropOldCount(new_clf, old_clf) ==
  [total_payment_cnt |-> new_clf.total_payment_cnt,
   log |-> SubSeq(new_clf.log \o old_clf.log, 1,
                  Lesser(Len(old_clf.log) + Len(new_clf.log), MAX_CUSTOMER_LOG_RECORDS))]

\* tpcc_merge_tuple, CUSTOMER, old message an UPDATE: the counts add up,
\* the older log is copied behind the newer one, up to the cap.
MergeFragments(new_clf, old_clf) ==
  [total_payment_cnt |-> new_clf.total_payment_cnt + old_clf.total_payment_cnt,
   log |-> SubSeq(new_clf.log \o old_clf.log, 1,
                  Lesser(Len(old_clf.log) + Len(new_clf.log), MAX_CUSTOMER_LOG_RECORDS))]

\* snprintf(start, size, ...) on a buffer whose C string is text: with size
\* 0 nothing is written; otherwise up to size-1 bytes of the entry and a
\* NUL are written at start, which changes the string only when start is
\* within it or at its end.
SnprintfAt(text, start, size, p) ==
  IF size = 0 \/ start > Bytes(text) THEN text
  ELSE Truncate(text, start) \o <<[id |-> p, len |-> Lesser(EntryLen, size - 1)]>>

\* The for-loop over new_clf.log: start begins at c_new_data, the size
\* passed is c_new_data - start, and start advances by snprintf's return
\* value (the untruncated length).  Returns the C string at c_new_data and
\* the highest byte index written (the last NUL), -1 if none.
\* Mutant: start advances past the NUL as well (len + 1).
RECURSIVE NoteLoopCountingNul(_, _, _, _, _)
NoteLoopCountingNul(log, i, start, text, high) ==
  IF i > Len(log) \/ start >= BufSize THEN [text |-> text, high |-> high]
  ELSE LET size == (0 - start) % SizeMod
           n == Lesser(EntryLen, size - 1)
       IN  NoteLoopCountingNul(log, i + 1, start + EntryLen + 1,
                    SnprintfAt(text, start, size, log[i]),
                    IF size = 0 THEN high ELSE IF start + n > high THEN start + n ELSE high)

RECURSIVE NoteLoop(_, _, _, _, _)
NoteLoop(log, i, start, text, high) ==
  IF i > Len(log) \/ start >= BufSize THEN [text |-> text, high |-> high]
  ELSE LET size == (0 - start) % SizeMod
           n == Lesser(EntryLen, size - 1)
       IN  NoteLoop(log, i + 1, start + EntryLen,
                    SnprintfAt(text, start, size, log[i]),
                    IF size = 0 THEN high ELSE IF start + n > high THEN start + n ELSE high)

\* tpcc_merge_tuple, CUSTOMER, old message the INSERTed row: counts added;
\* for a bad-credit customer the notes built by the loop, then strncat of
\* the old c_data up to 500 bytes, then memcpy of 500 bytes into c_data.
MergeFragmentIntoRow(c_r, clf) ==
  LET notes == NoteLoop(clf.log, 1, 0, <<>>, -1)
      text == notes.text \o Truncate(c_r.data, DataBudget - Bytes(notes.text))
  IN  [c_payment_cnt |-> c_r.c_payment_cnt + clf.total_payment_cnt,
       data |-> IF c_r.credit = "BC" THEN Truncate(text, DataBudget) ELSE c_r.data,
       credit |-> c_r.credit,
       high |-> IF c_r.credit = "BC" /\ notes.high > c_r.high THEN notes.high ELSE c_r.high]

\* run_payment without upserts: c_payment_cnt += 1 and, for a bad-credit
\* customer, sprintf the note, strncat c_data up to 500 bytes, memcpy back.
CustomerReadModifyWrite(c_r, p) ==
  [c_r EXCEPT !.c_payment_cnt = @ + 1,
              !.data = IF c_r.credit = "BC"
                         THEN Truncate(<<Note(p)>> \o Truncate(@, DataBudget - EntryLen), DataBudget)
                         ELSE @]

\* The CustomerLogFragment run_payment blind-writes for payment p.
PaymentFragment(p) == [total_payment_cnt |-> 1, log |-> <<p>>]

VARIABLES
  base,     \* the row as last merged into the INSERT message
  pending,  \* pending UPDATE messages for the key, oldest first
  rmwRow,   \* the row read-modify-write mode holds after the same payments
  paid      \* payments committed so far (payment ids are 1..paid)

vars == <<base, pending, rmwRow, paid>>

Init ==
  /\ \E credit \in Credits, len \in DataLens :
       base = [c_payment_cnt |-> 1, data |-> <<[id |-> "orig", len |-> len]>>,
               credit |-> credit, high |-> -1]
  /\ pending = <<>>
  /\ rmwRow = base
  /\ paid = 0

\* A Payment to this customer commits.
Pay ==
  /\ paid < MaxPayments
  /\ pending' = Append(pending, PaymentFragment(paid + 1))
  /\ rmwRow' = CustomerReadModifyWrite(rmwRow, paid + 1)
  /\ paid' = paid + 1
  /\ UNCHANGED base

\* The store merges two adjacent pending fragments: the newer is the
\* accumulator, the older the old message.
MergeUpdates ==
  \E i \in 1..(Len(pending) - 1) :
    /\ pending' = SubSeq(pending, 1, i - 1)
                  \o <<MergeFragments(pending[i + 1], pending[i])>>
                  \o SubSeq(pending, i + 2, Len(pending))
    /\ UNCHANGED <<base, rmwRow, paid>>

\* The store merges the oldest pending fragment into the row.
MergeIntoRow ==
  /\ pending # <<>>
  /\ base' = MergeFragmentIntoRow(base, Head(pending))
  /\ pending' = Tail(pending)
  /\ UNCHANGED <<rmwRow, paid>>

\* All modelled payments are made and merged into the row.
Quiescent ==
  /\ paid = MaxPayments /\ pending = <<>>
  /\ UNCHANGED vars

Next == Pay \/ MergeUpdates \/ MergeIntoRow \/ Quiescent

Spec == Init /\ [][Next]_vars

-----------------------------------------------------------------------------
SumCnt(s) == FoldSeq(LAMBDA f, acc : f.total_payment_cnt + acc, 0, s)

\* Payments before the fragment pending[i]: those merged into the row
\* (the loader stores c_payment_cnt = 1) and those of older fragments.
PaidBefore(i) == base.c_payment_cnt - 1 + SumCnt(SubSeq(pending, 1, i - 1))

\* No payment is lost or counted twice by compaction, whatever grouping
\* the store merges in, although the log is capped at 16 entries: the
\* row's c_payment_cnt plus the pending counts equal read-modify-write's.
PaymentsConserved == base.c_payment_cnt + SumCnt(pending) = rmwRow.c_payment_cnt

\* Each pending fragment's log holds its newest payments, newest first,
\* as many as the cap allows, whatever grouping built it.
FragmentLogNewest ==
  \A i \in 1..Len(pending) :
    LET last == PaidBefore(i) + pending[i].total_payment_cnt
    IN  pending[i].log
          = [k \in 1..Lesser(pending[i].total_payment_cnt, MAX_CUSTOMER_LOG_RECORDS)
               |-> last - k + 1]

\* The snprintf loop of the merge never writes past c_new_data[500].
NoteWithinBuffer == base.high < BufSize

\* Spec section 4.5: a Payment to a bad-credit customer prepends a note to
\* c_data, truncated to 500 bytes; once the fragments are merged c_data
\* is what read-modify-write mode would hold.
NoteMatchesRmw == pending = <<>> => base.data = rmwRow.data

=============================================================================
