------------------------------ MODULE TpccRows ------------------------------
(***************************************************************************)
(* The TPC-C rows the client models share: the threads and the parameter  *)
(* ranges they draw from, the keys of the rows a Payment or New-Order     *)
(* touches, and the tables as init_*_table leaves them                    *)
(* (src/YCSB-C/core/tpcc_workload.cc).                                     *)
(***************************************************************************)
EXTENDS Naturals, Sequences, FiniteSets

CONSTANTS
  Threads,        \* TPC-C client threads
  HomeWh,         \* w_id of each thread: thd_id % g_num_wh + 1
  Dist,           \* district ids drawn by URand(1, DIST_PER_WARE)
  Cust,           \* customer ids drawn by NURand(1023, 1, g_cust_per_dist)
  Item,           \* the item id of the order line
  Amount,         \* h_amount drawn by URand(1, 5000)
  NextOidInit,    \* d_next_o_id as loaded by init_district_table (3001)
  TxnsPerThread   \* g_total_num_transactions

Wh == {HomeWh[t] : t \in Threads}
Types == {"PAYMENT", "NEW_ORDER"}
OrderIds == NextOidInit + 1 .. NextOidInit + Cardinality(Threads) * TxnsPerThread

\* Keys, tagged by table (the encodings themselves are checked in TpccKeys).
WKey(w) == <<"W", w>>
DKey(w, d) == <<"D", w, d>>
CKey(w, d, c) == <<"C", w, d, c>>
HKey(w, d, c) == <<"H", w, d, c>>
SKey(w) == <<"S", w, Item>>
IKey == <<"I", Item>>
NOKey(w, d, o) == <<"NO", w, d, o>>
OKey(w, d, o) == <<"O", w, d, o>>
OLKey(w, d, o) == <<"OL", w, d, o>>

Keys ==
  {WKey(w) : w \in Wh} \cup {DKey(w, d) : w \in Wh, d \in Dist}
  \cup {CKey(w, d, c) : w \in Wh, d \in Dist, c \in Cust}
  \cup {HKey(w, d, c) : w \in Wh, d \in Dist, c \in Cust}
  \cup {SKey(w) : w \in Wh} \cup {IKey}
  \cup UNION {{NOKey(w, d, o), OKey(w, d, o), OLKey(w, d, o)} :
                w \in Wh, d \in Dist, o \in OrderIds}

NoRow == "none"      \* no row stored under the key
Row == "row"         \* a row whose contents no property reads

\* The tables after init_*_table: YTDs abstracted to 0, d_next_o_id 3001.
InitRow(k) ==
  CASE k[1] = "D" -> [ytd |-> 0, next |-> NextOidInit]
    [] k[1] \in {"W", "C", "S"} -> 0
    [] k[1] = "I" -> Row
    [] OTHER -> NoRow

\* The parameters gen_payment / gen_new_order draw.
Params(t) == [type : Types, w : {HomeWh[t]}, d : Dist, c : Cust, amount : Amount]

=============================================================================
