------------------------------ MODULE TpccKeys ------------------------------
(***************************************************************************)
(* The composite-key encoding of the TPC-C tables in the flat key space   *)
(* of the store (src/benchmarks/core/tpcc_global.cc: wKey ... hKey,       *)
(* cKeyToParams), and the keys the table loader                           *)
(* (src/YCSB-C/core/tpcc_workload.cc, init_*_table) stores rows under.     *)
(*                                                                         *)
(* A TPCCKey is the triple <<table, key1, key2>>.  The encodings are pure *)
(* functions of the row identity, so the module has no variables: it      *)
(* defines, over all row identities within the configured ranges, the     *)
(* rows whose key another row shares.  A module that names its rows by    *)
(* identity (TpccClient) states that none of its rows is among them.      *)
(***************************************************************************)
EXTENDS Naturals, FiniteSets

CONSTANTS
  NumWh,        \* g_num_wh
  MaxItems,     \* g_max_items
  CustPerDist,  \* g_cust_per_dist
  OrderIds,     \* order ids considered
  LoadedOrderMax \* init_order_table writes orders 1..g_cust_per_dist

DIST_PER_WARE == 10      \* tpcc_config.h
MAX_OL_PER_ORDER == 15   \* tpcc_config.h

\* Table identifiers, in the order of the enum in tpcc_global.h.
WAREHOUSE == 0
ITEM == 1
CUSTOMER == 2
STOCK == 3
NEW_ORDER == 4
ORDER == 5
ORDER_LINE == 6
HISTORY == 7
DISTRICT == 8

TPCCKey(table, key1, key2) == <<table, key1, key2>>

wKey(w_id) == TPCCKey(WAREHOUSE, w_id, 0)
iKey(i_id) == TPCCKey(ITEM, i_id, 0)
dKey(d_id, d_w_id) == TPCCKey(DISTRICT, d_w_id * DIST_PER_WARE + d_id, 0)
cKey(c_id, c_d_id, c_w_id) ==
  TPCCKey(CUSTOMER, (c_w_id * DIST_PER_WARE + c_d_id) * CustPerDist + c_id, 0)
oKey(w_id, d_id, o_id) == TPCCKey(ORDER, w_id * DIST_PER_WARE + d_id, o_id)
olKey(w_id, d_id, o_id, ol_number) ==
  TPCCKey(ORDER_LINE, w_id * DIST_PER_WARE + d_id,
          o_id * MAX_OL_PER_ORDER + ol_number)
noKey(w_id, d_id, o_id) == TPCCKey(NEW_ORDER, w_id * DIST_PER_WARE + d_id, o_id)
sKey(s_i_id, s_w_id) == TPCCKey(STOCK, s_w_id * MaxItems + s_i_id, 0)
\* Mutant: hKey copied from cKey keeps the CUSTOMER table id.
hKeyCustomerTable(c_id, c_d_id, c_w_id) ==
  TPCCKey(CUSTOMER, (c_w_id * DIST_PER_WARE + c_d_id) * CustPerDist + c_id, 0)
hKey(c_id, c_d_id, c_w_id) ==
  TPCCKey(HISTORY, (c_w_id * DIST_PER_WARE + c_d_id) * CustPerDist + c_id, 0)

Wh == 1..NumWh
Dist == 1..DIST_PER_WARE
Cust == 1..CustPerDist
Item == 1..MaxItems
Orders == OrderIds

\* Row identities of every table, with the fields in the order the
\* encoding functions take them.  Order lines are numbered 0..ol_cnt-1 by
\* run_new_order (ol_cnt <= MAX_OL_PER_ORDER).
Rows ==
     {[t |-> WAREHOUSE, id |-> <<w>>] : w \in Wh}
  \cup {[t |-> ITEM, id |-> <<i>>] : i \in Item}
  \cup {[t |-> DISTRICT, id |-> <<d, w>>] : d \in Dist, w \in Wh}
  \cup {[t |-> CUSTOMER, id |-> <<c, d, w>>] : c \in Cust, d \in Dist, w \in Wh}
  \cup {[t |-> HISTORY, id |-> <<c, d, w>>] : c \in Cust, d \in Dist, w \in Wh}
  \cup {[t |-> STOCK, id |-> <<i, w>>] : i \in Item, w \in Wh}
  \cup {[t |-> ORDER, id |-> <<w, d, o>>] : w \in Wh, d \in Dist, o \in Orders}
  \cup {[t |-> NEW_ORDER, id |-> <<w, d, o>>] : w \in Wh, d \in Dist, o \in Orders}
  \cup {[t |-> ORDER_LINE, id |-> <<w, d, o, l>>] :
          w \in Wh, d \in Dist, o \in Orders, l \in 0..MAX_OL_PER_ORDER - 1}

\* The key the transaction bodies (run_payment, run_new_order) use.
RunKey(r) ==
  CASE r.t = WAREHOUSE  -> wKey(r.id[1])
    [] r.t = ITEM       -> iKey(r.id[1])
    [] r.t = DISTRICT   -> dKey(r.id[1], r.id[2])
    [] r.t = CUSTOMER   -> cKey(r.id[1], r.id[2], r.id[3])
    [] r.t = HISTORY    -> hKey(r.id[1], r.id[2], r.id[3])
    [] r.t = STOCK      -> sKey(r.id[1], r.id[2])
    [] r.t = ORDER      -> oKey(r.id[1], r.id[2], r.id[3])
    [] r.t = NEW_ORDER  -> noKey(r.id[1], r.id[2], r.id[3])
    [] r.t = ORDER_LINE -> olKey(r.id[1], r.id[2], r.id[3], r.id[4])

\* Mutant: init_stock_table passes sKey's arguments as (wid, sid).
LoadKeyStockSwapped(r) ==
  CASE r.t = NEW_ORDER -> noKey(r.id[3], r.id[2], r.id[1])
    [] r.t = STOCK     -> sKey(r.id[2], r.id[1])
    [] OTHER           -> RunKey(r)

\* The key init_*_table stores the same row under.  init_order_table calls
\* noKey(oid, did, wid) for the NEW_ORDER row of order oid.
LoadKey(r) ==
  IF r.t = NEW_ORDER THEN noKey(r.id[3], r.id[2], r.id[1]) ELSE RunKey(r)

\* Rows written by the loader: History rows are only inserted by Payment,
\* init_order_table writes orders 1..g_cust_per_dist, numbers their order
\* lines from 1, and writes a NEW_ORDER row only for orders above 2100.
LoadedRows ==
  {r \in Rows : /\ r.t # HISTORY
                /\ r.t \in {ORDER, NEW_ORDER, ORDER_LINE} => r.id[3] <= LoadedOrderMax
                /\ r.t = ORDER_LINE => r.id[4] >= 1
                /\ r.t = NEW_ORDER => r.id[3] > 2100}

\* The rows of S whose transaction key some other row's transaction key
\* equals (the rows keyed like some row of S are found first).
Colliding(S) ==
  LET hits == {r2 \in Rows : RunKey(r2) \in {RunKey(r) : r \in S}}
  IN  {r \in S : \E r2 \in hits : r2 # r /\ RunKey(r2) = RunKey(r)}

\* The rows of S whose transaction key the loader stored a different row
\* under.
LoadClashing(S) ==
  LET hits == {row \in LoadedRows : LoadKey(row) \in {RunKey(r) : r \in S}}
  IN  {r \in S : \E row \in hits : row # r /\ LoadKey(row) = RunKey(r)}

=============================================================================
