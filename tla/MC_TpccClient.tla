---------------------------- MODULE MC_TpccClient ----------------------------
(* Two client threads of one warehouse (g_num_wh = 1, so thd_id % 1 + 1),  *)
(* one district and one customer, so that every pair of transactions      *)
(* touches common rows; both g_use_upserts modes.                         *)
(*                                                                         *)
(* The client model names rows by tagged keys (TpccRows), distinct by     *)
(* construction.  That abstraction is sound only if the store keys the    *)
(* code computes for the rows the client holds are distinct from every    *)
(* other row's.  Encoding computes the collisions over two warehouses,    *)
(* all ten districts, three customers per district, three items, the      *)
(* loader's first and first-new orders (1, 2101) and the ids New-Order    *)
(* assigns (3002..): the largest key2 of an order line then exceeds a     *)
(* neighbour order's smallest one, so a wrong multiplier shows.  The item *)
(* is 2, so that a stock key with its arguments swapped names another     *)
(* stock row.                                                             *)
EXTENDS TpccClient

CONSTANTS t1, t2

MC_Threads == {t1, t2}
MC_HomeWh == [t \in MC_Threads |-> 1]
MC_Symmetry == Permutations(MC_Threads)

Encoding == INSTANCE TpccKeys
              WITH NumWh <- 2, MaxItems <- 3, CustPerDist <- 3,
                   OrderIds <- {1, 2101} \cup OrderIds, LoadedOrderMax <- 3000

\* The concrete rows a client key stands for: an ORDER_LINE key stands for
\* every line of the order run_new_order may write.
Concrete(k) ==
  LET row(t, id) == [t |-> t, id |-> id]
  IN CASE k[1] = "W"  -> {row(Encoding!WAREHOUSE, <<k[2]>>)}
       [] k[1] = "D"  -> {row(Encoding!DISTRICT, <<k[3], k[2]>>)}
       [] k[1] = "C"  -> {row(Encoding!CUSTOMER, <<k[4], k[3], k[2]>>)}
       [] k[1] = "H"  -> {row(Encoding!HISTORY, <<k[4], k[3], k[2]>>)}
       [] k[1] = "S"  -> {row(Encoding!STOCK, <<k[3], k[2]>>)}
       [] k[1] = "I"  -> {row(Encoding!ITEM, <<k[2]>>)}
       [] k[1] = "NO" -> {row(Encoding!NEW_ORDER, <<k[2], k[3], k[4]>>)}
       [] k[1] = "O"  -> {row(Encoding!ORDER, <<k[2], k[3], k[4]>>)}
       [] k[1] = "OL" -> {row(Encoding!ORDER_LINE, <<k[2], k[3], k[4], l>>) :
                            l \in 0..Encoding!MAX_OL_PER_ORDER - 1}

\* Whether the committed tables hold a row under key k: init_*_table
\* loaded the WAREHOUSE, DISTRICT, CUSTOMER, STOCK and ITEM rows; the
\* others exist once a committed transaction inserted them.
Holds(k) == k[1] \in {"W", "D", "C", "S", "I"} \/ db[k] # NoRow

\* The client keys whose concrete rows clash, computed once.
ClientRows == UNION {Concrete(k) : k \in Keys}
CollidingKeys == {k \in Keys : Concrete(k) \cap Encoding!Colliding(ClientRows) # {}}
LoadClashingKeys == {k \in Keys : Concrete(k) \cap Encoding!LoadClashing(ClientRows) # {}}

\* tpcc_global.cc's encodings keep every row the committed tables hold
\* apart: no other TPC-C row, of any table, within the ranges above has
\* the key run_payment and run_new_order read or write it under.
KeysInjective == \A k \in CollidingKeys : ~Holds(k)

\* Spec section 3: the keys init_*_table stored the loaded rows under are
\* the keys the transactions use: no row the committed tables hold shares
\* its transaction key with a different row the loader stored.
LoadKeysCollisionFree == \A k \in LoadClashingKeys : ~Holds(k)
=============================================================================
