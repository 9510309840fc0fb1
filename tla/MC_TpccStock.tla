---------------------------- MODULE MC_TpccStock ----------------------------
EXTENDS TpccStock

\* Loaded quantities at and around the restock boundaries (10, 19, 20) and
\* the top of URand(10, 100).
MC_InitQty == {10, 11, 19, 20, 55, 100}

\* Every quantity an order line can ask for.
MC_Qty == 1..10

\* Enough lines for one delta to be the sum of ten full lines, which is the
\* smallest sum that can exceed 91 with quantities of at most 10, on a row
\* loaded with 19: the one initial state, so the trace is the same on every
\* run.
MC_InitQtyBoundary == {19}
MC_QtyFull == {10}
=============================================================================
