--------------------------- MODULE MC_TpccCustomer ---------------------------
EXTENDS TpccCustomer

MC_Credits == {"BC", "GC"}
MC_DataLens == {300, 500}
==============================================================================
