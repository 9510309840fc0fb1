--------------------------- MODULE MC_TxnOpBuilder ---------------------------
EXTENDS TxnOpBuilder

\* Transaction sizes of the shipped workloads and around them.
MC_OpsPerTxn == 1..4
\* Proportions in steps of 25%.
MC_Percents == {0, 25, 50, 75, 100}
=============================================================================
