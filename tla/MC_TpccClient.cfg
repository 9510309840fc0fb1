CONSTANTS
  t1 = t1
  t2 = t2
  Threads <- MC_Threads
  HomeWh <- MC_HomeWh
  Dist = {1}
  Cust = {1}
  Item = 2
  Amount = {1}
  NextOidInit = 3001
  MaxTxnRetry = 1
  TxnsPerThread = 2
  UpsertModes = {FALSE, TRUE}

SYMMETRY MC_Symmetry

SPECIFICATION Spec

INVARIANT YtdConserved
INVARIANT OrderIdsDense
INVARIANT StockCounted
INVARIANT AttemptsAccounted
PROPERTY LedgerRefined
INVARIANT KeysInjective
INVARIANT LoadKeysCollisionFree
