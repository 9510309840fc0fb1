CONSTANTS
  k1 = k1
  NumThreads = 2
  RecordCount = 6
  Preloaded = FALSE
  Keys <- MC_Keys
  Mix <- MC_Mix
  OpsPerTxn = 2
  MaxTxnRetry = 1
  OperationCount = 7

SPECIFICATION Spec

INVARIANT OneHandlePerAttempt
