CONSTANTS
  NumThreads = 2
  Modes <- MC_Modes
  TotalOpsOf <- MC_TotalOpsOf
  OpsPerTxn <- MC_OpsPerTxn
  MaxIter = 3

SPECIFICATION Spec

INVARIANT NoStopBeforeAllDeadlines

CHECK_DEADLOCK FALSE
