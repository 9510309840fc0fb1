CONSTANTS
  NumThreads = 2
  Modes <- MC_Modes
  TotalOpsOf <- MC_TotalOpsOf
  OpsPerTxn <- MC_OpsPerTxn
  MaxIter = 3

SPECIFICATION Spec

INVARIANT TypeOK
INVARIANT PercentsAccounted
PROPERTY AllWorkersStop

\* The phase ends when every worker has returned; AllWorkersStop rejects
\* any other state without a successor.
CHECK_DEADLOCK FALSE
