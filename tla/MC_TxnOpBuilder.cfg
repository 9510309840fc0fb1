CONSTANTS
  OpsPerTxn <- MC_OpsPerTxn
  Percents <- MC_Percents
SPECIFICATION Spec
INVARIANT BuildSizeMatches
