CONSTANTS
  Garbage = Garbage
  Workloads <- MC_Workloads
  MaxPhases = 2
  Grid = 4

SPECIFICATION Spec

INVARIANT TypeOK
INVARIANT DrawMatchesReference
INVARIANT DrawsCurrentPhaseKind
