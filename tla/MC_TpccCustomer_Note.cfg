CONSTANTS
  MaxPayments = 2
  Credits <- MC_Credits
  DataLens <- MC_DataLens
SPECIFICATION Spec
INVARIANT NoteMatchesRmw
