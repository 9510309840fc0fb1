CONSTANTS
  MaxPayments = 17
  Credits <- MC_Credits
  DataLens <- MC_DataLens
SPECIFICATION Spec
INVARIANTS
  PaymentsConserved
  FragmentLogNewest
  NoteWithinBuffer
