CONSTANTS
  InitQty <- MC_InitQty
  Qty <- MC_Qty
  MaxLines = 3
SPECIFICATION Spec
INVARIANT CountersConserved
INVARIANT QuantityRestocked
