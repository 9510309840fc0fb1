CONSTANTS
  InitQty <- MC_InitQtyBoundary
  Qty <- MC_QtyFull
  MaxLines = 10
SPECIFICATION Spec
INVARIANT MergedQuantityMatchesRmw
