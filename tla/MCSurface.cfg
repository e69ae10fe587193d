SPECIFICATION Spec
CONSTANTS
  tile = tile
  full = full
  Views <- MCViews
  Depth = 2
  MaxFrames = 4
  MaxSwaps = 1
INVARIANTS
  TypeOK
  HandlesBalance
PROPERTIES
  TakenInOrder
  TakesAreSmooth
CHECK_DEADLOCK FALSE
