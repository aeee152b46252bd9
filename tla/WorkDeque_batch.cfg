SPECIFICATION Spec
CONSTANTS
  Owner = owner
  Thieves = {t1}
  Jobs = {j1, j2, j3, j4}
  None = none
  InitCapacity = 8
  MaxGrow = 0
  MaxCount = 8
SYMMETRY Symmetry
INVARIANTS NoDoubleTake
