SPECIFICATION FairSpec
CONSTANTS
  Owner = owner
  Thieves = {t1, t2}
  Jobs = {j1, j2, j3}
  None = none
  InitCapacity = 2
  MaxGrow = 1
  MaxCount = 1
INVARIANTS ExactlyOnce
PROPERTIES Linearizable NothingStranded
