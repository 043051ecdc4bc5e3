SPECIFICATION Spec
CONSTANTS
  c1 = c1
  c2 = c2
  nobody = nobody
  Cycles <- CyclesMC
  Nobody <- nobody
  Retention = 1
  MaxNow = 2
  MaxTurns = 1
  MaxArchives = 2
  MaxTampers = 1
INVARIANTS
  
  NewestKept
  RefusedForCause
SYMMETRY Symmetry
CHECK_DEADLOCK FALSE
