SPECIFICATION Spec
CONSTANTS
  Run = {r1, r2}
  MaxEntries = 3
  MaxTime = 3
  MaxFaults = 1
  Nobody = Nobody
SYMMETRY Overlapping
INVARIANTS TypeOK HistoryBounded
PROPERTY DroppedIsOld
CHECK_DEADLOCK TRUE
