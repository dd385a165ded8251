SPECIFICATION Spec
CONSTANTS
  Psbt = {p1, p2}
  Fitting = {p1}
  Run = {r1, r2}
  Day = 2
  Week = 4
  MaxRun = 1
  MaxFaults = 1
INVARIANTS TypeOK KeysExpireInOrder DayBetweenBatches WaitBounded OverviewKept
CHECK_DEADLOCK TRUE
