SPECIFICATION Spec
CONSTANTS
  Request = {q1, q2, q3}
  Boot = Boot
  MaxDrops = 2
INVARIANTS TypeOK JobsScheduledOnce JobsUnlessFailed
PROPERTY StartCompletes
CHECK_DEADLOCK FALSE
