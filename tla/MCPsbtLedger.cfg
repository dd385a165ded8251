SPECIFICATION Spec
CONSTANTS
  p1 = p1  p2 = p2  p3 = p3
  o1 = o1  o2 = o2
  Psbt = {p1, p2, p3}
  Outpoint = {o1, o2}
  Input <- SharedInput
  Token = {k1, k2}
  NoToken = NoToken
  NoTx = NoTx
CONSTRAINT FeeIndexBound
INVARIANTS QueuedIsRevocable StatusTellsTruth RecordedFeeRetired
PROPERTY StatusStable
CHECK_DEADLOCK TRUE
