SPECIFICATION Spec
CONSTANTS
  p1 = p1  p2 = p2  p3 = p3  p4 = p4
  o1 = o1  o2 = o2  o3 = o3
  Psbt = {p1, p2, p3, p4}
  Outpoint = {o1, o2, o3}
  Input <- Clashing
  Siblings = {o2}
  Missing = {o3}
  Hidden = {p3}
  Token = {k1}
  NoToken = NoToken
  NoTx = NoTx
  Request = {r1}
  Lifetime <- Lifetimes
  MaxRun = 1
  Nothing = Nothing
CONSTRAINTS FeeIndexBound AcceptedBound EntriesBound
SYMMETRY SameClash
INVARIANTS TypeOK PositionOnlyOfRevoked AnswerFresh  ToldTruth
CHECK_DEADLOCK TRUE
