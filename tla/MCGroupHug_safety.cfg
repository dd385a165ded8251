SPECIFICATION Spec
CONSTANTS
  p1 = p1  p2 = p2
  o1 = o1  o2 = o2
  Psbt = {p1, p2}
  Outpoint = {o1, o2}
  Input <- OwnInput
  CoSigned = {p2}
  Siblings = {o1}
  Missing = {}
  AddRequest = {a1, a2}
  RevokeRequest = {v1}
  CronRun = {r1, r2}
  NoToken = NoToken
  NoTx = NoTx
  Nobody = Nobody
  MaxFaults = 1
SYMMETRY RequestSymmetry
INVARIANTS TypeOK ConnectionExclusive NoPsbtLost RunsTellTheTruth
PROPERTY ImplementsLedger
CHECK_DEADLOCK TRUE
