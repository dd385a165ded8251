SPECIFICATION FairSpec
CONSTANTS
  p1 = p1  p2 = p2
  o1 = o1  o2 = o2
  Psbt = {p1, p2}
  Outpoint = {o1, o2}
  Input <- OwnInput
  CoSigned = {}
  Siblings = {}
  Missing = {o2}
  AddRequest = {a1, a2}
  RevokeRequest = {v1, v2}
  CronRun = {r1}
  NoToken = NoToken
  NoTx = NoTx
  Nobody = Nobody
  MaxFaults = 1
CONSTRAINTS AddsDiffer MissingRevoked
PROPERTIES  RequestsAnswered RunsEnd
CHECK_DEADLOCK TRUE
