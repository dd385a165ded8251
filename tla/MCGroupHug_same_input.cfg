SPECIFICATION Spec
CONSTANTS
  p1 = p1  p2 = p2
  o1 = o1  o2 = o2
  Psbt = {p1, p2}
  Outpoint = {o1}
  Input <- SameInput
  CoSigned = {}
  Siblings = {}
  Missing = {}
  AddRequest = {a1, a2}
  RevokeRequest = {}
  CronRun = {r1}
  NoToken = NoToken
  NoTx = NoTx
  Nobody = Nobody
  MaxFaults = 0
INVARIANT OneQueuedPerInput
