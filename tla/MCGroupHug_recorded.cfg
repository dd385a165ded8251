SPECIFICATION FairSpec
CONSTANTS
  p1 = p1  p2 = p2
  o1 = o1  o2 = o2
  Psbt = {p1}
  Outpoint = {o1}
  Input <- OneInput
  CoSigned = {}
  Siblings = {}
  Missing = {}
  AddRequest = {a1}
  RevokeRequest = {}
  CronRun = {r1, r2}
  NoToken = NoToken
  NoTx = NoTx
  Nobody = Nobody
  MaxFaults = 0
PROPERTY BroadcastIsRecorded
