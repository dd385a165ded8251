SPECIFICATION Spec
CONSTANTS
  Psbt = {p1, p2, p3}
  CoSigned = {}
  Offers <- MixedOffers
  Thresholds = {0, 1, 5}
  FeeShare = 50
  TxWeight = 42
  PsbtWeight = 480
  SignatureWeight = 74
  OutputWeight = 124
  NoTx = NoTx
INVARIANT PushedIsBatched
CHECK_DEADLOCK FALSE
