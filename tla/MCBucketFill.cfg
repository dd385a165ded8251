SPECIFICATION Spec
CONSTANTS
  Psbt = {p1, p2, p3}
  CoSigned = {p1, p2}
  Offers <- AllOffers
  Thresholds = {0, 1, 5}
  FeeShare = 50
  TxWeight = 42
  PsbtWeight = 480
  SignatureWeight = 74
  OutputWeight = 124
  NoTx = NoTx
INVARIANTS TypeOK EachOnce ServiceFeesFit SkippedDoesNotFit ChosenFits FinalPaysMiners
PROPERTY FillEnds
CHECK_DEADLOCK FALSE
