SPECIFICATION Spec
CONSTANTS
  Psbt = {p1, p2}
  Index <- Indexes
  MaxGeneration = 3
  NoIndex = NoIndex
  NoKey = NoKey
  NoForm = NoForm
  Gone = Gone
SYMMETRY PsbtSymmetry
INVARIANTS TypeOK SignedAsValidated BatchAsValidated
CHECK_DEADLOCK TRUE
