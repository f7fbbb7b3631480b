\* Power fails between any two flash operations.
CONSTANTS
  Blocks = 3
  PageSize = 1
  DataPages = 2
  Unit = 1
  WriteLens = {1, 3}
  ReadLens = {1}
  Stamps = 2
  MaxPos = 5
  Images = {"formatted"}
  Faults = {"crash"}
  Disciplined = TRUE
SPECIFICATION Spec
INVARIANTS SealedFull OneHead ReadsClosedBlock RecoveryAgrees
PROPERTIES ImplementsDurableFifo
