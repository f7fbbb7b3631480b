\* Every kind of fault at once.
CONSTANTS
  Blocks = 3
  PageSize = 1
  DataPages = 1
  Unit = 1
  WriteLens = {1, 2}
  ReadLens = {1}
  Stamps = 1
  MaxPos = 4
  Images = {"blank", "dirty", "formatted"}
  Faults = {"crash", "read", "write"}
  Disciplined = FALSE
SPECIFICATION Spec
INVARIANTS OneErased
