\* A read longer than what is left of the page.
CONSTANTS
  Blocks = 3
  PageSize = 2
  DataPages = 2
  Unit = 2
  WriteLens = {1, 4}
  ReadLens = {3}
  Stamps = 5
  MaxPos = 6
  Images = {"dirty", "formatted"}
  Faults = {}
  Disciplined = TRUE
SPECIFICATION Spec
INVARIANTS ReadsQueue
