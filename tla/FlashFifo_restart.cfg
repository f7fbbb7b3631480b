\* Power fails between calls only; the consumer removes what it has read.
CONSTANTS
  Blocks = 3
  PageSize = 2
  DataPages = 2
  Unit = 2
  WriteLens = {1, 4}
  ReadLens = {2}
  Stamps = 5
  MaxPos = 6
  Images = {"dirty", "formatted"}
  Faults = {}
  Disciplined = TRUE
SPECIFICATION FairSpec
INVARIANTS ReadsQueue BitmapCovers RingOrder
PROPERTIES WriterUnblocked
