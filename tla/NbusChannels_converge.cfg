\* Colliding first hashes, one advertisement lost.
CONSTANTS
  n1 = n1
  n2 = n2
  c1 = c1
  c2 = c2
  c3 = c3
  None = None
  Nodes = {n1, n2}
  Channels = {c1, c2, c3}
  Owner <- MCOwner
  Ids = {0, 1, 2, 3, 4}
  Hash <- MCHash
  AdvTime = 2
  FifoLen = 1
  MaxLost = 1
SPECIFICATION FairSpec
PROPERTIES Converges
