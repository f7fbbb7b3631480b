\* Both ends of a channel, its subscriber and its publisher speak from and move
\* between the ports and overflow a two-record table.
CONSTANTS
  MaxChannels = 2
  MaxPorts = 2
  IqSize = 1
  MaxLifetime = 1
  Channels = {0}
  MaxFrames = 3
SPECIFICATION FairSpec
INVARIANTS NoReflection UniqueEntries ReachesPeer
PROPERTIES TableDrains
\* A send through a NULL port stops the processor.
CHECK_DEADLOCK FALSE
