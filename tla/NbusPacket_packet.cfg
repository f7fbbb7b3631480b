\* Packets that are empty, fit the caller, reach the MTU or exceed it; three
\* frames are lost, enough to mix two packets, and a timeout races the last frame.
CONSTANTS
  FragLen = 2
  MTU = 4
  TxMTU = 5
  BufSize = 3
  Lens = {0, 3, 4, 5}
  Eps = {0, 1}
  MaxPackets = 2
  MaxLost = 3
  MaxTimeouts = 1
SPECIFICATION FairSpec
INVARIANTS TypeOK RxBounded CopyBounded DoneIsWhole NoLostWakeup
PROPERTIES ImplementsLossyChannel PacketTaken
\* The sender stops after MaxPackets and the receiver then waits.
CHECK_DEADLOCK FALSE
