SPECIFICATION Spec
CONSTANTS
    NPieces = 3
    Blocks = 1
    Slots = 2
    BlocksPerCycle = 1
    InitTimeout = 2
    RunTimeout = 3
    MsgInterval = 1
    ReceiverIdle = 1
    SenderIdle = 1
    NetMax = 1
    MaxDup = 0
    MaxPreempt = 1
INVARIANTS
    PieceSound
PROPERTY
    CompleteWhenFinished
    SessionEnds
CHECK_DEADLOCK FALSE
