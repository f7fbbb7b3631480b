SPECIFICATION Spec
CONSTANTS
    Sub = {s1, s2}
    Pub = {p1}
    StateTimeout = 2
    PingInterval = 1
    MaxBackoff = 2
    MaxMsg = 2
INVARIANTS NotStranded SubscriptionsRestored
PROPERTIES SenderReturns
CHECK_DEADLOCK FALSE
