SPECIFICATION Spec
CONSTANTS
    User = {u1}
    None = None
    RxSize = 1
    MaxRead = 1
    BootTries = 1
    RegPeriod = 1
    InfoPeriod = 1
    SmsPeriod = 1
    SmsPhase = 1
    StatPeriod = 1
    Periods = 1
    InitCommands <- MCInitCommands
    InfoCommands <- MCInfoCommands
    PipeMax = 1
    Unsolicited <- MCUnsolicited
    MaxDisturbed = 1
    LineMax = 1
    Reported = {"IP_GPRSACT", "IP_STATUS", "CONNECT_OK"}
    Registration = {1}
PROPERTIES ResponseOwn CallsEnd
CHECK_DEADLOCK FALSE
