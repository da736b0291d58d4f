\* Authority delegated to a user who is leaving.
SPECIFICATION Spec
CONSTANTS
    u1 = u1
    u2 = u2
    u3 = u3
    idle = idle
    press = press
    Server = Server
    User <- Three
    Input <- Idle
    Active <- NoActive
    Lags <- Lag0
    HistoryLength = 2
    UdpUser <- NoUser
    GolfModes <- GolfOff
    MaxFrame = 0
    MaxCommands = 2
    MaxQuits = 1
INVARIANTS AlwaysAProducer
CHECK_DEADLOCK FALSE
