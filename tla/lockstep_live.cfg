\* Every client that stays reaches every frame, whatever the commands, with golf or without.
SPECIFICATION FairSpec
CONSTANTS
    u1 = u1
    u2 = u2
    u3 = u3
    idle = idle
    press = press
    Server = Server
    User <- Two
    Input <- Idle
    Active <- NoActive
    Lags <- Lag0
    HistoryLength = 2
    UdpUser <- NoUser
    GolfModes <- GolfAny
    MaxFrame = 2
    MaxCommands = 2
    MaxQuits = 1
INVARIANTS AlwaysAProducer
PROPERTIES Progress
