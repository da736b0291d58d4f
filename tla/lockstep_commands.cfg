\* Two authority commands crossing between three users while one may leave.
SPECIFICATION Spec
CONSTANTS
    u1 = u1
    u2 = u2
    u3 = u3
    idle = idle
    press = press
    Server = Server
    User <- Three
    Input <- Both
    Active <- NoActive
    Lags <- Lag0
    HistoryLength = 2
    UdpUser <- NoUser
    GolfModes <- GolfOff
    MaxFrame = 0
    MaxCommands = 2
    MaxQuits = 1
SYMMETRY Symmetry
INVARIANTS SingleProducer QuietAuthority NoOrphanInput
PROPERTIES SharedSpec
CHECK_DEADLOCK FALSE
