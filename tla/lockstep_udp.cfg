\* Two clients with UDP: every loss, repetition and reordering of datagrams, a history of one input.
SPECIFICATION Spec
CONSTANTS
    u1 = u1
    u2 = u2
    u3 = u3
    idle = idle
    press = press
    Server = Server
    User <- Two
    Input <- Both
    Active <- NoActive
    Lags <- Lag0
    HistoryLength = 1
    UdpUser <- Two
    GolfModes <- GolfOff
    MaxFrame = 3
    MaxCommands = 0
    MaxQuits = 0
SYMMETRY Symmetry
INVARIANTS TypeOK LogsAgree QueueAligned BoundedSkew
