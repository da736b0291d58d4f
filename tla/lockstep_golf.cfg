\* Golf mode: authority follows the buttons while datagrams are late, lost or repeated and one user may leave.
SPECIFICATION Spec
CONSTANTS
    u1 = u1
    u2 = u2
    u3 = u3
    idle = idle
    press = press
    Server = Server
    User <- Two
    Input <- Both
    Active <- Pressed
    Lags <- Lag0
    HistoryLength = 1
    UdpUser <- Two
    GolfModes <- GolfAny
    MaxFrame = 1
    MaxCommands = 0
    MaxQuits = 1
SYMMETRY Symmetry
INVARIANTS SingleProducer
PROPERTIES SharedSpec
