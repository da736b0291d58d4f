\* Authority delegated in the lobby, before another user joins.
SPECIFICATION Spec
CONSTANTS
    u1 = u1
    u2 = u2
    u3 = u3
    NoUser = NoUser
    Client <- Three
    DefaultLag = 5
    Lags <- OneLag
    GolfRom = FALSE
    Commands <- AllCommands
    MaxEvents = 4
SYMMETRY Symmetry
INVARIANTS StreamsShared
CHECK_DEADLOCK FALSE
