\* Three clients, every command, any four connections, commands or ticks.
SPECIFICATION Spec
CONSTANTS
    u1 = u1
    u2 = u2
    u3 = u3
    NoUser = NoUser
    Client <- Three
    DefaultLag = 5
    Lags <- OneLag
    GolfRom = FALSE
    Commands <- AllCommands
    MaxEvents = 4
SYMMETRY Symmetry
INVARIANTS UserMapsAgree NamedUsersPresent PositionsMatch LagsAgree MapsAgree GolfFollows StartedTogether JoinAnswered AutolagSource
CHECK_DEADLOCK FALSE
