SPECIFICATION FairSpec
CONSTANTS
    MaxConnections = 2
    MaxSends = 2
PROPERTIES EventuallyWritten
CHECK_DEADLOCK FALSE
