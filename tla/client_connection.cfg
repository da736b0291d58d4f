\* One connection object over two connections, its port queries and one ping.
SPECIFICATION QuerySpec
CONSTANTS
    ping = ping
    MaxConnections = 2
    MaxSends = 1
    Background <- Ping
INVARIANTS OneWrite StreamIntact OneJoin
PROPERTIES WrittenOrStuck QueryAnswered
CHECK_DEADLOCK FALSE
