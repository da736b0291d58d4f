\* The UDP output buffer with the real MAX_UDP_SIZE.
SPECIFICATION Spec
CONSTANTS
    MaxUdpSize = 508
    PayloadSizes <- EdgeSizes
    MaxSends = 4
INVARIANTS DatagramFits PacketsInOrder OnlyTooBigRefused
