\* Six things done by the person or the network, at any point of the calls.
SPECIFICATION Spec
CONSTANTS
    MaxEvents = 6
INVARIANTS NoMissedWake TaskAwaited
PROPERTIES ClosingReleases LossReleases RomClosedReturns
CHECK_DEADLOCK FALSE
