CONSTANTS
    Peer = {1, 2}
    Polls <- Overlap
    MaxAttempts = 1
    MaxFaults = 1
    Suspended = {1}
    Leavers = {1, 2}
SPECIFICATION FairSpec
INVARIANTS ClosedIsClosed OneConnection
PROPERTIES Decided LeaverDropped
CHECK_DEADLOCK FALSE
