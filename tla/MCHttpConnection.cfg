\* Three writes and three reads in any outcome, one reference kept by PHP code.
SPECIFICATION HttpSpec
CONSTANTS
    MaxWrites = 3
    MaxReads = 3
    MaxHeld = 1
    Requests <- TwoRequests
    Sent = 4
    HeaderMax = 3
INVARIANTS NoLoopFault WritesReported EndIsGraceful WholeRequestsOnly
PROPERTIES CloseIsLast IsReleased
CHECK_DEADLOCK FALSE
