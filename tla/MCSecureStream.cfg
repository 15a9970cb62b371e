SPECIFICATION SecureSpec
CONSTANTS
    MaxWrites = 2
    MaxReads = 2
    MaxHeld = 1
    MaxRecords = 1
INVARIANTS NoLoopFault BioIsFlushed ReleasedTogether
PROPERTIES SecureCloseReleases
CHECK_DEADLOCK FALSE
