\* Three operations in two mixes, two calls of run(), fair loop.
CONSTANTS
    Ops = {1, 2, 3}
    Kinds <- Mixes
    MaxRuns = 2
    MaxDepth = 2
SPECIFICATION FairSpec
INVARIANTS FaultsAreMisuse PendingIsUnderway
PROPERTIES StartedIsSettled
CHECK_DEADLOCK FALSE
