\* Two calls, the second with a result of two reads; two routines, fair loops.
CONSTANTS
    NCalls = 2
    Routines = {r1, r2}
    Big = {2}
SPECIFICATION FairSpec
INVARIANTS OnlyLostAreDropped
PROPERTIES  SentIsSettled
CHECK_DEADLOCK FALSE
