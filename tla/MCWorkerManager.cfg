\* Pools of five, as in the code; six deaths; both managers.
SPECIFICATION Spec
CONSTANTS
    Max = 5
    MaxDeaths = 6
    MaxForkFails = 1
INVARIANTS UnreapedAreUnseen
PROPERTIES PoolRestored NoReplacement
CHECK_DEADLOCK FALSE
