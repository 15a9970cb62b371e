\* Three runs of the script, two workers each, one connection.
CONSTANTS
    NInstances = 3
    PoolSize = 2
    Conns = {c1}
    MaxDeaths = 1
SPECIFICATION Spec
INVARIANTS OneHolder  
PROPERTIES ClientIsAnswered
CHECK_DEADLOCK FALSE
