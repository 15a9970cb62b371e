SPECIFICATION TreeSpec
CONSTANTS
    PoolSize = 2
    MaxCrashes = 2
    MaxFailures = 2
    MaxForks = 5

    
PROPERTY
    EverythingEnds
CHECK_DEADLOCK FALSE
