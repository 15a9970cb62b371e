SPECIFICATION CombinatorsSpec
CONSTANTS
    Given = 2
    MaxActs = 5
    MaxPromises = 8
    MaxDepth = 6
    MaxCalls = 1
    Forms = {{"onRejected"}, {"onFullfilled"}}
INVARIANTS
    CombinedIsTrue
    CombinedSettles
    ResumedByAwaited
    AwaitIsAnswered
CHECK_DEADLOCK FALSE
