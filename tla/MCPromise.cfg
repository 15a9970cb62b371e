SPECIFICATION Spec
CONSTANTS
    MaxPromises = 4
    MaxDepth = 4
    Forms = {{}, {"onFullfilled"}, {"onFullfilled", "onRejected"}, {"onRejected"}, {"onFinaled"}}
INVARIANTS
    ChainsSettle
PROPERTIES SettledForGood
CONSTRAINT SmallForms
CHECK_DEADLOCK FALSE
