\* Two events with two registrations each, emissions three deep.
SPECIFICATION Spec
CONSTANTS
    Events = {data, close}
    Listeners = {a, b}
    MaxIndex = 2
    MaxDepth = 3
SYMMETRY Symmetry
INVARIANTS CalledInOrder
PROPERTIES NoneSkipped
CHECK_DEADLOCK FALSE
