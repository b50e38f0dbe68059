SPECIFICATION Spec
CONSTANTS
    Nodes <- MCNodes
    NLinks = 0
    PartSize = 1
    MaxChanges = 1
    MaxNotified = 2
    MaxFailures = 1
    MaxEvents = 2
INVARIANTS
    StoreHoldsNodes
CHECK_DEADLOCK FALSE
