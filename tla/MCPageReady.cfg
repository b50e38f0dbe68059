SPECIFICATION Spec
CONSTANTS
    Nodes <- MCNodes
    NLinks = 11
    PartSize = 2
    MaxFailures = 3
PROPERTIES
    ReadyWhenStarted
CHECK_DEADLOCK FALSE
