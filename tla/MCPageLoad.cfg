SPECIFICATION Spec
CONSTANTS
    Nodes <- MCNodes
    NLinks = 11
    PartSize = 2
    MaxFailures = 3
INVARIANTS
    TypeOK
    PartsAreAPrefix
    StartsComplete
    OneAtATimeUnlessBroken
PROPERTIES
    LoadEnds
CHECK_DEADLOCK FALSE
