SPECIFICATION Spec
CONSTANTS
    h1 = h1
    h2 = h2
    h3 = h3
    h4 = h4
    na = na
    nb = nb
    nc = nc
    None = None
    Hosts = {h1, h2, h3, h4}
    MaxEdges <- MCEdges
    Names = {na, nb, nc}
    MaxNames <- MCNames
    start_host = h1
INVARIANTS
    DependenciesAreTrees
PROPERTIES
    EveryHostConfigured
CHECK_DEADLOCK FALSE
