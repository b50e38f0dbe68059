SPECIFICATION Spec
CONSTANTS
    h1 = h1
    h2 = h2
    c1 = c1
    c2 = c2
    NodeCaller = {c1}
    ListCaller = {c2}
    Host = {h1}
    Sources <- TwoSources
    NameLists <- SharedName
    Ttl = 1
    Timeout = 1
    MaxTime = 2
PROPERTIES
    EveryCallReturns
