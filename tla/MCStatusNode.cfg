SPECIFICATION Spec
CONSTANTS
    h1 = h1
    h2 = h2
    c1 = c1
    c2 = c2
    NodeCaller = {c1}
    ListCaller = {c2}
    Host = {h1}
    Sources <- OneSource
    NameLists <- SharedName
    Ttl = 1
    Timeout = 1
    MaxTime = 3
INVARIANTS
    NodeShowsLatest
