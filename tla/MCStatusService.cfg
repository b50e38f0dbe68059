SPECIFICATION Spec
CONSTANTS
    h1 = h1
    h2 = h2
    c1 = c1
    c2 = c2
    NodeCaller = {c1}
    ListCaller = {c2}
    Host = {h1, h2}
    Sources <- OneSource
    NameLists <- DistinctNames
    Ttl = 1
    Timeout = 1
    MaxTime = 5
INVARIANTS
    TypeOK
    StampHonest
    StaleOnlyIfSourceFailed
    OneStatePerSource
    ListShowsLatest
PROPERTIES
    CacheGoesBackAtMostTimeout
