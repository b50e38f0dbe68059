SPECIFICATION Spec
CONSTANTS
    rx = rx
    tx = tx
    load = load
    other = other
    ha = ha
    hb = hb
    w1 = w1
    w2 = w2
    Writer = {w1, w2}
    Metric <- MCMetric
    HostOf <- MCHostOf
    Filtered = {other}
    ValueLists <- MCValueLists
    Times = {1, 2}
    Capacity = 2
    MaxSamples = 5
INVARIANTS
    TypeOK
    ReadersSeeOrder
    HostIndexComplete
PROPERTIES
    KeepsRecent
    EveryWriteEnds
CHECK_DEADLOCK FALSE
