CONSTANTS
    all = all
    admin = admin
    Event <- MCEvent
    BroadcastUser = all
    Configs <- MCConfigs
    MaxEvents = 3
SPECIFICATION Spec
INVARIANTS
    TypeOK
    EachEventInOnePlace
    AggregatesAreUniform
    RightAudience
    TopicOrderKept
PROPERTIES
    LimiterInside
    EveryEventEnds
    TopicsClose
