---- MODULE MCEventHandler ----
EXTENDS EventHandler

CONSTANTS all, admin

\* Three transitions of hosts that differ from the first in one field of the
\* topic each: in the previous state, and in the user to be told.
MCEvent == {
    [type |-> "host", state |-> "down", last |-> "up", user |-> all],
    [type |-> "host", state |-> "down", last |-> "unreachable", user |-> all],
    [type |-> "host", state |-> "down", last |-> "up", user |-> admin]
}

\* The configuration the repository ships (aggregation, queue mode) and one that
\* drops, without aggregation.
MCConfigs == {
    [rate |-> 2, enabled |-> TRUE, overrate |-> "queue", aggregation |-> TRUE],
    [rate |-> 2, enabled |-> TRUE, overrate |-> "drop", aggregation |-> FALSE],
    [rate |-> 2, enabled |-> FALSE, overrate |-> "queue", aggregation |-> TRUE]
}
====
