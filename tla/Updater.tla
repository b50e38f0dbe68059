---- MODULE Updater ----
(***************************************************************************)
(* The automatic update of a page, netgraphz/updater.js: once in a while   *)
(* it asks for all nodes again, part by part.  Two timers and the request  *)
(* under way hand over to each other; a request that the network breaks    *)
(* calls back twice (fetcher.js).  The states start where start() leaves   *)
(* them: a second call of it returns early, and nothing calls stop().      *)
(***************************************************************************)
EXTENDS GraphStorage

CONSTANT PartSize       \* settings.updater.partSize

VARIABLES
    globalTimers,   \* pending timers that call updateCallback
    partTimers,     \* pending timers that call updatePartStart
    requested,      \* how many requests for a part are under way
    lastId

updaterVars == <<globalTimers, partTimers, requested, lastId>>

Init ==
    /\ globalTimers = 1
    /\ partTimers = 0
    /\ requested = 0
    /\ lastId = 0

updateCallback ==
    /\ globalTimers > 0
    /\ globalTimers' = globalTimers - 1
    /\ partTimers' = partTimers + 1
    /\ UNCHANGED <<requested, lastId>>

updatePartStart ==
    /\ partTimers > 0
    /\ partTimers' = partTimers - 1
    /\ requested' = requested + 1
    /\ UNCHANGED <<globalTimers, lastId>>

\* Fault: each call with an error leaves a timer.
AfterErrors_NoClear(calls) == partTimers + calls
\* The callback clears _part_timer before it sets it anew, so that of two
\* calls for one request only the last leaves a timer.
AfterErrors(calls) == IF partTimers > 0 THEN partTimers ELSE 1

PartFails(calls) ==
    /\ requested > 0
    /\ requested' = requested - 1
    /\ partTimers' = AfterErrors(calls)
    /\ UNCHANGED <<globalTimers, lastId>>

\* Fault: the next rotation goes on where the last one ended.
NextId_NoReset(part) == Highest(part \cup {lastId})
NextId(part) ==
    IF Cardinality(part) < PartSize THEN 0 ELSE Highest(part \cup {lastId})

\* A part that is not full is the last one of the rotation.
PartArrives(part) ==
    /\ requested > 0
    /\ requested' = requested - 1
    /\ lastId' = NextId(part)
    /\ \/ /\ Cardinality(part) < PartSize
          /\ globalTimers' = globalTimers + 1
          /\ UNCHANGED partTimers
       \/ /\ Cardinality(part) >= PartSize
          /\ partTimers' = partTimers + 1
          /\ UNCHANGED globalTimers

Next ==
    \/ updateCallback
    \/ updatePartStart
    \/ \E calls \in 1..2 : PartFails(calls)
    \/ \E part \in PartsFrom(lastId, PartSize) : PartArrives(part)

Spec == Init /\ [][Next]_updaterVars
----------------------------------------------------------------------------
\* There is always exactly one thing that keeps the update going: a timer or a
\* request, never two rotations side by side and never none, although a broken
\* request calls back twice (updater.js, updatePartStart).
OneRotation ==
    /\ globalTimers \in Nat /\ partTimers \in Nat /\ requested \in Nat
    /\ globalTimers + partTimers + requested = 1
====
