---- MODULE EventHandler ----
(***************************************************************************)
(* The notification server: a notification posted by an Icinga script is   *)
(* aggregated with others of its topic, passes the rate limiter, is looked *)
(* up in the graph database, and is pushed to the browsers or mailed.      *)
(*                                                                         *)
(* The rate limiter is RateLimiter, whose variables this module shares: a  *)
(* query of ours is its notification, and what it starts goes to the       *)
(* database.  Each HTTP request, timer callback and database reply runs    *)
(* to its end before the next and is one action.  Events are numbered in   *)
(* the order they arrive; posted is history, and so are shown, mailed and  *)
(* lost, in which an event ends.                                           *)
(***************************************************************************)
EXTENDS Naturals, Sequences, FiniteSets, FiniteSetsExt, Functions

CONSTANTS
    Event,          \* what a notification says: [type, state, last, user]
    BroadcastUser,  \* config.api.icinga.broadcast_user
    Configs,        \* the settings config.json may hold
    MaxEvents       \* bound: events between two restarts

\* An event is what its fields say, and the limiter is configured as it must be.
ASSUME EventAssumption ==
    \A d, e \in Event :
        d.type = e.type /\ d.state = e.state /\ d.last = e.last /\ d.user = e.user => d = e
ASSUME SettingsAssumption ==
    /\ \A c \in Configs : /\ c.rate \in Nat \ {0}
                          /\ c.enabled \in BOOLEAN
                          /\ c.overrate \in {"queue", "drop"}
                          /\ c.aggregation \in BOOLEAN
    /\ MaxEvents \in Nat

EventId == 1..MaxEvents

\* What is looked up in the database at once: one event, or an aggregate.  about
\* holds the fields a body (or an aggregate's agg_*) carries along.
Query == [about : Event, events : (SUBSET EventId) \ {{}}]

VARIABLES
    config, initialised, reqCurr, queue, flushTimer, throttleTimer,
    accepted, started, dropped, burst,   \* the rate limiter
    posted,      \* history: the events since the server started
    aggTopics,   \* _agg_event_topics: topic -> its object
    inflight,    \* queries sent to the database and not answered
    shown,       \* history: events pushed to the browsers
    mailed,      \* history: events given to notifyByEmail
    lost         \* history: events dropped, or lost to a database reply

Limiter == INSTANCE RateLimiter
               WITH Notification <- Query, MaxArrivals <- MaxEvents

ends == <<shown, mailed, lost>>
vars == <<config, initialised, reqCurr, queue, flushTimer, throttleTimer,
          accepted, started, dropped, burst,
          posted, aggTopics, inflight, shown, mailed, lost>>

NoTopics == [t \in {} |-> {}]

FreshHandler ==
    /\ posted = <<>>
    /\ aggTopics = NoTopics
    /\ inflight = {}
    /\ shown = {} /\ mailed = {} /\ lost = {}

Init == Limiter!Init /\ FreshHandler
----------------------------------------------------------------------------
\* Fault: the previous state is left out of the topic.
GetAggregateTopic_NoLast(e) == <<e.type, e.state, e.user>>

\* Fault: the user is left out of the topic.
GetAggregateTopic_NoUser(e) == <<e.type, e.state, e.last>>

\* The key of an event's topic: "type/state_id/last_state_id/user".
GetAggregateTopic(e) == <<e.type, e.state, e.last, e.user>>

\* Fault: a query goes to the database past the limiter.
Submit_PastLimiter(q, flush) ==
    /\ Limiter!StartNow(q)
    /\ flushTimer' = flush
    /\ inflight' = inflight \cup {q}
    /\ UNCHANGED <<reqCurr, ends>>

\* The limiter handles a query: what it starts is sent to the database, and what
\* it drops is gone.
Submit(q, flush) ==
    /\ Limiter!Admit(q, flush)
    /\ inflight' = IF started' # started THEN inflight \cup {q} ELSE inflight
    /\ lost' = IF dropped' # dropped THEN lost \cup q.events ELSE lost
    /\ UNCHANGED <<shown, mailed>>

\* _aggregate_event: the event joins its topic, or opens it and starts its timer.
Aggregate(e, id) ==
    LET t == GetAggregateTopic(e) IN
    aggTopics' = IF t \in DOMAIN aggTopics
                 THEN [aggTopics EXCEPT ![t].events = @ \cup {id}]
                 ELSE [k \in DOMAIN aggTopics \cup {t} |->
                          IF k = t THEN [about |-> e, events |-> {id}] ELSE aggTopics[k]]

\* POST /notify_host or /notify_service, and handle_host_notification or
\* handle_service_notification: the first request starts the flush timer.
Notify(e) ==
    LET id == Len(posted) + 1 IN
    /\ id \in EventId
    /\ posted' = Append(posted, e)
    /\ initialised' = TRUE
    /\ UNCHANGED config
    /\ \/ /\ config.aggregation
          /\ Aggregate(e, id)
          /\ flushTimer' = Limiter!FlushAfterInit
          /\ UNCHANGED <<reqCurr, queue, throttleTimer, accepted, started, dropped,
                         burst, inflight, ends>>
       \/ /\ ~config.aggregation
          /\ Submit([about |-> e, events |-> {id}], Limiter!FlushAfterInit)
          /\ UNCHANGED aggTopics

\* POST with a body that is no object: answered 500, after init().
BadRequest ==
    /\ Limiter!InitHandler
    /\ UNCHANGED <<posted, aggTopics, inflight, ends>>

\* Fault: a topic is closed though events were collected.
CloseTopic_TooEarly(t) ==
    /\ aggTopics' = Restrict(aggTopics, DOMAIN aggTopics \ {t})
    /\ UNCHANGED <<config, initialised, reqCurr, queue, flushTimer, throttleTimer,
                   accepted, started, dropped, burst, posted, inflight, ends>>

\* The interval of a topic fires with nothing collected: clearInterval and
\* delete.  A topic is in aggTopics exactly while its interval runs.
CloseTopic(t) ==
    /\ aggTopics[t].events = {}
    /\ aggTopics' = Restrict(aggTopics, DOMAIN aggTopics \ {t})
    /\ UNCHANGED <<config, initialised, reqCurr, queue, flushTimer, throttleTimer,
                   accepted, started, dropped, burst, posted, inflight, ends>>

\* A single event goes on as it is; an aggregate carries its topic's fields.
TopicQuery(t) ==
    LET ids == aggTopics[t].events IN
    [about |-> IF Cardinality(ids) = 1 THEN posted[Max(ids)] ELSE aggTopics[t].about,
     events |-> ids]

\* Fault: the collected events are not cleared.
FlushTopic_KeepsEvents(t) ==
    /\ aggTopics[t].events # {}
    /\ Submit(TopicQuery(t), flushTimer)
    /\ UNCHANGED <<config, initialised, posted, aggTopics>>

\* Fault: an empty topic is submitted too.
FlushTopic_EvenEmpty(t) ==
    /\ Submit(TopicQuery(t), flushTimer)
    /\ aggTopics' = [aggTopics EXCEPT ![t].events = {}]
    /\ UNCHANGED <<config, initialised, posted>>

\* The interval of a topic fires: its events go on as one query.
FlushTopic(t) ==
    /\ aggTopics[t].events # {}
    /\ Submit(TopicQuery(t), flushTimer)
    /\ aggTopics' = [aggTopics EXCEPT ![t].events = {}]
    /\ UNCHANGED <<config, initialised, posted>>

\* Fault: an empty topic keeps its timer.
AggTick_NeverCloses(t) == t \in DOMAIN aggTopics /\ FlushTopic(t)

\* _agg_event_process
AggTick(t) == t \in DOMAIN aggTopics /\ (CloseTopic(t) \/ FlushTopic(t))

\* The limiter's timers; the queries of a batch are sent one after the other.
FlushTick ==
    /\ Limiter!FlushTick
    /\ UNCHANGED <<posted, aggTopics, inflight, ends>>

ThrottleTick ==
    /\ Limiter!ThrottleTick
    /\ inflight' = inflight \cup {started'[i] : i \in (Len(started) + 1)..Len(started')}
    /\ UNCHANGED <<posted, aggTopics, ends>>

IsAggregated(q) == Cardinality(q.events) > 1

\* _handle_database_node_response, _handle_database_agg_nodes_response
Dispatch(q) ==
    IF q.about.user = BroadcastUser
    THEN shown' = shown \cup q.events /\ UNCHANGED <<mailed, lost>>
    ELSE mailed' = mailed \cup q.events /\ UNCHANGED <<shown, lost>>

\* The database answers in any order, a query may fail, and a host may be
\* unknown.  No caller passes an error callback, so a failed query is lost; an
\* aggregate is sent on whichever of its hosts are known.
DatabaseReply(q, outcome) ==
    /\ q \in inflight
    /\ inflight' = inflight \ {q}
    /\ \/ /\ outcome = "error" \/ (outcome = "unknown" /\ ~IsAggregated(q))
          /\ lost' = lost \cup q.events
          /\ UNCHANGED <<shown, mailed>>
       \/ /\ outcome = "found" \/ (outcome = "unknown" /\ IsAggregated(q))
          /\ Dispatch(q)
    /\ UNCHANGED <<config, initialised, reqCurr, queue, flushTimer, throttleTimer,
                   accepted, started, dropped, burst, posted, aggTopics>>

\* The process restarts: all of this is in memory.
Restart ==
    /\ Limiter!Restart
    /\ posted' = <<>>
    /\ aggTopics' = NoTopics
    /\ inflight' = {}
    /\ shown' = {} /\ mailed' = {} /\ lost' = {}

Reply == \E q \in inflight, outcome \in {"found", "unknown", "error"} :
             DatabaseReply(q, outcome)

Next ==
    \/ \E e \in Event : Notify(e)
    \/ BadRequest
    \/ \E t \in DOMAIN aggTopics : AggTick(t)
    \/ FlushTick
    \/ ThrottleTick
    \/ Reply
    \/ Restart

\* Intervals keep firing, and the HTTP client of the database calls back sooner
\* or later, with an answer or an error.  (Each interval fires on its own; one
\* condition for all of them is weaker, and enough for finitely many events.)
Fairness ==
    /\ WF_vars(\E t \in DOMAIN aggTopics : AggTick(t))
    /\ WF_vars(FlushTick)
    /\ WF_vars(ThrottleTick)
    /\ WF_vars(Reply)

Spec == Init /\ [][Next]_vars /\ Fairness
----------------------------------------------------------------------------
Posted == 1..Len(posted)

\* The queries under way, sent or waiting in the limiter.
Pending == inflight \cup Range(queue)

TypeOK ==
    /\ Limiter!TypeOK
    /\ posted \in Seq(Event)
    /\ \A t \in DOMAIN aggTopics : aggTopics[t] \in [about : Event, events : SUBSET Posted]
    /\ inflight \in SUBSET Query
    /\ shown \subseteq Posted /\ mailed \subseteq Posted /\ lost \subseteq Posted

\* In how many places event i is: collected in a topic, in a query sent or
\* waiting, or at one of the three ends.
Places(i) ==
    Cardinality({t \in DOMAIN aggTopics : i \in aggTopics[t].events})
    + Cardinality({q \in inflight : i \in q.events})
    + Cardinality({k \in DOMAIN queue : i \in queue[k].events})
    + Cardinality({k \in DOMAIN ends : i \in ends[k]})

\* Each event since the start is in exactly one place, whatever mix of topic
\* intervals, limiter callbacks and database replies it has been through: none
\* is forgotten on the way, none is notified twice.
EachEventInOnePlace == \A i \in Posted : Places(i) = 1

\* All events of an aggregate are about the same kind of transition as the
\* aggregate says, for the same user: the browser shows the one state pair for
\* all of its hosts.
AggregatesAreUniform ==
    \A q \in Pending : \A i \in q.events : posted[i] = q.about

\* What goes to every browser was meant for all, and nothing meant for all is
\* mailed to one.
RightAudience ==
    /\ \A i \in shown : posted[i].user = BroadcastUser
    /\ \A i \in mailed : posted[i].user # BroadcastUser

\* Events of one topic are looked up in the order they were posted, though a
\* query may be an aggregate, wait in the queue or go straight on.  (Nothing of
\* the kind holds between two topics, such as a host's DOWN and UP.)
TopicOrderKept ==
    \A i, j \in DOMAIN started :
        i < j /\ started[i].about = started[j].about
            => \A a \in started[i].events, b \in started[j].events : a < b

\* The rate limiter inside behaves as RateLimiter says.
LimiterInside == Limiter!LimiterSafety

\* Every event posted comes to an end: pushed, mailed, dropped or lost to the
\* database, or the process restarts.
EveryEventEnds ==
    \A i \in EventId :
        (i \in Posted) ~> (i \in shown \cup mailed \cup lost \/ ~initialised)

\* A topic's timer does not run forever once the events stop.
TopicsClose == (DOMAIN aggTopics # {}) ~> (aggTopics = NoTopics)
====
