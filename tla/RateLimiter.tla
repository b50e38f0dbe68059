---- MODULE RateLimiter ----
(***************************************************************************)
(* The rate limiter of notifications/event_handler.js: a request counter,  *)
(* a queue of notifications over the rate, and two interval timers with    *)
(* the same period, of which the flush timer resets the counter and the    *)
(* throttle timer works the queue off.  A notification is "started" when   *)
(* its database query is sent.                                             *)
(*                                                                         *)
(* JavaScript runs one callback at a time, so each HTTP request and each   *)
(* timer callback is one action.  accepted, started, dropped and burst are *)
(* history variables: no action's guard reads them, but for the bound      *)
(* MaxArrivals on the notifications one life of the process takes.         *)
(***************************************************************************)
EXTENDS Naturals, Sequences

CONSTANTS
    Notification,   \* the notifications Icinga may post
    Configs,        \* the settings config.json may hold
    MaxArrivals     \* bound: notifications between two restarts

\* A rate of 0 would queue every notification and start none.
ASSUME ConfigsAssumption ==
    \A c \in Configs : /\ c.rate \in Nat \ {0}
                       /\ c.enabled \in BOOLEAN
                       /\ c.overrate \in {"queue", "drop"}
ASSUME ArrivalsAssumption == MaxArrivals \in Nat

VARIABLES
    config,         \* config.getConfiguration().api.rateLimit, read when the server starts
    initialised,    \* routes/api/icinga.js: init
    reqCurr,        \* _ratelimit_req_curr
    queue,          \* _queue
    flushTimer,     \* _ratelimit_timer is not null
    throttleTimer,  \* _ratelimit_throttle_timer is not null
    accepted,       \* history: the notifications that were not dropped
    started,        \* history: those whose database query was sent
    dropped,        \* history: how many were dropped
    burst           \* history: started since the last timer callback began

limiterVars == <<config, initialised, reqCurr, queue, flushTimer, throttleTimer,
                 accepted, started, dropped, burst>>

Rate == config.rate
Enabled == config.enabled
Overrate == config.overrate

Arrived == Len(accepted) + dropped

Init ==
    /\ config \in Configs
    /\ initialised = FALSE
    /\ reqCurr = 0
    /\ queue = <<>>
    /\ flushTimer = FALSE
    /\ throttleTimer = FALSE
    /\ accepted = <<>>
    /\ started = <<>>
    /\ dropped = 0
    /\ burst = 0
----------------------------------------------------------------------------
(* _notification_rate_limited, with the caller's step when it returns false *)

\* The notification is within the rate: the caller sends its query.
StartNow(n) ==
    /\ accepted' = Append(accepted, n)
    /\ started' = Append(started, n)
    /\ burst' = burst + 1
    /\ UNCHANGED <<queue, throttleTimer, dropped>>

Drop ==
    /\ dropped' = dropped + 1
    /\ UNCHANGED <<queue, throttleTimer, accepted, started, burst>>

\* Over the rate: into the queue, and the throttle timer replaces the flush timer.
Enqueue(n) ==
    /\ queue' = Append(queue, n)
    /\ accepted' = Append(accepted, n)
    /\ throttleTimer' = TRUE
    /\ UNCHANGED <<started, dropped, burst>>

\* Fault: a start of the throttle timer leaves the flush timer running.
Admit_KeepsFlushTimer(n, flush) ==
    IF ~Enabled
    THEN StartNow(n) /\ flushTimer' = flush /\ UNCHANGED reqCurr
    ELSE /\ reqCurr' = reqCurr + 1
         /\ flushTimer' = flush
         /\ IF reqCurr + 1 < Rate THEN StartNow(n)
            ELSE IF Overrate = "drop" THEN Drop ELSE Enqueue(n)

\* Fault: the counter is compared with > instead of >=.
Admit_OneTooMany(n, flush) ==
    IF ~Enabled
    THEN StartNow(n) /\ flushTimer' = flush /\ UNCHANGED reqCurr
    ELSE /\ reqCurr' = reqCurr + 1
         /\ IF reqCurr + 1 <= Rate THEN StartNow(n) /\ flushTimer' = flush
            ELSE IF Overrate = "drop" THEN Drop /\ flushTimer' = flush
            ELSE Enqueue(n) /\ flushTimer' = FALSE

\* flush is the flush timer as the function finds it: on the first request
\* the route has just started it.
Admit(n, flush) ==
    \/ /\ ~Enabled
       /\ StartNow(n)
       /\ flushTimer' = flush
       /\ UNCHANGED reqCurr
    \/ /\ Enabled
       /\ reqCurr' = reqCurr + 1
       /\ \/ /\ reqCurr + 1 < Rate
             /\ StartNow(n)
             /\ flushTimer' = flush
          \/ /\ reqCurr + 1 >= Rate
             /\ Overrate = "drop"
             /\ Drop
             /\ flushTimer' = flush
          \/ /\ reqCurr + 1 >= Rate
             /\ Overrate # "drop"
             /\ Enqueue(n)
             /\ flushTimer' = FALSE

\* Fault: the first request does not start the flush timer.
FlushAfterInit_Never == flushTimer

\* The flush timer once the route has run init() for the first request.
FlushAfterInit == IF initialised THEN flushTimer ELSE Enabled
----------------------------------------------------------------------------
\* A first request that reaches init() and not the limiter: its body is no
\* object, or the aggregation keeps it.
InitHandler ==
    /\ ~initialised
    /\ initialised' = TRUE
    /\ flushTimer' = Enabled
    /\ UNCHANGED <<config, reqCurr, queue, throttleTimer, accepted, started, dropped, burst>>

\* A notification reaches the limiter.
Request(n) ==
    /\ Arrived < MaxArrivals
    /\ initialised' = TRUE
    /\ Admit(n, FlushAfterInit)
    /\ UNCHANGED config

\* _ratelimit_timer_callback
FlushTick ==
    /\ flushTimer
    /\ reqCurr' = 0
    /\ burst' = 0
    /\ UNCHANGED <<config, initialised, queue, flushTimer, throttleTimer,
                   accepted, started, dropped>>

\* How many notifications one run of the throttle callback takes from the queue.
BatchSize == IF Len(queue) < Rate THEN Len(queue) ELSE Rate

\* Fault: the newest notifications are taken (pop for shift).
WorkOff_Newest ==
    /\ started' = started \o SubSeq(queue, Len(queue) - BatchSize + 1, Len(queue))
    /\ queue' = SubSeq(queue, 1, Len(queue) - BatchSize)
    /\ burst' = BatchSize

\* The loop of the throttle callback.
WorkOff ==
    /\ started' = started \o SubSeq(queue, 1, BatchSize)
    /\ queue' = SubSeq(queue, BatchSize + 1, Len(queue))
    /\ burst' = BatchSize

\* Fault: the counter is not lowered for each notification processed.
AfterBatch_NoDecrement ==
    IF BatchSize < Rate
    THEN reqCurr' = 0 /\ throttleTimer' = FALSE /\ flushTimer' = TRUE
    ELSE UNCHANGED <<reqCurr, throttleTimer, flushTimer>>

\* Fault: the counter is lowered by the rate and not reset at the end.
AfterBatch_LowersByRate ==
    /\ reqCurr' = reqCurr - Rate
    /\ IF BatchSize < Rate
       THEN throttleTimer' = FALSE /\ flushTimer' = TRUE
       ELSE UNCHANGED <<throttleTimer, flushTimer>>

\* Fault: the counter is lowered, and not reset at the end.
AfterBatch_NoReset ==
    /\ reqCurr' = reqCurr - BatchSize
    /\ IF BatchSize < Rate
       THEN throttleTimer' = FALSE /\ flushTimer' = TRUE
       ELSE UNCHANGED <<throttleTimer, flushTimer>>

\* Fault: the throttle timer stops after a full batch too (<= for <).
AfterBatch_StopsEarly ==
    reqCurr' = 0 /\ throttleTimer' = FALSE /\ flushTimer' = TRUE

\* The counter is lowered once per notification; a partial batch ends the
\* throttling.
AfterBatch ==
    IF BatchSize < Rate
    THEN reqCurr' = 0 /\ throttleTimer' = FALSE /\ flushTimer' = TRUE
    ELSE reqCurr' = reqCurr - BatchSize /\ UNCHANGED <<throttleTimer, flushTimer>>

\* _ratelimit_throttle_timer_callback
ThrottleTick ==
    /\ throttleTimer
    /\ WorkOff
    /\ AfterBatch
    /\ UNCHANGED <<config, initialised, accepted, dropped>>

\* systemd restarts the server (Restart=always): everything but config.json is
\* in memory.
Restart ==
    /\ initialised
    /\ config' \in Configs
    /\ initialised' = FALSE
    /\ reqCurr' = 0
    /\ queue' = <<>>
    /\ flushTimer' = FALSE
    /\ throttleTimer' = FALSE
    /\ accepted' = <<>>
    /\ started' = <<>>
    /\ dropped' = 0
    /\ burst' = 0

Next ==
    \/ InitHandler
    \/ \E n \in Notification : Request(n)
    \/ FlushTick
    \/ ThrottleTick
    \/ Restart

LimiterSafety == Init /\ [][Next]_limiterVars

\* setInterval keeps calling back as long as the event loop turns; nothing
\* obliges Icinga to post, or the process to crash.
LimiterSpec == LimiterSafety /\ WF_limiterVars(ThrottleTick) /\ WF_limiterVars(FlushTick)
----------------------------------------------------------------------------
TypeOK ==
    /\ config \in Configs
    /\ initialised \in BOOLEAN
    /\ reqCurr \in Nat
    /\ queue \in Seq(Notification)
    /\ flushTimer \in BOOLEAN
    /\ throttleTimer \in BOOLEAN
    /\ accepted \in Seq(Notification)
    /\ started \in Seq(Notification)
    /\ dropped \in Nat
    /\ burst \in Nat

\* From the first request on exactly one of the two timers runs: with none the
\* counter would never come back, with both a flush would forget the backlog.
OneTimerRuns ==
    IF Enabled /\ initialised
    THEN flushTimer # throttleTimer
    ELSE ~flushTimer /\ ~throttleTimer

\* While the throttle timer runs, the counter stands at the last free slot plus
\* the backlog, whatever mix of arrivals and callbacks came before: that is why
\* no arrival finds a free slot while older notifications wait.  Otherwise no
\* notification waits.
CounterMatchesBacklog ==
    /\ throttleTimer => reqCurr = Rate - 1 + Len(queue)
    /\ ~throttleTimer => queue = <<>>

\* No notification the limiter accepted is lost, repeated or overtaken by a
\* later one: what was started, followed by the queue, is what was accepted.
NoLossNoOvertaking == accepted = started \o queue

MaxBurst == IF Rate > 2 * (Rate - 1) THEN Rate ELSE 2 * (Rate - 1)

\* Between two timer callbacks the server sends at most MaxBurst queries (the
\* batch the first callback works off included): nearly twice the configured
\* rate, since a last, partial batch of Rate - 1 gives the whole counter back.
BurstBounded == Enabled => burst <= MaxBurst

\* The part of the quota that is used up.
Spent == IF reqCurr < Rate - 1 THEN reqCurr ELSE Rate - 1

\* The counter against the queries really sent: in a period that began with a
\* partial batch up to Rate - 1 of them are not on the counter.
CounterMatchesBurst ==
    /\ ~initialised => reqCurr = 0
    /\ Overrate = "drop" => ~throttleTimer
    /\ Overrate # "drop" /\ ~throttleTimer => reqCurr < Rate
    /\ Enabled /\ ~throttleTimer => burst \in Spent..(Spent + Rate - 1)
    /\ Enabled /\ throttleTimer => BurstBounded

\* The inductive invariant behind the safety properties.
LimiterInv ==
    /\ TypeOK
    /\ OneTimerRuns
    /\ CounterMatchesBacklog
    /\ NoLossNoOvertaking
    /\ CounterMatchesBurst

\* A notification is queued or dropped only when the quota of its period is
\* used up or older ones wait.
RefusedOnlyOverRate ==
    [][Arrived' > Arrived /\ started' = started
           => throttleTimer \/ burst >= Rate - 1]_limiterVars

\* Every notification the limiter accepts is started in the end, unless the
\* process restarts first.
EveryAcceptedStarts ==
    \A i \in 1..MaxArrivals :
        (Len(accepted) >= i) ~> (Len(started) >= i \/ ~initialised)

\* The quota comes back after every overrun.
QuotaReturns == (reqCurr >= Rate) ~> (reqCurr < Rate)

\* In every configuration, what the limiter does not drop goes through a
\* lossless FIFO line that keeps draining.
Fifo == INSTANCE FifoDelivery
            WITH Item <- Notification, waiting <- queue, done <- started

ImplementsFifo == Fifo!FifoSpec
====
