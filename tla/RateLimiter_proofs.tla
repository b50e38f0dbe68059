---- MODULE RateLimiter_proofs ----
(***************************************************************************)
(* Proofs about RateLimiter for every set of notifications, every set of   *)
(* configurations (any rate above zero, both settings of overrate, enabled *)
(* or not) and every MaxArrivals.                                          *)
(***************************************************************************)
EXTENDS RateLimiter, DataLemmas, SequenceTheorems, TLAPS

\* Type correctness in two parts: Zenon proves the Boolean one, SMT the other.
Flags ==
    /\ config \in Configs
    /\ initialised \in BOOLEAN
    /\ flushTimer \in BOOLEAN
    /\ throttleTimer \in BOOLEAN

Counts == reqCurr \in Nat /\ dropped \in Nat /\ burst \in Nat

Lists ==
    /\ queue \in Seq(Notification)
    /\ accepted \in Seq(Notification)
    /\ started \in Seq(Notification)

\* The types in parts, so that a step need mention only those it changes.
LEMMA TypeParts == TypeOK <=> Flags /\ Counts /\ Lists
  BY Zenon DEF TypeOK, Flags, Counts, Lists

\* The settings of the running server.
SettingsType ==
    /\ Rate \in Nat \ {0}
    /\ Enabled \in BOOLEAN
    /\ Overrate \in {"queue", "drop"}

SettingsKept == Rate' = Rate /\ Enabled' = Enabled /\ Overrate' = Overrate

\* Every configuration sets them within their types,
LEMMA ConfigType == config \in Configs => SettingsType
  BY ConfigsAssumption, Zenon DEF SettingsType, Rate, Enabled, Overrate

\* and they change with the configuration only.
LEMMA ConfigKept == UNCHANGED config => SettingsKept
  BY DEF SettingsKept, Rate, Enabled, Overrate

\* What the throttle timer starts at once is no more than the rate, and less only
\* if it is all of the queue.
LEMMA BatchType ==
    TypeOK => /\ BatchSize \in 0..Len(queue)
              /\ BatchSize <= Rate
              /\ BatchSize < Rate => BatchSize = Len(queue)
  BY ConfigType DEF TypeOK, BatchSize, SettingsType

\* No notification has arrived and no timer runs before the first request.
LEMMA InitEstablishesInv == Init => LimiterInv
<1> SUFFICES ASSUME Init PROVE LimiterInv
  OBVIOUS
<1> USE DEF Init
<1>0. SettingsType
  BY ConfigType
<1> USE <1>0 DEF SettingsType
<1>1. TypeOK
  BY EmptySeq DEF TypeOK
<1>2. OneTimerRuns /\ CounterMatchesBacklog
  BY DEF OneTimerRuns, CounterMatchesBacklog
<1>3. NoLossNoOvertaking
  BY DEF NoLossNoOvertaking
<1>4. CounterMatchesBurst
  BY DEF CounterMatchesBurst, Spent
<1>5. QED
  BY <1>1, <1>2, <1>3, <1>4 DEF LimiterInv

\* The limiter lets a notification through: nothing waits, so it overtakes nothing.
LEMMA StartKeepsInv ==
    ASSUME LimiterInv, NEW n \in Notification, StartNow(n),
           UNCHANGED config, initialised' = TRUE, flushTimer' = FlushAfterInit,
           \/ ~Enabled /\ UNCHANGED reqCurr
           \/ Enabled /\ reqCurr + 1 < Rate /\ reqCurr' = reqCurr + 1
    PROVE  LimiterInv'
<1> USE DEF LimiterInv, StartNow, FlushAfterInit
<1>0. SettingsType /\ SettingsKept
  BY ConfigType, ConfigKept DEF TypeOK
<1> USE <1>0 DEF SettingsType, SettingsKept
<1>1. TypeOK'
  BY AppendProperties DEF TypeOK
<1>2. ~throttleTimer /\ queue = <<>>
  BY DEF OneTimerRuns, CounterMatchesBacklog, TypeOK
<1>3. OneTimerRuns' /\ CounterMatchesBacklog'
  BY <1>2 DEF OneTimerRuns, CounterMatchesBacklog, TypeOK
<1>4. NoLossNoOvertaking'
  <2>1. accepted = started
    BY <1>2, ConcatEmptySeq DEF NoLossNoOvertaking, TypeOK
  <2>2. started' \o queue' = started'
    BY <1>1, <1>2, ConcatEmptySeq DEF TypeOK
  <2>3. QED
    BY <2>1, <2>2 DEF NoLossNoOvertaking
<1>5. CounterMatchesBurst'
  BY <1>2 DEF CounterMatchesBurst, Spent, TypeOK, OneTimerRuns
<1>6. QED
  BY <1>1, <1>3, <1>4, <1>5

\* A request over the rate that is dropped is counted and nothing else.
LEMMA DropKeepsInv ==
    ASSUME LimiterInv, Enabled, Drop, Overrate = "drop", reqCurr + 1 >= Rate,
           UNCHANGED config, initialised' = TRUE, flushTimer' = FlushAfterInit, reqCurr' = reqCurr + 1
    PROVE  LimiterInv'
<1> USE DEF LimiterInv, Drop, FlushAfterInit
<1>0. SettingsType /\ SettingsKept
  BY ConfigType, ConfigKept DEF TypeOK
<1> USE <1>0 DEF SettingsType, SettingsKept
<1>1. TypeOK'
  <2>1. Flags'
    BY TypeParts, Zenon DEF Flags
  <2>2. Counts' /\ Lists'
    BY TypeParts DEF Counts, Lists
  <2>3. QED
    BY <2>1, <2>2, Zenon DEF TypeOK, Flags, Counts, Lists
<1>2. ~throttleTimer
  BY DEF CounterMatchesBurst
<1>3. OneTimerRuns' /\ CounterMatchesBacklog'
  BY <1>2 DEF OneTimerRuns, CounterMatchesBacklog, TypeOK
<1>4. NoLossNoOvertaking'
  BY DEF NoLossNoOvertaking
<1>5. CounterMatchesBurst'
  BY <1>2 DEF CounterMatchesBurst, Spent, TypeOK
<1>6. QED
  BY <1>1, <1>3, <1>4, <1>5

\* A notification joins the queue, the first one starting the throttle timer.
LEMMA EnqueueKeepsInv ==
    ASSUME LimiterInv, NEW n \in Notification, Enabled, Enqueue(n),
           Overrate # "drop", reqCurr + 1 >= Rate,
           UNCHANGED config, initialised' = TRUE, flushTimer' = FALSE, reqCurr' = reqCurr + 1
    PROVE  LimiterInv'
<1> USE DEF LimiterInv, Enqueue
<1>0. SettingsType /\ SettingsKept
  BY ConfigType, ConfigKept DEF TypeOK
<1> USE <1>0 DEF SettingsType, SettingsKept
<1>1. TypeOK'
  <2>1. Flags'
    BY TypeParts, Zenon DEF Flags
  <2>2. Counts' /\ Lists'
    BY TypeParts, AppendProperties DEF Counts, Lists
  <2>3. QED
    BY <2>1, <2>2, Zenon DEF TypeOK, Flags, Counts, Lists
<1>2. OneTimerRuns'
  BY DEF OneTimerRuns
<1>3. CounterMatchesBacklog'
  <2>1. Len(queue') = Len(queue) + 1
    BY AppendProperties DEF TypeOK
  <2>2. reqCurr = Rate - 1 + Len(queue)
    <3>1. CASE throttleTimer
      BY <3>1 DEF CounterMatchesBacklog
    <3>2. CASE ~throttleTimer
      <4>1. reqCurr = Rate - 1
        BY <3>2 DEF CounterMatchesBurst, TypeOK
      <4>2. Len(queue) = 0
        BY <3>2 DEF CounterMatchesBacklog
      <4>3. QED
        BY <4>1, <4>2
    <3>3. QED
      BY <3>1, <3>2
  <2>3. QED
    BY <2>1, <2>2 DEF CounterMatchesBacklog, TypeOK
<1>4. NoLossNoOvertaking'
  <2>1. Append(queue, n) = queue \o <<n>> /\ Append(accepted, n) = accepted \o <<n>>
    BY AppendIsConcat DEF TypeOK
  <2>2. (started \o queue) \o <<n>> = started \o (queue \o <<n>>)
    BY ConcatAssociative DEF TypeOK
  <2>3. QED
    BY <2>1, <2>2 DEF NoLossNoOvertaking
<1>5. CounterMatchesBurst'
  BY DEF CounterMatchesBurst, Spent, BurstBounded, MaxBurst, TypeOK
<1>6. QED
  BY <1>1, <1>2, <1>3, <1>4, <1>5

\* The operations, one by one, keep the limiter's invariant.
LEMMA RequestKeepsInv ==
    ASSUME LimiterInv, NEW n \in Notification, Request(n)
    PROVE  LimiterInv'
<1> USE DEF Request, Admit
<1>0. SettingsType
  BY ConfigType DEF LimiterInv, TypeOK
<1> USE <1>0 DEF SettingsType
<1>1. CASE ~Enabled
  BY <1>1, StartKeepsInv
<1>2. CASE Enabled /\ reqCurr + 1 < Rate /\ StartNow(n) /\ flushTimer' = FlushAfterInit
  BY <1>2, StartKeepsInv
<1>3. CASE Enabled /\ reqCurr + 1 >= Rate /\ Overrate = "drop"
  BY <1>3, DropKeepsInv DEF LimiterInv, TypeOK
<1>4. CASE Enabled /\ reqCurr + 1 >= Rate /\ Overrate # "drop"
  <2>1. ~(reqCurr + 1 < Rate)
    BY <1>4 DEF LimiterInv, TypeOK
  <2>2. Enqueue(n) /\ flushTimer' = FALSE
    BY <1>4, <2>1, Zenon
  <2>3. QED
    BY <1>4, <2>2, EnqueueKeepsInv
<1>5. QED
  BY <1>1, <1>2, <1>3, <1>4

\* The throttle timer works off a batch, and hands over to the flush timer when it
\* is not a full one.
LEMMA ThrottleTickKeepsInv ==
    ASSUME LimiterInv, ThrottleTick
    PROVE  LimiterInv'
<1> USE DEF LimiterInv, ThrottleTick, WorkOff, AfterBatch
<1>0. SettingsType /\ SettingsKept
  BY ConfigType, ConfigKept DEF TypeOK
<1> USE <1>0 DEF SettingsType, SettingsKept
<1> DEFINE batch == SubSeq(queue, 1, BatchSize)
           rest == SubSeq(queue, BatchSize + 1, Len(queue))
<1>1. /\ BatchSize \in 0..Len(queue)
      /\ BatchSize <= Rate
      /\ BatchSize < Rate => BatchSize = Len(queue)
  BY BatchType
<1>2. /\ batch \in Seq(Notification) /\ rest \in Seq(Notification)
      /\ Len(rest) = Len(queue) - BatchSize
      /\ batch \o rest = queue
  BY <1>1, CutAndJoin DEF TypeOK
<1>3. Enabled /\ initialised /\ ~flushTimer /\ Overrate # "drop" /\ Len(queue) \in Nat
  <2>1. Enabled /\ initialised /\ ~flushTimer
    BY TypeParts, Zenon DEF OneTimerRuns, Flags
  <2>2. Overrate # "drop"
    BY DEF CounterMatchesBurst
  <2>3. QED
    BY <2>1, <2>2 DEF TypeOK
<1>4. reqCurr = Rate - 1 + Len(queue)
  BY DEF CounterMatchesBacklog
<1>5. reqCurr' \in Nat /\ started' \in Seq(Notification)
  <2>1. started' \in Seq(Notification)
    BY <1>2, ConcatProperties DEF TypeOK
  <2>2. reqCurr' = 0 \/ reqCurr' = reqCurr - BatchSize
    OBVIOUS
  <2>3. QED
    BY <1>1, <1>3, <1>4, <2>1, <2>2 DEF TypeOK
<1>6. TypeOK'
  <2>1. Flags'
    BY TypeParts, Zenon DEF Flags
  <2>2. Counts' /\ Lists'
    BY <1>1, <1>2, <1>3, <1>5, TypeParts DEF Counts, Lists, BatchSize
  <2>3. QED
    BY <2>1, <2>2, Zenon DEF TypeOK, Flags, Counts, Lists
<1>7. OneTimerRuns'
  BY <1>3 DEF OneTimerRuns, TypeOK
<1>8. CounterMatchesBacklog'
  <2>1. CASE BatchSize < Rate
    <3>1. Len(rest) = 0
      BY <1>1, <1>2, <1>3, <2>1
    <3>2. rest = <<>>
      BY <1>2, <3>1, EmptySeq
    <3>3. QED
      BY <2>1, <3>2 DEF CounterMatchesBacklog
  <2>2. CASE ~(BatchSize < Rate)
    <3>1. BatchSize = Rate /\ BatchSize \in Nat
      BY <1>1, <1>3, <2>2
    <3>2. throttleTimer' = TRUE
      BY <2>2, <3>1
    <3>3. queue' = rest /\ reqCurr' = reqCurr - BatchSize /\ Rate' = Rate
      BY <2>2
    <3>4. Len(queue') = Len(queue) - BatchSize
      BY <1>2, <3>3
    <3>5. reqCurr' = Rate' - 1 + Len(queue')
      BY <1>1, <1>3, <1>4, <3>1, <3>3, <3>4
    <3>6. QED
      BY <3>2, <3>5 DEF CounterMatchesBacklog
  <2>3. QED
    BY <2>1, <2>2
<1>9. NoLossNoOvertaking'
  <2>1. started \in Seq(Notification) /\ queue' = rest /\ started' = started \o batch
    BY DEF TypeOK
  <2>2. accepted' = started \o (batch \o rest)
    BY <1>2 DEF NoLossNoOvertaking
  <2>3. QED
    <3> HIDE DEF batch, rest, ThrottleTick, WorkOff
    <3>1. (started \o batch) \o rest = started \o (batch \o rest)
      <4>1. /\ started \in Seq(Notification)
            /\ batch \in Seq(Notification)
            /\ rest \in Seq(Notification)
        BY <1>2, <2>1
      <4>2. \A s, t, u \in Seq(Notification) : (s \o t) \o u = s \o (t \o u)
        BY ConcatAssociative
      <4>3. QED
        BY <4>1, <4>2, Zenon
    <3>2. QED
      BY <2>1, <2>2, <3>1 DEF NoLossNoOvertaking
<1>10. CounterMatchesBurst'
  <2>1. CASE BatchSize < Rate
    <3>1. ~throttleTimer' /\ reqCurr' = 0 /\ burst' = BatchSize /\ initialised'
      BY <1>3, <2>1
    <3>2. BatchSize \in 0..(Rate - 1)
      BY <1>1, <1>3, <2>1
    <3>3. Spent' = 0
      BY <3>1 DEF Spent
    <3>4. QED
      BY <1>3, <3>1, <3>2, <3>3 DEF CounterMatchesBurst
  <2>2. CASE ~(BatchSize < Rate)
    <3>1. throttleTimer' /\ burst' = Rate /\ initialised'
      BY <1>1, <1>3, <2>2
    <3>2. BurstBounded'
      BY <3>1 DEF BurstBounded, MaxBurst
    <3>3. QED
      BY <1>3, <3>1, <3>2 DEF CounterMatchesBurst
  <2>3. QED
    BY <2>1, <2>2
<1>11. QED
  BY <1>6, <1>7, <1>8, <1>9, <1>10

\* A first request that stops short of the limiter still initialises the handler.
LEMMA InitHandlerKeepsInv ==
    ASSUME LimiterInv, InitHandler
    PROVE  LimiterInv'
<1> USE DEF LimiterInv, InitHandler
<1>0. SettingsType /\ SettingsKept
  BY ConfigType, ConfigKept DEF TypeOK
<1> USE <1>0 DEF SettingsType, SettingsKept
<1>1. TypeOK'
  BY Zenon DEF TypeOK
<1>2. ~throttleTimer
  BY Zenon DEF TypeOK, OneTimerRuns
<1>3. OneTimerRuns' /\ CounterMatchesBacklog' /\ NoLossNoOvertaking'
  BY <1>2, Zenon DEF OneTimerRuns, CounterMatchesBacklog, NoLossNoOvertaking
<1>4. CounterMatchesBurst'
  BY <1>2 DEF CounterMatchesBurst, Spent
<1>5. QED
  BY <1>1, <1>3, <1>4

\* The flush timer clears the counter of requests.
LEMMA FlushTickKeepsInv ==
    ASSUME LimiterInv, FlushTick
    PROVE  LimiterInv'
<1> USE DEF LimiterInv, FlushTick
<1>0. SettingsType /\ SettingsKept
  BY ConfigType, ConfigKept DEF TypeOK
<1> USE <1>0 DEF SettingsType, SettingsKept
<1>1. TypeOK'
  <2>1. Flags' /\ Counts' /\ Lists'
    BY TypeParts, Zenon DEF Flags, Counts, Lists
  <2>2. 0 \in Nat
    OBVIOUS
  <2>3. QED
    BY <2>1, <2>2, Zenon DEF TypeOK, Flags, Counts, Lists
<1>2. ~throttleTimer
  BY TypeParts, Zenon DEF OneTimerRuns, Flags
<1>3. OneTimerRuns' /\ CounterMatchesBacklog' /\ NoLossNoOvertaking'
  BY <1>2, Zenon DEF OneTimerRuns, CounterMatchesBacklog, NoLossNoOvertaking
<1>4. CounterMatchesBurst'
  BY <1>2 DEF CounterMatchesBurst, Spent
<1>5. QED
  BY <1>1, <1>3, <1>4

\* Every step of the limiter keeps the inductive invariant.
LEMMA NextKeepsInv == LimiterInv /\ [Next]_limiterVars => LimiterInv'
<1> SUFFICES ASSUME LimiterInv, [Next]_limiterVars PROVE LimiterInv'
  OBVIOUS
<1>1. CASE InitHandler
  BY <1>1, InitHandlerKeepsInv
<1>2. ASSUME NEW n \in Notification, Request(n) PROVE LimiterInv'
  BY <1>2, RequestKeepsInv
<1>3. CASE FlushTick
  BY <1>3, FlushTickKeepsInv
<1>4. CASE ThrottleTick
  BY <1>4, ThrottleTickKeepsInv
<1>5. CASE Restart
  <2>1. Init'
    BY <1>5 DEF Restart, Init
  <2>2. QED
    BY <2>1, InitEstablishesInv, PTL
<1>6. CASE UNCHANGED limiterVars
  BY <1>6 DEF limiterVars, Rate, Enabled, Overrate, LimiterInv, TypeOK, OneTimerRuns, CounterMatchesBacklog,
              NoLossNoOvertaking, CounterMatchesBurst, Spent, BurstBounded, MaxBurst
<1>7. QED
  BY <1>1, <1>2, <1>3, <1>4, <1>5, <1>6 DEF Next
----------------------------------------------------------------------------
\* The inductive invariant holds in every reachable state.
THEOREM LimiterInvariant == LimiterSafety => []LimiterInv
  BY InitEstablishesInv, NextKeepsInv, PTL DEF LimiterSafety

\* The variables keep their types; in particular the counter never falls below
\* zero, although the throttle callback lowers it once per notification.
THEOREM TypeCorrect == LimiterSafety => []TypeOK
<1>1. LimiterInv => TypeOK
  BY DEF LimiterInv
<1>2. QED
  BY <1>1, LimiterInvariant, PTL

\* Exactly one of the flush and throttle timers runs after the first request.
THEOREM OneTimer == LimiterSafety => []OneTimerRuns
<1>1. LimiterInv => OneTimerRuns
  BY DEF LimiterInv
<1>2. QED
  BY <1>1, LimiterInvariant, PTL

\* Whatever the rate and the interleaving of arrivals with timer callbacks, the
\* limiter neither loses nor repeats nor reorders what it accepted.
THEOREM FifoOrder == LimiterSafety => []NoLossNoOvertaking
<1>1. LimiterInv => NoLossNoOvertaking
  BY DEF LimiterInv
<1>2. QED
  BY <1>1, LimiterInvariant, PTL

\* The counter is the quota plus the backlog while the throttle timer runs.
THEOREM BacklogAccounting == LimiterSafety => []CounterMatchesBacklog
<1>1. LimiterInv => CounterMatchesBacklog
  BY DEF LimiterInv
<1>2. QED
  BY <1>1, LimiterInvariant, PTL

\* At most max(Rate, 2 * (Rate - 1)) queries are sent per timer period.
THEOREM BurstBound == LimiterSafety => []BurstBounded
<1>1. LimiterInv => BurstBounded
  BY ConfigType DEF SettingsType, LimiterInv, TypeOK, CounterMatchesBurst, Spent, BurstBounded, MaxBurst
<1>2. QED
  BY <1>1, LimiterInvariant, PTL

\* A notification is queued or dropped only when the quota is used up or older
\* ones wait.
THEOREM RefusalJustified == LimiterSafety => RefusedOnlyOverRate
<1>1. LimiterInv /\ [Next]_limiterVars
        => [Arrived' > Arrived /\ started' = started
              => throttleTimer \/ burst >= Rate - 1]_limiterVars
  <2> SUFFICES ASSUME LimiterInv, Next, Arrived' > Arrived, started' = started,
                      ~throttleTimer
               PROVE  burst >= Rate - 1
    OBVIOUS
  <2> USE DEF LimiterInv
  <2>0. SettingsType
    BY ConfigType DEF TypeOK
  <2> USE <2>0 DEF SettingsType
  <2>1. Arrived \in Nat
    BY DEF Arrived, TypeOK
  <2>2. PICK n \in Notification : Request(n)
    <3>1. CASE InitHandler
      BY <2>1, <3>1 DEF InitHandler, Arrived
    <3>2. CASE FlushTick
      BY <2>1, <3>2 DEF FlushTick, Arrived
    <3>3. CASE ThrottleTick
      BY <3>3 DEF ThrottleTick, WorkOff
    <3>4. CASE Restart
      BY <2>1, <3>4 DEF Restart, Arrived
    <3>5. QED
      BY <3>1, <3>2, <3>3, <3>4 DEF Next
  <2>3. Enabled /\ reqCurr + 1 >= Rate
    <3>1. ~StartNow(n)
      <4>1. Len(Append(started, n)) = Len(started) + 1 /\ Len(started) \in Nat
        BY AppendProperties DEF TypeOK
      <4>2. QED
        BY <4>1 DEF StartNow
    <3>2. QED
      BY <2>2, <3>1, Zenon DEF Request, Admit
  <2>4. QED
    BY <2>3 DEF CounterMatchesBurst, Spent, TypeOK
<1>2. QED
  BY <1>1, LimiterInvariant, PTL DEF LimiterSafety, RefusedOnlyOverRate
----------------------------------------------------------------------------
\* A notification the limiter takes enters the line, or passes an empty one.
LEMMA RequestImplementsFifo ==
    ASSUME LimiterInv, NEW n \in Notification, Request(n)
    PROVE  [Fifo!FifoNext]_(Fifo!fifoVars)
<1> USE DEF Request, Admit
<1>0. SettingsType
  BY ConfigType DEF LimiterInv, TypeOK
<1> USE <1>0 DEF SettingsType
<1>1. CASE StartNow(n) /\ (Enabled => reqCurr + 1 < Rate)
  <2>1. queue = <<>>
    <3>1. Enabled /\ throttleTimer => reqCurr + 1 >= Rate
      BY DEF LimiterInv, CounterMatchesBacklog, TypeOK
    <3>2. ~Enabled => ~throttleTimer
      BY DEF LimiterInv, OneTimerRuns
    <3>3. ~throttleTimer
      BY <1>1, <3>1, <3>2 DEF LimiterInv, TypeOK
    <3>4. QED
      BY <3>3 DEF LimiterInv, CounterMatchesBacklog
  <2>2. Fifo!PassThrough(n)
    BY <1>1, <2>1 DEF StartNow, Fifo!PassThrough
  <2>3. QED
    BY <2>2 DEF Fifo!FifoNext
<1>2. CASE Drop
  BY <1>2 DEF Drop, Fifo!fifoVars
<1>3. CASE Enqueue(n)
  <2>1. Fifo!Enter(n)
    BY <1>3 DEF Enqueue, Fifo!Enter
  <2>2. QED
    BY <2>1 DEF Fifo!FifoNext
<1>4. QED
  BY <1>1, <1>2, <1>3

\* The throttle callback takes a batch from the head of the line, or finds it empty.
LEMMA ThrottleTickImplementsFifo ==
    ASSUME LimiterInv, ThrottleTick
    PROVE  [Fifo!FifoNext]_(Fifo!fifoVars)
<1>0. SettingsType
  BY ConfigType DEF LimiterInv, TypeOK
<1> USE <1>0 DEF SettingsType
<1>1. BatchSize \in 0..Len(queue) /\ Len(queue) \in Nat
  BY BatchType DEF LimiterInv, TypeOK
<1>2. CASE BatchSize = 0
  <2>1. Len(queue) = 0
    BY <1>1, <1>2, BatchType DEF LimiterInv
  <2>2. queue = <<>>
    BY <2>1, EmptySeq DEF LimiterInv, TypeOK
  <2>3. SubSeq(queue, 1, 0) = <<>> /\ SubSeq(queue, 1, Len(queue)) = <<>>
    BY <2>1, SubSeqEmpty
  <2>4. started \o <<>> = started
    BY ConcatEmptySeq DEF LimiterInv, TypeOK
  <2>5. started' = started
    BY <1>2, <2>3, <2>4 DEF ThrottleTick, WorkOff
  <2>6. queue' = queue
    <3>1. BatchSize + 1 = 1
      BY <1>2
    <3>2. QED
      BY <2>2, <2>3, <3>1 DEF ThrottleTick, WorkOff
  <2>7. QED
    BY <2>5, <2>6 DEF Fifo!fifoVars
<1>3. CASE BatchSize # 0
  <2>1. BatchSize \in 1..Len(queue)
    BY <1>1, <1>3
  <2>2. Fifo!Drain
    BY <2>1 DEF ThrottleTick, WorkOff, Fifo!Drain
  <2>3. QED
    BY <2>2 DEF Fifo!FifoNext
<1>4. QED
  BY <1>2, <1>3

\* In every configuration the limiter's safety part implements the FIFO line:
\* what it does not drop leaves in the order it came.
THEOREM LimiterImplementsFifo == LimiterSafety => Fifo!FifoSafety
<1>1. Init => Fifo!FifoInit
  BY DEF Init, Fifo!FifoInit
<1>2. LimiterInv /\ [Next]_limiterVars => [Fifo!FifoNext]_(Fifo!fifoVars)
  <2> SUFFICES ASSUME LimiterInv, [Next]_limiterVars
               PROVE  [Fifo!FifoNext]_(Fifo!fifoVars)
    OBVIOUS
  <2>1. CASE InitHandler
    BY <2>1 DEF InitHandler, Fifo!fifoVars
  <2>2. ASSUME NEW n \in Notification, Request(n)
        PROVE  [Fifo!FifoNext]_(Fifo!fifoVars)
    BY <2>2, RequestImplementsFifo
  <2>3. CASE FlushTick
    BY <2>3 DEF FlushTick, Fifo!fifoVars
  <2>4. CASE ThrottleTick
    BY <2>4, ThrottleTickImplementsFifo
  <2>5. CASE Restart
    BY <2>5 DEF Restart, Fifo!Forget, Fifo!FifoNext
  <2>6. CASE UNCHANGED limiterVars
    BY <2>6 DEF limiterVars, Fifo!fifoVars
  <2>7. QED
    BY <2>1, <2>2, <2>3, <2>4, <2>5, <2>6 DEF Next
<1>3. QED
  BY <1>1, <1>2, LimiterInvariant, PTL DEF LimiterSafety, Fifo!FifoSafety
====
