---- MODULE FifoDelivery ----
(***************************************************************************)
(* What the rate limiter of the notification server promises: items leave  *)
(* in the order they came in, an item is delivered at once only when none  *)
(* is waiting, and nothing but a restart of the process loses a waiting    *)
(* item.  RateLimiter implements this specification.                       *)
(***************************************************************************)
EXTENDS Naturals, Sequences

CONSTANT Item

VARIABLES waiting,   \* the items accepted and not delivered, oldest first
          done       \* the items delivered since the process started

fifoVars == <<waiting, done>>

FifoInit == waiting = <<>> /\ done = <<>>

\* An item joins the end of the line.
Enter(i) == waiting' = Append(waiting, i) /\ UNCHANGED done

\* With nobody in the line an item may go straight through.
PassThrough(i) ==
    /\ waiting = <<>>
    /\ done' = Append(done, i)
    /\ UNCHANGED waiting

\* Some items at the head of the line are delivered.
Drain ==
    \E k \in 1..Len(waiting) :
        /\ done' = done \o SubSeq(waiting, 1, k)
        /\ waiting' = SubSeq(waiting, k + 1, Len(waiting))

\* The process restarts and forgets the line.
Forget == waiting' = <<>> /\ done' = <<>>

FifoNext ==
    \/ \E i \in Item : Enter(i) \/ PassThrough(i)
    \/ Drain
    \/ Forget

FifoSafety == FifoInit /\ [][FifoNext]_fifoVars

FifoSpec == FifoSafety /\ WF_fifoVars(Drain)
====
