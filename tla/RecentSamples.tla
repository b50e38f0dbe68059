---- MODULE RecentSamples ----
(***************************************************************************)
(* What the metric storage promises: of every metric the Depth samples of  *)
(* it stored last, newest first, and that in any order of storing.         *)
(***************************************************************************)
EXTENDS Naturals, Sequences

CONSTANTS
    Metric,
    SamplesOf,  \* metric -> the samples of it there may be
    Depth       \* how many samples of a metric are kept, at least one

VARIABLE recent     \* metric -> its samples, newest first

Init == recent = [m \in Metric |-> <<>>]

\* s, then the samples of before but for the one that falls out.
Newest(s, before) ==
    <<s>> \o SubSeq(before, 1, IF Len(before) < Depth THEN Len(before) ELSE Depth - 1)

Store(m, s) == recent' = [recent EXCEPT ![m] = Newest(s, @)]

Next == \E m \in Metric : \E s \in SamplesOf[m] : Store(m, s)

Spec == Init /\ [][Next]_recent
====
