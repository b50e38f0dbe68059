---- MODULE MetricStorage ----
(***************************************************************************)
(* The metric half of the Go backend (backend/src/ng_metric): the collectd *)
(* source writes value lists into MemoryMetricStorage, a ring of samples   *)
(* per metric, found by metric and by host, and RPC handlers read it.      *)
(*                                                                         *)
(* The collectd library calls Write on a goroutine per packet, in any      *)
(* order.  One hold of a lock is one step: of the storage's lock in the    *)
(* lookup and the two registrations, of the ring's in the write.  A reader *)
(* looks a ring up and then reads it under the ring's lock; as rings are   *)
(* never replaced, its result is a function of one state, and is an        *)
(* operator here.  Rings are pointers: rings and hostRings hold indices    *)
(* into heap.                                                              *)
(***************************************************************************)
EXTENDS Integers, Sequences, FiniteSets, Functions

CONSTANTS
    Writer,         \* goroutines that call CollectdMetricWriter.Write
    Metric,         \* metrics, by their strings
    HostOf,         \* the host of a metric (GetHost)
    Filtered,       \* metrics whose type the filter does not let through
    ValueLists,     \* the metrics a value list may hold values of, in order
    Times,          \* time stamps the senders give
    Capacity,       \* mem_storage.capacity
    MaxSamples      \* bound: values received

ASSUME CapacityAssumption == Capacity \in Nat \ {0}
ASSUME MetricsAssumption ==
    /\ DOMAIN HostOf = Metric
    /\ Filtered \subseteq Metric
    /\ ValueLists \subseteq Seq(Metric) \ {<<>>}
ASSUME TimeAssumption == Times \subseteq Nat /\ MaxSamples \in Nat
ASSUME WriterAssumption == "nobody" \notin Writer

Hosts == {HostOf[m] : m \in Metric}

\* A sample is known by its number among all that were received; the metric it
\* is of goes with it.
Sample == [id : 1..MaxSamples, metric : Metric, time : Times]
Empty == [id |-> 0, time |-> 0]

VARIABLES
    heap,       \* the MemoryMetricRings made so far: [slots, pos]
    rings,      \* metric -> its ring
    hostRings,  \* host -> metric -> ring
    mutex,      \* who holds CollectdMetricSource.mutex: a writer, or nobody
    write,      \* the Write each goroutine is in
    received    \* bound and names: the values received so far

vars == <<heap, rings, hostRings, mutex, write, received>>

Idle == [pc |-> "idle", values |-> <<>>, time |-> 0, id |-> 0,
         found |-> FALSE, hostFound |-> FALSE, ring |-> 0]
Nobody == "nobody"

NoEntries == [x \in {} |-> 0]

Init ==
    /\ heap = <<>>
    /\ rings = NoEntries
    /\ hostRings = NoEntries
    /\ mutex = Nobody
    /\ write = [w \in Writer |-> Idle]
    /\ received = 0
----------------------------------------------------------------------------
(* container/ring *)

Slots == 0..(Capacity - 1)

NewRing == [slots |-> [i \in Slots |-> Empty], pos |-> 0]

\* Fault: the ring does not wrap.
NextSlot_NoWrap(p) == p + 1

NextSlot(p) == (p + 1) % Capacity

\* What lies i elements back from the newest, round the ring.
Back(r, i) == r.slots[(r.pos - i) % Capacity]
----------------------------------------------------------------------------
(* CollectdMetricWriter.Write and MemoryMetricStorage.AddMetricValue *)

\* f with x mapped to v.
With(f, x, v) == [y \in DOMAIN f \cup {x} |-> IF y = x THEN v ELSE f[y]]

\* A packet arrives: its values are numbered, and its goroutine starts.
Receive(w, values, t) ==
    /\ write[w].pc = "idle"
    /\ received + Len(values) <= MaxSamples
    /\ received' = received + Len(values)
    /\ write' = [write EXCEPT ![w] = [Idle EXCEPT !.pc = "lock", !.values = values,
                                                  !.time = t, !.id = received + 1]]
    /\ UNCHANGED <<heap, rings, hostRings, mutex>>

\* Fault: Write does not take the mutex.
Lock_Nothing(w) ==
    /\ write[w].pc = "lock"
    /\ write' = [write EXCEPT ![w].pc = "value"]
    /\ UNCHANGED <<heap, rings, hostRings, mutex, received>>

Lock(w) ==
    /\ write[w].pc = "lock"
    /\ mutex = Nobody
    /\ mutex' = w
    /\ write' = [write EXCEPT ![w].pc = "value"]
    /\ UNCHANGED <<heap, rings, hostRings, received>>

\* The write w at its next value.
NextValue(w) == [write EXCEPT ![w].pc = "value", ![w].values = Tail(@), ![w].id = @ + 1]

\* A value the filter does not let through is passed over.
Skip(w) ==
    /\ write[w].pc = "value"
    /\ write[w].values # <<>>
    /\ Head(write[w].values) \in Filtered
    /\ write' = NextValue(w)
    /\ UNCHANGED <<heap, rings, hostRings, mutex, received>>

\* AddMetricValue looks up the ring and the host's rings.
Find(w) ==
    LET m == Head(write[w].values)
        found == m \in DOMAIN rings
    IN
    /\ write[w].pc = "value"
    /\ write[w].values # <<>>
    /\ m \notin Filtered
    /\ write' = [write EXCEPT ![w].pc = IF found THEN "host" ELSE "ring",
                              ![w].found = found,
                              ![w].hostFound = HostOf[m] \in DOMAIN hostRings,
                              ![w].ring = IF found THEN rings[m] ELSE 0]
    /\ UNCHANGED <<heap, rings, hostRings, mutex, received>>

\* A metric that was not found gets a new ring.
AddRing(w) ==
    /\ write[w].pc = "ring"
    /\ heap' = Append(heap, NewRing)
    /\ rings' = With(rings, Head(write[w].values), Len(heap) + 1)
    /\ write' = [write EXCEPT ![w].pc = "host", ![w].ring = Len(heap) + 1]
    /\ UNCHANGED <<hostRings, mutex, received>>

\* Fault: a metric is not added to a host that is known already.
HostEntry_FirstOnly(h, m, ring, known) ==
    IF known THEN hostRings ELSE With(hostRings, h, With(NoEntries, m, ring))

\* The rings by host once m's is among those of its host, known before or not.
HostEntry(h, m, ring, known) ==
    With(hostRings, h, With(IF known THEN hostRings[h] ELSE NoEntries, m, ring))

AddToHost(w) ==
    LET m == Head(write[w].values) IN
    /\ write[w].pc = "host"
    /\ hostRings' = HostEntry(HostOf[m], m, write[w].ring, write[w].hostFound)
    /\ write' = [write EXCEPT ![w].pc = "put"]
    /\ UNCHANGED <<heap, rings, mutex, received>>

\* The sample w is at, as Write makes it of the packet.
NextSample(w) ==
    [id |-> write[w].id, metric |-> Head(write[w].values), time |-> write[w].time]

\* The sample into the ring: a new ring is written where it stands, any other
\* one slot on, over its oldest sample if it is full.
Put(w) ==
    LET r == heap[write[w].ring]
        pos == IF write[w].found THEN NextSlot(r.pos) ELSE r.pos
    IN
    /\ write[w].pc = "put"
    /\ heap' = [heap EXCEPT ![write[w].ring] =
                   [slots |-> With(r.slots, pos, NextSample(w)), pos |-> pos]]
    /\ write' = NextValue(w)
    /\ UNCHANGED <<rings, hostRings, mutex, received>>

\* Fault: the mutex is not given back.
Unlock_Never(w) ==
    /\ write[w].pc = "value"
    /\ write[w].values = <<>>
    /\ write' = [write EXCEPT ![w] = Idle]
    /\ UNCHANGED <<heap, rings, hostRings, mutex, received>>

Unlock(w) ==
    /\ write[w].pc = "value"
    /\ write[w].values = <<>>
    /\ mutex' = Nobody
    /\ write' = [write EXCEPT ![w] = Idle]
    /\ UNCHANGED <<heap, rings, hostRings, received>>

WriteStep(w) == Lock(w) \/ Skip(w) \/ Find(w) \/ AddRing(w) \/ AddToHost(w) \/ Put(w) \/ Unlock(w)

Next ==
    \/ \E w \in Writer, values \in ValueLists, t \in Times : Receive(w, values, t)
    \/ \E w \in Writer : WriteStep(w)

\* Goroutines run on, and the mutex does not starve one; packets need not come.
Fairness == \A w \in Writer : SF_vars(WriteStep(w))

Spec == Init /\ [][Next]_vars /\ Fairness
----------------------------------------------------------------------------
(* What readers get of a ring *)

\* CountValues: back from the newest up to an empty slot, once round at most.
Count(r) ==
    CHOOSE k \in 0..Capacity :
        /\ \A i \in 0..(k - 1) : Back(r, i) # Empty
        /\ k < Capacity => Back(r, k) = Empty

\* Fault: the walk does not stop at a sample newer than the one before.
StopsAt_EmptyOnly(r, i) == Back(r, i) = Empty

\* Whether GetLastMetricValues stops at the i-th element back.
StopsAt(r, i) ==
    \/ Back(r, i) = Empty
    \/ i > 0 /\ Back(r, i).time > Back(r, i - 1).time

\* GetLastMetricValues without skipping; n may exceed the capacity.
LastValues(r, n) ==
    LET k == CHOOSE k \in 0..n :
                 /\ \A i \in 0..(k - 1) : ~StopsAt(r, i)
                 /\ k < n => StopsAt(r, k)
    IN [i \in 1..k |-> Back(r, i - 1)]
----------------------------------------------------------------------------
Ring(m) == heap[rings[m]]

\* The samples of m a full walk back finds, newest first.
Kept(m) ==
    IF m \in DOMAIN rings THEN [i \in 1..Count(Ring(m)) |-> Back(Ring(m), i - 1)] ELSE <<>>

TypeOK ==
    /\ \A i \in DOMAIN heap : heap[i] \in [slots : [Slots -> Sample \cup {Empty}], pos : Slots]
    /\ DOMAIN rings \subseteq Metric /\ Range(rings) \subseteq DOMAIN heap
    /\ DOMAIN hostRings \subseteq Hosts
    /\ mutex \in Writer \cup {Nobody}
    /\ received \in 0..MaxSamples

\* The storage keeps of every metric the samples of that metric written last,
\* newest first, however packets race: no write is lost to another goroutine's,
\* none gets into another metric's ring, and none falls out before its time.
Recent == INSTANCE RecentSamples
              WITH SamplesOf <- [m \in Metric |-> {s \in Sample : s.metric = m}],
                   Depth <- Capacity,
                   recent <- [m \in Metric |-> Kept(m)]

KeepsRecent == Recent!Spec

\* A reader gets the newest samples in the order of their time, and more of
\* them than the ring holds only if they all bear one time: a walk longer than
\* the ring stops at the seam, where the newest sample follows the oldest.
ReadersSeeOrder ==
    \A m \in DOMAIN rings : \A n \in 1..(2 * Capacity) :
        LET got == LastValues(Ring(m), n)
            kept == Kept(m)
        IN
        /\ \A i \in DOMAIN got : i > 1 => got[i].time <= got[i - 1].time
        /\ \A i \in DOMAIN got \cap DOMAIN kept : got[i] = kept[i]
        /\ Len(got) > Len(kept) => \A i, j \in DOMAIN kept : kept[i].time = kept[j].time

\* While nobody writes, the rings by host are those by metric: a node's panel
\* shows every metric that the metric list shows, from the same ring.
HostIndexComplete ==
    mutex = Nobody =>
        \A m \in Metric, i \in DOMAIN heap :
            (m \in DOMAIN rings /\ rings[m] = i)
            <=> (/\ HostOf[m] \in DOMAIN hostRings
                 /\ m \in DOMAIN hostRings[HostOf[m]]
                 /\ hostRings[HostOf[m]][m] = i)

\* Every packet is worked off: the mutex always comes back.
EveryWriteEnds == \A w \in Writer : (write[w].pc # "idle") ~> (write[w].pc = "idle")
====
