---- MODULE MetricStorage_proofs ----
(***************************************************************************)
(* Theorems about MetricStorage, for any goroutines, metrics, capacity and *)
(* order of packets: types, that the two indexes agree whenever nobody     *)
(* writes, that it implements RecentSamples (every step stores one sample  *)
(* of one metric over its oldest, or changes nothing that a reader can     *)
(* see), and that a reader gets the samples in the order of their time.    *)
(***************************************************************************)
EXTENDS MetricStorage, DataLemmas, SequenceTheorems, TLAPS

RingType == [slots : [Slots -> Sample \cup {Empty}], pos : Slots]

WriteType == [pc : {"idle", "lock", "value", "ring", "host", "put"},
              values : Seq(Metric), time : Times \cup {0}, id : Nat,
              found : BOOLEAN, hostFound : BOOLEAN, ring : Nat]

Types ==
    /\ heap \in Seq(RingType)
    /\ DOMAIN rings \subseteq Metric
    /\ \A m \in DOMAIN rings : rings[m] \in 1..Len(heap)
    /\ DOMAIN hostRings \subseteq Hosts
    /\ mutex \in Writer \cup {Nobody}
    /\ write \in [Writer -> WriteType]
    /\ received \in 0..MaxSamples

\* Who is between Lock and Unlock holds the mutex, and no one else does.
OneHolder == \A w \in Writer : write[w].pc \notin {"idle", "lock"} <=> mutex = w

\* What a goroutine has left to store is numbered within what was received.
Numbered ==
    \A w \in Writer : write[w].pc # "idle" =>
        /\ write[w].time \in Times
        /\ write[w].id >= 1 /\ write[w].id + Len(write[w].values) <= received + 1

\* What AddMetricValue found is still so when it is used.
Current(w) ==
    LET m == Head(write[w].values) IN
    /\ write[w].pc \in {"ring", "host", "put"} => write[w].values # <<>>
    /\ write[w].pc \in {"host", "put"} => write[w].ring \in 1..Len(heap)
    /\ write[w].pc = "ring" => m \notin DOMAIN rings
    /\ write[w].pc = "host" => m \in DOMAIN rings /\ rings[m] = write[w].ring
    /\ write[w].pc \in {"ring", "host"} => (write[w].hostFound <=> HostOf[m] \in DOMAIN hostRings)

\* Both indexes say the same of m.
Agree(m) ==
    LET known == HostOf[m] \in DOMAIN hostRings /\ m \in DOMAIN hostRings[HostOf[m]] IN
    /\ m \in DOMAIN rings <=> known
    /\ m \in DOMAIN rings => hostRings[HostOf[m]][m] = rings[m]

\* They do but for a metric that is just being added to the second.
IndexInv ==
    \A m \in Metric :
        \/ Agree(m)
        \/ \E w \in Writer : write[w].pc = "host" /\ Head(write[w].values) = m

StorageInv == Types /\ OneHolder /\ Numbered /\ (\A w \in Writer : Current(w)) /\ IndexInv
----------------------------------------------------------------------------
\* A position goes round the ring.
LEMMA SlotsWrap == \A p \in Slots : NextSlot(p) \in Slots
  BY CapacityAssumption, Z3 DEF Slots, NextSlot

\* A new ring is a ring.
LEMMA NewRingType == NewRing \in RingType
  <1>1. 0 \in Slots
    BY CapacityAssumption DEF Slots
  <1> QED
    BY <1>1 DEF NewRing, RingType

\* A step that changes nothing but where one goroutine stands.
LEMMA OthersKept ==
    ASSUME StorageInv, NEW w \in Writer, NEW r \in WriteType,
           write' = [write EXCEPT ![w] = r]
    PROVE  /\ write' \in [Writer -> WriteType]
           /\ write'[w] = r
           /\ \A v \in Writer : v # w => write'[v] = write[v]
  BY DEF StorageInv, Types

\* The steps of AddMetricValue, one by one, keep the types, the one holder of the
\* mutex and the indexes.
LEMMA ReceiveKeepsInv ==
    ASSUME StorageInv, NEW w \in Writer, NEW values \in ValueLists, NEW t \in Times,
           Receive(w, values, t)
    PROVE  StorageInv'
  <1> DEFINE r == [Idle EXCEPT !.pc = "lock", !.values = values, !.time = t, !.id = received + 1]
  <1>1. /\ write[w].pc = "idle" /\ received + Len(values) <= MaxSamples
        /\ received' = received + Len(values)
        /\ write' = [write EXCEPT ![w] = r]
        /\ UNCHANGED <<heap, rings, hostRings, mutex>>
    BY DEF Receive
  <1>2. values \in Seq(Metric) /\ Len(values) \in Nat /\ received \in 0..MaxSamples
    BY MetricsAssumption DEF StorageInv, Types
  <1>3. r \in WriteType /\ r.pc = "lock" /\ r.time = t /\ r.id = received + 1 /\ r.values = values
    <2>1. Idle \in WriteType
      BY EmptySeq DEF Idle, WriteType
    <2>2. t \in Times /\ received + 1 \in Nat
      BY <1>2, TimeAssumption
    <2>3. r \in WriteType
      BY <1>2, <2>1, <2>2 DEF WriteType
    <2>4. DOMAIN Idle = {"pc", "values", "time", "id", "found", "hostFound", "ring"}
      BY DEF Idle
    <2> QED
      BY <2>3, <2>4
  <1>4. /\ write' \in [Writer -> WriteType] /\ write'[w] = r
        /\ \A v \in Writer : v # w => write'[v] = write[v]
    BY <1>1, <1>3, OthersKept
  <1> HIDE DEF r
  <1>5. Types'
    BY <1>1, <1>2, <1>4, TimeAssumption DEF StorageInv, Types
  <1>6. OneHolder'
    BY <1>1, <1>3, <1>4 DEF StorageInv, OneHolder
  <1>7. Numbered'
    <2> SUFFICES ASSUME NEW v \in Writer, write'[v].pc # "idle"
                 PROVE  /\ write'[v].time \in Times
                        /\ write'[v].id >= 1
                        /\ write'[v].id + Len(write'[v].values) <= received' + 1
      BY DEF Numbered
    <2>1. CASE v = w
      BY <1>1, <1>2, <1>3, <1>4, <2>1
    <2>2. CASE v # w
      <3>1. write[v].id \in Nat /\ Len(write[v].values) \in Nat
        BY DEF StorageInv, Types, WriteType
      <3> QED
        BY <1>1, <1>2, <1>4, <2>2, <3>1 DEF StorageInv, Numbered
    <2> QED
      BY <2>1, <2>2
  <1>8. \A v \in Writer : Current(v)'
    BY <1>1, <1>3, <1>4 DEF StorageInv, Current
  <1>9. IndexInv'
    BY <1>1, <1>3, <1>4 DEF StorageInv, IndexInv, Agree
  <1> QED
    BY <1>5, <1>6, <1>7, <1>8, <1>9 DEF StorageInv

\* The mutex is taken when nobody holds it.
LEMMA LockKeepsInv ==
    ASSUME StorageInv, NEW w \in Writer, Lock(w)
    PROVE  StorageInv'
  <1> DEFINE r == [write[w] EXCEPT !.pc = "value"]
  <1>1. /\ write[w].pc = "lock" /\ mutex = Nobody /\ mutex' = w
        /\ write' = [write EXCEPT ![w] = r]
        /\ UNCHANGED <<heap, rings, hostRings, received>>
    BY DEF Lock
  <1>2. /\ r \in WriteType /\ r.pc = "value"
        /\ r.time = write[w].time /\ r.id = write[w].id /\ r.values = write[w].values
    BY DEF StorageInv, Types, WriteType
  <1>3. /\ write' \in [Writer -> WriteType] /\ write'[w] = r
        /\ \A v \in Writer : v # w => write'[v] = write[v]
    BY <1>1, <1>2, OthersKept
  <1> HIDE DEF r
  <1>4. Types'
    BY <1>1, <1>3 DEF StorageInv, Types
  <1>5. OneHolder'
    BY <1>1, <1>2, <1>3, WriterAssumption DEF StorageInv, OneHolder, Nobody
  <1>6. Numbered'
    BY <1>1, <1>2, <1>3 DEF StorageInv, Numbered
  <1>7. \A v \in Writer : Current(v)'
    BY <1>1, <1>2, <1>3 DEF StorageInv, Current
  <1>8. IndexInv'
    BY <1>1, <1>2, <1>3 DEF StorageInv, IndexInv, Agree
  <1> QED
    BY <1>4, <1>5, <1>6, <1>7, <1>8 DEF StorageInv

\* It is given back when the indexes agree.
LEMMA UnlockKeepsInv ==
    ASSUME StorageInv, NEW w \in Writer, Unlock(w)
    PROVE  StorageInv'
  <1>1. /\ write[w].pc = "value" /\ mutex' = Nobody
        /\ write' = [write EXCEPT ![w] = Idle]
        /\ UNCHANGED <<heap, rings, hostRings, received>>
    BY DEF Unlock
  <1>2. Idle \in WriteType /\ Idle.pc = "idle"
    BY EmptySeq DEF Idle, WriteType
  <1>3. /\ write' \in [Writer -> WriteType] /\ write'[w] = Idle
        /\ \A v \in Writer : v # w => write'[v] = write[v]
    BY <1>1, <1>2, OthersKept
  <1>4. mutex = w
    BY <1>1 DEF StorageInv, OneHolder
  <1>5. Types'
    BY <1>1, <1>3 DEF StorageInv, Types
  <1>6. OneHolder'
    BY <1>1, <1>2, <1>3, <1>4, WriterAssumption DEF StorageInv, OneHolder, Nobody
  <1>7. Numbered'
    BY <1>1, <1>2, <1>3 DEF StorageInv, Numbered
  <1>8. \A v \in Writer : Current(v)'
    BY <1>1, <1>2, <1>3 DEF StorageInv, Current
  <1>9. IndexInv'
    BY <1>1, <1>2, <1>3 DEF StorageInv, IndexInv, Agree
  <1> QED
    BY <1>5, <1>6, <1>7, <1>8, <1>9 DEF StorageInv
----------------------------------------------------------------------------
\* What a step of the goroutine that holds the mutex must keep: the others are
\* outside, so only its own part of the invariant and the indexes matter.
LEMMA HolderKeepsInv ==
    ASSUME StorageInv, NEW w \in Writer, NEW r \in WriteType,
           write[w].pc \in {"value", "ring", "host", "put"},
           r.pc \in {"value", "ring", "host", "put"},
           r.time = write[w].time, r.id >= write[w].id,
           r.id + Len(r.values) = write[w].id + Len(write[w].values),
           write' = [write EXCEPT ![w] = r], UNCHANGED <<mutex, received>>,
           heap' \in Seq(RingType), DOMAIN rings' \subseteq Metric,
           \A m \in DOMAIN rings' : rings'[m] \in 1..Len(heap'),
           DOMAIN hostRings' \subseteq Hosts,
           Current(w)',
           \A m \in Metric : Agree(m)' \/ (r.pc = "host" /\ Head(r.values) = m)
    PROVE  StorageInv'
  <1>1. /\ write' \in [Writer -> WriteType] /\ write'[w] = r
        /\ \A v \in Writer : v # w => write'[v] = write[v]
    BY OthersKept
  <1>2. mutex = w
    BY DEF StorageInv, OneHolder
  <1>3. \A v \in Writer : v # w => write[v].pc \in {"idle", "lock"}
    BY <1>2 DEF StorageInv, OneHolder
  <1>4. Types'
    BY <1>1 DEF StorageInv, Types
  <1>5. OneHolder'
    BY <1>1 DEF StorageInv, OneHolder
  <1>6. Numbered'
    <2>1. /\ write[w].time \in Times /\ write[w].id >= 1
          /\ write[w].id + Len(write[w].values) <= received + 1
      BY DEF StorageInv, Numbered
    <2>2. write[w].id \in Nat /\ r.id \in Nat
      BY DEF StorageInv, Types, WriteType
    <2>3. r.time \in Times /\ r.id >= 1 /\ r.id + Len(r.values) <= received + 1
      BY <2>1, <2>2
    <2> QED
      BY <1>1, <2>3 DEF StorageInv, Numbered
  <1>7. \A v \in Writer : Current(v)'
    BY <1>1, <1>3 DEF Current
  <1>8. IndexInv'
    BY <1>1 DEF IndexInv
  <1> QED
    BY <1>4, <1>5, <1>6, <1>7, <1>8 DEF StorageInv

\* Nothing but the goroutine has moved.
LEMMA IndexesStand ==
    ASSUME StorageInv, NEW w \in Writer, write[w].pc \in {"value", "ring", "put"},
           UNCHANGED <<rings, hostRings>>
    PROVE  \A m \in Metric : Agree(m)'
  <1>1. \A v \in Writer : write[v].pc # "host"
    BY DEF StorageInv, OneHolder
  <1> QED
    BY <1>1 DEF StorageInv, IndexInv, Agree

\* The goroutine of r at its next value.
Advanced(r) == [r EXCEPT !.pc = "value", !.values = Tail(@), !.id = @ + 1]

\* The next value of the list.
LEMMA AdvancedType ==
    ASSUME NEW r \in WriteType, r.values # <<>>
    PROVE  /\ Advanced(r) \in WriteType
           /\ Advanced(r).pc = "value" /\ Advanced(r).time = r.time
           /\ Advanced(r).id >= r.id
           /\ Advanced(r).id + Len(Advanced(r).values) = r.id + Len(r.values)
  <1>1. r.values \in Seq(Metric) /\ r.id \in Nat
    BY DEF WriteType
  <1>2. /\ Tail(r.values) \in Seq(Metric) /\ Len(Tail(r.values)) = Len(r.values) - 1
        /\ Len(r.values) \in Nat /\ r.id + 1 \in Nat
    BY <1>1, HeadTailProperties, LenProperties
  <1>3. /\ Advanced(r).pc = "value" /\ Advanced(r).time = r.time
        /\ Advanced(r).id = r.id + 1 /\ Advanced(r).values = Tail(r.values)
    BY DEF Advanced, WriteType
  <1>4. Advanced(r) \in WriteType
    BY <1>1, <1>2 DEF Advanced, WriteType
  <1> QED
    BY <1>1, <1>2, <1>3, <1>4

\* A value that is not stored changes no index.
LEMMA SkipKeepsInv ==
    ASSUME StorageInv, NEW w \in Writer, Skip(w)
    PROVE  StorageInv'
  <1> DEFINE r == Advanced(write[w])
  <1>1. /\ write[w].pc = "value" /\ write[w].values # <<>> /\ write[w] \in WriteType
        /\ UNCHANGED <<heap, rings, hostRings, mutex, received>>
    BY DEF Skip, StorageInv, Types
  <1>2. write' = [write EXCEPT ![w] = r]
    BY DEF Skip, NextValue, Advanced
  <1>3. /\ r \in WriteType /\ r.pc = "value" /\ r.time = write[w].time /\ r.id >= write[w].id
        /\ r.id + Len(r.values) = write[w].id + Len(write[w].values)
    BY <1>1, AdvancedType
  <1> HIDE DEF r
  <1>4. Current(w)'
    BY <1>2, <1>3, OthersKept DEF Current
  <1>5. \A m \in Metric : Agree(m)'
    BY <1>1, IndexesStand
  <1> QED
    BY <1>1, <1>2, <1>3, <1>4, <1>5, HolderKeepsInv DEF StorageInv, Types

\* What is found in the index by metric is the metric's ring.
LEMMA FindKeepsInv ==
    ASSUME StorageInv, NEW w \in Writer, Find(w)
    PROVE  StorageInv'
  <1> DEFINE m == Head(write[w].values)
             found == m \in DOMAIN rings
             pc == IF found THEN "host" ELSE "ring"
             known == HostOf[m] \in DOMAIN hostRings
             ring == IF found THEN rings[m] ELSE 0
             r == [write[w] EXCEPT !.pc = pc, !.found = found, !.hostFound = known, !.ring = ring]
  <1>1. /\ write[w].pc = "value" /\ write[w].values # <<>>
        /\ write' = [write EXCEPT ![w] = r]
        /\ UNCHANGED <<heap, rings, hostRings, mutex, received>>
    BY DEF Find
  <1>2. found \in BOOLEAN /\ known \in BOOLEAN
    OBVIOUS
  <1>3. pc \in {"host", "ring"} /\ ring \in Nat
    BY DEF StorageInv, Types
  <1>4. write[w] \in WriteType
    BY DEF StorageInv, Types
  <1>5. /\ found => pc = "host" /\ ring = rings[m]
        /\ ~found => pc = "ring"
        /\ known <=> HostOf[m] \in DOMAIN hostRings
        /\ found <=> m \in DOMAIN rings
        /\ m = Head(write[w].values)
    OBVIOUS
  <1> HIDE DEF found, known, pc, ring, m
  <1>6. /\ r \in WriteType /\ r.pc = pc /\ r.time = write[w].time /\ r.ring = ring
        /\ r.id = write[w].id /\ r.values = write[w].values
    BY <1>2, <1>3, <1>4 DEF WriteType
  <1>7. r.hostFound = known
    BY <1>4 DEF WriteType
  <1> HIDE DEF r
  <1>8. write'[w] = r
    BY <1>1, <1>6, OthersKept
  <1>9. Current(w)'
    <2>1. write'[w].pc = "ring" => m \notin DOMAIN rings'
      BY <1>1, <1>3, <1>5, <1>6, <1>8
    <2>2. write'[w].pc = "host" => /\ m \in DOMAIN rings' /\ rings'[m] = write'[w].ring
                                   /\ write'[w].ring \in 1..Len(heap')
      BY <1>1, <1>3, <1>5, <1>6, <1>8 DEF StorageInv, Types
    <2>3. write'[w].hostFound <=> HostOf[m] \in DOMAIN hostRings'
      BY <1>1, <1>5, <1>7, <1>8, Zenon
    <2>4. write'[w].values # <<>> /\ m = Head(write'[w].values) /\ write'[w].pc \in {"host", "ring"}
      BY <1>1, <1>3, <1>5, <1>6, <1>8
    <2> QED
      BY <2>1, <2>2, <2>3, <2>4 DEF Current
  <1>10. \A x \in Metric : Agree(x)'
    BY <1>1, IndexesStand
  <1>11. r.pc \in {"value", "ring", "host", "put"} /\ r.id >= write[w].id
    BY <1>3, <1>4, <1>6 DEF WriteType
  <1> QED
    BY <1>1, <1>6, <1>9, <1>10, <1>11, HolderKeepsInv DEF StorageInv, Types

\* A ring is made for a metric that has none.
LEMMA AddRingKeepsInv ==
    ASSUME StorageInv, NEW w \in Writer, AddRing(w)
    PROVE  StorageInv'
  <1> DEFINE new == Len(heap) + 1
             r == [write[w] EXCEPT !.pc = "host", !.ring = new]
  <1>1. PICK m : m = Head(write[w].values)
    OBVIOUS
  <1>2. /\ write[w].pc = "ring" /\ write[w].values # <<>> /\ write[w] \in WriteType
        /\ m \in Metric /\ m \notin DOMAIN rings
        /\ write[w].hostFound <=> HostOf[m] \in DOMAIN hostRings
    BY <1>1 DEF AddRing, StorageInv, Types, WriteType, Current
  <1>3. /\ heap' = Append(heap, NewRing) /\ rings' = With(rings, m, new)
        /\ write' = [write EXCEPT ![w] = r]
        /\ UNCHANGED <<hostRings, mutex, received>>
    BY <1>1 DEF AddRing
  <1>4. Len(heap) \in Nat /\ heap \in Seq(RingType) /\ new \in Nat
    BY DEF StorageInv, Types
  <1>5. heap' \in Seq(RingType) /\ Len(heap') = new /\ new \in 1..Len(heap')
    BY <1>3, <1>4, NewRingType, AppendProperties
  <1>6. /\ r \in WriteType /\ r.pc = "host" /\ r.ring = new /\ r.time = write[w].time
        /\ r.id = write[w].id /\ r.values = write[w].values
    <2> HIDE DEF new
    <2> QED
      BY <1>2, <1>4 DEF WriteType
  <1>7. r.hostFound <=> HostOf[m] \in DOMAIN hostRings
    BY <1>2 DEF WriteType
  <1>8. /\ DOMAIN rings' = DOMAIN rings \cup {m} /\ rings'[m] = new
        /\ \A x \in DOMAIN rings : rings'[x] = rings[x]
    BY <1>2, <1>3 DEF With
  <1>9. DOMAIN rings' \subseteq Metric /\ \A x \in DOMAIN rings' : rings'[x] \in 1..Len(heap')
    BY <1>2, <1>4, <1>5, <1>8 DEF StorageInv, Types
  <1> HIDE DEF r, new
  <1>10. write'[w] = r
    BY <1>3, <1>6, OthersKept
  <1>11. Current(w)'
    <2>1. write'[w].hostFound <=> HostOf[m] \in DOMAIN hostRings'
      BY <1>3, <1>7, <1>10, Zenon
    <2>2. /\ write'[w].pc = "host" /\ write'[w].values # <<>> /\ m = Head(write'[w].values)
          /\ write'[w].ring \in 1..Len(heap') /\ m \in DOMAIN rings' /\ rings'[m] = write'[w].ring
      BY <1>1, <1>2, <1>5, <1>6, <1>8, <1>10
    <2> QED
      BY <2>1, <2>2 DEF Current
  <1>12. \A x \in Metric : Agree(x)' \/ (r.pc = "host" /\ Head(r.values) = x)
    <2>1. \A v \in Writer : write[v].pc # "host"
      BY <1>2 DEF StorageInv, OneHolder
    <2>2. \A x \in Metric : Agree(x)
      BY <2>1 DEF StorageInv, IndexInv
    <2> QED
      BY <2>2, <1>1, <1>3, <1>6, <1>8 DEF Agree
  <1>13. r.id >= write[w].id /\ r.id + Len(r.values) = write[w].id + Len(write[w].values)
    BY <1>2, <1>6 DEF WriteType
  <1> QED
    BY <1>2, <1>3, <1>5, <1>6, <1>9, <1>11, <1>12, <1>13, HolderKeepsInv DEF StorageInv, Types

\* The index by host catches up with the index by metric.
LEMMA AddToHostKeepsInv ==
    ASSUME StorageInv, NEW w \in Writer, AddToHost(w)
    PROVE  StorageInv'
  <1> DEFINE r == [write[w] EXCEPT !.pc = "put"]
  <1>1. PICK m : m = Head(write[w].values)
    OBVIOUS
  <1>2. PICK h : h = HostOf[m]
    OBVIOUS
  <1>3. /\ write[w].pc = "host" /\ write[w].values # <<>> /\ write[w] \in WriteType
        /\ m \in Metric /\ m \in DOMAIN rings /\ rings[m] = write[w].ring
        /\ write[w].ring \in 1..Len(heap)
        /\ write[w].hostFound <=> h \in DOMAIN hostRings
    BY <1>1, <1>2 DEF AddToHost, StorageInv, Types, WriteType, Current
  <1>4. /\ hostRings' = HostEntry(h, m, write[w].ring, write[w].hostFound)
        /\ write' = [write EXCEPT ![w] = r]
        /\ UNCHANGED <<heap, rings, mutex, received>>
    BY <1>1, <1>2 DEF AddToHost
  <1>5. h \in Hosts
    BY <1>2, <1>3 DEF Hosts
  <1>6. PICK of : of = IF write[w].hostFound THEN hostRings[h] ELSE NoEntries
    OBVIOUS
  <1>7. /\ DOMAIN hostRings' = DOMAIN hostRings \cup {h}
        /\ hostRings'[h] = With(of, m, write[w].ring)
        /\ \A g \in DOMAIN hostRings : g # h => hostRings'[g] = hostRings[g]
    BY <1>4, <1>6 DEF HostEntry, With
  <1>8. /\ DOMAIN hostRings'[h] = DOMAIN of \cup {m}
        /\ hostRings'[h][m] = write[w].ring
        /\ \A x \in DOMAIN of : x # m => hostRings'[h][x] = of[x]
    BY <1>7 DEF With
  <1>9. \A x : x \in DOMAIN of <=> (h \in DOMAIN hostRings /\ x \in DOMAIN hostRings[h])
    BY <1>3, <1>6 DEF NoEntries
  <1>10. h \in DOMAIN hostRings => of = hostRings[h]
    BY <1>3, <1>6
  <1>11. /\ r \in WriteType /\ r.pc = "put" /\ r.ring = write[w].ring /\ r.time = write[w].time
         /\ r.id = write[w].id /\ r.values = write[w].values
    BY <1>3 DEF WriteType
  <1> HIDE DEF r
  <1>12. write'[w] = r
    BY <1>4, <1>11, OthersKept
  <1>13. Current(w)'
    BY <1>3, <1>4, <1>11, <1>12 DEF Current
  <1>14. \A x \in Metric : Agree(x)'
    <2> SUFFICES ASSUME NEW x \in Metric PROVE Agree(x)'
      OBVIOUS
    <2>1. CASE x = m
      BY <2>1, <1>2, <1>3, <1>4, <1>7, <1>8 DEF Agree
    <2>2. CASE x # m
      <3>1. \A v \in Writer : write[v].pc = "host" => v = w
        BY <1>3 DEF StorageInv, OneHolder
      <3>2. Agree(x)
        BY <2>2, <3>1, <1>1 DEF StorageInv, IndexInv
      <3>3. CASE HostOf[x] = h
        BY <2>2, <3>2, <3>3, <1>4, <1>7, <1>8, <1>9, <1>10 DEF Agree
      <3>4. CASE HostOf[x] # h
        BY <3>2, <3>4, <1>4, <1>7 DEF Agree
      <3> QED
        BY <3>3, <3>4
    <2> QED
      BY <2>1, <2>2
  <1>15. r.id >= write[w].id /\ r.id + Len(r.values) = write[w].id + Len(write[w].values)
    BY <1>3, <1>11 DEF WriteType
  <1> QED
    BY <1>3, <1>4, <1>5, <1>7, <1>11, <1>13, <1>14, <1>15, HolderKeepsInv DEF StorageInv, Types

\* A sample is put where both indexes are right.
LEMMA PutKeepsInv ==
    ASSUME StorageInv, NEW w \in Writer, Put(w)
    PROVE  StorageInv'
  <1> DEFINE r == Advanced(write[w])
  <1>1. PICK i : i = write[w].ring
    OBVIOUS
  <1>2. PICK pos : pos = IF write[w].found THEN NextSlot(heap[i].pos) ELSE heap[i].pos
    OBVIOUS
  <1>3. PICK s : s = NextSample(w)
    OBVIOUS
  <1>4. /\ write[w].pc = "put" /\ write[w].values # <<>> /\ write[w] \in WriteType
        /\ i \in 1..Len(heap) /\ heap \in Seq(RingType) /\ heap[i] \in RingType
        /\ UNCHANGED <<rings, hostRings, mutex, received>>
    BY <1>1 DEF Put, StorageInv, Types, Current
  <1>5. heap' = [heap EXCEPT ![i] = [slots |-> With(heap[i].slots, pos, s), pos |-> pos]]
    BY <1>1, <1>2, <1>3 DEF Put
  <1>6. write' = [write EXCEPT ![w] = r]
    BY DEF Put, NextValue, Advanced
  <1>7. /\ r \in WriteType /\ r.pc = "value" /\ r.time = write[w].time /\ r.id >= write[w].id
        /\ r.id + Len(r.values) = write[w].id + Len(write[w].values)
    BY <1>4, AdvancedType
  <1> HIDE DEF r
  <1>8. s \in Sample
    <2>1. /\ write[w].time \in Times /\ write[w].id >= 1
          /\ write[w].id + Len(write[w].values) <= received + 1
      BY <1>4 DEF StorageInv, Numbered
    <2>2. /\ Len(write[w].values) \in Nat /\ Len(write[w].values) > 0 /\ write[w].id \in Nat
          /\ Head(write[w].values) \in Metric
      BY <1>4, EmptySeq, LenProperties, HeadTailProperties DEF WriteType
    <2>3. received \in 0..MaxSamples
      BY DEF StorageInv, Types
    <2> QED
      BY <1>3, <2>1, <2>2, <2>3, TimeAssumption DEF Sample, NextSample
  <1>9. pos \in Slots
    BY <1>2, <1>4, SlotsWrap DEF RingType
  <1>10. [slots |-> With(heap[i].slots, pos, s), pos |-> pos] \in RingType
    <2>1. heap[i].slots \in [Slots -> Sample \cup {Empty}]
      BY <1>4 DEF RingType
    <2>2. With(heap[i].slots, pos, s) \in [Slots -> Sample \cup {Empty}]
      BY <2>1, <1>8, <1>9 DEF With
    <2> QED
      BY <2>2, <1>9 DEF RingType
  <1>11. heap' \in Seq(RingType) /\ Len(heap') = Len(heap)
    BY <1>4, <1>5, <1>10, ExceptSeq
  <1>12. \A m \in DOMAIN rings' : rings'[m] \in 1..Len(heap')
    BY <1>4, <1>11 DEF StorageInv, Types
  <1>13. Current(w)'
    BY <1>6, <1>7, OthersKept DEF Current
  <1>14. \A m \in Metric : Agree(m)'
    BY <1>4, IndexesStand
  <1> QED
    BY <1>4, <1>6, <1>7, <1>11, <1>12, <1>13, <1>14, HolderKeepsInv DEF StorageInv, Types

\* The invariant is kept by every step.
LEMMA StorageInvStep == StorageInv /\ [Next]_vars => StorageInv'
  <1> SUFFICES ASSUME StorageInv, [Next]_vars PROVE StorageInv'
    OBVIOUS
  <1>1. CASE UNCHANGED vars
    BY <1>1 DEF vars, StorageInv, Types, OneHolder, Numbered, Current, IndexInv, Agree
  <1>2. CASE \E w \in Writer, values \in ValueLists, t \in Times : Receive(w, values, t)
    BY <1>2, ReceiveKeepsInv
  <1>3. ASSUME NEW w \in Writer, WriteStep(w)
        PROVE  StorageInv'
    BY <1>3, LockKeepsInv, SkipKeepsInv, FindKeepsInv, AddRingKeepsInv, AddToHostKeepsInv,
       PutKeepsInv, UnlockKeepsInv DEF WriteStep
  <1> QED
    BY <1>1, <1>2, <1>3 DEF Next

\* An empty storage has all this.
LEMMA StorageInvInit == Init => StorageInv
  <1> SUFFICES ASSUME Init PROVE StorageInv
    OBVIOUS
  <1>1. Idle \in WriteType /\ Idle.pc = "idle"
    BY EmptySeq DEF Idle, WriteType
  <1>2. DOMAIN rings = {} /\ DOMAIN hostRings = {}
    BY DEF Init, NoEntries
  <1>3. Types
    BY <1>1, <1>2, TimeAssumption, EmptySeq DEF Init, Types
  <1>4. OneHolder
    BY <1>1, WriterAssumption DEF Init, OneHolder, Nobody
  <1>5. Numbered /\ \A w \in Writer : Current(w)
    BY <1>1 DEF Init, Numbered, Current
  <1>6. IndexInv
    BY <1>2 DEF IndexInv, Agree
  <1> QED
    BY <1>3, <1>4, <1>5, <1>6 DEF StorageInv

\* So it holds throughout.
LEMMA StorageInvariant == Spec => []StorageInv
  <1> QED
    BY StorageInvInit, StorageInvStep, PTL DEF Spec
----------------------------------------------------------------------------
\* The types of MetricStorage's state.
THEOREM StorageTypes == Spec => []TypeOK
  <1>1. StorageInv => TypeOK
    <2> SUFFICES ASSUME StorageInv PROVE TypeOK
      OBVIOUS
    <2>1. \A i \in DOMAIN heap : heap[i] \in RingType
      BY DEF StorageInv, Types
    <2>2. DOMAIN heap = 1..Len(heap)
      BY DEF StorageInv, Types
    <2>3. Range(rings) \subseteq DOMAIN heap
      BY <2>2 DEF Range, StorageInv, Types
    <2> QED
      BY <2>1, <2>3 DEF TypeOK, RingType, StorageInv, Types
  <1> QED
    BY <1>1, StorageInvariant, PTL

\* While nobody writes, a host's panel shows every metric of the list, from the
\* same ring: what AddMetricValue looked up is still true when it registers a
\* metric, because the collectd source's mutex keeps other writers out.
THEOREM IndexesAgree == Spec => []HostIndexComplete
  <1>1. StorageInv => HostIndexComplete
    <2> SUFFICES ASSUME StorageInv, mutex = Nobody, NEW m \in Metric, NEW i \in DOMAIN heap
                 PROVE  (m \in DOMAIN rings /\ rings[m] = i)
                        <=> (/\ HostOf[m] \in DOMAIN hostRings
                             /\ m \in DOMAIN hostRings[HostOf[m]]
                             /\ hostRings[HostOf[m]][m] = i)
      BY DEF HostIndexComplete
    <2>1. \A w \in Writer : write[w].pc # "host"
      BY WriterAssumption DEF StorageInv, OneHolder, Nobody
    <2>2. Agree(m)
      BY <2>1 DEF StorageInv, IndexInv
    <2> QED
      BY <2>2 DEF Agree
  <1> QED
    BY <1>1, StorageInvariant, PTL
----------------------------------------------------------------------------
(* The storage implements RecentSamples *)

\* Round the ring from the newest: k samples, then nothing.
Holds(r, k) ==
    /\ \A i \in 0..(k - 1) : Back(r, i) # Empty
    /\ \A i \in k..(Capacity - 1) : Back(r, i) = Empty

\* The ring a goroutine is about to write is its metric's, and empty if new.
OwnRing(w) ==
    LET m == Head(write[w].values) IN
    /\ write[w].pc = "ring" => write[w].found = FALSE
    /\ write[w].pc \in {"host", "put"} =>
          /\ m \in DOMAIN rings /\ rings[m] = write[w].ring
          /\ write[w].found = FALSE => Holds(heap[write[w].ring], 0)

RingInv ==
    /\ \A i \in 1..Len(heap) : \E k \in 0..Capacity : Holds(heap[i], k)
    /\ \A m, n \in DOMAIN rings : rings[m] = rings[n] => m = n
    /\ \A w \in Writer : OwnRing(w)
----------------------------------------------------------------------------
\* What % does next to its first period.
LEMMA ModInside == ASSUME NEW C \in Nat \ {0}, NEW x \in 0..(C - 1) PROVE x % C = x
  BY Z3

\* A position below zero goes round the ring from behind,
LEMMA ModBelow ==
    ASSUME NEW C \in Nat \ {0}, NEW x \in Int, 0 - C <= x, x < 0
    PROVE  x % C = x + C
  BY Z3

\* and the one at its end to its beginning.
LEMMA ModAtEnd == ASSUME NEW C \in Nat \ {0} PROVE C % C = 0
  BY Z3

\* Steps back from a position, round the ring.
LEMMA BackSlot ==
    ASSUME NEW p \in Slots, NEW i \in Slots
    PROVE  (p - i) % Capacity = IF i <= p THEN p - i ELSE p - i + Capacity
  <1>1. Capacity \in Nat \ {0} /\ p \in 0..(Capacity - 1) /\ i \in 0..(Capacity - 1)
    BY CapacityAssumption DEF Slots
  <1>2. CASE i <= p
    <2>1. p - i \in 0..(Capacity - 1)
      BY <1>1, <1>2
    <2> QED
      BY <1>1, <1>2, <2>1, ModInside
  <1>3. CASE i > p
    <2>1. p - i \in Int /\ 0 - Capacity <= p - i /\ p - i < 0
      BY <1>1, <1>3
    <2>2. ~(i <= p)
      BY <1>1, <1>3
    <2> QED
      BY <1>1, <2>1, <2>2, ModBelow
  <1> QED
    BY <1>1, <1>2, <1>3

\* The slot after a position, round the ring.
LEMMA NextSlotIs ==
    ASSUME NEW p \in Slots
    PROVE  NextSlot(p) = IF p + 1 = Capacity THEN 0 ELSE p + 1
  <1>1. Capacity \in Nat \ {0} /\ p \in 0..(Capacity - 1)
    BY CapacityAssumption DEF Slots
  <1>2. CASE p + 1 = Capacity
    BY <1>1, <1>2, ModAtEnd DEF NextSlot
  <1>3. CASE p + 1 # Capacity
    <2>1. p + 1 \in 0..(Capacity - 1)
      BY <1>1, <1>3
    <2> QED
      BY <1>1, <1>3, <2>1, ModInside DEF NextSlot
  <1> QED
    BY <1>2, <1>3

\* A walk back finds the samples of a ring, and as many.
LEMMA CountIs ==
    ASSUME NEW r, NEW k \in 0..Capacity, Holds(r, k)
    PROVE  Count(r) = k
  <1> DEFINE IsCount(j) == /\ \A i \in 0..(j - 1) : Back(r, i) # Empty
                           /\ j < Capacity => Back(r, j) = Empty
  <1>1. Capacity \in Nat
    BY CapacityAssumption
  <1>2. IsCount(k)
    BY <1>1 DEF Holds
  <1>3. ASSUME NEW j \in 0..Capacity, IsCount(j) PROVE j = k
    <2>1. ~(j < k)
      BY <1>1, <1>3 DEF Holds
    <2>2. ~(k < j)
      BY <1>1, <1>3 DEF Holds
    <2> QED
      BY <1>1, <2>1, <2>2
  <1>4. Count(r) = CHOOSE j \in 0..Capacity : IsCount(j)
    BY DEF Count
  <1> HIDE DEF IsCount
  <1> QED
    BY <1>2, <1>3, <1>4

\* A new ring holds nothing.
LEMMA NewRingHolds == Holds(NewRing, 0)
  <1> SUFFICES ASSUME NEW i \in Slots PROVE Back(NewRing, i) = Empty
    BY CapacityAssumption DEF Holds, Slots
  <1>1. 0 \in Slots
    BY CapacityAssumption DEF Slots
  <1>2. (0 - i) % Capacity \in Slots
    BY <1>1, BackSlot, CapacityAssumption DEF Slots
  <1> QED
    BY <1>2 DEF NewRing, Back
----------------------------------------------------------------------------
\* A sample put into the next slot goes before those that the ring held, over
\* the oldest of them if the ring was full.
LEMMA PutNext ==
    ASSUME NEW r \in RingType, NEW s \in Sample, NEW k \in 0..Capacity, Holds(r, k),
           NEW p, p = NextSlot(r.pos),
           NEW q, q = [slots |-> With(r.slots, p, s), pos |-> p],
           NEW n, n = IF k < Capacity THEN k + 1 ELSE Capacity
    PROVE  /\ n \in 1..Capacity /\ Holds(q, n)
           /\ Back(q, 0) = s
           /\ \A i \in 1..(n - 1) : Back(q, i) = Back(r, i - 1)
  <1>1. Capacity \in Nat \ {0} /\ r.pos \in Slots /\ DOMAIN r.slots = Slots
    BY CapacityAssumption DEF RingType
  <1>2. p \in Slots
    BY <1>1, SlotsWrap
  <1>3. q.pos = p /\ q.slots[p] = s /\ \A x \in Slots : x # p => q.slots[x] = r.slots[x]
    BY <1>1, <1>2 DEF With
  <1>4. Back(q, 0) = s
    <2>1. (p - 0) % Capacity = p
      BY <1>1, <1>2, BackSlot DEF Slots
    <2> QED
      BY <1>3, <2>1 DEF Back
  <1>5. ASSUME NEW i \in 1..(Capacity - 1) PROVE Back(q, i) = Back(r, i - 1)
    <2>1. i \in Slots /\ i - 1 \in Slots
      BY <1>1 DEF Slots
    <2>2. (p - i) % Capacity = IF i <= p THEN p - i ELSE p - i + Capacity
      BY <1>2, <2>1, BackSlot
    <2>3. (r.pos - (i - 1)) % Capacity
              = IF i - 1 <= r.pos THEN r.pos - (i - 1) ELSE r.pos - (i - 1) + Capacity
      BY <1>1, <2>1, BackSlot
    <2>4. p = IF r.pos + 1 = Capacity THEN 0 ELSE r.pos + 1
      BY <1>1, NextSlotIs
    <2>5. (p - i) % Capacity = (r.pos - (i - 1)) % Capacity
      <3>1. (IF i <= p THEN p - i ELSE p - i + Capacity)
            = IF i - 1 <= r.pos THEN r.pos - (i - 1) ELSE r.pos - (i - 1) + Capacity
        BY <1>1, <2>1, <2>4 DEF Slots
      <3> QED
        BY <2>2, <2>3, <3>1
    <2>6. (p - i) % Capacity \in Slots /\ (p - i) % Capacity # p
      <3>1. PICK z : z = (p - i) % Capacity
        OBVIOUS
      <3>2. z = IF i <= p THEN p - i ELSE p - i + Capacity
        BY <2>2, <3>1
      <3>3. /\ p \in 0..(Capacity - 1) /\ i \in 1..(Capacity - 1)
            /\ Slots = 0..(Capacity - 1) /\ Capacity \in Nat
        BY <1>1, <1>2 DEF Slots
      <3>4. z \in 0..(Capacity - 1) /\ z # p
        BY ONLY <3>2, <3>3
      <3> QED
        BY <3>1, <3>3, <3>4
    <2> QED
      BY <1>3, <2>5, <2>6 DEF Back
  <1>6. n \in 1..Capacity
    BY <1>1
  <1>7. s # Empty
    BY TimeAssumption DEF Sample, Empty
  <1>8. ASSUME NEW i \in 0..(n - 1) PROVE Back(q, i) # Empty
    <2>1. CASE i = 0
      BY <1>4, <1>7, <2>1
    <2>2. CASE i # 0
      <3>1. i \in 1..(Capacity - 1) /\ i - 1 \in 0..(k - 1)
        BY <1>1, <1>6, <2>2
      <3> QED
        BY <1>5, <3>1 DEF Holds
    <2> QED
      BY <2>1, <2>2
  <1>9. ASSUME NEW i \in n..(Capacity - 1) PROVE Back(q, i) = Empty
    <2>1. i \in 1..(Capacity - 1) /\ i - 1 \in k..(Capacity - 1)
      BY <1>1, <1>6
    <2> QED
      BY <1>5, <2>1 DEF Holds
  <1>10. Holds(q, n)
    BY <1>8, <1>9 DEF Holds
  <1>11. \A i \in 1..(n - 1) : i \in 1..(Capacity - 1)
    BY <1>1, <1>6
  <1> QED
    BY <1>4, <1>5, <1>6, <1>10, <1>11

\* The first sample of a new ring is put where it stands.
LEMMA PutFirst ==
    ASSUME NEW r \in RingType, NEW s \in Sample, Holds(r, 0),
           NEW q, q = [slots |-> With(r.slots, r.pos, s), pos |-> r.pos]
    PROVE  Holds(q, 1) /\ Back(q, 0) = s
  <1>1. Capacity \in Nat \ {0} /\ r.pos \in Slots /\ DOMAIN r.slots = Slots
    BY CapacityAssumption DEF RingType
  <1>2. q.pos = r.pos /\ q.slots[r.pos] = s /\ \A x \in Slots : x # r.pos => q.slots[x] = r.slots[x]
    BY <1>1 DEF With
  <1>3. Back(q, 0) = s
    <2>1. (r.pos - 0) % Capacity = r.pos
      BY <1>1, BackSlot DEF Slots
    <2> QED
      BY <1>2, <2>1 DEF Back
  <1>4. s # Empty
    BY TimeAssumption DEF Sample, Empty
  <1>5. ASSUME NEW i \in 1..(Capacity - 1) PROVE Back(q, i) = Empty
    <2>1. i \in Slots /\ i \in 0..(Capacity - 1)
      BY <1>1 DEF Slots
    <2>2. (r.pos - i) % Capacity \in Slots /\ (r.pos - i) % Capacity # r.pos
      <3>1. (r.pos - i) % Capacity = IF i <= r.pos THEN r.pos - i ELSE r.pos - i + Capacity
        BY <1>1, <2>1, BackSlot
      <3>2. PICK z : z = (r.pos - i) % Capacity
        OBVIOUS
      <3>3. z = IF i <= r.pos THEN r.pos - i ELSE r.pos - i + Capacity
        BY <3>1, <3>2
      <3>4. /\ r.pos \in 0..(Capacity - 1) /\ i \in 1..(Capacity - 1)
            /\ Slots = 0..(Capacity - 1) /\ Capacity \in Nat
        BY <1>1 DEF Slots
      <3>5. z \in 0..(Capacity - 1) /\ z # r.pos
        BY ONLY <3>3, <3>4
      <3> QED
        BY <3>2, <3>4, <3>5
    <2>3. Back(q, i) = Back(r, i)
      BY <1>2, <2>2 DEF Back
    <2> QED
      BY <2>1, <2>3 DEF Holds
  <1> QED
    BY <1>1, <1>3, <1>4, <1>5 DEF Holds
----------------------------------------------------------------------------
\* What a reader can see of a metric.
Seen == [m \in Metric |-> Kept(m)]

\* A ring that holds k samples is read as those k.
LEMMA KeptIs ==
    ASSUME NEW m \in DOMAIN rings, NEW k \in 0..Capacity, Holds(Ring(m), k)
    PROVE  Kept(m) = [i \in 1..k |-> Back(Ring(m), i - 1)]
  BY CountIs DEF Kept

\* A step that touches no ring in use keeps what is seen.
LEMMA RingsStand ==
    ASSUME StorageInv, rings' = rings, \A i \in 1..Len(heap) : heap'[i] = heap[i]
    PROVE  Seen' = Seen
  <1>1. ASSUME NEW m \in DOMAIN rings PROVE Ring(m)' = Ring(m)
    BY DEF Ring, StorageInv, Types
  <1>2. \A m \in Metric : Kept(m)' = Kept(m)
    BY <1>1 DEF Kept
  <1> QED
    BY <1>2 DEF Seen

\* Types of what is stored.
LEMMA StoredTypes ==
    ASSUME StorageInv, NEW w \in Writer, write[w].pc = "put"
    PROVE  /\ write[w].values # <<>> /\ Head(write[w].values) \in Metric
           /\ write[w].ring \in 1..Len(heap) /\ heap[write[w].ring] \in RingType
           /\ NextSample(w) \in Sample
  <1>1. write[w] \in WriteType /\ heap \in Seq(RingType)
    BY DEF StorageInv, Types
  <1>2. write[w].values # <<>> /\ write[w].ring \in 1..Len(heap)
    BY DEF StorageInv, Current
  <1>3. /\ write[w].time \in Times /\ write[w].id >= 1
        /\ write[w].id + Len(write[w].values) <= received + 1
    BY DEF StorageInv, Numbered
  <1>4. /\ Len(write[w].values) \in Nat /\ Len(write[w].values) > 0 /\ write[w].id \in Nat
        /\ Head(write[w].values) \in Metric
    BY <1>1, <1>2, EmptySeq, LenProperties, HeadTailProperties DEF WriteType
  <1>5. received \in 0..MaxSamples
    BY DEF StorageInv, Types
  <1>6. NextSample(w) \in Sample
    BY <1>3, <1>4, <1>5, TimeAssumption DEF Sample, NextSample
  <1> QED
    BY <1>1, <1>2, <1>4, <1>6

\* Put is the storing of a sample.
LEMMA PutStores ==
    ASSUME StorageInv, RingInv, NEW w \in Writer, Put(w)
    PROVE  /\ Recent!Next
           /\ \A i \in 1..Len(heap') : \E k \in 0..Capacity : Holds(heap'[i], k)
  <1>1. PICK m : m = Head(write[w].values)
    OBVIOUS
  <1>2. PICK j : j = write[w].ring
    OBVIOUS
  <1>3. PICK r : r = heap[j]
    OBVIOUS
  <1>4. PICK p : p = IF write[w].found THEN NextSlot(r.pos) ELSE r.pos
    OBVIOUS
  <1>5. PICK s : s = NextSample(w)
    OBVIOUS
  <1>6. PICK q : q = [slots |-> With(r.slots, p, s), pos |-> p]
    OBVIOUS
  <1>7. /\ write[w].pc = "put" /\ rings' = rings
        /\ heap' = [heap EXCEPT ![j] = q]
    BY <1>2, <1>3, <1>4, <1>5, <1>6 DEF Put
  <1>8. /\ m \in Metric /\ s \in Sample /\ j \in 1..Len(heap) /\ r \in RingType
        /\ heap \in Seq(RingType)
    BY <1>1, <1>2, <1>3, <1>5, <1>7, StoredTypes DEF StorageInv, Types
  <1>9. /\ m \in DOMAIN rings /\ rings[m] = j
        /\ write[w].found = FALSE => Holds(r, 0)
    BY <1>1, <1>2, <1>3, <1>7 DEF RingInv, OwnRing
  <1>10. Len(heap') = Len(heap) /\ heap'[j] = q /\ \A i \in 1..Len(heap) : i # j => heap'[i] = heap[i]
    BY <1>7, <1>8, ExceptSeq
  <1>11. write[w].found \in BOOLEAN
    BY DEF StorageInv, Types, WriteType
  <1>12. Capacity \in Nat \ {0}
    BY CapacityAssumption
  <1>13. \E k \in 0..Capacity, n \in 1..Capacity :
             /\ n = IF k < Capacity THEN k + 1 ELSE Capacity
             /\ Holds(r, k) /\ Holds(q, n) /\ Back(q, 0) = s
             /\ \A i \in 1..(n - 1) : Back(q, i) = Back(r, i - 1)
    <2>1. CASE write[w].found = TRUE
      <3>1. PICK k \in 0..Capacity : Holds(r, k)
        BY <1>3, <1>8 DEF RingInv
      <3>2. PICK n : n = IF k < Capacity THEN k + 1 ELSE Capacity
        OBVIOUS
      <3>3. p = NextSlot(r.pos)
        BY <1>4, <2>1
      <3> QED
        BY <1>6, <1>8, <3>1, <3>2, <3>3, PutNext
    <2>2. CASE write[w].found = FALSE
      <3>1. Holds(r, 0) /\ p = r.pos
        BY <1>4, <1>9, <2>2
      <3>2. Holds(q, 1) /\ Back(q, 0) = s
        BY <1>6, <1>8, <3>1, PutFirst
      <3>3. /\ 0 \in 0..Capacity /\ 1 \in 1..Capacity
            /\ 1 = IF 0 < Capacity THEN 0 + 1 ELSE Capacity
            /\ \A i \in 1..(1 - 1) : Back(q, i) = Back(r, i - 1)
        BY <1>12
      <3> QED
        BY <3>1, <3>2, <3>3
    <2> QED
      BY <1>11, <2>1, <2>2
  <1>14. PICK k \in 0..Capacity, n \in 1..Capacity :
             /\ n = IF k < Capacity THEN k + 1 ELSE Capacity
             /\ Holds(r, k) /\ Holds(q, n) /\ Back(q, 0) = s
             /\ \A i \in 1..(n - 1) : Back(q, i) = Back(r, i - 1)
    BY <1>13
  <1>15. \A i \in 1..Len(heap') : \E l \in 0..Capacity : Holds(heap'[i], l)
    BY <1>10, <1>12, <1>14 DEF RingInv
  <1>16. Kept(m) = [i \in 1..k |-> Back(r, i - 1)]
    BY <1>3, <1>9, <1>14, KeptIs DEF Ring
  <1>17. Kept(m)' = [i \in 1..n |-> Back(q, i - 1)]
    <2>1. Ring(m)' = q /\ m \in DOMAIN rings'
      BY <1>7, <1>9, <1>10 DEF Ring
    <2>2. n \in 0..Capacity
      BY <1>12
    <2>3. Count(q) = n
      BY <1>14, <2>2, CountIs
    <2> QED
      BY <2>1, <2>3 DEF Kept
  <1>18. Kept(m)' = Recent!Newest(s, Kept(m))
    <2> DEFINE b == Kept(m)
               t == IF Len(b) < Capacity THEN Len(b) ELSE Capacity - 1
    <2>1. Len(b) = k /\ \E S : b \in Seq(S)
      <3>1. PICK S : S = {Back(r, i - 1) : i \in 1..k}
        OBVIOUS
      <3>2. b \in [1..k -> S] /\ k \in Nat
        BY <1>12, <1>16, <3>1
      <3>3. b \in Seq(S)
        BY <3>2, SeqDef
      <3> QED
        BY <3>2, <3>3, LenProperties
    <2>2. t = n - 1 /\ t \in Nat /\ t <= k
      BY <1>12, <1>14, <2>1
    <2>3. \A i \in 1..t : b[i] = Back(r, i - 1)
      BY <1>16, <2>2
    <2> HIDE DEF b, t
    <2>4. SubSeq(b, 1, t) = [i \in 1..t |-> b[i]]
      BY <2>1, <2>2
    <2>5. <<s>> \o SubSeq(b, 1, t) = [i \in 1..(t + 1) |-> IF i = 1 THEN s ELSE b[i - 1]]
      BY <2>2, <2>4
    <2>6. \A i \in 1..n : Back(q, i - 1) = IF i = 1 THEN s ELSE b[i - 1]
      <3> SUFFICES ASSUME NEW i \in 1..n PROVE Back(q, i - 1) = IF i = 1 THEN s ELSE b[i - 1]
        OBVIOUS
      <3>1. CASE i = 1
        BY <1>14, <3>1
      <3>2. CASE i # 1
        <4>1. i - 1 \in 1..(n - 1) /\ i - 1 \in 1..t
          BY <2>2, <3>2
        <4>2. Back(q, i - 1) = Back(r, (i - 1) - 1)
          BY <1>14, <4>1
        <4> QED
          BY <2>3, <3>2, <4>1, <4>2
      <3> QED
        BY <3>1, <3>2
    <2>7. t + 1 = n
      BY <2>2
    <2> QED
      BY <1>17, <2>5, <2>6, <2>7 DEF Recent!Newest, b, t
  <1>19. ASSUME NEW x \in Metric, x # m PROVE Kept(x)' = Kept(x)
    <2>1. CASE x \in DOMAIN rings
      <3>1. rings[x] \in 1..Len(heap) /\ rings[x] # j
        BY <1>9, <1>19, <2>1 DEF RingInv, StorageInv, Types
      <3>2. Ring(x)' = Ring(x)
        BY <1>7, <1>10, <3>1 DEF Ring
      <3> QED
        BY <1>7, <3>2 DEF Kept
    <2>2. CASE x \notin DOMAIN rings
      BY <1>7, <2>2 DEF Kept
    <2> QED
      BY <2>1, <2>2
  <1>20. Seen' = [Seen EXCEPT ![m] = Recent!Newest(s, @)]
    BY <1>8, <1>18, <1>19 DEF Seen
  <1>21. Recent!Store(m, s)
    BY <1>20 DEF Recent!Store, Seen
  <1>22. s.metric = m
    BY <1>1, <1>5 DEF NextSample
  <1>23. Recent!Next
    <2>1. s \in [x \in Metric |-> {y \in Sample : y.metric = x}][m]
      BY <1>8, <1>22
    <2> QED
      BY <1>8, <1>21, <2>1 DEF Recent!Next
  <1> QED
    BY <1>15, <1>23
----------------------------------------------------------------------------
\* A step that leaves the rings and every goroutine but w, which is past the
\* lock, where it was.
LEMMA OthersOwnRing ==
    ASSUME StorageInv, NEW w \in Writer, write[w].pc \notin {"idle", "lock"},
           NEW r, write' = [write EXCEPT ![w] = r], OwnRing(w)'
    PROVE  \A v \in Writer : OwnRing(v)'
  <1>1. \A v \in Writer : v # w => write'[v] = write[v] /\ write[v].pc \in {"idle", "lock"}
    BY DEF StorageInv, Types, OneHolder, WriteType
  <1> QED
    BY <1>1 DEF OwnRing

\* A goroutine at the start of a value owns no ring: Skip, Lock, Unlock and
\* Receive have nothing to do with the rings.
LEMMA QuietKeepsRings ==
    ASSUME RingInv, NEW w \in Writer, write'[w].pc \in {"idle", "lock", "value"},
           \A v \in Writer : v # w => write'[v] = write[v], UNCHANGED <<heap, rings>>
    PROVE  RingInv'
  <1>1. \A v \in Writer : OwnRing(v)'
    <2> SUFFICES ASSUME NEW v \in Writer PROVE OwnRing(v)'
      OBVIOUS
    <2>1. CASE v = w
      BY <2>1 DEF OwnRing
    <2>2. CASE v # w
      BY <2>2 DEF RingInv, OwnRing
    <2> QED
      BY <2>1, <2>2
  <1> QED
    BY <1>1 DEF RingInv

\* The steps before the sample is put leave what the rings hold alone.
LEMMA FindKeepsRings ==
    ASSUME StorageInv, RingInv, NEW w \in Writer, Find(w)
    PROVE  RingInv'
  <1>1. PICK m : m = Head(write[w].values)
    OBVIOUS
  <1>2. PICK f \in BOOLEAN : f = (m \in DOMAIN rings)
    <2>1. (m \in DOMAIN rings) \in BOOLEAN
      OBVIOUS
    <2> QED
      BY <2>1, Zenon
  <1>3. PICK r : r = [write[w] EXCEPT !.pc = IF f THEN "host" ELSE "ring", !.found = f,
                                      !.hostFound = HostOf[m] \in DOMAIN hostRings,
                                      !.ring = IF f THEN rings[m] ELSE 0]
    OBVIOUS
  <1>4. write[w].pc = "value" /\ write' = [write EXCEPT ![w] = r] /\ UNCHANGED <<heap, rings>>
    BY <1>1, <1>2, <1>3 DEF Find
  <1>5. write[w] \in WriteType
    BY DEF StorageInv, Types
  <1>6. /\ r.pc = IF f THEN "host" ELSE "ring"
        /\ r.ring = IF f THEN rings[m] ELSE 0
        /\ r.values = write[w].values
    BY <1>3, <1>5 DEF WriteType
  <1>7. r.found = f
    BY <1>3, <1>5 DEF WriteType
  <1>8. write'[w] = r
    BY <1>4 DEF StorageInv, Types
  <1>9. OwnRing(w)'
    <2>1. CASE f = TRUE
      <3>1. m \in DOMAIN rings
        BY <1>2, <2>1
      <3> QED
        BY <1>1, <1>4, <1>6, <1>7, <1>8, <2>1, <3>1 DEF OwnRing
    <2>2. CASE f = FALSE
      BY <1>6, <1>7, <1>8, <2>2 DEF OwnRing
    <2> QED
      BY <1>2, <2>1, <2>2
  <1> QED
    BY <1>4, <1>9, OthersOwnRing DEF RingInv

\* A new ring holds what was stored of its metric so far: nothing.
LEMMA AddRingKeepsRings ==
    ASSUME StorageInv, RingInv, NEW w \in Writer, AddRing(w)
    PROVE  RingInv' /\ Seen' = Seen
  <1>1. PICK m : m = Head(write[w].values)
    OBVIOUS
  <1>2. PICK new : new = Len(heap) + 1
    OBVIOUS
  <1>3. PICK r : r = [write[w] EXCEPT !.pc = "host", !.ring = new]
    OBVIOUS
  <1>4. /\ write[w].pc = "ring" /\ write' = [write EXCEPT ![w] = r]
        /\ heap' = Append(heap, NewRing) /\ rings' = With(rings, m, new)
    BY <1>1, <1>2, <1>3 DEF AddRing
  <1>5. /\ write[w] \in WriteType /\ heap \in Seq(RingType) /\ Len(heap) \in Nat
        /\ \A x \in DOMAIN rings : rings[x] \in 1..Len(heap)
    BY DEF StorageInv, Types
  <1>6. m \notin DOMAIN rings /\ write[w].found = FALSE
    BY <1>1, <1>4 DEF StorageInv, Current, RingInv, OwnRing
  <1>7. r.pc = "host" /\ r.ring = new /\ r.values = write[w].values /\ r.found = write[w].found
    BY <1>3, <1>5 DEF WriteType
  <1>8. write'[w] = r
    BY <1>4 DEF StorageInv, Types
  <1>9. /\ DOMAIN rings' = DOMAIN rings \cup {m} /\ rings'[m] = new
        /\ \A x \in DOMAIN rings : rings'[x] = rings[x]
    BY <1>4, <1>6 DEF With
  <1>10. /\ Len(heap') = new /\ heap'[new] = NewRing
         /\ \A i \in 1..Len(heap) : heap'[i] = heap[i]
    BY <1>2, <1>4, <1>5, NewRingType, AppendProperties
  <1>11. Capacity \in Nat
    BY CapacityAssumption
  <1>12. OwnRing(w)'
    BY <1>1, <1>6, <1>7, <1>8, <1>9, <1>10, NewRingHolds DEF OwnRing
  <1>13. \A i \in 1..Len(heap') : \E k \in 0..Capacity : Holds(heap'[i], k)
    <2> SUFFICES ASSUME NEW i \in 1..Len(heap') PROVE \E k \in 0..Capacity : Holds(heap'[i], k)
      OBVIOUS
    <2>1. CASE i = new
      BY <1>10, <1>11, <2>1, NewRingHolds
    <2>2. CASE i # new
      <3>1. i \in 1..Len(heap)
        BY <1>2, <1>5, <1>10, <2>2
      <3> QED
        BY <1>10, <3>1 DEF RingInv
    <2> QED
      BY <2>1, <2>2
  <1>14. \A x, y \in DOMAIN rings' : rings'[x] = rings'[y] => x = y
    BY <1>2, <1>5, <1>9 DEF RingInv
  <1>15. RingInv'
    BY <1>4, <1>12, <1>13, <1>14, OthersOwnRing DEF RingInv
  <1>16. ASSUME NEW x \in Metric PROVE Kept(x)' = Kept(x)
    <2>1. CASE x = m
      <3>1. Kept(x) = <<>>
        BY <1>6, <2>1 DEF Kept
      <3>2. Ring(x)' = NewRing /\ x \in DOMAIN rings'
        BY <1>9, <1>10, <2>1 DEF Ring
      <3>3. Count(NewRing) = 0
        BY <1>11, NewRingHolds, CountIs
      <3>4. Kept(x)' = [i \in 1..0 |-> Back(Ring(x)', i - 1)]
        BY <3>2, <3>3 DEF Kept
      <3>5. 1..0 = {}
        OBVIOUS
      <3>6. [i \in 1..0 |-> Back(Ring(x)', i - 1)] = <<>>
        BY <3>5
      <3> QED
        BY <3>1, <3>4, <3>6
    <2>2. CASE x # m /\ x \in DOMAIN rings
      <3>1. Ring(x)' = Ring(x)
        BY <1>5, <1>9, <1>10, <2>2 DEF Ring
      <3> QED
        BY <1>9, <2>2, <3>1 DEF Kept
    <2>3. CASE x # m /\ x \notin DOMAIN rings
      BY <1>9, <2>3 DEF Kept
    <2> QED
      BY <2>1, <2>2, <2>3
  <1>17. Seen' = Seen
    BY <1>16 DEF Seen
  <1> QED
    BY <1>15, <1>17

\* The index by host is no ring.
LEMMA AddToHostKeepsRings ==
    ASSUME StorageInv, RingInv, NEW w \in Writer, AddToHost(w)
    PROVE  RingInv'
  <1>1. PICK r : r = [write[w] EXCEPT !.pc = "put"]
    OBVIOUS
  <1>2. write[w].pc = "host" /\ write' = [write EXCEPT ![w] = r] /\ UNCHANGED <<heap, rings>>
    BY <1>1 DEF AddToHost
  <1>3. write[w] \in WriteType
    BY DEF StorageInv, Types
  <1>4. /\ r.pc = "put" /\ r.ring = write[w].ring /\ r.values = write[w].values
        /\ r.found = write[w].found
    BY <1>1, <1>3 DEF WriteType
  <1>5. write'[w] = r
    BY <1>2 DEF StorageInv, Types
  <1>6. OwnRing(w)'
    BY <1>2, <1>4, <1>5 DEF RingInv, OwnRing
  <1> QED
    BY <1>2, <1>6, OthersOwnRing DEF RingInv

\* The sample that is put is the newest of its metric.
LEMMA PutKeepsRings ==
    ASSUME StorageInv, RingInv, NEW w \in Writer, Put(w)
    PROVE  RingInv'
  <1>1. write[w].pc = "put" /\ rings' = rings /\ write' = NextValue(w)
    BY DEF Put
  <1>2. PICK r : r = Advanced(write[w])
    OBVIOUS
  <1>3. write' = [write EXCEPT ![w] = r]
    BY <1>1, <1>2 DEF NextValue, Advanced
  <1>4. r.pc \in {"idle", "lock", "value"}
    <2>1. write[w] \in WriteType /\ write[w].values # <<>>
      BY <1>1, StoredTypes DEF StorageInv, Types
    <2> QED
      BY <1>2, <2>1, AdvancedType
  <1>5. OwnRing(w)'
    BY <1>3, <1>4 DEF OwnRing, StorageInv, Types
  <1> QED
    BY <1>1, <1>3, <1>5, OthersOwnRing, PutStores DEF RingInv

\* Every step keeps the rings' invariant, and stores a sample or nothing.
LEMMA StepStores ==
    ASSUME StorageInv, RingInv, [Next]_vars
    PROVE  RingInv' /\ [Recent!Next]_Seen
  <1>1. CASE UNCHANGED vars
    <2>1. Seen' = Seen
      BY <1>1, RingsStand DEF vars
    <2>2. RingInv'
      BY <1>1 DEF vars, RingInv, OwnRing
    <2> QED
      BY <2>1, <2>2
  <1>2. ASSUME NEW w \in Writer, NEW values \in ValueLists, NEW t \in Times,
               Receive(w, values, t)
        PROVE  RingInv' /\ Seen' = Seen
    <2>1. PICK r : r = [Idle EXCEPT !.pc = "lock", !.values = values, !.time = t,
                                    !.id = received + 1]
      OBVIOUS
    <2>2. write' = [write EXCEPT ![w] = r] /\ UNCHANGED <<heap, rings>>
      BY <1>2, <2>1 DEF Receive
    <2>3. r.pc = "lock"
      BY <2>1 DEF Idle
    <2>4. write'[w] = r /\ \A v \in Writer : v # w => write'[v] = write[v]
      BY <2>2 DEF StorageInv, Types
    <2> QED
      BY <2>2, <2>3, <2>4, QuietKeepsRings, RingsStand
  <1>3. ASSUME NEW w \in Writer, WriteStep(w)
        PROVE  RingInv' /\ [Recent!Next]_Seen
    <2>1. write[w] \in WriteType
      BY DEF StorageInv, Types
    <2>2. CASE Lock(w)
      <3>1. PICK r : r = [write[w] EXCEPT !.pc = "value"]
        OBVIOUS
      <3>2. write' = [write EXCEPT ![w] = r] /\ UNCHANGED <<heap, rings>>
        BY <2>2, <3>1 DEF Lock
      <3>3. r.pc \in {"idle", "lock", "value"}
        BY <2>1, <3>1 DEF WriteType
      <3>4. write'[w] = r /\ \A v \in Writer : v # w => write'[v] = write[v]
        BY <3>2 DEF StorageInv, Types
      <3> QED
        BY <3>2, <3>3, <3>4, QuietKeepsRings, RingsStand
    <2>3. CASE Skip(w)
      <3>1. PICK r : r = Advanced(write[w])
        OBVIOUS
      <3>2. write' = [write EXCEPT ![w] = r] /\ UNCHANGED <<heap, rings>>
        BY <2>3, <3>1 DEF Skip, NextValue, Advanced
      <3>3. r.pc \in {"idle", "lock", "value"}
        BY <2>1, <2>3, <3>1, AdvancedType DEF Skip
      <3>4. write'[w] = r /\ \A v \in Writer : v # w => write'[v] = write[v]
        BY <3>2 DEF StorageInv, Types
      <3> QED
        BY <3>2, <3>3, <3>4, QuietKeepsRings, RingsStand
    <2>4. CASE Unlock(w)
      <3>1. write' = [write EXCEPT ![w] = Idle] /\ UNCHANGED <<heap, rings>>
        BY <2>4 DEF Unlock
      <3>2. Idle.pc \in {"idle", "lock", "value"}
        BY DEF Idle
      <3>3. write'[w] = Idle /\ \A v \in Writer : v # w => write'[v] = write[v]
        BY <3>1 DEF StorageInv, Types
      <3> QED
        BY <3>1, <3>2, <3>3, QuietKeepsRings, RingsStand
    <2>5. CASE Find(w)
      BY <2>5, FindKeepsRings, RingsStand DEF Find
    <2>6. CASE AddRing(w)
      BY <2>6, AddRingKeepsRings
    <2>7. CASE AddToHost(w)
      BY <2>7, AddToHostKeepsRings, RingsStand DEF AddToHost
    <2>8. CASE Put(w)
      BY <2>8, PutKeepsRings, PutStores
    <2> QED
      BY <1>3, <2>2, <2>3, <2>4, <2>5, <2>6, <2>7, <2>8 DEF WriteStep
  <1> QED
    BY <1>1, <1>2, <1>3 DEF Next

\* At the start there are no rings.
LEMMA RingsStart == Init => RingInv
  <1>1. Init => DOMAIN rings = {} /\ Len(heap) = 0 /\ \A w \in Writer : write[w].pc = "idle"
    BY DEF Init, NoEntries, Idle
  <1> QED
    BY <1>1 DEF RingInv, OwnRing

\* The storage implements RecentSamples: of every metric it keeps the samples
\* stored last, newest first, up to its capacity, whatever packets race
\* (memory_storage.go, AddMetricValue and CountValues).
THEOREM StorageKeepsRecent == Spec => KeepsRecent
  <1>1. Init => RingInv /\ Recent!Init
    <2> SUFFICES ASSUME Init PROVE RingInv /\ Recent!Init
      OBVIOUS
    <2>1. DOMAIN rings = {} /\ Len(heap) = 0 /\ \A w \in Writer : write[w].pc = "idle"
      BY DEF Init, NoEntries, Idle
    <2>2. RingInv
      BY RingsStart
    <2>3. \A m \in Metric : Kept(m) = <<>>
      BY <2>1 DEF Kept
    <2>4. Recent!Init
      BY <2>3 DEF Recent!Init
    <2> QED
      BY <2>2, <2>4
  <1>2. StorageInv /\ RingInv /\ [Next]_vars => RingInv' /\ [Recent!Next]_Seen
    BY StepStores
  <1>3. Spec => []StorageInv
    BY StorageInvariant
  <1> QED
    BY <1>1, <1>2, <1>3, PTL DEF Spec, KeepsRecent, Recent!Spec, Seen
----------------------------------------------------------------------------
(* What readers get *)

\* Every ring holds its samples from the newest back, then nothing.
LEMMA RingsInvariant == Spec => [](StorageInv /\ RingInv)
  <1>1. Init => RingInv
    BY RingsStart
  <1>2. StorageInv /\ RingInv /\ [Next]_vars => RingInv'
    BY StepStores
  <1> QED
    BY <1>1, <1>2, StorageInvariant, PTL DEF Spec

\* The last element once round the ring is the newest again.
LEMMA OnceRound == ASSUME NEW r, r.pos \in Slots PROVE Back(r, Capacity) = Back(r, 0)
  <1>1. Capacity \in Nat \ {0} /\ r.pos \in 0..(Capacity - 1)
    BY CapacityAssumption DEF Slots
  <1>2. r.pos % Capacity = r.pos
    BY <1>1, ModInside
  <1>3. (r.pos - Capacity) % Capacity = r.pos
    <2>1. r.pos - Capacity \in Int /\ 0 - Capacity <= r.pos - Capacity /\ r.pos - Capacity < 0
      BY <1>1
    <2>2. (r.pos - Capacity) % Capacity = r.pos - Capacity + Capacity
      BY <1>1, <2>1, ModBelow
    <2> QED
      BY <1>1, <2>2
  <1>4. r.pos - 0 = r.pos
    BY <1>1
  <1> QED
    BY <1>2, <1>3, <1>4 DEF Back

\* Every element on the way back is a sample or nothing, and bears a time.
LEMMA BackTyped ==
    ASSUME NEW r \in RingType, NEW i \in Nat
    PROVE  Back(r, i) \in Sample \cup {Empty} /\ Back(r, i).time \in Nat
  <1>1. r.pos \in Int /\ r.slots \in [Slots -> Sample \cup {Empty}]
    BY CapacityAssumption DEF RingType, Slots
  <1>2. (r.pos - i) % Capacity \in Slots
    BY <1>1, CapacityAssumption, Z3 DEF Slots
  <1>3. Back(r, i) \in Sample \cup {Empty}
    BY <1>1, <1>2 DEF Back
  <1>4. Empty.time \in Nat /\ \A s \in Sample : s.time \in Nat
    BY TimeAssumption DEF Sample, Empty
  <1> QED
    BY <1>3, <1>4

\* The walk ends at the first element it stops at, or after n.
LEMMA WalkEnds ==
    ASSUME NEW r, NEW n \in Nat
    PROVE  \E k \in 0..n :
              /\ \A i \in 0..(k - 1) : ~StopsAt(r, i)
              /\ k < n => StopsAt(r, k)
              /\ LastValues(r, n) = [i \in 1..k |-> Back(r, i - 1)]
  <1> DEFINE Ends(k) == /\ \A i \in 0..(k - 1) : ~StopsAt(r, i)
                        /\ k < n => StopsAt(r, k)
             T == {k \in 0..n : k = n \/ StopsAt(r, k)}
  <1>1. PICK k \in T : \A j \in T : k <= j
    <2>1. T \in SUBSET Nat /\ n \in T
      OBVIOUS
    <2> HIDE DEF T
    <2> QED
      BY <2>1, LeastNumber
  <1>2. Ends(k)
    <2>1. ASSUME NEW i \in 0..(k - 1) PROVE ~StopsAt(r, i)
      <3>1. i \in 0..n /\ ~(k <= i)
        BY <1>1
      <3>2. i \notin T
        BY <1>1, <3>1
      <3> QED
        BY <3>1, <3>2
    <2> QED
      BY <1>1, <2>1
  <1> DEFINE c == CHOOSE j \in 0..n : Ends(j)
  <1>3. c \in 0..n /\ Ends(c)
    <2> HIDE DEF Ends
    <2> QED
      BY <1>1, <1>2
  <1>4. LastValues(r, n) = [i \in 1..c |-> Back(r, i - 1)]
    BY DEF LastValues
  <1> HIDE DEF c
  <1> QED
    BY <1>3, <1>4

\* If no element once round bears a later time than the one after it, which the
\* newest ends with, all bear one time.
LEMMA OneTime ==
    ASSUME NEW r \in RingType, \A i \in 1..Capacity : Back(r, i).time <= Back(r, i - 1).time
    PROVE  \A i \in 0..Capacity : Back(r, i).time = Back(r, 0).time
  <1> DEFINE t(i) == Back(r, i).time
             A == {i \in 0..Capacity : \A j \in 0..i : t(i) <= t(j)}
  <1>1. Capacity \in Nat /\ \A i \in Nat : t(i) \in Nat
    BY BackTyped, CapacityAssumption
  <1>2. t(Capacity) = t(0)
    BY OnceRound DEF RingType
  <1>3. \A i \in 1..Capacity : t(i) <= t(i - 1)
    OBVIOUS
  <1> HIDE DEF t
  <1>4. 0 \in A
    BY <1>1
  <1>5. ASSUME NEW i \in 0..(Capacity - 1), i \in A PROVE i + 1 \in A
    <2>1. i + 1 \in 1..Capacity /\ (i + 1) - 1 = i /\ i \in Nat
      BY <1>1
    <2>2. t(i + 1) <= t(i)
      BY <1>3, <2>1
    <2>3. ASSUME NEW j \in 0..(i + 1) PROVE t(i + 1) <= t(j)
      <3>1. CASE j = i + 1
        BY <1>1, <2>1, <3>1
      <3>2. CASE j # i + 1
        <4>1. j \in 0..i
          BY <2>1, <3>2
        <4>2. t(i) <= t(j) /\ t(i) \in Nat /\ t(i + 1) \in Nat /\ t(j) \in Nat
          BY <1>1, <1>5, <2>1, <4>1
        <4> QED
          BY <2>2, <4>2
      <3> QED
        BY <3>1, <3>2
    <2> QED
      BY <2>1, <2>3
  <1> HIDE DEF A
  <1>6. 0..Capacity \subseteq A
    BY <1>1, <1>4, <1>5, IntervalOfNumbers
  <1>7. ASSUME NEW i \in 0..Capacity PROVE t(i) = t(0)
    <2>1. t(i) <= t(0) /\ t(Capacity) <= t(i)
      BY <1>1, <1>6 DEF A
    <2> QED
      BY <1>1, <1>2, <2>1
  <1> QED
    BY <1>7 DEF t

\* A reader gets the newest samples in the order of their time, and never one of
\* them twice unless all bear one time (ReadersSeeOrder; memory_storage.go,
\* GetLastMetricValues), for any capacity.
THEOREM ReadersOrdered == Spec => []ReadersSeeOrder
  <1>1. StorageInv /\ RingInv => ReadersSeeOrder
    <2> SUFFICES ASSUME StorageInv, RingInv, NEW m \in DOMAIN rings, NEW n \in 1..(2 * Capacity)
                 PROVE  LET got == LastValues(Ring(m), n)
                            kept == Kept(m)
                        IN
                        /\ \A i \in DOMAIN got : i > 1 => got[i].time <= got[i - 1].time
                        /\ \A i \in DOMAIN got \cap DOMAIN kept : got[i] = kept[i]
                        /\ Len(got) > Len(kept) =>
                              \A i, j \in DOMAIN kept : kept[i].time = kept[j].time
      BY DEF ReadersSeeOrder
    <2> DEFINE r == Ring(m)
               got == LastValues(r, n)
               kept == Kept(m)
    <2>1. n \in Nat /\ Capacity \in Nat \ {0}
      BY CapacityAssumption
    <2>2. rings[m] \in 1..Len(heap) /\ r \in RingType
      BY DEF StorageInv, Types, Ring
    <2>3. PICK c \in 0..Capacity : Holds(r, c)
      BY <2>2 DEF RingInv, Ring
    <2>4. kept = [i \in 1..c |-> Back(r, i - 1)]
      BY <2>3, KeptIs
    <2>5. PICK k \in 0..n : /\ \A i \in 0..(k - 1) : ~StopsAt(r, i)
                            /\ got = [i \in 1..k |-> Back(r, i - 1)]
      <3> HIDE DEF r
      <3>1. \E k \in 0..n :
                /\ \A i \in 0..(k - 1) : ~StopsAt(r, i)
                /\ k < n => StopsAt(r, k)
                /\ LastValues(r, n) = [i \in 1..k |-> Back(r, i - 1)]
        BY <2>1, WalkEnds
      <3> QED
        BY <3>1
    <2> HIDE DEF r, got, kept
    <2>6. ASSUME NEW i \in 1..(k - 1) PROVE Back(r, i).time <= Back(r, i - 1).time
      <3>1. ~StopsAt(r, i) /\ i \in Nat /\ i - 1 \in Nat /\ i > 0
        BY <2>1, <2>5
      <3>2. Back(r, i).time \in Nat /\ Back(r, i - 1).time \in Nat
        BY <2>2, <3>1, BackTyped
      <3> QED
        BY <3>1, <3>2 DEF StopsAt
    <2>7. \A i \in DOMAIN got : i > 1 => got[i].time <= got[i - 1].time
      <3> SUFFICES ASSUME NEW i \in 1..k, i > 1 PROVE got[i].time <= got[i - 1].time
        BY <2>5
      <3>1. i - 1 \in 1..(k - 1) /\ i - 1 \in 1..k
        BY <2>1
      <3> QED
        BY <2>5, <2>6, <3>1
    <2>8. \A i \in DOMAIN got \cap DOMAIN kept : got[i] = kept[i]
      BY <2>4, <2>5
    <2>9. ASSUME Len(got) > Len(kept), NEW i \in DOMAIN kept, NEW j \in DOMAIN kept
          PROVE  kept[i].time = kept[j].time
      <3>1. Len(got) = k /\ Len(kept) = c
        BY <2>1, <2>4, <2>5
      <3>2. c = Capacity
        <4>1. CASE c < Capacity
          <5>1. Back(r, c) = Empty
            BY <2>1, <2>3, <4>1 DEF Holds
          <5>2. c \in 0..(k - 1)
            BY <2>1, <2>9, <3>1
          <5> QED
            BY <2>5, <5>1, <5>2 DEF StopsAt
        <4> QED
          BY <2>1, <4>1
      <3>3. \A x \in 1..Capacity : Back(r, x).time <= Back(r, x - 1).time
        BY <2>1, <2>6, <2>9, <3>1, <3>2
      <3>4. \A x \in 0..Capacity : Back(r, x).time = Back(r, 0).time
        BY <2>2, <3>3, OneTime
      <3>5. i - 1 \in 0..Capacity /\ j - 1 \in 0..Capacity
        BY <2>1, <2>4
      <3> QED
        BY <2>4, <3>4, <3>5
    <2> QED
      BY <2>7, <2>8, <2>9 DEF r, got, kept
  <1> QED
    BY <1>1, RingsInvariant, PTL
====
