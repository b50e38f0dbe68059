---- MODULE Page_proofs ----
(***************************************************************************)
(* Theorems about Page for any nodes, size of the parts and bounds: its    *)
(* updater keeps to one rotation, and is the Updater of the module of that *)
(* name, although its answers are made in a step of the server; the        *)
(* drawing and the tab stops follow the store.                             *)
(***************************************************************************)
EXTENDS Page, DataLemmas

\* A step of the page is one of the updater's operations or leaves it alone.
LEMMA UpdaterSteps ==
    ASSUME [Next]_vars
    PROVE  \/ Timer
           \/ PartArrives
           \/ PartFails
           \/ UNCHANGED updater /\ part' = part
           \/ UNCHANGED updater /\ ServePart
  <1>1. CASE Deliver
    BY <1>1 DEF Deliver, updater
  <1>2. CASE Timer
    BY <1>2
  <1>3. CASE ServePart
    BY <1>3 DEF ServePart
  <1>4. CASE PartArrives
    BY <1>4
  <1>5. CASE PartFails
    BY <1>5
  <1>6. CASE \E ids \in SUBSET Shown \ {{}} : Notification(ids)
    BY <1>6 DEF Notification, updater
  <1>7. CASE ServeNode
    BY <1>7 DEF ServeNode, updater
  <1>8. CASE NodeArrives
    BY <1>8 DEF NodeArrives, updater
  <1>9. CASE NodeFails
    BY <1>9 DEF NodeFails, updater
  <1>10. CASE \E n \in Shown : Change(n)
    BY <1>10 DEF Change, updater
  <1>11. CASE UNCHANGED vars
    BY <1>11 DEF vars, updater
  <1> QED
    BY <1>1, <1>2, <1>3, <1>4, <1>5, <1>6, <1>7, <1>8, <1>9, <1>10, <1>11 DEF Next

\* Timers and requests of the updater hand over to each other.
LEMMA OneRotationStep ==
    ASSUME OneRotation, [Next]_vars
    PROVE  OneRotation'
  <1> USE DEF OneRotation, U!OneRotation
  <1>1. CASE Timer
    BY <1>1 DEF Timer, U!updateCallback, U!updatePartStart
  <1>3. CASE PartArrives
    <2>1. U!PartArrives(DOMAIN part.nodes)
      BY <1>3 DEF PartArrives
    <2> QED
      BY <2>1 DEF U!PartArrives
  <1>4. CASE PartFails
    <2>1. PICK calls \in 1..2 : U!PartFails(calls)
      BY <1>4 DEF PartFails
    <2> QED
      BY <2>1 DEF U!PartFails, U!AfterErrors
  <1>5. CASE UNCHANGED updater
    BY <1>5 DEF updater
  <1> QED
    BY <1>1, <1>3, <1>4, <1>5, UpdaterSteps

\* The update never stops and never runs twice, whatever answers are lost,
\* broken or cut short (updater.js, updatePartStart).
THEOREM RotationKept == Spec => []OneRotation
  <1>1. Init => OneRotation
    BY DEF Init, U!Init, OneRotation, U!OneRotation
  <1>2. OneRotation /\ [Next]_vars => OneRotation'
    BY OneRotationStep
  <1> QED
    BY <1>1, <1>2, PTL DEF Spec

----------------------------------------------------------------------------
\* While an answer is on its way lastId stays what it was asked with.
PartFits ==
    /\ part.served \in BOOLEAN
    /\ part.served => DOMAIN part.nodes \in U!PartsFrom(lastId, PartSize)

\* The steps of the page keep to it.
LEMMA PartFitsStep ==
    ASSUME PartFits, OneRotation, [Next]_vars
    PROVE  PartFits'
  <1>1. CASE Timer
    BY <1>1 DEF Timer, U!updateCallback, U!updatePartStart, PartFits
  <1>2. CASE PartArrives \/ PartFails
    <2>1. part' = NotServed
      BY <1>2 DEF PartArrives, PartFails
    <2>2. NotServed.served = FALSE
      BY DEF NotServed
    <2> QED
      BY <2>1, <2>2, Zenon DEF PartFits
  <1>3. CASE ServePart
    <2>1. PICK ids \in U!PartsFrom(lastId, PartSize) :
              part' = [served |-> TRUE, nodes |-> Restrict(truth, ids)]
      BY <1>3 DEF ServePart
    <2>2. DOMAIN part'.nodes = ids
      BY <2>1 DEF Restrict
    <2>3. lastId' = lastId
      BY <1>3 DEF ServePart, updater
    <2> QED
      BY <2>1, <2>2, <2>3 DEF PartFits
  <1>4. CASE UNCHANGED updater /\ part' = part
    BY <1>4 DEF updater, PartFits
  <1> QED
    BY <1>1, <1>2, <1>3, <1>4, UpdaterSteps

\* The page's updater is the Updater: each step of the page is a step of it or
\* leaves it alone, and the parts it is given are those the storage answers
\* with (updater.js within the page).
THEOREM PageRunsUpdater == Spec => U!Spec
  <1>1. Init => U!Init /\ OneRotation /\ PartFits
    BY DEF Init, U!Init, OneRotation, U!OneRotation, PartFits, NotServed
  <1>2. OneRotation /\ PartFits /\ [Next]_vars => OneRotation' /\ PartFits'
    BY OneRotationStep, PartFitsStep
  <1>3. OneRotation /\ PartFits /\ [Next]_vars => [U!Next]_(U!updaterVars)
    <2> SUFFICES ASSUME OneRotation, PartFits, [Next]_vars
                 PROVE  [U!Next]_(U!updaterVars)
      OBVIOUS
    <2>1. CASE Timer
      BY <2>1 DEF Timer, U!Next
    <2>2. CASE PartArrives
      <3>1. U!PartArrives(DOMAIN part.nodes)
        BY <2>2 DEF PartArrives
      <3>2. DOMAIN part.nodes \in U!PartsFrom(lastId, PartSize)
        BY <2>2 DEF PartArrives, PartFits
      <3> QED
        BY <3>1, <3>2 DEF U!Next
    <2>3. CASE PartFails
      BY <2>3 DEF PartFails, U!Next
    <2>4. CASE UNCHANGED updater
      BY <2>4 DEF updater, U!updaterVars
    <2> QED
      BY <2>1, <2>2, <2>3, <2>4, UpdaterSteps
  <1> QED
    BY <1>1, <1>2, <1>3, PTL DEF Spec, U!Spec
----------------------------------------------------------------------------
\* Every update recolours the nodes whose state it changes, and no others.
LEMMA UpdateRecolours ==
    ASSUME NEW new, ColoursMatchStore, Update(new)
    PROVE  ColoursMatchStore'
  <1>1. /\ colour' = [n \in Shown |->
                        IF n \in DOMAIN new /\ Effective(new[n]) # Effective(store[n])
                        THEN Effective(new[n]) ELSE colour[n]]
        /\ store' = [n \in Shown |-> IF n \in DOMAIN new THEN new[n] ELSE store[n]]
    BY DEF Update, Recolour
  <1>2. \A n \in Shown : colour'[n] = Effective(store'[n])
    BY <1>1 DEF ColoursMatchStore
  <1> QED
    BY <1>1, <1>2 DEF ColoursMatchStore

\* A node always has the colour of the state the store holds for it, although
\* only changes of the state are drawn and the change is told by comparing
\* with the store (renderer.js, update_node; store.js, updateNode): the part
\* of ViewsMatchStore that is about the drawing.
THEOREM ColoursFollowStore == Spec => []ColoursMatchStore
  <1>1. Init => ColoursMatchStore
    BY DEF Init, ColoursMatchStore
  <1>2. ColoursMatchStore /\ [Next]_vars => ColoursMatchStore'
    <2> SUFFICES ASSUME ColoursMatchStore, [Next]_vars
                 PROVE  ColoursMatchStore'
      OBVIOUS
    <2>1. CASE PartArrives
      BY <2>1, UpdateRecolours DEF PartArrives, views, ColoursMatchStore
    <2>2. CASE NodeArrives
      BY <2>2, UpdateRecolours DEF NodeArrives
    <2>3. CASE UNCHANGED <<store, colour>>
      BY <2>3 DEF ColoursMatchStore
    <2>4. \/ PartArrives
          \/ NodeArrives
          \/ UNCHANGED <<store, colour>>
      BY DEF Next, vars, views, Deliver, Timer, ServePart, PartFails, Notification,
             ServeNode, NodeFails, Change
    <2> QED
      BY <2>1, <2>2, <2>3, <2>4
  <1> QED
    BY <1>1, <1>2, PTL DEF Spec
----------------------------------------------------------------------------
(* The queue of the tab stops.                                             *)

\* The greatest of some numbers.
LEMMA MaxOfNumbers ==
    ASSUME NEW S, S \subseteq Nat, IsFiniteSet(S), S # {}
    PROVE  Max(S) \in S /\ \A i \in S : i <= Max(S)
  <1>1. PICK n \in S : \A i \in S : i <= n
    BY GreatestNumber
  <1>2. n \in S /\ \A i \in S : n >= i
    BY <1>1
  <1>3. Max(S) \in S /\ \A i \in S : Max(S) >= i
    BY <1>2 DEF Max
  <1> QED
    BY <1>3

\* A queue of nodes, each at one place.
Queues == {q \in Seq(Shown) : IsInjective(q)}

\* A queue without the node at place i.
LEMMA QueueWithoutPlace ==
    ASSUME NEW q \in Queues, NEW i \in DOMAIN q
    PROVE  RemoveAt(q, i) \in Queues /\ ToSet(RemoveAt(q, i)) = ToSet(q) \ {q[i]}
  <1>1. /\ q \in Seq(Shown) /\ Len(q) \in Nat /\ DOMAIN q = 1..Len(q) /\ i \in 1..Len(q)
        /\ \A a, b \in 1..Len(q) : q[a] = q[b] => a = b
    BY DEF Queues, IsInjective
  <1>2. PICK s : s = SubSeq(q, 1, i - 1)
    OBVIOUS
  <1>3. PICK t : t = SubSeq(q, i + 1, Len(q))
    OBVIOUS
  <1>4. /\ s \in Seq(Shown) /\ Len(s) = i - 1 /\ \A j \in 1..(i - 1) : s[j] = q[j]
    <2>1. i - 1 \in 0..Len(q)
      BY <1>1
    <2> QED
      BY <1>1, <1>2, <2>1, SubSeqProperties
  <1>5. /\ t \in Seq(Shown) /\ Len(t) = Len(q) - i
        /\ \A j \in 1..(Len(q) - i) : t[j] = q[i + j]
    <2>1. \A j \in (i + 1)..Len(q) : q[j] \in Shown
      BY <1>1
    <2>2. i + 1 \in Int /\ Len(q) \in Int /\ i + 1 <= Len(q) + 1
      BY <1>1
    <2>3. t \in Seq(Shown) /\ Len(t) = Len(q) - i
      BY <1>1, <1>3, <2>1, <2>2, SubSeqProperties, Z3
    <2> QED
      BY <1>1, <1>3, <2>1, <2>2, <2>3, SubSeqProperties, Z3
  <1>6. PICK r : r = s \o t
    OBVIOUS
  <1>7. /\ r \in Seq(Shown) /\ Len(r) = Len(q) - 1 /\ DOMAIN r = 1..(Len(q) - 1)
        /\ \A j \in 1..(Len(q) - 1) : r[j] = IF j < i THEN q[j] ELSE q[j + 1]
    <2>1. r \in Seq(Shown) /\ Len(r) = (i - 1) + (Len(q) - i)
      BY <1>4, <1>5, <1>6, ConcatProperties
    <2>2. Len(r) = Len(q) - 1 /\ DOMAIN r = 1..(Len(q) - 1)
      BY <1>1, <2>1
    <2>3. ASSUME NEW j \in 1..(Len(q) - 1)
          PROVE  r[j] = IF j < i THEN q[j] ELSE q[j + 1]
      <3>1. r[j] = IF j <= Len(s) THEN s[j] ELSE t[j - Len(s)]
        BY <1>1, <1>4, <1>5, <1>6, <2>1, ConcatProperties
      <3>2. CASE j < i
        BY <1>1, <1>4, <3>1, <3>2
      <3>3. CASE ~(j < i)
        <4>1. j - (i - 1) \in 1..(Len(q) - i) /\ i + (j - (i - 1)) = j + 1 /\ ~(j <= i - 1)
          BY <1>1, <3>3
        <4>2. t[j - (i - 1)] = q[j + 1]
          BY <1>5, <4>1
        <4> QED
          BY <1>4, <3>1, <3>3, <4>1, <4>2
      <3> QED
        BY <3>2, <3>3
    <2> QED
      BY <2>1, <2>2, <2>3
  <1>8. RemoveAt(q, i) = r
    BY <1>2, <1>3, <1>6 DEF RemoveAt
  <1> DEFINE At(j) == IF j < i THEN j ELSE j + 1
  <1>9. \A j \in DOMAIN r : r[j] = q[At(j)] /\ At(j) \in DOMAIN q /\ At(j) # i
    BY <1>1, <1>7
  <1>10. \A a, b \in DOMAIN r : At(a) = At(b) => a = b
    BY <1>1, <1>7
  <1>11. \A k \in DOMAIN q : k # i => \E j \in DOMAIN r : At(j) = k
    <2> SUFFICES ASSUME NEW k \in DOMAIN q, k # i
                 PROVE  \E j \in DOMAIN r : At(j) = k
      OBVIOUS
    <2>1. CASE k < i
      BY <1>1, <1>7, <2>1
    <2>2. CASE k > i
      <3>1. k - 1 \in DOMAIN r /\ At(k - 1) = k
        BY <1>1, <1>7, <2>2
      <3> HIDE DEF At
      <3> QED
        BY <3>1
    <2> QED
      BY <1>1, <2>1, <2>2
  <1> HIDE DEF At
  <1>12. IsInjective(r)
    BY <1>1, <1>9, <1>10 DEF IsInjective
  <1>13. ToSet(r) = ToSet(q) \ {q[i]}
    <2>1. ToSet(r) \subseteq ToSet(q) \ {q[i]}
      BY <1>1, <1>9 DEF ToSet
    <2>2. ASSUME NEW x \in ToSet(q), x # q[i]
          PROVE  x \in ToSet(r)
      <3>1. PICK k \in DOMAIN q : x = q[k]
        BY <2>2 DEF ToSet
      <3>2. PICK j \in DOMAIN r : At(j) = k
        BY <1>11, <2>2, <3>1
      <3>3. r[j] = x
        BY <1>9, <3>1, <3>2
      <3> QED
        BY <3>3 DEF ToSet
    <2> QED
      BY <2>1, <2>2
  <1> QED
    BY <1>7, <1>8, <1>12, <1>13 DEF Queues

\* A queue with a node that was not there.
LEMMA QueueWithNode ==
    ASSUME NEW q \in Queues, NEW n \in Shown, n \notin ToSet(q)
    PROVE  Append(q, n) \in Queues /\ ToSet(Append(q, n)) = ToSet(q) \cup {n}
  <1>1. PICK r : r = Append(q, n)
    OBVIOUS
  <1>2. /\ q \in Seq(Shown) /\ Len(q) \in Nat /\ DOMAIN q = 1..Len(q)
        /\ \A a, b \in DOMAIN q : q[a] = q[b] => a = b
    BY DEF Queues, IsInjective
  <1>3. /\ r \in Seq(Shown) /\ DOMAIN r = 1..(Len(q) + 1) /\ r[Len(q) + 1] = n
        /\ \A i \in 1..Len(q) : r[i] = q[i]
    BY <1>1, <1>2
  <1>4. \A i \in DOMAIN r : i \in DOMAIN q \/ i = Len(q) + 1
    BY <1>2, <1>3
  <1>5. \A i \in DOMAIN q : i \in DOMAIN r /\ r[i] = q[i] /\ q[i] # n
    BY <1>2, <1>3 DEF ToSet
  <1>6. IsInjective(r)
    BY <1>2, <1>3, <1>4, <1>5 DEF IsInjective
  <1>7. Len(q) + 1 \in DOMAIN r
    BY <1>2, <1>3
  <1>8. ToSet(r) = ToSet(q) \cup {n}
    BY <1>3, <1>4, <1>5, <1>7 DEF ToSet
  <1> QED
    BY <1>1, <1>3, <1>6, <1>8 DEF Queues

\* What an update of one node does to the queue: one node found and removed is
\* enough, since none is there twice.
LEMMA NodeUpdateQueue ==
    ASSUME NEW q \in Queues, NEW n \in Shown, NEW v
    PROVE  /\ handle_node_update(q, n, v) \in Queues
           /\ ToSet(handle_node_update(q, n, v)) =
                  IF Problem(v) THEN ToSet(q) \cup {n} ELSE ToSet(q) \ {n}
  <1>1. q \in Seq(Shown) /\ Len(q) \in Nat /\ DOMAIN q = 1..Len(q)
    BY DEF Queues
  <1>2. PICK P : P = Places(q, n)
    OBVIOUS
  <1>3. P = {} <=> n \notin ToSet(q)
    BY <1>2 DEF Places, ToSet
  <1>4. ASSUME P # {}
        PROVE  Max(P) \in DOMAIN q /\ q[Max(P)] = n
    <2>1. P \subseteq DOMAIN q /\ \A i \in P : q[i] = n
      BY <1>2 DEF Places
    <2>2. IsFiniteSet(P) /\ P \subseteq Nat
      <3>1. IsFiniteSet(1..Len(q))
        BY <1>1, FS_Interval
      <3> QED
        BY <1>1, <2>1, <3>1, FS_Subset
    <2>3. Max(P) \in P
      BY <1>4, <2>2, MaxOfNumbers
    <2> QED
      BY <2>1, <2>3
  <1>5. CASE Problem(v)
    <2>1. CASE P = {}
      <3>1. handle_node_update(q, n, v) = Append(q, n)
        BY <1>2, <1>5, <2>1 DEF handle_node_update
      <3> QED
        BY <1>3, <1>5, <2>1, <3>1, QueueWithNode
    <2>2. CASE P # {}
      <3>1. handle_node_update(q, n, v) = q
        BY <1>2, <1>5, <2>2 DEF handle_node_update
      <3> QED
        BY <1>3, <1>5, <2>2, <3>1
    <2> QED
      BY <2>1, <2>2
  <1>6. CASE ~Problem(v)
    <2>1. CASE P = {}
      <3>1. handle_node_update(q, n, v) = q
        BY <1>2, <1>6, <2>1 DEF handle_node_update, RemoveOne
      <3> QED
        BY <1>3, <1>6, <2>1, <3>1
    <2>2. CASE P # {}
      <3>1. handle_node_update(q, n, v) = RemoveAt(q, Max(P))
        BY <1>2, <1>6, <2>2 DEF handle_node_update, RemoveOne
      <3>2. RemoveAt(q, Max(P)) \in Queues /\ ToSet(RemoveAt(q, Max(P))) = ToSet(q) \ {n}
        BY <1>4, <2>2, QueueWithoutPlace
      <3> QED
        BY <1>6, <3>1, <3>2
    <2> QED
      BY <2>1, <2>2
  <1> QED
    BY <1>5, <1>6

\* The nodes of a set that are problems in an update.
Problems(s, new) == {n \in s : Problem(new[n])}

\* What a fold over the nodes of an update has of the queue when it has been
\* through those in s.
QueueAfter(queue, s, new) ==
    {q \in Queues : ToSet(q) = (ToSet(queue) \ s) \cup Problems(s, new)}

\* The tab stops go through an update node by node: in the end the queue has the
\* nodes with problems, and others only if the update does not mention them.
LEMMA AfterUpdateQueue ==
    ASSUME NEW queue \in Queues, NEW new, DOMAIN new \subseteq Shown
    PROVE  AfterUpdate(queue, new) \in QueueAfter(queue, DOMAIN new, new)
  <1> DEFINE D == DOMAIN new
             V == Queues
             H(q, n) == handle_node_update(q, n, new[n])
             step == [p \in D \X V |-> H(p[2], p[1])]
             first == [s \in SUBSET D |-> Max(s)]
             Solves(g) == g = [s \in SUBSET D |->
                                  IF s = {} THEN queue ELSE H(g[s \ {Max(s)}], Max(s))]
  <1>1. IsFiniteSet(D) /\ D \subseteq Nat
    <2>1. D \subseteq Nodes
      BY DEF Shown
    <2> HIDE DEF D
    <2> QED
      BY <2>1, PageAssumption, FS_Subset
  <1>2. step \in [D \X V -> V]
    <2>1. \A n \in D, q \in V : H(q, n) \in V
      BY NodeUpdateQueue
    <2> HIDE DEF V, D, H
    <2> QED
      BY <2>1
  <1>3. \A s \in SUBSET D : s # {} => Max(s) \in s /\ first[s] = Max(s)
    <2> HIDE DEF D
    <2>1. ASSUME NEW s \in SUBSET D, s # {} PROVE Max(s) \in s
      <3>1. s \subseteq Nat /\ IsFiniteSet(s)
        BY <1>1, FS_Subset
      <3> QED
        BY <2>1, <3>1, MaxOfNumbers
    <2> QED
      BY <2>1
  <1>4. \E g : Solves(g)
    <2> HIDE DEF V, D, H
    <2>1. PICK g : IsSolution(g, D, V, queue, step, first)
      <3>1. IsRecursion(D, V, queue, step, first)
        <4>1. queue \in V
          BY DEF V
        <4>2. \A s \in SUBSET D : s # {} => first[s] \in s
          <5> HIDE DEF first
          <5> QED
            BY <1>3
        <4> HIDE DEF step, first
        <4> QED
          BY <1>1, <1>2, <4>1, <4>2 DEF IsRecursion
      <3> HIDE DEF step, first
      <3> QED
        BY <3>1, RecursionOverSubsets
    <2>2. ASSUME NEW s \in SUBSET D, s # {}
          PROVE  g[s] = H(g[s \ {Max(s)}], Max(s))
      <3>1. PICK m : m = Max(s)
        OBVIOUS
      <3>2. first[s] = m /\ m \in s
        <4> HIDE DEF first
        <4> QED
          BY <1>3, <2>2, <3>1
      <3>3. g[s \ {m}] \in V /\ m \in D
        <4>1. s \ {m} \in SUBSET D /\ m \in D
          BY <3>2
        <4> HIDE DEF step, first
        <4> QED
          BY <2>1, <4>1 DEF IsSolution
      <3>4. g[s] = step[<<m, g[s \ {m}]>>]
        <4>1. g[s] = step[<<first[s], g[s \ {first[s]}]>>]
          <5> HIDE DEF step, first
          <5> QED
            BY <2>1, <2>2 DEF IsSolution
        <4> HIDE DEF step, first
        <4> QED
          BY <3>2, <4>1
      <3>5. step[<<m, g[s \ {m}]>>] = H(g[s \ {m}], m)
        BY <3>3
      <3> QED
        BY <3>1, <3>4, <3>5
    <2>3. \A s \in SUBSET D : g[s] = IF s = {} THEN queue ELSE H(g[s \ {Max(s)}], Max(s))
      BY <2>1, <2>2 DEF IsSolution
    <2>4. g = [s \in SUBSET D |-> g[s]]
      BY <2>1 DEF IsSolution
    <2>5. Solves(g)
      BY <2>3, <2>4
    <2> HIDE DEF Solves
    <2> QED
      BY <2>5
  <1>5. AfterUpdate(queue, new) = (CHOOSE g : Solves(g))[D]
    BY Zenon DEF AfterUpdate, MapThenFoldSet
  <1> HIDE DEF Solves
  <1>6. PICK g : g = CHOOSE f : Solves(f)
    OBVIOUS
  <1>7. Solves(g)
    BY <1>4, <1>6
  <1> DEFINE A == {s \in SUBSET D : g[s] \in QueueAfter(queue, s, new)}
  <1>8. ASSUME NEW s \in SUBSET D, \A n \in s : s \ {n} \in A
        PROVE  s \in A
    <2>1. CASE s = {}
      <3>1. g[s] = queue
        BY <1>7, <2>1 DEF Solves
      <3>2. ToSet(queue) = (ToSet(queue) \ s) \cup Problems(s, new)
        BY <2>1 DEF Problems
      <3> QED
        BY <3>1, <3>2 DEF QueueAfter
    <2>2. CASE s # {}
      <3>1. PICK m : m = Max(s) /\ m \in s
        BY <1>3, <2>2
      <3>2. PICK q : q = g[s \ {m}]
        OBVIOUS
      <3>3. q \in Queues /\ ToSet(q) = (ToSet(queue) \ (s \ {m})) \cup Problems(s \ {m}, new)
        BY <1>8, <3>1, <3>2 DEF QueueAfter
      <3>4. g[s] = handle_node_update(q, m, new[m])
        BY <1>7, <2>2, <3>1, <3>2 DEF Solves
      <3>5. /\ g[s] \in Queues
            /\ ToSet(g[s]) = IF Problem(new[m]) THEN ToSet(q) \cup {m} ELSE ToSet(q) \ {m}
        <4>1. m \in Shown
          BY <3>1
        <4>2. PICK v : v = new[m]
          OBVIOUS
        <4>3. /\ handle_node_update(q, m, v) \in Queues
              /\ ToSet(handle_node_update(q, m, v)) =
                     IF Problem(v) THEN ToSet(q) \cup {m} ELSE ToSet(q) \ {m}
          <5>1. q \in Queues
            BY <3>3
          <5> HIDE DEF A, D, V, H, step, first
          <5> QED
            BY <4>1, <5>1, NodeUpdateQueue
        <4>4. g[s] = handle_node_update(q, m, v)
          BY <3>4, <4>2
        <4> QED
          BY <4>2, <4>3, <4>4
      <3>6. ToSet(g[s]) = (ToSet(queue) \ s) \cup Problems(s, new)
        <4>1. Problems(s, new) = Problems(s \ {m}, new)
                                     \cup (IF Problem(new[m]) THEN {m} ELSE {})
          BY <3>1 DEF Problems
        <4>2. m \notin Problems(s \ {m}, new)
          BY DEF Problems
        <4>3. CASE Problem(new[m])
          BY <3>1, <3>3, <3>5, <4>1, <4>3
        <4>4. CASE ~Problem(new[m])
          BY <3>1, <3>3, <3>5, <4>1, <4>2, <4>4
        <4> QED
          BY <4>3, <4>4
      <3> QED
        BY <3>5, <3>6 DEF QueueAfter
    <2> QED
      BY <2>1, <2>2
  <1>9. D \in A
    <2> HIDE DEF A
    <2>1. GrowsIn(A, D)
      BY <1>8 DEF GrowsIn
    <2>2. SUBSET D \subseteq A
      BY <1>1, <2>1, SetOfSubsets
    <2> QED
      BY <2>2
  <1> QED
    BY <1>5, <1>6, <1>9
----------------------------------------------------------------------------
(* The types of the state.                                                 *)

\* What the store may hold of a node, and the updates that may bring it.
Versions == {NotFound} \cup 0..MaxChanges
Updates == UNION {[ids -> Versions] : ids \in SUBSET Shown}

\* The types of the state, as they follow from one another: what arrives is
\* what was asked for, so the store keeps its types.
PageInv ==
    /\ lastId \in Nodes \cup {0}
    /\ truth \in [Nodes -> 0..MaxChanges]
    /\ store \in [Shown -> Versions]
    /\ colour \in [Shown -> {"none", "up", "down"}]
    /\ events \in Seq(Updates)
    /\ Len(events) <= MaxEvents
    /\ tabQueue \in Queues
    /\ part.nodes \in Updates
    /\ notified \in Nat
    /\ fetching \subseteq (1..notified) \X Shown
    /\ fetched \subseteq (1..notified) \X Shown \X Versions
    /\ failures \in 0..MaxFailures

\* An update has a state for each of some nodes.
LEMMA UpdatesAreStates ==
    ASSUME NEW new
    PROVE  new \in Updates <=> /\ new = [n \in DOMAIN new |-> new[n]]
                               /\ DOMAIN new \subseteq Shown
                               /\ \A n \in DOMAIN new : new[n] \in Versions
  <1>1. ASSUME new \in Updates
        PROVE  /\ new = [n \in DOMAIN new |-> new[n]]
               /\ DOMAIN new \subseteq Shown
               /\ \A n \in DOMAIN new : new[n] \in Versions
    <2>1. PICK ids \in SUBSET Shown : new \in [ids -> Versions]
      BY <1>1 DEF Updates
    <2> QED
      BY <2>1
  <1>2. ASSUME new = [n \in DOMAIN new |-> new[n]], DOMAIN new \subseteq Shown,
               \A n \in DOMAIN new : new[n] \in Versions
        PROVE  new \in Updates
    <2>1. PICK ids \in SUBSET Shown : ids = DOMAIN new
      BY <1>2
    <2>2. new \in [ids -> Versions]
      BY <1>2, <2>1
    <2> QED
      BY <2>2 DEF Updates
  <1> QED
    BY <1>1, <1>2

\* The page's bounds are numbers, its nodes a finite set of them.
LEMMA PageNumbers ==
    /\ PartSize \in Nat /\ PartSize > 0
    /\ MaxChanges \in Nat /\ MaxNotified \in Nat /\ MaxFailures \in Nat /\ MaxEvents \in Nat
    /\ Nodes \subseteq Nat /\ IsFiniteSet(Nodes)
  BY PageAssumption

\* The colours there are.
LEMMA ColoursOfStates ==
    \A v : Effective(v) \in {"none", "up", "down"}
  BY DEF Effective

\* A part has nodes beyond the one it was asked from.
LEMMA PartsGoOn ==
    ASSUME lastId \in Nodes \cup {0}, NEW ids \in U!PartsFrom(lastId, PartSize)
    PROVE  ids \subseteq Shown /\ IsFiniteSet(ids)
  <1>1. ids \subseteq U!After(lastId)
    BY DEF U!PartsFrom, U!GetAllNodesFrom, U!Lowest
  <1>2. \A n \in U!After(lastId) : n \in Nodes /\ n # 0
    BY PageNumbers DEF U!After
  <1>3. ids \subseteq Nodes
    BY <1>1, <1>2
  <1> QED
    BY <1>1, <1>2, <1>3, PageNumbers, FS_Subset DEF Shown

\* The types of the views after an update.
LEMMA UpdateTypes ==
    ASSUME PageInv, NEW new \in Updates, Update(new)
    PROVE  /\ store' \in [Shown -> Versions]
           /\ colour' \in [Shown -> {"none", "up", "down"}]
           /\ events' \in Seq(Updates) /\ Len(events') <= MaxEvents
           /\ tabQueue' \in Queues
  <1>1. /\ Len(events) < MaxEvents
        /\ colour' = [n \in Shown |->
                        IF n \in DOMAIN new /\ Effective(new[n]) # Effective(store[n])
                        THEN Effective(new[n]) ELSE colour[n]]
        /\ store' = [n \in Shown |-> IF n \in DOMAIN new THEN new[n] ELSE store[n]]
        /\ events' = Append(events, new)
        /\ tabQueue' = tabQueue
    BY DEF Update, Recolour
  <1>2. \A n \in DOMAIN new : new[n] \in Versions
    BY UpdatesAreStates
  <1>3. store' \in [Shown -> Versions]
    BY <1>1, <1>2 DEF PageInv
  <1>4. colour' \in [Shown -> {"none", "up", "down"}]
    BY <1>1, ColoursOfStates, Zenon DEF PageInv
  <1>5. events' \in Seq(Updates) /\ Len(events') <= MaxEvents
    <2>1. events \in Seq(Updates)
      BY DEF PageInv
    <2>2. events' \in Seq(Updates) /\ Len(events') = Len(events) + 1
      BY <1>1, <2>1
    <2> QED
      BY <1>1, <2>1, <2>2, PageNumbers
  <1> QED
    BY <1>1, <1>3, <1>4, <1>5 DEF PageInv

\* An answer that fails or breaks off does no harm to the types.
LEMMA FailuresBounded ==
    ASSUME failures \in 0..MaxFailures, Fails
    PROVE  failures' \in 0..MaxFailures
  BY PageNumbers DEF Fails

\* Each step keeps the types.
LEMMA PageInvStep ==
    ASSUME PageInv, PartFits, [Next]_vars
    PROVE  PageInv'
  <1>0. None \in Updates
    <2>1. DOMAIN None = {} /\ None = [n \in DOMAIN None |-> None[n]]
      BY DEF None
    <2> QED
      BY <2>1, UpdatesAreStates
  <1>1. CASE Deliver
    <2>1. events # <<>> /\ events \in Seq(Updates) /\ events' = Tail(events)
      BY <1>1 DEF Deliver, PageInv
    <2>2. Head(events) \in Updates /\ events' \in Seq(Updates) /\ Len(events') = Len(events) - 1
      BY <2>1
    <2>3. Len(events') <= MaxEvents
      BY <2>1, <2>2, PageNumbers DEF PageInv
    <2>4. tabQueue' \in Queues
      <3>1. PICK new \in Updates : new = Head(events)
        BY <2>2
      <3>2. DOMAIN new \subseteq Shown
        BY UpdatesAreStates
      <3>3. tabQueue \in Queues /\ tabQueue' = AfterUpdate(tabQueue, new)
        BY <1>1, <3>1 DEF Deliver, PageInv
      <3>4. AfterUpdate(tabQueue, new) \in QueueAfter(tabQueue, DOMAIN new, new)
        BY <3>2, <3>3, AfterUpdateQueue
      <3> QED
        BY <3>3, <3>4 DEF QueueAfter
    <2> QED
      BY <1>1, <2>2, <2>3, <2>4 DEF Deliver, PageInv, updater, live
  <1>2. CASE Timer
    BY <1>2 DEF Timer, U!updateCallback, U!updatePartStart, PageInv, live, views
  <1>3. CASE ServePart
    <2>1. PICK ids \in U!PartsFrom(lastId, PartSize) :
              /\ part' = [served |-> TRUE, nodes |-> Restrict(truth, ids)]
              /\ failures' = failures \/ Fails
      BY <1>3 DEF ServePart
    <2>2. ids \subseteq Shown
      BY PartsGoOn DEF PageInv
    <2>3. part'.nodes \in Updates
      <3>1. \A n \in ids : truth[n] \in Versions
        BY <2>2 DEF PageInv, Versions, Shown
      <3>2. PICK new : new = [n \in ids |-> truth[n]]
        OBVIOUS
      <3>3. new \in Updates
        BY <2>2, <3>1, <3>2, UpdatesAreStates
      <3> QED
        BY <2>1, <3>2, <3>3 DEF Restrict
    <2>4. failures' \in 0..MaxFailures
      BY <2>1, FailuresBounded DEF PageInv
    <2> QED
      BY <1>3, <2>3, <2>4 DEF ServePart, PageInv, updater, live, views
  <1>4. CASE PartArrives
    <2>1. /\ part.served /\ part' = NotServed
          /\ lastId' = U!NextId(DOMAIN part.nodes)
          /\ UNCHANGED <<live, truth, failures>>
      BY <1>4 DEF PartArrives, U!PartArrives
    <2>2. lastId' \in Nodes \cup {0}
      <3>1. PICK ids \in U!PartsFrom(lastId, PartSize) : ids = DOMAIN part.nodes
        BY <2>1 DEF PartFits
      <3>2. ids \subseteq Shown /\ IsFiniteSet(ids) /\ lastId \in Nodes \cup {0}
        BY PartsGoOn DEF PageInv
      <3>3. PICK s : s = ids \cup {lastId}
        OBVIOUS
      <3>4. s \subseteq Nodes \cup {0} /\ s \subseteq Nat /\ IsFiniteSet(s) /\ s # {}
        BY <3>2, <3>3, PageNumbers, FS_AddElement DEF Shown
      <3>5. U!Highest(s) \in s
        <4>1. PICK m \in s : \A i \in s : i <= m
          BY <3>4, GreatestNumber
        <4> QED
          BY <4>1 DEF U!Highest
      <3> QED
        BY <2>1, <3>1, <3>3, <3>4, <3>5 DEF U!NextId
    <2>3. part'.nodes \in Updates
      BY <1>0, <2>1 DEF NotServed
    <2>4. /\ store' \in [Shown -> Versions]
          /\ colour' \in [Shown -> {"none", "up", "down"}]
          /\ events' \in Seq(Updates) /\ Len(events') <= MaxEvents
          /\ tabQueue' \in Queues
      <3>1. CASE UNCHANGED views
        BY <3>1 DEF views, PageInv
      <3>2. CASE Update(part.nodes)
        <4>1. PICK new \in Updates : new = part.nodes
          BY DEF PageInv
        <4> QED
          BY <3>2, <4>1, UpdateTypes
      <3> QED
        BY <1>4, <3>1, <3>2 DEF PartArrives
    <2> QED
      BY <2>1, <2>2, <2>3, <2>4 DEF PageInv, live
  <1>5. CASE PartFails
    <2>1. lastId' = lastId /\ part' = NotServed /\ UNCHANGED <<live, views, truth>>
      BY <1>5 DEF PartFails, U!PartFails
    <2>2. failures' \in 0..MaxFailures
      BY <1>5, FailuresBounded DEF PartFails, PageInv
    <2>3. part'.nodes \in Updates
      BY <1>0, <2>1 DEF NotServed
    <2> QED
      BY <2>1, <2>2, <2>3 DEF PageInv, live, views
  <1>6. ASSUME NEW ids \in SUBSET Shown, Notification(ids)
        PROVE  PageInv'
    <2>1. /\ notified' = notified + 1 /\ fetching' = fetching \cup ({notified'} \X ids)
          /\ UNCHANGED <<updater, views, truth, part, fetched, failures>>
      BY <1>6 DEF Notification
    <2>2. notified \in Nat /\ fetching \subseteq (1..notified) \X Shown
          /\ fetched \subseteq (1..notified) \X Shown \X Versions
      BY DEF PageInv
    <2>3. \A k \in 1..notified : k \in 1..notified'
      BY <2>1, <2>2
    <2>4. notified' \in Nat /\ notified' \in 1..notified'
      BY <2>1, <2>2
    <2>5. fetching' \subseteq (1..notified') \X Shown
      BY <2>1, <2>2, <2>3, <2>4
    <2>6. fetched' \subseteq (1..notified') \X Shown \X Versions
      BY <2>1, <2>2, <2>3
    <2> QED
      BY <2>1, <2>4, <2>5, <2>6 DEF PageInv, updater, views
  <1>7. CASE ServeNode
    <2>1. PICK r \in fetching :
              /\ fetching' = fetching \ {r}
              /\ \/ fetched' = fetched \cup {<<r[1], r[2], truth[r[2]]>>} /\ failures' = failures
                 \/ fetched' = fetched \cup {<<r[1], r[2], NotFound>>} /\ Fails
      BY <1>7 DEF ServeNode
    <2>2. UNCHANGED <<updater, views, truth, part, notified>>
      BY <1>7 DEF ServeNode
    <2>3. r[1] \in 1..notified /\ r[2] \in Shown
      BY DEF PageInv
    <2>4. truth[r[2]] \in Versions /\ NotFound \in Versions
      BY <2>3 DEF PageInv, Versions, Shown
    <2>5. fetched' \subseteq (1..notified) \X Shown \X Versions
      BY <2>1, <2>3, <2>4 DEF PageInv
    <2>6. fetching' \subseteq (1..notified) \X Shown
      BY <2>1 DEF PageInv
    <2>7. failures' \in 0..MaxFailures
      BY <2>1, FailuresBounded DEF PageInv
    <2> QED
      BY <2>2, <2>5, <2>6, <2>7 DEF PageInv, updater, views
  <1>8. CASE NodeArrives
    <2>1. PICK r \in fetched :
              /\ fetched' = fetched \ {r}
              /\ Update([n \in {r[2]} |-> r[3]])
      BY <1>8 DEF NodeArrives
    <2>2. UNCHANGED <<updater, truth, part, fetching, notified, failures>>
      BY <1>8 DEF NodeArrives
    <2>3. r[2] \in Shown /\ r[3] \in Versions
      BY DEF PageInv
    <2>4. PICK new : new = [n \in {r[2]} |-> r[3]]
      OBVIOUS
    <2>5. new \in Updates
      BY <2>3, <2>4, UpdatesAreStates
    <2>6. /\ store' \in [Shown -> Versions]
          /\ colour' \in [Shown -> {"none", "up", "down"}]
          /\ events' \in Seq(Updates) /\ Len(events') <= MaxEvents
          /\ tabQueue' \in Queues
      BY <2>1, <2>4, <2>5, UpdateTypes
    <2> QED
      BY <2>1, <2>2, <2>6 DEF PageInv, updater
  <1>9. CASE NodeFails
    <2>1. PICK r \in fetching : fetching' = fetching \ {r}
      BY <1>9 DEF NodeFails
    <2>2. failures' \in 0..MaxFailures
      BY <1>9, FailuresBounded DEF NodeFails, PageInv
    <2> QED
      BY <1>9, <2>1, <2>2 DEF NodeFails, PageInv, updater, views
  <1>10. ASSUME NEW n \in Shown, Change(n)
         PROVE  PageInv'
    <2>1. /\ truth[n] < MaxChanges /\ truth' = [truth EXCEPT ![n] = truth[n] + 1]
          /\ UNCHANGED <<updater, live, views, part, failures>>
      BY <1>10 DEF Change
    <2>2. truth' \in [Nodes -> 0..MaxChanges]
      BY <2>1, PageNumbers DEF PageInv, Shown
    <2> QED
      BY <2>1, <2>2 DEF PageInv, updater, live, views
  <1>11. CASE UNCHANGED vars
    BY <1>11 DEF vars, PageInv
  <1> QED
    BY <1>1, <1>2, <1>3, <1>4, <1>5, <1>6, <1>7, <1>8, <1>9, <1>10, <1>11 DEF Next

\* The types hold at the start.
LEMMA PageInvInit == Init => PageInv
  <1> SUFFICES ASSUME Init PROVE PageInv
    OBVIOUS
  <1>1. lastId = 0 /\ notified = 0 /\ fetching = {} /\ fetched = {} /\ failures \in 0..MaxFailures
    BY PageNumbers DEF Init, U!Init
  <1>2. truth \in [Nodes -> 0..MaxChanges] /\ store \in [Shown -> Versions]
    BY PageNumbers DEF Init, Versions
  <1>3. colour \in [Shown -> {"none", "up", "down"}]
    BY ColoursOfStates DEF Init
  <1>4. events \in Seq(Updates) /\ Len(events) <= MaxEvents
    <2>1. events = <<>>
      BY DEF Init
    <2> QED
      BY <2>1, PageNumbers, EmptySeq
  <1>5. tabQueue \in Queues
    <2>1. tabQueue = <<>> /\ DOMAIN tabQueue = {}
      BY DEF Init
    <2> QED
      BY <2>1, EmptySeq DEF Queues, IsInjective
  <1>6. part.nodes \in Updates
    <2>1. part.nodes = None
      BY DEF Init, NotServed
    <2>2. DOMAIN None = {} /\ None = [n \in DOMAIN None |-> None[n]]
      BY DEF None
    <2> QED
      BY <2>1, <2>2, UpdatesAreStates
  <1> QED
    BY <1>1, <1>2, <1>3, <1>4, <1>5, <1>6 DEF PageInv

\* So the types hold throughout.
LEMMA PageInvariant == Spec => []PageInv
  <1>1. Init => OneRotation /\ PartFits /\ PageInv
    BY PageInvInit DEF Init, U!Init, OneRotation, U!OneRotation, PartFits, NotServed
  <1>2. OneRotation /\ PartFits /\ PageInv /\ [Next]_vars
            => OneRotation' /\ PartFits' /\ PageInv'
    BY OneRotationStep, PartFitsStep, PageInvStep
  <1> QED
    BY <1>1, <1>2, PTL DEF Spec

\* Whatever arrives late, twice, broken off or as a status object, the store,
\* the drawing and the tab stops stay within their types (store.js,
\* updateNode; ui.tabstop.js).
THEOREM PageTypes == Spec => []TypeOK
  <1>1. PageInv => TypeOK
    <2> SUFFICES ASSUME PageInv PROVE TypeOK
      OBVIOUS
    <2>1. \A i \in DOMAIN events : DOMAIN events[i] \subseteq Shown
      <3>1. \A i \in DOMAIN events : events[i] \in Updates
        BY DEF PageInv
      <3> QED
        BY <3>1, UpdatesAreStates
    <2>2. DOMAIN part.nodes \subseteq Shown
      BY UpdatesAreStates DEF PageInv
    <2> QED
      BY <2>1, <2>2 DEF PageInv, TypeOK, Versions, Queues
  <1> QED
    BY <1>1, PageInvariant, PTL
----------------------------------------------------------------------------
(* The tab stops and the updates under way.                                *)

\* The updates of a queue of them that mention a node.
MentionsIn(es, n) == {i \in DOMAIN es : n \in DOMAIN es[i]}

\* If updates mention a node, one is the last that does.
LEMMA SomeMentionIsLast ==
    ASSUME NEW es \in Seq(Updates), NEW n, MentionsIn(es, n) # {}
    PROVE  /\ Max(MentionsIn(es, n)) \in MentionsIn(es, n)
           /\ \A i \in MentionsIn(es, n) : i <= Max(MentionsIn(es, n))
  <1>1. PICK s : s = MentionsIn(es, n)
    OBVIOUS
  <1>2. s \subseteq Nat /\ IsFiniteSet(s) /\ s # {}
    <2>1. Len(es) \in Nat /\ DOMAIN es = 1..Len(es)
      OBVIOUS
    <2>2. s \subseteq 1..Len(es)
      BY <1>1, <2>1 DEF MentionsIn
    <2>3. IsFiniteSet(1..Len(es))
      BY <2>1, FS_Interval
    <2> QED
      BY <1>1, <2>1, <2>2, <2>3, FS_Subset
  <1>3. Max(s) \in s /\ \A i \in s : i <= Max(s)
    BY <1>2, MaxOfNumbers
  <1> QED
    BY <1>1, <1>2, <1>3

\* It is the one all others come before.
LEMMA LastMention ==
    ASSUME NEW es \in Seq(Updates), NEW n, NEW k \in MentionsIn(es, n),
           \A i \in MentionsIn(es, n) : i <= k
    PROVE  Max(MentionsIn(es, n)) = k
  <1>1. PICK s : s = MentionsIn(es, n)
    OBVIOUS
  <1>2. PICK m : m = Max(s)
    OBVIOUS
  <1>3. m \in s /\ \A i \in s : i <= m
    BY <1>1, <1>2, SomeMentionIsLast
  <1>4. m \in DOMAIN es /\ k \in DOMAIN es /\ m <= k /\ k <= m
    BY <1>1, <1>3 DEF MentionsIn
  <1>5. m \in Nat /\ k \in Nat
    BY <1>4
  <1> QED
    BY <1>1, <1>2, <1>4, <1>5

\* What the tab stops know of a node: the queue is up to date, or the last of
\* the updates under way will set it right.
KnownOf(es, queue, versions, n) ==
    IF MentionsIn(es, n) = {}
    THEN n \in ToSet(queue) <=> Problem(versions[n])
    ELSE es[Max(MentionsIn(es, n))][n] = versions[n]

TabStopsKnow == \A n \in Shown : KnownOf(events, tabQueue, store, n)

\* Together with the types this is what the property says of the tab stops.
LEMMA TabStopsByNode == PageInv => (TabStopsMatchStore <=> TabStopsKnow)
  <1> SUFFICES ASSUME PageInv PROVE TabStopsMatchStore <=> TabStopsKnow
    OBVIOUS
  <1>1. IsInjective(tabQueue)
    BY DEF PageInv, Queues
  <1>2. \A n : Mentions(n) = MentionsIn(events, n)
    BY DEF Mentions, MentionsIn
  <1> QED
    BY <1>1, <1>2 DEF TabStopsMatchStore, TabStopsKnow, KnownOf

\* An update under way is the last one of the nodes it mentions.
LEMMA UpdateIsKnown ==
    ASSUME NEW es \in Seq(Updates), NEW new \in Updates, NEW queue, NEW old,
           NEW versions, versions = [n \in Shown |-> IF n \in DOMAIN new THEN new[n] ELSE old[n]],
           NEW n \in Shown, KnownOf(es, queue, old, n)
    PROVE  KnownOf(Append(es, new), queue, versions, n)
  <1>1. PICK later : later = Append(es, new)
    OBVIOUS
  <1>2. PICK l \in Nat : l = Len(es)
    OBVIOUS
  <1>3. /\ later \in Seq(Updates) /\ DOMAIN es = 1..l /\ DOMAIN later = 1..(l + 1)
        /\ later[l + 1] = new /\ \A i \in 1..l : later[i] = es[i]
    BY <1>1, <1>2
  <1>4. CASE n \in DOMAIN new
    <2>1. l + 1 \in MentionsIn(later, n)
      BY <1>2, <1>3, <1>4 DEF MentionsIn
    <2>2. \A i \in MentionsIn(later, n) : i <= l + 1
      BY <1>2, <1>3 DEF MentionsIn
    <2>3. Max(MentionsIn(later, n)) = l + 1
      BY <1>3, <2>1, <2>2, LastMention
    <2>4. later[l + 1][n] = versions[n]
      BY <1>3, <1>4
    <2> QED
      BY <1>1, <2>1, <2>3, <2>4 DEF KnownOf
  <1>5. CASE n \notin DOMAIN new
    <2>1. MentionsIn(later, n) = MentionsIn(es, n)
      <3>1. \A i \in DOMAIN later : i \in DOMAIN es \/ i = l + 1
        BY <1>2, <1>3
      <3>2. \A i \in DOMAIN es : i \in DOMAIN later /\ later[i] = es[i]
        BY <1>2, <1>3
      <3> QED
        BY <1>3, <1>5, <3>1, <3>2 DEF MentionsIn
    <2>2. versions[n] = old[n]
      BY <1>5
    <2>3. CASE MentionsIn(es, n) = {}
      BY <1>1, <2>1, <2>2, <2>3 DEF KnownOf
    <2>4. CASE MentionsIn(es, n) # {}
      <3>1. PICK m : m = Max(MentionsIn(es, n))
        OBVIOUS
      <3>2. m \in MentionsIn(es, n)
        BY <2>4, <3>1, SomeMentionIsLast
      <3>3. later[m] = es[m]
        BY <1>3, <3>2 DEF MentionsIn
      <3>4. es[m][n] = old[n]
        BY <2>4, <3>1 DEF KnownOf
      <3> QED
        BY <1>1, <2>1, <2>2, <2>4, <3>1, <3>3, <3>4 DEF KnownOf
    <2> QED
      BY <2>3, <2>4
  <1> QED
    BY <1>4, <1>5

\* When the first update is delivered the tab stops know what it says of a
\* node, unless a later one says more.
LEMMA DeliveryIsKnown ==
    ASSUME NEW es \in Seq(Updates), es # <<>>, NEW queue \in Queues, NEW versions,
           NEW n \in Shown, KnownOf(es, queue, versions, n)
    PROVE  KnownOf(Tail(es), AfterUpdate(queue, Head(es)), versions, n)
  <1>1. PICK later : later = Tail(es)
    OBVIOUS
  <1>2. PICK l \in Nat : l = Len(es) /\ l > 0
    OBVIOUS
  <1>3. /\ later \in Seq(Updates) /\ DOMAIN es = 1..l /\ DOMAIN later = 1..(l - 1)
        /\ \A i \in 1..(l - 1) : later[i] = es[i + 1]
    BY <1>1, <1>2
  <1>4. PICK new \in Updates : new = Head(es) /\ new = es[1]
    OBVIOUS
  <1>5. PICK q : q = AfterUpdate(queue, new)
    OBVIOUS
  <1>6. ToSet(q) = (ToSet(queue) \ DOMAIN new) \cup Problems(DOMAIN new, new)
    <2>1. DOMAIN new \subseteq Shown
      BY UpdatesAreStates
    <2>2. AfterUpdate(queue, new) \in QueueAfter(queue, DOMAIN new, new)
      BY <2>1, AfterUpdateQueue
    <2> QED
      BY <1>5, <2>2 DEF QueueAfter
  <1>7. \A i \in MentionsIn(later, n) : i + 1 \in MentionsIn(es, n)
    BY <1>2, <1>3 DEF MentionsIn
  <1>8. \A i \in MentionsIn(es, n) : i # 1 => i - 1 \in MentionsIn(later, n)
    <2> SUFFICES ASSUME NEW i \in MentionsIn(es, n), i # 1
                 PROVE  i - 1 \in MentionsIn(later, n)
      OBVIOUS
    <2>1. i \in 1..l /\ i - 1 \in 1..(l - 1) /\ (i - 1) + 1 = i
      BY <1>2, <1>3 DEF MentionsIn
    <2>2. later[i - 1] = es[i]
      BY <1>3, <2>1
    <2> QED
      BY <1>3, <2>1, <2>2 DEF MentionsIn
  <1>9. 1 \in MentionsIn(es, n) <=> n \in DOMAIN new
    BY <1>2, <1>3, <1>4 DEF MentionsIn
  <1>10. CASE MentionsIn(later, n) # {}
    <2>1. PICK k : k = Max(MentionsIn(later, n))
      OBVIOUS
    <2>2. k \in MentionsIn(later, n) /\ \A i \in MentionsIn(later, n) : i <= k
      BY <1>3, <1>10, <2>1, SomeMentionIsLast
    <2>3. k \in 1..(l - 1) /\ later[k] = es[k + 1]
      BY <1>3, <2>2 DEF MentionsIn
    <2>4. k + 1 \in MentionsIn(es, n)
      BY <1>7, <2>2
    <2>5. ASSUME NEW i \in MentionsIn(es, n)
          PROVE  i <= k + 1
      <3>1. i \in 1..l
        BY <1>3 DEF MentionsIn
      <3>2. CASE i = 1
        BY <1>2, <2>3, <3>2
      <3>3. CASE i # 1
        <4>1. i - 1 <= k
          BY <1>8, <2>2, <3>3
        <4> QED
          BY <1>2, <2>3, <3>1, <4>1
      <3> QED
        BY <3>2, <3>3
    <2>6. Max(MentionsIn(es, n)) = k + 1
      BY <2>4, <2>5, LastMention
    <2>7. es[k + 1][n] = versions[n]
      BY <2>4, <2>6 DEF KnownOf
    <2> QED
      BY <1>1, <1>10, <2>1, <2>3, <2>7 DEF KnownOf
  <1>11. CASE MentionsIn(later, n) = {}
    <2>1. \A i \in MentionsIn(es, n) : i = 1
      BY <1>8, <1>11
    <2>2. CASE n \in DOMAIN new
      <3>1. Max(MentionsIn(es, n)) = 1
        <4>1. 1 \in MentionsIn(es, n) /\ \A i \in MentionsIn(es, n) : i <= 1
          BY <1>9, <2>1, <2>2
        <4> QED
          BY <4>1, LastMention
      <3>2. new[n] = versions[n]
        BY <1>4, <1>9, <2>2, <3>1 DEF KnownOf
      <3>3. n \in ToSet(q) <=> Problem(new[n])
        BY <1>6, <2>2 DEF Problems
      <3>4. n \in ToSet(q) <=> Problem(versions[n])
        BY <3>2, <3>3
      <3> QED
        BY <1>1, <1>4, <1>5, <1>11, <3>4, Zenon DEF KnownOf
    <2>3. CASE n \notin DOMAIN new
      <3>1. MentionsIn(es, n) = {}
        BY <1>9, <2>1, <2>3
      <3>2. n \in ToSet(queue) <=> Problem(versions[n])
        BY <3>1 DEF KnownOf
      <3>3. n \in ToSet(q) <=> n \in ToSet(queue)
        BY <1>6, <2>3 DEF Problems
      <3>4. n \in ToSet(q) <=> Problem(versions[n])
        BY <3>2, <3>3
      <3> QED
        BY <1>1, <1>4, <1>5, <1>11, <3>4, Zenon DEF KnownOf
    <2> QED
      BY <2>2, <2>3
  <1> QED
    BY <1>10, <1>11

\* An update keeps the tab stops and the store together.
LEMMA UpdateKeepsTabStops ==
    ASSUME PageInv, TabStopsKnow, NEW new \in Updates, Update(new)
    PROVE  TabStopsKnow'
  <1>1. /\ store' = [n \in Shown |-> IF n \in DOMAIN new THEN new[n] ELSE store[n]]
        /\ events' = Append(events, new)
        /\ tabQueue' = tabQueue
    BY DEF Update
  <1>2. events \in Seq(Updates)
    BY DEF PageInv
  <1>3. ASSUME NEW n \in Shown
        PROVE  KnownOf(events', tabQueue', store', n)
    <2>1. KnownOf(events, tabQueue, store, n)
      BY DEF TabStopsKnow
    <2>2. KnownOf(Append(events, new), tabQueue, store', n)
      BY <1>1, <1>2, <2>1, UpdateIsKnown
    <2> QED
      BY <1>1, <2>2
  <1> QED
    BY <1>3 DEF TabStopsKnow

\* So does every other step.
LEMMA TabStopsKnowStep ==
    ASSUME PageInv, TabStopsKnow, [Next]_vars
    PROVE  TabStopsKnow'
  <1>1. CASE Deliver
    <2>1. /\ events # <<>> /\ events \in Seq(Updates) /\ tabQueue \in Queues
          /\ events' = Tail(events) /\ tabQueue' = AfterUpdate(tabQueue, Head(events))
          /\ store' = store
      BY <1>1 DEF Deliver, PageInv
    <2>2. ASSUME NEW n \in Shown
          PROVE  KnownOf(events', tabQueue', store', n)
      <3>1. KnownOf(events, tabQueue, store, n)
        BY DEF TabStopsKnow
      <3>2. KnownOf(Tail(events), AfterUpdate(tabQueue, Head(events)), store, n)
        BY <2>1, <3>1, DeliveryIsKnown
      <3> QED
        BY <2>1, <3>2
    <2> QED
      BY <2>2 DEF TabStopsKnow
  <1>2. CASE PartArrives
    <2>1. CASE UNCHANGED views
      BY <2>1 DEF views, TabStopsKnow
    <2>2. CASE Update(part.nodes)
      <3>1. PICK new \in Updates : new = part.nodes
        BY DEF PageInv
      <3> QED
        BY <2>2, <3>1, UpdateKeepsTabStops
    <2> QED
      BY <1>2, <2>1, <2>2 DEF PartArrives
  <1>3. CASE NodeArrives
    <2>1. PICK r \in fetched : Update([n \in {r[2]} |-> r[3]])
      BY <1>3 DEF NodeArrives
    <2>2. r[2] \in Shown /\ r[3] \in Versions
      BY DEF PageInv
    <2>3. PICK new : new = [n \in {r[2]} |-> r[3]]
      OBVIOUS
    <2>4. new \in Updates
      BY <2>2, <2>3, UpdatesAreStates
    <2> QED
      BY <2>1, <2>3, <2>4, UpdateKeepsTabStops
  <1>4. CASE UNCHANGED <<store, events, tabQueue>>
    BY <1>4 DEF TabStopsKnow
  <1>5. \/ Deliver
        \/ PartArrives
        \/ NodeArrives
        \/ UNCHANGED <<store, events, tabQueue>>
    BY DEF Next, vars, views, Timer, ServePart, PartFails, Notification, ServeNode,
           NodeFails, Change
  <1> QED
    BY <1>1, <1>2, <1>3, <1>4, <1>5

\* However the answers to requests overtake one another, and although the tab
\* stops hear of an update only later, by a timer of their own, and find of a
\* node one place in their queue only: the drawing has the colours of the
\* states in the store, and once all timers have fired the queue has just the
\* nodes with problems (renderer.js, update_node; ui.tabstop.js,
\* handle_node_update).
THEOREM ViewsFollowStore == Spec => []ViewsMatchStore
  <1>1. Init => TabStopsKnow
    <2> SUFFICES ASSUME Init, NEW n \in Shown
                 PROVE  KnownOf(events, tabQueue, store, n)
      BY DEF TabStopsKnow
    <2>1. events = <<>> /\ tabQueue = <<>> /\ store[n] = 0
      BY DEF Init
    <2>2. MentionsIn(events, n) = {} /\ n \notin ToSet(tabQueue)
      BY <2>1 DEF MentionsIn, ToSet
    <2>3. ~Problem(0)
      BY DEF Problem, Effective, NotFound
    <2> QED
      BY <2>1, <2>2, <2>3 DEF KnownOf
  <1>2. PageInv /\ TabStopsKnow /\ [Next]_vars => TabStopsKnow'
    BY TabStopsKnowStep
  <1>3. PageInv => (TabStopsMatchStore <=> TabStopsKnow)
    BY TabStopsByNode
  <1>4. ColoursMatchStore /\ TabStopsMatchStore => ViewsMatchStore
    BY DEF ViewsMatchStore
  <1> QED
    BY <1>1, <1>2, <1>3, <1>4, PageInvariant, ColoursFollowStore, PTL DEF Spec
====
