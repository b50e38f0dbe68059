---- MODULE ConfigGenerator_proofs ----
(***************************************************************************)
(* Theorems about ConfigGenerator for every finite graph: each node gets   *)
(* at most one host to depend on, which was found before it and from which *)
(* a way leads to it; a search that has ended has found every host that    *)
(* can be reached; and the files are then those the names allow for.       *)
(***************************************************************************)
EXTENDS ConfigGenerator, DataLemmas

\* A call of dfs under way.
Call == [node : scanned, todo : SUBSET Hosts, usable : ToSet(nodes) \cup {None}]

\* The types, with what the calls under way know of the hosts found.
SearchTypes ==
    /\ edges \subseteq Hosts \X Hosts
    /\ usable \subseteq Hosts
    /\ scanned \subseteq Hosts
    /\ nodes \in Seq(usable) /\ ToSet(nodes) \subseteq scanned
    /\ stack \in Seq(Call)
    /\ connections \subseteq ToSet(nodes) \X scanned
    /\ written \in 0..Len(nodes)
    /\ crashed \in BOOLEAN

\* A node is in the list before the nodes that depend on it.
ParentsFirst ==
    \A c \in connections : \A i \in DOMAIN nodes :
        nodes[i] = c[2] => \E j \in DOMAIN nodes : j < i /\ nodes[j] = c[1]

SearchInv == SearchTypes /\ OneDependency /\ ParentsFirst
----------------------------------------------------------------------------
\* A link leads to a host.
LEMMA ChildrenAreHosts ==
    ASSUME SearchTypes, NEW n
    PROVE  Children(n) \subseteq Hosts
  BY DEF SearchTypes, Children

\* What a call of dfs does to the list of nodes.
LEMMA EnterEffect ==
    ASSUME SearchTypes, NEW n \in Hosts, NEW parent, Enter(n, parent)
    PROVE  /\ nodes' \in Seq(usable) /\ ToSet(nodes) \subseteq ToSet(nodes')
           /\ ToSet(nodes') \subseteq scanned'
           /\ \A i \in DOMAIN nodes : i \in DOMAIN nodes' /\ nodes'[i] = nodes[i]
           /\ \A i \in DOMAIN nodes' : i \in DOMAIN nodes
                                          \/ (nodes'[i] = n /\ i = Len(nodes) + 1)
           /\ Len(nodes') \in Nat /\ Len(nodes) <= Len(nodes')
           /\ n \in usable => n \in ToSet(nodes')
  <1>1. /\ nodes \in Seq(usable) /\ ToSet(nodes) \subseteq scanned /\ Len(nodes) \in Nat
        /\ DOMAIN nodes = 1..Len(nodes) /\ scanned' = scanned \cup {n}
    BY DEF SearchTypes, Enter
  <1>2. CASE n \in usable
    <2>1. nodes' = Append(nodes, n)
      BY <1>2 DEF Enter
    <2>2. /\ nodes' \in Seq(usable) /\ Len(nodes') = Len(nodes) + 1
          /\ \A i \in 1..Len(nodes) : nodes'[i] = nodes[i]
          /\ nodes'[Len(nodes) + 1] = n
          /\ DOMAIN nodes' = 1..Len(nodes) + 1
      BY <1>1, <1>2, <2>1, AppendProperties, LenProperties
    <2>3. \A i \in DOMAIN nodes : i \in DOMAIN nodes' /\ nodes'[i] = nodes[i]
      BY <1>1, <2>2
    <2>4. \A i \in 1..Len(nodes) + 1 : i \in 1..Len(nodes) \/ i = Len(nodes) + 1
      BY <1>1
    <2>5. \A i \in DOMAIN nodes' : i \in DOMAIN nodes \/ (nodes'[i] = n /\ i = Len(nodes) + 1)
      <3> SUFFICES ASSUME NEW i \in DOMAIN nodes', i \notin DOMAIN nodes
                   PROVE  nodes'[i] = n /\ i = Len(nodes) + 1
        OBVIOUS
      <3>1. i = Len(nodes) + 1
        BY <1>1, <2>2, <2>4
      <3> QED
        BY <2>2, <3>1
    <2>6. Len(nodes) + 1 \in DOMAIN nodes'
      BY <1>1, <2>2
    <2>7. /\ ToSet(nodes) \subseteq ToSet(nodes') /\ ToSet(nodes') \subseteq scanned'
          /\ n \in ToSet(nodes')
      BY <1>1, <2>2, <2>3, <2>5, <2>6 DEF ToSet
    <2> QED
      BY <1>1, <2>2, <2>3, <2>5, <2>7
  <1>3. CASE n \notin usable
    <2>1. nodes' = nodes
      BY <1>3 DEF Enter
    <2>2. ToSet(nodes') \subseteq scanned'
      BY <1>1, <2>1
    <2>3. Len(nodes') \in Nat /\ Len(nodes) <= Len(nodes')
      BY <1>1, <2>1
    <2>4. nodes' \in Seq(usable) /\ ToSet(nodes) \subseteq ToSet(nodes')
      BY <1>1, <2>1
    <2> QED
      BY <1>3, <2>1, <2>2, <2>3, <2>4
  <1> QED
    BY <1>2, <1>3

\* A node that is found for the first time is new to the list and to the
\* dependencies.
LEMMA EnterKeepsInv ==
    ASSUME SearchInv, NEW n \in Hosts, n \notin scanned,
           NEW parent \in ToSet(nodes) \cup {None}, Enter(n, parent),
           UNCHANGED <<graph, output>>, stack' \in Seq(Call')
    PROVE  SearchInv'
  <1>1. /\ ToSet(nodes) \subseteq scanned /\ Len(nodes) \in Nat
        /\ DOMAIN nodes = 1..Len(nodes)
        /\ connections \subseteq ToSet(nodes) \X scanned
        /\ scanned \subseteq Hosts /\ scanned' = scanned \cup {n}
    BY DEF SearchInv, SearchTypes, Enter
  <1>2. \A i \in DOMAIN nodes : nodes[i] \in scanned /\ nodes[i] # n
    BY <1>1 DEF ToSet
  <1>3. /\ nodes' \in Seq(usable) /\ ToSet(nodes) \subseteq ToSet(nodes')
        /\ ToSet(nodes') \subseteq scanned'
        /\ \A i \in DOMAIN nodes : i \in DOMAIN nodes' /\ nodes'[i] = nodes[i]
        /\ \A i \in DOMAIN nodes' : i \in DOMAIN nodes
                                       \/ (nodes'[i] = n /\ i = Len(nodes) + 1)
        /\ Len(nodes') \in Nat /\ Len(nodes) <= Len(nodes')
    BY EnterEffect DEF SearchInv
  <1>4. connections' \subseteq connections \cup {<<parent, n>>}
           /\ (connections' = connections \/ parent \in ToSet(nodes))
    BY DEF Enter
  <1>5. SearchTypes'
    <2>0. ToSet(nodes)' = ToSet(nodes')
      BY DEF ToSet
    <2>1. connections' \subseteq ToSet(nodes)' \X scanned'
      BY <1>1, <1>3, <1>4, <2>0
    <2>2. written' \in 0..Len(nodes')
      BY <1>1, <1>3 DEF SearchInv, SearchTypes, output
    <2> QED
      BY <1>1, <1>3, <2>0, <2>1, <2>2 DEF SearchInv, SearchTypes, graph, output
  <1>6. OneDependency'
    <2>1. \A a, b \in DOMAIN nodes' : nodes'[a] = nodes'[b] => a = b
      BY <1>1, <1>2, <1>3 DEF SearchInv, OneDependency, IsInjective
    <2>2. \A c, d \in connections' : c[2] = d[2] => c = d
      BY <1>1, <1>4 DEF SearchInv, OneDependency
    <2> QED
      BY <2>1, <2>2 DEF OneDependency, IsInjective
  <1>7. ParentsFirst'
    <2> SUFFICES ASSUME NEW c \in connections', NEW i \in DOMAIN nodes', nodes'[i] = c[2]
                 PROVE  \E j \in DOMAIN nodes' : j < i /\ nodes'[j] = c[1]
      BY DEF ParentsFirst
    <2>1. CASE c \in connections
      <3>1. i \in DOMAIN nodes
        BY <1>1, <1>3, <2>1
      <3>2. PICK j \in DOMAIN nodes : j < i /\ nodes[j] = c[1]
        BY <1>3, <2>1, <3>1 DEF SearchInv, ParentsFirst
      <3> QED
        BY <1>3, <3>2
    <2>2. CASE c \notin connections
      <3>1. c = <<parent, n>> /\ parent \in ToSet(nodes)
        BY <1>4, <2>2
      <3>2. PICK j \in DOMAIN nodes : nodes[j] = parent
        BY <3>1 DEF ToSet
      <3>3. i = Len(nodes) + 1
        BY <1>2, <1>3, <3>1
      <3>4. j < i /\ j \in DOMAIN nodes' /\ nodes'[j] = parent
        BY <1>1, <1>3, <3>2, <3>3
      <3> QED
        BY <3>1, <3>4
    <2> QED
      BY <2>1, <2>2
  <1> QED
    BY <1>5, <1>6, <1>7 DEF SearchInv

\* The stack after a change of its top.
LEMMA StackOfCalls ==
    ASSUME SearchTypes, stack # <<>>, NEW C, Call \subseteq C
    PROVE  /\ Top \in Call /\ Tail(stack) \in Seq(C)
           /\ \A n : Rest(n) \in Seq(C)
           /\ \A n : \A f \in C : <<f>> \o Rest(n) \in Seq(C)
  <1>1. Top \in Call /\ Tail(stack) \in Seq(Call)
    BY HeadTailProperties DEF SearchTypes, Top
  <1>2. Tail(stack) \in Seq(C)
    BY <1>1, SeqMonotonic
  <1>3. ASSUME NEW n
        PROVE  [Top EXCEPT !.todo = @ \ {n}] \in C
    BY <1>1 DEF Call
  <1>4. \A f \in C, s \in Seq(C) : <<f>> \o s \in Seq(C)
    <2>1. \A f \in C : <<f>> \in Seq(C)
      OBVIOUS
    <2> QED
      BY <2>1, ConcatProperties
  <1>5. \A n : Rest(n) \in Seq(C)
    BY <1>2, <1>3, <1>4 DEF Rest
  <1> QED
    BY <1>1, <1>2, <1>4, <1>5

\* A node is looked at once, in the call for its first parent.
LEMMA LookKeepsInv ==
    ASSUME SearchInv, Look
    PROVE  SearchInv'
  <1>1. stack # <<>> /\ SearchTypes /\ UNCHANGED <<graph, output>>
    BY DEF Look, SearchInv
  <1>2. PICK n \in Top.todo :
            \/ /\ ~IsScanned(n)
               /\ stack' = <<Frame(n, Top.usable)>> \o Rest(n)
               /\ Enter(n, Top.usable)
            \/ /\ IsScanned(n)
               /\ stack' = Rest(n)
               /\ UNCHANGED <<scanned, nodes, connections>>
    BY DEF Look
  <1>3. Top \in Call
    BY <1>1, StackOfCalls
  <1>4. n \in Hosts /\ Top.usable \in ToSet(nodes) \cup {None}
    BY <1>2, <1>3 DEF Call
  <1>5. CASE IsScanned(n)
    <2>1. stack' \in Seq(Call) /\ UNCHANGED <<scanned, nodes, connections>>
      BY <1>1, <1>2, <1>5, StackOfCalls
    <2>2. Call' = Call /\ ToSet(nodes)' = ToSet(nodes)
      BY <2>1 DEF Call, ToSet
    <2> QED
      BY <1>1, <2>1, <2>2
         DEF SearchInv, SearchTypes, OneDependency, ParentsFirst, IsInjective, graph, output
  <1>6. CASE ~IsScanned(n)
    <2>1. PICK parent \in ToSet(nodes) \cup {None} : parent = Top.usable
      BY <1>4
    <2>2. Enter(n, parent) /\ stack' = <<Frame(n, parent)>> \o Rest(n)
      BY <1>2, <1>6, <2>1
    <2>3. /\ ToSet(nodes) \subseteq ToSet(nodes')
          /\ n \in usable => n \in ToSet(nodes')
          /\ scanned' = scanned \cup {n} /\ ToSet(nodes)' = ToSet(nodes')
      <3>1. ToSet(nodes)' = ToSet(nodes')
        BY DEF ToSet
      <3>2. scanned' = scanned \cup {n}
        BY <2>2 DEF Enter
      <3> QED
        BY <1>1, <1>4, <2>2, <3>1, <3>2, EnterEffect
    <2>4. Call' = [node : scanned', todo : SUBSET Hosts, usable : ToSet(nodes') \cup {None}]
      BY <2>3 DEF Call
    <2>5. Call \subseteq Call'
      <3> SUFFICES ASSUME NEW c \in Call
                   PROVE  c \in Call'
        OBVIOUS
      <3>1. /\ c = [node |-> c.node, todo |-> c.todo, usable |-> c.usable]
            /\ c.node \in scanned /\ c.todo \in SUBSET Hosts
            /\ c.usable \in ToSet(nodes) \cup {None}
        BY DEF Call
      <3>2. c.node \in scanned' /\ c.usable \in ToSet(nodes') \cup {None}
        BY <2>3, <3>1
      <3> QED
        BY <2>4, <3>1, <3>2
    <2>6. Frame(n, parent) \in Call'
      <3>1. Children(n) \in SUBSET Hosts
        BY <1>1, ChildrenAreHosts
      <3>2. n \in scanned' /\ (IF n \in usable THEN n ELSE parent) \in ToSet(nodes') \cup {None}
        BY <2>3
      <3> QED
        BY <2>4, <3>1, <3>2 DEF Frame
    <2>7. stack' \in Seq(Call')
      <3>1. PICK C : C = Call'
        OBVIOUS
      <3>2. PICK f : f = Frame(n, parent)
        OBVIOUS
      <3> QED
        BY <1>1, <2>2, <2>5, <2>6, <3>1, <3>2, StackOfCalls
    <2> QED
      BY <1>1, <1>4, <1>6, <2>1, <2>2, <2>7, EnterKeepsInv DEF IsScanned
  <1> QED
    BY <1>5, <1>6

\* Nothing else changes the list or the dependencies.
LEMMA SearchInvStep ==
    ASSUME SearchInv, [Next]_vars
    PROVE  SearchInv'
  <1>1. ASSUME UNCHANGED <<graph, scanned, nodes, connections>>,
               stack' = stack \/ (stack' = Tail(stack) /\ stack # <<>>),
               written' \in 0..Len(nodes), crashed' \in BOOLEAN
        PROVE  SearchInv'
    <2>1. Call' = Call /\ ToSet(nodes)' = ToSet(nodes)
      BY <1>1 DEF Call, ToSet
    <2>2. stack' \in Seq(Call)
      BY <1>1, StackOfCalls DEF SearchInv, SearchTypes
    <2> QED
      BY <1>1, <2>1, <2>2
         DEF SearchInv, SearchTypes, OneDependency, ParentsFirst, IsInjective, graph
  <1>2. written \in 0..Len(nodes) /\ crashed \in BOOLEAN /\ Len(nodes) \in Nat
    BY DEF SearchInv, SearchTypes
  <1>3. CASE Look
    BY <1>3, LookKeepsInv
  <1>4. CASE Return
    BY <1>1, <1>2, <1>4 DEF Return, output
  <1>5. CASE Write
    <2>1. written' \in 0..Len(nodes)
      BY <1>2, <1>5 DEF Write
    <2>2. crashed' \in BOOLEAN
      BY <1>2, <1>5, Zenon DEF Write
    <2>3. UNCHANGED <<graph, stack, scanned, nodes, connections>>
      BY <1>5 DEF Write, search
    <2> QED
      BY <1>1, <2>1, <2>2, <2>3
  <1>6. CASE UNCHANGED vars
    <2>1. UNCHANGED <<graph, stack, scanned, nodes, connections, written, crashed>>
      BY <1>6 DEF vars, graph
    <2> QED
      BY <1>1, <1>2, <2>1
  <1> QED
    BY <1>3, <1>4, <1>5, <1>6 DEF Next

\* At the start one call looks at the first host.
LEMMA SearchInvStart == Init => SearchInv
  <1> SUFFICES ASSUME Init PROVE SearchInv
    OBVIOUS
  <1>1. /\ edges \subseteq Hosts \X Hosts /\ usable \subseteq Hosts
        /\ scanned = {start_host} /\ start_host \in Hosts
        /\ connections = {} /\ written = 0
    BY GeneratorAssumption DEF Init
  <1>2. /\ nodes \in Seq(usable) /\ ToSet(nodes) \subseteq scanned
        /\ IsInjective(nodes) /\ Len(nodes) \in Nat
        /\ start_host \in usable => start_host \in ToSet(nodes)
    BY <1>1 DEF Init, ToSet, IsInjective
  <1>3. Children(start_host) \subseteq Hosts
    BY <1>1 DEF Children
  <1>4. Frame(start_host, None) \in Call
    BY <1>1, <1>2, <1>3 DEF Frame, Call
  <1>5. stack \in Seq(Call)
    BY <1>4 DEF Init
  <1>6. crashed \in BOOLEAN
    BY Zenon DEF Init
  <1> QED
    BY <1>1, <1>2, <1>5, <1>6 DEF SearchInv, SearchTypes, OneDependency, ParentsFirst

\* No node is in the list twice: its position is the one place it has.
LEMMA PositionIs ==
    ASSUME SearchInv, NEW i \in DOMAIN nodes
    PROVE  Position(nodes[i]) = i
  <1>1. nodes[i] \in ToSet(nodes)
    BY DEF ToSet
  <1>2. \A j \in DOMAIN nodes : nodes[j] = nodes[i] => j = i
    BY DEF SearchInv, OneDependency, IsInjective
  <1> QED
    BY <1>1, <1>2 DEF Position

\* The positions in the list are the order in which hosts were found.
LEMMA SearchInvShows == SearchInv => OneDependency /\ FoundBefore
  <1> SUFFICES ASSUME SearchInv, NEW c \in connections
               PROVE  Position(c[1]) < Position(c[2])
    BY DEF FoundBefore, SearchInv
  <1>1. /\ DOMAIN nodes = 1..Len(nodes) /\ Len(nodes) \in Nat
        /\ c[1] \in ToSet(nodes)
    BY DEF SearchInv, SearchTypes
  <1>2. \A i \in DOMAIN nodes : Position(nodes[i]) = i
    BY PositionIs
  <1>3. CASE c[2] \in ToSet(nodes)
    <2>1. PICK i \in DOMAIN nodes : nodes[i] = c[2]
      BY <1>3 DEF ToSet
    <2>2. PICK j \in DOMAIN nodes : j < i /\ nodes[j] = c[1]
      BY <2>1 DEF SearchInv, ParentsFirst
    <2> QED
      BY <1>2, <2>1, <2>2
  <1>4. CASE c[2] \notin ToSet(nodes)
    <2>1. PICK j \in DOMAIN nodes : nodes[j] = c[1]
      BY <1>1 DEF ToSet
    <2>2. Position(c[2]) = Len(nodes) + 1
      BY <1>4 DEF Position
    <2> QED
      BY <1>1, <1>2, <2>1, <2>2
  <1> QED
    BY <1>3, <1>4
----------------------------------------------------------------------------
\* A set of hosts that ways from S through Via do not leave.
Encloses(X, S, Via) ==
    /\ X \subseteq Hosts /\ S \subseteq X
    /\ \A n \in X \cap (S \cup Via) : Children(n) \subseteq X

\* What the recursion in ReachableVia makes of r.
Spread(r, S, Via) ==
    [k \in 0..Cardinality(Hosts) |->
        IF k = 0 THEN S
        ELSE r[k - 1] \cup UNION {Children(n) : n \in r[k - 1] \cap (S \cup Via)}]

\* That recursion has a solution.
LEMMA ReachSolution ==
    ASSUME edges \subseteq Hosts \X Hosts, NEW S, S \subseteq Hosts, NEW Via
    PROVE  \E r : r = Spread(r, S, Via)
  <1> DEFINE N == Cardinality(Hosts)
             More(X) == X \cup UNION {Children(n) : n \in X \cap (S \cup Via)}
             G(r) == [k \in 0..N |-> IF k = 0 THEN S
                                     ELSE r[k - 1] \cup UNION {Children(n) : n \in r[k - 1] \cap (S \cup Via)}]
             step == [X \in SUBSET Hosts |-> More(X)]
  <1>1. N \in Nat /\ IsFiniteSet(Hosts)
    BY GeneratorAssumption, FS_CardinalityType
  <1>2. \A n : Children(n) \subseteq Hosts
    BY DEF Children
  <1>3. step \in [SUBSET Hosts -> SUBSET Hosts]
    <2>1. \A X \in SUBSET Hosts : More(X) \in SUBSET Hosts
      BY <1>2
    <2> HIDE DEF More
    <2> QED
      BY <2>1
  <1> HIDE DEF N
  <1>5. PICK r \in [0..N -> SUBSET Hosts] :
                \A k \in 0..N : r[k] = IF k = 0 THEN S ELSE step[r[k - 1]]
    <2> HIDE DEF step
    <2>1. PICK V : V = SUBSET Hosts
      OBVIOUS
    <2>2. PICK f : f = step
      OBVIOUS
    <2>3. PICK m : m = N
      OBVIOUS
    <2>4. S \in V /\ f \in [V -> V] /\ m \in Nat
      BY <1>1, <1>3, <2>1, <2>2, <2>3
    <2>5. PICK g : IsIteration(g, V, S, f, m)
      BY <2>4, RecursionOverInterval
    <2> QED
      BY <2>1, <2>2, <2>3, <2>5 DEF IsIteration
  <1>6. r = G(r)
    <2>1. ASSUME NEW k \in 0..N PROVE r[k] = G(r)[k]
      <3>1. CASE k = 0
        BY <1>5, <3>1
      <3>2. CASE k # 0
        <4>1. k - 1 \in 0..N
          BY <1>1, <3>2
        <4>2. r[k - 1] \in SUBSET Hosts
          BY <1>5, <4>1
        <4>3. r[k] = step[r[k - 1]]
          <5> HIDE DEF step
          <5> QED
            BY <1>5, <3>2
        <4>4. step[r[k - 1]] = More(r[k - 1])
          BY <4>2
        <4>5. G(r)[k] = More(r[k - 1])
          BY <3>2
        <4> QED
          BY <4>3, <4>4, <4>5
      <3> QED
        BY <3>1, <3>2
    <2>2. DOMAIN r = 0..N /\ r = [k \in 0..N |-> r[k]]
      <3> HIDE DEF step
      <3> QED
        BY <1>5
    <2>3. DOMAIN G(r) = 0..N /\ G(r) = [k \in 0..N |-> G(r)[k]]
      OBVIOUS
    <2> HIDE DEF G
    <2> QED
      BY <2>1, <2>2, <2>3
  <1>7. \A f : G(f) = Spread(f, S, Via)
    BY DEF Spread, N
  <1> HIDE DEF G
  <1> QED
    BY <1>6, <1>7

\* They do not leave what is reachable: as long as a step finds new hosts, there
\* are more of them than steps were made, and there are only so many.
LEMMA ReachableEncloses ==
    ASSUME edges \subseteq Hosts \X Hosts, NEW S, S \subseteq Hosts, S # {}, NEW Via
    PROVE  Encloses(ReachableVia(S, Via), S, Via)
  <1> DEFINE N == Cardinality(Hosts)
             More(X) == X \cup UNION {Children(n) : n \in X \cap (S \cup Via)}
             reach == CHOOSE r : r = Spread(r, S, Via)
  <1>1. N \in Nat /\ IsFiniteSet(Hosts)
    BY GeneratorAssumption, FS_CardinalityType
  <1>2. \A n : Children(n) \subseteq Hosts
    BY DEF Children
  <1>4. ReachableVia(S, Via) = reach[N]
    BY DEF ReachableVia, Spread
  <1>7. reach = Spread(reach, S, Via)
    <2>1. PICK r : r = Spread(r, S, Via)
      BY ReachSolution
    <2> QED
      BY <2>1
  <1> HIDE DEF N, reach
  <1>8. reach[0] = S /\ \A k \in 0..(N - 1) : reach[k + 1] = More(reach[k])
    <2>1. reach[0] = S
      BY <1>1, <1>7 DEF Spread, N
    <2>2. ASSUME NEW k \in 0..(N - 1) PROVE reach[k + 1] = More(reach[k])
      <3>1. k + 1 \in 0..N /\ k + 1 # 0 /\ (k + 1) - 1 = k
        BY <1>1
      <3>2. reach[k + 1] = Spread(reach, S, Via)[k + 1]
        BY <1>7
      <3>3. Spread(reach, S, Via)[k + 1] = More(reach[(k + 1) - 1])
        BY <3>1 DEF Spread, N
      <3> QED
        BY <3>1, <3>2, <3>3
    <2> QED
      BY <2>1, <2>2
  \* As long as it grows, a set has more members than steps were made.
  <1> DEFINE Closed(X) == \A n \in X \cap (S \cup Via) : Children(n) \subseteq X
             A == {k \in 0..N : /\ S \subseteq reach[k] /\ reach[k] \subseteq Hosts
                                /\ Cardinality(reach[k]) > k \/ Closed(reach[k])}
  <1>9. 0 \in A
    <2>1. IsFiniteSet(S) /\ Cardinality(S) \in Nat /\ Cardinality(S) # 0
      BY <1>1, FS_Subset, FS_CardinalityType, FS_EmptySet
    <2> HIDE DEF Closed
    <2> QED
      BY <1>1, <1>8, <2>1
  <1>10. ASSUME NEW k \in 0..(N - 1), k \in A PROVE k + 1 \in A
    <2>1. PICK X : X = reach[k]
      OBVIOUS
    <2>2. reach[k + 1] = More(X) /\ S \subseteq X /\ X \subseteq Hosts /\ X \subseteq More(X)
             /\ k + 1 \in 0..N
      BY <1>1, <1>8, <1>10, <2>1
    <2>3. More(X) \subseteq Hosts /\ S \subseteq More(X)
      BY <1>2, <2>2
    <2>4. CASE Closed(X)
      <3>1. More(X) = X
        BY <2>4
      <3> HIDE DEF More, Closed
      <3> QED
        BY <2>2, <2>4, <3>1
    <2>5. CASE ~Closed(X)
      <3>1. More(X) # X
        BY <2>5
      <3>2. IsFiniteSet(X) /\ IsFiniteSet(More(X))
        <4> HIDE DEF More
        <4> QED
          BY <1>1, <2>2, <2>3, FS_Subset
      <3>3. Cardinality(X) \in Nat /\ Cardinality(More(X)) \in Nat
        <4> HIDE DEF More
        <4> QED
          BY <3>2, FS_CardinalityType
      <3>4. Cardinality(X) < Cardinality(More(X))
        <4> HIDE DEF More
        <4>1. Cardinality(X) <= Cardinality(More(X))
                 /\ (Cardinality(X) = Cardinality(More(X)) => X = More(X))
          BY <2>2, <3>2, FS_Subset
        <4> QED
          BY <3>1, <3>3, <4>1
      <3>5. Cardinality(X) > k
        <4> HIDE DEF Closed
        <4> QED
          BY <1>10, <2>1, <2>5
      <3>6. Cardinality(More(X)) > k + 1
        <4> HIDE DEF More
        <4> QED
          BY <3>3, <3>4, <3>5
      <3> HIDE DEF More, Closed
      <3> QED
        BY <2>2, <2>3, <3>6
    <2> QED
      BY <2>4, <2>5
  <1>11. 0..N \subseteq A
    <2> HIDE DEF A
    <2> QED
      BY <1>1, <1>9, <1>10, IntervalOfNumbers
  <1>12. N \in A
    BY <1>1, <1>11
  <1>13. PICK X : X = reach[N]
    OBVIOUS
  <1>14. S \subseteq X /\ X \subseteq Hosts /\ (Cardinality(X) > N \/ Closed(X))
    <2> HIDE DEF Closed
    <2> QED
      BY <1>12, <1>13
  <1>15. Cardinality(X) <= N /\ Cardinality(X) \in Nat
    BY <1>1, <1>14, FS_Subset, FS_CardinalityType DEF N
  <1> QED
    BY <1>1, <1>4, <1>13, <1>14, <1>15 DEF Encloses

\* The least such set is what is reachable.
LEMMA ReachableIsLeast ==
    ASSUME NEW S, S # {}, S \subseteq Hosts, edges \subseteq Hosts \X Hosts, NEW Via,
           NEW X, Encloses(X, S, Via)
    PROVE  ReachableVia(S, Via) \subseteq X
  <1> DEFINE N == Cardinality(Hosts)
             reach == CHOOSE r : r = Spread(r, S, Via)
  <1>1. N \in Nat
    BY GeneratorAssumption, FS_CardinalityType
  <1>2. ReachableVia(S, Via) = reach[N]
    BY DEF ReachableVia, Spread
  <1>3. reach = Spread(reach, S, Via)
    <2>1. PICK r : r = Spread(r, S, Via)
      BY ReachSolution
    <2> QED
      BY <2>1
  <1> HIDE DEF N, reach
  <1> DEFINE A == {k \in 0..N : reach[k] \subseteq X}
  <1>4. 0 \in A
    <2>1. reach[0] = S
      BY <1>1, <1>3 DEF Spread, N
    <2> QED
      BY <1>1, <2>1 DEF Encloses
  <1>5. ASSUME NEW k \in 0..(N - 1), k \in A PROVE k + 1 \in A
    <2>1. k + 1 \in 0..N /\ k + 1 # 0 /\ (k + 1) - 1 = k
      BY <1>1
    <2>2. reach[k + 1] = Spread(reach, S, Via)[k + 1]
      BY <1>3
    <2>3. Spread(reach, S, Via)[k + 1]
              = reach[k] \cup UNION {Children(n) : n \in reach[k] \cap (S \cup Via)}
      BY <2>1 DEF Spread, N
    <2>4. reach[k] \subseteq X
      BY <1>5
    <2>5. \A n \in reach[k] \cap (S \cup Via) : Children(n) \subseteq X
      BY <2>4 DEF Encloses
    <2>6. reach[k + 1] \subseteq X
      BY <2>2, <2>3, <2>4, <2>5
    <2> QED
      BY <2>1, <2>6
  <1>6. 0..N \subseteq A
    <2> HIDE DEF A
    <2> QED
      BY <1>1, <1>4, <1>5, IntervalOfNumbers
  <1> QED
    BY <1>1, <1>2, <1>6
----------------------------------------------------------------------------
\* A way leads from the host p to n with no usable host between them: no set of
\* hosts that has p but not n keeps such ways from p inside.
WayTo(p, n) ==
    \A X \in SUBSET Hosts :
        /\ p \in X
        /\ \A m \in X : m = p \/ m \notin usable => Children(m) \subseteq X
        => n \in X

\* A call of dfs looks at children of its node, and a way leads from its usable
\* parent to it.
CallWithWay ==
    {f \in [node : Hosts, todo : SUBSET Hosts, usable : Hosts \cup {None}] :
        /\ f.todo \subseteq Children(f.node)
        /\ f.usable # None => /\ WayTo(f.usable, f.node)
                              /\ f.node = f.usable \/ f.node \notin usable}

WaysInv ==
    /\ stack \in Seq(CallWithWay)
    /\ \A c \in connections : WayTo(c[1], c[2])

\* A way goes on to the children of such a node.
LEMMA WayGoesOn ==
    ASSUME NEW p, NEW m \in Hosts, WayTo(p, m), m = p \/ m \notin usable, NEW n \in Children(m)
    PROVE  WayTo(p, n)
  BY DEF WayTo

\* The search of a child: a new call, and a dependency on the usable parent.
LEMMA LookKeepsWays ==
    ASSUME SearchTypes, WaysInv, Look
    PROVE  WaysInv'
  <1>1. stack # <<>> /\ UNCHANGED <<edges, usable>>
    BY DEF Look, graph
  <1>2. CallWithWay' = CallWithWay /\ \A p, n : WayTo(p, n)' = WayTo(p, n)
    BY <1>1 DEF CallWithWay, WayTo, Children
  <1>3. Top \in CallWithWay /\ Tail(stack) \in Seq(CallWithWay)
    BY <1>1, HeadTailProperties DEF WaysInv, Top
  <1>4. PICK n \in Top.todo :
            \/ /\ ~IsScanned(n)
               /\ stack' = <<Frame(n, Top.usable)>> \o Rest(n)
               /\ Enter(n, Top.usable)
            \/ /\ IsScanned(n)
               /\ stack' = Rest(n)
               /\ UNCHANGED <<scanned, nodes, connections>>
    BY DEF Look
  <1>5. \A f \in CallWithWay, s \in Seq(CallWithWay) : <<f>> \o s \in Seq(CallWithWay)
    <2>1. \A f \in CallWithWay : <<f>> \in Seq(CallWithWay)
      OBVIOUS
    <2> QED
      BY <2>1, ConcatProperties
  <1>6. Rest(n) \in Seq(CallWithWay)
    <2>1. [Top EXCEPT !.todo = @ \ {n}] \in CallWithWay
      BY <1>3 DEF CallWithWay
    <2> QED
      BY <1>3, <1>5, <2>1 DEF Rest
  <1>7. /\ n \in Hosts /\ Top.usable \in Hosts \cup {None}
        /\ Top.usable # None => WayTo(Top.usable, n)
    <2>1. /\ Top.node \in Hosts /\ n \in Children(Top.node) /\ n \in Hosts
          /\ Top.usable \in Hosts \cup {None}
          /\ Top.usable # None => /\ WayTo(Top.usable, Top.node)
                                  /\ Top.node = Top.usable \/ Top.node \notin usable
      BY <1>3, <1>4 DEF CallWithWay
    <2> QED
      BY <2>1, WayGoesOn
  <1>8. Frame(n, Top.usable) \in CallWithWay
    <2>1. Children(n) \subseteq Hosts
      BY ChildrenAreHosts
    <2>2. WayTo(n, n)
      BY DEF WayTo
    <2>3. CASE n \in usable
      <3>1. Frame(n, Top.usable) = [node |-> n, todo |-> Children(n), usable |-> n]
        BY <2>3 DEF Frame
      <3> QED
        BY <1>7, <2>1, <2>2, <3>1 DEF CallWithWay
    <2>4. CASE n \notin usable
      <3>1. Frame(n, Top.usable) = [node |-> n, todo |-> Children(n), usable |-> Top.usable]
        BY <2>4 DEF Frame
      <3> QED
        BY <1>7, <2>1, <2>4, <3>1 DEF CallWithWay
    <2> QED
      BY <2>3, <2>4
  <1>9. stack' \in Seq(CallWithWay)
    BY <1>4, <1>5, <1>6, <1>8
  <1>10. \A c \in connections' : WayTo(c[1], c[2])
    <2>1. \A c \in connections : WayTo(c[1], c[2])
      BY DEF WaysInv
    <2>2. \/ connections' = connections
          \/ Top.usable # None /\ connections' = connections \cup {<<Top.usable, n>>}
      BY <1>4 DEF Enter
    <2> QED
      BY <1>7, <2>1, <2>2
  <1> QED
    BY <1>2, <1>9, <1>10 DEF WaysInv

\* Nothing else calls dfs or adds a dependency.
LEMMA WaysInvStep ==
    ASSUME SearchTypes, WaysInv, [Next]_vars
    PROVE  WaysInv'
  <1>1. CASE Look
    BY <1>1, LookKeepsWays
  <1>2. ASSUME UNCHANGED <<edges, usable, connections>>,
               stack' = stack \/ (stack' = Tail(stack) /\ stack # <<>>)
        PROVE  WaysInv'
    <2>1. CallWithWay' = CallWithWay /\ \A p, n : WayTo(p, n)' = WayTo(p, n)
      BY <1>2 DEF CallWithWay, WayTo, Children
    <2>2. stack' \in Seq(CallWithWay)
      BY <1>2, HeadTailProperties DEF WaysInv
    <2> QED
      BY <1>2, <2>1, <2>2 DEF WaysInv
  <1>3. CASE Return
    BY <1>2, <1>3 DEF Return, graph
  <1>4. CASE Write
    BY <1>2, <1>4 DEF Write, graph, search
  <1>5. CASE UNCHANGED vars
    BY <1>2, <1>5 DEF vars
  <1> QED
    BY <1>1, <1>3, <1>4, <1>5 DEF Next

\* The search from one host.
LEMMA WaysInvStart ==
    ASSUME Init
    PROVE  WaysInv
  <1>1. Children(start_host) \subseteq Hosts /\ start_host \in Hosts
    BY GeneratorAssumption DEF Init, Children
  <1>2. WayTo(start_host, start_host)
    BY DEF WayTo
  <1>3. PICK u \in {start_host, None} :
            /\ Frame(start_host, None) = [node |-> start_host, todo |-> Children(start_host),
                                          usable |-> u]
    BY DEF Frame
  <1>4. Frame(start_host, None) \in CallWithWay
    BY <1>1, <1>2, <1>3 DEF CallWithWay
  <1>5. stack \in Seq(CallWithWay) /\ connections = {}
    BY <1>4 DEF Init
  <1> QED
    BY <1>5 DEF WaysInv

\* What a way leads to is reachable.
LEMMA WaysReach ==
    ASSUME SearchTypes, NEW p \in Hosts, NEW n, WayTo(p, n)
    PROVE  n \in ReachableVia({p}, Hosts \ usable)
  <1>1. PICK X : X = ReachableVia({p}, Hosts \ usable)
    OBVIOUS
  <1>2. Encloses(X, {p}, Hosts \ usable)
    BY <1>1, ReachableEncloses DEF SearchTypes
  <1> QED
    BY <1>1, <1>2 DEF Encloses, WayTo
----------------------------------------------------------------------------
\* The dependencies form trees over the hosts, for every graph: each node is
\* looked at once, whatever cycles and ways there are, so it depends on at most
\* one host, which was found before it, and a way without other usable nodes
\* leads from there (dfs, add_connection).
THEOREM Trees == Spec => []DependenciesAreTrees
  <1>1. Init => SearchInv /\ WaysInv
    BY SearchInvStart, WaysInvStart
  <1>2. SearchInv /\ WaysInv /\ [Next]_vars => SearchInv' /\ WaysInv'
    BY SearchInvStep, WaysInvStep DEF SearchInv
  <1>3. SearchInv /\ WaysInv => DependenciesAreTrees
    <2> SUFFICES ASSUME SearchInv, WaysInv
                 PROVE  DependenciesAreTrees
      OBVIOUS
    <2>1. OneDependency /\ FoundBefore
      BY SearchInvShows
    <2>2. ASSUME NEW c \in connections
          PROVE  c[2] \in ReachableVia({c[1]}, Hosts \ usable)
      <3>1. SearchTypes /\ WayTo(c[1], c[2])
        BY DEF SearchInv, WaysInv
      <3>2. c[1] \in Hosts
        BY <3>1 DEF SearchTypes
      <3> QED
        BY <3>1, <3>2, WaysReach
    <2> QED
      BY <2>1, <2>2 DEF DependenciesAreTrees
  <1> QED
    BY <1>1, <1>2, <1>3, PTL DEF Spec
----------------------------------------------------------------------------
\* The node m is still to be looked at in a call for n.
Pending(n, m) == \E f \in ToSet(stack) : f.node = n /\ m \in f.todo

\* Just the reachable nodes are scanned, and the children of each are, or will
\* be looked at; the list has the usable ones of them.
ScanInv ==
    /\ start_host \in scanned
    /\ \A X \in SUBSET Hosts : Encloses(X, {start_host}, Hosts) => scanned \subseteq X
    /\ \A n \in scanned : \A m \in Children(n) : m \in scanned \/ Pending(n, m)
    /\ ToSet(nodes) = usable \cap scanned

\* The calls on the stack, and on one with another call.
LEMMA CallsOnStack ==
    ASSUME NEW C, NEW s \in Seq(C)
    PROVE  /\ s # <<>> => ToSet(s) = {Head(s)} \cup ToSet(Tail(s))
           /\ \A f \in C : ToSet(<<f>> \o s) = {f} \cup ToSet(s)
  <1>1. Len(s) \in Nat /\ DOMAIN s = 1..Len(s)
    BY LenProperties
  <1>2. ASSUME s # <<>>
        PROVE  ToSet(s) = {Head(s)} \cup ToSet(Tail(s))
    <2>1. /\ Head(s) = s[1] /\ 1 \in DOMAIN s
          /\ Len(Tail(s)) = Len(s) - 1 /\ DOMAIN Tail(s) = 1..(Len(s) - 1)
          /\ \A i \in 1..(Len(s) - 1) : Tail(s)[i] = s[i + 1]
      BY <1>1, <1>2
    <2>2. ASSUME NEW i \in DOMAIN s
          PROVE  s[i] = Head(s) \/ s[i] \in ToSet(Tail(s))
      <3>1. CASE i = 1
        BY <2>1, <3>1
      <3>2. CASE i # 1
        <4>1. i - 1 \in DOMAIN Tail(s) /\ Tail(s)[i - 1] = s[i]
          BY <1>1, <2>1, <3>2
        <4> QED
          BY <4>1 DEF ToSet
      <3> QED
        BY <3>1, <3>2
    <2>3. ASSUME NEW i \in DOMAIN Tail(s)
          PROVE  Tail(s)[i] \in ToSet(s)
      <3>1. i + 1 \in DOMAIN s /\ Tail(s)[i] = s[i + 1]
        BY <1>1, <2>1
      <3> QED
        BY <3>1 DEF ToSet
    <2>4. Head(s) \in ToSet(s)
      BY <2>1 DEF ToSet
    <2> QED
      BY <2>2, <2>3, <2>4 DEF ToSet
  <1>3. ASSUME NEW f \in C
        PROVE  ToSet(<<f>> \o s) = {f} \cup ToSet(s)
    <2>1. PICK t : t = <<f>> \o s
      OBVIOUS
    <2>2. /\ DOMAIN t = 1..(Len(s) + 1) /\ t[1] = f
          /\ \A i \in 1..Len(s) : t[i + 1] = s[i]
      BY <1>1, <2>1
    <2>3. ASSUME NEW i \in DOMAIN t
          PROVE  t[i] = f \/ t[i] \in ToSet(s)
      <3>1. CASE i = 1
        BY <2>2, <3>1
      <3>2. CASE i # 1
        <4>1. i - 1 \in DOMAIN s /\ t[i] = s[i - 1]
          <5>1. i - 1 \in 1..Len(s) /\ (i - 1) + 1 = i
            BY <1>1, <2>2, <3>2
          <5> QED
            BY <1>1, <2>2, <5>1
        <4> QED
          BY <4>1 DEF ToSet
      <3> QED
        BY <3>1, <3>2
    <2>4. ASSUME NEW i \in DOMAIN s
          PROVE  s[i] \in ToSet(t)
      <3>1. i + 1 \in DOMAIN t /\ t[i + 1] = s[i]
        BY <1>1, <2>2
      <3> QED
        BY <3>1 DEF ToSet
    <2>5. f \in ToSet(t)
      <3>1. 1 \in DOMAIN t
        BY <1>1, <2>2
      <3> QED
        BY <2>2, <3>1 DEF ToSet
    <2>6. ToSet(t) \subseteq {f} \cup ToSet(s)
      BY <2>3 DEF ToSet
    <2>7. ToSet(s) \subseteq ToSet(t)
      BY <2>4 DEF ToSet
    <2> QED
      BY <2>1, <2>5, <2>6, <2>7
  <1> QED
    BY <1>2, <1>3

\* The elements of a sequence after one is appended.
LEMMA AppendedElements ==
    ASSUME NEW C, NEW s \in Seq(C), NEW x \in C
    PROVE  ToSet(Append(s, x)) = ToSet(s) \cup {x}
  <1>1. PICK t : t = Append(s, x)
    OBVIOUS
  <1>2. /\ DOMAIN t = 1..(Len(s) + 1) /\ DOMAIN s = 1..Len(s) /\ Len(s) \in Nat
        /\ t[Len(s) + 1] = x /\ \A i \in 1..Len(s) : t[i] = s[i]
    BY <1>1
  <1>3. \A i \in DOMAIN t : i \in DOMAIN s \/ i = Len(s) + 1
    BY <1>2
  <1>4. \A i \in DOMAIN s : i \in DOMAIN t
    BY <1>2
  <1>5. Len(s) + 1 \in DOMAIN t
    BY <1>2
  <1> QED
    BY <1>1, <1>2, <1>3, <1>4, <1>5 DEF ToSet

\* A child looked at for the first time is scanned and all its own children are
\* to be looked at.
LEMMA LookKeepsScan ==
    ASSUME SearchInv, WaysInv, ScanInv, Look
    PROVE  ScanInv'
  <1> DEFINE old == [Top EXCEPT !.todo = {}]
  <1>1. stack # <<>> /\ UNCHANGED <<edges, usable>> /\ SearchTypes
    BY DEF Look, graph, SearchInv
  <1>2. Top \in CallWithWay /\ Tail(stack) \in Seq(CallWithWay) /\ Top \in Call
    <2>1. Top \in CallWithWay /\ Tail(stack) \in Seq(CallWithWay)
      BY <1>1, HeadTailProperties DEF WaysInv, Top
    <2> QED
      BY <1>1, <2>1, StackOfCalls
  <1>3. PICK n \in Top.todo :
            \/ /\ ~IsScanned(n)
               /\ stack' = <<Frame(n, Top.usable)>> \o Rest(n)
               /\ Enter(n, Top.usable)
            \/ /\ IsScanned(n)
               /\ stack' = Rest(n)
               /\ UNCHANGED <<scanned, nodes, connections>>
    BY DEF Look
  <1>4. /\ n \in Hosts /\ n \in Children(Top.node) /\ Top.node \in scanned
    BY <1>2, <1>3 DEF CallWithWay, Call
  <1>5. PICK left : left = [Top EXCEPT !.todo = @ \ {n}]
    OBVIOUS
  <1>6. left \in CallWithWay /\ left.node = Top.node /\ left.todo = Top.todo \ {n}
    BY <1>2, <1>5 DEF CallWithWay
  <1>7. ToSet(stack) = {Top} \cup ToSet(Tail(stack))
    BY <1>1, CallsOnStack DEF WaysInv, Top
  <1>8. Rest(n) = <<left>> \o Tail(stack) /\ Rest(n) \in Seq(CallWithWay)
    <2>1. Rest(n) = <<left>> \o Tail(stack)
      BY <1>5 DEF Rest
    <2>2. <<left>> \in Seq(CallWithWay)
      BY <1>6
    <2> QED
      BY <1>2, <2>1, <2>2, ConcatProperties
  <1>9. ToSet(Rest(n)) = {left} \cup ToSet(Tail(stack))
    <2>1. PICK C : C = CallWithWay
      OBVIOUS
    <2>2. PICK s \in Seq(C) : s = Tail(stack)
      BY <1>2, <2>1
    <2>3. left \in C
      BY <1>6, <2>1
    <2>4. ToSet(<<left>> \o s) = {left} \cup ToSet(s)
      BY <2>3, CallsOnStack
    <2> QED
      BY <1>8, <2>2, <2>4
  \* Only the child n is no longer to be looked at.
  <1>10. ASSUME NEW k, NEW m, Pending(k, m)
         PROVE  m = n \/ \E f \in ToSet(Rest(n)) : f.node = k /\ m \in f.todo
    <2>1. PICK f \in ToSet(stack) : f.node = k /\ m \in f.todo
      BY <1>10 DEF Pending
    <2>2. CASE f = Top
      BY <1>6, <1>9, <2>1, <2>2
    <2>3. CASE f # Top
      BY <1>7, <1>9, <2>1, <2>3
    <2> QED
      BY <2>2, <2>3
  <1>11. CASE IsScanned(n)
    <2>1. stack' = Rest(n) /\ UNCHANGED <<scanned, nodes>> /\ n \in scanned
      BY <1>3, <1>11 DEF IsScanned
    <2>2. ASSUME NEW k \in scanned', NEW m \in Children(k)'
          PROVE  m \in scanned' \/ Pending(k, m)'
      <3>1. m \in scanned \/ Pending(k, m)
        BY <1>1, <2>1, <2>2 DEF ScanInv, Children
      <3>2. CASE Pending(k, m)
        <4>1. m = n \/ \E f \in ToSet(stack') : f.node = k /\ m \in f.todo
          BY <1>10, <2>1, <3>2
        <4> QED
          BY <2>1, <4>1 DEF Pending, ToSet
      <3> QED
        BY <2>1, <3>1, <3>2
    <2>3. ToSet(nodes)' = usable' \cap scanned'
      BY <1>1, <2>1 DEF ScanInv, ToSet
    <2>4. \A X \in SUBSET Hosts : Encloses(X, {start_host}, Hosts)' => scanned' \subseteq X
      BY <1>1, <2>1 DEF ScanInv, Encloses, Children
    <2> QED
      BY <2>1, <2>2, <2>3, <2>4 DEF ScanInv
  <1>12. CASE ~IsScanned(n)
    <2>1. stack' = <<Frame(n, Top.usable)>> \o Rest(n) /\ Enter(n, Top.usable)
      BY <1>3, <1>12
    <2>2. scanned' = scanned \cup {n}
      BY <2>1 DEF Enter
    <2>3. PICK new : new = Frame(n, Top.usable)
      OBVIOUS
    <2>4. new.node = n /\ new.todo = Children(n)
      BY <2>3 DEF Frame
    <2>5. ToSet(stack') = {new} \cup ToSet(Rest(n))
      <3>1. PICK C : C = CallWithWay \cup {new}
        OBVIOUS
      <3>2. Rest(n) \in Seq(C) /\ new \in C
        BY <1>8, <3>1, SeqMonotonic
      <3>3. ToSet(<<new>> \o Rest(n)) = {new} \cup ToSet(Rest(n))
        BY <3>2, CallsOnStack
      <3> QED
        BY <2>1, <2>3, <3>3
    <2>6. ASSUME NEW k \in scanned', NEW m \in Children(k)'
          PROVE  m \in scanned' \/ Pending(k, m)'
      <3>0. m \in Children(k)
        BY <1>1, <2>6 DEF Children
      <3>1. CASE k \in scanned
        <4>1. m \in scanned \/ Pending(k, m)
          BY <3>0, <3>1 DEF ScanInv
        <4>2. CASE Pending(k, m)
          <5>1. m = n \/ \E f \in ToSet(stack') : f.node = k /\ m \in f.todo
            BY <1>10, <2>5, <4>2
          <5> QED
            BY <2>2, <5>1 DEF Pending, ToSet
        <4> QED
          BY <2>2, <4>1, <4>2
      <3>2. CASE k = n
        <4>1. new \in ToSet(stack') /\ new.node = k /\ m \in new.todo
          BY <2>4, <2>5, <3>0, <3>2
        <4> QED
          BY <4>1 DEF Pending, ToSet
      <3> QED
        BY <2>2, <3>1, <3>2
    <2>7. ToSet(nodes)' = usable' \cap scanned'
      <3>1. ToSet(nodes') = ToSet(nodes) \cup (usable \cap {n})
        <4>1. CASE n \in usable
          <5>1. nodes' = Append(nodes, n) /\ nodes \in Seq(usable)
            BY <1>1, <2>1, <4>1 DEF Enter, SearchTypes
          <5>2. ToSet(nodes') = ToSet(nodes) \cup {n}
            BY <4>1, <5>1, AppendedElements
          <5> QED
            BY <4>1, <5>2
        <4>2. CASE n \notin usable
          BY <2>1, <4>2 DEF Enter
        <4> QED
          BY <4>1, <4>2
      <3>2. ToSet(nodes)' = ToSet(nodes')
        BY DEF ToSet
      <3> QED
        BY <1>1, <2>2, <3>1, <3>2 DEF ScanInv
    <2>8. ASSUME NEW X \in SUBSET Hosts, Encloses(X, {start_host}, Hosts)'
          PROVE  scanned' \subseteq X
      <3>1. Encloses(X, {start_host}, Hosts)
        BY <1>1, <2>8 DEF Encloses, Children
      <3>2. scanned \subseteq X
        BY <3>1 DEF ScanInv
      <3>3. n \in X
        BY <1>4, <3>1, <3>2 DEF Encloses
      <3> QED
        BY <2>2, <3>2, <3>3
    <2>9. start_host \in scanned'
      BY <2>2 DEF ScanInv
    <2> QED
      BY <2>6, <2>7, <2>8, <2>9 DEF ScanInv
  <1> QED
    BY <1>11, <1>12

\* A call that returns has nothing more to look at.
LEMMA ReturnKeepsScan ==
    ASSUME WaysInv, ScanInv, Return
    PROVE  ScanInv'
  <1>1. stack # <<>> /\ Top.todo = {} /\ stack' = Tail(stack)
           /\ UNCHANGED <<edges, usable, scanned, nodes>>
    BY DEF Return, graph
  <1>2. ToSet(stack) = {Top} \cup ToSet(stack')
    BY <1>1, CallsOnStack DEF WaysInv, Top
  <1>3. ASSUME NEW k, NEW m, Pending(k, m)
        PROVE  Pending(k, m)'
    <2>1. PICK f \in ToSet(stack) : f.node = k /\ m \in f.todo
      BY <1>3 DEF Pending
    <2>2. f \in ToSet(stack')
      BY <1>1, <1>2, <2>1
    <2> QED
      BY <2>1, <2>2 DEF Pending, ToSet
  <1>4. \A k \in scanned' : \A m \in Children(k)' : m \in scanned' \/ Pending(k, m)'
    BY <1>1, <1>3 DEF ScanInv, Children
  <1>5. ToSet(nodes)' = usable' \cap scanned' /\ start_host \in scanned'
    BY <1>1 DEF ScanInv, ToSet
  <1>6. \A X \in SUBSET Hosts : Encloses(X, {start_host}, Hosts)' => scanned' \subseteq X
    BY <1>1 DEF ScanInv, Encloses, Children
  <1> QED
    BY <1>4, <1>5, <1>6 DEF ScanInv

\* Every step.
LEMMA ScanInvStep ==
    ASSUME SearchInv, WaysInv, ScanInv, [Next]_vars
    PROVE  ScanInv'
  <1>1. CASE Look
    BY <1>1, LookKeepsScan
  <1>2. CASE Return
    BY <1>2, ReturnKeepsScan
  <1>3. CASE UNCHANGED <<edges, usable, stack, scanned, nodes>>
    BY <1>3 DEF ScanInv, Encloses, Children, Pending, ToSet
  <1>4. Write \/ UNCHANGED vars => UNCHANGED <<edges, usable, stack, scanned, nodes>>
    BY DEF Write, vars, graph, search
  <1> QED
    BY <1>1, <1>2, <1>3, <1>4 DEF Next

\* At the start all children of the first host are to be looked at.
LEMMA ScanInvStart == Init => ScanInv
  <1> SUFFICES ASSUME Init PROVE ScanInv
    OBVIOUS
  <1>1. scanned = {start_host} /\ stack = <<Frame(start_host, None)>>
    BY DEF Init
  <1>2. ToSet(nodes) = usable \cap scanned
    BY DEF Init, ToSet
  <1>3. \A m \in Children(start_host) : Pending(start_host, m)
    <2>1. PICK f : f = Frame(start_host, None)
      OBVIOUS
    <2>2. f.node = start_host /\ f.todo = Children(start_host)
      BY <2>1 DEF Frame
    <2>3. f \in ToSet(stack)
      BY <1>1, <2>1 DEF ToSet
    <2> QED
      BY <2>2, <2>3 DEF Pending
  <1>4. \A X \in SUBSET Hosts : Encloses(X, {start_host}, Hosts) => scanned \subseteq X
    BY <1>1 DEF Encloses
  <1> QED
    BY <1>1, <1>2, <1>3, <1>4 DEF ScanInv

\* When the search is over, just the nodes in reach have been scanned.
LEMMA ScannedIsReach ==
    ASSUME SearchInv, ScanInv, stack = <<>>
    PROVE  scanned = InReach
  <1>1. PICK S : S = {start_host}
    OBVIOUS
  <1>2. S # {} /\ S \subseteq Hosts /\ edges \subseteq Hosts \X Hosts
    BY <1>1, GeneratorAssumption DEF SearchInv, SearchTypes
  <1>3. Encloses(ReachableVia(S, Hosts), S, Hosts)
    BY <1>2, ReachableEncloses
  <1>4. scanned \subseteq ReachableVia(S, Hosts)
    BY <1>1, <1>3 DEF ScanInv, Encloses
  <1>5. Encloses(scanned, S, Hosts)
    <2>1. \A n, m : ~Pending(n, m)
      BY DEF Pending, ToSet
    <2> QED
      BY <1>1, <2>1 DEF ScanInv, SearchInv, SearchTypes, Encloses
  <1>6. ReachableVia(S, Hosts) \subseteq scanned
    BY <1>2, <1>5, ReachableIsLeast
  <1> QED
    BY <1>1, <1>4, <1>6 DEF InReach

\* What the search has found when it is over.
SearchComplete == stack = <<>> => ToSet(nodes) = usable \cap InReach

\* For every graph, cyclic ones too, the list has, when the search is over, every
\* usable host that can be reached from the first one, and no other (dfs).
THEOREM FindsEveryHost == Spec => []SearchComplete
  <1>1. Init => SearchInv /\ WaysInv /\ ScanInv
    BY SearchInvStart, WaysInvStart, ScanInvStart
  <1>2. SearchInv /\ WaysInv /\ ScanInv /\ [Next]_vars => SearchInv' /\ WaysInv' /\ ScanInv'
    BY SearchInvStep, WaysInvStep, ScanInvStep DEF SearchInv
  <1>3. SearchInv /\ ScanInv => SearchComplete
    BY ScannedIsReach DEF SearchComplete, ScanInv
  <1> QED
    BY <1>1, <1>2, <1>3, PTL DEF Spec
----------------------------------------------------------------------------
\* From a usable start host, every other node that is scanned depends on a host.
Attached ==
    start_host \in usable =>
        /\ \A f \in ToSet(stack) : f.usable # None
        /\ \A n \in scanned \ {start_host} : \E c \in connections : c[2] = n

\* A file is of a host that has been worked off, all before which have the names
\* they need, and the last one of a name has its file; a crash is at the next.
FilesInv ==
    /\ icinga_name \in [Hosts -> Names \cup {None}] /\ usable \subseteq named
    /\ files \in [Names -> Hosts \cup {None}]
    /\ stack # <<>> => /\ written = 0 /\ crashed = FALSE
                       /\ \A f \in Names : files[f] = None
    /\ \A f \in Names : files[f] # None =>
           \E j \in 1..written : files[f] = nodes[j] /\ icinga_name[nodes[j]] = f
    /\ \A i \in 1..written : NamesIn(nodes[i]) \subseteq named
    /\ \A i \in 1..written : \E j \in i..written : files[icinga_name[nodes[i]]] = nodes[j]
    /\ crashed = TRUE => /\ written < Len(nodes)
                         /\ ~(NamesIn(nodes[written + 1]) \subseteq named)

\* A child found from a call with a usable parent depends on it and hands one on.
LEMMA LookKeepsAttached ==
    ASSUME SearchInv, WaysInv, Attached, Look
    PROVE  Attached'
  <1> SUFFICES ASSUME start_host \in usable
               PROVE  /\ \A f \in ToSet(stack') : f.usable # None
                      /\ \A m \in scanned' \ {start_host} : \E c \in connections' : c[2] = m
    BY DEF Attached, Look, graph, ToSet
  <1>1. stack # <<>> /\ SearchTypes /\ None \notin Hosts
    BY GeneratorAssumption DEF Look, SearchInv
  <1>2. /\ Top \in CallWithWay /\ Tail(stack) \in Seq(CallWithWay)
        /\ ToSet(stack) = {Top} \cup ToSet(Tail(stack))
    <2>1. Top \in CallWithWay /\ Tail(stack) \in Seq(CallWithWay)
      BY <1>1, HeadTailProperties DEF WaysInv, Top
    <2> QED
      BY <1>1, <2>1, CallsOnStack DEF WaysInv, Top
  <1>3. PICK n \in Top.todo :
            \/ /\ ~IsScanned(n)
               /\ stack' = <<Frame(n, Top.usable)>> \o Rest(n)
               /\ Enter(n, Top.usable)
            \/ /\ IsScanned(n)
               /\ stack' = Rest(n)
               /\ UNCHANGED <<scanned, nodes, connections>>
    BY DEF Look
  <1>4. PICK new : new = Frame(n, Top.usable)
    OBVIOUS
  <1>5. \A f \in ToSet(stack) : f.usable # None
    BY DEF Attached
  <1>6. PICK left : left = [Top EXCEPT !.todo = @ \ {n}]
    OBVIOUS
  <1>7. left \in CallWithWay /\ left.usable # None
    <2>1. left.usable = Top.usable /\ left \in CallWithWay
      BY <1>2, <1>6 DEF CallWithWay
    <2> QED
      BY <1>2, <1>5, <2>1
  <1>8. PICK D : D = CallWithWay \cup {new}
    OBVIOUS
  <1>9. /\ Tail(stack) \in Seq(D) /\ Rest(n) = <<left>> \o Tail(stack)
        /\ Rest(n) \in Seq(D) /\ left \in D
    <2>1. Tail(stack) \in Seq(D) /\ left \in D
      BY <1>2, <1>7, <1>8, SeqMonotonic
    <2>2. Rest(n) = <<left>> \o Tail(stack)
      BY <1>6 DEF Rest
    <2>3. <<left>> \in Seq(D)
      BY <2>1
    <2> QED
      BY <2>1, <2>2, <2>3, ConcatProperties
  <1>10. \A f \in ToSet(Rest(n)) : f.usable # None
    <2>1. ToSet(<<left>> \o Tail(stack)) = {left} \cup ToSet(Tail(stack))
      <3>1. PICK t \in Seq(D) : t = Tail(stack)
        BY <1>9
      <3>2. ToSet(<<left>> \o t) = {left} \cup ToSet(t)
        BY <1>9, CallsOnStack
      <3> QED
        BY <3>1, <3>2
    <2> QED
      BY <1>2, <1>5, <1>7, <1>9, <2>1
  <1>11. CASE IsScanned(n)
    BY <1>3, <1>10, <1>11 DEF Attached
  <1>12. CASE ~IsScanned(n)
    <2>1. stack' = <<new>> \o Rest(n) /\ Enter(n, Top.usable)
      BY <1>3, <1>4, <1>12
    <2>2. Top.usable # None
      BY <1>2, <1>5
    <2>3. new.usable # None
      <3>1. usable \subseteq Hosts
        BY <1>1 DEF SearchTypes
      <3> QED
        BY <1>1, <1>4, <2>2, <3>1 DEF Frame
    <2>4. ToSet(stack') = {new} \cup ToSet(Rest(n))
      <3>1. PICK t \in Seq(D) : t = Rest(n)
        BY <1>9
      <3>2. ToSet(<<new>> \o t) = {new} \cup ToSet(t)
        BY <1>8, CallsOnStack
      <3> QED
        BY <2>1, <3>1, <3>2
    <2>5. /\ scanned' = scanned \cup {n}
          /\ connections' = connections \cup {<<Top.usable, n>>}
      BY <2>1, <2>2 DEF Enter
    <2>6. \A m \in scanned' \ {start_host} : \E c \in connections' : c[2] = m
      <3> SUFFICES ASSUME NEW m \in scanned', m # start_host
                   PROVE  \E c \in connections' : c[2] = m
        OBVIOUS
      <3>1. CASE m \in scanned
        BY <2>5, <3>1 DEF Attached
      <3>2. CASE m = n
        <4>1. <<Top.usable, n>> \in connections' /\ <<Top.usable, n>>[2] = m
          BY <2>5, <3>2
        <4> QED
          BY <4>1
      <3> QED
        BY <2>5, <3>1, <3>2
    <2> QED
      BY <1>10, <2>3, <2>4, <2>6
  <1> QED
    BY <1>11, <1>12

\* Every step.
LEMMA AttachedStep ==
    ASSUME SearchInv, WaysInv, Attached, [Next]_vars
    PROVE  Attached'
  <1>1. CASE Look
    BY <1>1, LookKeepsAttached
  <1>2. CASE Return
    <2>1. stack # <<>> /\ stack' = Tail(stack) /\ UNCHANGED <<usable, scanned, connections>>
      BY <1>2 DEF Return, graph
    <2>2. ToSet(stack) = {Head(stack)} \cup ToSet(stack')
      BY <2>1, CallsOnStack DEF WaysInv
    <2>3. ToSet(stack)' = ToSet(stack')
      BY DEF ToSet
    <2> QED
      BY <2>1, <2>2, <2>3 DEF Attached
  <1>3. CASE UNCHANGED <<usable, stack, scanned, connections>>
    BY <1>3 DEF Attached, ToSet
  <1>4. Write \/ UNCHANGED vars => UNCHANGED <<usable, stack, scanned, connections>>
    BY DEF Write, vars, graph, search
  <1> QED
    BY <1>1, <1>2, <1>3, <1>4 DEF Next

\* At the start only the start host is scanned.
LEMMA AttachedStart == Init => Attached
  <1> SUFFICES ASSUME Init, start_host \in usable PROVE Attached
    BY DEF Attached
  <1>1. scanned = {start_host} /\ stack = <<Frame(start_host, None)>>
    BY DEF Init
  <1>2. PICK f : f = Frame(start_host, None)
    OBVIOUS
  <1>3. f.usable # None
    BY <1>2, GeneratorAssumption DEF Frame
  <1>4. \A g \in ToSet(stack) : g = f
    BY <1>1, <1>2 DEF ToSet
  <1> QED
    BY <1>1, <1>3, <1>4 DEF Attached

\* Looking and returning touch neither names nor files.
LEMMA SearchKeepsFiles ==
    ASSUME FilesInv, stack # <<>>, UNCHANGED <<graph, output>>
    PROVE  FilesInv'
  <1>1. /\ written = 0 /\ crashed = FALSE /\ \A f \in Names : files[f] = None
        /\ UNCHANGED <<icinga_name, usable, written, files, crashed>>
    BY DEF FilesInv, graph, output
  <1>2. named' = named
    BY <1>1 DEF named
  <1>3. written' = 0 /\ crashed' = FALSE /\ \A f \in Names : files'[f] = None
    BY <1>1, Zenon
  <1>4. \A i : i \notin 1..written'
    BY <1>3
  <1>5. /\ icinga_name' \in [Hosts -> Names \cup {None}] /\ usable' \subseteq named'
        /\ files' \in [Names -> Hosts \cup {None}]
    BY <1>1, <1>2 DEF FilesInv
  <1> QED
    BY <1>3, <1>4, <1>5 DEF FilesInv

\* The next file is written, over that of an earlier host of the name, or the
\* program ends.
LEMMA WriteKeepsFiles ==
    ASSUME SearchInv, FilesInv, Write
    PROVE  FilesInv'
  <1>1. /\ stack = <<>> /\ written < Len(nodes) /\ crashed # TRUE
        /\ UNCHANGED <<edges, icinga_name, usable, stack, scanned, nodes, connections>>
    BY DEF Write, graph, search
  <1>2. /\ nodes \in Seq(usable) /\ usable \subseteq Hosts /\ written \in 0..Len(nodes)
        /\ Len(nodes) \in Nat
    BY DEF SearchInv, SearchTypes
  <1>3. PICK n : n = nodes[written + 1]
    OBVIOUS
  <1>4. n \in usable /\ n \in Hosts /\ n \in named
    BY <1>1, <1>2, <1>3 DEF FilesInv
  <1>5. icinga_name[n] \in Names
    BY <1>4 DEF FilesInv, named
  <1>6. named' = named /\ \A m : NamesIn(m)' = NamesIn(m)
    BY <1>1 DEF named, NamesIn, DependsOn
  <1>7. /\ icinga_name' \in [Hosts -> Names \cup {None}] /\ usable' \subseteq named'
        /\ stack' = <<>>
    BY <1>1, <1>6 DEF FilesInv
  <1>8. CASE NamesIn(n) \subseteq named
    <2>1. Save(n) /\ written' = written + 1 /\ crashed' = crashed
      BY <1>3, <1>8 DEF Write
    <2>2. /\ files' \in [Names -> Hosts \cup {None}] /\ files'[icinga_name[n]] = n
          /\ \A f \in Names : f # icinga_name[n] => files'[f] = files[f]
      BY <1>4, <1>5, <2>1 DEF Save, FilesInv
    <2>3. ASSUME NEW f \in Names, files'[f] # None
          PROVE  \E j \in 1..written' : files'[f] = nodes'[j] /\ icinga_name'[nodes'[j]] = f
      <3>1. CASE f = icinga_name[n]
        BY <1>1, <1>2, <1>3, <2>1, <2>2, <3>1
      <3>2. CASE f # icinga_name[n]
        <4>1. PICK j \in 1..written : files[f] = nodes[j] /\ icinga_name[nodes[j]] = f
          BY <2>2, <2>3, <3>2 DEF FilesInv
        <4>2. j \in 1..written'
          BY <1>2, <2>1
        <4> QED
          BY <1>1, <2>2, <3>2, <4>1, <4>2
      <3> QED
        BY <3>1, <3>2
    <2>4. ASSUME NEW i \in 1..written'
          PROVE  /\ NamesIn(nodes'[i]) \subseteq named
                 /\ \E j \in i..written' : files'[icinga_name'[nodes'[i]]] = nodes'[j]
      <3>1. CASE i = written + 1
        BY <1>1, <1>2, <1>3, <1>8, <2>1, <2>2, <3>1
      <3>2. CASE i # written + 1
        <4>1. i \in 1..written
          BY <1>2, <2>1, <3>2
        <4>2. NamesIn(nodes[i]) \subseteq named
          BY <4>1 DEF FilesInv
        <4>3. nodes[i] \in named /\ nodes[i] \in Hosts
          BY <1>2, <4>1 DEF FilesInv
        <4>4. PICK f \in Names : f = icinga_name[nodes[i]]
          BY <4>3 DEF FilesInv, named
        <4>5. PICK j \in i..written : files[f] = nodes[j]
          BY <4>1, <4>4 DEF FilesInv
        <4>6. CASE f = icinga_name[n]
          <5>1. written + 1 \in i..written' /\ files'[f] = nodes[written + 1]
            BY <1>2, <1>3, <2>1, <2>2, <4>1, <4>6
          <5> QED
            BY <1>1, <4>2, <4>4, <5>1
        <4>7. CASE f # icinga_name[n]
          <5>1. j \in i..written' /\ files'[f] = nodes[j]
            BY <1>2, <2>1, <2>2, <4>1, <4>5, <4>7
          <5> QED
            BY <1>1, <4>2, <4>4, <5>1
        <4> QED
          BY <4>6, <4>7
      <3> QED
        BY <3>1, <3>2
    <2>5. \A i \in 1..written' : NamesIn(nodes[i])' \subseteq named'
      BY <1>1, <1>6, <2>4 DEF NamesIn, DependsOn
    <2>6. crashed' # TRUE
      BY <1>1, <2>1, Zenon
    <2> QED
      BY <1>7, <2>2, <2>3, <2>4, <2>5, <2>6 DEF FilesInv
  <1>9. CASE ~(NamesIn(n) \subseteq named)
    <2>1. UNCHANGED <<written, files>>
      BY <1>3, <1>9 DEF Write
    <2>2. ~(NamesIn(nodes[written + 1])' \subseteq named')
      BY <1>1, <1>3, <1>6, <1>9, <2>1 DEF NamesIn, DependsOn
    <2>3. \A i \in 1..written' : NamesIn(nodes[i])' \subseteq named'
      BY <1>1, <1>6, <2>1 DEF FilesInv, NamesIn, DependsOn
    <2> QED
      BY <1>1, <1>7, <2>1, <2>2, <2>3 DEF FilesInv
  <1> QED
    BY <1>8, <1>9

\* Every step.
LEMMA FilesInvStep ==
    ASSUME SearchInv, FilesInv, [Next]_vars
    PROVE  FilesInv'
  <1>1. CASE Look
    BY <1>1, SearchKeepsFiles DEF Look
  <1>2. CASE Return
    BY <1>2, SearchKeepsFiles DEF Return, output, graph
  <1>3. CASE Write
    BY <1>3, WriteKeepsFiles
  <1>4. CASE UNCHANGED vars
    BY <1>4 DEF FilesInv, vars, named, NamesIn, DependsOn
  <1> QED
    BY <1>1, <1>2, <1>3, <1>4 DEF Next

\* At the start there are no files.
LEMMA FilesInvStart == Init => FilesInv
  <1> SUFFICES ASSUME Init PROVE FilesInv
    OBVIOUS
  <1>1. /\ icinga_name \in [Hosts -> Names \cup {None}] /\ usable \subseteq named
        /\ files = [f \in Names |-> None] /\ written = 0
    BY DEF Init
  <1>2. crashed = FALSE
    BY Zenon DEF Init
  <1> QED
    BY <1>1, <1>2 DEF FilesInv

\* What these invariants say of the end.
LEMMA OutcomeFollows ==
    ASSUME SearchInv, ScanInv, Attached, FilesInv, Done
    PROVE  Outcome
  <1>1. /\ stack = <<>> /\ written \in 0..Len(nodes) /\ Len(nodes) \in Nat
        /\ DOMAIN nodes = 1..Len(nodes) /\ usable \subseteq Hosts
        /\ connections \subseteq ToSet(nodes) \X scanned
    BY DEF Done, SearchInv, SearchTypes
  <1>2. /\ scanned = InReach /\ ToSet(nodes) = usable \cap InReach /\ start_host \in InReach
    BY <1>1, ScannedIsReach DEF ScanInv
  <1>3. \A i \in DOMAIN nodes : nodes[i] \in usable \cap InReach
    BY <1>2 DEF ToSet
  <1>4. \A i \in DOMAIN nodes : NamesIn(nodes[i]) \subseteq InReach
    BY <1>1, <1>2, <1>3 DEF NamesIn, DependsOn
  <1>5. ASSUME crashed = TRUE
        PROVE  ~(InReach \subseteq named)
    <2>1. written < Len(nodes) /\ ~(NamesIn(nodes[written + 1]) \subseteq named)
      BY <1>5 DEF FilesInv
    <2>2. written + 1 \in DOMAIN nodes
      BY <1>1, <2>1
    <2> QED
      BY <1>4, <2>1, <2>2
  <1>6. ASSUME start_host \in usable, ~(InReach \subseteq named), crashed # TRUE
        PROVE  FALSE
    <2>1. PICK x \in InReach : x \notin named
      BY <1>6
    <2>2. x # start_host
      BY <1>6, <2>1 DEF FilesInv
    <2>3. PICK c \in connections : c[2] = x
      BY <1>2, <1>6, <2>1, <2>2 DEF Attached
    <2>4. PICK i \in DOMAIN nodes : nodes[i] = c[1]
      BY <1>1, <2>3 DEF ToSet
    <2>5. x \in NamesIn(nodes[i])
      BY <2>3, <2>4 DEF NamesIn, DependsOn
    <2>6. written = Len(nodes)
      BY <1>6 DEF Done
    <2> QED
      BY <1>1, <2>1, <2>5, <2>6 DEF FilesInv
  <1>7. FilesWhole
    <2> SUFFICES ASSUME NEW f \in Names, files[f] # None
                 PROVE  /\ files[f] \in usable \cap InReach
                        /\ icinga_name[files[f]] = f
                        /\ NamesIn(files[f]) \subseteq named
      BY DEF FilesWhole
    <2>1. PICK j \in 1..written : files[f] = nodes[j] /\ icinga_name[nodes[j]] = f
      BY DEF FilesInv
    <2>2. j \in DOMAIN nodes
      BY <1>1
    <2>3. NamesIn(nodes[j]) \subseteq named
      BY DEF FilesInv
    <2> QED
      BY <1>3, <2>1, <2>2, <2>3
  <1>8. ASSUME crashed # TRUE
        PROVE  LastOfEachName
    <2> SUFFICES ASSUME NEW n \in usable \cap InReach
                 PROVE  /\ files[icinga_name[n]] # None
                        /\ Position(n) <= Position(files[icinga_name[n]])
      BY DEF LastOfEachName
    <2>1. written = Len(nodes)
      BY <1>8 DEF Done
    <2>2. PICK i \in DOMAIN nodes : nodes[i] = n
      BY <1>2 DEF ToSet
    <2>3. PICK j \in i..written : files[icinga_name[n]] = nodes[j]
      BY <1>1, <2>1, <2>2 DEF FilesInv
    <2>4. j \in DOMAIN nodes /\ i <= j
      BY <1>1, <2>1, <2>2
    <2>5. Position(nodes[i]) = i /\ Position(nodes[j]) = j
      BY <2>4, PositionIs
    <2>6. nodes[j] # None
      BY <1>1, <1>3, <2>4, GeneratorAssumption
    <2> QED
      BY <2>2, <2>3, <2>4, <2>5, <2>6
  <1>9. CrashExplained
    <2>1. crashed \in BOOLEAN
      BY DEF SearchInv, SearchTypes
    <2> QED
      BY <1>5, <1>6, <2>1, Zenon DEF CrashExplained
  <1>10. ~crashed => LastOfEachName
    <2>1. crashed \in BOOLEAN
      BY DEF SearchInv, SearchTypes
    <2> QED
      BY <1>8, <2>1, Zenon
  <1> QED
    BY <1>7, <1>9, <1>10 DEF Outcome

\* Whenever the program has ended, for every graph and all names: only a node in
\* reach without a name has ended it early, and does from a usable start host;
\* the files left are whole; and if it was not ended early, each name of a usable
\* host in reach has the file of the host of that name found last (dfs,
\* make_node_config, save_config).  It is EveryHostConfigured, but for the ending.
THEOREM OutcomeHolds == Spec => [](Done => Outcome)
  <1>1. Init => SearchInv /\ WaysInv /\ ScanInv /\ Attached /\ FilesInv
    BY SearchInvStart, WaysInvStart, ScanInvStart, AttachedStart, FilesInvStart
  <1>2. SearchInv /\ WaysInv /\ ScanInv /\ Attached /\ FilesInv /\ [Next]_vars
            => SearchInv' /\ WaysInv' /\ ScanInv' /\ Attached' /\ FilesInv'
    BY SearchInvStep, WaysInvStep, ScanInvStep, AttachedStep, FilesInvStep DEF SearchInv
  <1>3. SearchInv /\ ScanInv /\ Attached /\ FilesInv => (Done => Outcome)
    BY OutcomeFollows
  <1> QED
    BY <1>1, <1>2, <1>3, PTL DEF Spec
====
