---- MODULE PageLoad_proofs ----
(***************************************************************************)
(* Theorems about PageLoad for any finite graph, size of the parts and     *)
(* number of failures: what has been read is always a beginning of the     *)
(* list of nodes, however many chains of requests read it, the page never  *)
(* starts with less than all of it unless a stream was cut short, there is *)
(* one chain of requests as long as none for a part was broken, and        *)
(* something is always still to happen until the load has come to an end.  *)
(***************************************************************************)
EXTENDS PageLoad, DataLemmas

\* The highest of some numbers.
LEMMA HighestExists ==
    ASSUME NEW S, S \subseteq Nat, IsFiniteSet(S), S # {}
    PROVE  Highest(S) \in S /\ \A i \in S : i <= Highest(S)
  <1>1. PICK n \in S : \A i \in S : i <= n
    BY GreatestNumber
  <1> QED
    BY <1>1 DEF Highest
----------------------------------------------------------------------------
\* The k lowest of a set come before all its others.
LEMMA LowestIsABeginning ==
    ASSUME NEW ids, ids \subseteq Nat, IsFiniteSet(ids), NEW k \in Nat,
           NEW n \in Lowest(ids, k), NEW i \in ids, i < n
    PROVE  i \in Lowest(ids, k)
  <1> DEFINE Below(j) == {h \in ids : h < j}
  <1>1. n \in ids /\ Cardinality(Below(n)) < k
    BY DEF Lowest
  <1>2. Below(i) \in SUBSET Below(n) /\ Below(n) \in SUBSET ids
    <2>1. n \in Nat /\ i \in Nat /\ \A h \in ids : h \in Nat
      BY <1>1
    <2>2. \A h \in Below(i) : h \in Below(n)
      BY <2>1
    <2>3. \A h \in Below(n) : h \in ids
      OBVIOUS
    <2> HIDE DEF Below
    <2> QED
      BY <2>2, <2>3
  <1>3. IsFiniteSet(Below(n)) /\ IsFiniteSet(Below(i))
    <2> HIDE DEF Below
    <2> QED
      BY <1>2, FS_Subset
  <1>4. Cardinality(Below(i)) <= Cardinality(Below(n))
    <2> HIDE DEF Below
    <2> QED
      BY <1>2, <1>3, FS_Subset
  <1>5. Cardinality(Below(i)) \in Nat /\ Cardinality(Below(n)) \in Nat
    BY <1>3, FS_CardinalityType
  <1>6. Cardinality(Below(i)) < k
    <2> HIDE DEF Below
    <2> QED
      BY <1>1, <1>4, <1>5
  <1> QED
    BY <1>6 DEF Lowest

\* Fewer than k lowest ones are all there are.
LEMMA FewLowestAreAll ==
    ASSUME NEW ids, ids \subseteq Nat, IsFiniteSet(ids), NEW k \in Nat,
           Cardinality(Lowest(ids, k)) < k
    PROVE  Lowest(ids, k) = ids
  <1> DEFINE Below(j) == {h \in ids : h < j}
             Missing == ids \ Lowest(ids, k)
  <1>1. Lowest(ids, k) \in SUBSET ids /\ IsFiniteSet(Lowest(ids, k))
    <2>1. Lowest(ids, k) \in SUBSET ids
      BY DEF Lowest
    <2> QED
      BY <2>1, FS_Subset
  <1>2. ASSUME Missing # {}
        PROVE  FALSE
    <2>1. Missing \subseteq Nat /\ IsFiniteSet(Missing)
      BY FS_Difference
    <2>2. PICK n \in Missing : \A i \in Missing : n <= i
      <3> HIDE DEF Missing
      <3> QED
        BY <2>1, <1>2, LeastNumber
    <2>3. n \in Nat /\ \A i \in ids : i \in Nat
      BY <2>1
    <2>4. Below(n) \in SUBSET Lowest(ids, k)
      <3> SUFFICES ASSUME NEW h \in Below(n)
                   PROVE  h \in Lowest(ids, k)
        OBVIOUS
      <3>1. h \in ids /\ h < n /\ h \in Nat
        BY <2>3
      <3>2. h \notin Missing
        BY <3>1, <2>2, <2>3
      <3> QED
        BY <3>1, <3>2
    <2>5. Cardinality(Below(n)) <= Cardinality(Lowest(ids, k)) /\ IsFiniteSet(Below(n))
      <3> HIDE DEF Below
      <3> QED
        BY <2>4, <1>1, FS_Subset
    <2>6. Cardinality(Below(n)) \in Nat /\ Cardinality(Lowest(ids, k)) \in Nat
      BY <2>5, <1>1, FS_CardinalityType
    <2>7. Cardinality(Below(n)) < k
      <3> HIDE DEF Below
      <3> QED
        BY <2>5, <2>6
    <2> QED
      BY <2>7 DEF Lowest
  <1> QED
    BY <1>1, <1>2
----------------------------------------------------------------------------
\* A part, cut short or not, is a beginning of the nodes after its id.
LEMMA PartIsABeginning ==
    ASSUME NEW from \in Nat, NEW part \in PartsFrom(from, PartSize)
    PROVE  /\ part \subseteq After(from)
           /\ IsFiniteSet(part)
           /\ \A n \in part, i \in After(from) : i < n => i \in part
  <1> DEFINE full == GetAllNodesFrom(from, PartSize)
  <1>1. PICK k \in 0..Cardinality(full) : part = Lowest(full, k)
    BY DEF PartsFrom
  <1>2. After(from) \subseteq Nat /\ IsFiniteSet(After(from))
    <2>1. After(from) \in SUBSET Nodes
      BY DEF After
    <2> QED
      BY <2>1, GraphAssumption, FS_Subset
  <1>3. full \subseteq After(from) /\ part \subseteq full
    BY <1>1 DEF GetAllNodesFrom, Lowest
  <1>4. IsFiniteSet(full) /\ IsFiniteSet(part)
    <2> HIDE DEF full
    <2> QED
      BY <1>2, <1>3, FS_Subset
  <1>5. ASSUME NEW n \in part, NEW i \in After(from), i < n
        PROVE  i \in part
    <2>1. n \in Lowest(After(from), PartSize)
      BY <1>3 DEF GetAllNodesFrom
    <2>2. i \in full
      BY <2>1, <1>2, <1>5, LoadAssumption, LowestIsABeginning DEF GetAllNodesFrom
    <2>3. k \in Nat /\ full \subseteq Nat
      BY <1>2, <1>3, <1>4, FS_CardinalityType
    <2> HIDE DEF full
    <2> QED
      BY <1>1, <1>4, <1>5, <2>2, <2>3, LowestIsABeginning
  <1> QED
    BY <1>2, <1>3, <1>4, <1>5

\* Parts are asked for from an id up to which everything has been read.
ReadInv ==
    /\ last_id \in Nat
    /\ \A from \in BagToSet(asked) : from \in Nat /\ from <= last_id
    /\ PartsAreAPrefix

\* A part moves last_id up to its highest id, and brings all the nodes in between.
LEMMA PartReplyKeepsReadInv ==
    ASSUME ReadInv, NEW from \in BagToSet(asked),
           NEW part \in PartsFrom(from, PartSize), PartReply(from, part),
           asked' = asked (-) SetToBag({from})
    PROVE  ReadInv'
  <1> DEFINE S == part \cup {last_id}
  <1>1. last_id \in Nat /\ from \in Nat /\ from <= last_id
    BY DEF ReadInv
  <1>2. /\ part \subseteq After(from)
        /\ IsFiniteSet(part)
        /\ \A n \in part, i \in After(from) : i < n => i \in part
    BY <1>1, PartIsABeginning
  <1>3. S \subseteq Nat /\ IsFiniteSet(S) /\ S # {}
    BY <1>1, <1>2, GraphAssumption, FS_AddElement DEF After
  <1>4. last_id' \in S /\ \A n \in S : n <= last_id'
    <2>1. last_id' = Highest(S)
      BY DEF PartReply, LastId
    <2> HIDE DEF S
    <2> QED
      BY <2>1, <1>3, HighestExists
  <1>5. last_id' \in Nat /\ last_id <= last_id'
    BY <1>3, <1>4
  <1>6. \A f \in BagToSet(asked') : f \in Nat /\ f <= last_id'
    <2>1. BagToSet(asked') \subseteq BagToSet(asked)
      BY DEF BagToSet, (-)
    <2> QED
      BY <2>1, <1>5 DEF ReadInv
  <1>7. nodes' = {n \in Nodes : 0 < n /\ n <= last_id'}
    <2>1. nodes' = {n \in Nodes : 0 < n /\ n <= last_id} \cup part
      BY DEF PartReply, ReadInv, PartsAreAPrefix
    <2>2. ASSUME NEW n \in nodes'
          PROVE  n \in Nodes /\ 0 < n /\ n <= last_id'
      <3>1. CASE n \in part
        BY <3>1, <1>1, <1>2, <1>4, GraphAssumption DEF After
      <3>2. CASE n \in Nodes /\ 0 < n /\ n <= last_id
        BY <3>2, <1>1, <1>5, GraphAssumption
      <3> QED
        BY <2>1, <3>1, <3>2
    <2>3. ASSUME NEW n \in Nodes, 0 < n, n <= last_id', ~(n <= last_id)
          PROVE  n \in part
      <3>1. n \in Nat
        BY GraphAssumption
      <3>2. n \in After(from)
        BY <2>3, <3>1, <1>1 DEF After
      <3>3. last_id' \in part
        BY <2>3, <1>4
      <3> QED
        BY <2>3, <3>1, <3>2, <3>3, <1>2, <1>5
    <2> QED
      BY <2>1, <2>2, <2>3
  <1> QED
    BY <1>5, <1>6, <1>7 DEF ReadInv, PartsAreAPrefix

\* No other step reads a node.
LEMMA ReadInvStep ==
    ASSUME ReadInv, [Next]_vars
    PROVE  ReadInv'
  <1>1. CASE PartEnds
    <2>1. PICK from \in BagToSet(asked) :
              /\ asked' = asked (-) SetToBag({from})
              /\ \/ \E part \in PartsFrom(from, PartSize) : PartReply(from, part)
                 \/ PartFailed(1)
                 \/ PartFailed(2)
      BY <1>1 DEF PartEnds
    <2>2. CASE \E part \in PartsFrom(from, PartSize) : PartReply(from, part)
      BY <2>1, <2>2, PartReplyKeepsReadInv
    <2>3. CASE PartFailed(1) \/ PartFailed(2)
      <3>1. BagToSet(asked') \subseteq BagToSet(asked)
        BY <2>1 DEF BagToSet, (-)
      <3> QED
        BY <2>3, <3>1 DEF PartFailed, nodeVars, ReadInv, PartsAreAPrefix
    <2> QED
      BY <2>1, <2>2, <2>3
  <1>2. CASE FetchPart
    <2>1. BagToSet(asked') \subseteq BagToSet(asked) \cup {last_id}
      BY <1>2 DEF FetchPart, BagToSet, (+), SetToBag
    <2> QED
      BY <1>2, <2>1 DEF FetchPart, nodeVars, ReadInv, PartsAreAPrefix
  <1>3. CASE UNCHANGED <<nodeVars, asked>>
    BY <1>3 DEF nodeVars, ReadInv, PartsAreAPrefix
  <1>4. \/ PartEnds
        \/ FetchPart
        \/ UNCHANGED <<nodeVars, asked>>
    BY DEF Next, vars, nodeVars, Attach, StatusReply, CallHandler, UserParamsReply,
           LinksReply
  <1> QED
    BY <1>1, <1>2, <1>3, <1>4

\* No node is skipped: at any time the nodes read are all those up to the id
\* the next part is asked for from, for every graph and any failures
\* (main.js, fetch_part).
THEOREM NoNodeSkipped == Spec => []PartsAreAPrefix
  <1>1. Init => ReadInv
    <2> SUFFICES ASSUME Init PROVE ReadInv
      OBVIOUS
    <2>1. BagToSet(asked) = {}
      BY DEF Init, BagToSet, EmptyBag, SetToBag
    <2>2. \A n \in Nodes : ~(0 < n /\ n <= 0)
      <3>1. \A n \in Nodes : n \in Nat
        BY GraphAssumption
      <3> QED
        BY <3>1
    <2> QED
      BY <2>1, <2>2 DEF Init, ReadInv, PartsAreAPrefix
  <1>2. ReadInv /\ [Next]_vars => ReadInv'
    BY ReadInvStep
  <1>3. ReadInv => PartsAreAPrefix
    BY DEF ReadInv
  <1> QED
    BY <1>1, <1>2, <1>3, PTL DEF Spec
----------------------------------------------------------------------------
\* What is under way tells how far the load is, and from the third level on
\* all nodes have been read, if every stream was complete.
LevelInv ==
    /\ fetchLevel \in Nat /\ partTimers \in Nat /\ starts \in Nat
    /\ "status" \in sent <=> status = "asked"
    /\ handlerDue => attached /\ status # "asked"
    /\ status = "asked" \/ ~attached \/ handlerDue => fetchLevel = 0
    /\ "params" \in sent => fetchLevel = 1
    /\ BagToSet(asked) # {} \/ partTimers > 0 => fetchLevel >= 2
    /\ "links" \in sent => fetchLevel >= 3
    /\ starts > 0 => fetchLevel > 3
    /\ fetchLevel >= 3 /\ ~cut => nodes = Nodes \ {0}
    /\ ~cut => links \in {NotLoaded, FetchAllLinks}

\* The first call of update_sequence asks for the parameters.
LEMMA StatusHandlersKeepLevelInv ==
    ASSUME LevelInv, fetchLevel = 0, NEW outcome, NEW pending,
           StatusHandlers(outcome, pending), pending \subseteq sent,
           attached' = TRUE, handlerDue' = FALSE, status' # "asked", "status" \notin pending,
           UNCHANGED <<asked, nodeVars, links, cut>>
    PROVE  LevelInv'
  <1>1. CASE UpdateSequence(pending)
    <2>1. fetchLevel' = 1 /\ sent' = pending \cup {"params"} /\ partTimers' = partTimers
             /\ starts' = starts
      BY <1>1 DEF UpdateSequence, LevelInv
    <2> QED
      BY <2>1 DEF LevelInv, nodeVars
  <1>2. CASE NoUpdateSequence(pending)
    BY <1>2 DEF NoUpdateSequence, LevelInv, nodeVars
  <1> QED
    BY <1>1, <1>2 DEF StatusHandlers

\* A last part that is complete brings all nodes that are left, so the third level
\* is reached with every node.
LEMMA PartReplyKeepsLevelInv ==
    ASSUME LevelInv, ReadInv, NEW from \in BagToSet(asked),
           NEW part \in PartsFrom(from, PartSize), PartReply(from, part),
           asked' = asked (-) SetToBag({from}),
           UNCHANGED <<attached, status, handlerDue, load_cancel, links>>
    PROVE  LevelInv'
  <1>1. from \in Nat /\ from <= last_id /\ last_id \in Nat /\ fetchLevel >= 2
           /\ fetchLevel \in Nat
    BY DEF ReadInv, LevelInv
  <1>2. part \subseteq After(from) /\ IsFiniteSet(part)
    BY <1>1, PartIsABeginning
  <1>3. After(from) \subseteq Nodes \ {0}
    BY <1>1 DEF After
  <1>4. fetchLevel' >= 3 /\ ~cut' => nodes' = Nodes \ {0}
    <2> SUFFICES ASSUME fetchLevel' >= 3, ~cut'
                 PROVE  nodes' = Nodes \ {0}
      OBVIOUS
    <2>1. ~cut /\ part = GetAllNodesFrom(from, PartSize)
      BY DEF PartReply
    <2>2. nodes' = nodes \cup part
      BY DEF PartReply
    <2>3. CASE fetchLevel >= 3
      BY <2>1, <2>2, <2>3, <1>2, <1>3 DEF LevelInv
    <2>4. CASE ~(fetchLevel >= 3)
      <3>1. IsLastPart(part)
        BY <2>4 DEF PartReply
      <3>2. After(from) \subseteq Nat /\ IsFiniteSet(After(from))
        <4>1. After(from) \in SUBSET Nodes
          BY DEF After
        <4> QED
          BY <4>1, GraphAssumption, FS_Subset
      <3>3. part = After(from)
        BY <3>1, <3>2, <2>1, LoadAssumption, FewLowestAreAll
           DEF IsLastPart, GetAllNodesFrom
      <3>4. nodes = {n \in Nodes : 0 < n /\ n <= last_id}
        BY DEF ReadInv, PartsAreAPrefix
      <3>5. \A n \in Nodes \ {0} : n \in nodes \/ n \in part
        BY <3>3, <3>4, <1>1, GraphAssumption DEF After
      <3>6. 0 \notin nodes /\ nodes \subseteq Nodes
        BY <3>4
      <3> QED
        BY <2>2, <3>3, <3>5, <3>6, <1>3
    <2> QED
      BY <2>3, <2>4
  <1>5. BagToSet(asked') \subseteq BagToSet(asked)
    BY DEF BagToSet, (-)
  <1>6. ~cut' => ~cut
    BY DEF PartReply
  <1>7. CASE UpdateSequence(sent)
    <2>1. /\ fetchLevel' = fetchLevel + 1
          /\ sent' \subseteq sent \cup {"links"}
          /\ "status" \notin sent /\ "params" \notin sent
          /\ partTimers' = partTimers
          /\ starts' \in Nat
          /\ starts' > 0 => fetchLevel' > 3
          /\ sent \subseteq sent'
      BY <1>7, <1>1 DEF UpdateSequence, LevelInv
    <2> QED
      BY <2>1, <1>1, <1>4, <1>5, <1>6 DEF LevelInv
  <1>8. CASE partTimers' = partTimers + 1 /\ UNCHANGED <<fetchLevel, sent, starts>>
    BY <1>8, <1>1, <1>4, <1>5, <1>6 DEF LevelInv
  <1> QED
    BY <1>7, <1>8 DEF PartReply

\* Every other step leaves the level, or takes it up with what is under way.
LEMMA LevelInvStep ==
    ASSUME LevelInv, ReadInv, [Next]_vars
    PROVE  LevelInv'
  <1>1. CASE Attach
    BY <1>1 DEF Attach, CallLater, LevelInv, nodeVars
  <1>2. CASE StatusReply
    <2> DEFINE rest == sent \ {"status"}
    <2>1. /\ "status" \in sent /\ status = "asked" /\ fetchLevel = 0 /\ handlerDue = FALSE
          /\ status' \in {"success", "failed"} /\ attached' = attached
          /\ handlerDue' = handlerDue
          /\ UNCHANGED <<asked, nodeVars, links, cut>>
      BY <1>2 DEF StatusReply, LevelInv
    <2>2. rest \subseteq sent /\ "status" \notin rest /\ status' # "asked"
      BY <2>1
    <2>3. CASE attached
      <3>1. StatusHandlers(status', rest)
        BY <1>2, <2>3 DEF StatusReply
      <3> HIDE DEF rest
      <3> QED
        BY <2>1, <2>2, <2>3, <3>1, StatusHandlersKeepLevelInv
    <2>4. CASE ~attached
      <3>1. NoUpdateSequence(rest)
        BY <1>2, <2>4 DEF StatusReply
      <3> QED
        BY <2>1, <2>2, <2>4, <3>1 DEF NoUpdateSequence, LevelInv, nodeVars
    <2> QED
      BY <2>3, <2>4
  <1>3. CASE CallHandler
    <2>1. /\ fetchLevel = 0 /\ attached /\ status # "asked" /\ "status" \notin sent
          /\ StatusHandlers(status, sent)
          /\ handlerDue' = FALSE
          /\ UNCHANGED <<attached, status, asked, nodeVars, links, cut>>
      BY <1>3 DEF CallHandler, LevelInv
    <2>2. attached' /\ status' # "asked"
      BY <2>1
    <2> QED
      BY <2>1, <2>2, StatusHandlersKeepLevelInv
  <1>4. CASE UserParamsReply
    <2> DEFINE rest == sent \ {"params"}
    <2>1. /\ "params" \in sent /\ fetchLevel = 1
          /\ UNCHANGED <<attached, status, handlerDue, asked, nodeVars, links, cut>>
          /\ \/ NoUpdateSequence(rest)
             \/ UpdateSequence(rest)
      BY <1>4 DEF UserParamsReply, Ignored, Failed, LevelInv
    <2>2. CASE NoUpdateSequence(rest)
      BY <2>1, <2>2 DEF NoUpdateSequence, LevelInv, nodeVars
    <2>3. CASE UpdateSequence(rest)
      <3>1. /\ fetchLevel' = 2 /\ sent' = rest
            /\ partTimers' = partTimers + 1 /\ starts' = starts
        BY <2>1, <2>3 DEF UpdateSequence, LevelInv
      <3> QED
        BY <2>1, <3>1 DEF LevelInv, nodeVars
    <2> QED
      BY <2>1, <2>2, <2>3
  <1>5. CASE LinksReply
    <2> DEFINE rest == sent \ {"links"}
    <2>1. /\ "links" \in sent /\ fetchLevel >= 3
          /\ UNCHANGED <<attached, status, handlerDue, asked, nodeVars>>
          /\ ~cut' => ~cut /\ links' \in {links, FetchAllLinks}
          /\ \/ NoUpdateSequence(rest)
             \/ UpdateSequence(rest)
      BY <1>5 DEF LinksReply, Ignored, Failed, LevelInv
    <2>2. CASE NoUpdateSequence(rest)
      BY <2>1, <2>2 DEF NoUpdateSequence, LevelInv, nodeVars
    <2>3. CASE UpdateSequence(rest)
      <3>1. /\ fetchLevel' = fetchLevel + 1 /\ sent' = rest
            /\ partTimers' = partTimers /\ starts' = starts + 1
        BY <2>1, <2>3 DEF UpdateSequence, LevelInv
      <3> QED
        BY <2>1, <3>1 DEF LevelInv, nodeVars
    <2> QED
      BY <2>1, <2>2, <2>3
  <1>6. CASE FetchPart
    <2>1. BagToSet(asked') \subseteq BagToSet(asked) \cup {last_id}
      BY <1>6 DEF FetchPart, BagToSet, (+), SetToBag
    <2> QED
      BY <1>6, <2>1 DEF FetchPart, LevelInv, nodeVars
  <1>7. CASE PartEnds
    <2>1. PICK from \in BagToSet(asked) :
              /\ asked' = asked (-) SetToBag({from})
              /\ \/ \E part \in PartsFrom(from, PartSize) : PartReply(from, part)
                 \/ PartFailed(1)
                 \/ PartFailed(2)
      BY <1>7 DEF PartEnds
    <2>2. UNCHANGED <<attached, status, handlerDue, load_cancel, links>>
      BY <1>7 DEF PartEnds
    <2>3. CASE \E part \in PartsFrom(from, PartSize) : PartReply(from, part)
      BY <2>1, <2>2, <2>3, PartReplyKeepsLevelInv
    <2>4. CASE PartFailed(1) \/ PartFailed(2)
      <3>1. BagToSet(asked') \subseteq BagToSet(asked) /\ fetchLevel >= 2
        BY <2>1 DEF BagToSet, (-), LevelInv
      <3> QED
        BY <2>2, <2>4, <3>1 DEF PartFailed, LevelInv, nodeVars
    <2> QED
      BY <2>1, <2>3, <2>4
  <1>8. CASE UNCHANGED vars
    BY <1>8 DEF vars, LevelInv, nodeVars
  <1> QED
    BY <1>1, <1>2, <1>3, <1>4, <1>5, <1>6, <1>7, <1>8 DEF Next

\* At the start nothing is read and the load is at its first level.
LEMMA ReadAndLevelStart == Init => LevelInv /\ ReadInv
  <1> SUFFICES ASSUME Init PROVE LevelInv /\ ReadInv
    OBVIOUS
  <1>1. BagToSet(asked) = {}
    BY DEF Init, BagToSet, EmptyBag, SetToBag
  <1>2. LevelInv
    BY <1>1 DEF Init, LevelInv
  <1>3. \A n \in Nodes : ~(0 < n /\ n <= 0)
    <2>1. \A n \in Nodes : n \in Nat
      BY GraphAssumption
    <2> QED
      BY <2>1
  <1>4. ReadInv
    BY <1>1, <1>3 DEF Init, ReadInv, PartsAreAPrefix
  <1> QED
    BY <1>2, <1>4

\* When the page starts, it has all nodes and links, for every graph, unless a
\* stream was cut short or there are more links than are asked for (main.js,
\* update_sequence; GraphController.php).
THEOREM StartsWithEverything == Spec => []StartsComplete
  <1>1. Init => LevelInv /\ ReadInv
    BY ReadAndLevelStart
  <1>2. LevelInv /\ ReadInv /\ [Next]_vars => LevelInv' /\ ReadInv'
    BY LevelInvStep, ReadInvStep
  <1>3. LevelInv => StartsComplete
    <2> SUFFICES ASSUME LevelInv, starts > 0, ~cut
                 PROVE  /\ nodes = Nodes \ {0}
                        /\ NLinks <= 2 * Cardinality(Nodes) + 1 => links \in {NotLoaded, NLinks}
      BY DEF StartsComplete
    <2>1. fetchLevel >= 3 /\ links \in {NotLoaded, FetchAllLinks}
      BY DEF LevelInv
    <2>2. Cardinality(Nodes) \in Nat /\ NLinks \in Nat
      BY GraphAssumption, FS_CardinalityType
    <2>3. NLinks <= 2 * Cardinality(Nodes) + 1 => FetchAllLinks = NLinks
      BY <2>2 DEF FetchAllLinks, GetLinksCount, GetNodesCount
    <2> QED
      BY <2>1, <2>3 DEF LevelInv
  <1> QED
    BY <1>1, <1>2, <1>3, PTL DEF Spec
----------------------------------------------------------------------------
\* How many copies there are in a bag: none in the empty one.
LEMMA EmptyBagCardinality == BagCardinality(EmptyBag) = 0
  <1> DEFINE B == EmptyBag
             G(D) == [S \in SUBSET DOMAIN B |->
                         LET elt == CHOOSE e \in S : TRUE
                         IN  IF S = {} THEN 0 ELSE B[elt] + D[S \ {elt}]]
             F == CHOOSE D : D = G(D)
             g == [S \in SUBSET {} |-> 0]
  <1>1. DOMAIN B = {}
    BY DEF EmptyBag, SetToBag
  <1>2. BagCardinality(B) = F[DOMAIN B]
    BY DEF BagCardinality
  <1>3. g = G(g)
    BY <1>1
  <1> HIDE DEF B, g
  <1>4. F = G(F)
    <2> HIDE DEF G
    <2> QED
      BY <1>3
  <1> HIDE DEF F
  <1>5. F[{}] = 0
    BY <1>1, <1>4
  <1> QED
    BY <1>1, <1>2, <1>5 DEF B

\* One in the bag of a single element.
LEMMA SingleBagCardinality ==
    ASSUME NEW x
    PROVE  BagCardinality(SetToBag({x})) = 1
  <1> DEFINE B == SetToBag({x})
             G(D) == [S \in SUBSET DOMAIN B |->
                         LET elt == CHOOSE e \in S : TRUE
                         IN  IF S = {} THEN 0 ELSE B[elt] + D[S \ {elt}]]
             F == CHOOSE D : D = G(D)
             g == [S \in SUBSET {x} |-> IF S = {} THEN 0 ELSE 1]
  <1>1. DOMAIN B = {x} /\ B[x] = 1
    BY DEF SetToBag
  <1>2. BagCardinality(B) = F[DOMAIN B]
    BY DEF BagCardinality
  <1>3. g = G(g)
    <2>1. \A S \in SUBSET {x} : S # {} => (CHOOSE e \in S : TRUE) = x /\ S \ {x} = {}
      OBVIOUS
    <2> HIDE DEF B
    <2>2. \A S \in SUBSET {x} : g[S] = G(g)[S]
      BY <1>1, <2>1
    <2> QED
      BY <1>1, <2>2
  <1> HIDE DEF B, g
  <1>4. F = G(F)
    <2> HIDE DEF G
    <2> QED
      BY <1>3
  <1> HIDE DEF F
  <1>5. F[{}] = 0 /\ F[{x}] = 1
    <2>1. (CHOOSE e \in {x} : TRUE) = x /\ {x} \ {x} = {} /\ {x} # {}
      OBVIOUS
    <2> QED
      BY <1>1, <1>4, <2>1
  <1> QED
    BY <1>1, <1>2, <1>5 DEF B

\* An element put into an empty bag is alone in it.
LEMMA IntoEmptyBag ==
    ASSUME NEW x
    PROVE  EmptyBag (+) SetToBag({x}) = SetToBag({x})
  <1>1. DOMAIN EmptyBag = {} /\ DOMAIN SetToBag({x}) = {x} /\ SetToBag({x})[x] = 1
    BY DEF EmptyBag, SetToBag
  <1>2. EmptyBag (+) SetToBag({x}) = [e \in {x} |-> 1]
    BY <1>1 DEF (+)
  <1> QED
    BY <1>2 DEF SetToBag

\* And the only one taken out leaves it empty.
LEMMA OutOfSingleBag ==
    ASSUME NEW x
    PROVE  SetToBag({x}) (-) SetToBag({x}) = EmptyBag
  <1> DEFINE B == SetToBag({x})
  <1>1. DOMAIN B = {x} /\ B[x] = 1
    BY DEF SetToBag
  <1> HIDE DEF B
  <1>2. B (-) B = [e \in {} |-> 1]
    BY <1>1 DEF (-)
  <1> QED
    BY <1>2 DEF EmptyBag, SetToBag, B

\* Both operations make bags out of bags.
LEMMA BagsStayBags ==
    ASSUME NEW B, IsABag(B), NEW x
    PROVE  /\ IsABag(B (+) SetToBag({x})) /\ BagToSet(B (+) SetToBag({x})) = BagToSet(B) \cup {x}
           /\ IsABag(B (-) SetToBag({x})) /\ BagToSet(B (-) SetToBag({x})) \subseteq BagToSet(B)
  <1> DEFINE P == B (+) SetToBag({x})
             M == B (-) SetToBag({x})
  <1>1. \A e \in DOMAIN B : B[e] \in Nat /\ B[e] > 0
    BY DEF IsABag
  <1>2. DOMAIN SetToBag({x}) = {x} /\ SetToBag({x})[x] = 1
    BY DEF SetToBag
  <1>3. /\ P = [e \in DOMAIN B \cup {x} |->
                   (IF e \in DOMAIN B THEN B[e] ELSE 0) + (IF e \in {x} THEN 1 ELSE 0)]
    BY <1>2 DEF (+)
  <1>4. ASSUME NEW e \in DOMAIN P
        PROVE  P[e] \in Nat /\ P[e] > 0
    BY <1>1, <1>3
  <1>5. IsABag(P) /\ BagToSet(P) = BagToSet(B) \cup {x}
    <2>1. DOMAIN P = DOMAIN B \cup {x} /\ P = [e \in DOMAIN P |-> P[e]]
      BY <1>3
    <2> HIDE DEF P
    <2> QED
      BY <1>4, <2>1 DEF IsABag, BagToSet
  <1> DEFINE C == [e \in DOMAIN B |-> IF e \in {x} THEN B[e] - 1 ELSE B[e]]
  <1>6. M = [e \in {d \in DOMAIN C : C[d] > 0} |-> C[e]]
    BY <1>2 DEF (-)
  <1>7. \A e \in DOMAIN B : C[e] \in Int
    BY <1>1
  <1>8. IsABag(M) /\ BagToSet(M) \subseteq BagToSet(B)
    <2>1. DOMAIN C = DOMAIN B
      OBVIOUS
    <2> HIDE DEF C
    <2>2. DOMAIN M \subseteq DOMAIN B /\ \A e \in DOMAIN M : M[e] \in Nat /\ M[e] > 0
      BY <1>6, <1>7, <2>1
    <2>3. M = [e \in DOMAIN M |-> M[e]]
      BY <1>6
    <2> HIDE DEF M
    <2> QED
      BY <2>2, <2>3 DEF IsABag, BagToSet
  <1> QED
    BY <1>5, <1>8
----------------------------------------------------------------------------
\* The types of the flags, and of all else.
Flags ==
    /\ attached \in BOOLEAN
    /\ handlerDue \in BOOLEAN
    /\ load_cancel \in BOOLEAN
    /\ repeated \in BOOLEAN
    /\ cut \in BOOLEAN

Amounts ==
    /\ status \in {"asked", "success", "failed"}
    /\ fetchLevel \in Nat
    /\ sent \subseteq {"status", "params", "links"}
    /\ IsABag(asked) /\ BagToSet(asked) \subseteq Nodes \cup {0}
    /\ partTimers \in Nat
    /\ last_id \in Nodes \cup {0}
    /\ nodes \subseteq Nodes
    /\ links \in {NotLoaded} \cup 0..FetchAllLinks
    /\ starts \in Nat
    /\ failures \in 0..MaxFailures
    /\ broken \in 0..failures

\* Together they are the types of the page.
LEMMA TypesAreTwo == (Flags /\ Amounts) <=> TypeOK
  BY Zenon DEF Flags, Amounts, TypeOK

\* The flags stay flags.
LEMMA FlagsStep ==
    ASSUME Flags, [Next]_vars
    PROVE  Flags'
  <1>1. CASE Attach
    <2>1. attached' = TRUE /\ handlerDue' = CallLater
             /\ UNCHANGED <<load_cancel, repeated, cut>>
      BY <1>1, Zenon DEF Attach, nodeVars
    <2>2. CallLater \in BOOLEAN
      BY Zenon DEF CallLater
    <2> QED
      BY <2>1, <2>2, Zenon DEF Flags
  <1>2. ASSUME NEW outcome, NEW pending, StatusHandlers(outcome, pending)
        PROVE  load_cancel' \in BOOLEAN
    BY <1>2, Zenon DEF StatusHandlers, Flags
  <1>3. CASE StatusReply
    <2>1. load_cancel' \in BOOLEAN
      <3>1. CASE attached
        BY <1>2, <1>3, <3>1, Zenon DEF StatusReply
      <3>2. CASE ~attached
        BY <1>3, <3>2, Zenon DEF StatusReply, Flags
      <3> QED
        BY <3>1, <3>2, Zenon
    <2> QED
      BY <1>3, <2>1, Zenon DEF StatusReply, nodeVars, Flags
  <1>4. CASE CallHandler
    BY <1>2, <1>4, Zenon DEF CallHandler, nodeVars, Flags
  <1>5. ASSUME NEW what, Ignored(what) \/ Failed(what)
        PROVE  load_cancel' \in BOOLEAN /\ cut' = cut
    BY <1>5, Zenon DEF Ignored, Failed, Flags
  <1>6. CASE UserParamsReply
    <2>1. load_cancel' \in BOOLEAN /\ cut' = cut
      BY <1>5, <1>6, Zenon DEF UserParamsReply, Flags
    <2> QED
      BY <1>6, <2>1, Zenon DEF UserParamsReply, nodeVars, Flags
  <1>7. CASE LinksReply
    <2>1. load_cancel' \in BOOLEAN
      BY <1>5, <1>7, Zenon DEF LinksReply, Flags
    <2>2. cut' \in BOOLEAN
      BY <1>5, <1>7, Zenon DEF LinksReply, Flags
    <2> QED
      BY <1>7, <2>1, <2>2, Zenon DEF LinksReply, nodeVars, Flags
  <1>8. CASE FetchPart
    BY <1>8, Zenon DEF FetchPart, nodeVars, Flags
  <1>9. CASE PartEnds
    <2>1. /\ UNCHANGED <<attached, handlerDue, load_cancel>>
          /\ \E from \in BagToSet(asked) :
                \/ \E part \in PartsFrom(from, PartSize) : PartReply(from, part)
                \/ PartFailed(1)
                \/ PartFailed(2)
      BY <1>9, Zenon DEF PartEnds
    <2>2. ASSUME NEW from, NEW part, PartReply(from, part)
          PROVE  repeated' \in BOOLEAN /\ cut' \in BOOLEAN
      <3>1. repeated' = (repeated \/ nodes \cap part # {})
        BY <2>2, Zenon DEF PartReply
      <3>2. repeated' \in BOOLEAN
        BY <3>1, Zenon
      <3>3. cut' = cut \/ cut' = TRUE
        BY <2>2, Zenon DEF PartReply
      <3> QED
        BY <3>2, <3>3, Zenon DEF Flags
    <2>3. ASSUME NEW calls, PartFailed(calls)
          PROVE  repeated' \in BOOLEAN /\ cut' \in BOOLEAN
      BY <2>3, Zenon DEF PartFailed, nodeVars, Flags
    <2> QED
      BY <2>1, <2>2, <2>3, Zenon DEF Flags
  <1>10. CASE UNCHANGED vars
    BY <1>10, Zenon DEF vars, Flags
  <1> QED
    BY <1>1, <1>3, <1>4, <1>6, <1>7, <1>8, <1>9, <1>10, Zenon DEF Next

\* update_sequence counts up, and sends nothing unknown.
LEMMA SequenceTypes ==
    ASSUME Amounts, NEW pending, pending \subseteq sent,
           UpdateSequence(pending) \/ NoUpdateSequence(pending)
    PROVE  /\ fetchLevel' \in Nat /\ partTimers' \in Nat /\ starts' \in Nat
           /\ sent' \subseteq {"status", "params", "links"}
  <1>1. CASE UpdateSequence(pending)
    <2>1. fetchLevel' \in Nat /\ partTimers' \in Nat /\ starts' \in Nat
      BY <1>1 DEF UpdateSequence, Amounts
    <2>2. sent' \subseteq pending \cup {"params", "links"}
      BY <1>1 DEF UpdateSequence
    <2> QED
      BY <2>1, <2>2 DEF Amounts
  <1>2. CASE NoUpdateSequence(pending)
    BY <1>2 DEF NoUpdateSequence, Amounts
  <1> QED
    BY <1>1, <1>2

\* The links that are asked for can be counted.
LEMMA FetchAllLinksType == FetchAllLinks \in Nat
  <1>1. Cardinality(Nodes) \in Nat /\ NLinks \in Nat
    BY GraphAssumption, FS_CardinalityType
  <1> QED
    BY <1>1 DEF FetchAllLinks, GetLinksCount, GetNodesCount

\* A part brings nodes of the graph, so that last_id is one, or still 0.
LEMMA PartReplyTypes ==
    ASSUME Amounts, NEW from \in BagToSet(asked),
           NEW part \in PartsFrom(from, PartSize), PartReply(from, part)
    PROVE  /\ last_id' \in Nodes \cup {0} /\ nodes' \subseteq Nodes
           /\ failures' \in 0..MaxFailures /\ broken' \in 0..failures'
           /\ fetchLevel' \in Nat /\ partTimers' \in Nat /\ starts' \in Nat
           /\ sent' \subseteq {"status", "params", "links"}
  <1> DEFINE S == part \cup {last_id}
  <1>1. from \in Nat /\ last_id \in Nat
    <2>1. from \in Nodes \cup {0} /\ last_id \in Nodes \cup {0}
      BY DEF Amounts
    <2>2. Nodes \cup {0} \subseteq Nat
      BY GraphAssumption
    <2> QED
      BY <2>1, <2>2
  <1>2. part \subseteq Nodes /\ IsFiniteSet(part)
    <2>1. part \subseteq After(from) /\ IsFiniteSet(part)
      BY <1>1, PartIsABeginning
    <2> QED
      BY <2>1 DEF After
  <1>3. last_id' \in Nodes \cup {0}
    <2>1. S \subseteq Nat /\ IsFiniteSet(S) /\ S # {}
      BY <1>1, <1>2, GraphAssumption, FS_AddElement
    <2>2. last_id' = Highest(S)
      BY DEF PartReply, LastId
    <2>3. S \subseteq Nodes \cup {0}
      BY <1>2 DEF Amounts
    <2> HIDE DEF S
    <2>4. Highest(S) \in S
      BY <2>1, HighestExists
    <2> QED
      BY <2>2, <2>3, <2>4
  <1>4. nodes' \subseteq Nodes
    BY <1>2 DEF PartReply, Amounts
  <1>5. failures' \in 0..MaxFailures /\ broken' \in 0..failures'
    <2>1. broken' = broken /\ (failures' = failures \/ Fails)
      BY DEF PartReply
    <2> QED
      BY <2>1, LoadAssumption DEF Fails, Amounts
  <1>6. /\ fetchLevel' \in Nat /\ partTimers' \in Nat /\ starts' \in Nat
        /\ sent' \subseteq {"status", "params", "links"}
    <2>1. CASE UpdateSequence(sent)
      BY <2>1, SequenceTypes
    <2>2. CASE partTimers' = partTimers + 1 /\ UNCHANGED <<fetchLevel, sent, starts>>
      BY <2>2 DEF Amounts
    <2> QED
      BY <2>1, <2>2 DEF PartReply
  <1> QED
    BY <1>3, <1>4, <1>5, <1>6

\* Every step keeps the types of all else.
LEMMA AmountsStep ==
    ASSUME Amounts, [Next]_vars
    PROVE  Amounts'
  <1>1. ASSUME Fails
        PROVE  failures' \in 0..MaxFailures /\ broken \in 0..failures'
    BY <1>1, LoadAssumption DEF Fails, Amounts
  <1>2. CASE Attach
    BY <1>2 DEF Attach, nodeVars, Amounts
  <1>3. ASSUME NEW outcome, NEW pending, pending \subseteq sent,
               StatusHandlers(outcome, pending)
        PROVE  /\ fetchLevel' \in Nat /\ partTimers' \in Nat /\ starts' \in Nat
               /\ sent' \subseteq {"status", "params", "links"}
    BY <1>3, SequenceTypes DEF StatusHandlers
  <1>4. CASE StatusReply
    <2> DEFINE rest == sent \ {"status"}
    <2>1. /\ status' \in {"success", "failed"}
          /\ UNCHANGED <<asked, nodeVars, links, broken>>
          /\ failures' = failures \/ Fails
          /\ IF attached THEN StatusHandlers(status', rest) ELSE NoUpdateSequence(rest)
      BY <1>4 DEF StatusReply
    <2>2. rest \subseteq sent
      OBVIOUS
    <2> HIDE DEF rest
    <2>3. /\ fetchLevel' \in Nat /\ partTimers' \in Nat /\ starts' \in Nat
          /\ sent' \subseteq {"status", "params", "links"}
      <3>1. CASE attached
        BY <1>3, <2>1, <2>2, <3>1
      <3>2. CASE ~attached
        BY <2>1, <2>2, <3>2, SequenceTypes
      <3> QED
        BY <3>1, <3>2
    <2> QED
      BY <1>1, <2>1, <2>3 DEF nodeVars, Amounts
  <1>5. CASE CallHandler
    <2>1. /\ fetchLevel' \in Nat /\ partTimers' \in Nat /\ starts' \in Nat
          /\ sent' \subseteq {"status", "params", "links"}
      BY <1>3, <1>5 DEF CallHandler
    <2> QED
      BY <1>5, <2>1 DEF CallHandler, nodeVars, Amounts
  <1>6. CASE UserParamsReply
    <2> DEFINE rest == sent \ {"params"}
    <2>1. /\ UNCHANGED <<status, asked, nodeVars, links, broken>>
          /\ failures' = failures \/ Fails
          /\ UpdateSequence(rest) \/ NoUpdateSequence(rest)
      BY <1>6 DEF UserParamsReply, Ignored, Failed
    <2>2. rest \subseteq sent
      OBVIOUS
    <2> HIDE DEF rest
    <2>3. /\ fetchLevel' \in Nat /\ partTimers' \in Nat /\ starts' \in Nat
          /\ sent' \subseteq {"status", "params", "links"}
      BY <2>1, <2>2, SequenceTypes
    <2> QED
      BY <1>1, <2>1, <2>3 DEF nodeVars, Amounts
  <1>7. CASE LinksReply
    <2> DEFINE rest == sent \ {"links"}
    <2>1. /\ UNCHANGED <<status, asked, nodeVars, broken>>
          /\ failures' = failures \/ Fails
          /\ UpdateSequence(rest) \/ NoUpdateSequence(rest)
          /\ links' = links \/ links' = FetchAllLinks \/ links' \in 0..FetchAllLinks - 1
      BY <1>7 DEF LinksReply, Ignored, Failed
    <2>2. rest \subseteq sent
      OBVIOUS
    <2> HIDE DEF rest
    <2>3. /\ fetchLevel' \in Nat /\ partTimers' \in Nat /\ starts' \in Nat
          /\ sent' \subseteq {"status", "params", "links"}
      BY <2>1, <2>2, SequenceTypes
    <2>4. links' \in {NotLoaded} \cup 0..FetchAllLinks
      BY <2>1, FetchAllLinksType DEF Amounts
    <2> QED
      BY <1>1, <2>1, <2>3, <2>4 DEF nodeVars, Amounts
  <1>8. CASE FetchPart
    <2>1. asked' = asked (+) SetToBag({last_id}) /\ partTimers' \in Nat
             /\ UNCHANGED <<status, fetchLevel, sent, nodeVars, links, starts, failures, broken>>
      BY <1>8 DEF FetchPart, Amounts
    <2>2. IsABag(asked') /\ BagToSet(asked') = BagToSet(asked) \cup {last_id}
      BY <2>1, BagsStayBags DEF Amounts
    <2> QED
      BY <2>1, <2>2 DEF nodeVars, Amounts
  <1>9. CASE PartEnds
    <2>1. PICK from \in BagToSet(asked) :
              /\ asked' = asked (-) SetToBag({from})
              /\ \/ \E part \in PartsFrom(from, PartSize) : PartReply(from, part)
                 \/ PartFailed(1)
                 \/ PartFailed(2)
      BY <1>9 DEF PartEnds
    <2>2. UNCHANGED <<status, links>>
      BY <1>9 DEF PartEnds
    <2>3. IsABag(asked') /\ BagToSet(asked') \subseteq Nodes \cup {0}
      BY <2>1, BagsStayBags DEF Amounts
    <2>4. CASE \E part \in PartsFrom(from, PartSize) : PartReply(from, part)
      <3>1. /\ last_id' \in Nodes \cup {0} /\ nodes' \subseteq Nodes
            /\ failures' \in 0..MaxFailures /\ broken' \in 0..failures'
            /\ fetchLevel' \in Nat /\ partTimers' \in Nat /\ starts' \in Nat
            /\ sent' \subseteq {"status", "params", "links"}
        BY <2>4, PartReplyTypes
      <3> QED
        BY <2>2, <2>3, <3>1 DEF Amounts
    <2>5. ASSUME NEW calls \in 1..2, PartFailed(calls)
          PROVE  Amounts'
      <3>1. partTimers' \in Nat /\ failures' \in 0..MaxFailures /\ broken' \in 0..failures'
        BY <2>5, LoadAssumption DEF PartFailed, Fails, Amounts
      <3> QED
        BY <2>2, <2>3, <2>5, <3>1 DEF PartFailed, nodeVars, Amounts
    <2> QED
      BY <2>1, <2>4, <2>5
  <1>10. CASE UNCHANGED vars
    BY <1>10 DEF vars, nodeVars, Amounts
  <1> QED
    BY <1>2, <1>4, <1>5, <1>6, <1>7, <1>8, <1>9, <1>10 DEF Next

\* The empty bag is a bag.
LEMMA EmptyBagIsABag == IsABag(EmptyBag) /\ BagToSet(EmptyBag) = {}
  BY DEF IsABag, BagToSet, EmptyBag, SetToBag

\* The types hold at the start.
LEMMA StartTypes ==
    ASSUME Init
    PROVE  Flags /\ Amounts
  <1>1. Flags
    BY Zenon DEF Init, Flags
  <1>2. Amounts
    BY LoadAssumption, EmptyBagIsABag DEF Init, Amounts
  <1> QED
    BY <1>1, <1>2

\* Whatever fails, the page counts and keeps what it should: ids of the graph,
\* no more links than were asked for (main.js, fetcher.js).
THEOREM LoadTypes == Spec => []TypeOK
  <1>1. Flags /\ Amounts /\ [Next]_vars => Flags' /\ Amounts'
    BY FlagsStep, AmountsStep
  <1>2. Flags /\ Amounts => TypeOK
    BY TypesAreTwo, Zenon
  <1> QED
    BY <1>1, <1>2, StartTypes, PTL DEF Spec
----------------------------------------------------------------------------
\* As long as no request for a part was broken, one thing at most is under way:
\* a request, the timer of a late handler, a request for the part behind all
\* that was read, or the timer before it.
Quiet == asked = EmptyBag /\ partTimers = 0

Idle       == sent = {} /\ ~handlerDue /\ Quiet
OneRequest == (\E r \in {"status", "params", "links"} : sent = {r}) /\ ~handlerDue /\ Quiet
OneHandler == sent = {} /\ handlerDue /\ Quiet
OnePart    == sent = {} /\ ~handlerDue /\ asked = SetToBag({last_id}) /\ partTimers = 0
OneTimer   == sent = {} /\ ~handlerDue /\ asked = EmptyBag /\ partTimers = 1

OneThing == OneRequest \/ OneHandler \/ OnePart \/ OneTimer

Chain ==
    /\ repeated = FALSE
    /\ Idle \/ OneThing
    /\ OneThing => starts = 0
    /\ "links" \in sent => fetchLevel = 3
    /\ OnePart \/ OneTimer => fetchLevel = 2
    /\ starts > 0 => starts = 1 /\ links # NotLoaded

ChainInv == broken = 0 => Chain

\* An empty bag is no bag of one element.
LEMMA BagsDiffer ==
    ASSUME NEW x
    PROVE  /\ EmptyBag # SetToBag({x})
           /\ BagToSet(EmptyBag) = {} /\ BagToSet(SetToBag({x})) = {x}
  <1>1. BagToSet(EmptyBag) = {} /\ BagToSet(SetToBag({x})) = {x}
    BY DEF BagToSet, EmptyBag, SetToBag
  <1>2. {} # {x}
    OBVIOUS
  <1> QED
    BY <1>1, <1>2

\* What each phase has in common.
LEMMA PhaseFacts ==
    ASSUME Chain
    PROVE  /\ "status" \in sent => OneRequest /\ sent = {"status"}
           /\ "params" \in sent => OneRequest /\ sent = {"params"}
           /\ "links" \in sent => OneRequest /\ sent = {"links"}
           /\ handlerDue => OneHandler
           /\ partTimers > 0 => OneTimer
           /\ BagToSet(asked) # {} => OnePart
  <1>1. BagToSet(EmptyBag) = {}
    BY BagsDiffer
  <1> QED
    BY <1>1 DEF Chain, Idle, OneThing, OneRequest, OneHandler, OnePart, OneTimer, Quiet

\* A page with nothing under way is in none of the other phases.
LEMMA IdleIsNoOther == Idle => ~OneThing
  <1> SUFFICES ASSUME Idle PROVE ~OneThing
    OBVIOUS
  <1>1. ~OneRequest /\ ~OneHandler /\ ~OneTimer
    BY DEF Idle, Quiet, OneRequest, OneHandler, OneTimer
  <1>2. ~OnePart
    <2>1. EmptyBag # SetToBag({last_id})
      BY BagsDiffer
    <2> QED
      BY <2>1 DEF Idle, Quiet, OnePart
  <1> QED
    BY <1>1, <1>2 DEF OneThing

\* A handler that comes late is called by a timer, but only if there was a reply:
\* the request and the timer are never both there.
LEMMA AttachKeepsChain ==
    ASSUME Chain, Amounts, LevelInv, Attach
    PROVE  Chain'
  <1>1. UNCHANGED <<sent, asked, partTimers, last_id, repeated, starts, fetchLevel, links>>
    BY DEF Attach, nodeVars
  <1>2. fetchLevel = 0 /\ ~attached /\ handlerDue' = (status # "asked")
    BY DEF Attach, CallLater, LevelInv
  <1>3. starts = 0 /\ partTimers = 0 /\ BagToSet(asked) = {} /\ ~handlerDue
           /\ "params" \notin sent /\ "links" \notin sent
    BY <1>2 DEF LevelInv, Amounts
  <1>4. asked = EmptyBag
    <2>1. ~OnePart
      BY <1>3, BagsDiffer DEF OnePart
    <2> QED
      BY <1>3, <2>1 DEF Chain, Idle, OneThing, OneRequest, OneHandler, OneTimer, Quiet
  <1>5. CASE status = "asked"
    <2>1. sent = {"status"} /\ handlerDue' = FALSE
      BY <1>2, <1>3, <1>5 DEF LevelInv, Amounts
    <2>2. OneRequest'
      BY <1>1, <1>3, <1>4, <2>1 DEF OneRequest, Quiet
    <2>3. ~OnePart' /\ ~OneTimer'
      BY <1>1, <2>1 DEF OnePart, OneTimer
    <2> QED
      BY <1>1, <1>3, <2>2, <2>3 DEF Chain, OneThing
  <1>6. CASE status # "asked"
    <2>1. sent = {} /\ handlerDue' = TRUE
      BY <1>2, <1>3, <1>6 DEF LevelInv, Amounts
    <2>2. OneHandler'
      BY <1>1, <1>3, <1>4, <2>1 DEF OneHandler, Quiet
    <2>3. ~OnePart' /\ ~OneTimer'
      BY <2>1 DEF OnePart, OneTimer
    <2> QED
      BY <1>1, <1>3, <2>2, <2>3 DEF Chain, OneThing
  <1> QED
    BY <1>5, <1>6

\* When the last thing under way is over, nothing is, or the next one starts.
LEMMA NothingFollows ==
    ASSUME Chain, Amounts, NoUpdateSequence({}), handlerDue' = FALSE,
           Quiet, asked' = asked, repeated' = repeated,
           links' # NotLoaded \/ links' = links
    PROVE  Chain'
  <1>1. sent' = {} /\ Idle'
    BY DEF NoUpdateSequence, Idle, Quiet
  <1>2. ~OneThing'
    BY <1>1, IdleIsNoOther, PTL
  <1>3. starts' = starts
    BY DEF NoUpdateSequence
  <1> QED
    BY <1>1, <1>2, <1>3 DEF Chain, OneThing

\* update_sequence starts one thing, or in the end the page.
LEMMA NextFollows ==
    ASSUME Chain, Amounts, UpdateSequence({}), handlerDue' = FALSE,
           Quiet, asked' = asked, repeated' = repeated,
           starts = 0, fetchLevel \in {0, 1, 2, 3},
           fetchLevel = 3 => links' # NotLoaded
    PROVE  Chain'
  <1>1. fetchLevel' = fetchLevel + 1 /\ asked' = EmptyBag
    BY DEF UpdateSequence, Quiet
  <1>2. CASE fetchLevel = 0 \/ fetchLevel = 2
    <2>1. /\ \E r \in {"params", "links"} : sent' = {r}
          /\ "links" \in sent' => fetchLevel' = 3
          /\ partTimers' = 0 /\ starts' = 0
      BY <1>2 DEF UpdateSequence, Quiet
    <2>2. OneRequest' /\ sent' # {}
      BY <1>1, <2>1 DEF OneRequest, Quiet
    <2>3. ~OnePart' /\ ~OneTimer'
      BY <2>2 DEF OnePart, OneTimer
    <2> QED
      BY <2>1, <2>2, <2>3 DEF Chain, OneThing
  <1>3. CASE fetchLevel = 1
    <2>1. sent' = {} /\ partTimers' = 1 /\ starts' = 0 /\ fetchLevel' = 2
      BY <1>3 DEF UpdateSequence, Quiet
    <2>2. OneTimer'
      BY <1>1, <2>1 DEF OneTimer
    <2> QED
      BY <2>1, <2>2 DEF Chain, OneThing
  <1>4. CASE fetchLevel = 3
    <2>1. sent' = {} /\ partTimers' = 0 /\ starts' = 1
      BY <1>4 DEF UpdateSequence, Quiet
    <2>2. Idle'
      BY <1>1, <2>1 DEF Idle, Quiet
    <2>3. ~OneThing'
      BY <2>2, IdleIsNoOther, PTL
    <2> QED
      BY <1>4, <2>1, <2>2, <2>3 DEF Chain, OneThing
  <1> QED
    BY <1>2, <1>3, <1>4

\* The reply to the request for the status comes before the timer of a late handler
\* or without it.
LEMMA StatusKeepsChain ==
    ASSUME Chain, Amounts, LevelInv, StatusReply \/ CallHandler
    PROVE  Chain'
  <1>1. UNCHANGED <<asked, repeated, links>>
    BY DEF StatusReply, CallHandler, nodeVars
  <1>2. /\ OneRequest \/ OneHandler
        /\ fetchLevel = 0 /\ handlerDue' = FALSE
        /\ \/ UpdateSequence({})
           \/ NoUpdateSequence({})
    <2>1. CASE StatusReply
      <3>1. OneRequest /\ sent = {"status"} /\ status = "asked" /\ handlerDue' = handlerDue
        BY <2>1, PhaseFacts DEF StatusReply, LevelInv
      <3>2. sent \ {"status"} = {}
        BY <3>1
      <3> QED
        BY <2>1, <3>1, <3>2 DEF StatusReply, StatusHandlers, OneRequest, LevelInv
    <2>2. CASE CallHandler
      <3>1. OneHandler
        BY <2>2, PhaseFacts DEF CallHandler
      <3> QED
        BY <2>2, <3>1 DEF CallHandler, StatusHandlers, OneHandler, LevelInv
    <2> QED
      BY <2>1, <2>2
  <1>3. Quiet /\ starts = 0 /\ asked' = asked /\ repeated' = repeated /\ links' = links
    BY <1>1, <1>2 DEF OneRequest, OneHandler, Chain, OneThing
  <1>4. CASE UpdateSequence({})
    <2>1. fetchLevel \in {0, 1, 2, 3} /\ (fetchLevel = 3 => links' # NotLoaded)
      BY <1>2
    <2> QED
      BY <1>2, <1>3, <1>4, <2>1, NextFollows
  <1>5. CASE NoUpdateSequence({})
    BY <1>2, <1>3, <1>5, NothingFollows
  <1> QED
    BY <1>2, <1>4, <1>5

\* The replies with the parameters and the links.
LEMMA ReplyKeepsChain ==
    ASSUME Chain, Amounts, LevelInv, UserParamsReply \/ LinksReply
    PROVE  Chain'
  <1>1. UNCHANGED <<asked, repeated, handlerDue>>
    BY DEF UserParamsReply, LinksReply, nodeVars
  <1>2. CASE UserParamsReply
    <2>1. OneRequest /\ sent = {"params"} /\ fetchLevel = 1
      BY <1>2, PhaseFacts DEF UserParamsReply, LevelInv
    <2>2. sent \ {"params"} = {}
      BY <2>1
    <2>3. links' = links /\ (UpdateSequence({}) \/ NoUpdateSequence({}))
      BY <1>2, <2>2 DEF UserParamsReply, Ignored, Failed
    <2>4. /\ Quiet /\ starts = 0 /\ handlerDue' = FALSE
          /\ asked' = asked /\ repeated' = repeated /\ links' = links
      <3>1. handlerDue' = handlerDue /\ ~handlerDue
        BY <1>1, <2>1 DEF OneRequest
      <3> QED
        BY <1>1, <2>1, <2>3, <3>1 DEF OneRequest, Chain, OneThing
    <2>5. CASE UpdateSequence({})
      <3>1. fetchLevel \in {0, 1, 2, 3} /\ (fetchLevel = 3 => links' # NotLoaded)
        BY <2>1
      <3> QED
        BY <2>4, <2>5, <3>1, NextFollows
    <2>6. CASE NoUpdateSequence({})
      BY <2>4, <2>6, NothingFollows
    <2> QED
      BY <2>3, <2>5, <2>6
  <1>3. CASE LinksReply
    <2>1. OneRequest /\ sent = {"links"} /\ fetchLevel = 3
      BY <1>3, PhaseFacts DEF LinksReply, Chain
    <2>2. sent \ {"links"} = {}
      BY <2>1
    <2>3. \/ NoUpdateSequence({}) /\ links' = links
          \/ UpdateSequence({}) /\ (links' = FetchAllLinks \/ links' \in 0..FetchAllLinks - 1)
      BY <1>3, <2>2 DEF LinksReply, Ignored, Failed
    <2>4. links' = FetchAllLinks \/ links' \in 0..FetchAllLinks - 1 => links' # NotLoaded
      BY FetchAllLinksType DEF NotLoaded
    <2>5. /\ Quiet /\ starts = 0 /\ handlerDue' = FALSE
          /\ asked' = asked /\ repeated' = repeated
      <3>1. handlerDue' = handlerDue /\ ~handlerDue
        BY <1>1, <2>1 DEF OneRequest
      <3> QED
        BY <1>1, <2>1, <3>1 DEF OneRequest, Chain, OneThing
    <2> QED
      BY <1>1, <2>1, <2>3, <2>4, <2>5, NothingFollows, NextFollows
  <1> QED
    BY <1>2, <1>3

\* A timer becomes a request.
LEMMA FetchKeepsChain ==
    ASSUME Chain, Amounts, FetchPart
    PROVE  Chain'
  <1>1. /\ partTimers > 0 /\ partTimers' = partTimers - 1
        /\ asked' = asked (+) SetToBag({last_id})
        /\ UNCHANGED <<handlerDue, fetchLevel, sent, last_id, repeated, links, starts>>
    BY DEF FetchPart, nodeVars
  <1>2. OneTimer /\ starts = 0 /\ fetchLevel = 2
    BY <1>1, PhaseFacts DEF Chain, OneThing
  <1>3. asked' = SetToBag({last_id})
    BY <1>1, <1>2, IntoEmptyBag DEF OneTimer
  <1>4. OnePart' /\ sent' = {}
    BY <1>1, <1>2, <1>3 DEF OnePart, OneTimer
  <1> QED
    BY <1>1, <1>2, <1>4 DEF Chain, OneThing

\* A reply with a part becomes the next timer, or the request for the links; it
\* repeats no node, since it was asked for from last_id on.
LEMMA PartKeepsChain ==
    ASSUME Chain, Amounts, ReadInv, PartEnds, broken = 0, broken' = 0
    PROVE  Chain'
  <1>1. PICK from \in BagToSet(asked) :
            /\ asked' = asked (-) SetToBag({from})
            /\ \/ \E part \in PartsFrom(from, PartSize) : PartReply(from, part)
               \/ PartFailed(1)
               \/ PartFailed(2)
    BY DEF PartEnds
  <1>2. handlerDue' = handlerDue /\ links' = links
    BY DEF PartEnds
  <1>3. /\ OnePart /\ starts = 0 /\ fetchLevel = 2 /\ repeated = FALSE
    BY <1>1, PhaseFacts DEF Chain, OneThing
  <1>4. from = last_id
    BY <1>1, <1>3, BagsDiffer DEF OnePart
  <1>5. asked' = EmptyBag
    BY <1>1, <1>3, <1>4, OutOfSingleBag DEF OnePart
  <1>6. sent = {} /\ partTimers = 0 /\ ~handlerDue'
    BY <1>2, <1>3 DEF OnePart
  <1>7. CASE \E part \in PartsFrom(from, PartSize) : PartReply(from, part)
    <2>1. PICK part \in PartsFrom(from, PartSize) : PartReply(from, part)
      BY <1>7
    <2>2. repeated' = FALSE
      <3>1. part \subseteq After(last_id)
        BY <1>4, PartIsABeginning DEF ReadInv
      <3>2. \A n \in After(last_id) : n \notin nodes
        <4>1. \A n \in Nodes : n \in Nat
          BY GraphAssumption
        <4> QED
          BY <4>1 DEF After, ReadInv, PartsAreAPrefix
      <3>3. nodes \cap part = {}
        BY <3>1, <3>2
      <3>4. repeated' = (repeated \/ nodes \cap part # {})
        BY <2>1 DEF PartReply
      <3> QED
        BY <1>3, <3>3, <3>4
    <2>3. CASE UpdateSequence(sent)
      <3>1. sent' = {"links"} /\ fetchLevel' = 3 /\ starts' = 0 /\ partTimers' = 0
        BY <1>3, <1>6, <2>3 DEF UpdateSequence
      <3>2. OneRequest' /\ ~OnePart' /\ ~OneTimer'
        BY <1>5, <1>6, <3>1 DEF OneRequest, OnePart, OneTimer, Quiet
      <3> QED
        BY <2>2, <3>1, <3>2 DEF Chain, OneThing
    <2>4. CASE partTimers' = partTimers + 1 /\ UNCHANGED <<fetchLevel, sent, starts>>
      <3>1. OneTimer' /\ sent' = {}
        BY <1>5, <1>6, <2>4 DEF OneTimer
      <3> QED
        BY <1>3, <2>2, <2>4, <3>1 DEF Chain, OneThing
    <2> QED
      BY <2>1, <2>3, <2>4 DEF PartReply
  <1>8. CASE PartFailed(1)
    <2>1. partTimers' = 1 /\ UNCHANGED <<fetchLevel, sent, repeated, starts>>
      BY <1>6, <1>8 DEF PartFailed, nodeVars
    <2>2. OneTimer' /\ sent' = {}
      BY <1>5, <1>6, <2>1 DEF OneTimer
    <2> QED
      BY <1>3, <2>1, <2>2 DEF Chain, OneThing
  <1>9. CASE PartFailed(2)
    BY <1>9 DEF PartFailed
  <1> QED
    BY <1>1, <1>7, <1>8, <1>9

\* A broken request for a part would start two timers; it never happened.
LEMMA ChainStep ==
    ASSUME ChainInv, Amounts, LevelInv, ReadInv, [Next]_vars
    PROVE  ChainInv'
  <1>1. broken \in Nat
    BY DEF Amounts
  <1>2. broken' = 0 => broken = 0
    <2>1. CASE PartEnds
      <3>1. broken' = broken \/ broken' = broken + 1 \/ broken' = broken + 0
        BY <2>1 DEF PartEnds, PartReply, PartFailed
      <3> QED
        BY <1>1, <3>1
    <2>2. CASE ~PartEnds
      <3>1. broken' = broken
        BY <2>2 DEF Next, Attach, StatusReply, CallHandler, UserParamsReply, FetchPart,
                    LinksReply, vars
      <3> QED
        BY <3>1
    <2> QED
      BY <2>1, <2>2
  <1> SUFFICES ASSUME broken' = 0
               PROVE  Chain'
    BY DEF ChainInv
  <1>3. Chain /\ broken = 0
    BY <1>2 DEF ChainInv
  <1>4. CASE UNCHANGED vars
    BY <1>3, <1>4 DEF vars, Chain, Idle, OneThing, OneRequest, OneHandler, OnePart, OneTimer,
                      Quiet
  <1>5. CASE Attach
    BY <1>3, <1>5, AttachKeepsChain
  <1>6. CASE StatusReply \/ CallHandler
    BY <1>3, <1>6, StatusKeepsChain
  <1>7. CASE UserParamsReply \/ LinksReply
    BY <1>3, <1>7, ReplyKeepsChain
  <1>8. CASE FetchPart
    BY <1>3, <1>8, FetchKeepsChain
  <1>9. CASE PartEnds
    BY <1>3, <1>9, PartKeepsChain
  <1> QED
    BY <1>4, <1>5, <1>6, <1>7, <1>8, <1>9 DEF Next

\* What is under way in each phase.
LEMMA OneUnderWay ==
    ASSUME Chain
    PROVE  UnderWay <= 1 /\ (Idle => UnderWay = 0)
  <1> DEFINE late == IF handlerDue THEN 1 ELSE 0
  <1>1. Cardinality({}) = 0 /\ \A r : Cardinality({r}) = 1
    BY FS_EmptySet, FS_Singleton
  <1>2. BagCardinality(EmptyBag) = 0 /\ BagCardinality(SetToBag({last_id})) = 1
    BY EmptyBagCardinality, SingleBagCardinality
  <1>3. UnderWay = Cardinality(sent) + BagCardinality(asked) + partTimers + late
    BY DEF UnderWay
  <1>4. ASSUME Idle
        PROVE  UnderWay = 0
    <2>1. Cardinality(sent) = 0 /\ BagCardinality(asked) = 0 /\ partTimers = 0 /\ late = 0
      BY <1>1, <1>2, <1>4 DEF Idle, Quiet
    <2> QED
      BY <1>3, <2>1
  <1>5. ASSUME OneThing
        PROVE  UnderWay = 1
    <2>1. CASE OneRequest
      <3>1. Cardinality(sent) = 1 /\ BagCardinality(asked) = 0 /\ partTimers = 0 /\ late = 0
        BY <1>1, <1>2, <2>1 DEF OneRequest, Quiet
      <3> QED
        BY <1>3, <3>1
    <2>2. CASE OneHandler
      <3>1. Cardinality(sent) = 0 /\ BagCardinality(asked) = 0 /\ partTimers = 0 /\ late = 1
        BY <1>1, <1>2, <2>2 DEF OneHandler, Quiet
      <3> QED
        BY <1>3, <3>1
    <2>3. CASE OnePart
      <3>1. Cardinality(sent) = 0 /\ BagCardinality(asked) = 1 /\ partTimers = 0 /\ late = 0
        BY <1>1, <1>2, <2>3 DEF OnePart
      <3> QED
        BY <1>3, <3>1
    <2>4. CASE OneTimer
      <3>1. Cardinality(sent) = 0 /\ BagCardinality(asked) = 0 /\ partTimers = 1 /\ late = 0
        BY <1>1, <1>2, <2>4 DEF OneTimer
      <3> QED
        BY <1>3, <3>1
    <2> QED
      BY <1>5, <2>1, <2>2, <2>3, <2>4 DEF OneThing
  <1> QED
    BY <1>4, <1>5 DEF Chain

\* As long as the network breaks no request for a part, the load is one chain of
\* requests and timers, for every graph and whatever else fails: it starts the
\* page once, with its links, and reads no node twice (status.js, main.js).
THEOREM OneChain == Spec => []OneAtATimeUnlessBroken
  <1> DEFINE Inv == Amounts /\ LevelInv /\ ReadInv /\ ChainInv
  <1>1. Init => Inv
    <2> SUFFICES ASSUME Init PROVE Inv
      OBVIOUS
    <2>1. OneRequest /\ ~OnePart /\ ~OneTimer
      BY DEF Init, OneRequest, OnePart, OneTimer, Quiet
    <2>2. Chain
      BY <2>1 DEF Init, Chain, OneThing
    <2> QED
      BY <2>2, StartTypes, ReadAndLevelStart DEF ChainInv
  <1>2. Inv /\ [Next]_vars => Inv'
    BY AmountsStep, LevelInvStep, ReadInvStep, ChainStep
  <1>3. Inv => OneAtATimeUnlessBroken
    <2> SUFFICES ASSUME Inv, broken = 0
                 PROVE  /\ UnderWay <= 1
                        /\ ~repeated
                        /\ starts > 0 => starts = 1 /\ links # NotLoaded /\ UnderWay = 0
      BY DEF OneAtATimeUnlessBroken
    <2>1. Chain
      BY DEF ChainInv
    <2>2. UnderWay <= 1 /\ (Idle => UnderWay = 0)
      BY <2>1, OneUnderWay
    <2>3. starts > 0 => Idle
      BY <2>1 DEF Chain
    <2> QED
      BY <2>1, <2>2, <2>3 DEF Chain
  <1> QED
    BY <1>1, <1>2, <1>3, PTL DEF Spec
----------------------------------------------------------------------------
\* Something is still to happen: main.js to be attached, a handler to be called,
\* a request to end or a timer to fire.
StillGoing == \/ ~attached
              \/ handlerDue
              \/ sent # {}
              \/ BagToSet(asked) # {}
              \/ partTimers > 0

\* The load has come to one of its ends, or something is still to happen.
NeverStalls == starts > 0 \/ load_cancel \/ StillGoing

\* The reply of the status is awaited until it is there.
Awaited == status = "asked" => "status" \in sent

\* update_sequence starts the next thing, or the page.
LEMMA SequenceGoesOn ==
    ASSUME Amounts, NEW pending, UpdateSequence(pending)
    PROVE  starts' > 0 \/ sent' # {} \/ partTimers' > 0
  <1>1. fetchLevel \in Nat /\ partTimers \in Nat /\ starts \in Nat
    BY DEF Amounts
  <1>2. CASE fetchLevel + 1 = 1
    <2>1. "params" \in sent'
      BY <1>2 DEF UpdateSequence
    <2> QED
      BY <2>1
  <1>3. CASE fetchLevel + 1 = 2
    BY <1>1, <1>3 DEF UpdateSequence
  <1>4. CASE fetchLevel + 1 = 3
    <2>1. "links" \in sent'
      BY <1>4 DEF UpdateSequence
    <2> QED
      BY <2>1
  <1>5. CASE fetchLevel + 1 > 3
    BY <1>1, <1>5 DEF UpdateSequence
  <1> QED
    BY <1>1, <1>2, <1>3, <1>4, <1>5

\* The handlers of the status take the next step or cancel the load.
LEMMA HandlersGoOn ==
    ASSUME Amounts, NEW outcome, NEW pending, StatusHandlers(outcome, pending)
    PROVE  load_cancel' \/ starts' > 0 \/ sent' # {} \/ partTimers' > 0
  <1>1. CASE UpdateSequence(pending)
    BY <1>1, SequenceGoesOn
  <1>2. CASE load_cancel' = TRUE
    BY <1>2
  <1> QED
    BY <1>1, <1>2 DEF StatusHandlers

\* Whatever ends, the next thing has been started.
LEMMA NeverStallsStep ==
    ASSUME Amounts, NeverStalls, Awaited, [Next]_vars
    PROVE  NeverStalls' /\ Awaited'
  <1> USE DEF NeverStalls, StillGoing
  <1>1. CASE Attach
    <2>1. /\ sent' = sent /\ status' = status /\ handlerDue' = CallLater
      BY <1>1 DEF Attach
    <2>2. CASE status = "asked"
      BY <2>1, <2>2 DEF Awaited
    <2>3. CASE status # "asked"
      <3>1. handlerDue' = TRUE
        BY <2>1, <2>3 DEF CallLater
      <3> QED
        BY <2>1, <2>3, <3>1 DEF Awaited
    <2> QED
      BY <2>2, <2>3
  <1>2. CASE StatusReply
    <2>1. status' # "asked"
      BY <1>2 DEF StatusReply
    <2>2. CASE attached
      <3>1. StatusHandlers(status', sent \ {"status"})
        BY <1>2, <2>2 DEF StatusReply
      <3>2. load_cancel' \/ starts' > 0 \/ sent' # {} \/ partTimers' > 0
        BY <3>1, HandlersGoOn
      <3> QED
        BY <2>1, <3>2 DEF Awaited
    <2>3. CASE ~attached
      <3>1. ~attached'
        BY <1>2, <2>3 DEF StatusReply
      <3> QED
        BY <2>1, <3>1 DEF Awaited
    <2> QED
      BY <2>2, <2>3
  <1>3. CASE CallHandler
    <2>1. StatusHandlers(status, sent) /\ status' = status
      BY <1>3 DEF CallHandler
    <2>2. load_cancel' \/ starts' > 0 \/ sent' # {} \/ partTimers' > 0
      BY <2>1, HandlersGoOn
    <2>3. sent \subseteq sent'
      BY <2>1 DEF StatusHandlers, UpdateSequence, NoUpdateSequence
    <2> QED
      BY <2>1, <2>2, <2>3 DEF Awaited
  <1>4. ASSUME NEW what \in {"params", "links"}, status' = status,
               \/ UpdateSequence(sent \ {what})
               \/ NoUpdateSequence(sent \ {what}) /\ load_cancel'
        PROVE  NeverStalls' /\ Awaited'
    <2>1. load_cancel' \/ starts' > 0 \/ sent' # {} \/ partTimers' > 0
      BY <1>4, SequenceGoesOn
    <2>2. sent \ {what} \subseteq sent'
      BY <1>4 DEF UpdateSequence, NoUpdateSequence
    <2> QED
      BY <1>4, <2>1, <2>2 DEF Awaited
  <1>5. CASE UserParamsReply
    <2>1. /\ status' = status
          /\ \/ UpdateSequence(sent \ {"params"})
             \/ NoUpdateSequence(sent \ {"params"}) /\ load_cancel'
      BY <1>5 DEF UserParamsReply, Ignored, Failed
    <2> QED
      BY <1>4, <2>1
  <1>6. CASE LinksReply
    <2>1. /\ status' = status
          /\ \/ UpdateSequence(sent \ {"links"})
             \/ NoUpdateSequence(sent \ {"links"}) /\ load_cancel'
      BY <1>6 DEF LinksReply, Ignored, Failed
    <2> QED
      BY <1>4, <2>1
  <1>7. CASE FetchPart
    <2>1. asked' = asked (+) SetToBag({last_id}) /\ sent' = sent /\ status' = status
      BY <1>7 DEF FetchPart
    <2>2. last_id \in BagToSet(asked')
      <3>1. BagToSet(asked (+) SetToBag({last_id})) = BagToSet(asked) \cup {last_id}
        <4>1. IsABag(asked)
          BY DEF Amounts
        <4> HIDE DEF NeverStalls, StillGoing
        <4> QED
          BY <4>1, BagsStayBags
      <3> QED
        BY <2>1, <3>1
    <2> QED
      BY <2>1, <2>2 DEF Awaited
  <1>8. CASE PartEnds
    <2>1. PICK from \in BagToSet(asked) :
              \/ \E part \in PartsFrom(from, PartSize) : PartReply(from, part)
              \/ PartFailed(1)
              \/ PartFailed(2)
      BY <1>8 DEF PartEnds
    <2>2. status' = status
      BY <1>8 DEF PartEnds
    <2>3. CASE \E part \in PartsFrom(from, PartSize) : PartReply(from, part)
      <3>1. \/ UpdateSequence(sent)
            \/ partTimers' = partTimers + 1 /\ sent' = sent
        BY <2>3 DEF PartReply
      <3>2. starts' > 0 \/ sent' # {} \/ partTimers' > 0
        BY <3>1, SequenceGoesOn DEF Amounts
      <3>3. sent \subseteq sent'
        BY <3>1 DEF UpdateSequence
      <3> QED
        BY <2>2, <3>2, <3>3 DEF Awaited
    <2>4. CASE PartFailed(1) \/ PartFailed(2)
      <3>1. partTimers' > 0 /\ sent' = sent
        BY <2>4 DEF PartFailed, Amounts
      <3> QED
        BY <2>2, <3>1 DEF Awaited
    <2> QED
      BY <2>1, <2>3, <2>4
  <1>9. CASE UNCHANGED vars
    BY <1>9 DEF vars, Awaited
  <1> QED
    BY <1>1, <1>2, <1>3, <1>5, <1>6, <1>7, <1>8, <1>9 DEF Next

\* Until the page starts or the load is cancelled, something is still to happen,
\* whichever of the two moments of the status comes first and whatever requests
\* fail: what LoadEnds rests on beside the fairness of timers and requests
\* (main.js, update_sequence; status.js, attachStatusFetchComplete).
THEOREM LoadGoesOn == Spec => []NeverStalls
  <1>1. Init => NeverStalls /\ Awaited
    BY DEF Init, NeverStalls, StillGoing, Awaited
  <1>2. TypeOK => Amounts
    BY TypesAreTwo, Zenon
  <1>3. Amounts /\ NeverStalls /\ Awaited /\ [Next]_vars => NeverStalls' /\ Awaited'
    BY NeverStallsStep
  <1> QED
    BY <1>1, <1>2, <1>3, LoadTypes, PTL DEF Spec
====
