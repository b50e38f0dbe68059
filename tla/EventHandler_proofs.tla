---- MODULE EventHandler_proofs ----
(***************************************************************************)
(* Theorems about EventHandler for any events, configurations and number   *)
(* of events: the rate limiter in it is RateLimiter, queries say the truth *)
(* about their events, the events of a topic keep their order, and each    *)
(* event is in exactly one place.                                          *)
(***************************************************************************)
EXTENDS EventHandler, DataLemmas, SequenceTheorems, FiniteSetTheorems, TLAPS

\* The types the invariants below rest on, and where topics can be.
Base ==
    /\ config \in Configs
    /\ initialised \in BOOLEAN
    /\ posted \in Seq(Event) /\ Len(posted) <= MaxEvents
    /\ accepted \in Seq(Query) /\ queue \in Seq(Query) /\ started \in Seq(Query)
    /\ dropped \in Nat
    /\ inflight \subseteq Query
    /\ \A t \in DOMAIN aggTopics : aggTopics[t] \in [about : Event, events : SUBSET Posted]
    /\ DOMAIN aggTopics # {} => initialised /\ config.aggregation

\* An event collected in a topic has that topic's key.
TopicsUniform ==
    \A t \in DOMAIN aggTopics :
        /\ GetAggregateTopic(aggTopics[t].about) = t
        /\ \A i \in aggTopics[t].events : GetAggregateTopic(posted[i]) = t

Speaks(q) == q.events \subseteq Posted /\ \A i \in q.events : posted[i] = q.about

\* All queries of this life of the server that may still speak.
AllQueries == Range(accepted) \cup Range(queue) \cup inflight

\* A query says of each of its events what was posted.
QueriesUniform == \A q \in AllQueries : Speaks(q)

\* The events the topics hold.
Collected == {i \in Posted : \E t \in DOMAIN aggTopics : i \in aggTopics[t].events}

\* What has reached the limiter and what is still collected was posted.
Budget == Limiter!Arrived + Cardinality(Collected) <= Len(posted)

\* Of two equal events the one posted first reaches the limiter first.
OrderKept ==
    /\ \A i, j \in DOMAIN accepted :
          i < j /\ accepted[i].about = accepted[j].about
              => \A a \in accepted[i].events, b \in accepted[j].events : a < b
    /\ \A q \in Range(accepted) : \A a \in q.events : \A b \in Collected :
          q.about = posted[b] => a < b

HandlerInv == Base /\ TopicsUniform /\ QueriesUniform /\ Budget /\ OrderKept
----------------------------------------------------------------------------
\* What a submitted query does to the lists of the limiter.
LEMMA SubmitEffect ==
    ASSUME Base, NEW q \in Query, NEW flush, Submit(q, flush)
    PROVE  /\ \/ accepted' = Append(accepted, q) /\ dropped' = dropped
              \/ accepted' = accepted /\ dropped' = dropped + 1
           /\ queue' \in {queue, Append(queue, q)}
           /\ started' \in {started, Append(started, q)}
           /\ inflight' \in {inflight, inflight \cup {q}}
  BY DEF Submit, Limiter!Admit, Limiter!StartNow, Limiter!Drop, Limiter!Enqueue

\* A query given to the limiter is accepted or dropped, and changes no other.
LEMMA SubmitKeepsTypes ==
    ASSUME Base, NEW q \in Query, NEW flush, Submit(q, flush)
    PROVE  /\ accepted' \in Seq(Query) /\ queue' \in Seq(Query) /\ started' \in Seq(Query)
           /\ dropped' \in Nat /\ inflight' \subseteq Query
           /\ Len(accepted') + dropped' = Len(accepted) + dropped + 1
           /\ \A r \in AllQueries' : r = q \/ r \in AllQueries
  <1>1. accepted \in Seq(Query) /\ queue \in Seq(Query) /\ started \in Seq(Query)
           /\ dropped \in Nat /\ inflight \subseteq Query
    BY DEF Base
  <1>2. /\ \/ accepted' = Append(accepted, q) /\ dropped' = dropped
           \/ accepted' = accepted /\ dropped' = dropped + 1
        /\ queue' \in {queue, Append(queue, q)}
        /\ started' \in {started, Append(started, q)}
        /\ inflight' \in {inflight, inflight \cup {q}}
    BY SubmitEffect
  <1>3. ASSUME NEW s \in Seq(Query), NEW r \in Range(Append(s, q))
        PROVE  r = q \/ r \in Range(s)
    BY <1>3 DEF Range
  <1>4. accepted' \in Seq(Query) /\ queue' \in Seq(Query) /\ started' \in Seq(Query)
           /\ dropped' \in Nat /\ inflight' \subseteq Query
    <2>1. \A s \in Seq(Query) : Append(s, q) \in Seq(Query)
      BY AppendProperties
    <2>2. inflight' \subseteq Query
      BY <1>1, <1>2
    <2>3. accepted' \in Seq(Query) /\ queue' \in Seq(Query) /\ started' \in Seq(Query)
      BY <1>1, <1>2, <2>1
    <2>4. dropped' \in Nat
      BY <1>1, <1>2
    <2> QED
      BY <2>2, <2>3, <2>4
  <1>5. Len(accepted') + dropped' = Len(accepted) + dropped + 1
    <2>1. Len(Append(accepted, q)) = Len(accepted) + 1 /\ Len(accepted) \in Nat
      BY <1>1, AppendProperties
    <2>2. \/ accepted' = Append(accepted, q) /\ dropped' = dropped
          \/ accepted' = accepted /\ dropped' = dropped + 1
      BY <1>2
    <2>3. CASE accepted' = Append(accepted, q) /\ dropped' = dropped
      <3>1. Len(accepted') = Len(accepted) + 1
        BY <2>1, <2>3
      <3> QED
        BY <1>1, <2>1, <2>3, <3>1
    <2>4. CASE accepted' = accepted /\ dropped' = dropped + 1
      <3>1. Len(accepted') = Len(accepted)
        BY <2>4
      <3> QED
        BY <1>1, <2>1, <2>4, <3>1
    <2> QED
      BY <2>2, <2>3, <2>4
  <1>6. ASSUME NEW r \in Range(accepted') \cup Range(queue') \cup inflight'
        PROVE  r = q \/ r \in Range(accepted) \cup Range(queue) \cup inflight
    <2>2. CASE r \in Range(accepted')
      BY <2>2, <1>1, <1>2, <1>3
    <2>3. CASE r \in inflight'
      BY <2>3, <1>2
    <2>4. CASE r \in Range(queue')
      BY <2>4, <1>1, <1>2, <1>3
    <2> QED
      BY <2>2, <2>3, <2>4
  <1> QED
    BY <1>4, <1>5, <1>6 DEF AllQueries

\* Queries stay true when one more is submitted that is.
LEMMA SubmitKeepsUniform ==
    ASSUME Base, QueriesUniform, NEW q \in Query, NEW flush, Submit(q, flush),
           Posted \subseteq Posted', \A i \in Posted : posted'[i] = posted[i], Speaks(q)'
    PROVE  QueriesUniform'
  <1>1. \A r \in AllQueries' : r = q \/ r \in AllQueries
    BY SubmitKeepsTypes
  <1>2. \A r : Speaks(r) => Speaks(r)'
    BY DEF Speaks
  <1> QED
    BY <1>1, <1>2 DEF QueriesUniform

\* So does the order, when the new query comes after all it must come after.
LEMMA SubmitKeepsOrder ==
    ASSUME Base, OrderKept, NEW q \in Query, NEW flush, Submit(q, flush),
           \A r \in Range(accepted) : r.about = q.about =>
               \A a \in r.events, b \in q.events : a < b,
           \A b \in Collected' :
               /\ b \in Collected /\ posted'[b] = posted[b]
               /\ q.about = posted[b] => \A a \in q.events : a < b
    PROVE  OrderKept'
  <1>1. accepted' = accepted \/ accepted' = Append(accepted, q)
    BY SubmitEffect
  <1>2. CASE accepted' = accepted
    BY <1>2 DEF OrderKept, Range
  <1>3. CASE accepted' = Append(accepted, q)
    <2>1. /\ DOMAIN accepted = 1..Len(accepted) /\ Len(accepted) \in Nat
          /\ DOMAIN accepted' = 1..Len(accepted) + 1
          /\ \A i \in 1..Len(accepted) : accepted'[i] = accepted[i]
          /\ accepted'[Len(accepted) + 1] = q
      BY <1>3, AppendProperties DEF Base
    <2>2. ASSUME NEW i \in DOMAIN accepted', NEW j \in DOMAIN accepted', i < j,
                 accepted'[i].about = accepted'[j].about,
                 NEW a \in accepted'[i].events, NEW b \in accepted'[j].events
          PROVE  a < b
      <3>1. i \in DOMAIN accepted /\ accepted'[i] = accepted[i]
        BY <2>1, <2>2
      <3>2. CASE j \in DOMAIN accepted
        BY <2>1, <2>2, <3>1, <3>2 DEF OrderKept
      <3>3. CASE j = Len(accepted) + 1
        <4>1. accepted[i] \in Range(accepted)
          BY <3>1 DEF Range
        <4> QED
          BY <2>1, <2>2, <3>1, <3>3, <4>1
      <3> QED
        BY <2>1, <3>2, <3>3
    <2>3. ASSUME NEW r \in Range(accepted'), NEW a \in r.events, NEW b \in Collected',
                 r.about = posted'[b]
          PROVE  a < b
      <3>1. r = q \/ r \in Range(accepted)
        BY <2>1 DEF Range
      <3> QED
        BY <2>3, <3>1 DEF OrderKept
    <2>4. Range(accepted)' = Range(accepted')
      BY DEF Range
    <2> QED
      BY <2>2, <2>3, <2>4 DEF OrderKept
  <1> QED
    BY <1>1, <1>2, <1>3
----------------------------------------------------------------------------
\* A new event gets the number after all others.
LEMMA PostedGrows ==
    ASSUME Base, NEW e \in Event, posted' = Append(posted, e),
           Len(posted) + 1 \in EventId
    PROVE  /\ Posted' = Posted \cup {Len(posted) + 1}
           /\ posted' \in Seq(Event) /\ Len(posted') <= MaxEvents
           /\ Len(posted) \in Nat /\ Len(posted') = Len(posted) + 1
           /\ \A i \in Posted : posted'[i] = posted[i] /\ i < Len(posted) + 1
           /\ posted'[Len(posted) + 1] = e
  <1>1. posted \in Seq(Event) /\ Len(posted) \in Nat
    BY DEF Base
  <1>2. /\ posted' \in Seq(Event) /\ Len(posted') = Len(posted) + 1
        /\ \A i \in 1..Len(posted) : posted'[i] = posted[i]
        /\ posted'[Len(posted) + 1] = e
    BY <1>1, AppendProperties
  <1> QED
    BY <1>1, <1>2, SettingsAssumption DEF Posted, EventId

\* What the topics collect was posted, so there are finitely many of it.
LEMMA CollectedIsFinite ==
    ASSUME Base
    PROVE  /\ Collected \subseteq Posted
           /\ IsFiniteSet(Collected) /\ Cardinality(Collected) \in Nat
  <1>1. Collected \in SUBSET Posted
    BY DEF Collected
  <1>2. IsFiniteSet(Posted)
    BY FS_Interval DEF Base, Posted
  <1> QED
    BY <1>1, <1>2, FS_Subset, FS_CardinalityType

\* An event goes to its topic, which is made if there is none; the other topics
\* stay as they are.
LEMMA AggregateEffect ==
    ASSUME Base, NEW e \in Event, NEW id, Aggregate(e, id), NEW t, t = GetAggregateTopic(e)
    PROVE  /\ DOMAIN aggTopics' = DOMAIN aggTopics \cup {t}
           /\ \A k \in DOMAIN aggTopics : k # t => aggTopics'[k] = aggTopics[k]
           /\ t \in DOMAIN aggTopics =>
                 aggTopics'[t] = [about |-> aggTopics[t].about, events |-> aggTopics[t].events \cup {id}]
           /\ t \notin DOMAIN aggTopics => aggTopics'[t] = [about |-> e, events |-> {id}]
  <1>1. CASE t \in DOMAIN aggTopics
    <2>1. aggTopics' = [aggTopics EXCEPT ![t].events = @ \cup {id}]
      BY <1>1 DEF Aggregate
    <2>2. aggTopics[t] \in [about : Event, events : SUBSET Posted]
      BY <1>1 DEF Base
    <2> QED
      BY <1>1, <2>1, <2>2
  <1>2. CASE t \notin DOMAIN aggTopics
    BY <1>2 DEF Aggregate
  <1> QED
    BY <1>1, <1>2

\* An event is collected: it comes after all that went before.
LEMMA CollectKeepsInv ==
    ASSUME HandlerInv, NEW e \in Event, config.aggregation,
           Len(posted) + 1 \in EventId, posted' = Append(posted, e),
           Aggregate(e, Len(posted) + 1), initialised' = TRUE,
           UNCHANGED <<config, accepted, queue, started, dropped, inflight>>
    PROVE  HandlerInv'
  <1> DEFINE id == Len(posted) + 1
             t == GetAggregateTopic(e)
  <1>1. /\ Posted' = Posted \cup {id} /\ posted' \in Seq(Event) /\ Len(posted') <= MaxEvents
        /\ Len(posted) \in Nat /\ Len(posted') = Len(posted) + 1
        /\ \A i \in Posted : posted'[i] = posted[i] /\ i < id
        /\ posted'[id] = e
    BY PostedGrows DEF HandlerInv
  <1>2. /\ DOMAIN aggTopics' = DOMAIN aggTopics \cup {t}
        /\ \A k \in DOMAIN aggTopics : k # t => aggTopics'[k] = aggTopics[k]
        /\ t \in DOMAIN aggTopics =>
              aggTopics'[t] = [about |-> aggTopics[t].about, events |-> aggTopics[t].events \cup {id}]
        /\ t \notin DOMAIN aggTopics => aggTopics'[t] = [about |-> e, events |-> {id}]
    BY AggregateEffect DEF HandlerInv
  <1>3. \A k \in DOMAIN aggTopics : /\ aggTopics[k] \in [about : Event, events : SUBSET Posted]
                                    /\ aggTopics[k].events \subseteq Posted
    BY DEF HandlerInv, Base
  <1>4. ASSUME NEW k \in DOMAIN aggTopics'
        PROVE  /\ aggTopics'[k] \in [about : Event, events : SUBSET Posted']
               /\ GetAggregateTopic(aggTopics'[k].about) = k
               /\ \A i \in aggTopics'[k].events : GetAggregateTopic(posted'[i]) = k
    <2>1. \A l \in DOMAIN aggTopics :
              /\ GetAggregateTopic(aggTopics[l].about) = l
              /\ \A i \in aggTopics[l].events : GetAggregateTopic(posted[i]) = l
      BY DEF HandlerInv, TopicsUniform
    <2>2. CASE k # t
      <3>1. k \in DOMAIN aggTopics /\ aggTopics'[k] = aggTopics[k]
        BY <1>2, <2>2
      <3>2. aggTopics[k] \in [about : Event, events : SUBSET Posted']
        <4>1. Posted \subseteq Posted'
          BY <1>1
        <4> QED
          BY <1>3, <3>1, <4>1
      <3>3. ASSUME NEW i \in aggTopics[k].events
            PROVE  GetAggregateTopic(posted'[i]) = k
        <4>1. i \in Posted /\ GetAggregateTopic(posted[i]) = k
          BY <1>3, <2>1, <3>1, <3>3
        <4>2. posted'[i] = posted[i]
          BY <1>1, <4>1
        <4> QED
          BY <4>1, <4>2
      <3> QED
        BY <2>1, <3>1, <3>2, <3>3
    <2>3. CASE k = t /\ t \in DOMAIN aggTopics
      <3>1. aggTopics'[k].about = aggTopics[k].about
               /\ aggTopics'[k].events = aggTopics[k].events \cup {id}
        BY <1>2, <2>3
      <3>2. \A i \in aggTopics'[k].events : GetAggregateTopic(posted'[i]) = k
        <4>1. GetAggregateTopic(posted'[id]) = k
          BY <1>1, <2>3
        <4>2. ASSUME NEW i \in aggTopics[k].events
              PROVE  GetAggregateTopic(posted'[i]) = k
          <5>1. k \in DOMAIN aggTopics
            BY <2>3
          <5>2. i \in Posted /\ GetAggregateTopic(posted[i]) = k
            BY <1>3, <2>1, <4>2, <5>1
          <5>3. posted'[i] = posted[i]
            BY <1>1, <5>2
          <5> QED
            BY <5>2, <5>3
        <4> QED
          BY <3>1, <4>1, <4>2
      <3>3. aggTopics'[k] \in [about : Event, events : SUBSET Posted']
        <4>1. aggTopics[k].about \in Event /\ aggTopics[k].events \cup {id} \subseteq Posted'
          BY <1>1, <1>3, <2>3
        <4>2. aggTopics'[k] = [about |-> aggTopics[k].about, events |-> aggTopics[k].events \cup {id}]
          BY <1>2, <2>3
        <4> QED
          BY <4>1, <4>2
      <3> QED
        BY <2>1, <2>3, <3>1, <3>2, <3>3
    <2>4. CASE k = t /\ t \notin DOMAIN aggTopics
      BY <1>1, <1>2, <2>4
    <2> QED
      BY <1>2, <2>2, <2>3, <2>4
  <1>5. Base'
    BY <1>1, <1>4 DEF HandlerInv, Base
  <1>6. TopicsUniform'
    BY <1>4 DEF TopicsUniform
  <1>7. QueriesUniform'
    <2>1. \A q : Speaks(q) => Speaks(q)'
      BY <1>1 DEF Speaks
    <2>2. AllQueries' = AllQueries
      BY DEF AllQueries, Range
    <2> QED
      BY <2>1, <2>2 DEF HandlerInv, QueriesUniform
  <1>8. Collected' \subseteq Collected \cup {id}
    <2> SUFFICES ASSUME NEW b \in Collected', b # id
                 PROVE  b \in Collected
      OBVIOUS
    <2>1. PICK k \in DOMAIN aggTopics' : b \in aggTopics'[k].events
      BY DEF Collected
    <2>2. k \in DOMAIN aggTopics /\ b \in aggTopics[k].events
      BY <1>2, <2>1
    <2> QED
      BY <1>3, <2>2 DEF Collected
  <1>9. Budget'
    <2>1. IsFiniteSet(Collected) /\ Cardinality(Collected) \in Nat
      BY CollectedIsFinite DEF HandlerInv
    <2>2. /\ IsFiniteSet(Collected \cup {id})
          /\ Cardinality(Collected \cup {id}) <= Cardinality(Collected) + 1
      <3> HIDE DEF id
      <3>1. Cardinality(Collected \cup {id}) \in {Cardinality(Collected), Cardinality(Collected) + 1}
        BY <2>1, FS_AddElement
      <3> QED
        BY <2>1, <3>1, FS_AddElement
    <2>3. Cardinality(Collected') <= Cardinality(Collected \cup {id})
             /\ IsFiniteSet(Collected')
      BY <1>8, <2>2, FS_Subset
    <2>4. Cardinality(Collected') \in Nat /\ Cardinality(Collected \cup {id}) \in Nat
      BY <2>2, <2>3, FS_CardinalityType
    <2>5. Limiter!Arrived' = Limiter!Arrived
      BY DEF Limiter!Arrived
    <2>6. Limiter!Arrived \in Nat
      BY DEF Limiter!Arrived, HandlerInv, Base
    <2> HIDE DEF id
    <2> QED
      BY <1>1, <2>1, <2>2, <2>3, <2>4, <2>5, <2>6 DEF HandlerInv, Budget
  <1>10. OrderKept'
    <2>1. ASSUME NEW q \in Range(accepted), NEW a \in q.events, NEW b \in Collected',
                 q.about = posted'[b]
          PROVE  a < b
      <3>1. a \in Posted
        BY DEF HandlerInv, QueriesUniform, AllQueries, Speaks
      <3>2. CASE b = id
        BY <1>1, <3>1, <3>2
      <3>3. CASE b \in Collected
        <4>1. posted'[b] = posted[b]
          BY <1>1, <3>3 DEF Collected
        <4> QED
          BY <2>1, <3>3, <4>1 DEF HandlerInv, OrderKept
      <3> QED
        BY <1>8, <3>2, <3>3
    <2>2. Range(accepted)' = Range(accepted)
      BY DEF Range
    <2> QED
      BY <2>1, <2>2 DEF HandlerInv, OrderKept
  <1> QED
    BY <1>5, <1>6, <1>7, <1>9, <1>10 DEF HandlerInv

\* An event goes straight to the limiter; without aggregation nothing is
\* collected.
LEMMA DirectKeepsInv ==
    ASSUME HandlerInv, NEW e \in Event, ~config.aggregation, NEW flush,
           Len(posted) + 1 \in EventId, posted' = Append(posted, e), initialised' = TRUE,
           Submit([about |-> e, events |-> {Len(posted) + 1}], flush),
           UNCHANGED <<config, aggTopics>>
    PROVE  HandlerInv'
  <1> DEFINE id == Len(posted) + 1
  <1>0. PICK q : q = [about |-> e, events |-> {id}]
    OBVIOUS
  <1>1. /\ Posted' = Posted \cup {id} /\ posted' \in Seq(Event) /\ Len(posted') <= MaxEvents
        /\ Len(posted) \in Nat /\ Len(posted') = Len(posted) + 1
        /\ \A i \in Posted : posted'[i] = posted[i] /\ i < id
        /\ posted'[id] = e
    BY PostedGrows DEF HandlerInv
  <1>2. q \in Query /\ q.about = e /\ q.events = {id}
    <2>1. {id} \in (SUBSET EventId) \ {{}}
      OBVIOUS
    <2> QED
      BY <1>0, <2>1 DEF Query
  <1>3. DOMAIN aggTopics = {} /\ DOMAIN aggTopics' = {}
    BY DEF HandlerInv, Base
  <1>4. Submit(q, flush)
    BY <1>0
  <1> HIDE DEF id
  <1>5. /\ accepted' \in Seq(Query) /\ queue' \in Seq(Query) /\ started' \in Seq(Query)
        /\ dropped' \in Nat /\ inflight' \subseteq Query
        /\ Len(accepted') + dropped' = Len(accepted) + dropped + 1
    BY <1>2, <1>4, SubmitKeepsTypes DEF HandlerInv
  <1>6. Base'
    BY <1>1, <1>3, <1>5 DEF HandlerInv, Base
  <1>7. TopicsUniform'
    BY <1>3 DEF TopicsUniform
  <1>8. QueriesUniform'
    <2>1. Speaks(q)'
      BY <1>1, <1>2 DEF Speaks
    <2>2. Posted \subseteq Posted' /\ \A i \in Posted : posted'[i] = posted[i]
      BY <1>1
    <2> QED
      BY <1>2, <1>4, <2>1, <2>2, SubmitKeepsUniform DEF HandlerInv
  <1>9. Collected = {} /\ Collected' = {}
    BY <1>3 DEF Collected
  <1>10. Budget'
    <2>1. Limiter!Arrived' = Limiter!Arrived + 1
      BY <1>5 DEF Limiter!Arrived, HandlerInv, Base
    <2>2. Limiter!Arrived \in Nat
      BY DEF Limiter!Arrived, HandlerInv, Base
    <2> QED
      BY <1>1, <1>9, <2>1, <2>2, FS_EmptySet DEF HandlerInv, Budget
  <1>11. OrderKept'
    <2>1. ASSUME NEW r \in Range(accepted), NEW a \in r.events, NEW b \in q.events
          PROVE  a < b
      <3>1. a \in Posted
        BY DEF HandlerInv, QueriesUniform, AllQueries, Speaks
      <3> QED
        BY <1>1, <1>2, <3>1
    <2> QED
      BY <1>2, <1>4, <1>9, <2>1, SubmitKeepsOrder DEF HandlerInv
  <1> QED
    BY <1>6, <1>7, <1>8, <1>10, <1>11 DEF HandlerInv

\* What a topic sends on says the truth about the events it collected.
LEMMA TopicQuerySpeaks ==
    ASSUME HandlerInv, NEW t \in DOMAIN aggTopics, aggTopics[t].events # {}
    PROVE  /\ TopicQuery(t) \in Query
           /\ TopicQuery(t).events = aggTopics[t].events
           /\ GetAggregateTopic(TopicQuery(t).about) = t
           /\ Speaks(TopicQuery(t))
  <1> DEFINE ids == aggTopics[t].events
             about == TopicQuery(t).about
  <1>1. /\ ids \subseteq Posted /\ aggTopics[t].about \in Event
        /\ GetAggregateTopic(aggTopics[t].about) = t
        /\ \A i \in ids : GetAggregateTopic(posted[i]) = t
    BY DEF HandlerInv, Base, TopicsUniform
  <1>2. Posted \subseteq EventId /\ \A i \in Posted : posted[i] \in Event
    <2>1. posted \in Seq(Event) /\ Len(posted) \in Nat /\ Len(posted) <= MaxEvents
      BY DEF HandlerInv, Base
    <2> QED
      BY <2>1, SettingsAssumption, ElementOfSeq DEF Posted, EventId
  <1>3. about \in Event /\ GetAggregateTopic(about) = t
    <2>1. CASE Cardinality(ids) = 1
      <3>1. IsFiniteSet(ids)
        <4>1. IsFiniteSet(1..MaxEvents)
          BY SettingsAssumption, FS_Interval
        <4>2. ids \in SUBSET (1..MaxEvents)
          BY <1>1, <1>2 DEF EventId
        <4> HIDE DEF ids
        <4> QED
          BY <4>1, <4>2, FS_Subset
      <3>2. PICK x : ids = {x}
        BY <2>1, <3>1, FS_Singleton
      <3>3. x \in Nat
        <4>1. x \in EventId
          BY <3>2, <1>1, <1>2
        <4> QED
          BY <4>1, SettingsAssumption DEF EventId
      <3>4. Max(ids) = x
        BY <3>2, <3>3 DEF Max
      <3>5. about = posted[x]
        BY <2>1, <3>4 DEF TopicQuery
      <3> QED
        BY <1>1, <1>2, <3>2, <3>5
    <2>2. CASE Cardinality(ids) # 1
      BY <1>1, <2>2 DEF TopicQuery
    <2> QED
      BY <2>1, <2>2
  <1>4. TopicQuery(t).events = ids /\ TopicQuery(t) = [about |-> about, events |-> ids]
    BY DEF TopicQuery
  <1>5. TopicQuery(t) \in Query
    <2> HIDE DEF about, ids
    <2>1. ids \in (SUBSET EventId) \ {{}}
      BY <1>1, <1>2 DEF ids
    <2> QED
      BY <1>3, <1>4, <2>1 DEF Query
  <1>6. ASSUME NEW i \in ids
        PROVE  posted[i] = about
    <2>1. posted[i] \in Event /\ GetAggregateTopic(posted[i]) = GetAggregateTopic(about)
      BY <1>1, <1>2, <1>3
    <2> HIDE DEF about
    <2> QED
      BY <1>3, <2>1, EventAssumption DEF GetAggregateTopic
  <1> QED
    BY <1>1, <1>3, <1>4, <1>5, <1>6 DEF Speaks

\* A topic sends on what it collected.
LEMMA FlushKeepsInv ==
    ASSUME HandlerInv, NEW t \in DOMAIN aggTopics, FlushTopic(t)
    PROVE  HandlerInv'
  <1> DEFINE ids == aggTopics[t].events
  <1>1. /\ aggTopics[t].events # {} /\ Submit(TopicQuery(t), flushTimer)
        /\ aggTopics' = [aggTopics EXCEPT ![t].events = {}]
        /\ config' = config /\ initialised' = initialised /\ posted' = posted
    BY DEF FlushTopic
  <1>2. PICK q : q = TopicQuery(t)
    OBVIOUS
  <1>3. q \in Query /\ q.events = ids /\ GetAggregateTopic(q.about) = t /\ Speaks(q)
    BY <1>1, <1>2, TopicQuerySpeaks
  <1>4. Submit(q, flushTimer) /\ Base
    BY <1>1, <1>2 DEF HandlerInv
  <1>5. PICK flush : flush = flushTimer
    OBVIOUS
  <1>6. Submit(q, flush)
    BY <1>4, <1>5
  <1>7. \A k \in DOMAIN aggTopics : /\ aggTopics[k] \in [about : Event, events : SUBSET Posted]
                                    /\ GetAggregateTopic(aggTopics[k].about) = k
                                    /\ \A i \in aggTopics[k].events : GetAggregateTopic(posted[i]) = k
    BY DEF HandlerInv, Base, TopicsUniform
  <1>8. /\ DOMAIN aggTopics' = DOMAIN aggTopics
        /\ \A k \in DOMAIN aggTopics : k # t => aggTopics'[k] = aggTopics[k]
        /\ aggTopics'[t] = [about |-> aggTopics[t].about, events |-> {}]
    BY <1>1, <1>7
  <1>9. Posted' = Posted
    BY <1>1 DEF Posted
  <1>10. /\ accepted' \in Seq(Query) /\ queue' \in Seq(Query) /\ started' \in Seq(Query)
         /\ dropped' \in Nat /\ inflight' \subseteq Query
         /\ Len(accepted') + dropped' = Len(accepted) + dropped + 1
    BY <1>3, <1>4, <1>6, SubmitKeepsTypes
  <1>11. Base'
    <2>1. \A k \in DOMAIN aggTopics' : aggTopics'[k] \in [about : Event, events : SUBSET Posted']
      BY <1>7, <1>8, <1>9
    <2> QED
      BY <1>1, <1>8, <1>10, <2>1 DEF HandlerInv, Base
  <1>12. TopicsUniform'
    BY <1>1, <1>7, <1>8 DEF TopicsUniform
  <1>13. QueriesUniform'
    <2>1. Speaks(q)'
      BY <1>1, <1>3, <1>9 DEF Speaks
    <2> QED
      BY <1>1, <1>3, <1>4, <1>6, <1>9, <2>1, SubmitKeepsUniform DEF HandlerInv
  <1>14. ids # {} /\ ids \subseteq Collected
    BY <1>1, <1>7 DEF Collected
  <1>15. ASSUME NEW b \in Collected'
         PROVE  b \in Collected /\ b \notin ids /\ GetAggregateTopic(posted[b]) # t
    <2>1. PICK k \in DOMAIN aggTopics' : b \in aggTopics'[k].events
      BY DEF Collected
    <2>2. k # t /\ k \in DOMAIN aggTopics /\ b \in aggTopics[k].events
      BY <1>8, <2>1
    <2>3. GetAggregateTopic(posted[b]) = k /\ b \in Posted
      BY <1>7, <2>2
    <2> QED
      BY <1>7, <2>2, <2>3 DEF Collected
  <1>16. Budget'
    <2>1. PICK x \in ids : TRUE
      BY <1>14
    <2>2. IsFiniteSet(Collected) /\ Cardinality(Collected) \in Nat
      BY <1>4, CollectedIsFinite
    <2>3. /\ IsFiniteSet(Collected \ {x})
          /\ Cardinality(Collected \ {x}) = Cardinality(Collected) - 1
      BY <1>14, <2>1, <2>2, FS_RemoveElement
    <2>4. Collected' \in SUBSET (Collected \ {x})
      BY <1>15, <2>1
    <2>5. Cardinality(Collected') <= Cardinality(Collected) - 1 /\ IsFiniteSet(Collected')
      BY <2>3, <2>4, FS_Subset
    <2>6. Cardinality(Collected') \in Nat
      BY <2>5, FS_CardinalityType
    <2>7. Limiter!Arrived' = Limiter!Arrived + 1
      BY <1>4, <1>10 DEF Limiter!Arrived, Base
    <2>8. Limiter!Arrived \in Nat
      BY <1>4 DEF Limiter!Arrived, Base
    <2>9. Len(posted') = Len(posted) /\ Len(posted) \in Nat
      BY <1>1, <1>4 DEF Base
    <2> QED
      BY <2>2, <2>5, <2>6, <2>7, <2>8, <2>9 DEF HandlerInv, Budget
  <1>17. OrderKept'
    <2>1. ASSUME NEW r \in Range(accepted), r.about = q.about,
                 NEW a \in r.events, NEW b \in q.events
          PROVE  a < b
      <3>1. b \in Collected /\ r.about = posted[b]
        BY <1>3, <1>14, <2>1 DEF Speaks
      <3> QED
        BY <3>1 DEF HandlerInv, OrderKept
    <2>2. ASSUME NEW b \in Collected'
          PROVE  /\ b \in Collected /\ posted'[b] = posted[b]
                 /\ q.about # posted[b]
      BY <1>1, <1>3, <1>15
    <2> QED
      BY <1>3, <1>4, <1>6, <2>1, <2>2, SubmitKeepsOrder DEF HandlerInv
  <1> QED
    BY <1>11, <1>12, <1>13, <1>16, <1>17 DEF HandlerInv

\* Queries move on and topics are closed, and nothing is added.
LEMMA MoveKeepsInv ==
    ASSUME HandlerInv, UNCHANGED <<config, posted, accepted, dropped>>,
           initialised' \in {initialised, TRUE},
           DOMAIN aggTopics' \subseteq DOMAIN aggTopics,
           \A t \in DOMAIN aggTopics' : aggTopics'[t] = aggTopics[t],
           queue' \in Seq(Query), started' \in Seq(Query), inflight' \subseteq Query,
           Range(queue') \cup inflight' \subseteq Range(queue) \cup inflight
    PROVE  HandlerInv'
  <1>1. Posted' = Posted
    BY DEF Posted
  <1>2. Base'
    BY <1>1 DEF HandlerInv, Base
  <1>3. TopicsUniform'
    BY DEF HandlerInv, TopicsUniform
  <1>4. Range(accepted)' = Range(accepted) /\ Range(queue)' = Range(queue')
    BY DEF Range
  <1>5. QueriesUniform'
    <2>1. \A q \in AllQueries' : q \in AllQueries
      BY <1>4 DEF AllQueries
    <2>2. \A q : Speaks(q) => Speaks(q)'
      BY <1>1 DEF Speaks
    <2> QED
      BY <2>1, <2>2 DEF HandlerInv, QueriesUniform
  <1>6. Collected' \in SUBSET Collected
    BY <1>1 DEF Collected
  <1>7. Budget'
    <2>1. IsFiniteSet(Collected) /\ Cardinality(Collected) \in Nat
      BY CollectedIsFinite DEF HandlerInv
    <2>2. Cardinality(Collected') <= Cardinality(Collected) /\ IsFiniteSet(Collected')
      BY <1>6, <2>1, FS_Subset
    <2>3. Cardinality(Collected') \in Nat
      BY <2>2, FS_CardinalityType
    <2>4. Limiter!Arrived' = Limiter!Arrived
      BY DEF Limiter!Arrived
    <2>5. Limiter!Arrived \in Nat /\ Len(posted) \in Nat
      BY DEF Limiter!Arrived, HandlerInv, Base
    <2> QED
      BY <2>1, <2>2, <2>3, <2>4, <2>5 DEF HandlerInv, Budget
  <1>8. OrderKept'
    BY <1>4, <1>6 DEF HandlerInv, OrderKept
  <1> QED
    BY <1>2, <1>3, <1>5, <1>7, <1>8 DEF HandlerInv

\* Nothing has been posted.
FreshLists ==
    /\ config \in Configs /\ initialised = FALSE
    /\ accepted = <<>> /\ queue = <<>> /\ started = <<>> /\ dropped = 0
    /\ posted = <<>> /\ aggTopics = NoTopics /\ inflight = {}

\* A server that has just started, or started again, has nothing of anyone.
LEMMA FreshInv == FreshLists => HandlerInv
  <1> SUFFICES ASSUME FreshLists PROVE HandlerInv
    OBVIOUS
  <1> USE DEF FreshLists
  <1>1. Posted = {} /\ DOMAIN aggTopics = {} /\ DOMAIN accepted = {} /\ DOMAIN queue = {}
    BY DEF Posted, NoTopics
  <1>2. Base
    <2>1. <<>> \in Seq(Event) /\ <<>> \in Seq(Query) /\ Len(<<>>) = 0
      BY EmptySeq
    <2>2. posted \in Seq(Event) /\ Len(posted) <= MaxEvents
      BY <2>1, SettingsAssumption
    <2>3. accepted \in Seq(Query) /\ queue \in Seq(Query) /\ started \in Seq(Query)
      BY <2>1
    <2>4. /\ DOMAIN aggTopics # {} => initialised /\ config.aggregation
          /\ \A t \in DOMAIN aggTopics : aggTopics[t] \in [about : Event, events : SUBSET Posted]
      BY <1>1
    <2> QED
      BY <2>2, <2>3, <2>4 DEF Base
  <1>3. TopicsUniform
    BY <1>1 DEF TopicsUniform
  <1>4. QueriesUniform
    BY <1>1 DEF QueriesUniform, AllQueries, Range
  <1>5. Collected = {}
    BY <1>1 DEF Collected
  <1>6. Budget
    BY <1>5, FS_EmptySet, EmptySeq DEF Budget, Limiter!Arrived
  <1>7. OrderKept
    BY <1>1, <1>5 DEF OrderKept
  <1> QED
    BY <1>2, <1>3, <1>4, <1>6, <1>7 DEF HandlerInv

\* A batch the limiter works off goes from its queue to the database.
LEMMA ThrottleKeepsInv ==
    ASSUME HandlerInv, ThrottleTick
    PROVE  HandlerInv'
  <1> DEFINE B == Limiter!BatchSize
  <1>1. /\ queue \in Seq(Query) /\ started \in Seq(Query) /\ inflight \subseteq Query
        /\ Len(queue) \in Nat /\ Len(started) \in Nat
    BY DEF HandlerInv, Base
  <1>2. B \in 0..Len(queue)
    <2>1. Limiter!Rate \in Nat
      BY SettingsAssumption DEF HandlerInv, Base, Limiter!Rate
    <2> QED
      BY <1>1, <2>1 DEF Limiter!BatchSize
  <1> HIDE DEF B
  <1>3. /\ started' = started \o SubSeq(queue, 1, B)
        /\ queue' = SubSeq(queue, B + 1, Len(queue))
        /\ UNCHANGED <<config, initialised, accepted, dropped, posted, aggTopics>>
        /\ inflight' = inflight \cup {started'[i] : i \in (Len(started) + 1)..Len(started')}
    BY DEF ThrottleTick, Limiter!ThrottleTick, Limiter!WorkOff, B
  <1>4. \A i \in 1..Len(queue) : queue[i] \in Query /\ queue[i] \in Range(queue)
    BY <1>1, ElementOfSeq DEF Range
  <1>5. /\ SubSeq(queue, 1, B) \in Seq(Query)
        /\ Len(SubSeq(queue, 1, B)) = B
        /\ \A i \in 1..B : SubSeq(queue, 1, B)[i] = queue[i]
    <2>1. \A i \in 1..B : queue[i] \in Query
      BY <1>1, <1>2, <1>4
    <2>2. B \in Int /\ B \in Nat
      BY <1>1, <1>2
    <2> QED
      BY <2>1, <2>2, SubSeqProperties, Z3
  <1>6. /\ queue' \in Seq(Query)
        /\ Range(queue') \subseteq Range(queue)
    <2>1. \A i \in (B + 1)..Len(queue) : queue[i] \in Query
      BY <1>1, <1>2, <1>4
    <2>2. /\ queue' \in Seq(Query)
          /\ \A i \in 1..Len(queue) - (B + 1) + 1 : queue'[i] = queue[B + 1 + i - 1]
          /\ Len(queue') = (IF B + 1 <= Len(queue) THEN Len(queue) - (B + 1) + 1 ELSE 0)
      BY <1>1, <1>2, <1>3, <2>1, SubSeqProperties, Z3
    <2>3. DOMAIN queue' = 1..Len(queue')
      BY <2>2
    <2>4. \A i \in DOMAIN queue' : queue'[i] \in Range(queue)
      BY <1>1, <1>2, <1>4, <2>2, <2>3
    <2> QED
      BY <2>2, <2>4 DEF Range
  <1>7. /\ started' \in Seq(Query) /\ Len(started') = Len(started) + B
        /\ \A i \in (Len(started) + 1)..Len(started') :
              started'[i] \in Range(queue) /\ started'[i] \in Query
    <2>1. /\ started' \in Seq(Query) /\ Len(started') = Len(started) + B
          /\ \A i \in 1..Len(started) + B : started'[i] =
                IF i <= Len(started) THEN started[i] ELSE SubSeq(queue, 1, B)[i - Len(started)]
      BY <1>1, <1>3, <1>5, ConcatProperties
    <2>2. ASSUME NEW i \in (Len(started) + 1)..Len(started')
          PROVE  started'[i] \in Range(queue) /\ started'[i] \in Query
      <3>1. i - Len(started) \in 1..B /\ i \in 1..Len(started) + B /\ ~(i <= Len(started))
        BY <1>1, <1>2, <2>1
      <3>2. started'[i] = queue[i - Len(started)]
        BY <1>5, <2>1, <3>1
      <3>3. i - Len(started) \in 1..Len(queue)
        BY <1>1, <1>2, <3>1
      <3> QED
        BY <1>4, <3>2, <3>3
    <2> QED
      BY <2>1, <2>2
  <1>8. /\ inflight' \subseteq Query
        /\ Range(queue') \cup inflight' \subseteq Range(queue) \cup inflight
    BY <1>1, <1>3, <1>6, <1>7
  <1> QED
    BY <1>3, <1>6, <1>7, <1>8, MoveKeepsInv

\* Every callback keeps the invariant.
LEMMA HandlerInvStep ==
    ASSUME HandlerInv, [Next]_vars
    PROVE  HandlerInv'
  <1>0. queue \in Seq(Query) /\ started \in Seq(Query) /\ inflight \subseteq Query
    BY DEF HandlerInv, Base
  <1>1. ASSUME NEW e \in Event, Notify(e)
        PROVE  HandlerInv'
    <2>1. /\ Len(posted) + 1 \in EventId /\ posted' = Append(posted, e)
          /\ initialised' = TRUE /\ config' = config
      BY <1>1 DEF Notify
    <2>2. CASE config.aggregation
      <3>1. /\ Aggregate(e, Len(posted) + 1)
            /\ UNCHANGED <<accepted, queue, started, dropped, inflight>>
        BY <1>1, <2>2 DEF Notify
      <3> QED
        BY <2>1, <2>2, <3>1, CollectKeepsInv
    <2>3. CASE ~config.aggregation
      <3>1. /\ Submit([about |-> e, events |-> {Len(posted) + 1}], Limiter!FlushAfterInit)
            /\ aggTopics' = aggTopics
        BY <1>1, <2>3 DEF Notify
      <3>2. PICK flush : flush = Limiter!FlushAfterInit
        OBVIOUS
      <3> QED
        BY <2>1, <2>3, <3>1, <3>2, DirectKeepsInv
    <2> QED
      BY <2>2, <2>3
  <1>2. CASE BadRequest
    BY <1>0, <1>2, MoveKeepsInv DEF BadRequest, Limiter!InitHandler
  <1>3. ASSUME NEW t \in DOMAIN aggTopics, AggTick(t)
        PROVE  HandlerInv'
    <2>1. CASE CloseTopic(t)
      BY <1>0, <2>1, MoveKeepsInv DEF CloseTopic, Restrict
    <2>2. CASE FlushTopic(t)
      BY <2>2, FlushKeepsInv
    <2> QED
      BY <1>3, <2>1, <2>2 DEF AggTick
  <1>4. CASE FlushTick
    BY <1>0, <1>4, MoveKeepsInv DEF FlushTick, Limiter!FlushTick
  <1>5. CASE ThrottleTick
    BY <1>5, ThrottleKeepsInv
  <1>6. CASE Reply
    BY <1>0, <1>6, MoveKeepsInv DEF Reply, DatabaseReply
  <1>7. CASE Restart
    <2>1. FreshLists'
      BY <1>7 DEF Restart, Limiter!Restart, FreshLists
    <2>2. FreshLists' => HandlerInv'
      BY FreshInv, PTL
    <2> QED
      BY <2>1, <2>2
  <1>8. CASE UNCHANGED vars
    BY <1>0, <1>8, MoveKeepsInv DEF vars
  <1> QED
    BY <1>1, <1>2, <1>3, <1>4, <1>5, <1>6, <1>7, <1>8 DEF Next

\* What the server knows of an event is what Icinga posted, in its topic, in the
\* limiter's queue, in a query and at its end (event_handler.js), through restarts.
THEOREM HandlerInvariant == Spec => []HandlerInv
  <1>1. Init => HandlerInv
    <2>1. Init => FreshLists
      BY DEF Init, Limiter!Init, FreshHandler, FreshLists
    <2> QED
      BY <2>1, FreshInv
  <1>2. HandlerInv /\ [Next]_vars => HandlerInv'
    BY HandlerInvStep
  <1> QED
    BY <1>1, <1>2, PTL DEF Spec

\* Every query under way says of each of its events what Icinga posted, however
\* long its topic collected and its queries waited (event_handler.js,
\* _aggregate_event and _agg_event_process).
THEOREM QueriesSayWhatWasPosted == Spec => []AggregatesAreUniform
  <1>1. HandlerInv => AggregatesAreUniform
    BY DEF HandlerInv, QueriesUniform, AllQueries, Speaks, AggregatesAreUniform, Pending
  <1> QED
    BY <1>1, HandlerInvariant, PTL

\* Each step of the server is one of the limiter or leaves it alone; the limiter
\* gets at most one query of each event, so its bound is that of the events.
LEMMA ServerStepsLimiter == HandlerInv /\ [Next]_vars => [Limiter!Next]_(Limiter!limiterVars)
  <1> SUFFICES ASSUME HandlerInv, [Next]_vars
               PROVE  [Limiter!Next]_(Limiter!limiterVars)
    OBVIOUS
  <1>1. ASSUME NEW e \in Event, Notify(e)
        PROVE  [Limiter!Next]_(Limiter!limiterVars)
    <2> DEFINE id == Len(posted) + 1
    <2>1. id \in EventId /\ initialised' = TRUE /\ config' = config
      BY <1>1 DEF Notify
    <2>2. CASE config.aggregation
      <3>1. /\ flushTimer' = Limiter!FlushAfterInit
            /\ UNCHANGED <<reqCurr, queue, throttleTimer, accepted, started, dropped, burst>>
        BY <1>1, <2>2 DEF Notify
      <3>2. CASE initialised
        <4>1. initialised' = initialised
          BY <2>1, <3>2 DEF HandlerInv, Base
        <4> QED
          BY <2>1, <3>1, <3>2, <4>1 DEF Limiter!FlushAfterInit, Limiter!limiterVars
      <3>3. CASE ~initialised
        BY <2>1, <3>1, <3>3
           DEF Limiter!FlushAfterInit, Limiter!InitHandler, Limiter!Next
      <3> QED
        BY <3>2, <3>3
    <2>3. CASE ~config.aggregation
      <3>1. PICK q : q = [about |-> e, events |-> {id}]
        OBVIOUS
      <3>2. q \in Query
        <4>1. {id} \in (SUBSET EventId) \ {{}}
          BY <2>1
        <4> QED
          BY <3>1, <4>1 DEF Query
      <3>3. Limiter!Admit(q, Limiter!FlushAfterInit)
        BY <1>1, <2>3, <3>1 DEF Notify, Submit
      <3>4. Limiter!Arrived < MaxEvents
        <4>1. Cardinality(Collected) \in Nat
          BY CollectedIsFinite DEF HandlerInv
        <4>2. Limiter!Arrived \in Nat /\ Len(posted) \in Nat
          BY DEF Limiter!Arrived, HandlerInv, Base
        <4>3. Len(posted) + 1 <= MaxEvents
          BY <2>1 DEF EventId
        <4> QED
          BY <4>1, <4>2, <4>3, SettingsAssumption DEF HandlerInv, Budget
      <3> QED
        BY <2>1, <3>2, <3>3, <3>4 DEF Limiter!Request, Limiter!Next
    <2> QED
      BY <2>2, <2>3
  <1>2. CASE BadRequest
    BY <1>2 DEF BadRequest, Limiter!Next
  <1>3. ASSUME NEW t \in DOMAIN aggTopics, CloseTopic(t)
        PROVE  [Limiter!Next]_(Limiter!limiterVars)
    BY <1>3 DEF CloseTopic, Limiter!limiterVars
  <1>4. ASSUME NEW t \in DOMAIN aggTopics, FlushTopic(t)
        PROVE  [Limiter!Next]_(Limiter!limiterVars)
    <2>1. PICK q : q = TopicQuery(t)
      OBVIOUS
    <2>2. /\ q \in Query /\ q.events = aggTopics[t].events /\ q.events # {}
          /\ Limiter!Admit(q, flushTimer)
          /\ config' = config /\ initialised' = initialised
      BY <1>4, <2>1, TopicQuerySpeaks DEF FlushTopic, Submit
    <2>3. initialised = TRUE
      BY DEF HandlerInv, Base
    <2>4. Limiter!FlushAfterInit = flushTimer
      BY <2>3 DEF Limiter!FlushAfterInit
    <2>5. Limiter!Arrived < MaxEvents
      <3>1. PICK i : i \in q.events
        BY <2>2
      <3>2. i \in Collected
        BY <2>2, <3>1 DEF HandlerInv, Base, Collected
      <3>3. IsFiniteSet(Collected) /\ Cardinality(Collected) \in Nat
        BY CollectedIsFinite DEF HandlerInv
      <3>4. Cardinality(Collected) # 0
        BY <3>2, <3>3, FS_EmptySet
      <3>5. Limiter!Arrived \in Nat /\ Len(posted) \in Nat /\ Len(posted) <= MaxEvents
        BY DEF Limiter!Arrived, HandlerInv, Base
      <3> QED
        BY <3>3, <3>4, <3>5, SettingsAssumption DEF HandlerInv, Budget
    <2> QED
      BY <2>2, <2>3, <2>4, <2>5 DEF Limiter!Request, Limiter!Next
  <1>5. CASE FlushTick
    BY <1>5 DEF FlushTick, Limiter!Next
  <1>6. CASE ThrottleTick
    BY <1>6 DEF ThrottleTick, Limiter!Next
  <1>7. CASE Reply
    BY <1>7 DEF Reply, DatabaseReply, Limiter!limiterVars
  <1>8. CASE Restart
    BY <1>8 DEF Restart, Limiter!Next
  <1>9. CASE UNCHANGED vars
    BY <1>9 DEF vars, Limiter!limiterVars
  <1> QED
    BY <1>1, <1>2, <1>3, <1>4, <1>5, <1>6, <1>7, <1>8, <1>9 DEF Next, AggTick

\* The rate limiter inside is RateLimiter: each step of the server is one of it
\* or leaves it alone, and of each event it gets at most one query, so that its
\* bound is that of the events (event_handler.js, both paths into
\* _notification_rate_limited).
THEOREM ServerRunsLimiter == Spec => LimiterInside
  <1>1. Init => Limiter!Init
    BY DEF Init
  <1> QED
    BY <1>1, ServerStepsLimiter, HandlerInvariant, PTL DEF Spec, LimiterInside, Limiter!LimiterSafety

----------------------------------------------------------------------------
(* The order of the limiter inside *)

\* The limiter inside keeps its order: what waits is counted on top of the rate,
\* so nothing passes it.
InsideInv ==
    /\ Limiter!TypeOK
    /\ throttleTimer => initialised /\ Limiter!Enabled /\ ~flushTimer
    /\ throttleTimer => reqCurr >= Limiter!Rate - 1 + Len(queue)
    /\ ~throttleTimer => queue = <<>>
    /\ Limiter!NoLossNoOvertaking

\* What is known of the settings, and that only a restart changes them.
LEMMA Settings ==
    ASSUME config \in Configs
    PROVE  Limiter!Rate \in Nat \ {0} /\ Limiter!Enabled \in BOOLEAN
  BY SettingsAssumption, Zenon DEF Limiter!Rate, Limiter!Enabled

\* Lists with a query more.
LEMMA InsideAppend ==
    ASSUME NEW q \in Query, NEW s \in Seq(Query), NEW w \in Seq(Query)
    PROVE  /\ Append(s, q) \in Seq(Query)
           /\ Len(Append(s, q)) = Len(s) + 1
           /\ Append(s \o w, q) = s \o Append(w, q)
           /\ w = <<>> => Append(s \o w, q) = Append(s, q) \o w
  <1>1. Append(s, q) \in Seq(Query) /\ Len(Append(s, q)) = Len(s) + 1
    BY AppendProperties
  <1>2. Append(s \o w, q) = s \o Append(w, q)
    OBVIOUS
  <1>3. \A t \in Seq(Query) : t \o <<>> = t
    BY ConcatEmptySeq
  <1> QED
    BY <1>1, <1>2, <1>3

\* A query keeps the order: it starts at once only when none waits.
LEMMA RequestKeepsInside ==
    ASSUME InsideInv, NEW q \in Query, Limiter!Request(q)
    PROVE  InsideInv'
  <1> USE DEF Limiter!TypeOK
  <1>1. /\ queue \in Seq(Query) /\ accepted \in Seq(Query) /\ started \in Seq(Query)
        /\ dropped \in Nat /\ burst \in Nat /\ reqCurr \in Nat /\ Len(queue) \in Nat
        /\ Limiter!Rate \in Nat \ {0}
    BY Settings DEF InsideInv
  <1>2. /\ config' = config /\ initialised' = TRUE
        /\ Limiter!Rate' = Limiter!Rate /\ Limiter!Enabled' = Limiter!Enabled
    BY DEF Limiter!Request, Limiter!Rate, Limiter!Enabled
  <1>3. config' \in Configs /\ initialised' \in BOOLEAN
    BY <1>2, Zenon DEF InsideInv
  <1>4. Limiter!FlushAfterInit \in BOOLEAN /\ (throttleTimer => ~Limiter!FlushAfterInit)
    <2>1. initialised \in BOOLEAN /\ flushTimer \in BOOLEAN /\ Limiter!Enabled \in BOOLEAN
      BY Settings, Zenon DEF InsideInv
    <2> QED
      BY <2>1 DEF Limiter!FlushAfterInit, InsideInv
  <1>5. throttleTimer \in BOOLEAN /\ accepted = started \o queue
    BY Zenon DEF InsideInv, Limiter!NoLossNoOvertaking
  <1>6. CASE /\ ~Limiter!Enabled \/ reqCurr + 1 < Limiter!Rate
             /\ Limiter!StartNow(q)
             /\ flushTimer' = Limiter!FlushAfterInit
             /\ reqCurr' \in {reqCurr, reqCurr + 1}
    <2>1. ~throttleTimer /\ queue = <<>>
      BY <1>1, <1>6 DEF InsideInv
    <2>2. /\ accepted' = Append(accepted, q) /\ started' = Append(started, q)
          /\ burst' = burst + 1 /\ queue' = queue /\ throttleTimer' = throttleTimer
          /\ dropped' = dropped
      BY <1>6 DEF Limiter!StartNow
    <2>3. /\ accepted' \in Seq(Query) /\ started' \in Seq(Query) /\ queue' \in Seq(Query)
          /\ accepted' = started' \o queue'
      BY <1>1, <1>5, <2>1, <2>2, InsideAppend
    <2>4. reqCurr' \in Nat /\ burst' \in Nat /\ dropped' \in Nat
      BY <1>1, <1>6, <2>2
    <2>5. flushTimer' \in BOOLEAN /\ throttleTimer' \in BOOLEAN
      BY <1>4, <1>5, <1>6, <2>2, Zenon
    <2>6. Limiter!TypeOK'
      BY <1>3, <2>3, <2>4, <2>5, Zenon
    <2> QED
      BY <2>1, <2>2, <2>3, <2>6 DEF InsideInv, Limiter!NoLossNoOvertaking
  <1>7. CASE Limiter!Drop /\ flushTimer' = Limiter!FlushAfterInit /\ reqCurr' = reqCurr + 1
    <2>1. /\ dropped' = dropped + 1 /\ queue' = queue /\ throttleTimer' = throttleTimer
          /\ accepted' = accepted /\ started' = started /\ burst' = burst
      BY <1>7 DEF Limiter!Drop
    <2>2. reqCurr' \in Nat /\ dropped' \in Nat /\ burst' \in Nat
      BY <1>1, <1>7, <2>1
    <2>3. flushTimer' \in BOOLEAN /\ throttleTimer' \in BOOLEAN
      BY <1>4, <1>5, <1>7, <2>1, Zenon
    <2>4. Limiter!TypeOK'
      BY <1>1, <1>3, <2>1, <2>2, <2>3, Zenon
    <2>5. throttleTimer' => initialised' /\ Limiter!Enabled' /\ ~flushTimer'
      BY <1>2, <1>4, <1>7, <2>1 DEF InsideInv
    <2>6. throttleTimer' => reqCurr' >= Limiter!Rate' - 1 + Len(queue')
      BY <1>1, <1>2, <1>7, <2>1 DEF InsideInv
    <2> QED
      BY <1>5, <2>1, <2>4, <2>5, <2>6 DEF InsideInv, Limiter!NoLossNoOvertaking
  <1>8. CASE /\ Limiter!Enabled /\ reqCurr + 1 >= Limiter!Rate
             /\ Limiter!Enqueue(q) /\ flushTimer' = FALSE /\ reqCurr' = reqCurr + 1
    <2>1. /\ queue' = Append(queue, q) /\ accepted' = Append(accepted, q)
          /\ throttleTimer' = TRUE /\ started' = started /\ dropped' = dropped /\ burst' = burst
      BY <1>8 DEF Limiter!Enqueue
    <2>2. /\ accepted' \in Seq(Query) /\ started' \in Seq(Query) /\ queue' \in Seq(Query)
          /\ accepted' = started' \o queue' /\ Len(queue') = Len(queue) + 1
      BY <1>1, <1>5, <2>1, InsideAppend
    <2>3. reqCurr' \in Nat /\ dropped' \in Nat /\ burst' \in Nat
      BY <1>1, <1>8, <2>1
    <2>4. flushTimer' \in BOOLEAN /\ throttleTimer' \in BOOLEAN
      BY <1>8, <2>1, Zenon
    <2>5. Limiter!TypeOK'
      BY <1>3, <2>2, <2>3, <2>4, Zenon
    <2>6. reqCurr' >= Limiter!Rate - 1 + Len(queue')
      <3>1. CASE throttleTimer
        BY <1>1, <1>8, <2>2, <3>1 DEF InsideInv
      <3>2. CASE ~throttleTimer
        <4>1. Len(queue) = 0
          BY <3>2 DEF InsideInv
        <4> QED
          BY <1>1, <1>8, <2>2, <4>1
      <3> QED
        BY <3>1, <3>2
    <2> QED
      BY <1>2, <1>8, <2>1, <2>2, <2>5, <2>6 DEF InsideInv, Limiter!NoLossNoOvertaking
  <1> QED
    BY <1>6, <1>7, <1>8 DEF Limiter!Request, Limiter!Admit

\* A batch keeps the order: it is the head of the queue.
LEMMA BatchKeepsInside == ASSUME InsideInv, Limiter!ThrottleTick PROVE InsideInv'
  <1> USE DEF Limiter!TypeOK
  <1> DEFINE k == Limiter!BatchSize
             batch == SubSeq(queue, 1, k)
             rest == SubSeq(queue, k + 1, Len(queue))
  <1>1. /\ queue \in Seq(Query) /\ accepted \in Seq(Query) /\ started \in Seq(Query)
        /\ dropped \in Nat /\ burst \in Nat /\ reqCurr \in Nat /\ Len(queue) \in Nat
        /\ Limiter!Rate \in Nat \ {0}
    BY Settings DEF InsideInv
  <1>2. /\ throttleTimer /\ initialised /\ Limiter!Enabled /\ ~flushTimer
        /\ reqCurr >= Limiter!Rate - 1 + Len(queue) /\ accepted = started \o queue
    BY DEF InsideInv, Limiter!ThrottleTick, Limiter!NoLossNoOvertaking
  <1>3. /\ config' = config /\ initialised' = initialised /\ accepted' = accepted
        /\ dropped' = dropped /\ Limiter!Rate' = Limiter!Rate /\ Limiter!Enabled' = Limiter!Enabled
        /\ started' = started \o batch /\ queue' = rest /\ burst' = k
    BY DEF Limiter!ThrottleTick, Limiter!WorkOff, Limiter!Rate, Limiter!Enabled
  <1>4. k \in 0..Len(queue) /\ (k < Limiter!Rate => k = Len(queue))
    BY <1>1 DEF Limiter!BatchSize
  <1>5. \/ /\ k = Len(queue)
           /\ reqCurr' = 0 /\ throttleTimer' = FALSE /\ flushTimer' = TRUE
        \/ reqCurr' = reqCurr - k /\ throttleTimer' = throttleTimer /\ flushTimer' = flushTimer
    BY <1>4 DEF Limiter!ThrottleTick, Limiter!AfterBatch
  <1> HIDE DEF k
  <1>6. /\ batch \in Seq(Query) /\ rest \in Seq(Query) /\ Len(rest) = Len(queue) - k
        /\ batch \o rest = queue
    BY <1>1, <1>4, CutAndJoin
  <1> HIDE DEF batch, rest
  <1>7. started' \in Seq(Query) /\ accepted' = started' \o queue'
    <2>1. \A s, t, u \in Seq(Query) : s \o t \in Seq(Query) /\ (s \o t) \o u = s \o (t \o u)
      BY ConcatAssociative, ConcatProperties
    <2>2. (started \o batch) \o rest = started \o (batch \o rest) /\ started \o batch \in Seq(Query)
      BY <1>1, <1>6, <2>1
    <2> QED
      BY <1>2, <1>3, <1>6, <2>2
  <1>8. reqCurr' \in Nat /\ burst' \in Nat
    <2>1. k \in Nat /\ reqCurr - k \in Nat
      BY <1>1, <1>2, <1>4
    <2>2. reqCurr' = 0 \/ reqCurr' = reqCurr - k
      BY <1>5
    <2> QED
      BY <1>3, <2>1, <2>2
  <1>9. flushTimer' \in BOOLEAN /\ throttleTimer' \in BOOLEAN
    <2>1. flushTimer \in BOOLEAN /\ throttleTimer \in BOOLEAN
      BY Zenon DEF InsideInv
    <2> QED
      BY <1>5, <2>1, Zenon
  <1>10. config' \in Configs /\ initialised' \in BOOLEAN
    BY <1>3, Zenon DEF InsideInv
  <1>11. Limiter!TypeOK'
    <2>1. queue' \in Seq(Query) /\ accepted' \in Seq(Query) /\ dropped' \in Nat
      BY <1>1, <1>3, <1>6
    <2> QED
      BY <1>7, <1>8, <1>9, <1>10, <2>1, Zenon
  <1>12. throttleTimer' => initialised' /\ Limiter!Enabled' /\ ~flushTimer'
    BY <1>2, <1>3, <1>5
  <1>13. throttleTimer' => reqCurr' >= Limiter!Rate' - 1 + Len(queue')
    BY <1>1, <1>2, <1>3, <1>4, <1>5, <1>6
  <1>14. ~throttleTimer' => queue' = <<>>
    <2> SUFFICES ASSUME ~throttleTimer' PROVE queue' = <<>>
      OBVIOUS
    <2>1. k = Len(queue)
      BY <1>2, <1>5
    <2>2. Len(rest) = 0
      BY <1>1, <1>6, <2>1
    <2> QED
      BY <1>3, <1>6, <2>2, EmptySeq
  <1> QED
    BY <1>7, <1>11, <1>12, <1>13, <1>14 DEF InsideInv, Limiter!NoLossNoOvertaking

\* Every step of the limiter keeps InsideInv.
LEMMA InsideStep == InsideInv /\ [Limiter!Next]_(Limiter!limiterVars) => InsideInv'
  <1> SUFFICES ASSUME InsideInv, [Limiter!Next]_(Limiter!limiterVars) PROVE InsideInv'
    OBVIOUS
  <1>1. CASE Limiter!InitHandler
    <2>1. ~throttleTimer /\ queue = <<>>
      BY <1>1 DEF InsideInv, Limiter!InitHandler
    <2>2. /\ UNCHANGED <<config, reqCurr, queue, throttleTimer, accepted, started, dropped, burst>>
          /\ initialised' = TRUE /\ flushTimer' = Limiter!Enabled
      BY <1>1 DEF Limiter!InitHandler
    <2>3. flushTimer' \in BOOLEAN /\ initialised' \in BOOLEAN
      BY <2>2, Settings, Zenon DEF InsideInv, Limiter!TypeOK
    <2>4. Limiter!TypeOK'
      BY <2>2, <2>3, Zenon DEF InsideInv, Limiter!TypeOK
    <2> QED
      BY <2>1, <2>2, <2>4 DEF InsideInv, Limiter!NoLossNoOvertaking
  <1>2. CASE Limiter!FlushTick
    <2>1. ~throttleTimer /\ queue = <<>>
      BY <1>2 DEF InsideInv, Limiter!FlushTick
    <2>2. /\ reqCurr' = 0 /\ burst' = 0
          /\ UNCHANGED <<config, initialised, queue, flushTimer, throttleTimer, accepted, started,
                         dropped>>
      BY <1>2 DEF Limiter!FlushTick
    <2>3. reqCurr' \in Nat /\ burst' \in Nat
      BY <2>2
    <2>4. Limiter!TypeOK'
      BY <2>2, <2>3, Zenon DEF InsideInv, Limiter!TypeOK
    <2> QED
      BY <2>1, <2>2, <2>4 DEF InsideInv, Limiter!NoLossNoOvertaking
  <1>3. CASE Limiter!Restart
    <2>1. Limiter!TypeOK'
      <3>1. queue' \in Seq(Query) /\ accepted' \in Seq(Query) /\ started' \in Seq(Query)
        BY <1>3, EmptySeq DEF Limiter!Restart
      <3>2. reqCurr' \in Nat /\ dropped' \in Nat /\ burst' \in Nat
        BY <1>3 DEF Limiter!Restart
      <3>3. /\ initialised' \in BOOLEAN /\ flushTimer' \in BOOLEAN /\ throttleTimer' \in BOOLEAN
            /\ config' \in Configs
        BY <1>3, Zenon DEF Limiter!Restart
      <3> QED
        BY <3>1, <3>2, <3>3, Zenon DEF Limiter!TypeOK
    <2>2. ~throttleTimer' /\ queue' = <<>> /\ accepted' = started' \o queue'
      BY <1>3 DEF Limiter!Restart
    <2> QED
      BY <2>1, <2>2 DEF InsideInv, Limiter!NoLossNoOvertaking
  <1>4. CASE UNCHANGED Limiter!limiterVars
    BY <1>4, Zenon DEF Limiter!limiterVars, InsideInv, Limiter!TypeOK, Limiter!NoLossNoOvertaking,
                       Limiter!Rate, Limiter!Enabled
  <1> QED
    BY <1>1, <1>2, <1>3, <1>4, RequestKeepsInside, BatchKeepsInside DEF Limiter!Next

\* The limiter inside the server keeps its order and its types.
LEMMA InsideInvariant == Spec => []InsideInv
  <1>1. Init => InsideInv
    <2> SUFFICES ASSUME Init PROVE InsideInv
      OBVIOUS
    <2>1. Limiter!TypeOK
      <3>1. queue \in Seq(Query) /\ accepted \in Seq(Query) /\ started \in Seq(Query)
        BY EmptySeq DEF Init, Limiter!Init
      <3>2. reqCurr \in Nat /\ dropped \in Nat /\ burst \in Nat
        BY DEF Init, Limiter!Init
      <3>3. initialised \in BOOLEAN /\ flushTimer \in BOOLEAN /\ throttleTimer \in BOOLEAN
        BY Zenon DEF Init, Limiter!Init
      <3> QED
        BY <3>1, <3>2, <3>3, Zenon DEF Init, Limiter!Init, Limiter!TypeOK
    <2>2. ~throttleTimer /\ queue = <<>> /\ accepted = started \o queue
      BY DEF Init, Limiter!Init
    <2> QED
      BY <2>1, <2>2 DEF InsideInv, Limiter!NoLossNoOvertaking
  <1> QED
    BY <1>1, InsideStep, ServerStepsLimiter, HandlerInvariant, PTL DEF Spec

\* Events of one topic are looked up in the order they were posted: they reach the
\* limiter in that order, and it keeps the order of its queries (event_handler.js,
\* _agg_event_process and the limiter's queue).
THEOREM TopicsInOrder == Spec => []TopicOrderKept
  <1>1. HandlerInv /\ InsideInv => TopicOrderKept
    <2> SUFFICES ASSUME HandlerInv, Limiter!NoLossNoOvertaking
                 PROVE  TopicOrderKept
      BY DEF InsideInv
    <2>1. /\ started \in Seq(Query) /\ queue \in Seq(Query) /\ accepted = started \o queue
      BY DEF HandlerInv, Base, Limiter!NoLossNoOvertaking
    <2>2. /\ Len(started) \in Nat /\ Len(queue) \in Nat
          /\ DOMAIN started = 1..Len(started)
          /\ DOMAIN accepted = 1..Len(started) + Len(queue)
          /\ \A i \in 1..Len(started) : accepted[i] = started[i]
      BY <2>1, ConcatProperties
    <2>3. \A i \in DOMAIN started : i \in DOMAIN accepted /\ accepted[i] = started[i]
      BY <2>2
    <2> QED
      BY <2>3 DEF HandlerInv, OrderKept, TopicOrderKept
  <1> QED
    BY <1>1, HandlerInvariant, InsideInvariant, PTL
----------------------------------------------------------------------------
\* What was pushed or mailed is among the events posted.
EndsInv ==
    /\ shown \subseteq Posted /\ mailed \subseteq Posted
    /\ RightAudience

\* No event meant for one user is pushed to all, and none meant for all is
\* mailed to one, in whatever aggregate it travelled (event_handler.js,
\* _handle_database_node_response, _handle_database_agg_nodes_response).
THEOREM RightPeopleTold == Spec => []RightAudience
  <1>1. Init => EndsInv
    BY DEF Init, FreshHandler, EndsInv, RightAudience
  <1>2. HandlerInv /\ EndsInv /\ [Next]_vars => EndsInv'
    <2> SUFFICES ASSUME HandlerInv, EndsInv, [Next]_vars
                 PROVE  EndsInv'
      OBVIOUS
    <2>1. ASSUME NEW e \in Event, Notify(e)
          PROVE  EndsInv'
      <3>1. Len(posted) + 1 \in EventId /\ posted' = Append(posted, e)
               /\ shown' = shown /\ mailed' = mailed
        BY <2>1 DEF Notify, Submit, ends
      <3>2. Posted' = Posted \cup {Len(posted) + 1}
               /\ \A i \in Posted : posted'[i] = posted[i]
        BY <3>1, PostedGrows DEF HandlerInv
      <3> QED
        BY <3>1, <3>2 DEF EndsInv, RightAudience
    <2>2. ASSUME UNCHANGED <<posted, shown, mailed>>
          PROVE  EndsInv'
      BY <2>2 DEF EndsInv, RightAudience, Posted
    <2>3. CASE Reply
      <3>1. PICK q \in inflight, outcome \in {"found", "unknown", "error"} :
                DatabaseReply(q, outcome)
        BY <2>3 DEF Reply
      <3>2. q.events \subseteq Posted /\ \A i \in q.events : posted[i] = q.about
        BY DEF HandlerInv, QueriesUniform, AllQueries, Speaks
      <3>3. posted' = posted /\ Posted' = Posted
        BY <3>1 DEF DatabaseReply, Posted
      <3>4. CASE UNCHANGED <<shown, mailed>>
        BY <2>2, <3>3, <3>4
      <3>5. CASE Dispatch(q)
        BY <3>2, <3>3, <3>5 DEF Dispatch, EndsInv, RightAudience
      <3> QED
        BY <3>1, <3>4, <3>5 DEF DatabaseReply
    <2>4. CASE Restart
      BY <2>4 DEF Restart, EndsInv, RightAudience
    <2>5. \/ \E e \in Event : Notify(e)
          \/ Reply
          \/ Restart
          \/ UNCHANGED <<posted, shown, mailed>>
      BY DEF Next, vars, BadRequest, AggTick, CloseTopic, FlushTopic, Submit, FlushTick,
             ThrottleTick, ends
    <2> QED
      BY <2>1, <2>2, <2>3, <2>4, <2>5
  <1>3. EndsInv => RightAudience
    BY DEF EndsInv
  <1> QED
    BY <1>1, <1>2, <1>3, HandlerInvariant, PTL DEF Spec
----------------------------------------------------------------------------
\* Where event i is collected, sent, waiting, at its end.
InTopics(i) == {t \in DOMAIN aggTopics : i \in aggTopics[t].events}
Sent(i) == {q \in inflight : i \in q.events}
Waiting(i) == {k \in DOMAIN queue : i \in queue[k].events}
Ended(i) == {k \in DOMAIN ends : i \in ends[k]}

One(S) == \E x : S = {x}

\* It is past its topic, in one place.
PastTopic(i) ==
    \/ One(Sent(i)) /\ Waiting(i) = {} /\ Ended(i) = {}
    \/ Sent(i) = {} /\ One(Waiting(i)) /\ Ended(i) = {}
    \/ Sent(i) = {} /\ Waiting(i) = {} /\ One(Ended(i))

BeforeLimiter(i) == Sent(i) = {} /\ Waiting(i) = {} /\ Ended(i) = {}

OnePlace(i) ==
    \/ One(InTopics(i)) /\ BeforeLimiter(i)
    \/ InTopics(i) = {} /\ PastTopic(i)

PlacesInv ==
    /\ \A i \in Posted : OnePlace(i)
    /\ \A i : i \notin Posted => InTopics(i) = {} /\ BeforeLimiter(i)

\* An event with one place has one by the count of the property.
LEMMA OnePlaceCounts ==
    ASSUME NEW i, OnePlace(i)
    PROVE  Places(i) = 1
  <1>1. \A S : One(S) => Cardinality(S) = 1
    BY FS_Singleton DEF One
  <1>2. Cardinality({}) = 0
    BY FS_EmptySet
  <1>3. Places(i) = Cardinality(InTopics(i)) + Cardinality(Sent(i))
                    + Cardinality(Waiting(i)) + Cardinality(Ended(i))
    BY DEF Places, InTopics, Sent, Waiting, Ended
  <1>4. CASE One(InTopics(i)) /\ BeforeLimiter(i)
    <2>1. /\ Cardinality(InTopics(i)) = 1 /\ Cardinality(Sent(i)) = 0
          /\ Cardinality(Waiting(i)) = 0 /\ Cardinality(Ended(i)) = 0
      BY <1>1, <1>2, <1>4 DEF BeforeLimiter
    <2> QED
      BY <1>3, <2>1
  <1>5. CASE InTopics(i) = {} /\ PastTopic(i)
    <2>1. Cardinality(InTopics(i)) = 0
      BY <1>2, <1>5
    <2>2. \/ Cardinality(Sent(i)) = 1 /\ Cardinality(Waiting(i)) = 0 /\ Cardinality(Ended(i)) = 0
          \/ Cardinality(Sent(i)) = 0 /\ Cardinality(Waiting(i)) = 1 /\ Cardinality(Ended(i)) = 0
          \/ Cardinality(Sent(i)) = 0 /\ Cardinality(Waiting(i)) = 0 /\ Cardinality(Ended(i)) = 1
      BY <1>1, <1>2, <1>5 DEF PastTopic
    <2> QED
      BY <1>3, <2>1, <2>2
  <1> QED
    BY <1>4, <1>5 DEF OnePlace

\* The three ends are three places.
LEMMA EndedIs ==
    \A i : Ended(i) = (IF i \in shown THEN {1} ELSE {})
                      \cup (IF i \in mailed THEN {2} ELSE {})
                      \cup (IF i \in lost THEN {3} ELSE {})
  <1>1. DOMAIN ends = {1, 2, 3} /\ ends[1] = shown /\ ends[2] = mailed /\ ends[3] = lost
    BY DEF ends
  <1> QED
    BY <1>1 DEF Ended

\* The limiter takes each event of a query to one place, and leaves the others.
LEMMA SubmitPlaces ==
    ASSUME Base, NEW q \in Query, NEW flush, Submit(q, flush), NEW i
    PROVE  /\ i \notin q.events => /\ Sent(i)' = Sent(i) /\ Waiting(i)' = Waiting(i)
                                   /\ Ended(i)' = Ended(i)
           /\ i \in q.events /\ BeforeLimiter(i) => PastTopic(i)'
  <1>1. /\ queue \in Seq(Query) /\ Len(queue) \in Nat /\ DOMAIN queue = 1..Len(queue)
        /\ started \in Seq(Query) /\ dropped \in Nat
    BY DEF Base
  <1>2. shown' = shown /\ mailed' = mailed
    BY DEF Submit
  <1>3. CASE Limiter!StartNow(q)
    <2>1. started' # started
      <3>1. Len(started) \in Nat /\ Len(started') = Len(started) + 1
        BY <1>1, <1>3, AppendProperties DEF Limiter!StartNow
      <3> QED
        BY <3>1
    <2>2. queue' = queue /\ inflight' = inflight \cup {q} /\ lost' = lost
      BY <1>3, <2>1 DEF Limiter!StartNow, Submit
    <2>3. Waiting(i)' = Waiting(i)
      BY <2>2 DEF Waiting
    <2>4. Ended(i)' = Ended(i)
      BY <1>2, <2>2 DEF Ended, ends
    <2>5. i \notin q.events => Sent(i)' = Sent(i)
      BY <2>2 DEF Sent
    <2>6. i \in q.events /\ Sent(i) = {} => Sent(i)' = {q}
      BY <2>2 DEF Sent
    <2> QED
      BY <2>3, <2>4, <2>5, <2>6 DEF BeforeLimiter, PastTopic, One
  <1>4. CASE Limiter!Drop
    <2>1. /\ queue' = queue /\ inflight' = inflight /\ lost' = lost \cup q.events
      BY <1>1, <1>4 DEF Limiter!Drop, Submit
    <2>2. Waiting(i)' = Waiting(i) /\ Sent(i)' = Sent(i)
      BY <2>1 DEF Waiting, Sent
    <2>3. Ended(i)' = (IF i \in shown THEN {1} ELSE {}) \cup (IF i \in mailed THEN {2} ELSE {})
                      \cup (IF i \in lost \/ i \in q.events THEN {3} ELSE {})
      <3>1. DOMAIN ends' = {1, 2, 3} /\ ends'[1] = shown /\ ends'[2] = mailed
               /\ ends'[3] = lost \cup q.events
        BY <1>2, <2>1 DEF ends
      <3> QED
        BY <3>1 DEF Ended
    <2>4. i \notin q.events => Ended(i)' = Ended(i)
      BY <2>3, EndedIs
    <2>5. i \in q.events /\ Ended(i) = {} => Ended(i)' = {3}
      <3> SUFFICES ASSUME i \in q.events, Ended(i) = {} PROVE Ended(i)' = {3}
        OBVIOUS
      <3>1. i \notin shown /\ i \notin mailed
        BY EndedIs
      <3> QED
        BY <2>3, <3>1
    <2> QED
      BY <2>2, <2>4, <2>5 DEF BeforeLimiter, PastTopic, One
  <1>5. CASE Limiter!Enqueue(q)
    <2>1. queue' = Append(queue, q) /\ inflight' = inflight /\ lost' = lost
      BY <1>5 DEF Limiter!Enqueue, Submit
    <2>2. /\ DOMAIN queue' = 1..(Len(queue) + 1) /\ queue'[Len(queue) + 1] = q
          /\ \A k \in 1..Len(queue) : queue'[k] = queue[k]
      BY <1>1, <2>1, AppendProperties
    <2>3. Sent(i)' = Sent(i)
      BY <2>1 DEF Sent
    <2>4. Ended(i)' = Ended(i)
      BY <1>2, <2>1 DEF Ended, ends
    <2>5. i \notin q.events => Waiting(i)' = Waiting(i)
      BY <1>1, <2>2 DEF Waiting
    <2>6. i \in q.events /\ Waiting(i) = {} => Waiting(i)' = {Len(queue) + 1}
      BY <1>1, <2>2 DEF Waiting
    <2> QED
      BY <2>3, <2>4, <2>5, <2>6 DEF BeforeLimiter, PastTopic, One
  <1> QED
    BY <1>3, <1>4, <1>5 DEF Submit, Limiter!Admit

\* A batch goes from the queue to the database.
LEMMA ThrottlePlaces ==
    ASSUME HandlerInv, ThrottleTick, NEW i, OnePlace(i) \/ BeforeLimiter(i)
    PROVE  /\ InTopics(i)' = InTopics(i)
           /\ BeforeLimiter(i) => BeforeLimiter(i)'
           /\ PastTopic(i) => PastTopic(i)'
  <1>1. PICK B : B = Limiter!BatchSize
    OBVIOUS
  <1>2. /\ queue \in Seq(Query) /\ started \in Seq(Query)
        /\ Len(queue) \in Nat /\ Len(started) \in Nat /\ DOMAIN queue = 1..Len(queue)
    BY DEF HandlerInv, Base
  <1>3. B \in 0..Len(queue)
    <2>1. Limiter!Rate \in Nat
      BY SettingsAssumption DEF HandlerInv, Base, Limiter!Rate
    <2> QED
      BY <1>1, <1>2, <2>1 DEF Limiter!BatchSize
  <1>4. /\ started' = started \o SubSeq(queue, 1, B)
        /\ queue' = SubSeq(queue, B + 1, Len(queue))
        /\ UNCHANGED <<posted, aggTopics, shown, mailed, lost>>
        /\ inflight' = inflight \cup {started'[k] : k \in (Len(started) + 1)..Len(started')}
    BY <1>1 DEF ThrottleTick, Limiter!ThrottleTick, Limiter!WorkOff, ends
  <1>5. /\ DOMAIN queue' = 1..(Len(queue) - B)
        /\ \A k \in 1..(Len(queue) - B) : queue'[k] = queue[k + B]
    BY <1>2, <1>3, <1>4
  <1>6. inflight' = inflight \cup {queue[k] : k \in 1..B}
    <2>1. /\ Len(SubSeq(queue, 1, B)) = B /\ SubSeq(queue, 1, B) \in Seq(Query)
          /\ \A k \in 1..B : SubSeq(queue, 1, B)[k] = queue[k]
      BY <1>2, <1>3
    <2>2. Len(started') = Len(started) + B
             /\ \A k \in 1..B : started'[Len(started) + k] = queue[k]
      BY <1>2, <1>3, <1>4, <2>1
    <2>3. \A x : x \in {started'[k] : k \in (Len(started) + 1)..Len(started')}
                 <=> x \in {queue[k] : k \in 1..B}
      <3> SUFFICES ASSUME NEW x
                   PROVE  (\E k \in (Len(started) + 1)..Len(started') : x = started'[k])
                          <=> \E k \in 1..B : x = queue[k]
        OBVIOUS
      <3>1. ASSUME NEW k \in (Len(started) + 1)..Len(started'), x = started'[k]
            PROVE  \E l \in 1..B : x = queue[l]
        <4>1. k - Len(started) \in 1..B /\ k = Len(started) + (k - Len(started))
          BY <1>2, <1>3, <2>2
        <4> QED
          BY <2>2, <3>1, <4>1
      <3>2. ASSUME NEW l \in 1..B, x = queue[l]
            PROVE  \E k \in (Len(started) + 1)..Len(started') : x = started'[k]
        <4>1. Len(started) + l \in (Len(started) + 1)..Len(started')
          BY <1>2, <1>3, <2>2
        <4> QED
          BY <2>2, <3>2, <4>1
      <3> QED
        BY <3>1, <3>2
    <2> QED
      BY <1>4, <2>3
  <1>7. InTopics(i)' = InTopics(i) /\ Ended(i)' = Ended(i)
    BY <1>4 DEF InTopics, Ended, ends
  <1>8. CASE Waiting(i) = {}
    <2>1. Waiting(i)' = {}
      BY <1>2, <1>3, <1>5, <1>8 DEF Waiting
    <2>2. Sent(i)' = Sent(i)
      BY <1>2, <1>3, <1>6, <1>8 DEF Sent, Waiting
    <2> QED
      BY <1>7, <1>8, <2>1, <2>2 DEF BeforeLimiter, PastTopic
  <1>9. ASSUME One(Waiting(i)), Sent(i) = {}, Ended(i) = {}
        PROVE  PastTopic(i)'
    <2>1. PICK k : Waiting(i) = {k}
      BY <1>9 DEF One
    <2>2. k \in 1..Len(queue) /\ i \in queue[k].events
             /\ \A l \in 1..Len(queue) : i \in queue[l].events => l = k
      BY <1>2, <2>1 DEF Waiting
    <2>3. CASE k <= B
      <3>1. Waiting(i)' = {}
        BY <1>2, <1>3, <1>5, <2>2, <2>3 DEF Waiting
      <3>2. Sent(i)' = {queue[k]}
        <4>1. queue[k] \in Sent(i)'
          BY <1>6, <2>2, <2>3 DEF Sent
        <4>2. ASSUME NEW q \in Sent(i)' PROVE q = queue[k]
          <5>1. q \notin inflight /\ i \in q.events /\ q \in inflight'
            BY <1>9, <4>2 DEF Sent
          <5>2. PICK l \in 1..B : q = queue[l]
            BY <1>6, <5>1
          <5>3. l \in 1..Len(queue)
            BY <1>2, <1>3, <5>2
          <5> QED
            BY <2>2, <5>1, <5>2, <5>3
        <4> QED
          BY <4>1, <4>2
      <3> QED
        BY <1>7, <1>9, <3>1, <3>2 DEF PastTopic, One
    <2>4. CASE k > B
      <3>1. Waiting(i)' = {k - B}
        <4>1. k - B \in 1..(Len(queue) - B) /\ queue'[k - B] = queue[k]
          BY <1>2, <1>3, <1>5, <2>2, <2>4
        <4>2. ASSUME NEW l \in 1..(Len(queue) - B), i \in queue'[l].events PROVE l = k - B
          <5>1. l + B \in 1..Len(queue) /\ queue'[l] = queue[l + B]
            BY <1>2, <1>3, <1>5, <4>2
          <5>2. l + B = k
            BY <2>2, <4>2, <5>1
          <5> QED
            BY <1>2, <1>3, <5>2
        <4> QED
          BY <1>5, <2>2, <4>1, <4>2 DEF Waiting
      <3>2. Sent(i)' = {}
        <4>1. \A l \in 1..B : i \notin queue[l].events
          BY <1>2, <1>3, <2>2, <2>4
        <4> QED
          BY <1>6, <1>9, <4>1 DEF Sent
      <3> QED
        BY <1>7, <1>9, <3>1, <3>2 DEF PastTopic, One
    <2> QED
      BY <1>2, <1>3, <2>2, <2>3, <2>4
  <1> QED
    BY <1>7, <1>8, <1>9 DEF BeforeLimiter, PastTopic, One

\* The reply to a query takes each of its events to one end.
LEMMA ReplyPlaces ==
    ASSUME HandlerInv, NEW q \in inflight, NEW outcome, DatabaseReply(q, outcome),
           outcome \in {"found", "unknown", "error"}, NEW i
    PROVE  /\ InTopics(i)' = InTopics(i)
           /\ BeforeLimiter(i) => BeforeLimiter(i)'
           /\ PastTopic(i) => PastTopic(i)'
  <1>1. inflight' = inflight \ {q} /\ queue' = queue /\ aggTopics' = aggTopics
    BY DEF DatabaseReply
  <1>2. \/ lost' = lost \cup q.events /\ shown' = shown /\ mailed' = mailed
        \/ shown' = shown \cup q.events /\ lost' = lost /\ mailed' = mailed
        \/ mailed' = mailed \cup q.events /\ lost' = lost /\ shown' = shown
    BY DEF DatabaseReply, Dispatch
  <1>3. Ended(i)' = (IF i \in shown' THEN {1} ELSE {}) \cup (IF i \in mailed' THEN {2} ELSE {})
                    \cup (IF i \in lost' THEN {3} ELSE {})
    <2>1. DOMAIN ends' = {1, 2, 3} /\ ends'[1] = shown' /\ ends'[2] = mailed' /\ ends'[3] = lost'
      BY DEF ends
    <2> QED
      BY <2>1 DEF Ended
  <1>4. InTopics(i)' = InTopics(i) /\ Waiting(i)' = Waiting(i)
    BY <1>1 DEF InTopics, Waiting
  <1>5. CASE i \notin q.events
    <2>1. Sent(i)' = Sent(i)
      BY <1>1, <1>5 DEF Sent
    <2>2. Ended(i)' = Ended(i)
      BY <1>2, <1>3, <1>5, EndedIs
    <2> QED
      BY <1>4, <2>1, <2>2 DEF BeforeLimiter, PastTopic
  <1>6. CASE i \in q.events
    <2>1. q \in Sent(i)
      BY <1>6 DEF Sent
    <2>2. ~BeforeLimiter(i)
      BY <2>1 DEF BeforeLimiter
    <2>3. ASSUME PastTopic(i) PROVE PastTopic(i)'
      <3>1. Sent(i) = {q} /\ Waiting(i) = {} /\ Ended(i) = {}
        BY <2>1, <2>3 DEF PastTopic, One
      <3>2. Sent(i)' = {}
        BY <1>1, <3>1 DEF Sent
      <3>3. i \notin shown /\ i \notin mailed /\ i \notin lost
        BY <3>1, EndedIs
      <3>4. Ended(i)' \in {{1}, {2}, {3}}
        BY <1>2, <1>3, <1>6, <3>3
      <3> QED
        BY <1>4, <3>1, <3>2, <3>4 DEF PastTopic, One
    <2> QED
      BY <1>4, <2>2, <2>3
  <1> QED
    BY <1>5, <1>6

\* The topic an event joins is its place, and no other event moves.
LEMMA AggregatePlaces ==
    ASSUME Base, NEW e \in Event, NEW id, Aggregate(e, id)
    PROVE  /\ \A j : j # id => InTopics(j)' = InTopics(j)
           /\ InTopics(id) = {} => One(InTopics(id)')
  <1> DEFINE t == GetAggregateTopic(e)
  <1>1. /\ DOMAIN aggTopics' = DOMAIN aggTopics \cup {t}
        /\ \A k \in DOMAIN aggTopics : k # t => aggTopics'[k] = aggTopics[k]
        /\ t \in DOMAIN aggTopics =>
              aggTopics'[t] = [about |-> aggTopics[t].about,
                               events |-> aggTopics[t].events \cup {id}]
        /\ t \notin DOMAIN aggTopics => aggTopics'[t] = [about |-> e, events |-> {id}]
    BY AggregateEffect
  <1> HIDE DEF t
  <1>2. ASSUME NEW j, j # id PROVE InTopics(j)' = InTopics(j)
    BY <1>1, <1>2 DEF InTopics
  <1>3. ASSUME InTopics(id) = {} PROVE One(InTopics(id)')
    <2>1. InTopics(id)' = {t}
      BY <1>1, <1>3 DEF InTopics
    <2> QED
      BY <2>1 DEF One
  <1> QED
    BY <1>2, <1>3

\* A new event is collected in its topic, or handed to the limiter at once.
LEMMA NotifyPlaces ==
    ASSUME HandlerInv, PlacesInv, NEW e \in Event, Notify(e)
    PROVE  PlacesInv'
  <1>1. PICK id : id = Len(posted) + 1
    OBVIOUS
  <1>2. id \in EventId /\ posted' = Append(posted, e)
    BY <1>1 DEF Notify
  <1>3. Base
    BY DEF HandlerInv
  <1>4. Posted' = Posted \cup {id} /\ id \notin Posted
    BY <1>1, <1>2, <1>3, PostedGrows
  <1>5. InTopics(id) = {} /\ BeforeLimiter(id)
    BY <1>4 DEF PlacesInv
  <1>6. ASSUME config.aggregation, NEW i
        PROVE  /\ i # id => InTopics(i)' = InTopics(i)
               /\ One(InTopics(id)')
               /\ Sent(i)' = Sent(i) /\ Waiting(i)' = Waiting(i) /\ Ended(i)' = Ended(i)
    <2>1. Aggregate(e, id) /\ UNCHANGED <<queue, inflight, ends>>
      BY <1>1, <1>6 DEF Notify
    <2>2. \A j : j # id => InTopics(j)' = InTopics(j)
      BY <1>3, <2>1, AggregatePlaces
    <2>3. One(InTopics(id)')
      BY <1>3, <1>5, <2>1, AggregatePlaces
    <2>4. Sent(i)' = Sent(i) /\ Waiting(i)' = Waiting(i) /\ Ended(i)' = Ended(i)
      BY <2>1 DEF Sent, Waiting, Ended, ends
    <2> QED
      BY <2>2, <2>3, <2>4
  <1>7. ASSUME ~config.aggregation, NEW i
        PROVE  /\ InTopics(i)' = InTopics(i)
               /\ i # id => /\ Sent(i)' = Sent(i) /\ Waiting(i)' = Waiting(i)
                            /\ Ended(i)' = Ended(i)
               /\ i = id => PastTopic(i)'
    <2>1. PICK q : q = [about |-> e, events |-> {id}]
      OBVIOUS
    <2>2. PICK flush : flush = Limiter!FlushAfterInit
      OBVIOUS
    <2>3. Submit(q, flush) /\ aggTopics' = aggTopics
      BY <1>1, <1>7, <2>1, <2>2 DEF Notify
    <2>4. q \in Query /\ q.events = {id}
      <3>1. {id} \in (SUBSET EventId) \ {{}}
        BY <1>2
      <3> QED
        BY <2>1, <3>1 DEF Query
    <2>5. InTopics(i)' = InTopics(i)
      BY <2>3 DEF InTopics
    <2> QED
      BY <1>3, <1>5, <2>3, <2>4, <2>5, SubmitPlaces
  <1>8. ASSUME NEW i
        PROVE  (i \in Posted' => OnePlace(i)')
               /\ (i \notin Posted' => InTopics(i)' = {} /\ BeforeLimiter(i)')
    <2>1. CASE i = id
      <3>1. CASE config.aggregation
        <4>1. One(InTopics(i)') /\ BeforeLimiter(i)'
          BY <1>5, <1>6, <2>1, <3>1 DEF BeforeLimiter
        <4> QED
          BY <1>4, <2>1, <4>1 DEF OnePlace
      <3>2. CASE ~config.aggregation
        <4>1. InTopics(i)' = {} /\ PastTopic(i)'
          BY <1>5, <1>7, <2>1, <3>2
        <4> QED
          BY <1>4, <2>1, <4>1 DEF OnePlace
      <3> QED
        BY <3>1, <3>2
    <2>2. CASE i # id
      <3>1. /\ InTopics(i)' = InTopics(i)
            /\ Sent(i)' = Sent(i) /\ Waiting(i)' = Waiting(i) /\ Ended(i)' = Ended(i)
        BY <1>6, <1>7, <2>2
      <3>2. i \in Posted' <=> i \in Posted
        BY <1>4, <2>2
      <3> QED
        BY <3>1, <3>2 DEF PlacesInv, OnePlace, PastTopic, BeforeLimiter
    <2> QED
      BY <2>1, <2>2
  <1> QED
    BY <1>8 DEF PlacesInv

\* The events of a topic leave it for one place of the limiter.
LEMMA FlushPlaces ==
    ASSUME HandlerInv, PlacesInv, NEW t \in DOMAIN aggTopics, FlushTopic(t)
    PROVE  PlacesInv'
  <1>1. PICK q : q = TopicQuery(t)
    OBVIOUS
  <1>2. aggTopics[t].events # {} /\ Submit(q, flushTimer)
        /\ aggTopics' = [aggTopics EXCEPT ![t].events = {}] /\ posted' = posted
    BY <1>1 DEF FlushTopic
  <1>3. q \in Query /\ q.events = aggTopics[t].events
    BY <1>1, <1>2, TopicQuerySpeaks
  <1>4. /\ DOMAIN aggTopics' = DOMAIN aggTopics /\ aggTopics'[t].events = {}
        /\ \A k \in DOMAIN aggTopics : k # t => aggTopics'[k] = aggTopics[k]
    <2>1. aggTopics[t] \in [about : Event, events : SUBSET Posted]
      BY DEF HandlerInv, Base
    <2> QED
      BY <1>2, <2>1
  <1>5. ASSUME NEW i
        PROVE  (i \in Posted' => OnePlace(i)')
               /\ (i \notin Posted' => InTopics(i)' = {} /\ BeforeLimiter(i)')
    <2>1. InTopics(i)' = InTopics(i) \ {t}
      BY <1>4 DEF InTopics
    <2>2. PICK flush : flush = flushTimer
      OBVIOUS
    <2>3. /\ i \notin q.events => /\ Sent(i)' = Sent(i) /\ Waiting(i)' = Waiting(i)
                                  /\ Ended(i)' = Ended(i)
          /\ i \in q.events /\ BeforeLimiter(i) => PastTopic(i)'
      BY <1>2, <1>3, <2>2, SubmitPlaces DEF HandlerInv
    <2>4. i \in Posted' <=> i \in Posted
      BY <1>2 DEF Posted
    <2>5. CASE i \in q.events
      <3>1. t \in InTopics(i)
        BY <1>3, <2>5 DEF InTopics
      <3>2. i \in Posted /\ InTopics(i) = {t} /\ BeforeLimiter(i)
        BY <3>1 DEF PlacesInv, OnePlace, One
      <3>3. InTopics(i)' = {}
        BY <2>1, <3>2
      <3> QED
        BY <2>3, <2>4, <2>5, <3>2, <3>3 DEF OnePlace
    <2>6. CASE i \notin q.events
      <3>1. t \notin InTopics(i)
        BY <1>3, <2>6 DEF InTopics
      <3>2. InTopics(i)' = InTopics(i)
        BY <2>1, <3>1
      <3> QED
        BY <2>3, <2>4, <2>6, <3>2 DEF PlacesInv, OnePlace, PastTopic, BeforeLimiter
    <2> QED
      BY <2>5, <2>6
  <1> QED
    BY <1>5 DEF PlacesInv

\* An event that stays in its topic, or is past it, is still in one place.
LEMMA KeptPlaces ==
    ASSUME PlacesInv, posted' = posted,
           \A i : OnePlace(i) \/ BeforeLimiter(i) =>
                      /\ InTopics(i)' = InTopics(i)
                      /\ BeforeLimiter(i) => BeforeLimiter(i)'
                      /\ PastTopic(i) => PastTopic(i)'
    PROVE  PlacesInv'
  <1>1. Posted' = Posted
    BY DEF Posted
  <1>2. ASSUME NEW i
        PROVE  (i \in Posted' => OnePlace(i)')
               /\ (i \notin Posted' => InTopics(i)' = {} /\ BeforeLimiter(i)')
    BY <1>1 DEF PlacesInv, OnePlace
  <1> QED
    BY <1>2 DEF PlacesInv

\* A step that moves no event keeps the places.
LEMMA UnmovedPlaces ==
    ASSUME PlacesInv, UNCHANGED <<posted, queue, inflight, ends>>,
           \A i : InTopics(i)' = InTopics(i)
    PROVE  PlacesInv'
  <1>1. ASSUME NEW i
        PROVE  /\ InTopics(i)' = InTopics(i)
               /\ BeforeLimiter(i) => BeforeLimiter(i)'
               /\ PastTopic(i) => PastTopic(i)'
    BY DEF BeforeLimiter, PastTopic, Sent, Waiting, Ended, ends
  <1> QED
    BY <1>1, KeptPlaces

Nowhere == FreshHandler /\ queue = <<>>

\* After a start nothing has a place.
LEMMA FreshPlaces == Nowhere => PlacesInv
  <1> SUFFICES ASSUME Nowhere PROVE PlacesInv
    OBVIOUS
  <1>1. Posted = {} /\ DOMAIN queue = {} /\ inflight = {} /\ DOMAIN aggTopics = {}
    BY DEF Nowhere, FreshHandler, Posted, NoTopics
  <1>2. ASSUME NEW i PROVE InTopics(i) = {} /\ BeforeLimiter(i)
    <2>1. Ended(i) = {}
      BY EndedIs DEF Nowhere, FreshHandler
    <2>2. InTopics(i) = {} /\ Sent(i) = {} /\ Waiting(i) = {}
      BY <1>1 DEF InTopics, Sent, Waiting
    <2> QED
      BY <2>1, <2>2 DEF BeforeLimiter
  <1> QED
    BY <1>1, <1>2 DEF PlacesInv

\* Every callback moves an event from one place to one other.
LEMMA PlacesStep ==
    ASSUME HandlerInv, PlacesInv, [Next]_vars
    PROVE  PlacesInv'
  <1>1. ASSUME NEW e \in Event, Notify(e) PROVE PlacesInv'
    BY <1>1, NotifyPlaces
  <1>2. ASSUME NEW t \in DOMAIN aggTopics, CloseTopic(t) PROVE PlacesInv'
    <2>1. ASSUME NEW i PROVE InTopics(i)' = InTopics(i)
      BY <1>2 DEF CloseTopic, Restrict, InTopics
    <2> QED
      BY <1>2, <2>1, UnmovedPlaces DEF CloseTopic
  <1>3. ASSUME NEW t \in DOMAIN aggTopics, FlushTopic(t) PROVE PlacesInv'
    BY <1>3, FlushPlaces
  <1>4. CASE ThrottleTick
    <2>1. posted' = posted
      BY <1>4 DEF ThrottleTick
    <2> QED
      BY <1>4, <2>1, ThrottlePlaces, KeptPlaces
  <1>5. CASE Reply
    <2>1. PICK q \in inflight, outcome \in {"found", "unknown", "error"} :
              DatabaseReply(q, outcome)
      BY <1>5 DEF Reply
    <2>2. posted' = posted
      BY <2>1 DEF DatabaseReply
    <2> QED
      BY <2>1, <2>2, ReplyPlaces, KeptPlaces
  <1>6. CASE Restart
    <2>1. Nowhere'
      BY <1>6 DEF Restart, Limiter!Restart, Nowhere, FreshHandler, NoTopics
    <2>2. Nowhere' => PlacesInv'
      BY FreshPlaces, PTL
    <2> QED
      BY <2>1, <2>2
  <1>7. CASE BadRequest \/ FlushTick \/ UNCHANGED vars
    <2>1. UNCHANGED <<posted, queue, inflight, ends, aggTopics>>
      BY <1>7 DEF BadRequest, Limiter!InitHandler, FlushTick, Limiter!FlushTick, vars, ends
    <2>2. ASSUME NEW i PROVE InTopics(i)' = InTopics(i)
      BY <2>1 DEF InTopics
    <2> QED
      BY <2>1, <2>2, UnmovedPlaces
  <1> QED
    BY <1>1, <1>2, <1>3, <1>4, <1>5, <1>6, <1>7 DEF Next, AggTick

\* An event posted is in one place, and one not posted yet is in none.
LEMMA PlacesInvariant == Spec => []PlacesInv
  <1>1. Init => PlacesInv
    <2>1. Init => Nowhere
      BY DEF Init, Limiter!Init, Nowhere
    <2> QED
      BY <2>1, FreshPlaces
  <1>2. HandlerInv /\ PlacesInv /\ [Next]_vars => PlacesInv'
    BY PlacesStep
  <1> QED
    BY <1>1, <1>2, HandlerInvariant, PTL DEF Spec

\* An event is at every moment in exactly one place: no mix of topic intervals,
\* limiter callbacks, batches and database replies forgets one or notifies one
\* twice (event_handler.js, from _aggregate_event to the database callbacks).
THEOREM EachEventPlaced == Spec => []EachEventInOnePlace
  <1>1. PlacesInv => EachEventInOnePlace
    BY OnePlaceCounts DEF PlacesInv, EachEventInOnePlace
  <1> QED
    BY <1>1, PlacesInvariant, PTL

\* The types of EventHandler's state: what has come to an end was posted, since
\* what was not is nowhere.
THEOREM HandlerTypes == Spec => []TypeOK
  <1>1. HandlerInv /\ InsideInv /\ PlacesInv => TypeOK
    <2> SUFFICES ASSUME HandlerInv, InsideInv, PlacesInv PROVE TypeOK
      OBVIOUS
    <2>1. ASSUME NEW i, i \in shown \cup mailed \cup lost PROVE i \in Posted
      <3>1. DOMAIN ends = 1..3 /\ ends[1] = shown /\ ends[2] = mailed /\ ends[3] = lost
        BY DEF ends
      <3>2. Ended(i) # {}
        BY <2>1, <3>1 DEF Ended
      <3> QED
        BY <3>2 DEF PlacesInv, BeforeLimiter
    <2> QED
      BY <2>1 DEF TypeOK, HandlerInv, Base, InsideInv
  <1>2. Spec => []PlacesInv
    BY PlacesInvariant
  <1> QED
    BY <1>1, <1>2, HandlerInvariant, InsideInvariant, PTL
====
