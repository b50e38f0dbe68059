---- MODULE StatusService_proofs ----
(***************************************************************************)
(* Theorems about StatusService, for any number of goroutines, hosts and   *)
(* sources, any ttl and any timeout.  Five inductive invariants:           *)
(*                                                                         *)
(* TimeInv: a query is under way for at most Timeout, since the clock      *)
(* stands still for a call that may not wait any longer.  So a state is at *)
(* most Timeout old when it is put, and so is the state it replaces newer  *)
(* than it by at most Timeout.                                             *)
(*                                                                         *)
(* TypeInv: the records of the calls, and at which stage which of their    *)
(* fields are in use.                                                      *)
(*                                                                         *)
(* AgeInv: the states of the sources that answered grow older by at most   *)
(* one timeout with each query the call makes.                             *)
(*                                                                         *)
(* LatestInv: what a call is to show and does not show yet is still to     *)
(* come from the source it is at.                                          *)
(*                                                                         *)
(* CountInv: what a call shows of its source for a host and what is still  *)
(* to come are together no more than it was asked for.                     *)
(***************************************************************************)
EXTENDS StatusService, DataLemmas, SequenceTheorems, TLAPS

\* r has the fields of a call that tell how its query stands.
IsCall(r) == {"pc", "sent", "seen"} \subseteq DOMAIN r

\* At time t: the query of r has not been out for longer than the timeout, and
\* the source read its states while it was out.
QueryInTime(r, t) ==
    /\ r.sent \in Nat
    /\ r.seen \in Nat
    /\ r.pc \in {"sent", "read", "put"} => r.sent <= t /\ t <= r.sent + Timeout
    /\ r.pc \in {"read", "put"} => r.sent <= r.seen /\ r.seen <= t

RecordInTime(rec, t) ==
    /\ rec.seen \in Nat
    /\ rec.time \in Nat
    /\ rec.seen <= t
    /\ rec.time <= rec.seen + Timeout

\* The inductive invariant.
TimeInv ==
    /\ now \in Nat
    /\ call = [c \in Caller |-> call[c]]
    /\ \A c \in Caller : IsCall(call[c]) /\ QueryInTime(call[c], now)
    /\ \A k \in DOMAIN cache : RecordInTime(cache[k], now)

\* Between two queries and at a call's end no query is out.
LEMMA AtSourceInTime ==
    ASSUME NEW r, IsCall(r), NEW i, NEW t
    PROVE  IsCall(AtSource(r, i)) /\ QueryInTime(AtSource(r, i), t)
BY DEF IsCall, AtSource, QueryInTime

\* The same for the step after a query.
LEMMA AfterFetchInTime ==
    ASSUME NEW r, IsCall(r), NEW t
    PROVE  IsCall(AfterFetch(r)) /\ QueryInTime(AfterFetch(r), t)
<1>1. CASE r.asking = "expired"
    BY <1>1 DEF IsCall, AfterFetch, QueryInTime
<1>2. CASE r.asking # "expired"
    BY <1>2, AtSourceInTime DEF AfterFetch
<1> QED BY <1>1, <1>2

\* A step of one call that leaves it in time, with the clock standing still.
LEMMA OneCallSteps ==
    ASSUME TimeInv, NEW c \in Caller, NEW r, IsCall(r), QueryInTime(r, now),
           call' = [call EXCEPT ![c] = r], now' = now,
           \A k \in DOMAIN cache' : RecordInTime(cache'[k], now)
    PROVE  TimeInv'
<1>1. call' = [d \in Caller |-> IF d = c THEN r ELSE call[d]]
    BY DEF TimeInv
<1>2. call' = [d \in Caller |-> call'[d]]
    BY <1>1
<1>3. ASSUME NEW d \in Caller
      PROVE  IsCall(call'[d]) /\ QueryInTime(call'[d], now)
    BY <1>1 DEF TimeInv
<1> QED BY <1>2, <1>3 DEF TimeInv

\* Reading the cache changes nothing about a query, and none is out.
LEMMA LookUpKeeps == ASSUME TimeInv, NEW c \in Caller, LookUp(c) PROVE TimeInv'
<1> DEFINE r == call[c]
           h == Head(r.todo)
           k == <<Source(r), h>>
           s == [r EXCEPT !.todo = Tail(r.todo)]
<1>1. IsCall(r) /\ QueryInTime(r, now) /\ r.pc = "lookup"
    BY DEF TimeInv, LookUp
<1>2. now' = now /\ \A x \in DOMAIN cache' : RecordInTime(cache'[x], now)
    BY DEF LookUp, TimeInv
<1>3. CASE call' = [call EXCEPT ![c].pc = "fetch"]
    <2> DEFINE q == [r EXCEPT !.pc = "fetch"]
    <2>1. IsCall(q) /\ QueryInTime(q, now)
        BY <1>1 DEF IsCall, QueryInTime
    <2> QED BY <1>2, <1>3, <2>1, OneCallSteps
<1>4. CASE call' = [call EXCEPT ![c] = [s EXCEPT !.missed = Append(@, h)]]
    <2>1. /\ IsCall([s EXCEPT !.missed = Append(@, h)])
          /\ QueryInTime([s EXCEPT !.missed = Append(@, h)], now)
        BY <1>1 DEF IsCall, QueryInTime
    <2> QED BY <1>2, <1>4, <2>1, OneCallSteps
<1>5. CASE call' = [call EXCEPT ![c] =
                       [s EXCEPT !.expired = Append(@, [host |-> h, seen |-> cache[k].seen])]]
    <2> DEFINE q == [s EXCEPT !.expired = Append(@, [host |-> h, seen |-> cache[k].seen])]
    <2>1. IsCall(q) /\ QueryInTime(q, now)
        BY <1>1 DEF IsCall, QueryInTime
    <2> QED BY <1>2, <1>5, <2>1, OneCallSteps
<1>6. CASE call' = [call EXCEPT ![c] =
                       [s EXCEPT !.m = AddState(@, Source(r), h, cache[k].seen)]]
    <2> DEFINE q == [s EXCEPT !.m = AddState(@, Source(r), h, cache[k].seen)]
    <2>1. IsCall(q) /\ QueryInTime(q, now)
        BY <1>1 DEF IsCall, QueryInTime
    <2> QED BY <1>2, <1>6, <2>1, OneCallSteps
<1> QED BY <1>3, <1>4, <1>5, <1>6 DEF LookUp

\* A query is out from now on.
LEMMA FetchKeeps == ASSUME TimeInv, NEW c \in Caller, Fetch(c) PROVE TimeInv'
<1> DEFINE r == call[c]
           q == [r EXCEPT !.pc = "sent", !.sent = now]
<1>1. IsCall(r) /\ QueryInTime(r, now) /\ now \in Nat
    BY DEF TimeInv
<1>2. IsCall(q) /\ QueryInTime(q, now)
    BY <1>1, TimesAssumption DEF IsCall, QueryInTime
<1>3. IsCall(AfterFetch(r)) /\ QueryInTime(AfterFetch(r), now)
    BY <1>1, AfterFetchInTime
<1>4. call' = [call EXCEPT ![c] = AfterFetch(r)] \/ call' = [call EXCEPT ![c] = q]
    BY DEF Fetch
<1>5. now' = now /\ \A x \in DOMAIN cache' : RecordInTime(cache'[x], now)
    BY DEF Fetch, TimeInv
<1> QED BY <1>2, <1>3, <1>4, <1>5, OneCallSteps

\* The source reads while the query is out.
LEMMA SourceReadsKeeps ==
    ASSUME TimeInv, NEW c \in Caller, NEW known, SourceReads(c, known) PROVE TimeInv'
<1> DEFINE r == call[c]
           q == [r EXCEPT !.pc = "read", !.answer = known, !.seen = now,
                          !.denied = @ \cup ({Source(r)} \X (Asked(r) \ known))]
<1>1. IsCall(r) /\ QueryInTime(r, now) /\ now \in Nat /\ r.pc = "sent"
    BY DEF TimeInv, SourceReads
<1>2. IsCall(q) /\ QueryInTime(q, now)
    BY <1>1 DEF IsCall, QueryInTime
<1>3. call' = [call EXCEPT ![c] = q]
    BY DEF SourceReads
<1>4. now' = now /\ \A x \in DOMAIN cache' : RecordInTime(cache'[x], now)
    BY DEF SourceReads, TimeInv
<1> QED BY <1>2, <1>3, <1>4, OneCallSteps

\* A failed query is over.
LEMMA QueryFailsKeeps == ASSUME TimeInv, NEW c \in Caller, QueryFails(c) PROVE TimeInv'
<1> DEFINE r == call[c]
           q == [r EXCEPT !.failed = @ \cup {Source(r)},
                          !.m = IF r.asking = "expired" THEN Fallback(r) ELSE @]
<1>1. IsCall(q)
    BY DEF TimeInv, IsCall
<1>2. IsCall(AfterFetch(q)) /\ QueryInTime(AfterFetch(q), now)
    BY <1>1, AfterFetchInTime
<1>3. call' = [call EXCEPT ![c] = AfterFetch(q)]
    BY DEF QueryFails
<1>4. now' = now /\ \A x \in DOMAIN cache' : RecordInTime(cache'[x], now)
    BY DEF QueryFails, TimeInv
<1> QED BY <1>2, <1>3, <1>4, OneCallSteps

\* A state that is put was seen while its query was out.
LEMMA PutKeeps == ASSUME TimeInv, NEW c \in Caller, Put(c) PROVE TimeInv'
<1> DEFINE r == call[c]
<1>1. IsCall(r) /\ QueryInTime(r, now) /\ r.pc \in {"read", "put"} /\ now' = now /\ now \in Nat
    BY DEF TimeInv, Put
<1>2. CASE r.answer = {} /\ call' = [call EXCEPT ![c] = AfterFetch([r EXCEPT !.m = Merged(r)])]
           /\ UNCHANGED cache
    <2>1. IsCall([r EXCEPT !.m = Merged(r)])
        BY <1>1 DEF IsCall
    <2>2. \A x \in DOMAIN cache' : RecordInTime(cache'[x], now)
        BY <1>2 DEF TimeInv
    <2> QED BY <1>1, <1>2, <2>1, <2>2, AfterFetchInTime, OneCallSteps
<1>3. ASSUME NEW h \in r.answer,
             AddUpdate(<<Source(r), h>>, r.seen),
             call' = [call EXCEPT ![c].pc = "put",
                                  ![c].answer = @ \ {h},
                                  ![c].m = AddState(@, Source(r), h, r.seen)]
      PROVE  TimeInv'
    <2> DEFINE q == [r EXCEPT !.pc = "put", !.answer = @ \ {h},
                              !.m = AddState(@, Source(r), h, r.seen)]
    <2>1. IsCall(q) /\ QueryInTime(q, now)
        BY <1>1 DEF IsCall, QueryInTime
    <2>2. call' = [call EXCEPT ![c] = q]
        BY <1>3
    <2>3. RecordInTime([seen |-> r.seen, time |-> now], now)
        BY <1>1, TimesAssumption DEF QueryInTime, RecordInTime
    <2>4. \A x \in DOMAIN cache' : RecordInTime(cache'[x], now)
        BY <1>3, <2>3 DEF AddUpdate, TimeInv
    <2> QED BY <1>1, <2>1, <2>2, <2>4, OneCallSteps
<1> QED BY <1>2, <1>3 DEF Put

\* A new call has no query out.
LEMMA BeginKeeps ==
    ASSUME TimeInv, NEW c \in Caller, NEW names, Begin(c, names) PROVE TimeInv'
<1> DEFINE q == [Idle EXCEPT !.names = names,
                             !.held = {k \in DOMAIN cache : k[2] \in ToSet(names)}]
<1>1. IsCall(q)
    BY DEF IsCall, Idle
<1>2. IsCall(AtSource(q, 1)) /\ QueryInTime(AtSource(q, 1), now)
    BY <1>1, AtSourceInTime
<1>3. call' = [call EXCEPT ![c] = AtSource(q, 1)]
    BY DEF Begin
<1>4. now' = now /\ \A x \in DOMAIN cache' : RecordInTime(cache'[x], now)
    BY DEF Begin, TimeInv
<1> QED BY <1>2, <1>3, <1>4, OneCallSteps

\* An idle goroutine has no query out.
LEMMA IdleInTime == ASSUME NEW t PROVE IsCall(Idle) /\ QueryInTime(Idle, t)
BY DEF Idle, IsCall, QueryInTime

\* A call that ends leaves every other query as it is.
LEMMA ReturnKeeps == ASSUME TimeInv, NEW c \in Caller, Return(c) PROVE TimeInv'
<1>1. call' = [call EXCEPT ![c] = Idle]
    BY DEF Return
<1>2. now' = now /\ \A x \in DOMAIN cache' : RecordInTime(cache'[x], now)
    BY DEF Return, TimeInv
<1> QED BY <1>1, <1>2, IdleInTime, OneCallSteps

\* The clock moves on only while every query may still wait.
LEMMA TickKeeps == ASSUME TimeInv, Tick PROVE TimeInv'
<1>1. now \in Nat /\ now' = now + 1 /\ call' = call /\ cache' = cache
    BY DEF TimeInv, Tick
<1>2. ASSUME NEW c \in Caller
      PROVE  IsCall(call[c]) /\ QueryInTime(call[c], now + 1)
    <2>1. IsCall(call[c]) /\ QueryInTime(call[c], now) /\ MayWait(c)
        BY DEF TimeInv, Tick
    <2>2. CASE call[c].pc = "idle"
        BY <2>1, <2>2 DEF QueryInTime
    <2>3. CASE call[c].pc \in {"sent", "read"} /\ now < call[c].sent + Timeout
        BY <1>1, <2>1, <2>3, TimesAssumption DEF QueryInTime
    <2> QED BY <2>1, <2>2, <2>3 DEF MayWait
<1>3. ASSUME NEW k \in DOMAIN cache
      PROVE  RecordInTime(cache[k], now + 1)
    BY <1>1 DEF TimeInv, RecordInTime
<1> QED BY <1>1, <1>2, <1>3 DEF TimeInv

\* At the start no query is under way and nothing is cached.
LEMMA InitInTime == Init => TimeInv
<1> SUFFICES ASSUME Init PROVE TimeInv
    OBVIOUS
<1>1. \A c \in Caller : IsCall(call[c]) /\ QueryInTime(call[c], now)
    BY IdleInTime DEF Init
<1> QED BY <1>1 DEF Init, TimeInv

\* Every step keeps TimeInv.
LEMMA NextKeepsTime == TimeInv /\ [Next]_vars => TimeInv'
<1> SUFFICES ASSUME TimeInv, [Next]_vars PROVE TimeInv'
    OBVIOUS
<1>1. CASE AddSourceWaits
    BY <1>1 DEF AddSourceWaits, TimeInv
<1>2. CASE AddSource
    BY <1>2 DEF AddSource, TimeInv
<1>3. CASE GetNodeById
    BY <1>3, BeginKeeps DEF GetNodeById, Caller
<1>4. CASE GetAllNodes
    BY <1>4, BeginKeeps DEF GetAllNodes, Caller
<1>5. ASSUME NEW c \in Caller, Goes(c) PROVE TimeInv'
    BY <1>5, LookUpKeeps, FetchKeeps, SourceReadsKeeps, QueryFailsKeeps, PutKeeps, ReturnKeeps
    DEF Goes
<1>6. CASE Tick
    BY <1>6, TickKeeps
<1>7. CASE UNCHANGED vars
    BY <1>7 DEF vars, TimeInv
<1> QED BY <1>1, <1>2, <1>3, <1>4, <1>5, <1>6, <1>7 DEF Next

\* No query outlasts its timeout, and no record of the cache is stamped later than
\* its state was seen by more than the timeout.
THEOREM TimesInvariant == Spec => []TimeInv
BY InitInTime, NextKeepsTime, PTL DEF Spec

\* A cached state's time stamp flatters it by at most the timeout of a query,
\* whichever calls wrote to the cache in whichever order.
THEOREM StampsHonest == Spec => []StampHonest
<1>1. TimeInv => StampHonest
    BY DEF TimeInv, StampHonest, RecordInTime
<1> QED BY <1>1, TimesInvariant, PTL

\* No step of any call puts a cached state back by more than the timeout, or
\* loses it.
THEOREM CacheGoesBack == Spec => CacheGoesBackAtMostTimeout
<1> DEFINE Kept == \A k \in DOMAIN cache :
                      k \in DOMAIN cache' /\ cache'[k].seen + Timeout >= cache[k].seen
<1>1. ASSUME TimeInv, [Next]_vars PROVE Kept
    <2>1. now \in Nat /\ Timeout \in Nat
          /\ \A k \in DOMAIN cache : cache[k].seen \in Nat /\ cache[k].seen <= now
        BY <1>1, TimesAssumption DEF TimeInv, RecordInTime
    <2>2. CASE UNCHANGED cache
        BY <2>1, <2>2
    <2>3. ASSUME NEW c \in Caller, NEW h, AddUpdate(<<Source(call[c]), h>>, call[c].seen),
                 call[c].pc \in {"read", "put"}
          PROVE  Kept
        <3>1. call[c].seen \in Nat /\ now <= call[c].seen + Timeout
            BY <1>1, <2>1, <2>3 DEF TimeInv, QueryInTime
        <3>2. \A k \in DOMAIN cache : cache'[k].seen \in {cache[k].seen, call[c].seen}
            BY <2>3 DEF AddUpdate
        <3>3. DOMAIN cache \subseteq DOMAIN cache'
            BY <2>3 DEF AddUpdate
        <3> QED BY <2>1, <3>1, <3>2, <3>3
    <2>4. ASSUME NEW c \in Caller, Put(c) PROVE Kept
        BY <2>2, <2>3, <2>4 DEF Put
    <2>5. ASSUME NEW c \in Caller, Goes(c) PROVE Kept
        <3>1. Put(c) \/ UNCHANGED cache
            BY <2>5 DEF Goes, LookUp, Fetch, SourceReads, QueryFails, Return
        <3> QED BY <2>2, <2>4, <3>1
    <2>6. CASE AddSourceWaits \/ AddSource \/ GetNodeById \/ GetAllNodes \/ Tick
          \/ UNCHANGED vars
        <3>1. UNCHANGED cache
            BY <2>6 DEF AddSourceWaits, AddSource, GetNodeById, GetAllNodes, Begin, Tick, vars
        <3> QED BY <2>2, <3>1
    <2> QED BY <1>1, <2>5, <2>6 DEF Next
<1> QED BY <1>1, TimesInvariant, PTL DEF Spec, CacheGoesBackAtMostTimeout
----------------------------------------------------------------------------
(* Types *)

Expiry == [host : Host, seen : Nat]

Results == [Host -> Seq(State)]

CallRecord ==
    [pc : {"idle", "lookup", "fetch", "sent", "read", "put", "replied"},
     names : Seq(Host), src : Nat, todo : Seq(Host), missed : Seq(Host),
     expired : Seq(Expiry), asking : {"expired", "missed"}, sent : Nat,
     answer : SUBSET Host, seen : Nat, m : Results,
     failed : SUBSET ToSet(Sources), held : SUBSET (ToSet(Sources) \X Host),
     denied : SUBSET (ToSet(Sources) \X Host)]

\* How far the call r has come at time t: a call under way is at a source.
Stage(r, t) ==
    /\ r.pc = "idle" => r.src = 0 /\ r.names = <<>>
    /\ r.pc \notin {"idle", "replied"} => r.src \in DOMAIN Sources
    /\ r.pc = "replied" => r.src = Len(Sources) + 1 /\ r.asking = "expired"
    /\ r.pc = "lookup" => r.asking = "expired"
    /\ r.pc \notin {"idle", "lookup", "replied"} => r.todo = <<>>
    /\ r.answer \subseteq Asked(r)
    /\ r.sent <= t
    /\ r.seen <= t

\* The sources added so far are the first ones of main's; AddSource has one left.
SourcesInv ==
    /\ sources \in Seq(STRING)
    /\ Len(sources) <= Len(Sources)
    /\ \A i \in DOMAIN sources : sources[i] = Sources[i]
    /\ adding \in BOOLEAN
    /\ adding => Len(sources) < Len(Sources)

CacheInv ==
    /\ DOMAIN cache \subseteq ToSet(sources) \X Host
    /\ \A k \in DOMAIN cache : cache[k] \in [seen : 0..now, time : 0..now]

\* A call is under way only when all sources have been added.
CallsInv ==
    /\ call \in [Caller -> CallRecord]
    /\ \A c \in Caller : Stage(call[c], now)
    /\ \A c \in Caller : call[c].pc # "idle" => sources = Sources

TypeInv ==
    /\ now \in 0..MaxTime
    /\ SourcesInv
    /\ CacheInv
    /\ CallsInv

\* The names of a query are names of hosts.
LEMMA AskedOfHosts == ASSUME NEW r \in CallRecord PROVE Asked(r) \in SUBSET Host
<1>1. r.missed \in Seq(Host) /\ r.expired \in Seq(Expiry)
    BY DEF CallRecord
<1>2. \A i \in DOMAIN r.missed : r.missed[i] \in Host
    BY <1>1, ElementIn
<1>3. \A i \in DOMAIN r.expired : r.expired[i] \in Expiry
    BY <1>1, ElementIn
<1> QED BY <1>2, <1>3 DEF Asked, ToSet, Expiry

\* The source of a call under way.
LEMMA SourceOfCall ==
    ASSUME sources = Sources, NEW r, r.src \in DOMAIN Sources
    PROVE  Source(r) = Sources[r.src] /\ Source(r) \in ToSet(Sources)
BY DEF Source, ToSet

\* AddState changes the list of one host: it appends the state.
LEMMA AddStateTyped ==
    ASSUME NEW m \in Results, NEW s \in ToSet(Sources), NEW h \in Host, NEW t \in Nat
    PROVE  /\ AddState(m, s, h, t) \in Results
           /\ AddState(m, s, h, t)[h] = Append(m[h], [source |-> s, seen |-> t])
           /\ \A g \in Host \ {h} : AddState(m, s, h, t)[g] = m[g]
<1>1. [source |-> s, seen |-> t] \in State
    BY DEF State
<1>2. Append(m[h], [source |-> s, seen |-> t]) \in Seq(State)
    BY <1>1 DEF Results
<1> QED BY <1>2 DEF AddState, Results

\* The expired states of a call, one by one.
LEMMA ExpiredTyped ==
    ASSUME NEW r \in CallRecord
    PROVE  /\ IsFiniteSet(DOMAIN r.expired)
           /\ \A i \in DOMAIN r.expired :
                 /\ r.expired[i] \in Expiry
                 /\ r.expired[i].host \in Host
                 /\ r.expired[i].seen \in Nat
<1>1. r.expired \in Seq(Expiry)
    BY DEF CallRecord
<1>2. DOMAIN r.expired = 1..Len(r.expired) /\ Len(r.expired) \in Nat
    BY <1>1, LenProperties
<1>3. IsFiniteSet(DOMAIN r.expired)
    BY <1>2, FS_Interval
<1>4. \A i \in DOMAIN r.expired : r.expired[i] \in Expiry
    BY <1>1, ElementIn
<1> QED BY <1>3, <1>4 DEF Expiry

\* Fallback adds the expired states one by one, in some order.
LEMMA FallbackSteps ==
    ASSUME NEW r \in CallRecord, Source(r) \in ToSet(Sources)
    PROVE  \E g \in [SUBSET DOMAIN r.expired -> Results] :
              /\ g[{}] = r.m
              /\ \A s \in SUBSET DOMAIN r.expired : s # {} =>
                    \E i \in s : g[s] = AddState(g[s \ {i}], Source(r), r.expired[i].host,
                                                 r.expired[i].seen)
              /\ Fallback(r) = g[DOMAIN r.expired]
<1> DEFINE D == DOMAIN r.expired
           V == Results
           first == [s \in SUBSET D |-> CHOOSE i \in s : TRUE]
           step == [p \in D \X V |-> AddState(p[2], Source(r), r.expired[p[1]].host,
                                               r.expired[p[1]].seen)]
<1>1. /\ r.m \in V
      /\ \A i \in D : r.expired[i].host \in Host /\ r.expired[i].seen \in Nat
    BY ExpiredTyped DEF CallRecord
<1>2. IsFiniteSet(D)
    BY ExpiredTyped
<1>3. step \in [D \X V -> V]
    <2>1. ASSUME NEW i \in D, NEW m \in V
          PROVE  AddState(m, Source(r), r.expired[i].host, r.expired[i].seen) \in V
        BY <1>1, AddStateTyped
    <2> QED BY <2>1
<1>4. \A s \in SUBSET D : s # {} => first[s] \in s
    OBVIOUS
<1> DEFINE Solves(g) == g = [s \in SUBSET D |->
                   IF s = {} THEN r.m ELSE AddState(g[s \ {CHOOSE i \in s : TRUE}], Source(r),
                                                    r.expired[CHOOSE i \in s : TRUE].host,
                                                    r.expired[CHOOSE i \in s : TRUE].seen)]
<1>5. \E g : Solves(g)
    <2> HIDE DEF V, D
    <2>1. PICK g : IsSolution(g, D, V, r.m, step, first)
        <3>1. IsRecursion(D, V, r.m, step, first)
            BY <1>1, <1>2, <1>3, <1>4 DEF IsRecursion
        <3> HIDE DEF step, first
        <3> QED BY <3>1, RecursionOverSubsets
    <2>2. ASSUME NEW s \in SUBSET D, s # {}
          PROVE  g[s] = AddState(g[s \ {first[s]}], Source(r), r.expired[first[s]].host,
                                 r.expired[first[s]].seen)
        <3>1. first[s] \in D /\ g[s \ {first[s]}] \in V
            <4> HIDE DEF first
            <4>1. first[s] \in s /\ s \ {first[s]} \in SUBSET D
                BY <1>4, <2>2
            <4> QED BY <2>1, <4>1 DEF IsSolution
        <3>2. <<first[s], g[s \ {first[s]}]>> \in D \X V
            <4> HIDE DEF first
            <4> QED BY <3>1
        <3>3. g[s] = step[<<first[s], g[s \ {first[s]}]>>]
            <4> HIDE DEF first, step
            <4> QED BY <2>1, <2>2 DEF IsSolution
        <3> HIDE DEF first
        <3> QED BY <3>2, <3>3
    <2>3. \A s \in SUBSET D : g[s] =
              IF s = {} THEN r.m ELSE AddState(g[s \ {CHOOSE i \in s : TRUE}], Source(r),
                                               r.expired[CHOOSE i \in s : TRUE].host,
                                               r.expired[CHOOSE i \in s : TRUE].seen)
        <3> SUFFICES ASSUME NEW s \in SUBSET D
                     PROVE  g[s] =
                        IF s = {} THEN r.m ELSE AddState(g[s \ {CHOOSE i \in s : TRUE}], Source(r),
                                                         r.expired[CHOOSE i \in s : TRUE].host,
                                                         r.expired[CHOOSE i \in s : TRUE].seen)
            OBVIOUS
        <3>1. g[{}] = r.m
            <4> HIDE DEF step, first
            <4> QED BY <2>1 DEF IsSolution
        <3>2. CASE s = {}
            BY <3>1, <3>2
        <3>3. CASE s # {}
            <4>1. PICK x : x = (CHOOSE i \in s : TRUE) /\ x = first[s]
                OBVIOUS
            <4>2. g[s] = AddState(g[s \ {x}], Source(r), r.expired[x].host, r.expired[x].seen)
                <5> HIDE DEF step, first
                <5> QED BY <2>2, <3>3, <4>1
            <4> HIDE DEF step, first
            <4> QED BY <3>3, <4>1, <4>2
        <3> QED BY <3>2, <3>3
    <2>4. g = [s \in SUBSET D |-> g[s]]
        BY <2>1 DEF IsSolution
    <2>5. Solves(g)
        BY <2>3, <2>4
    <2> HIDE DEF Solves
    <2> QED BY <2>5
<1>6. Fallback(r) = (CHOOSE g : Solves(g))[D]
    BY Zenon DEF Fallback, FoldSeq, FoldFunction, FoldFunctionOnSet, MapThenFoldSet
<1> HIDE DEF Solves
<1>7. PICK g : g = CHOOSE f : Solves(f)
    OBVIOUS
<1>8. Solves(g)
    BY <1>5, <1>7
<1>9. /\ g[{}] = r.m
      /\ \A s \in SUBSET D : s # {} =>
             \E i \in s : g[s] = AddState(g[s \ {i}], Source(r), r.expired[i].host,
                                          r.expired[i].seen)
    BY <1>8 DEF Solves
<1>10. g \in [SUBSET D -> V]
    <2> DEFINE A == {s \in SUBSET D : g[s] \in V}
    <2>1. {} \in A
        BY <1>1, <1>9
    <2>2. ASSUME NEW s \in SUBSET D, \A x \in s : s \ {x} \in A
          PROVE  s \in A
        <3>1. CASE s = {}
            BY <2>1, <3>1
        <3>2. CASE s # {}
            <4>1. PICK i \in s : g[s] = AddState(g[s \ {i}], Source(r), r.expired[i].host,
                                                 r.expired[i].seen)
                BY <1>9, <3>2
            <4>2. g[s \ {i}] \in V /\ r.expired[i].host \in Host /\ r.expired[i].seen \in Nat
                <5>1. s \ {i} \in A /\ i \in D
                    BY <2>2
                <5> QED BY <1>1, <5>1
            <4>3. AddState(g[s \ {i}], Source(r), r.expired[i].host, r.expired[i].seen) \in V
                BY <4>2, AddStateTyped
            <4> QED BY <4>1, <4>3
        <3> QED BY <3>1, <3>2
    <2>3. SUBSET D \subseteq A
        <3> HIDE DEF A
        <3>1. GrowsIn(A, D)
            BY <2>2 DEF GrowsIn
        <3> QED BY <1>2, <3>1, SetOfSubsets
    <2>4. \A s \in SUBSET D : g[s] \in V
        BY <2>3
    <2>5. g = [s \in SUBSET D |-> g[s]]
        BY <1>8 DEF Solves
    <2> QED BY <2>4, <2>5
<1> QED BY <1>6, <1>7, <1>9, <1>10

\* Induction over the expired states that Fallback has added: A is what holds of
\* the places added and the result so far.
LEMMA FallbackInduction ==
    ASSUME NEW r \in CallRecord, Source(r) \in ToSet(Sources), NEW A,
           <<{}, r.m>> \in A,
           \A s \in SUBSET DOMAIN r.expired : \A i \in DOMAIN r.expired \ s :
               \A m \in Results : <<s, m>> \in A =>
                   <<s \cup {i}, AddState(m, Source(r), r.expired[i].host, r.expired[i].seen)>> \in A
    PROVE  <<DOMAIN r.expired, Fallback(r)>> \in A
<1> DEFINE D == DOMAIN r.expired
<1>1. PICK g \in [SUBSET D -> Results] :
              /\ g[{}] = r.m
              /\ \A s \in SUBSET D : s # {} =>
                    \E i \in s : g[s] = AddState(g[s \ {i}], Source(r), r.expired[i].host,
                                                 r.expired[i].seen)
              /\ Fallback(r) = g[D]
    BY FallbackSteps
<1>2. IsFiniteSet(D)
    BY ExpiredTyped
<1> DEFINE B == {s \in SUBSET D : <<s, g[s]>> \in A}
<1>3. ASSUME NEW s \in SUBSET D, \A i \in s : s \ {i} \in B
      PROVE  s \in B
    <2>1. CASE s = {}
        BY <1>1, <2>1
    <2>2. CASE s # {}
        <3>1. PICK i \in s : g[s] = AddState(g[s \ {i}], Source(r), r.expired[i].host,
                                             r.expired[i].seen)
            BY <1>1, <2>2
        <3>2. s \ {i} \in B /\ i \in D \ (s \ {i}) /\ (s \ {i}) \cup {i} = s
            BY <1>3
        <3>3. g[s \ {i}] \in Results /\ <<s \ {i}, g[s \ {i}]>> \in A
            BY <1>1, <3>2
        <3>4. <<(s \ {i}) \cup {i}, AddState(g[s \ {i}], Source(r), r.expired[i].host,
                                             r.expired[i].seen)>> \in A
            BY <3>2, <3>3
        <3>5. <<s, g[s]>> \in A
            BY <3>1, <3>2, <3>4
        <3> QED BY <3>5
    <2> QED BY <2>1, <2>2
<1>4. D \in B
    <2> HIDE DEF B
    <2>1. GrowsIn(B, D)
        BY <1>3 DEF GrowsIn
    <2>2. SUBSET D \subseteq B
        BY <1>2, <2>1, SetOfSubsets
    <2> QED BY <2>2
<1> QED BY <1>1, <1>4

\* Sources is a sequence of its elements.
LEMMA SourcesSeq ==
    /\ Len(Sources) \in Nat
    /\ DOMAIN Sources = 1..Len(Sources)
    /\ \A i \in DOMAIN Sources : Sources[i] \in ToSet(Sources)
<1>1. Sources \in Seq(STRING)
    BY SourcesAssumption
<1> QED BY <1>1, LenProperties DEF ToSet

\* A call moved to a source, or to its reply, is one of its stage.
LEMMA AtSourceTyped ==
    ASSUME sources = Sources, NEW r \in CallRecord, NEW i \in 1..(Len(Sources) + 1), NEW t \in Nat
    PROVE  AtSource(r, i) \in CallRecord /\ Stage(AtSource(r, i), t)
<1>1. i \in Nat /\ i \notin DOMAIN sources => i = Len(Sources) + 1
    BY SourcesSeq
<1>2. AtSource(r, i) \in CallRecord
    <2>1. r.names \in Seq(Host) /\ i \in Nat /\ <<>> \in Seq(Host) /\ <<>> \in Seq(Expiry)
        BY <1>1, EmptySeq DEF CallRecord
    <2> DEFINE q(p) == [r EXCEPT !.pc = p, !.src = i, !.todo = r.names, !.missed = <<>>,
                                 !.expired = <<>>, !.asking = "expired", !.sent = 0,
                                 !.answer = {}, !.seen = 0]
    <2>2. q("lookup") \in CallRecord
        BY <2>1 DEF CallRecord
    <2>3. q("replied") \in CallRecord
        BY <2>1 DEF CallRecord
    <2>4. AtSource(r, i) = q("lookup") \/ AtSource(r, i) = q("replied")
        BY DEF AtSource
    <2> QED BY <2>2, <2>3, <2>4
<1>3. Stage(AtSource(r, i), t)
    BY <1>1 DEF AtSource, CallRecord, Stage
<1> QED BY <1>2, <1>3

\* So is one moved on after its query.
LEMMA AfterFetchTyped ==
    ASSUME sources = Sources, NEW r \in CallRecord, r.src \in DOMAIN Sources, r.todo = <<>>,
           NEW t \in Nat
    PROVE  AfterFetch(r) \in CallRecord /\ Stage(AfterFetch(r), t)
<1>1. CASE r.asking = "expired"
    <2>1. AfterFetch(r) \in CallRecord
        BY <1>1 DEF AfterFetch, CallRecord
    <2>2. Stage(AfterFetch(r), t)
        BY <1>1 DEF AfterFetch, CallRecord, Stage
    <2> QED BY <2>1, <2>2
<1>2. CASE r.asking # "expired"
    <2>1. r.src + 1 \in 1..(Len(Sources) + 1)
        BY SourcesSeq
    <2> QED BY <1>2, <2>1, AtSourceTyped DEF AfterFetch
<1> QED BY <1>1, <1>2

\* A step of a call under way, with the clock standing still.
LEMMA OneCallTyped ==
    ASSUME TypeInv, NEW c \in Caller, NEW r \in CallRecord, Stage(r, now), sources = Sources,
           call' = [call EXCEPT ![c] = r], UNCHANGED <<now, sources, adding>>, CacheInv'
    PROVE  TypeInv'
<1>1. SourcesInv' /\ now' \in 0..MaxTime
    BY DEF TypeInv, SourcesInv
<1>2. CallsInv'
    BY DEF TypeInv, CallsInv
<1> QED BY <1>1, <1>2 DEF TypeInv

\* What a step of call c that is not idle finds.
LEMMA CallTyped ==
    ASSUME TypeInv, NEW c \in Caller, call[c].pc # "idle"
    PROVE  /\ sources = Sources
           /\ call[c] \in CallRecord
           /\ Stage(call[c], now)
           /\ now \in Nat
           /\ call[c].pc # "replied" =>
                 call[c].src \in DOMAIN Sources /\ Source(call[c]) \in ToSet(Sources)
<1>1. sources = Sources /\ call[c] \in CallRecord /\ Stage(call[c], now) /\ now \in Nat
    BY TimesAssumption DEF TypeInv, CallsInv
<1>2. call[c].pc # "replied" => call[c].src \in DOMAIN Sources
    BY <1>1 DEF Stage
<1> QED BY <1>1, <1>2, SourceOfCall

\* Reading leaves the types of the cache alone.
LEMMA CacheTyped == ASSUME TypeInv, UNCHANGED <<cache, now, sources>> PROVE CacheInv'
BY DEF TypeInv, CacheInv

\* A look-up keeps the types.
LEMMA LookUpTyped == ASSUME TypeInv, NEW c \in Caller, LookUp(c) PROVE TypeInv'
<1> DEFINE r == call[c]
           h == Head(r.todo)
           k == <<Source(r), h>>
           s == [r EXCEPT !.todo = Tail(r.todo)]
<1>1. /\ sources = Sources /\ r \in CallRecord /\ Stage(r, now) /\ r.pc = "lookup"
      /\ UNCHANGED <<now, sources, adding>> /\ CacheInv' /\ Source(r) \in ToSet(Sources)
      /\ now \in Nat
    BY CallTyped, CacheTyped DEF LookUp
<1>2. CASE r.todo = <<>> /\ call' = [call EXCEPT ![c].pc = "fetch"]
    <2> DEFINE q == [r EXCEPT !.pc = "fetch"]
    <2>1. q \in CallRecord
        BY <1>1 DEF CallRecord
    <2>2. Stage(q, now)
        BY <1>1, <1>2 DEF CallRecord, Stage, Asked
    <2>3. call' = [call EXCEPT ![c] = q]
        BY <1>2
    <2> QED BY <1>1, <2>1, <2>2, <2>3, OneCallTyped
<1>3. ASSUME r.todo # <<>>
      PROVE  h \in Host /\ s \in CallRecord
    <2>1. r.todo \in Seq(Host)
        BY <1>1 DEF CallRecord
    <2>2. h \in Host /\ Tail(r.todo) \in Seq(Host)
        BY <1>3, <2>1, HeadTailProperties
    <2> QED BY <1>1, <2>2 DEF CallRecord
<1>4. CASE r.todo # <<>> /\ call' = [call EXCEPT ![c] = [s EXCEPT !.missed = Append(@, h)]]
    <2> DEFINE q == [s EXCEPT !.missed = Append(@, h)]
    <2>1. q \in CallRecord
        <3>1. s.missed \in Seq(Host)
            BY <1>3, <1>4 DEF CallRecord
        <3>2. Append(s.missed, h) \in Seq(Host)
            BY <1>3, <1>4, <3>1
        <3> HIDE DEF s, h
        <3> QED BY <1>3, <1>4, <3>2 DEF CallRecord
    <2>2. Stage(q, now)
        BY <1>1, <1>4 DEF CallRecord, Stage, Asked
    <2> QED BY <1>1, <1>4, <2>1, <2>2, OneCallTyped
<1>5. ASSUME k \in DOMAIN cache PROVE cache[k].seen \in Nat
    BY <1>5 DEF TypeInv, CacheInv
<1>6. CASE r.todo # <<>> /\ k \in DOMAIN cache
           /\ call' = [call EXCEPT ![c] =
                         [s EXCEPT !.expired = Append(@, [host |-> h, seen |-> cache[k].seen])]]
    <2> DEFINE e == [host |-> h, seen |-> cache[k].seen]
               q == [s EXCEPT !.expired = Append(@, e)]
    <2>1. e \in Expiry /\ r.expired \in Seq(Expiry)
        BY <1>1, <1>3, <1>5, <1>6 DEF Expiry, CallRecord
    <2> HIDE DEF e
    <2>2. q \in CallRecord
        <3>1. Append(s.expired, e) \in Seq(Expiry)
            BY <1>1, <2>1
        <3> QED BY <1>3, <1>6, <3>1 DEF CallRecord
    <2>3. Stage(q, now)
        <3>1. q.answer \subseteq Asked(q)
            <4>1. r.asking = "expired" /\ q.asking = "expired" /\ q.answer = r.answer
                  /\ q.expired = Append(r.expired, e)
                BY <1>1 DEF CallRecord, Stage
            <4>2. \A i \in DOMAIN r.expired : i \in DOMAIN q.expired /\ q.expired[i] = r.expired[i]
                BY <2>1, <4>1, AppendProperties
            <4> QED BY <1>1, <4>1, <4>2 DEF Stage, Asked
        <3>2. q.pc = r.pc /\ q.src = r.src /\ q.asking = r.asking /\ q.sent = r.sent /\ q.seen = r.seen
            BY <1>1 DEF CallRecord
        <3> QED BY <1>1, <3>1, <3>2 DEF Stage
    <2>4. call' = [call EXCEPT ![c] = q]
        BY <1>6 DEF e
    <2> QED BY <1>1, <2>2, <2>3, <2>4, OneCallTyped
<1>7. CASE r.todo # <<>> /\ k \in DOMAIN cache
           /\ call' = [call EXCEPT ![c] =
                         [s EXCEPT !.m = AddState(@, Source(r), h, cache[k].seen)]]
    <2> DEFINE a == AddState(r.m, Source(r), h, cache[k].seen)
               q == [s EXCEPT !.m = a]
    <2>1. a \in Results
        BY <1>1, <1>3, <1>5, <1>7, AddStateTyped DEF CallRecord
    <2>2. call' = [call EXCEPT ![c] = q]
        BY <1>1, <1>7 DEF CallRecord
    <2> HIDE DEF a
    <2>3. q \in CallRecord
        BY <1>3, <1>7, <2>1 DEF CallRecord
    <2>4. Stage(q, now)
        BY <1>1, <1>7 DEF CallRecord, Stage, Asked
    <2> QED BY <1>1, <2>2, <2>3, <2>4, OneCallTyped
<1> QED BY <1>2, <1>4, <1>6, <1>7 DEF LookUp

\* So does the start of a query, which is one of hosts.
LEMMA FetchTyped == ASSUME TypeInv, NEW c \in Caller, Fetch(c) PROVE TypeInv'
<1> DEFINE r == call[c]
           q == [r EXCEPT !.pc = "sent", !.sent = now]
<1>1. /\ sources = Sources /\ r \in CallRecord /\ Stage(r, now) /\ r.pc = "fetch"
      /\ UNCHANGED <<now, sources, adding>> /\ CacheInv' /\ now \in Nat
      /\ r.src \in DOMAIN Sources /\ r.todo = <<>>
    BY CallTyped, CacheTyped DEF Fetch, Stage
<1>2. AfterFetch(r) \in CallRecord /\ Stage(AfterFetch(r), now)
    BY <1>1, AfterFetchTyped
<1>3. q \in CallRecord
    BY <1>1 DEF CallRecord
<1>4. Stage(q, now)
    BY <1>1 DEF CallRecord, Stage, Asked
<1>5. call' = [call EXCEPT ![c] = AfterFetch(r)] \/ call' = [call EXCEPT ![c] = q]
    BY DEF Fetch
<1> QED BY <1>1, <1>2, <1>3, <1>4, <1>5, OneCallTyped

\* The answer is one to what was asked.
LEMMA SourceReadsTyped ==
    ASSUME TypeInv, NEW c \in Caller, NEW known, SourceReads(c, known) PROVE TypeInv'
<1> DEFINE r == call[c]
           d == r.denied \cup ({Source(r)} \X (Asked(r) \ known))
           q == [r EXCEPT !.pc = "read", !.answer = known, !.seen = now, !.denied = d]
<1>1. /\ sources = Sources /\ r \in CallRecord /\ Stage(r, now) /\ r.pc = "sent"
      /\ UNCHANGED <<now, sources, adding>> /\ CacheInv' /\ now \in Nat
      /\ r.src \in DOMAIN Sources /\ Source(r) \in ToSet(Sources)
      /\ known \subseteq Asked(r) /\ Asked(r) \subseteq Host
    BY CallTyped, CacheTyped, AskedOfHosts DEF SourceReads
<1>2. call' = [call EXCEPT ![c] = q]
    BY <1>1 DEF SourceReads, CallRecord
<1>3. d \in SUBSET (ToSet(Sources) \X Host)
    BY <1>1 DEF CallRecord
<1> HIDE DEF d
<1>4. q \in CallRecord
    BY <1>1, <1>3 DEF CallRecord
<1>5. Stage(q, now)
    BY <1>1 DEF CallRecord, Stage, Asked
<1> QED BY <1>1, <1>2, <1>4, <1>5, OneCallTyped

\* What Fallback returns is a result.
LEMMA FallbackTyped ==
    ASSUME NEW r \in CallRecord, Source(r) \in ToSet(Sources)
    PROVE  Fallback(r) \in Results
<1>1. PICK g \in [SUBSET DOMAIN r.expired -> Results] :
          Fallback(r) = g[DOMAIN r.expired]
    BY FallbackSteps
<1>2. DOMAIN r.expired \in SUBSET DOMAIN r.expired
    OBVIOUS
<1> QED BY <1>1, <1>2

\* The result after a failed query is one, by FallbackTyped.
LEMMA QueryFailsTyped == ASSUME TypeInv, NEW c \in Caller, QueryFails(c) PROVE TypeInv'
<1> DEFINE r == call[c]
           f == r.failed \cup {Source(r)}
           n == IF r.asking = "expired" THEN Fallback(r) ELSE r.m
           q == [r EXCEPT !.failed = f, !.m = n]
<1>1. /\ sources = Sources /\ r \in CallRecord /\ Stage(r, now) /\ r.pc \in {"sent", "read"}
      /\ UNCHANGED <<now, sources, adding>> /\ CacheInv' /\ now \in Nat
      /\ r.src \in DOMAIN Sources /\ r.todo = <<>> /\ Source(r) \in ToSet(Sources)
    BY CallTyped, CacheTyped DEF QueryFails, Stage
<1>2. n \in Results /\ f \in SUBSET ToSet(Sources)
    BY <1>1, FallbackTyped DEF CallRecord
<1>3. call' = [call EXCEPT ![c] = AfterFetch(q)]
    BY <1>1 DEF QueryFails, CallRecord
<1> HIDE DEF f, n
<1>4. q \in CallRecord /\ q.src = r.src /\ q.todo = r.todo
    BY <1>1, <1>2 DEF CallRecord
<1>5. AfterFetch(q) \in CallRecord /\ Stage(AfterFetch(q), now)
    BY <1>1, <1>4, AfterFetchTyped
<1> QED BY <1>1, <1>3, <1>5, OneCallTyped

\* What is put into the cache is of a source and a host.
LEMMA PutTyped == ASSUME TypeInv, NEW c \in Caller, Put(c) PROVE TypeInv'
<1> DEFINE r == call[c]
<1>1. /\ sources = Sources /\ r \in CallRecord /\ Stage(r, now) /\ r.pc \in {"read", "put"}
      /\ UNCHANGED <<now, sources, adding>> /\ now \in Nat
      /\ r.src \in DOMAIN Sources /\ r.todo = <<>> /\ Source(r) \in ToSet(Sources)
    BY CallTyped DEF Put, Stage
<1>2. CASE r.answer = {} /\ call' = [call EXCEPT ![c] = AfterFetch([r EXCEPT !.m = Merged(r)])]
           /\ UNCHANGED cache
    <2>1. [r EXCEPT !.m = Merged(r)] = r
        BY <1>1 DEF CallRecord, Merged
    <2>2. AfterFetch(r) \in CallRecord /\ Stage(AfterFetch(r), now)
        BY <1>1, AfterFetchTyped
    <2>3. CacheInv'
        BY <1>1, <1>2, CacheTyped
    <2> QED BY <1>1, <1>2, <2>1, <2>2, <2>3, OneCallTyped
<1>3. ASSUME NEW h \in r.answer,
             AddUpdate(<<Source(r), h>>, r.seen),
             call' = [call EXCEPT ![c].pc = "put",
                                  ![c].answer = @ \ {h},
                                  ![c].m = AddState(@, Source(r), h, r.seen)]
      PROVE  TypeInv'
    <2> DEFINE a == AddState(r.m, Source(r), h, r.seen)
               q == [r EXCEPT !.pc = "put", !.answer = @ \ {h}, !.m = a]
    <2>1. h \in Host /\ r.seen \in Nat /\ r.seen \in 0..now /\ r.m \in Results
        BY <1>1 DEF CallRecord, Stage
    <2>2. a \in Results
        BY <1>1, <2>1, AddStateTyped
    <2>3. call' = [call EXCEPT ![c] = q]
        BY <1>1, <1>3 DEF CallRecord
    <2> HIDE DEF a
    <2>4. q \in CallRecord
        BY <1>1, <2>2 DEF CallRecord
    <2>5. Stage(q, now)
        BY <1>1 DEF CallRecord, Stage, Asked
    <2>6. CacheInv'
        <3>1. [seen |-> r.seen, time |-> now] \in [seen : 0..now, time : 0..now]
            BY <1>1, <2>1
        <3>2. <<Source(r), h>> \in ToSet(sources) \X Host
            BY <1>1, <2>1
        <3> QED BY <1>1, <1>3, <3>1, <3>2 DEF AddUpdate, TypeInv, CacheInv
    <2> QED BY <1>1, <2>3, <2>4, <2>5, <2>6, OneCallTyped
<1> QED BY <1>2, <1>3 DEF Put

\* Idle is a call, of the stage idle.
LEMMA IdleTyped == ASSUME NEW t \in Nat PROVE Idle \in CallRecord /\ Stage(Idle, t)
<1>1. Idle \in CallRecord
    <2>1. [h \in Host |-> <<>>] \in Results
        BY DEF Results
    <2> QED BY <2>1 DEF Idle, CallRecord
<1>2. Stage(Idle, t)
    BY DEF Idle, Stage
<1> QED BY <1>1, <1>2

\* Once the server runs, the sources are those of main, in their order.
LEMMA AllSourcesAdded == ASSUME TypeInv, Serving PROVE sources = Sources
<1>1. Sources \in Seq(STRING) /\ sources \in Seq(STRING) /\ Len(sources) = Len(Sources)
      /\ DOMAIN sources = 1..Len(sources)
    BY SourcesAssumption, LenProperties DEF TypeInv, SourcesInv, Serving
<1> QED BY <1>1, SeqEqual DEF TypeInv, SourcesInv

\* A new call is one; what the cache holds for it is of its sources.
LEMMA BeginTyped ==
    ASSUME TypeInv, NEW c \in Caller, NEW names \in Seq(Host), Begin(c, names) PROVE TypeInv'
<1> DEFINE e == {k \in DOMAIN cache : k[2] \in ToSet(names)}
           q == [Idle EXCEPT !.names = names, !.held = e]
<1>1. UNCHANGED <<now, sources, adding>> /\ CacheInv' /\ now \in Nat
    BY TimesAssumption, CacheTyped DEF Begin, TypeInv
<1>2. sources = Sources
    BY AllSourcesAdded DEF Begin
<1>3. e \in SUBSET (ToSet(Sources) \X Host)
    BY <1>2 DEF TypeInv, CacheInv
<1>4. call' = [call EXCEPT ![c] = AtSource(q, 1)]
    BY DEF Begin
<1> HIDE DEF e
<1>5. q \in CallRecord
    BY <1>1, <1>3, IdleTyped DEF CallRecord
<1>6. AtSource(q, 1) \in CallRecord /\ Stage(AtSource(q, 1), now)
    BY <1>1, <1>2, <1>5, AtSourceTyped, SourcesSeq
<1> QED BY <1>1, <1>2, <1>4, <1>6, OneCallTyped

\* A call that has ended is idle.
LEMMA ReturnTyped == ASSUME TypeInv, NEW c \in Caller, Return(c) PROVE TypeInv'
<1>1. sources = Sources /\ now \in Nat /\ CacheInv' /\ UNCHANGED <<now, sources, adding>>
    BY CallTyped, CacheTyped DEF Return
<1>2. call' = [call EXCEPT ![c] = Idle]
    BY DEF Return
<1> QED BY <1>1, <1>2, IdleTyped, OneCallTyped

\* AddSource adds the next source of main.
LEMMA AddSourceTyped == ASSUME TypeInv, AddSource PROVE TypeInv'
<1> DEFINE n == Len(sources) + 1
<1>1. /\ sources \in Seq(STRING) /\ Len(sources) < Len(Sources)
      /\ sources' = Append(sources, Sources[n]) /\ adding' = FALSE
      /\ \A i \in DOMAIN sources : sources[i] = Sources[i]
      /\ UNCHANGED <<now, cache, call>> /\ Len(sources) \in Nat
    BY LenProperties DEF AddSource, TypeInv, SourcesInv
<1>2. Sources[n] \in STRING
    BY <1>1, SourcesSeq, SourcesAssumption, ElementIn
<1>3. /\ sources' \in Seq(STRING) /\ Len(sources') = n /\ sources'[n] = Sources[n]
      /\ DOMAIN sources' = 1..n /\ DOMAIN sources = 1..Len(sources)
      /\ \A i \in DOMAIN sources : sources'[i] = sources[i]
    BY <1>1, <1>2, AppendProperties, LenProperties
<1>4. SourcesInv'
    <2>1. ASSUME NEW i \in DOMAIN sources' PROVE sources'[i] = Sources[i]
        <3>1. i = n \/ i \in 1..Len(sources)
            BY <1>1, <1>3
        <3> QED BY <1>1, <1>3, <3>1
    <2>2. n <= Len(Sources)
        BY <1>1, SourcesSeq
    <2>3. adding' \in BOOLEAN /\ ~adding'
        BY <1>1, Zenon
    <2> QED BY <1>1, <1>3, <2>1, <2>2, <2>3 DEF SourcesInv
<1>5. CacheInv'
    <2>1. ToSet(sources) \subseteq ToSet(sources')
        BY <1>1, <1>3 DEF ToSet
    <2> QED BY <1>1, <2>1 DEF TypeInv, CacheInv
<1>6. CallsInv'
    <2>1. \A c \in Caller : call[c].pc = "idle"
        BY DEF AddSource, InCall
    <2> QED BY <1>1, <2>1 DEF TypeInv, CallsInv
<1> QED BY <1>1, <1>4, <1>5, <1>6 DEF TypeInv

\* Time passes; what is not later than it stays so.
LEMMA TickTyped == ASSUME TypeInv, Tick PROVE TypeInv'
<1>1. now' = now + 1 /\ now' \in 0..MaxTime /\ now \in Nat /\ UNCHANGED <<cache, sources, adding, call>>
    BY TimesAssumption DEF Tick, TypeInv
<1>2. SourcesInv'
    BY <1>1 DEF TypeInv, SourcesInv
<1>3. CacheInv'
    BY <1>1 DEF TypeInv, CacheInv
<1>4. CallsInv'
    <2>1. ASSUME NEW c \in Caller PROVE Stage(call[c], now + 1)
        BY <1>1 DEF TypeInv, CallsInv, Stage, CallRecord
    <2> QED BY <1>1, <2>1 DEF TypeInv, CallsInv
<1> QED BY <1>1, <1>2, <1>3, <1>4 DEF TypeInv

\* The initial state is well typed.
LEMMA InitTyped == Init => TypeInv
<1> SUFFICES ASSUME Init PROVE TypeInv
    OBVIOUS
<1>1. now = 0 /\ now \in 0..MaxTime /\ 0 \in Nat
    BY TimesAssumption DEF Init
<1>2. SourcesInv
    <2>1. <<>> \in Seq(STRING) /\ Len(<<>>) = 0
        BY EmptySeq
    <2>2. adding \in BOOLEAN /\ ~adding
        BY DEF Init
    <2>3. sources = <<>>
        BY DEF Init
    <2>4. \A i \in DOMAIN sources : sources[i] = Sources[i]
        BY <2>3
    <2> QED BY <2>1, <2>2, <2>3, <2>4, SourcesSeq DEF SourcesInv
<1>3. CacheInv
    BY DEF Init, CacheInv
<1>4. CallsInv
    BY <1>1, IdleTyped DEF Init, CallsInv, Idle
<1> QED BY <1>1, <1>2, <1>3, <1>4 DEF TypeInv

\* Every step keeps the types.
LEMMA NextKeepsTypes == TypeInv /\ [Next]_vars => TypeInv'
<1> SUFFICES ASSUME TypeInv, [Next]_vars PROVE TypeInv'
    OBVIOUS
<1>1. CASE AddSourceWaits
    BY <1>1 DEF AddSourceWaits, TypeInv, SourcesInv, CacheInv, CallsInv
<1>2. CASE AddSource
    BY <1>2, AddSourceTyped
<1>3. CASE GetNodeById
    <2>1. PICK c \in NodeCaller, h \in Host : Begin(c, <<h>>)
        BY <1>3 DEF GetNodeById
    <2>2. <<h>> \in Seq(Host) /\ c \in Caller
        BY DEF Caller
    <2> QED BY <2>1, <2>2, BeginTyped
<1>4. CASE GetAllNodes
    BY <1>4, BeginTyped, NamesAssumption DEF GetAllNodes, Caller
<1>5. ASSUME NEW c \in Caller, Goes(c) PROVE TypeInv'
    BY <1>5, LookUpTyped, FetchTyped, SourceReadsTyped, QueryFailsTyped, PutTyped, ReturnTyped
    DEF Goes
<1>6. CASE Tick
    BY <1>6, TickTyped
<1>7. CASE UNCHANGED vars
    BY <1>7 DEF vars, TypeInv, SourcesInv, CacheInv, CallsInv
<1> QED BY <1>1, <1>2, <1>3, <1>4, <1>5, <1>6, <1>7 DEF Next

\* At each stage of a call its fields hold what the stage says; while a call is under
\* way the list of sources is complete, so the index of its source stays in range.
THEOREM ServiceTypes == Spec => []TypeInv
BY InitTyped, NextKeepsTypes, PTL DEF Spec

\* TypeInv is stronger than the type invariant the runs check.
LEMMA TypeInvGivesTypeOK == TypeInv => TypeOK
<1> SUFFICES ASSUME TypeInv PROVE TypeOK
    OBVIOUS
<1>1. IsPrefix(sources, Sources)
    <2>1. sources \in Seq(STRING) /\ Sources \in Seq(STRING) /\ Len(sources) \in Nat
          /\ DOMAIN sources = 1..Len(sources)
          /\ \A i \in 1..Len(sources) : sources[i] = Sources[i] /\ sources[i] \in STRING
          /\ Len(sources) <= Len(Sources)
        BY SourcesAssumption, LenProperties, ElementIn DEF TypeInv, SourcesInv
    <2>2. SubSeq(sources, 1, Len(sources)) = sources
        BY <2>1, SubSeqFull
    <2>3. /\ SubSeq(Sources, 1, Len(sources)) \in Seq(STRING)
          /\ Len(SubSeq(Sources, 1, Len(sources))) = Len(sources)
          /\ \A i \in 1..Len(sources) : SubSeq(Sources, 1, Len(sources))[i] = Sources[i]
        BY <2>1, SubSeqProperties
    <2>4. SubSeq(Sources, 1, Len(sources)) = sources
        BY <2>1, <2>3, SeqEqual
    <2> QED BY <2>1, <2>2, <2>4 DEF IsPrefix
<1>2. ASSUME NEW c \in Caller
      PROVE  /\ call[c].pc \in {"idle", "lookup", "fetch", "sent", "read", "put", "replied"}
             /\ call[c].sent \in 0..now /\ call[c].seen \in 0..now
             /\ call[c].m \in Results
             /\ call[c].answer \subseteq Host
    BY DEF TypeInv, CallsInv, CallRecord, Stage
<1> QED BY <1>1, <1>2 DEF TypeOK, Results, TypeInv, CacheInv, SourcesInv

\* Type correctness of the state service and its cache (TypeOK), for all constants.
THEOREM TypeCorrect == Spec => []TypeOK
BY ServiceTypes, TypeInvGivesTypeOK, PTL

\* While a call holds src_mutex for reading, nobody waits to write: its second
\* RLock, in get_source_by_name, is never refused, and no AddSource waits for it.
NestedLockFree == InCall # {} => RLock

\* The mutex that a call takes twice cannot bring it to a halt: what
\* EveryCallReturns rests on beside fairness (GetHostsStatusByName; main.go, where
\* every AddSource comes before the server is started).
THEOREM LockTakenTwice == Spec => []NestedLockFree
<1>1. TypeInv => NestedLockFree
    <2> SUFFICES ASSUME TypeInv, InCall # {}, adding
                 PROVE  FALSE
        BY DEF NestedLockFree, RLock
    <2>1. sources = Sources
        BY DEF InCall, TypeInv, CallsInv
    <2>2. Len(sources) < Len(Sources) /\ Len(sources) \in Nat
        BY DEF TypeInv, SourcesInv
    <2> QED BY <2>1, <2>2
<1> QED BY <1>1, ServiceTypes, PTL
----------------------------------------------------------------------------
(* How old a state of the result is *)

\* How many queries r has had before the one it is at.
QueriesBefore(r) == 2 * (r.src - 1) + (IF r.asking = "missed" THEN 1 ELSE 0)

\* The age a state may reach while its call makes its queries.
Budget(r) == Ttl + Timeout + Timeout * QueriesBefore(r)

\* The time up to which the call has used its budget: a query under way has not.
Spent(r, t) == IF r.pc \in {"sent", "read", "put"} THEN r.sent ELSE t

FreshEnough(r, t) ==
    \A h \in Host : \A i \in DOMAIN r.m[h] :
        r.m[h][i].source \notin r.failed => Spent(r, t) <= r.m[h][i].seen + Budget(r)

\* The inductive invariant.
AgeInv == \A c \in Caller : call[c].pc # "idle" => FreshEnough(call[c], now)

\* A budget is a number; each query adds one timeout to it.
LEMMA BudgetType ==
    ASSUME NEW r \in CallRecord, r.src >= 1
    PROVE  QueriesBefore(r) \in Nat /\ Budget(r) \in Nat /\ Budget(r) >= Ttl + Timeout
<1>1. QueriesBefore(r) \in Nat
    BY DEF QueriesBefore, CallRecord
<1>2. \A q \in Nat : Timeout * q \in Nat
    BY TimesAssumption
<1> QED BY <1>1, <1>2, TimesAssumption DEF Budget

\* One more query gives one more timeout.
LEMMA BudgetGrows ==
    ASSUME NEW r \in CallRecord, NEW q \in CallRecord, r.src >= 1,
           QueriesBefore(q) = QueriesBefore(r) + 1
    PROVE  Budget(q) = Budget(r) + Timeout
<1>1. QueriesBefore(r) \in Nat
    BY BudgetType
<1>2. \A n \in Nat : Timeout * (n + 1) = Timeout * n + Timeout
    BY TimesAssumption
<1>3. \A n \in Nat : Timeout * n \in Nat
    BY TimesAssumption
<1> QED BY <1>1, <1>2, <1>3, TimesAssumption DEF Budget

\* An element of a list of a result is a state.
LEMMA ResultState ==
    ASSUME NEW r \in CallRecord, NEW h \in Host, NEW i \in DOMAIN r.m[h]
    PROVE  r.m[h][i] \in State /\ r.m[h][i].seen \in Nat
<1>1. r.m[h] \in Seq(State)
    BY DEF CallRecord, Results
<1>2. r.m[h][i] \in State
    BY <1>1, ElementIn
<1> QED BY <1>2 DEF State

\* A step that leaves the result alone, or takes states of a failed source in.
LEMMA StaysFresh ==
    ASSUME NEW r \in CallRecord, NEW q \in CallRecord, NEW t \in Nat, FreshEnough(r, t),
           r.src >= 1, q.src >= 1, r.sent <= t, r.failed \subseteq q.failed,
           Spent(q, t) + Budget(r) <= Spent(r, t) + Budget(q),
           \A h \in Host : \A i \in DOMAIN q.m[h] :
               q.m[h][i].source \in q.failed \/ \E j \in DOMAIN r.m[h] : q.m[h][i] = r.m[h][j]
    PROVE  FreshEnough(q, t)
<1> SUFFICES ASSUME NEW h \in Host, NEW i \in DOMAIN q.m[h], q.m[h][i].source \notin q.failed
             PROVE  Spent(q, t) <= q.m[h][i].seen + Budget(q)
    BY DEF FreshEnough
<1>1. PICK j \in DOMAIN r.m[h] : q.m[h][i] = r.m[h][j]
    OBVIOUS
<1>2. Spent(r, t) <= r.m[h][j].seen + Budget(r) /\ r.m[h][j].seen \in Nat
    BY <1>1, ResultState DEF FreshEnough
<1>3. Budget(r) \in Nat /\ Budget(q) \in Nat
    BY BudgetType
<1>4. Spent(r, t) \in Nat /\ Spent(q, t) \in Nat
    BY DEF Spent, CallRecord
<1> QED BY <1>1, <1>2, <1>3, <1>4

\* A step that adds a state to the result.
LEMMA AddsFresh ==
    ASSUME NEW r \in CallRecord, NEW q \in CallRecord, NEW t \in Nat, FreshEnough(r, t),
           q.src = r.src, q.asking = r.asking, q.failed = r.failed, Spent(q, t) = Spent(r, t),
           NEW s \in ToSet(Sources), NEW h \in Host, NEW x \in Nat,
           q.m = AddState(r.m, s, h, x), Spent(q, t) <= x + Budget(q)
    PROVE  FreshEnough(q, t)
<1>1. Budget(q) = Budget(r)
    BY DEF Budget, QueriesBefore
<1>2. r.m \in Results /\ [source |-> s, seen |-> x] \in State
    BY DEF CallRecord, State
<1>3. /\ AddState(r.m, s, h, x)[h] = Append(r.m[h], [source |-> s, seen |-> x])
      /\ \A g \in Host \ {h} : AddState(r.m, s, h, x)[g] = r.m[g]
    BY <1>2, AddStateTyped
<1>4. ASSUME NEW i \in DOMAIN q.m[h]
      PROVE  \/ q.m[h][i] = [source |-> s, seen |-> x]
             \/ i \in DOMAIN r.m[h] /\ q.m[h][i] = r.m[h][i]
    <2>1. r.m[h] \in Seq(State)
        BY <1>2 DEF Results
    <2> QED BY <1>2, <1>3, <2>1, AppendProperties
<1> SUFFICES ASSUME NEW g \in Host, NEW i \in DOMAIN q.m[g], q.m[g][i].source \notin q.failed
             PROVE  Spent(q, t) <= q.m[g][i].seen + Budget(q)
    BY DEF FreshEnough
<1>5. CASE g = h /\ q.m[h][i] = [source |-> s, seen |-> x]
    BY <1>5
<1>6. CASE i \in DOMAIN r.m[g] /\ q.m[g][i] = r.m[g][i]
    BY <1>1, <1>6 DEF FreshEnough
<1> QED BY <1>3, <1>4, <1>5, <1>6

\* A call moved on after its query may use the budget of that query.
LEMMA AfterFetchFresh ==
    ASSUME sources = Sources, NEW r \in CallRecord, NEW t \in Nat, FreshEnough(r, t),
           r.src \in DOMAIN Sources, r.todo = <<>>, r.sent <= t, t <= Spent(r, t) + Timeout
    PROVE  FreshEnough(AfterFetch(r), t)
<1> DEFINE q == AfterFetch(r)
<1>1. q \in CallRecord
    BY AfterFetchTyped
<1>2. r.src >= 1 /\ r.src \in Nat
    BY SourcesSeq
<1>3. /\ q.m = r.m /\ q.failed = r.failed /\ Spent(q, t) = t /\ q.src >= 1
      /\ QueriesBefore(q) = QueriesBefore(r) + 1
    <2>1. CASE r.asking = "expired"
        BY <1>2, <2>1 DEF AfterFetch, CallRecord, Spent, QueriesBefore
    <2>2. CASE r.asking # "expired"
        <3>1. r.asking = "missed"
            BY <2>2 DEF CallRecord
        <3> QED BY <1>2, <2>2, <3>1 DEF AfterFetch, AtSource, CallRecord, Spent, QueriesBefore
    <2> QED BY <2>1, <2>2
<1> HIDE DEF q
<1>4. Budget(q) = Budget(r) + Timeout
    BY <1>1, <1>2, <1>3, BudgetGrows
<1>5. Budget(r) \in Nat /\ Spent(r, t) \in Nat
    BY <1>2, BudgetType DEF Spent, CallRecord
<1>6. Spent(q, t) + Budget(r) <= Spent(r, t) + Budget(q)
    BY <1>3, <1>4, <1>5, TimesAssumption
<1>7. FreshEnough(q, t)
    BY <1>1, <1>2, <1>3, <1>6, StaysFresh
<1> QED BY <1>7 DEF q

\* Each state Fallback adds is one of the source that failed.
LEMMA FallbackOfSource ==
    ASSUME NEW r \in CallRecord, Source(r) \in ToSet(Sources), NEW h \in Host,
           NEW i \in DOMAIN Fallback(r)[h]
    PROVE  Fallback(r)[h][i].source = Source(r) \/ \E j \in DOMAIN r.m[h] : Fallback(r)[h][i] = r.m[h][j]
<1> DEFINE Old(m) == \A g \in Host : \A k \in DOMAIN m[g] :
                         m[g][k].source = Source(r) \/ \E j \in DOMAIN r.m[g] : m[g][k] = r.m[g][j]
           A == {p \in (SUBSET DOMAIN r.expired) \X Results : Old(p[2])}
<1>1. <<{}, r.m>> \in A
    <2>1. r.m \in Results
        BY DEF CallRecord
    <2>2. Old(r.m)
        OBVIOUS
    <2> HIDE DEF Old
    <2> QED BY <2>1, <2>2
<1>2. ASSUME NEW s \in SUBSET DOMAIN r.expired, NEW x \in DOMAIN r.expired \ s,
             NEW m \in Results, Old(m), NEW e \in Host, NEW y \in Nat
      PROVE  AddState(m, Source(r), e, y) \in Results /\ Old(AddState(m, Source(r), e, y))
    <2> DEFINE z == [source |-> Source(r), seen |-> y]
    <2>1. PICK n \in Results : n = AddState(m, Source(r), e, y)
        BY AddStateTyped
    <2>2. n[e] = Append(m[e], z) /\ \A g \in Host \ {e} : n[g] = m[g]
        BY <2>1, AddStateTyped
    <2>3. m[e] \in Seq(State) /\ z \in State
        BY DEF State, Results
    <2>4. ASSUME NEW k \in DOMAIN n[e]
          PROVE  n[e][k] = z \/ (k \in DOMAIN m[e] /\ n[e][k] = m[e][k])
        <3> HIDE DEF z
        <3> QED BY <2>2, <2>3, AppendProperties
    <2>5. Old(n)
        BY <1>2, <2>2, <2>4
    <2> QED BY <2>1, <2>5
<1>3. <<DOMAIN r.expired, Fallback(r)>> \in A
    <2>1. \A s \in SUBSET DOMAIN r.expired : \A x \in DOMAIN r.expired \ s :
              \A m \in Results : <<s, m>> \in A =>
                 <<s \cup {x}, AddState(m, Source(r), r.expired[x].host, r.expired[x].seen)>> \in A
        <3> SUFFICES ASSUME NEW s \in SUBSET DOMAIN r.expired, NEW x \in DOMAIN r.expired \ s,
                            NEW m \in Results, <<s, m>> \in A
                     PROVE  <<s \cup {x}, AddState(m, Source(r), r.expired[x].host,
                                                  r.expired[x].seen)>> \in A
            OBVIOUS
        <3> HIDE DEF Old
        <3>1. Old(m) /\ s \cup {x} \in SUBSET DOMAIN r.expired
            OBVIOUS
        <3>2. PICK n : n = AddState(m, Source(r), r.expired[x].host, r.expired[x].seen)
            OBVIOUS
        <3>3. n \in Results /\ Old(n)
            BY <1>2, <3>1, <3>2, ExpiredTyped
        <3> QED BY <3>1, <3>2, <3>3
    <2> HIDE DEF A
    <2> QED BY <1>1, <2>1, FallbackInduction
<1> QED BY <1>3

\* A step of one call keeps AgeInv if that call keeps its part of it.
LEMMA OneCallAged ==
    ASSUME AgeInv, TypeInv, NEW c \in Caller, NEW q, FreshEnough(q, now),
           call' = [call EXCEPT ![c] = q], now' = now
    PROVE  AgeInv'
<1>1. call' = [d \in Caller |-> IF d = c THEN q ELSE call[d]]
    BY DEF TypeInv, CallsInv
<1>2. ASSUME NEW d \in Caller, call'[d].pc # "idle"
      PROVE  FreshEnough(call'[d], now)
    BY <1>1, <1>2 DEF AgeInv
<1> QED BY <1>2 DEF AgeInv, FreshEnough, Spent

\* What a step of call c that is at a source finds.
LEMMA CallAtSource ==
    ASSUME TypeInv, TimeInv, AgeInv, NEW c \in Caller, call[c].pc \notin {"idle", "replied"}
    PROVE  /\ sources = Sources /\ call[c] \in CallRecord /\ Stage(call[c], now) /\ now \in Nat
           /\ call[c].src \in DOMAIN Sources /\ Source(call[c]) \in ToSet(Sources)
           /\ call[c].src \in Nat /\ call[c].src >= 1
           /\ call[c].sent \in Nat /\ call[c].sent <= now
           /\ FreshEnough(call[c], now) /\ QueryInTime(call[c], now)
<1>1. /\ sources = Sources /\ call[c] \in CallRecord /\ Stage(call[c], now) /\ now \in Nat
      /\ call[c].src \in DOMAIN Sources /\ Source(call[c]) \in ToSet(Sources)
    BY CallTyped
<1>2. call[c].src \in Nat /\ call[c].src >= 1
    BY <1>1, SourcesSeq
<1>3. call[c].sent \in Nat /\ call[c].sent <= now
    BY <1>1 DEF Stage, CallRecord
<1>4. FreshEnough(call[c], now) /\ QueryInTime(call[c], now)
    BY DEF AgeInv, TimeInv
<1> QED BY <1>1, <1>2, <1>3, <1>4

\* A step that changes neither the result nor the query r is at.
LEMMA SameQueryFresh ==
    ASSUME NEW r \in CallRecord, NEW q \in CallRecord, NEW t \in Nat, FreshEnough(r, t),
           q.src = r.src, q.asking = r.asking, q.failed = r.failed, Spent(q, t) = Spent(r, t),
           q.m = r.m
    PROVE  FreshEnough(q, t)
BY DEF FreshEnough, Budget, QueriesBefore

\* A record found fresh is younger than the ttl, and honest up to the timeout.
LEMMA LookUpAged ==
    ASSUME TypeInv, TypeInv', TimeInv, AgeInv, NEW c \in Caller, LookUp(c) PROVE AgeInv'
<1> DEFINE r == call[c]
           h == Head(r.todo)
           k == <<Source(r), h>>
           s == [r EXCEPT !.todo = Tail(r.todo)]
           q == call'[c]
<1>1. /\ r.pc = "lookup" /\ now' = now /\ r \in CallRecord /\ FreshEnough(r, now) /\ now \in Nat
      /\ r.src >= 1 /\ Source(r) \in ToSet(Sources)
    BY CallAtSource DEF LookUp
<1>2. q \in CallRecord
    BY DEF TypeInv, CallsInv
<1>3. call' = [call EXCEPT ![c] = q]
    BY DEF LookUp, TypeInv, CallsInv
<1>4. \/ q = [r EXCEPT !.pc = "fetch"]
      \/ q = [s EXCEPT !.missed = Append(@, h)]
      \/ q = [s EXCEPT !.expired = Append(@, [host |-> h, seen |-> cache[k].seen])]
      \/ /\ r.todo # <<>> /\ k \in DOMAIN cache /\ ~Expired(cache[k])
         /\ q = [s EXCEPT !.m = AddState(@, Source(r), h, cache[k].seen)]
    BY DEF LookUp, TypeInv, CallsInv
<1>5. CASE q = [r EXCEPT !.pc = "fetch"]
    <2>1. /\ q.src = r.src /\ q.asking = r.asking /\ q.failed = r.failed /\ q.m = r.m
          /\ Spent(q, now) = Spent(r, now)
        BY <1>1, <1>5 DEF CallRecord, Spent
    <2>2. FreshEnough(q, now)
        BY <1>1, <1>2, <2>1, SameQueryFresh
    <2> QED BY <1>1, <1>3, <2>2, OneCallAged
<1>6. CASE q = [s EXCEPT !.missed = Append(@, h)]
    <2>1. /\ q.src = r.src /\ q.asking = r.asking /\ q.failed = r.failed /\ q.m = r.m
          /\ Spent(q, now) = Spent(r, now)
        BY <1>1, <1>6 DEF CallRecord, Spent
    <2>2. FreshEnough(q, now)
        BY <1>1, <1>2, <2>1, SameQueryFresh
    <2> QED BY <1>1, <1>3, <2>2, OneCallAged
<1>7. CASE q = [s EXCEPT !.expired = Append(@, [host |-> h, seen |-> cache[k].seen])]
    <2>1. /\ q.src = r.src /\ q.asking = r.asking /\ q.failed = r.failed /\ q.m = r.m
          /\ Spent(q, now) = Spent(r, now)
        BY <1>1, <1>7 DEF CallRecord, Spent
    <2>2. FreshEnough(q, now)
        BY <1>1, <1>2, <2>1, SameQueryFresh
    <2> QED BY <1>1, <1>3, <2>2, OneCallAged
<1>8. CASE /\ r.todo # <<>> /\ k \in DOMAIN cache /\ ~Expired(cache[k])
           /\ q = [s EXCEPT !.m = AddState(@, Source(r), h, cache[k].seen)]
    <2>1. PICK x \in Nat : x = cache[k].seen
        BY <1>8 DEF TimeInv, RecordInTime
    <2>2. now <= x + Ttl + Timeout
        <3>1. cache[k].time \in Nat /\ cache[k].time <= x + Timeout
            BY <1>8, <2>1 DEF TimeInv, RecordInTime
        <3>2. now - cache[k].time <= Ttl
            BY <1>1, <1>8, <3>1, TimesAssumption DEF Expired
        <3> QED BY <1>1, <2>1, <3>1, <3>2, TimesAssumption
    <2>3. PICK e \in Host : e = h
        <3>1. r.todo \in Seq(Host)
            BY <1>1 DEF CallRecord
        <3> QED BY <1>8, <3>1, HeadTailProperties
    <2>4. /\ q.src = r.src /\ q.asking = r.asking /\ q.failed = r.failed
          /\ q.m = AddState(r.m, Source(r), e, x)
          /\ Spent(q, now) = now /\ Spent(r, now) = now
        BY <1>1, <1>8, <2>1, <2>3 DEF CallRecord, Spent
    <2>5. now <= x + Budget(q)
        <3>1. Budget(q) \in Nat /\ Budget(q) >= Ttl + Timeout
            BY <1>1, <1>2, <2>4, BudgetType
        <3> QED BY <1>1, <2>1, <2>2, <3>1, TimesAssumption
    <2>6. FreshEnough(q, now)
        BY <1>1, <1>2, <2>1, <2>3, <2>4, <2>5, AddsFresh
    <2> QED BY <1>1, <1>3, <2>6, OneCallAged
<1> QED BY <1>4, <1>5, <1>6, <1>7, <1>8

\* A query starts with the budget the call has used.
LEMMA FetchAged ==
    ASSUME TypeInv, TypeInv', TimeInv, AgeInv, NEW c \in Caller, Fetch(c) PROVE AgeInv'
<1> DEFINE r == call[c]
           q == [r EXCEPT !.pc = "sent", !.sent = now]
<1>1. /\ r.pc = "fetch" /\ now' = now /\ r \in CallRecord /\ FreshEnough(r, now) /\ now \in Nat
      /\ sources = Sources /\ r.src \in DOMAIN Sources /\ r.todo = <<>> /\ r.sent <= now
    BY CallAtSource DEF Fetch, Stage
<1>2. FreshEnough(AfterFetch(r), now)
    <2>1. now <= Spent(r, now) + Timeout
        BY <1>1, TimesAssumption DEF Spent
    <2> QED BY <1>1, <2>1, AfterFetchFresh
<1>3. FreshEnough(q, now)
    <2>1. /\ q.src = r.src /\ q.asking = r.asking /\ q.failed = r.failed /\ q.m = r.m
          /\ Spent(q, now) = Spent(r, now) /\ q \in CallRecord
        BY <1>1 DEF CallRecord, Spent
    <2> QED BY <1>1, <2>1, SameQueryFresh
<1>4. call' = [call EXCEPT ![c] = AfterFetch(r)] \/ call' = [call EXCEPT ![c] = q]
    BY DEF Fetch
<1> QED BY <1>1, <1>2, <1>3, <1>4, OneCallAged

\* The source reads its states now.
LEMMA SourceReadsAged ==
    ASSUME TypeInv, TypeInv', TimeInv, AgeInv, NEW c \in Caller, NEW known, SourceReads(c, known)
    PROVE  AgeInv'
<1> DEFINE r == call[c]
           q == call'[c]
<1>1. /\ r.pc = "sent" /\ now' = now /\ r \in CallRecord /\ FreshEnough(r, now) /\ now \in Nat
    BY CallAtSource DEF SourceReads
<1>2. call' = [call EXCEPT ![c] = q] /\ q \in CallRecord
    BY DEF SourceReads, TypeInv, CallsInv
<1>3. /\ q.src = r.src /\ q.asking = r.asking /\ q.failed = r.failed /\ q.m = r.m
      /\ Spent(q, now) = Spent(r, now)
    BY <1>1 DEF SourceReads, TypeInv, CallsInv, CallRecord, Spent
<1>4. FreshEnough(q, now)
    BY <1>1, <1>2, <1>3, SameQueryFresh
<1> QED BY <1>1, <1>2, <1>4, OneCallAged

\* The expired states shown instead are of a source that failed.
LEMMA QueryFailsAged ==
    ASSUME TypeInv, TypeInv', TimeInv, AgeInv, NEW c \in Caller, QueryFails(c) PROVE AgeInv'
<1> DEFINE r == call[c]
           f == r.failed \cup {Source(r)}
           n == IF r.asking = "expired" THEN Fallback(r) ELSE r.m
           q == [r EXCEPT !.failed = f, !.m = n]
<1>1. /\ r.pc \in {"sent", "read"} /\ now' = now /\ r \in CallRecord /\ FreshEnough(r, now)
      /\ now \in Nat /\ sources = Sources /\ r.src \in DOMAIN Sources /\ r.todo = <<>>
      /\ r.sent <= now /\ r.src >= 1 /\ Source(r) \in ToSet(Sources) /\ QueryInTime(r, now)
    BY CallAtSource DEF QueryFails, Stage
<1>2. n \in Results /\ f \in SUBSET ToSet(Sources)
    BY <1>1, FallbackTyped DEF CallRecord
<1>3. call' = [call EXCEPT ![c] = AfterFetch(q)]
    BY <1>1 DEF QueryFails, CallRecord
<1>4. \A h \in Host : \A i \in DOMAIN n[h] :
          n[h][i].source \in f \/ \E j \in DOMAIN r.m[h] : n[h][i] = r.m[h][j]
    BY <1>1, FallbackOfSource
<1> HIDE DEF n
<1>5. /\ q \in CallRecord /\ q.src = r.src /\ q.todo = r.todo /\ q.sent = r.sent
      /\ q.failed = f /\ r.failed \subseteq f /\ q.m = n /\ q.pc = r.pc /\ q.asking = r.asking
    BY <1>1, <1>2 DEF CallRecord
<1> HIDE DEF f, q
<1>6. Spent(q, now) = r.sent /\ Spent(r, now) = r.sent /\ Budget(q) = Budget(r)
    BY <1>1, <1>5 DEF Spent, Budget, QueriesBefore
<1>7. r.sent \in Nat /\ Budget(r) \in Nat
    BY <1>1, BudgetType DEF CallRecord
<1>8. FreshEnough(q, now)
    <2>1. \A h \in Host : \A i \in DOMAIN q.m[h] :
              q.m[h][i].source \in q.failed \/ \E j \in DOMAIN r.m[h] : q.m[h][i] = r.m[h][j]
        BY <1>4, <1>5
    <2>2. /\ q.src >= 1 /\ r.failed \subseteq q.failed
          /\ Spent(q, now) + Budget(r) <= Spent(r, now) + Budget(q)
        BY <1>1, <1>5, <1>6, <1>7
    <2> QED BY <1>1, <1>5, <2>1, <2>2, StaysFresh
<1>9. now <= Spent(q, now) + Timeout
    BY <1>1, <1>6 DEF QueryInTime
<1>10. FreshEnough(AfterFetch(q), now)
    BY <1>1, <1>5, <1>8, <1>9, AfterFetchFresh
<1> QED BY <1>1, <1>3, <1>10, OneCallAged

\* An answer is at most a timeout old.
LEMMA PutAged ==
    ASSUME TypeInv, TypeInv', TimeInv, AgeInv, NEW c \in Caller, Put(c) PROVE AgeInv'
<1> DEFINE r == call[c]
<1>1. /\ r.pc \in {"read", "put"} /\ now' = now /\ r \in CallRecord /\ FreshEnough(r, now)
      /\ now \in Nat /\ sources = Sources /\ r.src \in DOMAIN Sources /\ r.todo = <<>>
      /\ r.sent <= now /\ r.src >= 1 /\ Source(r) \in ToSet(Sources) /\ QueryInTime(r, now)
      /\ Stage(r, now) /\ r.sent \in Nat
    BY CallAtSource DEF Put, Stage
<1>2. CASE call' = [call EXCEPT ![c] = AfterFetch([r EXCEPT !.m = Merged(r)])]
    <2>1. [r EXCEPT !.m = Merged(r)] = r
        BY <1>1 DEF CallRecord, Merged
    <2>2. now <= Spent(r, now) + Timeout
        BY <1>1 DEF Spent, QueryInTime
    <2>3. FreshEnough(AfterFetch(r), now)
        BY <1>1, <2>2, AfterFetchFresh
    <2> QED BY <1>1, <1>2, <2>1, <2>3, OneCallAged
<1>3. ASSUME NEW h \in r.answer,
             call' = [call EXCEPT ![c].pc = "put",
                                  ![c].answer = @ \ {h},
                                  ![c].m = AddState(@, Source(r), h, r.seen)]
      PROVE  AgeInv'
    <2> DEFINE q == call'[c]
    <2>1. call' = [call EXCEPT ![c] = q] /\ q \in CallRecord
        BY <1>3 DEF TypeInv, CallsInv
    <2>2. q = [r EXCEPT !.pc = "put", !.answer = @ \ {h}, !.m = AddState(@, Source(r), h, r.seen)]
        BY <1>3 DEF TypeInv, CallsInv
    <2>3. /\ q.src = r.src /\ q.asking = r.asking /\ q.failed = r.failed
          /\ q.m = AddState(r.m, Source(r), h, r.seen)
          /\ Spent(q, now) = r.sent /\ Spent(r, now) = r.sent
        BY <1>1, <2>2 DEF CallRecord, Spent
    <2>4. h \in Host /\ r.seen \in Nat /\ r.sent <= r.seen
        BY <1>1, <1>3 DEF CallRecord, QueryInTime
    <2>5. r.sent <= r.seen + Budget(q)
        <3>1. Budget(q) \in Nat
            BY <1>1, <2>1, <2>3, BudgetType
        <3> QED BY <1>1, <2>4, <3>1
    <2>6. FreshEnough(q, now)
        BY <1>1, <2>1, <2>3, <2>4, <2>5, AddsFresh
    <2> QED BY <1>1, <2>1, <2>6, OneCallAged
<1> QED BY <1>2, <1>3 DEF Put

\* A new call shows nothing.
LEMMA BeginAged ==
    ASSUME TypeInv, AgeInv, NEW c \in Caller, NEW names, Begin(c, names) PROVE AgeInv'
<1> DEFINE q == AtSource([Idle EXCEPT !.names = names,
                                      !.held = {k \in DOMAIN cache : k[2] \in ToSet(names)}], 1)
<1>1. call' = [call EXCEPT ![c] = q] /\ now' = now
    BY DEF Begin
<1>2. q.m = [h \in Host |-> <<>>]
    BY DEF AtSource, Idle
<1>3. FreshEnough(q, now)
    BY <1>2 DEF FreshEnough
<1> QED BY <1>1, <1>3, OneCallAged

\* A call that has ended shows nothing.
LEMMA ReturnAged == ASSUME TypeInv, AgeInv, NEW c \in Caller, Return(c) PROVE AgeInv'
<1>1. call' = [call EXCEPT ![c] = Idle] /\ now' = now
    BY DEF Return
<1>2. FreshEnough(Idle, now)
    BY DEF FreshEnough, Idle
<1> QED BY <1>1, <1>2, OneCallAged

\* Time passes only while every query is within its timeout.
LEMMA TickAged == ASSUME TypeInv, AgeInv, Tick PROVE AgeInv'
<1>1. call' = call /\ now' = now + 1
    BY DEF Tick
<1>2. ASSUME NEW c \in Caller, call[c].pc # "idle"
      PROVE  FreshEnough(call[c], now + 1)
    <2>1. call[c].pc \in {"sent", "read"}
        BY <1>2 DEF Tick, MayWait
    <2>2. FreshEnough(call[c], now)
        BY <1>2 DEF AgeInv
    <2>3. Spent(call[c], now + 1) = Spent(call[c], now)
        BY <2>1 DEF Spent
    <2> QED BY <2>2, <2>3 DEF FreshEnough
<1> QED BY <1>1, <1>2 DEF AgeInv

\* Every step keeps AgeInv.
LEMMA NextKeepsAge == TypeInv /\ TypeInv' /\ TimeInv /\ AgeInv /\ [Next]_vars => AgeInv'
<1> SUFFICES ASSUME TypeInv, TypeInv', TimeInv, AgeInv, [Next]_vars PROVE AgeInv'
    OBVIOUS
<1>1. CASE AddSourceWaits \/ AddSource \/ UNCHANGED vars
    <2>1. call' = call /\ now' = now
        BY <1>1 DEF AddSourceWaits, AddSource, vars
    <2> QED BY <2>1 DEF AgeInv, FreshEnough, Spent
<1>2. CASE GetNodeById
    BY <1>2, BeginAged DEF GetNodeById, Caller
<1>3. CASE GetAllNodes
    BY <1>3, BeginAged DEF GetAllNodes, Caller
<1>4. ASSUME NEW c \in Caller, Goes(c) PROVE AgeInv'
    BY <1>4, LookUpAged, FetchAged, SourceReadsAged, QueryFailsAged, PutAged, ReturnAged DEF Goes
<1>5. CASE Tick
    BY <1>5, TickAged
<1> QED BY <1>1, <1>2, <1>3, <1>4, <1>5 DEF Next

\* The age of a state in the result of a call, of a source that has not failed, is
\* within the ttl and a timeout for each query made so far.
THEOREM AgesInvariant == Spec => []AgeInv
<1>1. Init => AgeInv
    BY DEF Init, AgeInv, Idle
<1> QED BY <1>1, NextKeepsAge, ServiceTypes, TimesInvariant, PTL DEF Spec

\* A reply holds a state older than MaxAge only of a source that failed in this very
\* call (StaleOnlyIfSourceFailed), however the calls interleave.
THEOREM StaleMeansFailed == Spec => []StaleOnlyIfSourceFailed
<1>1. TypeInv /\ AgeInv => StaleOnlyIfSourceFailed
    <2> SUFFICES ASSUME TypeInv, AgeInv, NEW c \in Replied, NEW h \in Host,
                        NEW i \in DOMAIN call[c].m[h], now > call[c].m[h][i].seen + MaxAge,
                        call[c].m[h][i].source \notin call[c].failed
                 PROVE  FALSE
        BY DEF StaleOnlyIfSourceFailed
    <2> DEFINE r == call[c]
    <2>1. /\ c \in Caller /\ r.pc = "replied" /\ r \in CallRecord /\ sources = Sources
          /\ Stage(r, now) /\ now \in Nat
        BY CallTyped DEF Replied
    <2>2. now <= r.m[h][i].seen + Budget(r)
        BY <2>1 DEF AgeInv, FreshEnough, Spent
    <2>3. Budget(r) = MaxAge /\ MaxAge \in Nat
        <3>1. QueriesBefore(r) = 2 * Len(sources) /\ Len(sources) \in Nat
            BY <2>1, SourcesSeq DEF Stage, QueriesBefore
        <3>2. \A n \in Nat : Timeout * (2 * n) = 2 * Timeout * n /\ 2 * Timeout * n \in Nat
            BY TimesAssumption
        <3>3. Timeout * QueriesBefore(r) = 2 * Timeout * Len(sources)
            BY <3>1, <3>2
        <3>4. Budget(r) = MaxAge
            BY <3>3 DEF Budget, MaxAge
        <3>5. Budget(r) \in Nat
            BY <2>1, SourcesSeq, BudgetType DEF Stage
        <3> QED BY <3>4, <3>5
    <2>4. r.m[h][i].seen \in Nat
        BY <2>1, ResultState
    <2> QED BY <2>1, <2>2, <2>3, <2>4
<1> QED BY <1>1, ServiceTypes, AgesInvariant, PTL
----------------------------------------------------------------------------
(* Which states the result holds *)

ShownIn(m, s, h) == \E i \in DOMAIN m[h] : m[h][i].source = s

\* The hosts of which r is still to take a state of its source in, if it has one.
Coming(r) ==
    IF r.pc = "lookup" THEN ToSet(r.todo) \cup Asked(r)
    ELSE IF r.asking = "missed" THEN {}
    ELSE IF r.pc \in {"read", "put"} THEN r.answer
    ELSE Asked(r)

\* The states r must show: D is what the cache holds.
Expected(r, D, j, h) ==
    <<Sources[j], h>> \in r.held \ r.denied => <<Sources[j], h>> \in D /\ h \in ToSet(r.names)

ShowsLatest(r, D) ==
    \A h \in Host, j \in DOMAIN Sources :
        /\ Expected(r, D, j, h)
        /\ <<Sources[j], h>> \in r.held \ r.denied =>
              /\ j < r.src => ShownIn(r.m, Sources[j], h)
              /\ j = r.src => h \in Coming(r) \/ ShownIn(r.m, Sources[j], h)

\* The inductive invariant.
LatestInv == \A c \in Caller : call[c].pc # "idle" => ShowsLatest(call[c], DOMAIN cache)

\* Nothing is to come any more from the source of r.
SourceDone(r, D) ==
    \A h \in Host, j \in DOMAIN Sources :
        /\ Expected(r, D, j, h)
        /\ <<Sources[j], h>> \in r.held \ r.denied => (j <= r.src => ShownIn(r.m, Sources[j], h))

\* AddState shows the state it adds, and what was shown.
LEMMA AddStateShows ==
    ASSUME NEW m \in Results, NEW s \in ToSet(Sources), NEW h \in Host, NEW x \in Nat
    PROVE  /\ ShownIn(AddState(m, s, h, x), s, h)
           /\ \A t, g : g \in Host /\ ShownIn(m, t, g) => ShownIn(AddState(m, s, h, x), t, g)
<1> DEFINE z == [source |-> s, seen |-> x]
<1>1. PICK n : n = AddState(m, s, h, x)
    OBVIOUS
<1>2. n[h] = Append(m[h], z) /\ \A g \in Host \ {h} : n[g] = m[g]
    BY <1>1, AddStateTyped
<1>3. m[h] \in Seq(State) /\ z \in State /\ z.source = s
    BY DEF Results, State
<1> HIDE DEF z
<1>4. /\ Len(m[h]) + 1 \in DOMAIN n[h] /\ n[h][Len(m[h]) + 1] = z
      /\ \A i \in DOMAIN m[h] : i \in DOMAIN n[h] /\ n[h][i] = m[h][i]
    BY <1>2, <1>3, AppendProperties, LenProperties
<1>5. ShownIn(n, s, h)
    BY <1>3, <1>4 DEF ShownIn
<1>6. ASSUME NEW t, NEW g \in Host, ShownIn(m, t, g) PROVE ShownIn(n, t, g)
    BY <1>2, <1>4, <1>6 DEF ShownIn
<1> QED BY <1>1, <1>5, <1>6

\* Fallback shows a state of each host that was found expired, and drops none.
LEMMA FallbackShows ==
    ASSUME NEW r \in CallRecord, Source(r) \in ToSet(Sources)
    PROVE  /\ \A i \in DOMAIN r.expired : ShownIn(Fallback(r), Source(r), r.expired[i].host)
           /\ \A t, g : g \in Host /\ ShownIn(r.m, t, g) => ShownIn(Fallback(r), t, g)
<1> DEFINE Good(s, m) ==
               /\ \A i \in s : ShownIn(m, Source(r), r.expired[i].host)
               /\ \A t, g : g \in Host /\ ShownIn(r.m, t, g) => ShownIn(m, t, g)
           A == {p \in (SUBSET DOMAIN r.expired) \X Results : Good(p[1], p[2])}
<1>1. <<{}, r.m>> \in A
    <2>1. r.m \in Results /\ Good({}, r.m)
        BY DEF CallRecord
    <2> HIDE DEF Good
    <2> QED BY <2>1
<1>2. \A s \in SUBSET DOMAIN r.expired : \A x \in DOMAIN r.expired \ s :
          \A m \in Results : <<s, m>> \in A =>
             <<s \cup {x}, AddState(m, Source(r), r.expired[x].host, r.expired[x].seen)>> \in A
    <2> SUFFICES ASSUME NEW s \in SUBSET DOMAIN r.expired, NEW x \in DOMAIN r.expired \ s,
                        NEW m \in Results, <<s, m>> \in A
                 PROVE  <<s \cup {x}, AddState(m, Source(r), r.expired[x].host,
                                              r.expired[x].seen)>> \in A
        OBVIOUS
    <2>1. Good(s, m) /\ s \cup {x} \in SUBSET DOMAIN r.expired
        <3> HIDE DEF Good
        <3> QED OBVIOUS
    <2>2. PICK n : n = AddState(m, Source(r), r.expired[x].host, r.expired[x].seen)
        OBVIOUS
    <2>3. /\ n \in Results /\ ShownIn(n, Source(r), r.expired[x].host)
          /\ \A t, g : g \in Host /\ ShownIn(m, t, g) => ShownIn(n, t, g)
        BY <2>2, ExpiredTyped, AddStateTyped, AddStateShows
    <2>4. Good(s \cup {x}, n)
        BY <2>1, <2>3, ExpiredTyped
    <2> HIDE DEF Good
    <2> QED BY <2>1, <2>2, <2>3, <2>4
<1>3. <<DOMAIN r.expired, Fallback(r)>> \in A
    <2> HIDE DEF A
    <2> QED BY <1>1, <1>2, FallbackInduction
<1> QED BY <1>3

\* A call at its next source expects all the names again.
LEMMA AtSourceShows ==
    ASSUME sources = Sources, NEW r \in CallRecord, NEW D, NEW i \in Nat,
           \A h \in Host, j \in DOMAIN Sources :
               /\ Expected(r, D, j, h)
               /\ <<Sources[j], h>> \in r.held \ r.denied => (j < i => ShownIn(r.m, Sources[j], h))
    PROVE  ShowsLatest(AtSource(r, i), D)
<1> DEFINE q == AtSource(r, i)
<1>1. /\ q.held = r.held /\ q.denied = r.denied /\ q.names = r.names /\ q.m = r.m
      /\ q.src = i /\ q.todo = r.names
      /\ q.pc = IF i \in DOMAIN Sources THEN "lookup" ELSE "replied"
    BY DEF AtSource, CallRecord
<1>2. i \in DOMAIN Sources => ToSet(r.names) \subseteq Coming(q)
    BY <1>1 DEF Coming
<1> HIDE DEF q
<1>3. ShowsLatest(q, D)
    BY <1>1, <1>2 DEF ShowsLatest, Expected
<1> QED BY <1>3 DEF q

\* A call moved on after its query expects what it has not asked for yet.
LEMMA AfterFetchShows ==
    ASSUME sources = Sources, NEW r \in CallRecord, NEW D, SourceDone(r, D), r.src \in DOMAIN Sources
    PROVE  ShowsLatest(AfterFetch(r), D)
<1>1. r.src \in Nat /\ DOMAIN Sources \subseteq Nat
    BY SourcesSeq
<1>2. CASE r.asking = "expired"
    <2> DEFINE q == AfterFetch(r)
    <2>1. /\ q.held = r.held /\ q.denied = r.denied /\ q.names = r.names /\ q.m = r.m
          /\ q.src = r.src
        BY <1>2 DEF AfterFetch, CallRecord
    <2> HIDE DEF q
    <2>2. ShowsLatest(q, D)
        BY <1>1, <2>1 DEF SourceDone, ShowsLatest, Expected
    <2> QED BY <2>2 DEF q
<1>3. CASE r.asking # "expired"
    <2>1. \A h \in Host, j \in DOMAIN Sources :
               /\ Expected(r, D, j, h)
               /\ <<Sources[j], h>> \in r.held \ r.denied =>
                     (j < r.src + 1 => ShownIn(r.m, Sources[j], h))
        BY <1>1 DEF SourceDone
    <2>2. ShowsLatest(AtSource(r, r.src + 1), D)
        BY <1>1, <2>1, AtSourceShows
    <2> QED BY <1>3, <2>2 DEF AfterFetch
<1> QED BY <1>2, <1>3

\* A step of one call keeps LatestInv if that call keeps its part of it.
LEMMA OneCallLatest ==
    ASSUME LatestInv, TypeInv, NEW c \in Caller, NEW q, ShowsLatest(q, DOMAIN cache'),
           call' = [call EXCEPT ![c] = q], DOMAIN cache \subseteq DOMAIN cache'
    PROVE  LatestInv'
<1>1. call' = [d \in Caller |-> IF d = c THEN q ELSE call[d]]
    BY DEF TypeInv, CallsInv
<1>2. ASSUME NEW d \in Caller, call'[d].pc # "idle"
      PROVE  ShowsLatest(call'[d], DOMAIN cache')
    <2>1. CASE d = c
        BY <1>1, <2>1
    <2>2. CASE d # c
        <3>1. call'[d] = call[d] /\ ShowsLatest(call[d], DOMAIN cache)
            BY <1>1, <1>2, <2>2 DEF LatestInv
        <3>2. PICK e : e = call[d]
            OBVIOUS
        <3>3. ShowsLatest(e, DOMAIN cache')
            BY <3>1, <3>2 DEF ShowsLatest, Expected
        <3> QED BY <3>1, <3>2, <3>3
    <2> QED BY <2>1, <2>2
<1> QED BY <1>2 DEF LatestInv, ShowsLatest, Expected

\* What a step of call c at a source finds.
LEMMA CallLatest ==
    ASSUME TypeInv, LatestInv, NEW c \in Caller, call[c].pc \notin {"idle", "replied"}
    PROVE  /\ sources = Sources /\ call[c] \in CallRecord /\ Stage(call[c], now)
           /\ call[c].src \in DOMAIN Sources /\ Source(call[c]) = Sources[call[c].src]
           /\ Source(call[c]) \in ToSet(Sources) /\ call[c].src \in Nat
           /\ ShowsLatest(call[c], DOMAIN cache)
<1>1. /\ sources = Sources /\ call[c] \in CallRecord /\ Stage(call[c], now)
      /\ call[c].src \in DOMAIN Sources /\ Source(call[c]) \in ToSet(Sources)
    BY CallTyped
<1> QED BY <1>1, SourceOfCall, SourcesSeq DEF LatestInv

\* A step by which r loses nothing it shows, expects the same, and shows what comes no more.
LEMMA StepShows ==
    ASSUME NEW r \in CallRecord, NEW q, NEW D, NEW E, ShowsLatest(r, D), D \subseteq E,
           q.held = r.held, q.names = r.names, q.src = r.src, r.denied \subseteq q.denied,
           \A t, g : g \in Host /\ ShownIn(r.m, t, g) => ShownIn(q.m, t, g),
           r.src \in DOMAIN Sources,
           \A h \in Coming(r) : <<Sources[r.src], h>> \in D =>
               h \in Coming(q) \/ ShownIn(q.m, Sources[r.src], h) \/ <<Sources[r.src], h>> \in q.denied
    PROVE  ShowsLatest(q, E)
<1> SUFFICES ASSUME NEW h \in Host, NEW j \in DOMAIN Sources, <<Sources[j], h>> \in q.held \ q.denied
             PROVE  /\ <<Sources[j], h>> \in E /\ h \in ToSet(q.names)
                    /\ j < q.src => ShownIn(q.m, Sources[j], h)
                    /\ j = q.src => h \in Coming(q) \/ ShownIn(q.m, Sources[j], h)
    BY DEF ShowsLatest, Expected
<1>1. <<Sources[j], h>> \in r.held \ r.denied
    OBVIOUS
<1>2. /\ <<Sources[j], h>> \in D /\ h \in ToSet(r.names)
      /\ j < r.src => ShownIn(r.m, Sources[j], h)
      /\ j = r.src => h \in Coming(r) \/ ShownIn(r.m, Sources[j], h)
    BY <1>1 DEF ShowsLatest, Expected
<1> QED BY <1>2

\* A name that is looked up is shown, asked for as expired, or not held any more.
LEMMA LookUpLatest ==
    ASSUME TypeInv, TypeInv', LatestInv, NEW c \in Caller, LookUp(c) PROVE LatestInv'
<1> DEFINE r == call[c]
           h == Head(r.todo)
           k == <<Source(r), h>>
           s == [r EXCEPT !.todo = Tail(r.todo)]
           q == call'[c]
           D == DOMAIN cache
<1>1. /\ r.pc = "lookup" /\ r \in CallRecord /\ ShowsLatest(r, D) /\ Stage(r, now)
      /\ r.src \in DOMAIN Sources /\ Source(r) = Sources[r.src] /\ Source(r) \in ToSet(Sources)
      /\ r.asking = "expired"
    BY CallLatest DEF LookUp, Stage
<1>2. call' = [call EXCEPT ![c] = q] /\ cache' = cache /\ q \in CallRecord
    BY DEF LookUp, TypeInv, CallsInv
<1>3. \/ /\ r.todo = <<>>
         /\ q = [r EXCEPT !.pc = "fetch"]
      \/ /\ r.todo # <<>> /\ k \notin D
         /\ q = [s EXCEPT !.missed = Append(@, h)]
      \/ /\ r.todo # <<>> /\ k \in D
         /\ q = [s EXCEPT !.expired = Append(@, [host |-> h, seen |-> cache[k].seen])]
      \/ /\ r.todo # <<>> /\ k \in D
         /\ q = [s EXCEPT !.m = AddState(@, Source(r), h, cache[k].seen)]
    BY DEF LookUp, TypeInv, CallsInv
<1>4. q.held = r.held /\ q.names = r.names /\ q.src = r.src /\ q.denied = r.denied
      /\ q.asking = "expired"
    BY <1>1, <1>3 DEF CallRecord
<1>5. ASSUME r.todo # <<>>
      PROVE  h \in Host /\ ToSet(r.todo) \subseteq ToSet(Tail(r.todo)) \cup {h}
    <2>1. r.todo \in Seq(Host)
        BY <1>1 DEF CallRecord
    <2>2. /\ Head(r.todo) \in Host /\ Len(Tail(r.todo)) = Len(r.todo) - 1
          /\ \A i \in 1..Len(Tail(r.todo)) : Tail(r.todo)[i] = r.todo[i + 1]
          /\ Tail(r.todo) \in Seq(Host)
        BY <1>5, <2>1, HeadTailProperties
    <2>3. DOMAIN r.todo = 1..Len(r.todo) /\ Len(r.todo) \in Nat
          /\ DOMAIN Tail(r.todo) = 1..Len(Tail(r.todo)) /\ r.todo[1] = Head(r.todo)
        BY <2>1, <2>2, LenProperties
    <2>4. ASSUME NEW i \in DOMAIN r.todo PROVE r.todo[i] \in ToSet(Tail(r.todo)) \cup {h}
        <3>1. CASE i = 1
            BY <2>3, <3>1
        <3>2. CASE i # 1
            <4>1. i - 1 \in DOMAIN Tail(r.todo) /\ Tail(r.todo)[i - 1] = r.todo[i]
                BY <2>2, <2>3, <3>2
            <4> QED BY <4>1 DEF ToSet
        <3> QED BY <3>1, <3>2
    <2> QED BY <2>2, <2>4 DEF ToSet
<1>6. CASE r.todo = <<>> /\ q = [r EXCEPT !.pc = "fetch"]
    <2>1. Coming(r) = Asked(r) /\ Coming(q) = Asked(q) /\ Asked(q) = Asked(r) /\ q.m = r.m
        BY <1>1, <1>6 DEF Coming, CallRecord, ToSet, Asked
    <2>2. ShowsLatest(q, D)
        BY <1>1, <1>4, <2>1, StepShows
    <2> QED BY <1>2, <2>2, OneCallLatest
<1>7. CASE r.todo # <<>> /\ k \notin D /\ q = [s EXCEPT !.missed = Append(@, h)]
    <2>1. Asked(q) = Asked(r) /\ q.m = r.m /\ q.pc = "lookup" /\ q.todo = Tail(r.todo)
        BY <1>1, <1>7 DEF CallRecord, Asked
    <2>2. Coming(r) \subseteq Coming(q) \cup {h}
        BY <1>1, <1>5, <1>7, <2>1 DEF Coming
    <2>3. \A g \in Coming(r) : <<Sources[r.src], g>> \in D => g \in Coming(q)
        BY <1>1, <1>7, <2>2
    <2>4. ShowsLatest(q, D)
        BY <1>1, <1>4, <2>1, <2>3, StepShows
    <2> QED BY <1>2, <2>4, OneCallLatest
<1>8. CASE /\ r.todo # <<>> /\ k \in D
           /\ q = [s EXCEPT !.expired = Append(@, [host |-> h, seen |-> cache[k].seen])]
    <2> DEFINE e == [host |-> h, seen |-> cache[k].seen]
    <2>1. /\ q.m = r.m /\ q.pc = "lookup" /\ q.todo = Tail(r.todo) /\ q.expired = Append(r.expired, e)
        BY <1>1, <1>8 DEF CallRecord
    <2>2. r.expired \in Seq(Expiry) /\ e \in Expiry /\ e.host = h
        BY <1>1, <1>5, <1>8 DEF CallRecord, Expiry, TypeInv, CacheInv
    <2> HIDE DEF e
    <2>3. /\ \A i \in DOMAIN r.expired : i \in DOMAIN q.expired /\ q.expired[i] = r.expired[i]
          /\ Len(r.expired) + 1 \in DOMAIN q.expired /\ q.expired[Len(r.expired) + 1] = e
        BY <2>1, <2>2, AppendProperties, LenProperties
    <2>4. Asked(r) \cup {h} \subseteq Asked(q)
        BY <1>1, <1>4, <2>2, <2>3 DEF Asked
    <2>5. Coming(r) \subseteq Coming(q)
        BY <1>1, <1>5, <1>8, <2>1, <2>4 DEF Coming
    <2>6. ShowsLatest(q, D)
        BY <1>1, <1>4, <2>1, <2>5, StepShows
    <2> QED BY <1>2, <2>6, OneCallLatest
<1>9. CASE /\ r.todo # <<>> /\ k \in D
           /\ q = [s EXCEPT !.m = AddState(@, Source(r), h, cache[k].seen)]
    <2>1. cache[k].seen \in Nat
        BY <1>9 DEF TypeInv, CacheInv
    <2>2. PICK x \in Nat : x = cache[k].seen
        BY <2>1
    <2>3. /\ q.m = AddState(r.m, Source(r), h, x) /\ q.pc = "lookup" /\ q.todo = Tail(r.todo)
          /\ Asked(q) = Asked(r) /\ r.m \in Results
        BY <1>1, <1>9, <2>2 DEF CallRecord, Asked
    <2>4. /\ ShownIn(q.m, Source(r), h)
          /\ \A t, g : g \in Host /\ ShownIn(r.m, t, g) => ShownIn(q.m, t, g)
        BY <1>1, <1>5, <1>9, <2>3, AddStateShows
    <2>5. Coming(r) \subseteq Coming(q) \cup {h}
        BY <1>1, <1>5, <1>9, <2>3 DEF Coming
    <2>6. ShowsLatest(q, D)
        BY <1>1, <1>4, <2>4, <2>5, StepShows
    <2> QED BY <1>2, <2>6, OneCallLatest
<1> QED BY <1>3, <1>6, <1>7, <1>8, <1>9

\* A query with no names has nothing to show.
LEMMA FetchLatest ==
    ASSUME TypeInv, TypeInv', LatestInv, NEW c \in Caller, Fetch(c) PROVE LatestInv'
<1> DEFINE r == call[c]
           q == [r EXCEPT !.pc = "sent", !.sent = now]
           D == DOMAIN cache
<1>1. /\ r.pc = "fetch" /\ r \in CallRecord /\ ShowsLatest(r, D) /\ r.src \in Nat
      /\ r.src \in DOMAIN Sources /\ sources = Sources /\ cache' = cache
    BY CallLatest DEF Fetch
<1>2. CASE Asked(r) = {} /\ call' = [call EXCEPT ![c] = AfterFetch(r)]
    <2>1. Coming(r) = {}
        BY <1>1, <1>2 DEF Coming
    <2>2. SourceDone(r, D)
        BY <1>1, <2>1, SourcesSeq DEF SourceDone, ShowsLatest
    <2>3. ShowsLatest(AfterFetch(r), D)
        BY <1>1, <2>2, AfterFetchShows
    <2> QED BY <1>1, <1>2, <2>3, OneCallLatest
<1>3. CASE call' = [call EXCEPT ![c] = q]
    <2>1. /\ q.held = r.held /\ q.names = r.names /\ q.src = r.src /\ q.denied = r.denied
          /\ q.m = r.m /\ Coming(q) = Coming(r)
        BY <1>1 DEF CallRecord, Coming, Asked
    <2> HIDE DEF q
    <2>2. ShowsLatest(q, D)
        BY <1>1, <2>1, StepShows
    <2>3. call' = [call EXCEPT ![c] = q]
        BY <1>3 DEF q
    <2> QED BY <1>1, <2>2, <2>3, OneCallLatest
<1> QED BY <1>2, <1>3 DEF Fetch

\* What the source does not know is denied.
LEMMA SourceReadsLatest ==
    ASSUME TypeInv, TypeInv', LatestInv, NEW c \in Caller, NEW known, SourceReads(c, known)
    PROVE  LatestInv'
<1> DEFINE r == call[c]
           d == r.denied \cup ({Source(r)} \X (Asked(r) \ known))
           q == [r EXCEPT !.pc = "read", !.answer = known, !.seen = now, !.denied = d]
           D == DOMAIN cache
<1>1. /\ r.pc = "sent" /\ r \in CallRecord /\ ShowsLatest(r, D)
      /\ r.src \in DOMAIN Sources /\ Source(r) = Sources[r.src] /\ cache' = cache
    BY CallLatest DEF SourceReads
<1>2. call' = [call EXCEPT ![c] = q]
    BY <1>1 DEF SourceReads, CallRecord
<1>3. /\ q.held = r.held /\ q.names = r.names /\ q.src = r.src /\ q.denied = d
      /\ q.m = r.m /\ q.pc = "read" /\ q.answer = known /\ q.asking = r.asking
    BY <1>1 DEF CallRecord
<1>4. \A h \in Coming(r) : h \in Coming(q) \/ <<Sources[r.src], h>> \in q.denied
    <2>1. ASSUME NEW h \in Coming(r)
          PROVE  r.asking # "missed" /\ h \in Asked(r)
        BY <1>1 DEF Coming
    <2> QED BY <1>1, <1>3, <2>1 DEF Coming
<1> HIDE DEF q
<1>5. r.denied \subseteq q.denied
    BY <1>3
<1>6. ShowsLatest(q, D)
    BY <1>1, <1>3, <1>4, <1>5, StepShows
<1> QED BY <1>1, <1>2, <1>6, OneCallLatest

\* Instead of what does not come the expired states are shown.
LEMMA QueryFailsLatest ==
    ASSUME TypeInv, TypeInv', LatestInv, NEW c \in Caller, QueryFails(c) PROVE LatestInv'
<1> DEFINE r == call[c]
           f == r.failed \cup {Source(r)}
           n == IF r.asking = "expired" THEN Fallback(r) ELSE r.m
           q == [r EXCEPT !.failed = f, !.m = n]
           D == DOMAIN cache
<1>1. /\ r.pc \in {"sent", "read"} /\ r \in CallRecord /\ ShowsLatest(r, D) /\ r.src \in Nat
      /\ r.src \in DOMAIN Sources /\ Source(r) = Sources[r.src] /\ Source(r) \in ToSet(Sources)
      /\ sources = Sources /\ cache' = cache /\ Stage(r, now)
    BY CallLatest DEF QueryFails
<1>2. call' = [call EXCEPT ![c] = AfterFetch(q)]
    BY <1>1 DEF QueryFails, CallRecord
<1>3. /\ \A h \in Coming(r) : ShownIn(n, Source(r), h)
      /\ \A t, g : g \in Host /\ ShownIn(r.m, t, g) => ShownIn(n, t, g)
    <2>1. CASE r.asking = "expired"
        <3>1. Coming(r) \subseteq Asked(r)
            BY <1>1, <2>1 DEF Coming, Stage
        <3>2. \A h \in Asked(r) : \E i \in DOMAIN r.expired : r.expired[i].host = h
            BY <2>1 DEF Asked
        <3> QED BY <1>1, <2>1, <3>1, <3>2, FallbackShows
    <2>2. CASE r.asking # "expired"
        <3>1. r.asking = "missed"
            BY <1>1, <2>2 DEF CallRecord
        <3> QED BY <1>1, <2>2, <3>1 DEF Coming
    <2> QED BY <2>1, <2>2
<1>4. n \in Results /\ f \in SUBSET ToSet(Sources)
    BY <1>1, FallbackTyped DEF CallRecord
<1> HIDE DEF n, f
<1>5. /\ q.held = r.held /\ q.names = r.names /\ q.src = r.src /\ q.denied = r.denied
      /\ q.m = n /\ q \in CallRecord
    BY <1>1, <1>4 DEF CallRecord
<1> HIDE DEF q
<1>6. SourceDone(q, D)
    <2> SUFFICES ASSUME NEW h \in Host, NEW j \in DOMAIN Sources
                 PROVE  /\ Expected(q, D, j, h)
                        /\ <<Sources[j], h>> \in q.held \ q.denied =>
                               (j <= q.src => ShownIn(q.m, Sources[j], h))
        BY DEF SourceDone
    <2>1. Expected(r, D, j, h)
        BY <1>1 DEF ShowsLatest
    <2>2. ASSUME <<Sources[j], h>> \in q.held \ q.denied, j <= q.src
          PROVE  ShownIn(q.m, Sources[j], h)
        <3>1. \/ j < r.src /\ ShownIn(r.m, Sources[j], h)
              \/ j = r.src /\ (h \in Coming(r) \/ ShownIn(r.m, Sources[j], h))
            BY <1>1, <1>5, <2>2, SourcesSeq DEF ShowsLatest
        <3> QED BY <1>1, <1>3, <1>5, <3>1
    <2> QED BY <1>5, <2>1, <2>2 DEF Expected
<1>7. ShowsLatest(AfterFetch(q), D)
    BY <1>1, <1>5, <1>6, AfterFetchShows
<1> QED BY <1>1, <1>2, <1>7, OneCallLatest

\* A state that is put is shown.
LEMMA PutLatest ==
    ASSUME TypeInv, TypeInv', LatestInv, NEW c \in Caller, Put(c) PROVE LatestInv'
<1> DEFINE r == call[c]
           D == DOMAIN cache
<1>1. /\ r.pc \in {"read", "put"} /\ r \in CallRecord /\ ShowsLatest(r, D) /\ r.src \in Nat
      /\ r.src \in DOMAIN Sources /\ Source(r) = Sources[r.src] /\ Source(r) \in ToSet(Sources)
      /\ sources = Sources
    BY CallLatest DEF Put
<1>2. CASE /\ r.answer = {} /\ UNCHANGED cache
           /\ call' = [call EXCEPT ![c] = AfterFetch([r EXCEPT !.m = Merged(r)])]
    <2>1. [r EXCEPT !.m = Merged(r)] = r
        BY <1>1 DEF CallRecord, Merged
    <2>2. Coming(r) = {}
        BY <1>1, <1>2 DEF Coming
    <2>3. SourceDone(r, D)
        BY <1>1, <2>2, SourcesSeq DEF SourceDone, ShowsLatest
    <2>4. ShowsLatest(AfterFetch(r), D)
        BY <1>1, <2>3, AfterFetchShows
    <2> QED BY <1>2, <2>1, <2>4, OneCallLatest
<1>3. ASSUME NEW h \in r.answer, AddUpdate(<<Source(r), h>>, r.seen),
             call' = [call EXCEPT ![c].pc = "put",
                                  ![c].answer = @ \ {h},
                                  ![c].m = AddState(@, Source(r), h, r.seen)]
      PROVE  LatestInv'
    <2> DEFINE q == call'[c]
    <2>1. call' = [call EXCEPT ![c] = q] /\ q \in CallRecord
        BY <1>3 DEF TypeInv, CallsInv
    <2>2. q = [r EXCEPT !.pc = "put", !.answer = @ \ {h}, !.m = AddState(@, Source(r), h, r.seen)]
        BY <1>3 DEF TypeInv, CallsInv
    <2>3. /\ q.held = r.held /\ q.names = r.names /\ q.src = r.src /\ q.denied = r.denied
          /\ q.m = AddState(r.m, Source(r), h, r.seen) /\ q.pc = "put" /\ q.answer = r.answer \ {h}
          /\ q.asking = r.asking
        BY <1>1, <2>2 DEF CallRecord
    <2>4. h \in Host /\ r.seen \in Nat /\ r.m \in Results
        BY <1>1, <1>3 DEF CallRecord
    <2>5. /\ ShownIn(q.m, Source(r), h)
          /\ \A t, g : g \in Host /\ ShownIn(r.m, t, g) => ShownIn(q.m, t, g)
        BY <1>1, <2>3, <2>4, AddStateShows
    <2>6. Coming(r) \subseteq Coming(q) \cup {h}
        BY <1>1, <2>3 DEF Coming
    <2>7. D \subseteq DOMAIN cache'
        BY <1>3 DEF AddUpdate
    <2>8. ShowsLatest(q, DOMAIN cache')
        BY <1>1, <2>3, <2>5, <2>6, <2>7, StepShows
    <2> QED BY <2>1, <2>7, <2>8, OneCallLatest
<1> QED BY <1>2, <1>3 DEF Put

\* A new call expects what the cache holds of the names, from every source.
LEMMA BeginLatest ==
    ASSUME TypeInv, LatestInv, NEW c \in Caller, NEW names \in Seq(Host), Begin(c, names)
    PROVE  LatestInv'
<1> DEFINE e == {k \in DOMAIN cache : k[2] \in ToSet(names)}
           q == [Idle EXCEPT !.names = names, !.held = e]
           D == DOMAIN cache
<1>1. call' = [call EXCEPT ![c] = AtSource(q, 1)] /\ cache' = cache
    BY DEF Begin
<1>2. sources = Sources
    BY AllSourcesAdded DEF Begin
<1>3. e \in SUBSET (ToSet(Sources) \X Host)
    BY <1>2 DEF TypeInv, CacheInv
<1>4. ASSUME NEW s, NEW h, <<s, h>> \in e PROVE <<s, h>> \in D /\ h \in ToSet(names)
    BY <1>4
<1> HIDE DEF e
<1>5. q \in CallRecord /\ q.held = e /\ q.names = names
    BY <1>3, IdleTyped DEF CallRecord, Idle
<1> HIDE DEF q
<1>6. ShowsLatest(AtSource(q, 1), D)
    <2>1. \A h \in Host, j \in DOMAIN Sources : Expected(q, D, j, h) /\ ~(j < 1)
        BY <1>4, <1>5, SourcesSeq DEF Expected
    <2> QED BY <1>2, <1>5, <2>1, AtSourceShows
<1> QED BY <1>1, <1>6, OneCallLatest

\* Every step keeps LatestInv.
LEMMA NextKeepsLatest == TypeInv /\ TypeInv' /\ LatestInv /\ [Next]_vars => LatestInv'
<1> SUFFICES ASSUME TypeInv, TypeInv', LatestInv, [Next]_vars PROVE LatestInv'
    OBVIOUS
<1>1. CASE AddSourceWaits \/ AddSource \/ Tick \/ UNCHANGED vars
    <2>1. call' = call /\ cache' = cache
        BY <1>1 DEF AddSourceWaits, AddSource, Tick, vars
    <2> QED BY <2>1 DEF LatestInv, ShowsLatest, Expected
<1>2. CASE GetNodeById
    <2>1. PICK c \in NodeCaller, h \in Host : Begin(c, <<h>>)
        BY <1>2 DEF GetNodeById
    <2>2. <<h>> \in Seq(Host) /\ c \in Caller
        BY DEF Caller
    <2> QED BY <2>1, <2>2, BeginLatest
<1>3. CASE GetAllNodes
    BY <1>3, BeginLatest, NamesAssumption DEF GetAllNodes, Caller
<1>4. ASSUME NEW c \in Caller, Goes(c) PROVE LatestInv'
    <2>1. ASSUME Return(c) PROVE LatestInv'
        <3>1. call' = [call EXCEPT ![c] = Idle] /\ cache' = cache
            BY <2>1 DEF Return
        <3>2. ShowsLatest(Idle, DOMAIN cache)
            BY DEF ShowsLatest, Expected, Idle
        <3> QED BY <3>1, <3>2, OneCallLatest
    <2> QED BY <1>4, <2>1, LookUpLatest, FetchLatest, SourceReadsLatest, QueryFailsLatest, PutLatest
            DEF Goes
<1> QED BY <1>1, <1>2, <1>3, <1>4 DEF Next

\* What a call is to show of the sources it has passed is shown; what it is to show of
\* the one it is at is shown or still to come.
THEOREM LatestInvariant == Spec => []LatestInv
<1>1. Init => LatestInv
    BY DEF Init, LatestInv, Idle
<1> QED BY <1>1, NextKeepsLatest, ServiceTypes, PTL DEF Spec

\* A reply to GetAllNodes has a state for every host and source the cache held when the
\* call began, unless the source denied it (ListShowsLatest).
THEOREM ListsShowLatest == Spec => []ListShowsLatest
<1>1. TypeInv /\ LatestInv => ListShowsLatest
    <2> SUFFICES ASSUME TypeInv, LatestInv, NEW c \in Replied,
                        NEW k \in call[c].held \ call[c].denied
                 PROVE  \E i \in DOMAIN call[c].m[k[2]] : call[c].m[k[2]][i].source = k[1]
        BY DEF ListShowsLatest, HasLatest
    <2> DEFINE r == call[c]
    <2>1. /\ c \in Caller /\ r.pc = "replied" /\ r \in CallRecord /\ Stage(r, now)
        BY CallTyped DEF Replied
    <2>2. k \in ToSet(Sources) \X Host
        BY <2>1 DEF CallRecord
    <2>3. PICK j \in DOMAIN Sources : k = <<Sources[j], k[2]>> /\ k[1] = Sources[j] /\ k[2] \in Host
        BY <2>2 DEF ToSet
    <2>4. j < r.src
        BY <2>1, SourcesSeq DEF Stage
    <2>5. ShownIn(r.m, Sources[j], k[2])
        BY <2>1, <2>3, <2>4 DEF LatestInv, ShowsLatest
    <2> QED BY <2>3, <2>5 DEF ShownIn
<1> QED BY <1>1, ServiceTypes, LatestInvariant, PTL
----------------------------------------------------------------------------
(* How many states the result holds *)

Of(s) == {x \in State : x.source = s}
At(h) == {e \in Expiry : e.host = h}

InAnswer(r, h) == IF h \in r.answer THEN 1 ELSE 0
MissedLeft(r, h) == IF r.asking = "expired" THEN Hits(r.missed, {h}) ELSE 0

\* How many more states of its source r can still take in for h.  Until the answer
\* of a query is put, each name of the query counts.
ToCome(r, h) ==
    IF r.pc = "put" THEN InAnswer(r, h) + MissedLeft(r, h)
    ELSE Hits(r.todo, {h}) + (IF r.asking = "expired" THEN Hits(r.expired, At(h)) ELSE 0)
         + Hits(r.missed, {h})

CountOf(r, h, j) == Hits(r.m[h], Of(Sources[j]))

\* The sources before the one r is at and those after it.
OthersCounted(r) ==
    \A h \in Host, j \in DOMAIN Sources :
        /\ j < r.src => CountOf(r, h, j) <= Hits(r.names, {h})
        /\ j > r.src => CountOf(r, h, j) = 0

Counted(r) ==
    /\ OthersCounted(r)
    /\ r.src \in DOMAIN Sources =>
          \A h \in Host : CountOf(r, h, r.src) + ToCome(r, h) <= Hits(r.names, {h})

\* The inductive invariant.
CountInv == \A c \in Caller : call[c].pc # "idle" => Counted(call[c])

\* The counts are numbers.
LEMMA CountTypes ==
    ASSUME NEW r \in CallRecord, NEW h \in Host
    PROVE  /\ \A j : CountOf(r, h, j) \in Nat
           /\ Hits(r.names, {h}) \in Nat
           /\ Hits(r.todo, {h}) \in Nat
           /\ Hits(r.missed, {h}) \in Nat
           /\ Hits(r.expired, At(h)) \in Nat
           /\ ToCome(r, h) \in Nat
           /\ MissedLeft(r, h) \in Nat
           /\ MissedLeft(r, h) <= ToCome(r, h)
<1>1. /\ r.names \in Seq(Host) /\ r.todo \in Seq(Host) /\ r.missed \in Seq(Host)
      /\ r.expired \in Seq(Expiry) /\ r.m[h] \in Seq(State)
    BY DEF CallRecord, Results
<1>2. /\ Hits(r.names, {h}) \in Nat /\ Hits(r.todo, {h}) \in Nat /\ Hits(r.missed, {h}) \in Nat
      /\ Hits(r.expired, At(h)) \in Nat /\ \A A : Hits(r.m[h], A) \in Nat
    BY <1>1, HitsType
<1>3. \A j : CountOf(r, h, j) \in Nat
    BY <1>2 DEF CountOf
<1>4. InAnswer(r, h) \in Nat /\ MissedLeft(r, h) \in Nat /\ MissedLeft(r, h) <= Hits(r.missed, {h})
    BY <1>2 DEF InAnswer, MissedLeft
<1>5. ToCome(r, h) \in Nat /\ MissedLeft(r, h) <= ToCome(r, h)
    <2>1. CASE r.pc = "put"
        BY <1>4, <2>1 DEF ToCome
    <2>2. CASE r.pc # "put"
        BY <1>2, <1>4, <2>2 DEF ToCome
    <2> QED BY <2>1, <2>2
<1> QED BY <1>2, <1>3, <1>4, <1>5

\* AddState adds one state, to one host, of one source.
LEMMA AddStateCounts ==
    ASSUME NEW m \in Results, NEW s \in ToSet(Sources), NEW h \in Host, NEW x \in Nat,
           NEW g \in Host, NEW t
    PROVE  Hits(AddState(m, s, h, x)[g], Of(t)) = Hits(m[g], Of(t)) + IF g = h /\ t = s THEN 1 ELSE 0
<1> DEFINE z == [source |-> s, seen |-> x]
<1>1. m[h] \in Seq(State) /\ m[g] \in Seq(State) /\ z \in State /\ (z \in Of(t) <=> t = s)
    BY DEF Results, State, Of
<1>2. /\ AddState(m, s, h, x)[h] = Append(m[h], z)
      /\ g # h => AddState(m, s, h, x)[g] = m[g]
    BY AddStateTyped
<1> HIDE DEF z
<1>3. Hits(Append(m[h], z), Of(t)) = Hits(m[h], Of(t)) + IF z \in Of(t) THEN 1 ELSE 0
    BY <1>1, HitsAppend
<1>4. Hits(m[g], Of(t)) \in Nat
    BY <1>1, HitsType
<1>5. CASE g = h
    BY <1>1, <1>2, <1>3, <1>5
<1>6. CASE g # h
    BY <1>2, <1>4, <1>6
<1> QED BY <1>5, <1>6

\* Fallback adds as many states for a host as were found expired.
LEMMA FallbackCounts ==
    ASSUME NEW r \in CallRecord, Source(r) \in ToSet(Sources), NEW g \in Host, NEW t
    PROVE  Hits(Fallback(r)[g], Of(t)) =
               Hits(r.m[g], Of(t)) + IF t = Source(r) THEN Hits(r.expired, At(g)) ELSE 0
<1> DEFINE Of_(s) == {i \in s : r.expired[i].host = g}
           Good(s, m) == Hits(m[g], Of(t)) =
                             Hits(r.m[g], Of(t)) + IF t = Source(r) THEN Cardinality(Of_(s)) ELSE 0
           A == {p \in (SUBSET DOMAIN r.expired) \X Results : Good(p[1], p[2])}
<1>1. r.m \in Results /\ Hits(r.m[g], Of(t)) \in Nat
    <2>1. r.m \in Results
        BY DEF CallRecord
    <2>2. r.m[g] \in Seq(State)
        BY <2>1 DEF Results
    <2> QED BY <2>1, <2>2, HitsType
<1>2. <<{}, r.m>> \in A
    <2>1. Of_({}) = {} /\ Cardinality({}) = 0
        BY FS_EmptySet
    <2> HIDE DEF Of_
    <2>2. Good({}, r.m)
        BY <1>1, <2>1
    <2> HIDE DEF Good
    <2> QED BY <1>1, <2>2
<1>3. ASSUME NEW s \in SUBSET DOMAIN r.expired, NEW x \in DOMAIN r.expired \ s
      PROVE  /\ Cardinality(Of_(s)) \in Nat
             /\ Cardinality(Of_(s \cup {x})) =
                    Cardinality(Of_(s)) + IF g = r.expired[x].host THEN 1 ELSE 0
    <2>1. Of_(s) \subseteq DOMAIN r.expired /\ x \notin Of_(s)
        OBVIOUS
    <2>2. Of_(s \cup {x}) = IF g = r.expired[x].host THEN Of_(s) \cup {x} ELSE Of_(s)
        OBVIOUS
    <2> HIDE DEF Of_
    <2>3. IsFiniteSet(Of_(s)) /\ Cardinality(Of_(s)) \in Nat
        BY <2>1, ExpiredTyped, FS_Subset, FS_CardinalityType
    <2>4. Cardinality(Of_(s) \cup {x}) = Cardinality(Of_(s)) + 1
        BY <2>1, <2>3, FS_AddElement
    <2> QED BY <2>2, <2>3, <2>4
<1>4. \A s \in SUBSET DOMAIN r.expired : \A x \in DOMAIN r.expired \ s :
          \A m \in Results : <<s, m>> \in A =>
             <<s \cup {x}, AddState(m, Source(r), r.expired[x].host, r.expired[x].seen)>> \in A
    <2> SUFFICES ASSUME NEW s \in SUBSET DOMAIN r.expired, NEW x \in DOMAIN r.expired \ s,
                        NEW m \in Results, <<s, m>> \in A
                 PROVE  <<s \cup {x}, AddState(m, Source(r), r.expired[x].host,
                                              r.expired[x].seen)>> \in A
        OBVIOUS
    <2>1. Good(s, m) /\ s \cup {x} \in SUBSET DOMAIN r.expired
        <3> HIDE DEF Good
        <3> QED OBVIOUS
    <2>2. PICK n : n = AddState(m, Source(r), r.expired[x].host, r.expired[x].seen)
        OBVIOUS
    <2>3. /\ n \in Results
          /\ Hits(n[g], Of(t)) =
                 Hits(m[g], Of(t)) + IF g = r.expired[x].host /\ t = Source(r) THEN 1 ELSE 0
        <3>1. PICK e \in Host : e = r.expired[x].host
            BY ExpiredTyped
        <3>2. PICK y \in Nat : y = r.expired[x].seen
            BY ExpiredTyped
        <3>3. n = AddState(m, Source(r), e, y)
            BY <2>2, <3>1, <3>2
        <3>4. Hits(AddState(m, Source(r), e, y)[g], Of(t)) =
                  Hits(m[g], Of(t)) + IF g = e /\ t = Source(r) THEN 1 ELSE 0
            BY AddStateCounts
        <3>5. AddState(m, Source(r), e, y) \in Results
            BY AddStateTyped
        <3> QED BY <3>1, <3>3, <3>4, <3>5
    <2>4. Good(s \cup {x}, n)
        <3> HIDE DEF Of_
        <3> QED BY <1>1, <1>3, <2>1, <2>3
    <2> HIDE DEF Good
    <2> QED BY <2>1, <2>2, <2>3, <2>4
<1>5. <<DOMAIN r.expired, Fallback(r)>> \in A
    <2> HIDE DEF A
    <2> QED BY <1>2, <1>4, FallbackInduction
<1>6. Cardinality(Of_(DOMAIN r.expired)) = Hits(r.expired, At(g))
    <2>1. Of_(DOMAIN r.expired) = {i \in DOMAIN r.expired : r.expired[i] \in At(g)}
        BY ExpiredTyped DEF At
    <2> QED BY <2>1 DEF Hits
<1>7. Good(DOMAIN r.expired, Fallback(r))
    <2> HIDE DEF Good
    <2> QED BY <1>5
<1> QED BY <1>6, <1>7

\* The sources are different.
LEMMA SourcesDiffer ==
    ASSUME NEW i \in DOMAIN Sources, NEW j \in DOMAIN Sources, Sources[i] = Sources[j] PROVE i = j
BY SourcesAssumption DEF IsInjective

\* At its next source a call has everything to come and shows nothing of it.
LEMMA AtSourceCounted ==
    ASSUME sources = Sources, NEW r \in CallRecord, NEW i \in 1..(Len(Sources) + 1),
           \A h \in Host, j \in DOMAIN Sources :
               /\ j < i => CountOf(r, h, j) <= Hits(r.names, {h})
               /\ j >= i => CountOf(r, h, j) = 0
    PROVE  Counted(AtSource(r, i))
<1> DEFINE q == AtSource(r, i)
<1>1. /\ q.names = r.names /\ q.m = r.m /\ q.src = i /\ q.todo = r.names
      /\ q.missed = <<>> /\ q.expired = <<>> /\ q.asking = "expired" /\ q.pc # "put"
    BY DEF AtSource, CallRecord
<1> HIDE DEF q
<1>2. \A h \in Host : ToCome(q, h) = Hits(r.names, {h})
    <2>1. ASSUME NEW h \in Host PROVE ToCome(q, h) = Hits(r.names, {h})
        <3>1. Hits(<<>>, At(h)) = 0 /\ Hits(<<>>, {h}) = 0 /\ Hits(r.names, {h}) \in Nat
            BY HitsEmpty, CountTypes
        <3> QED BY <1>1, <3>1 DEF ToCome
    <2> QED BY <2>1
<1>3. \A h \in Host, j \in DOMAIN Sources : CountOf(q, h, j) = CountOf(r, h, j)
    BY <1>1 DEF CountOf
<1>4. OthersCounted(q)
    BY <1>1, <1>3, SourcesSeq DEF OthersCounted
<1>5. ASSUME NEW h \in Host, i \in DOMAIN Sources
      PROVE  CountOf(q, h, i) + ToCome(q, h) <= Hits(q.names, {h})
    <2>1. Hits(r.names, {h}) \in Nat
        BY CountTypes
    <2>3. CountOf(q, h, i) = 0
        <3>1. i >= i
            OBVIOUS
        <3>2. CountOf(r, h, i) = 0
            BY <1>5, <3>1
        <3> QED BY <1>3, <1>5, <3>2
    <2> QED BY <1>1, <1>2, <2>1, <2>3
<1>6. Counted(q)
    BY <1>1, <1>4, <1>5 DEF Counted
<1> QED BY <1>6 DEF q

\* A call moved on after its query has no more to come than the other query brings.
LEMMA AfterFetchCounted ==
    ASSUME sources = Sources, NEW r \in CallRecord, r.src \in DOMAIN Sources, r.todo = <<>>,
           OthersCounted(r),
           \A h \in Host : CountOf(r, h, r.src) + MissedLeft(r, h) <= Hits(r.names, {h})
    PROVE  Counted(AfterFetch(r))
<1>1. CASE r.asking = "expired"
    <2> DEFINE q == AfterFetch(r)
    <2>1. /\ q.names = r.names /\ q.m = r.m /\ q.src = r.src /\ q.todo = <<>>
          /\ q.missed = r.missed /\ q.asking = "missed" /\ q.pc # "put"
        BY <1>1 DEF AfterFetch, CallRecord
    <2> HIDE DEF q
    <2>2. ASSUME NEW h \in Host PROVE ToCome(q, h) = MissedLeft(r, h)
        <3>1. Hits(<<>>, {h}) = 0 /\ Hits(r.missed, {h}) \in Nat
            BY HitsEmpty, CountTypes
        <3> QED BY <1>1, <2>1, <3>1 DEF ToCome, MissedLeft
    <2>3. \A h \in Host : \A j : CountOf(q, h, j) = CountOf(r, h, j)
        BY <2>1 DEF CountOf
    <2>4. Counted(q)
        BY <2>1, <2>2, <2>3 DEF Counted, OthersCounted
    <2> QED BY <2>4 DEF q
<1>2. CASE r.asking # "expired"
    <2>1. r.src \in Nat /\ r.src >= 1 /\ r.src + 1 \in 1..(Len(Sources) + 1)
        BY SourcesSeq
    <2>2. ASSUME NEW h \in Host, NEW j \in DOMAIN Sources
          PROVE  /\ j < r.src + 1 => CountOf(r, h, j) <= Hits(r.names, {h})
                 /\ j >= r.src + 1 => CountOf(r, h, j) = 0
        <3>1. j \in Nat
            BY SourcesSeq
        <3>2. CountOf(r, h, r.src) <= Hits(r.names, {h})
            <4>1. CountOf(r, h, r.src) \in Nat /\ MissedLeft(r, h) \in Nat /\ Hits(r.names, {h}) \in Nat
                BY CountTypes
            <4> QED BY <4>1
        <3> QED BY <2>1, <3>1, <3>2 DEF OthersCounted
    <2>3. Counted(AtSource(r, r.src + 1))
        BY <2>1, <2>2, AtSourceCounted
    <2> QED BY <1>2, <2>3 DEF AfterFetch
<1> QED BY <1>1, <1>2

\* A step that takes no more in from the source of r than it takes off what is to come.
LEMMA StepCounted ==
    ASSUME NEW r \in CallRecord, NEW q \in CallRecord, Counted(r), r.src \in DOMAIN Sources,
           q.src = r.src, q.names = r.names,
           \A h \in Host :
               /\ \A j \in DOMAIN Sources \ {r.src} : CountOf(q, h, j) = CountOf(r, h, j)
               /\ CountOf(q, h, r.src) + ToCome(q, h) <= CountOf(r, h, r.src) + ToCome(r, h)
    PROVE  Counted(q)
<1>1. OthersCounted(q)
    BY SourcesSeq DEF Counted, OthersCounted
<1>2. ASSUME NEW h \in Host PROVE CountOf(q, h, q.src) + ToCome(q, h) <= Hits(q.names, {h})
    <2>1. CountOf(r, h, r.src) + ToCome(r, h) <= Hits(r.names, {h})
        BY DEF Counted
    <2>2. /\ CountOf(q, h, r.src) \in Nat /\ CountOf(r, h, r.src) \in Nat /\ ToCome(q, h) \in Nat
          /\ ToCome(r, h) \in Nat /\ Hits(r.names, {h}) \in Nat
        BY CountTypes
    <2> QED BY <2>1, <2>2
<1> QED BY <1>1, <1>2 DEF Counted

\* A step of one call keeps CountInv if that call keeps its part of it.
LEMMA OneCallCounted ==
    ASSUME CountInv, TypeInv, NEW c \in Caller, NEW q, Counted(q), call' = [call EXCEPT ![c] = q]
    PROVE  CountInv'
<1>1. call' = [d \in Caller |-> IF d = c THEN q ELSE call[d]]
    BY DEF TypeInv, CallsInv
<1>2. ASSUME NEW d \in Caller, call'[d].pc # "idle" PROVE Counted(call'[d])
    BY <1>1, <1>2 DEF CountInv
<1> QED BY <1>2 DEF CountInv, Counted, OthersCounted, CountOf, ToCome, InAnswer, MissedLeft

\* What is known of a call under way.
LEMMA CallCounted ==
    ASSUME TypeInv, CountInv, NEW c \in Caller, call[c].pc \notin {"idle", "replied"}
    PROVE  /\ sources = Sources /\ call[c] \in CallRecord /\ Stage(call[c], now)
           /\ call[c].src \in DOMAIN Sources /\ Source(call[c]) = Sources[call[c].src]
           /\ Source(call[c]) \in ToSet(Sources)
           /\ Counted(call[c])
<1>1. /\ sources = Sources /\ call[c] \in CallRecord /\ Stage(call[c], now)
      /\ call[c].src \in DOMAIN Sources /\ Source(call[c]) \in ToSet(Sources)
    BY CallTyped
<1> QED BY <1>1, SourceOfCall DEF CountInv

\* A step that takes a state of its source in for h.
LEMMA OneMoreCounted ==
    ASSUME NEW r \in CallRecord, NEW q \in CallRecord, Counted(r), r.src \in DOMAIN Sources,
           Source(r) = Sources[r.src], Source(r) \in ToSet(Sources),
           q.src = r.src, q.names = r.names, NEW h \in Host, NEW x \in Nat,
           q.m = AddState(r.m, Source(r), h, x),
           \A g \in Host : ToCome(q, g) + (IF g = h THEN 1 ELSE 0) <= ToCome(r, g)
    PROVE  Counted(q)
<1>1. r.m \in Results
    BY DEF CallRecord
<1>2. ASSUME NEW g \in Host, NEW j \in DOMAIN Sources
      PROVE  CountOf(q, g, j) = CountOf(r, g, j) + IF g = h /\ j = r.src THEN 1 ELSE 0
    <2>1. Hits(AddState(r.m, Source(r), h, x)[g], Of(Sources[j])) =
              Hits(r.m[g], Of(Sources[j])) + IF g = h /\ Sources[j] = Source(r) THEN 1 ELSE 0
        BY <1>1, AddStateCounts
    <2>2. Sources[j] = Source(r) <=> j = r.src
        BY SourcesDiffer
    <2> QED BY <2>1, <2>2 DEF CountOf
<1>3. ASSUME NEW g \in Host
      PROVE  /\ \A j \in DOMAIN Sources \ {r.src} : CountOf(q, g, j) = CountOf(r, g, j)
             /\ CountOf(q, g, r.src) + ToCome(q, g) <= CountOf(r, g, r.src) + ToCome(r, g)
    <2>1. /\ \A j : CountOf(r, g, j) \in Nat /\ CountOf(q, g, j) \in Nat
          /\ ToCome(q, g) \in Nat /\ ToCome(r, g) \in Nat
        BY CountTypes
    <2>2. ToCome(q, g) + (IF g = h THEN 1 ELSE 0) <= ToCome(r, g)
        OBVIOUS
    <2> QED BY <1>2, <2>1, <2>2
<1> QED BY <1>3, StepCounted

\* A name looked up is shown or asked for, once.
LEMMA LookUpCounted ==
    ASSUME TypeInv, TypeInv', CountInv, NEW c \in Caller, LookUp(c) PROVE CountInv'
<1> DEFINE r == call[c]
           h == Head(r.todo)
           k == <<Source(r), h>>
           s == [r EXCEPT !.todo = Tail(r.todo)]
           q == call'[c]
<1>1. /\ r.pc = "lookup" /\ r \in CallRecord /\ Counted(r) /\ Stage(r, now)
      /\ r.src \in DOMAIN Sources /\ Source(r) = Sources[r.src] /\ Source(r) \in ToSet(Sources)
      /\ r.asking = "expired"
    BY CallCounted DEF LookUp, Stage
<1>2. call' = [call EXCEPT ![c] = q] /\ q \in CallRecord
    BY DEF LookUp, TypeInv, CallsInv
<1>3. \/ q = [r EXCEPT !.pc = "fetch"]
      \/ /\ r.todo # <<>>
         /\ q = [s EXCEPT !.missed = Append(@, h)]
      \/ /\ r.todo # <<>> /\ k \in DOMAIN cache
         /\ q = [s EXCEPT !.expired = Append(@, [host |-> h, seen |-> cache[k].seen])]
      \/ /\ r.todo # <<>> /\ k \in DOMAIN cache
         /\ q = [s EXCEPT !.m = AddState(@, Source(r), h, cache[k].seen)]
    BY DEF LookUp, TypeInv, CallsInv
<1>4. q.names = r.names /\ q.src = r.src /\ q.asking = "expired" /\ q.pc # "put"
    BY <1>1, <1>3 DEF CallRecord
<1>5. ASSUME r.todo # <<>>
      PROVE  /\ h \in Host
             /\ \A g \in Host : Hits(r.todo, {g}) = Hits(Tail(r.todo), {g}) + IF h = g THEN 1 ELSE 0
    <2>1. r.todo \in Seq(Host)
        BY <1>1 DEF CallRecord
    <2>2. h \in Host
        BY <1>5, <2>1, HeadTailProperties
    <2>3. ASSUME NEW g \in Host
          PROVE  Hits(r.todo, {g}) = Hits(Tail(r.todo), {g}) + IF h = g THEN 1 ELSE 0
        <3>1. Hits(r.todo, {g}) = Hits(Tail(r.todo), {g}) + IF h \in {g} THEN 1 ELSE 0
            BY <1>5, <2>1, HitsTail
        <3>2. h \in {g} <=> h = g
            OBVIOUS
        <3> QED BY <3>1, <3>2
    <2> QED BY <2>2, <2>3
<1> DEFINE Formula(x, g) == Hits(x.todo, {g}) + Hits(x.expired, At(g)) + Hits(x.missed, {g})
<1>6. \A g \in Host : ToCome(r, g) = Formula(r, g) /\ ToCome(q, g) = Formula(q, g)
    BY <1>1, <1>4 DEF ToCome
<1>7. CASE q = [r EXCEPT !.pc = "fetch"]
    <2>1. q.m = r.m /\ q.todo = r.todo /\ q.expired = r.expired /\ q.missed = r.missed
        BY <1>1, <1>7 DEF CallRecord
    <2>2. ASSUME NEW g \in Host
          PROVE  /\ \A j \in DOMAIN Sources \ {r.src} : CountOf(q, g, j) = CountOf(r, g, j)
                 /\ CountOf(q, g, r.src) + ToCome(q, g) <= CountOf(r, g, r.src) + ToCome(r, g)
        <3>1. CountOf(r, g, r.src) \in Nat /\ ToCome(r, g) \in Nat
            BY <1>1, CountTypes
        <3>2. \A j : CountOf(q, g, j) = CountOf(r, g, j)
            BY <2>1 DEF CountOf
        <3>3. ToCome(q, g) = ToCome(r, g)
            BY <1>6, <2>1
        <3> QED BY <3>1, <3>2, <3>3
    <2>3. Counted(q)
        BY <1>1, <1>2, <1>4, <2>2, StepCounted
    <2> QED BY <1>2, <2>3, OneCallCounted
<1>8. CASE r.todo # <<>> /\ q = [s EXCEPT !.missed = Append(@, h)]
    <2>1. /\ q.m = r.m /\ q.todo = Tail(r.todo) /\ q.expired = r.expired
          /\ q.missed = Append(r.missed, h) /\ r.missed \in Seq(Host)
        BY <1>1, <1>8 DEF CallRecord
    <2>2. ASSUME NEW g \in Host
          PROVE  /\ \A j \in DOMAIN Sources \ {r.src} : CountOf(q, g, j) = CountOf(r, g, j)
                 /\ CountOf(q, g, r.src) + ToCome(q, g) <= CountOf(r, g, r.src) + ToCome(r, g)
        <3>1. CountOf(r, g, r.src) \in Nat /\ ToCome(r, g) \in Nat
            BY <1>1, CountTypes
        <3>2. \A j : CountOf(q, g, j) = CountOf(r, g, j)
            BY <2>1 DEF CountOf
        <3>3. Hits(q.missed, {g}) = Hits(r.missed, {g}) + IF h \in {g} THEN 1 ELSE 0
            BY <1>5, <1>8, <2>1, HitsAppend
        <3>4. Hits(q.todo, {g}) \in Nat /\ Hits(r.missed, {g}) \in Nat /\ Hits(r.expired, At(g)) \in Nat
            BY <1>1, <1>2, CountTypes
        <3>5. Hits(r.todo, {g}) = Hits(q.todo, {g}) + IF h = g THEN 1 ELSE 0
            BY <1>5, <1>8, <2>1
        <3>6. Formula(q, g) = Formula(r, g)
            BY <2>1, <3>3, <3>4, <3>5
        <3>7. ToCome(q, g) = ToCome(r, g)
            BY <1>6, <3>6
        <3> QED BY <3>1, <3>2, <3>7
    <2>3. Counted(q)
        BY <1>1, <1>2, <1>4, <2>2, StepCounted
    <2> QED BY <1>2, <2>3, OneCallCounted
<1>9. CASE /\ r.todo # <<>> /\ k \in DOMAIN cache
           /\ q = [s EXCEPT !.expired = Append(@, [host |-> h, seen |-> cache[k].seen])]
    <2> DEFINE e == [host |-> h, seen |-> cache[k].seen]
    <2>1. /\ q.m = r.m /\ q.todo = Tail(r.todo) /\ q.expired = Append(r.expired, e)
          /\ q.missed = r.missed /\ r.expired \in Seq(Expiry)
        BY <1>1, <1>9 DEF CallRecord
    <2>2. e \in Expiry /\ e.host = h
        BY <1>5, <1>9 DEF TypeInv, CacheInv, Expiry
    <2> HIDE DEF e
    <2>3. ASSUME NEW g \in Host
          PROVE  /\ \A j \in DOMAIN Sources \ {r.src} : CountOf(q, g, j) = CountOf(r, g, j)
                 /\ CountOf(q, g, r.src) + ToCome(q, g) <= CountOf(r, g, r.src) + ToCome(r, g)
        <3>1. CountOf(r, g, r.src) \in Nat /\ ToCome(r, g) \in Nat
            BY <1>1, CountTypes
        <3>2. \A j : CountOf(q, g, j) = CountOf(r, g, j)
            BY <2>1 DEF CountOf
        <3>3. Hits(q.expired, At(g)) = Hits(r.expired, At(g)) + IF e \in At(g) THEN 1 ELSE 0
            BY <2>1, <2>2, HitsAppend
        <3>4. Hits(q.todo, {g}) \in Nat /\ Hits(r.missed, {g}) \in Nat /\ Hits(r.expired, At(g)) \in Nat
            BY <1>1, <1>2, CountTypes
        <3>5. Hits(r.todo, {g}) = Hits(q.todo, {g}) + IF h = g THEN 1 ELSE 0
            BY <1>5, <1>9, <2>1
        <3>6. e \in At(g) <=> h = g
            BY <2>2 DEF At
        <3>7. Formula(q, g) = Formula(r, g)
            BY <2>1, <3>3, <3>4, <3>5, <3>6
        <3>8. ToCome(q, g) = ToCome(r, g)
            BY <1>6, <3>7
        <3> QED BY <3>1, <3>2, <3>8
    <2>4. Counted(q)
        BY <1>1, <1>2, <1>4, <2>3, StepCounted
    <2> QED BY <1>2, <2>4, OneCallCounted
<1>10. CASE /\ r.todo # <<>> /\ k \in DOMAIN cache
            /\ q = [s EXCEPT !.m = AddState(@, Source(r), h, cache[k].seen)]
    <2>1. PICK x \in Nat : x = cache[k].seen
        BY <1>10 DEF TypeInv, CacheInv
    <2>2. /\ q.m = AddState(r.m, Source(r), h, x) /\ q.todo = Tail(r.todo)
          /\ q.expired = r.expired /\ q.missed = r.missed
        BY <1>1, <1>10, <2>1 DEF CallRecord
    <2>3. ASSUME NEW g \in Host
          PROVE  ToCome(q, g) + (IF g = h THEN 1 ELSE 0) <= ToCome(r, g)
        <3>1. Hits(q.todo, {g}) \in Nat /\ Hits(r.missed, {g}) \in Nat /\ Hits(r.expired, At(g)) \in Nat
            BY <1>1, <1>2, CountTypes
        <3>2. Hits(r.todo, {g}) = Hits(q.todo, {g}) + IF h = g THEN 1 ELSE 0
            BY <1>5, <1>10, <2>2
        <3>3. Formula(q, g) + (IF g = h THEN 1 ELSE 0) <= Formula(r, g)
            BY <2>2, <3>1, <3>2
        <3> QED BY <1>6, <3>3
    <2>4. Counted(q)
        BY <1>1, <1>2, <1>4, <1>5, <1>10, <2>2, <2>3, OneMoreCounted
    <2> QED BY <1>2, <2>4, OneCallCounted
<1> QED BY <1>3, <1>7, <1>8, <1>9, <1>10

\* A query brings nothing yet.
LEMMA FetchCounted ==
    ASSUME TypeInv, TypeInv', CountInv, NEW c \in Caller, Fetch(c) PROVE CountInv'
<1> DEFINE r == call[c]
           q == [r EXCEPT !.pc = "sent", !.sent = now]
<1>1. /\ r.pc = "fetch" /\ r \in CallRecord /\ Counted(r) /\ r.src \in DOMAIN Sources
      /\ sources = Sources /\ r.todo = <<>>
    BY CallCounted DEF Fetch, Stage
<1>2. CASE call' = [call EXCEPT ![c] = AfterFetch(r)]
    <2>1. ASSUME NEW h \in Host
          PROVE  CountOf(r, h, r.src) + MissedLeft(r, h) <= Hits(r.names, {h})
        <3>1. CountOf(r, h, r.src) + ToCome(r, h) <= Hits(r.names, {h})
            BY <1>1 DEF Counted
        <3>2. /\ CountOf(r, h, r.src) \in Nat /\ ToCome(r, h) \in Nat /\ MissedLeft(r, h) \in Nat
              /\ MissedLeft(r, h) <= ToCome(r, h) /\ Hits(r.names, {h}) \in Nat
            BY <1>1, CountTypes
        <3> QED BY <3>1, <3>2
    <2>2. Counted(AfterFetch(r))
        BY <1>1, <2>1, AfterFetchCounted DEF Counted
    <2> QED BY <1>2, <2>2, OneCallCounted
<1>3. CASE call' = [call EXCEPT ![c] = q]
    <2>1. call'[c] = q /\ q \in CallRecord
        BY <1>3 DEF TypeInv, CallsInv
    <2>2. /\ q.names = r.names /\ q.src = r.src /\ q.m = r.m /\ q.pc = "sent" /\ q.todo = r.todo
          /\ q.expired = r.expired /\ q.missed = r.missed /\ q.asking = r.asking
        BY <1>1 DEF CallRecord
    <2>3. call' = [call EXCEPT ![c] = q]
        BY <1>3
    <2> HIDE DEF q
    <2>4. /\ \A h \in Host : ToCome(q, h) = ToCome(r, h)
          /\ \A h, j : CountOf(q, h, j) = CountOf(r, h, j)
        BY <1>1, <2>2 DEF ToCome, CountOf
    <2>5. ASSUME NEW h \in Host
          PROVE  CountOf(q, h, r.src) + ToCome(q, h) <= CountOf(r, h, r.src) + ToCome(r, h)
        <3>1. CountOf(r, h, r.src) \in Nat /\ ToCome(r, h) \in Nat
            BY <1>1, CountTypes
        <3> QED BY <2>4, <3>1
    <2>6. Counted(q)
        BY <1>1, <2>1, <2>2, <2>4, <2>5, StepCounted
    <2> QED BY <2>3, <2>6, OneCallCounted
<1> QED BY <1>2, <1>3 DEF Fetch

\* Nor does the reading of the source.
LEMMA SourceReadsCounted ==
    ASSUME TypeInv, TypeInv', CountInv, NEW c \in Caller, NEW known, SourceReads(c, known)
    PROVE  CountInv'
<1> DEFINE r == call[c]
           q == call'[c]
<1>1. r.pc = "sent" /\ r \in CallRecord /\ Counted(r) /\ r.src \in DOMAIN Sources
    BY CallCounted DEF SourceReads
<1>2. call' = [call EXCEPT ![c] = q] /\ q \in CallRecord
    BY DEF SourceReads, TypeInv, CallsInv
<1>3. /\ q.names = r.names /\ q.src = r.src /\ q.m = r.m /\ q.pc = "read" /\ q.todo = r.todo
      /\ q.expired = r.expired /\ q.missed = r.missed /\ q.asking = r.asking
    BY <1>1 DEF SourceReads, TypeInv, CallsInv, CallRecord
<1>4. /\ \A h \in Host : ToCome(q, h) = ToCome(r, h)
      /\ \A h, j : CountOf(q, h, j) = CountOf(r, h, j)
    BY <1>1, <1>3 DEF ToCome, CountOf
<1>5. ASSUME NEW h \in Host
      PROVE  CountOf(q, h, r.src) + ToCome(q, h) <= CountOf(r, h, r.src) + ToCome(r, h)
    <2>1. CountOf(r, h, r.src) \in Nat /\ ToCome(r, h) \in Nat
        BY <1>1, CountTypes
    <2> QED BY <1>4, <2>1
<1>6. Counted(q)
    BY <1>1, <1>2, <1>3, <1>4, <1>5, StepCounted
<1> QED BY <1>2, <1>6, OneCallCounted

\* The expired states shown are as many as were to come.
LEMMA QueryFailsCounted ==
    ASSUME TypeInv, TypeInv', CountInv, NEW c \in Caller, QueryFails(c) PROVE CountInv'
<1> DEFINE r == call[c]
           f == r.failed \cup {Source(r)}
           n == IF r.asking = "expired" THEN Fallback(r) ELSE r.m
           q == [r EXCEPT !.failed = f, !.m = n]
<1>1. /\ r.pc \in {"sent", "read"} /\ r \in CallRecord /\ Counted(r)
      /\ r.src \in DOMAIN Sources /\ Source(r) = Sources[r.src] /\ Source(r) \in ToSet(Sources)
      /\ sources = Sources /\ r.todo = <<>>
    BY CallCounted DEF QueryFails, Stage
<1>2. call' = [call EXCEPT ![c] = AfterFetch(q)]
    BY <1>1 DEF QueryFails, CallRecord
<1>3. n \in Results /\ f \in SUBSET ToSet(Sources)
    BY <1>1, FallbackTyped DEF CallRecord
<1> DEFINE Added(h) == IF r.asking = "expired" THEN Hits(r.expired, At(h)) ELSE 0
<1>4. ASSUME NEW h \in Host, NEW j \in DOMAIN Sources
      PROVE  Hits(n[h], Of(Sources[j])) = CountOf(r, h, j) + IF j = r.src THEN Added(h) ELSE 0
    <2>1. CASE r.asking = "expired"
        <3>1. Hits(Fallback(r)[h], Of(Sources[j])) =
                  Hits(r.m[h], Of(Sources[j])) +
                      IF Sources[j] = Source(r) THEN Hits(r.expired, At(h)) ELSE 0
            BY <1>1, FallbackCounts
        <3>2. Sources[j] = Source(r) <=> j = r.src
            BY <1>1, SourcesDiffer
        <3> QED BY <2>1, <3>1, <3>2 DEF CountOf
    <2>2. CASE r.asking # "expired"
        <3>1. CountOf(r, h, j) \in Nat
            BY <1>1, CountTypes
        <3> QED BY <2>2, <3>1 DEF CountOf
    <2> QED BY <2>1, <2>2
<1> HIDE DEF n, f
<1>5. /\ q.names = r.names /\ q.src = r.src /\ q.m = n /\ q.todo = r.todo /\ q.asking = r.asking
      /\ q.missed = r.missed /\ q \in CallRecord
    BY <1>1, <1>3 DEF CallRecord
<1> HIDE DEF q
<1>6. \A h \in Host, j \in DOMAIN Sources :
          CountOf(q, h, j) = CountOf(r, h, j) + IF j = r.src THEN Added(h) ELSE 0
    BY <1>4, <1>5 DEF CountOf
<1>7. OthersCounted(q)
    <2>1. ASSUME NEW h \in Host, NEW j \in DOMAIN Sources, j # r.src
          PROVE  CountOf(q, h, j) = CountOf(r, h, j)
        <3>1. CountOf(r, h, j) \in Nat
            BY <1>1, CountTypes
        <3> QED BY <1>6, <2>1, <3>1
    <2> QED BY <1>1, <1>5, <2>1, SourcesSeq DEF Counted, OthersCounted
<1>8. ASSUME NEW h \in Host
      PROVE  CountOf(q, h, q.src) + MissedLeft(q, h) <= Hits(q.names, {h})
    <2>1. /\ CountOf(r, h, r.src) \in Nat /\ ToCome(r, h) \in Nat /\ MissedLeft(r, h) \in Nat
          /\ Hits(r.missed, {h}) \in Nat /\ Hits(r.expired, At(h)) \in Nat
          /\ Hits(r.todo, {h}) \in Nat /\ Hits(r.names, {h}) \in Nat
        BY <1>1, CountTypes
    <2>2. MissedLeft(q, h) = MissedLeft(r, h) /\ MissedLeft(r, h) <= Hits(r.missed, {h})
        BY <1>5, <2>1 DEF MissedLeft
    <2>3. ToCome(r, h) = Hits(r.todo, {h}) + Added(h) + Hits(r.missed, {h}) /\ Added(h) \in Nat
        BY <1>1, <2>1 DEF ToCome
    <2>4. CountOf(r, h, r.src) + ToCome(r, h) <= Hits(r.names, {h})
        BY <1>1 DEF Counted
    <2>5. CountOf(q, h, r.src) = CountOf(r, h, r.src) + Added(h)
        BY <1>1, <1>6
    <2> HIDE DEF Added
    <2> QED BY <1>5, <2>1, <2>2, <2>3, <2>4, <2>5
<1>9. Counted(AfterFetch(q))
    BY <1>1, <1>5, <1>7, <1>8, AfterFetchCounted
<1> QED BY <1>2, <1>9, OneCallCounted

\* Each host of an answer, which is a set, was asked for at least once.
LEMMA PutCounted ==
    ASSUME TypeInv, TypeInv', CountInv, NEW c \in Caller, Put(c) PROVE CountInv'
<1> DEFINE r == call[c]
<1>1. /\ r.pc \in {"read", "put"} /\ r \in CallRecord /\ Counted(r) /\ Stage(r, now)
      /\ r.src \in DOMAIN Sources /\ Source(r) = Sources[r.src] /\ Source(r) \in ToSet(Sources)
      /\ sources = Sources /\ r.todo = <<>>
    BY CallCounted DEF Put, Stage
<1>2. CASE call' = [call EXCEPT ![c] = AfterFetch([r EXCEPT !.m = Merged(r)])]
    <2>1. [r EXCEPT !.m = Merged(r)] = r
        BY <1>1 DEF CallRecord, Merged
    <2>2. ASSUME NEW h \in Host
          PROVE  CountOf(r, h, r.src) + MissedLeft(r, h) <= Hits(r.names, {h})
        <3>1. CountOf(r, h, r.src) + ToCome(r, h) <= Hits(r.names, {h})
            BY <1>1 DEF Counted
        <3>2. /\ CountOf(r, h, r.src) \in Nat /\ ToCome(r, h) \in Nat /\ MissedLeft(r, h) \in Nat
              /\ MissedLeft(r, h) <= ToCome(r, h) /\ Hits(r.names, {h}) \in Nat
            BY <1>1, CountTypes
        <3> QED BY <3>1, <3>2
    <2>3. Counted(AfterFetch(r))
        BY <1>1, <2>2, AfterFetchCounted DEF Counted
    <2> QED BY <1>2, <2>1, <2>3, OneCallCounted
<1>3. ASSUME NEW h \in r.answer,
             call' = [call EXCEPT ![c].pc = "put",
                                  ![c].answer = @ \ {h},
                                  ![c].m = AddState(@, Source(r), h, r.seen)]
      PROVE  CountInv'
    <2> DEFINE q == call'[c]
    <2>1. call' = [call EXCEPT ![c] = q] /\ q \in CallRecord
        BY <1>3 DEF TypeInv, CallsInv
    <2>2. q = [r EXCEPT !.pc = "put", !.answer = @ \ {h}, !.m = AddState(@, Source(r), h, r.seen)]
        BY <1>3 DEF TypeInv, CallsInv
    <2>3. /\ q.names = r.names /\ q.src = r.src /\ q.m = AddState(r.m, Source(r), h, r.seen)
          /\ q.pc = "put" /\ q.answer = r.answer \ {h} /\ q.asking = r.asking
          /\ q.missed = r.missed
        BY <1>1, <2>2 DEF CallRecord
    <2>4. h \in Host /\ r.seen \in Nat
        BY <1>1, <1>3 DEF CallRecord
    <2>5. ASSUME NEW g \in Host
          PROVE  ToCome(q, g) + (IF g = h THEN 1 ELSE 0) <= ToCome(r, g)
        <3>1. /\ Hits(r.todo, {g}) \in Nat /\ Hits(r.missed, {g}) \in Nat
              /\ Hits(r.expired, At(g)) \in Nat /\ MissedLeft(r, g) \in Nat
            BY <1>1, CountTypes
        <3>2. ToCome(q, g) = InAnswer(q, g) + MissedLeft(r, g)
            BY <2>3 DEF ToCome, MissedLeft
        <3>3. InAnswer(q, g) + (IF g = h THEN 1 ELSE 0) = InAnswer(r, g)
              /\ InAnswer(q, g) \in Nat /\ InAnswer(r, g) \in Nat
            <4>1. g \in q.answer <=> g \in r.answer /\ g # h
                BY <2>3
            <4>2. CASE g = h
                BY <1>3, <4>1, <4>2 DEF InAnswer
            <4>3. CASE g # h
                <5>1. InAnswer(q, g) = InAnswer(r, g)
                    BY <4>1, <4>3 DEF InAnswer
                <5>2. InAnswer(r, g) \in Nat
                    BY DEF InAnswer
                <5> QED BY <4>3, <5>1, <5>2
            <4> QED BY <4>2, <4>3
        <3>4. InAnswer(r, g) + MissedLeft(r, g) <= ToCome(r, g)
            <4>1. CASE r.pc = "put"
                BY <3>1, <3>3, <4>1 DEF ToCome
            <4>2. CASE r.pc # "put" /\ g \notin r.answer
                <5>1. InAnswer(r, g) = 0 /\ MissedLeft(r, g) <= ToCome(r, g) /\ ToCome(r, g) \in Nat
                    BY <1>1, <4>2, CountTypes DEF InAnswer
                <5> QED BY <3>1, <5>1
            <4>3. CASE r.pc # "put" /\ g \in r.answer /\ r.asking = "expired"
                <5>1. PICK i \in DOMAIN r.expired : r.expired[i].host = g
                    BY <1>1, <4>3 DEF Stage, Asked
                <5>2. r.expired[i] \in At(g)
                    BY <1>1, <5>1, ExpiredTyped DEF At
                <5>3. Hits(r.expired, At(g)) # 0
                    <6>1. r.expired \in Seq(Expiry)
                        BY <1>1 DEF CallRecord
                    <6> QED BY <5>2, <6>1, HitsType
                <5> QED BY <3>1, <4>3, <5>3 DEF ToCome, InAnswer, MissedLeft
            <4>4. CASE r.pc # "put" /\ g \in r.answer /\ r.asking # "expired"
                <5>1. r.asking = "missed"
                    BY <1>1, <4>4 DEF CallRecord
                <5>2. PICK i \in DOMAIN r.missed : r.missed[i] = g
                    BY <1>1, <4>4, <5>1 DEF Stage, Asked, ToSet
                <5>3. Hits(r.missed, {g}) # 0
                    <6>1. r.missed \in Seq(Host) /\ r.missed[i] \in {g}
                        BY <1>1, <5>2 DEF CallRecord
                    <6> QED BY <6>1, HitsType
                <5> QED BY <3>1, <4>4, <5>3 DEF ToCome, InAnswer, MissedLeft
            <4> QED BY <4>1, <4>2, <4>3, <4>4
        <3>5. ToCome(r, g) \in Nat
            BY <1>1, CountTypes
        <3> QED BY <3>1, <3>2, <3>3, <3>4, <3>5
    <2>6. Counted(q)
        BY <1>1, <2>1, <2>3, <2>4, <2>5, OneMoreCounted
    <2> QED BY <2>1, <2>6, OneCallCounted
<1> QED BY <1>2, <1>3 DEF Put

\* A new call shows nothing.
LEMMA BeginCounted ==
    ASSUME TypeInv, CountInv, NEW c \in Caller, NEW names \in Seq(Host), Begin(c, names)
    PROVE  CountInv'
<1> DEFINE e == {k \in DOMAIN cache : k[2] \in ToSet(names)}
           q == [Idle EXCEPT !.names = names, !.held = e]
<1>1. call' = [call EXCEPT ![c] = AtSource(q, 1)]
    BY DEF Begin
<1>2. sources = Sources
    BY AllSourcesAdded DEF Begin
<1>3. e \in SUBSET (ToSet(Sources) \X Host)
    BY <1>2 DEF TypeInv, CacheInv
<1> HIDE DEF e
<1>4. q \in CallRecord /\ q.names = names /\ q.m = [h \in Host |-> <<>>]
    BY <1>3, IdleTyped DEF CallRecord, Idle
<1> HIDE DEF q
<1>5. ASSUME NEW h \in Host, NEW j \in DOMAIN Sources
      PROVE  CountOf(q, h, j) = 0 /\ j >= 1
    <2>1. q.m[h] = <<>>
        BY <1>4
    <2> QED BY <2>1, HitsEmpty, SourcesSeq DEF CountOf
<1>6. 1 \in 1..(Len(Sources) + 1) /\ \A j \in DOMAIN Sources : ~(j < 1)
    BY SourcesSeq
<1>7. Counted(AtSource(q, 1))
    BY <1>2, <1>4, <1>5, <1>6, AtSourceCounted
<1> QED BY <1>1, <1>7, OneCallCounted

\* Every step keeps CountInv.
LEMMA NextKeepsCounts == TypeInv /\ TypeInv' /\ CountInv /\ [Next]_vars => CountInv'
<1> SUFFICES ASSUME TypeInv, TypeInv', CountInv, [Next]_vars PROVE CountInv'
    OBVIOUS
<1>1. CASE AddSourceWaits \/ AddSource \/ Tick \/ UNCHANGED vars
    <2>1. call' = call
        BY <1>1 DEF AddSourceWaits, AddSource, Tick, vars
    <2> QED BY <2>1 DEF CountInv, Counted, OthersCounted, CountOf, ToCome, InAnswer, MissedLeft
<1>2. CASE GetNodeById
    <2>1. PICK c \in NodeCaller, h \in Host : Begin(c, <<h>>)
        BY <1>2 DEF GetNodeById
    <2>2. <<h>> \in Seq(Host) /\ c \in Caller
        BY DEF Caller
    <2> QED BY <2>1, <2>2, BeginCounted
<1>3. CASE GetAllNodes
    BY <1>3, BeginCounted, NamesAssumption DEF GetAllNodes, Caller
<1>4. ASSUME NEW c \in Caller, Goes(c) PROVE CountInv'
    <2>1. ASSUME Return(c) PROVE CountInv'
        <3>1. call' = [call EXCEPT ![c] = Idle]
            BY <2>1 DEF Return
        <3>2. \A h \in Host, j \in DOMAIN Sources : CountOf(Idle, h, j) = 0
            BY HitsEmpty DEF CountOf, Idle
        <3>3. Counted(Idle)
            <4>1. Idle.src = 0 /\ 0 \notin DOMAIN Sources
                BY SourcesSeq DEF Idle
            <4>2. \A j \in DOMAIN Sources : ~(j < 0)
                BY SourcesSeq
            <4> QED BY <3>2, <4>1, <4>2 DEF Counted, OthersCounted
        <3> QED BY <3>1, <3>3, OneCallCounted
    <2> QED BY <1>4, <2>1, LookUpCounted, FetchCounted, SourceReadsCounted, QueryFailsCounted,
               PutCounted DEF Goes
<1> QED BY <1>1, <1>2, <1>3, <1>4 DEF Next

\* A call shows of its source, and is still to get from it, no more states of a host
\* than it was asked for; none of the sources after it.
THEOREM CountsInvariant == Spec => []CountInv
<1>1. Init => CountInv
    BY DEF Init, CountInv, Idle
<1> QED BY <1>1, NextKeepsCounts, ServiceTypes, PTL DEF Spec

\* A reply holds at most one state per source for each time a host was asked for
\* (OneStatePerSource): never an expired state beside its replacement.
THEOREM OneStateShown == Spec => []OneStatePerSource
<1>1. TypeInv /\ CountInv => OneStatePerSource
    <2> SUFFICES ASSUME TypeInv, CountInv, NEW c \in Replied, NEW h \in Host, NEW s \in ToSet(sources)
                 PROVE  Cardinality({i \in DOMAIN call[c].m[h] : call[c].m[h][i].source = s})
                            <= Occurrences(call[c].names, h)
        BY DEF OneStatePerSource
    <2> DEFINE r == call[c]
    <2>1. /\ c \in Caller /\ r.pc = "replied" /\ r \in CallRecord /\ sources = Sources
          /\ Stage(r, now)
        BY CallTyped DEF Replied
    <2>2. PICK j \in DOMAIN Sources : s = Sources[j]
        BY <2>1 DEF ToSet
    <2>3. CountOf(r, h, j) <= Hits(r.names, {h})
        <3>1. OthersCounted(r)
            BY <2>1 DEF CountInv, Counted
        <3>2. j < r.src
            BY <2>1, SourcesSeq DEF Stage
        <3> QED BY <3>1, <3>2 DEF OthersCounted
    <2>4. CountOf(r, h, j) = Cardinality({i \in DOMAIN r.m[h] : r.m[h][i].source = s})
        <3>1. {i \in DOMAIN r.m[h] : r.m[h][i] \in Of(s)} = {i \in DOMAIN r.m[h] : r.m[h][i].source = s}
            BY <2>1, ResultState DEF Of
        <3> QED BY <2>2, <3>1 DEF CountOf, Hits
    <2>5. Hits(r.names, {h}) = Occurrences(r.names, h)
        <3>1. {i \in DOMAIN r.names : r.names[i] \in {h}} = {i \in DOMAIN r.names : r.names[i] = h}
            OBVIOUS
        <3> QED BY <3>1 DEF Hits, Occurrences
    <2> QED BY <2>3, <2>4, <2>5
<1> QED BY <1>1, ServiceTypes, CountsInvariant, PTL
====
