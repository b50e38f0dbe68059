---- MODULE StatusService ----
(***************************************************************************)
(* The state half of the Go backend: StatusService and MemoryStateCache    *)
(* (backend/src/ng_state), called by the RPC handlers GetNodeById and      *)
(* GetAllNodes on goroutines of their own.                                 *)
(*                                                                         *)
(* What is known of a host is abstracted to seen, the time at which the    *)
(* source looked at the host.  A call reads the cache name by name, sends  *)
(* up to two queries per source, and writes what comes back into the cache *)
(* state by state; between any two of these steps other calls may run.     *)
(* Cache accesses are atomic (name_mutex); src_mutex is a lock here.       *)
(* Computing takes no time: the clock moves while calls wait for sources.  *)
(***************************************************************************)
EXTENDS Naturals, Sequences, SequencesExt, FiniteSets

CONSTANTS
    NodeCaller, \* goroutines of the gRPC server that serve GetNodeById
    ListCaller, \* those that serve GetAllNodes
    Host,       \* host names of the graph's nodes
    Sources,    \* the sources main() adds, in order, by their full names
    NameLists,  \* the lists of names GetAllNodes may ask for
    Ttl,        \* ng_state.cache.ttl
    Timeout,    \* ng_state.icinga.timeout (timeout_enabled is the default)
    MaxTime     \* bound: the end of the clock

ASSUME SourcesAssumption == Sources \in Seq(STRING) /\ IsInjective(Sources)
ASSUME NamesAssumption == NameLists \subseteq Seq(Host)
ASSUME TimesAssumption == Ttl \in Nat /\ Timeout \in Nat /\ MaxTime \in Nat

Caller == NodeCaller \cup ListCaller

VARIABLES
    now,        \* time.Now()
    cache,      \* MemoryStateCache.name_map: <<source, host>> -> [seen, time]
    sources,    \* StatusService.sources
    adding,     \* AddSource waits for src_mutex
    call        \* the call each goroutine is in

vars == <<now, cache, sources, adding, call>>

State == [source : ToSet(Sources), seen : Nat]

Idle == [pc |-> "idle", names |-> <<>>, src |-> 0, todo |-> <<>>,
         missed |-> <<>>, expired |-> <<>>, asking |-> "expired", sent |-> 0,
         answer |-> {}, seen |-> 0, m |-> [h \in Host |-> <<>>], failed |-> {},
         held |-> {}, denied |-> {}]

Init ==
    /\ now = 0
    /\ cache = [k \in {} |-> 0]
    /\ sources = <<>>
    /\ adding = FALSE
    /\ call = [c \in Caller |-> Idle]

\* A call holds src_mutex for reading from its first step to its last.
InCall == {c \in Caller : call[c].pc # "idle"}
----------------------------------------------------------------------------
(* main(): AddSource for each source, then Serve *)

\* AddSource asks for the write lock: from here on every RLock waits.
AddSourceWaits ==
    /\ Len(sources) < Len(Sources)
    /\ ~adding
    /\ adding' = TRUE
    /\ UNCHANGED <<now, cache, sources, call>>

AddSource ==
    /\ adding
    /\ InCall = {}
    /\ sources' = Append(sources, Sources[Len(sources) + 1])
    /\ adding' = FALSE
    /\ UNCHANGED <<now, cache, call>>

\* Fault: the server is started before the sources are added.
Serving_AtOnce == TRUE

\* The RPC server is started after the last AddSource.
Serving == Len(sources) = Len(Sources)

RLock == ~adding
----------------------------------------------------------------------------
(* GetHostsStatusByName, one source after the other *)

Source(r) == sources[r.src]

\* The call r at the next source, or, after the last, at its reply.
AtSource(r, i) ==
    [r EXCEPT !.pc = IF i \in DOMAIN sources THEN "lookup" ELSE "replied",
              !.src = i, !.todo = r.names, !.missed = <<>>, !.expired = <<>>,
              !.asking = "expired", !.sent = 0, !.answer = {}, !.seen = 0]

\* The call r after its query: the expired names are asked for first.
AfterFetch(r) ==
    IF r.asking = "expired"
    THEN [r EXCEPT !.pc = "fetch", !.asking = "missed", !.sent = 0, !.answer = {}, !.seen = 0]
    ELSE AtSource(r, r.src + 1)

\* An RPC handler asks for the states of names.
Begin(c, names) ==
    /\ call[c].pc = "idle"
    /\ Serving
    /\ RLock
    /\ call' = [call EXCEPT ![c] =
                   AtSource([Idle EXCEPT !.names = names,
                                 !.held = {k \in DOMAIN cache : k[2] \in ToSet(names)}], 1)]
    /\ UNCHANGED <<now, cache, sources, adding>>

\* Fault: the ttl is taken in a larger unit.
Expired_WrongUnit(rec) == now - rec.time > 10 * Ttl

Expired(rec) == now - rec.time > Ttl

AddState(m, s, h, seen) == [m EXCEPT ![h] = Append(@, [source |-> s, seen |-> seen])]

\* cache.GetByName for the next name.
LookUp(c) ==
    LET r == call[c]
        h == Head(r.todo)
        k == <<Source(r), h>>
        s == [r EXCEPT !.todo = Tail(r.todo)]
    IN
    /\ r.pc = "lookup"
    /\ \/ /\ r.todo = <<>>
          /\ call' = [call EXCEPT ![c].pc = "fetch"]
       \/ /\ r.todo # <<>>
          /\ k \notin DOMAIN cache
          /\ call' = [call EXCEPT ![c] = [s EXCEPT !.missed = Append(@, h)]]
       \/ /\ r.todo # <<>>
          /\ k \in DOMAIN cache
          /\ Expired(cache[k])
          /\ call' = [call EXCEPT ![c] =
                         [s EXCEPT !.expired = Append(@, [host |-> h, seen |-> cache[k].seen])]]
       \/ /\ r.todo # <<>>
          /\ k \in DOMAIN cache
          /\ ~Expired(cache[k])
          /\ call' = [call EXCEPT ![c] =
                         [s EXCEPT !.m = AddState(@, Source(r), h, cache[k].seen)]]
    /\ UNCHANGED <<now, cache, sources, adding>>

\* The names of the query a call is at.
Asked(r) ==
    IF r.asking = "missed" THEN ToSet(r.missed)
    ELSE {r.expired[i].host : i \in DOMAIN r.expired}

\* fetch_cache_name_map: get_source_by_name takes src_mutex again.  The source
\* answers an empty list of names without a query.
Fetch(c) ==
    LET r == call[c] IN
    /\ r.pc = "fetch"
    /\ RLock
    /\ call' = [call EXCEPT ![c] = IF Asked(r) = {} THEN AfterFetch(r)
                                   ELSE [r EXCEPT !.pc = "sent", !.sent = now]]
    /\ UNCHANGED <<now, cache, sources, adding>>

\* The source takes the states of those of the hosts asked for that it knows.
SourceReads(c, known) ==
    LET r == call[c] IN
    /\ r.pc = "sent"
    /\ known \subseteq Asked(r)
    /\ call' = [call EXCEPT ![c] =
                   [r EXCEPT !.pc = "read", !.answer = known, !.seen = now,
                             !.denied = @ \cup ({Source(r)} \X (Asked(r) \ known))]]
    /\ UNCHANGED <<now, cache, sources, adding>>

\* The states r found expired, added to its result.
Fallback(r) ==
    FoldSeq(LAMBDA e, m : AddState(m, Source(r), e.host, e.seen), r.m, r.expired)

\* Fault: nothing is shown for the expired states of a source that fails.
QueryFails_NoFallback(c) ==
    LET r == call[c] IN
    /\ r.pc \in {"sent", "read"}
    /\ call' = [call EXCEPT ![c] = AfterFetch([r EXCEPT !.failed = @ \cup {Source(r)}])]
    /\ UNCHANGED <<now, cache, sources, adding>>

\* Fault: the expired states shown instead are cached anew.
QueryFails_CachesFallback(c) ==
    LET r == call[c]
        Again(k) == k[1] = Source(r) /\ r.asking = "expired" /\ k[2] \in Asked(r)
    IN
    /\ r.pc \in {"sent", "read"}
    /\ cache' = [k \in DOMAIN cache |->
                    IF Again(k) THEN [cache[k] EXCEPT !.time = now] ELSE cache[k]]
    /\ call' = [call EXCEPT ![c] = AfterFetch([r EXCEPT !.failed = @ \cup {Source(r)}])]
    /\ UNCHANGED <<now, sources, adding>>

\* The query fails or times out: for the expired names the expired states are
\* shown, and the error is kept.
QueryFails(c) ==
    LET r == call[c] IN
    /\ r.pc \in {"sent", "read"}
    /\ call' = [call EXCEPT ![c] =
                   AfterFetch([r EXCEPT !.failed = @ \cup {Source(r)},
                                        !.m = IF r.asking = "expired" THEN Fallback(r) ELSE @])]
    /\ UNCHANGED <<now, cache, sources, adding>>

\* Fault: the record is stamped with the time it expires at.
AddUpdate_StampsExpiry(k, seen) ==
    cache' = [x \in DOMAIN cache \cup {k} |->
                 IF x = k THEN [seen |-> seen, time |-> now + Ttl] ELSE cache[x]]

\* cache.AddUpdate, with the time of the call as the record's time.
AddUpdate(k, seen) ==
    cache' = [x \in DOMAIN cache \cup {k} |->
                 IF x = k THEN [seen |-> seen, time |-> now] ELSE cache[x]]

\* Fault: the expired states go into the result when the query succeeds too.
Merged_KeepsExpired(r) == IF r.asking = "expired" THEN Fallback(r) ELSE r.m

\* The result once all the states of an answer have been put.
Merged(r) == r.m

\* The answer has arrived: put_states_cache, one state per step, and
\* states_to_name_map.
Put(c) ==
    LET r == call[c] IN
    /\ r.pc \in {"read", "put"}
    /\ \/ /\ r.answer = {}
          /\ call' = [call EXCEPT ![c] = AfterFetch([r EXCEPT !.m = Merged(r)])]
          /\ UNCHANGED cache
       \/ \E h \in r.answer :
             /\ AddUpdate(<<Source(r), h>>, r.seen)
             /\ call' = [call EXCEPT ![c].pc = "put",
                                     ![c].answer = @ \ {h},
                                     ![c].m = AddState(@, Source(r), h, r.seen)]
    /\ UNCHANGED <<now, sources, adding>>

\* The handler answers and its goroutine ends.
Return(c) ==
    /\ call[c].pc = "replied"
    /\ call' = [call EXCEPT ![c] = Idle]
    /\ UNCHANGED <<now, cache, sources, adding>>

\* Fault: queries have no timeout.
MayWait_Forever(c) == call[c].pc \in {"idle", "sent", "read"}

\* Goroutine c can let time pass: it is idle, or its query has not timed out.
MayWait(c) ==
    \/ call[c].pc = "idle"
    \/ call[c].pc \in {"sent", "read"} /\ now < call[c].sent + Timeout

Tick ==
    /\ now < MaxTime
    /\ \A c \in Caller : MayWait(c)
    /\ now' = now + 1
    /\ UNCHANGED <<cache, sources, adding, call>>

GetNodeById == \E c \in NodeCaller, h \in Host : Begin(c, <<h>>)
GetAllNodes == \E c \in ListCaller, names \in NameLists : Begin(c, names)

\* What goroutine c does on its own, once a call has begun.
Goes(c) ==
    \/ LookUp(c)
    \/ Fetch(c)
    \/ \E known \in SUBSET Host : SourceReads(c, known)
    \/ QueryFails(c)
    \/ Put(c)
    \/ Return(c)

Next ==
    \/ AddSourceWaits
    \/ AddSource
    \/ GetNodeById
    \/ GetAllNodes
    \/ \E c \in Caller : Goes(c)
    \/ Tick

\* Goroutines are scheduled, and with the timeout every query ends; nobody has
\* to call.
Fairness ==
    /\ WF_vars(AddSourceWaits) /\ WF_vars(AddSource)
    /\ \A c \in Caller : WF_vars(Goes(c))

Spec == Init /\ [][Next]_vars /\ Fairness
----------------------------------------------------------------------------
TypeOK ==
    /\ now \in 0..MaxTime
    /\ DOMAIN cache \subseteq ToSet(sources) \X Host
    /\ \A k \in DOMAIN cache : cache[k] \in [seen : 0..now, time : 0..now]
    /\ IsPrefix(sources, Sources)
    /\ adding \in BOOLEAN
    /\ \A c \in Caller :
          /\ call[c].pc \in {"idle", "lookup", "fetch", "sent", "read", "put", "replied"}
          /\ call[c].sent \in 0..now /\ call[c].seen \in 0..now
          /\ call[c].m \in [Host -> Seq(State)]
          /\ call[c].answer \subseteq Host

\* The cache stamps a state when it is put and not when the source saw it; the
\* stamp flatters the state by at most the timeout of the query.
StampHonest == \A k \in DOMAIN cache : cache[k].time <= cache[k].seen + Timeout

\* A slow answer may overwrite a newer one of another call, stamped as fresh;
\* but it never puts the cache back by more than the timeout.
CacheGoesBackAtMostTimeout ==
    [][\A k \in DOMAIN cache :
          k \in DOMAIN cache' /\ cache'[k].seen + Timeout >= cache[k].seen]_vars

Replied == {c \in Caller : call[c].pc = "replied"}

\* How old the oldest state can be that a call found fresh, when the queries it
\* made afterwards, two per source, have come to their end.
MaxAge == Ttl + Timeout + 2 * Timeout * Len(sources)

\* A reply holds an older state of a source only if that source failed in this
\* very call: a source that answers never leaves a stale state in the reply,
\* however the calls and their writes to the cache interleave.
StaleOnlyIfSourceFailed ==
    \A c \in Replied : \A h \in Host : \A i \in DOMAIN call[c].m[h] :
        LET s == call[c].m[h][i] IN
        now > s.seen + MaxAge => s.source \in call[c].failed

Occurrences(names, h) == Cardinality({i \in DOMAIN names : names[i] = h})

\* The page shows one state per source for a node: no reply holds both an
\* expired state and its replacement, or the answers to two queries.
OneStatePerSource ==
    \A c \in Replied : \A h \in Host : \A s \in ToSet(sources) :
        Cardinality({i \in DOMAIN call[c].m[h] : call[c].m[h][i].source = s})
            <= Occurrences(call[c].names, h)

\* A reply has a state for every host it was asked for that the cache held from
\* a source when the call began, unless that source said it does not know it.
HasLatest(r) ==
    \A k \in r.held \ r.denied :
        k[2] \in ToSet(r.names) => \E i \in DOMAIN r.m[k[2]] : r.m[k[2]][i].source = k[1]

\* GetAllNodes keeps showing the latest available states when sources fail.
ListShowsLatest == \A c \in Replied \cap ListCaller : HasLatest(call[c])

\* What GetHostStatusByName returns of the result: no state at all after an error.
NodeStates(r) == IF r.failed = {} THEN r.m[r.names[1]] ELSE <<>>

\* README.md of the backend: the latest available information is shown if some
\* service goes down.  For GetNodeById as well?
NodeShowsLatest ==
    \A c \in Replied \cap NodeCaller :
        (\E k \in call[c].held \ call[c].denied : k[2] = call[c].names[1])
            => NodeStates(call[c]) # <<>>

\* Every call returns: none waits forever for src_mutex, which it takes again
\* while it holds it, because no AddSource waits once the server runs.
EveryCallReturns == \A c \in Caller : (call[c].pc # "idle") ~> (call[c].pc = "idle")
====
