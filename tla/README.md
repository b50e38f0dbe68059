# A specification of NetGraphz2

NetGraphz2 shows the map of a network in the browser: the graph of its nodes and
links, the state Icinga has found each node in, the metrics collectd measured, and
notifications as they happen. This directory holds TLA+ modules that model its
concurrent parts, TLC configurations that check them on small instances, and proofs
for all instances that TLAPS checks.

    tlc -workers 2 -config MCRateLimiter.cfg MCRateLimiter
    tlapm RateLimiter_proofs.tla

PROJECT.json is the index: components, runs, the source lines of every definition,
the hazards of the code with the properties that cover them, findings and theorems.

## Inventory

| part | state it keeps | operations | interacts with |
|---|---|---|---|
| notification server, `notifications/` (node.js) | request counter, queue, two interval timers, open topics with an interval each | POST notify_host and notify_service, timer callbacks, database replies | Icinga scripts (HTTP), neo4j, browsers (socket.io); restarted by systemd |
| state service, `backend/src/ng_state` (Go) | cache of states by name and by address, list of sources, `src_mutex` | look-ups by name and by address, AddSource, cache updates | RPC server, Icinga livestatus |
| metric service, `backend/src/ng_metric` (Go) | a ring of samples per metric, an index by host, the source's mutex | Write of a packet, reads of last values, counts, ranges | collectd (UDP), RPC server |
| graph storage, `backend/src/ng_graph` (Go) | none | Cypher queries, paging by id | neo4j, RPC server |
| RPC server, `backend/src/ng_rpc_server` (Go) | none of its own | GetNodeById, GetAllNodes, GetAllLinks, GetStatus, GetAllMetrics, each call on a goroutine | all of the above, PHP |
| web server, `web-phalcon/app` (PHP) | saved positions and users, in MongoDB | one request at a time per process | RPC server, browser |
| page, `web-phalcon/public/js/netgraphz` | nodes, links and metrics shown, timers, requests under way | load sequence, rotation of updates, live notifications, panels | PHP (XHR), notification server |
| neo4j library, `node_netgraphz2` | one connection | look-ups (create, update, delete have no caller) | notification server |
| Icinga scripts and generator, `icinga/` | none | one HTTP request per notification; a depth-first search over the graph | notification server; Icinga |

What is hard in each, and what makes it correct:

* **Notifications.** Node.js runs one callback at a time, but requests, the two
  limiter timers, one timer per topic and database replies come in any order. Right
  means: order kept, nothing lost or repeated between the places an event passes
  through, a rate that is really bounded, a quota that comes back, timers that stop.
* **States.** Goroutines share the cache and hold no lock over a query. Sources
  answer late, in part, or time out. Right means: stale states only when a source
  failed, the latest known ones then, no state twice, no call that hangs.
* **Metrics.** Packets are written on goroutines, in any order; storage and rings
  have locks of their own. Right means: no sample lost, the newest kept, both
  indexes equal, readers that see samples in order.
* **Page.** Replies overtake each other, timers outlive what they were started for,
  requests fail and a request the network breaks calls back twice. Right means: every
  page load ends and reads every node, one rotation of updates at a time, drawing and
  tab stops that follow the store, a page that in the end shows every state.
* **Generator.** The graph has cycles and several ways to a host. Right means: the
  search ends, dependencies are trees, every usable host in reach gets its file, or it
  is known why not.

PROJECT.json lists the hazards one by one, those without a property included.

## Modules

| module | models | state and actions |
|---|---|---|
| `FifoDelivery` | what the limiter promises | items waiting and done, in order; Drain is fair |
| `RateLimiter` | limiter of `event_handler.js`, init of `routes/api/icinga.js` | each variable is the variable of the code named beside it; Request, FlushTick, ThrottleTick, InitHandler, Restart |
| `EventHandler` | the rest of `event_handler.js`, over the limiter | topics, queries under way, ends; Notify, BadRequest, AggTick, Reply, and the limiter's ticks |
| `StatusService` | `status_service.go`, `cache_memory.go`, callers in `rpc_server.go`, start in `main.go` | the cache and one record per call; Begin, LookUp, Fetch, SourceReads, Put, QueryFails, Return, AddSource, Tick |
| `RecentSamples` | what the metric storage promises | per metric the samples of it stored last, newest first |
| `MetricStorage` | `memory_storage.go`, `collectd_source.go` | heap of rings, two indexes, one record per Write; Receive, Lock, Find, AddRing, AddToHost, Put, Unlock; readers are operators |
| `GraphStorage` | `neo4j_graph_storage.go`, as `rpc_server.go` and PHP pass it on | no state: operators for parts by id, streams cut short, the counts and the limit of links |
| `PageLoad` | `main.js` over `status.js`, `fetcher.js` | the load's variables and what is under way; Attach, StatusReply, CallHandler, UserParamsReply, FetchPart, PartEnds, LinksReply |
| `Updater` | `updater.js` | its two timers, the request under way, `lastId`; updateCallback, updatePartStart, PartArrives, PartFails |
| `Page` | `store.js`, `communication.js`, `renderer.js`, `ui.tabstop.js`, over the updater and the backend's answers | store, colours, tab stops, requests and answers under way; Timer, ServePart, PartArrives, PartFails, Notification, ServeNode, NodeArrives, NodeFails, Deliver, Change |
| `ConfigGenerator` | `icinga/config_generator/generator` | one frame per call of `dfs`, and for each name the node whose file is in the folder; Look, Return, Write |
| `DataLemmas` | | lemmas about numbers, sets, sequences, recursion and folds |
| `..._proofs` | | theorems about the module they are named after |
| `MC...` | | instances for TLC |

How they compose. `EventHandler` instantiates `RateLimiter` over its own variables:
the limiter's actions are conjuncts of its own, and the limiter's specification is one
of its checked and proved properties (LimiterInside). `Page` instantiates `Updater`
in the same way, and `Updater` and `PageLoad` extend `GraphStorage`, which says what
a request for a part may be answered with.

Definitions named X_Something and marked "Fault:" are not part of any
specification. Each is a plausible slip in the definition X that follows it, and
substituting it must break the property PROJECT.json pairs it with; that shows the
property would notice.

### Atomicity

* `RateLimiter`, `EventHandler`, `PageLoad`, `Updater`, `Page`: one callback, one
  action, as the event loops of node.js and the browser do. In `Page` the backend
  reads the states in one step and the answer arrives in a later one.
* `StatusService`: one cache access or one change of a call's stage is one action;
  the cache's mutexes are held only within these. Between the reading of a state by
  the source, its arrival, and each write to the cache other calls may step.
* `MetricStorage`: one hold of the storage's or a ring's lock is one action. A
  reader finds its ring under one lock and reads it under another; since no ring is
  ever replaced (the models' index entries only grow), the pair equals one read.
* `ConfigGenerator`: one relationship looked at, one return, one file.

### Abstractions

Host names, metrics and notifications are model values, or records of the fields
that decide anything (an event is type, state, last state and user). What a source
says of a host is abstracted to the time at which it looked, which is all that
freshness depends on. Time in `StatusService` is a clock that moves only while each
call is idle or waiting for a source within its timeout: computing takes no time.
The limiter has no clock; its timers may fire at any moment, which covers every
period, equal or not.

Of a node the page's modules keep the id and the version of its state: version v is
down when v is odd. What the page shows of an object that is no node is version
NotFound. A request of the browser ends with JSON, with an error, or broken by the
network; in the last case `fetcher.js` calls back from `onreadystatechange` and from
`onerror`, so the caller's callback runs twice. The two calls are one action, since
nothing else that matters here runs in between. A stream of the backend that ends early is not told from a
complete one, because the PHP repository does not look at its status; such cuts are
modelled as any prefix of the answer. `last_retry_time` of `main.js` is left out: it
is compared with `settings.init.node_retry_times`, but settings.js has only
`node_part_retry_times`, so the comparison is always false. Nodes that come and go after the load are left out: the page draws
those it loaded. `handle_node_update` of the tab stops finds the last place of a node in
its queue and removes that one (RemoveOne); JavaScript goes through the nodes of an
update by ascending id, and so does AfterUpdate.

## Runs

| run | instance | shows |
|---|---|---|
| `rate_limiter` | rates 1, 2, 3 (queue), 3 (drop), 3 (off), 7 arrivals | FIFO order, one timer, counter equal to backlog, bounded bursts, everything accepted is started, quota returns, refinement of `FifoDelivery` |
| `event_handler` | 3 kinds of event, 3 configurations, 3 events | each event in one place, aggregates uniform, right audience, order within topics, every event ends, topics close, limiter refined |
| `status_service` | 2 hosts, 1 source, one call of each RPC, ttl = timeout = 1, clock to 5 | stale states only after a failure of their source, one state per source, lists complete, honest stamps, bounded step back |
| `status_locks` | 1 host under two nodes, 2 sources, clock to 2 | every call returns |
| `status_node` | 1 host, 1 source | *violation*: GetNodeById shows nothing of a cached host whose source is down |
| `metric_storage` | 4 metrics on 2 hosts, rings of 2, 2 goroutines, 5 values, 2 time stamps | refinement of `RecentSamples`, readers see order, indexes agree, every packet is worked off |
| `page_load` | nodes 0 to 4 in parts of 2, 11 links, 3 failures | no node skipped, the page starts with everything unless a stream was cut, one chain unless a request was broken, the load ends |
| `page_ready` | the same | *violation*: a broken request lets the page start before its links |
| `page_updates` | 2 nodes in parts of 1, 1 change each, 2 notifications, 1 failure, 2 undelivered updates | one rotation, colours and tab stops follow the store, every state is shown in the end |
| `page_node` | the same | *violation*: an object that is no node gets into the store |
| `config_generator` | 4 hosts, every subset of 7 links, every choice of usable hosts and of names, none or one of up to two, two pairs of hosts sharing one | dependencies are trees; the program ends, early only over a node without a name; its files are whole and, if it was not ended early, those of the hosts found last of each name in reach |
| `config_names` | the same | *violation*: a node without a name ends the program, and hosts get no definition |

Why the bounds suffice. Seven arrivals at rate 3 give two full batches and a
partial one, and rate 1 (no free slot ever) and 2 (one) are the boundary cases. Three
events fill a topic twice or two topics at once and still leave one to pass by. A
clock to 5 with ttl and timeout 1 lets a record be put, expire, be replaced, expire
again and be shown when older than MaxAge = 4. Five values overwrite a ring of two
more than once round. Two calls, two writers and two sources are the least that can
interfere. Five nodes in parts of two are node 0, which is never asked for, two full
parts and an empty one; eleven links are exactly as many as the page asks for; with
three failures a part can be broken, its retry broken again and a stream cut. On the
page, one change, two notifications and one failure let two answers for one node and
a part overtake each other while an update is not yet delivered. The seven links give
the generator a detour, links in both directions and cycles through the start; the names
let the start host share one with another host, and two other hosts one. Most of
the proofs below do not depend on these numbers.

Deadlock is checked except where the system may stop: `MetricStorage` rests when no
packet comes, a page load ends, a generator ends, and the bounds of `Page` (changes,
notifications, undelivered updates) can leave it without a step.

### Fairness

* Weak fairness of ThrottleTick, FlushTick and the topic intervals: setInterval
  fires as long as the event loop turns. None for requests or restarts.
* Weak fairness of database replies: the HTTP client ends with an answer or an
  error. An event that a reply loses counts as ended.
* Weak fairness of each call's steps in `StatusService`: goroutines are scheduled,
  and with the timeout (on by default) each query ends.
* Strong fairness of each Write's steps in `MetricStorage`: Go's mutex hands itself
  to a waiter that has starved, so a writer that can take it again and again does.
* Weak fairness of the page's timers, of the attaching of `main.js` (the scripts of
  the page are all run), and of requests, which the browser ends in one way or the
  other. None for failures, notifications or changes; failures are bounded, because
  without a bound nothing would ever load.
* Weak fairness of the generator's steps: it is a sequential program.

## Findings

1. `status_node`: backend/README.md, line 4, says the latest available information
   is shown if some service goes down. GetAllNodes does that. GetHostStatusByName
   returns no states along with the error, and GetNodeById then fails as a whole.
2. `page_ready`: main.js, line 64, says that everything is ready when it starts the
   page. A request for a part that the network breaks calls back twice, each call
   starts a retry, and each of the two chains ends with `update_sequence`; the one
   that comes second starts the page while its links are still to come.
3. `page_node`: store.js, line 144, says that what is stored is a node. The answer to
   a node the backend does not deliver is a JSON object with a status and an id, which
   is no error to `fetcher.js`, and `performNodeUpdate` stores it. The next rotation
   repairs it.
4. `config_names`: INSTALL.md, line 17, says that the generator will easily create
   host definitions from the graph. A node without an `icinga_name` is kept out of the
   list of hosts, but is made a dependent of the usable host before it; its missing name
   then goes into that host's file, the text replacement fails, and that host and all
   after it get no definition. A start host without the name does the same to the first
   file. From a usable start host any node in reach without a name has this effect; from
   a named one without an address it depends on the order in which the database
   returns the links, as a node reached before any usable host depends on none.

Also seen, without a run: GetMetricValueByTimeRange (memory_storage.go:126), which
nothing calls, refuses a start *before* the current time with the message that it should
be before it; and of two hosts of one name the generator leaves the file of the one found
later (generator:142), which EveryHostConfigured states as it is.

## Proofs

`RateLimiter_proofs`, for every set of notifications and of configurations with a
positive rate and every bound on the arrivals. The inductive invariant LimiterInv
joins five parts. NoLossNoOvertaking needs the counter: a notification starts at once
only when the counter is below the rate, and with CounterMatchesBacklog that means
that no older one waits. CounterMatchesBacklog needs OneTimerRuns, as a flush while
notifications wait would reset the counter. BurstBounded is not inductive: a period
that begins with a partial batch starts notifications that are not on the counter,
so CounterMatchesBurst says between which bounds the two differ. Each action
preserves each part in a lemma of its own; theorems: LimiterInvariant, TypeCorrect,
OneTimer, FifoOrder, BacklogAccounting, BurstBound, RefusalJustified, and
LimiterImplementsFifo for the safety part of the refinement.

`EventHandler_proofs`, for any events told apart by their fields (EventAssumption) and
settings the limiter accepts (SettingsAssumption). HandlerInv says that a collected
event has its topic's key, hence that a query says of each of its events what was
posted (QueriesSayWhatWasPosted); that the queries the limiter has seen and the events
still collected are together no more than the events posted (Budget), so that the
limiter's bound on arrivals is never the one that stops a step (ServerRunsLimiter);
and that of two equal events the one posted first reaches the limiter first. The last
gives TopicsInOrder together with the limiter's own order, which is theorem FifoOrder of
`RateLimiter_proofs`; tlapm cannot cite a theorem through an instance, so InsideInv, the
part of LimiterInv that keeps the order, is shown again for the limiter inside.
RightPeopleTold adds that what has been shown and mailed went by the user of its query.
EachEventPlaced rests on PlacesInv: a posted event is in one topic and nowhere else, or
in no topic and in one query under way, one place of the queue or one end, and what was
not posted yet is nowhere. A flushed event therefore cannot be in the limiter already,
and a batch or a reply moves each event it touches from one such place to the next.
HandlerTypes needs it too: only because what was not posted is nowhere do the ends hold
nothing but posted events.

`StatusService_proofs`, for any goroutines, hosts, sources, ttl and timeout, in five
invariants.

* TimeInv: a query is out no longer than the timeout, and every cached state was stamped
  at most the timeout after it was seen. The clock may move only while all calls can
  wait, so the first part survives Tick, and it gives the second at each Put.
  Theorems TimesInvariant, StampsHonest, CacheGoesBack.
* TypeInv: which fields of a call are in use at which stage, and that no call is under
  way before the list of sources is complete, so that the index of a call's source
  stays in range. ServiceTypes, TypeCorrect. It follows that no AddSource waits while a
  call holds src_mutex, which the call takes a second time: LockTakenTwice.
* AgeInv: StaleOnlyIfSourceFailed speaks of replies and is not inductive. A state found
  fresh is at most Ttl + Timeout old, and every query the call makes afterwards adds
  at most one timeout, of which there are two per source; the time a query under way
  has taken is not spent yet. AgesInvariant, StaleMeansFailed.
* LatestInv: a state the cache held when the call began is shown, or was denied, if its
  source has been passed; if the call is at its source, it is shown or among what is
  still to come: hosts to look up, to ask for, or in the answer. LatestInvariant,
  ListsShowLatest.
* CountInv: the states of its source that a call shows for a host and those to come are
  together no more than the times the host was asked for. When a query fails, Fallback
  folds over the expired states; FallbackInduction shows that what holds of the
  result before, and with each state more, holds of the result of the fold.
  CountsInvariant, OneStateShown.

`MetricStorage_proofs`, for any goroutines, metrics, hosts and capacity. StorageInv
says that who is past Lock holds the mutex and nobody else does (OneHolder), so that
what AddMetricValue found under one lock is still so under the next (Current), and that
the two indexes agree but for the metric a goroutine is just adding (IndexInv):
StorageTypes, IndexesAgree. RingInv says that each ring, read back from its position,
holds some k samples and then nothing, that a ring belongs to one metric, and that a ring
just made is empty and its metric's until its first Put. Then Put is Store of
`RecentSamples` for one metric, and every other step changes nothing a reader of the
specification sees; the sample is one of that metric, as NextSample and Put go by the same
value of the packet: StorageKeepsRecent, the refinement of `RecentSamples`, which is a
safety specification. The wrap of the position is settled by three lemmas about % and
one per direction. ReadersOrdered is a consequence of the same invariant: a reader walks
back from the position until an element is empty or its time rises, so he goes on past
the oldest sample only if no time rises once round, where he is back at the sample he
began with, and then all times are equal (OneTime).

`PageLoad_proofs`, for any finite graph, part size and failures. A part is a prefix, by
id, of the nodes after the id it was asked from, and every id a part is asked from is at
most last_id, however many chains run: hence NoNodeSkipped. StartsWithEverything adds how
far the load has come when fetchLevel passes each step: after the last part, unless a
stream was cut, last_id is the highest id. OneChain rests on ChainInv: as long as no
request for a part was broken, what is under way is nothing, one request, the handler of
status.js, one request for a part, or one timer (Idle, OneRequest, OneHandler, OnePart,
OneTimer), at the level of the load that goes with it. The requests for parts are a bag,
and its size is a sum over a recursive function, worked out for the bags that occur
(empty, one request, one taken away). LoadTypes. LoadGoesOn, which needs no such bound on
what was broken: until the page starts or the load is cancelled, a request, a timer or a
handler is still to come.

`Page_proofs`, for any finite graph and bounds. PageRunsUpdater: every step of the page
is one of `Updater` or leaves its variables alone; RotationKept: exactly one timer or
request; PageTypes; ColoursFollowStore. ViewsFollowStore adds the tab stops:
TabStopsMatchStore is inductive once the types are known. An update that has not been
delivered is the last word on the nodes it mentions, so appending one makes it agree
with the store, and when one is delivered, the queue holds afterwards the nodes it says
are down, none it says are up, and the others as before (AfterUpdateQueue). This is the
fold over the ids of an update, and each of its steps removes one place at most: enough,
since the queue has no node twice (QueueWithoutPlace).

`ConfigGenerator_proofs`, for any finite graph. SearchInv follows the stack: the usable
parent of a frame has been written down before, and what is connected has been scanned,
once. WaysInv adds that a way without other usable hosts leads from the usable parent of
a frame to the frame's node, said without counting steps: no set of hosts that keeps such
ways inside has the one and not the other (WayTo). That ReachableVia is such a set, and
the least one, follows from its definition and the number of hosts (ReachableEncloses,
ReachableIsLeast). Theorem Trees: DependenciesAreTrees. ScanInv adds that a child of a
scanned node has been scanned or is still to be looked at by a frame of the stack; when
the stack is empty, what has been scanned is closed: ScannedIsReach, and FindsEveryHost.
For the writing, FilesInv says that a file is of a host worked off already, that each
host worked off has the names it needs and its name's file is of it or of a later one,
and that a crash is at the next host of the list; as long as the search runs there is no
file, so the dependencies no longer change under the files. Attached says that from a usable
start host every other scanned node depends on a host, so that a missing name is met.
OutcomeHolds: whenever the program has ended, Outcome holds, which is EveryHostConfigured
without the promise to come to the end.

`DataLemmas` holds what several of them need. Induction over data is not available in the
form of the library's theorems, which quantify over predicates. It is in the form used here:
the claim is a *set* of numbers, or of subsets of a finite set, that contains the next
whenever it contains those before (SetOfNumbers, SetOfSubsets). From it follow the
existence of what a recursive function or a fold chooses (RecursionOverInterval,
RecursionOverSubsets), which is what TLA+ needs before anything can be said of one.

Every safety property of a passing run is thus a theorem, for every value of the
constants the assumptions allow. Only model-checked: the liveness properties
(EveryAcceptedStarts, QuotaReturns, EveryEventEnds, TopicsClose, EveryCallReturns,
EveryWriteEnds, LoadEnds, EventuallyShown, EveryHostConfigured) and the fairness part of
the refinement ImplementsFifo, since the prover treats neither fairness nor ENABLED.

## Assumptions and what is left out

* A rate of 0 would queue everything and start nothing; ConfigsAssumption excludes it.
* The timeout of queries is enabled, as it is by default; without it EveryCallReturns
  and MaxAge have no ground.
* The collectd library, the livestatus library, neo4j, container/ring and the HTTP
  server are external: modelled as src/ uses them.
* The generator's graph does not change while it runs, and files that earlier runs left
  in its folder are not looked at.

### Not modelled

* Sign-on and tokens, the command line client, generated code, start-up and
  configuration, deployment apart from restarts: no state of their own, or none that
  is about monitoring.
* Formatting and logging, the parsing of Icinga's rows, the texts of notifications.
* Look-ups of a state by IP address (no RPC makes them) and the cache's Remove
  functions, ranges of metrics by time, `stop()` of the updater (nothing calls them).
* The selection and derivation of metrics in `rpc_server.go` and `metrics.go`:
  arithmetic on the samples `MetricStorage` returns.
* The timers of the panels, the cursor of the tab key, layout and drawing: no document
  says what they promise.
* Saved positions (read, change and write of one record in MongoDB).
* Exceptions in a callback of the page.
* Libraries kept in the repository (jQuery, Cytoscape.js, Bootstrap, socket.io, xhprof):
  they are most of its JavaScript lines and not this program's logic, which is why the
  map's share of all lines is small.

## Where to go on

Positions: two requests that read, change and write one record. The cache by IP address,
with its two maps that share records. The safety half of more of the liveness properties,
as OutcomeHolds is that of EveryHostConfigured and LoadGoesOn that of LoadEnds.
