---- MODULE Page ----
(***************************************************************************)
(* A page that has been loaded: the store (store.js), kept up to date by   *)
(* the Updater and by notifications, each of which fetches the nodes it    *)
(* names (communication.js); the colours of the nodes (renderer.js) and    *)
(* the queue of nodes with problems for the tab key (ui.tabstop.js).       *)
(*                                                                         *)
(* Of a node only its state counts.  truth[n] is how often it has changed  *)
(* at the backend; it is down when that is odd.  A request is answered     *)
(* with the truth at one moment and the answer arrives later, in any       *)
(* order.  GetNodeById fails as a whole when the backend does: PHP then    *)
(* answers with a status object in JSON, which is no error to the page.    *)
(*                                                                         *)
(* The renderer is told of an update before the store makes it and in the  *)
(* same task; the tab stops by a timer of 0 ms, in the order of updates.   *)
(***************************************************************************)
EXTENDS Integers, FiniteSets, Functions, SequencesExt

CONSTANTS
    Nodes, NLinks,  \* of the graph storage
    PartSize,
    MaxChanges,     \* bound: changes of each node's state
    MaxNotified,    \* bound: messages of the notification server
    MaxFailures,    \* bound: requests that fail or are cut short
    MaxEvents       \* bound: updates the tab stops have not been told of

ASSUME PageAssumption ==
    /\ PartSize \in Nat \ {0}
    /\ {MaxChanges, MaxNotified, MaxFailures, MaxEvents} \subseteq Nat
    /\ IsFiniteSet(Nodes) /\ Nodes \subseteq Nat

VARIABLES
    globalTimers, partTimers, requested, lastId,    \* of the updater
    truth,          \* the states the backend would answer with
    store,          \* _nodesById: the versions of the states
    colour,         \* the classes of the nodes in the drawing
    events,         \* the updates published and not yet delivered
    tabQueue,       \* _tab_stop_queue
    part,           \* what the server answered a request for a part with
    fetching,       \* requests for a node not answered yet
    fetched,        \* answers to them under way: <<number, node, version>>
    notified,       \* messages so far
    failures

U == INSTANCE Updater

updater == <<globalTimers, partTimers, requested, lastId>>
live == <<fetching, fetched, notified>>
views == <<store, colour, events, tabQueue>>
vars == <<globalTimers, partTimers, requested, lastId, truth, store, colour,
          events, tabQueue, part, fetching, fetched, notified, failures>>

NotFound == -1      \* the status object: it has an id and no states
None == [n \in {} |-> 0]
NotServed == [served |-> FALSE, nodes |-> None]

Shown == Nodes \ {0}
Effective(v) == CASE v = NotFound -> "none"
                  [] v % 2 = 1 -> "down"
                  [] OTHER -> "up"
Problem(v) == Effective(v) = "down"

Init ==
    /\ U!Init
    /\ truth = [n \in Nodes |-> 0]
    /\ store = [n \in Shown |-> 0]
    /\ colour = [n \in Shown |-> Effective(0)]
    /\ events = <<>>
    /\ tabQueue = <<>>
    /\ part = NotServed
    /\ fetching = {}
    /\ fetched = {}
    /\ notified = 0
    /\ failures = 0

Fails == failures < MaxFailures /\ failures' = failures + 1
----------------------------------------------------------------------------
(* The store and those who follow it.                                      *)

\* renderer.js: a node is drawn anew when its state differs from the one in
\* the store, which is the old one as long as the event comes before it.
Recolour(new) ==
    [n \in Shown |->
        IF n \in DOMAIN new /\ Effective(new[n]) # Effective(store[n])
        THEN Effective(new[n]) ELSE colour[n]]

\* updateNode, updateNodes: new maps ids to the nodes that arrived.
Update(new) ==
    /\ Len(events) < MaxEvents
    /\ colour' = Recolour(new)
    /\ store' = [n \in Shown |-> IF n \in DOMAIN new THEN new[n] ELSE store[n]]
    /\ events' = Append(events, new)
    /\ UNCHANGED tabQueue

\* The index that handle_node_update finds is the last one of the node, and one
\* node is removed.
Places(queue, n) == {i \in DOMAIN queue : queue[i] = n}
RemoveOne(queue, n) ==
    IF Places(queue, n) = {} THEN queue ELSE RemoveAt(queue, Max(Places(queue, n)))

\* Fault: a node is queued without a look at what the queue holds.
handle_node_update_Again(queue, n, v) ==
    IF Problem(v) THEN Append(queue, n) ELSE RemoveOne(queue, n)
handle_node_update(queue, n, v) ==
    IF Problem(v)
    THEN IF Places(queue, n) = {} THEN Append(queue, n) ELSE queue
    ELSE RemoveOne(queue, n)

\* The nodes of an update are gone through by their ids.
AfterUpdate(queue, new) ==
    MapThenFoldSet(LAMBDA n, q : handle_node_update(q, n, new[n]), queue,
                   LAMBDA n : n, Max, DOMAIN new)

\* The subscriptions of the tab stops, one timer per update.
Deliver ==
    /\ events # <<>>
    /\ events' = Tail(events)
    /\ tabQueue' = AfterUpdate(tabQueue, Head(events))
    /\ UNCHANGED <<updater, live, truth, store, colour, part, failures>>
----------------------------------------------------------------------------
(* The updater.                                                            *)

Timer ==
    /\ U!updateCallback \/ U!updatePartStart
    /\ UNCHANGED <<live, views, truth, part, failures>>

\* The backend reads the nodes and their states.
ServePart ==
    /\ requested > 0
    /\ ~part.served
    /\ \E ids \in U!PartsFrom(lastId, PartSize) :
          /\ part' = [served |-> TRUE, nodes |-> Restrict(truth, ids)]
          /\ IF ids = U!GetAllNodesFrom(lastId, PartSize)
             THEN UNCHANGED failures
             ELSE Fails
    /\ UNCHANGED <<updater, live, views, truth>>

\* An empty part publishes nothing.
PartArrives ==
    /\ part.served
    /\ U!PartArrives(DOMAIN part.nodes)
    /\ part' = NotServed
    /\ \/ part.nodes = None /\ UNCHANGED views
       \/ part.nodes # None /\ Update(part.nodes)
    /\ UNCHANGED <<live, truth, failures>>

PartFails ==
    /\ Fails
    /\ \E calls \in 1..2 : U!PartFails(calls)
    /\ part' = NotServed
    /\ UNCHANGED <<live, views, truth>>
----------------------------------------------------------------------------
(* Notifications.                                                          *)

\* A message names one node, or several if it is an aggregate.
\* performNodeUpdate asks for each of them.
Notification(ids) ==
    /\ notified < MaxNotified
    /\ notified' = notified + 1
    /\ fetching' = fetching \cup ({notified'} \X ids)
    /\ UNCHANGED <<updater, views, truth, part, fetched, failures>>

\* GetNodeById and the controller's answer to it.
ServeNode ==
    /\ \E r \in fetching :
          /\ fetching' = fetching \ {r}
          /\ \/ fetched' = fetched \cup {<<r[1], r[2], truth[r[2]]>>}
                /\ UNCHANGED failures
             \/ fetched' = fetched \cup {<<r[1], r[2], NotFound>>} /\ Fails
    /\ UNCHANGED <<updater, views, truth, part, notified>>

NodeArrives ==
    /\ \E r \in fetched :
          /\ fetched' = fetched \ {r}
          /\ Update([n \in {r[2]} |-> r[3]])
    /\ UNCHANGED <<updater, truth, part, fetching, notified, failures>>

\* The answer is lost on its way; performNodeUpdate does nothing.
NodeFails ==
    /\ \E r \in fetching : fetching' = fetching \ {r}
    /\ Fails
    /\ UNCHANGED <<updater, views, truth, part, fetched, notified>>

Change(n) ==
    /\ truth[n] < MaxChanges
    /\ truth' = [truth EXCEPT ![n] = @ + 1]
    /\ UNCHANGED <<updater, live, views, part, failures>>

Next ==
    \/ Deliver
    \/ Timer
    \/ ServePart
    \/ PartArrives
    \/ PartFails
    \/ \E ids \in SUBSET Shown \ {{}} : Notification(ids)
    \/ ServeNode
    \/ NodeArrives
    \/ NodeFails
    \/ \E n \in Shown : Change(n)

\* Timers fire, and requests are served and answered.
Fairness ==
    /\ WF_vars(Deliver)
    /\ WF_vars(Timer)
    /\ WF_vars(ServePart)
    /\ WF_vars(PartArrives)
    /\ WF_vars(ServeNode)
    /\ WF_vars(NodeArrives)

Spec == Init /\ [][Next]_vars /\ Fairness
----------------------------------------------------------------------------
TypeOK ==
    /\ lastId \in Nodes \cup {0}
    /\ truth \in [Nodes -> 0..MaxChanges]
    /\ store \in [Shown -> {NotFound} \cup 0..MaxChanges]
    /\ colour \in [Shown -> {"none", "up", "down"}]
    /\ \A i \in DOMAIN events : DOMAIN events[i] \subseteq Shown
    /\ Len(events) <= MaxEvents
    /\ tabQueue \in Seq(Shown)
    /\ DOMAIN part.nodes \subseteq Shown
    /\ fetching \subseteq (1..notified) \X Shown
    /\ fetched \subseteq (1..notified) \X Shown \X ({NotFound} \cup 0..MaxChanges)
    /\ failures \in 0..MaxFailures

\* The update goes on, and only once, while notifications come in between
\* (updater.js).
OneRotation == U!OneRotation

Mentions(n) == {i \in DOMAIN events : n \in DOMAIN events[i]}

ColoursMatchStore == colour = [n \in Shown |-> Effective(store[n])]
TabStopsMatchStore ==
    /\ IsInjective(tabQueue)
    /\ \A n \in Shown :
          IF Mentions(n) = {}
          THEN n \in ToSet(tabQueue) <=> Problem(store[n])
          ELSE events[Max(Mentions(n))][n] = store[n]

\* What the user sees is what the store holds: a node has the colour of its
\* state, and once the tab stops have been told of the updates under way, they
\* are the nodes with problems, each once, in whatever order answers arrived
\* (renderer.js, update_node; ui.tabstop.js, handle_node_update).
ViewsMatchStore == ColoursMatchStore /\ TabStopsMatchStore

\* An answer may arrive late and set a node back, a message may be lost and a
\* request fail, but when changes and failures cease the page comes to show
\* every node's state for good (updater.js, communication.js).
EventuallyShown == <>[](\A n \in Shown : store[n] = truth[n])

\* store.js, line 144: what updateNode puts into the store is a node.
StoreHoldsNodes == \A n \in Shown : store[n] # NotFound
====
