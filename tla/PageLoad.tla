---- MODULE PageLoad ----
(***************************************************************************)
(* The load sequence of a page, netgraphz/main.js over status.js and       *)
(* fetcher.js: status, user parameters, the nodes part by part, links,     *)
(* then start_netgraphz.  status.js sends its request when it is loaded;   *)
(* main.js is loaded later and attaches its handlers.  Each callback of a  *)
(* request or timer is one action.                                         *)
(*                                                                         *)
(* A request ends in one of three ways: with an answer in JSON, with an    *)
(* empty body (one callback with an error), or broken by the network, in   *)
(* which case onreadystatechange and onerror both call back.               *)
(*                                                                         *)
(* last_retry_time is left out: it is compared with a setting that does    *)
(* not exist, so a part that fails is always asked for again.              *)
(***************************************************************************)
EXTENDS GraphStorage, Bags

CONSTANTS
    PartSize,       \* settings.init.node_part_size
    MaxFailures     \* bound: requests that fail or are cut short

ASSUME LoadAssumption == PartSize \in Nat \ {0} /\ MaxFailures \in Nat

NotLoaded == -1

VARIABLES
    attached,       \* main.js has run
    status,         \* status.js: "asked", "success" or "failed"
    handlerDue,     \* the timer with which attachStatusFetch... calls a handler
    load_cancel,
    fetchLevel,
    sent,           \* requests under way, other than those for parts
    asked,          \* bag of the ids after which parts are asked for
    partTimers,     \* timers that call fetch_part
    last_id,
    nodes,          \* the ids in the array of the nodes read so far
    repeated,       \* some id is in that array more than once
    links,          \* how many were loaded
    starts,         \* calls of start_netgraphz
    failures,       \* requests that failed or were cut
    cut,            \* history: some stream was cut
    broken          \* history: part requests the network broke

vars == <<attached, status, handlerDue, load_cancel, fetchLevel, sent, asked,
          partTimers, last_id, nodes, repeated, links, starts, failures, cut, broken>>

\* the nodes read, which only the parts change
nodeVars == <<last_id, nodes, repeated>>

Init ==
    /\ attached = FALSE
    /\ status = "asked"
    /\ handlerDue = FALSE
    /\ load_cancel = FALSE
    /\ fetchLevel = 0
    /\ sent = {"status"}
    /\ asked = EmptyBag
    /\ partTimers = 0
    /\ last_id = 0
    /\ nodes = {}
    /\ repeated = FALSE
    /\ links = NotLoaded
    /\ starts = 0
    /\ failures = 0
    /\ cut = FALSE
    /\ broken = 0

Fails == failures < MaxFailures /\ failures' = failures + 1

\* update_sequence, called when pending is still under way: its first three
\* calls take the next step of the load, every later one starts the page.
UpdateSequence(pending) ==
    LET level == fetchLevel + 1
    IN  /\ fetchLevel' = level
        /\ sent' = pending \cup (CASE level = 1 -> {"params"}
                                   [] level = 3 -> {"links"}
                                   [] OTHER -> {})
        /\ partTimers' = partTimers + (IF level = 2 THEN 1 ELSE 0)
        /\ starts' = starts + (IF level > 3 THEN 1 ELSE 0)

NoUpdateSequence(pending) ==
    /\ sent' = pending
    /\ UNCHANGED <<fetchLevel, partTimers, starts>>
----------------------------------------------------------------------------
\* status.js runs the handlers it knows when the reply comes, and calls one
\* that is attached later by a timer.
\* Fault: a handler that is attached late is never called.
CallLater_Never == FALSE
\* Fault: it is called by a timer whether the reply has come or not.
CallLater_Always == TRUE
CallLater == status # "asked"

Attach ==
    /\ ~attached
    /\ attached' = TRUE
    /\ handlerDue' = CallLater
    /\ UNCHANGED <<status, load_cancel, fetchLevel, sent, asked, partTimers,
                   nodeVars, links, starts, failures, cut, broken>>

\* The handlers of main.js: the first step of the load, or none.
StatusHandlers(outcome, pending) ==
    \/ /\ outcome = "success"
       /\ UpdateSequence(pending)
       /\ UNCHANGED load_cancel
    \/ /\ outcome = "failed"
       /\ NoUpdateSequence(pending)
       /\ load_cancel' = TRUE

StatusReply ==
    /\ "status" \in sent
    /\ \/ status' = "success" /\ UNCHANGED failures
       \/ status' = "failed" /\ Fails
    /\ IF attached
       THEN StatusHandlers(status', sent \ {"status"})
       ELSE NoUpdateSequence(sent \ {"status"}) /\ UNCHANGED load_cancel
    /\ UNCHANGED <<attached, handlerDue, asked, nodeVars, links, cut, broken>>

CallHandler ==
    /\ handlerDue
    /\ handlerDue' = FALSE
    /\ StatusHandlers(status, sent)
    /\ UNCHANGED <<attached, status, asked, nodeVars, links, failures,
                   cut, broken>>

\* The reply to a request other than for parts.  After a cancel it is ignored.
Ignored(what) ==
    /\ load_cancel
    /\ NoUpdateSequence(sent \ {what})
    /\ UNCHANGED <<load_cancel, links, failures, cut>>

\* A broken request calls back twice, and the second call finds load_cancel.
Failed(what) ==
    /\ ~load_cancel
    /\ Fails
    /\ load_cancel' = TRUE
    /\ NoUpdateSequence(sent \ {what})
    /\ UNCHANGED <<links, cut>>

UserParamsReply ==
    /\ "params" \in sent
    /\ \/ Ignored("params")
       \/ Failed("params")
       \/ /\ ~load_cancel
          /\ UpdateSequence(sent \ {"params"})
          /\ UNCHANGED <<load_cancel, links, failures, cut>>
    /\ UNCHANGED <<attached, status, handlerDue, asked, nodeVars, broken>>

LinksReply ==
    /\ "links" \in sent
    /\ \/ Ignored("links")
       \/ Failed("links")
       \/ /\ ~load_cancel
          /\ UpdateSequence(sent \ {"links"})
          /\ \/ links' = FetchAllLinks /\ UNCHANGED <<failures, cut>>
             \/ links' \in 0..FetchAllLinks - 1 /\ Fails /\ cut' = TRUE
          /\ UNCHANGED load_cancel
    /\ UNCHANGED <<attached, status, handlerDue, asked, nodeVars, broken>>
----------------------------------------------------------------------------
FetchPart ==
    /\ partTimers > 0
    /\ partTimers' = partTimers - 1
    /\ asked' = asked (+) SetToBag({last_id})
    /\ UNCHANGED <<attached, status, handlerDue, load_cancel, fetchLevel, sent,
                   nodeVars, links, starts, failures, cut, broken>>

\* Fault: the part that came last counts, not the highest id.
LastId_NoMax(ids) == IF ids = {} THEN last_id ELSE Highest(ids)
\* Fault: the next part is asked for from the id behind the last one.
LastId_Next(ids) == Highest(ids \cup {last_id}) + (IF ids = {} THEN 0 ELSE 1)
LastId(ids) == Highest(ids \cup {last_id})

\* Fault: a part that is exactly full is taken for the last one.
IsLastPart_Full(part) == Cardinality(part) <= PartSize
IsLastPart(part) == Cardinality(part) < PartSize

PartReply(from, part) ==
    /\ nodes' = nodes \cup part
    /\ repeated' = (repeated \/ nodes \cap part # {})
    /\ last_id' = LastId(part)
    /\ \/ /\ IsLastPart(part)
          /\ UpdateSequence(sent)
       \/ /\ ~IsLastPart(part)
          /\ partTimers' = partTimers + 1
          /\ UNCHANGED <<fetchLevel, sent, starts>>
    /\ \/ /\ part = GetAllNodesFrom(from, PartSize)
          /\ UNCHANGED <<failures, cut>>
       \/ /\ part # GetAllNodesFrom(from, PartSize)
          /\ Fails
          /\ cut' = TRUE
    /\ UNCHANGED broken

\* Each call with an error starts a timer of its own.
PartFailed(calls) ==
    /\ Fails
    /\ partTimers' = partTimers + calls
    /\ broken' = broken + (IF calls = 2 THEN 1 ELSE 0)
    /\ UNCHANGED <<fetchLevel, sent, nodeVars, starts, cut>>

PartEnds ==
    /\ \E from \in BagToSet(asked) :
          /\ asked' = asked (-) SetToBag({from})
          /\ \/ \E part \in PartsFrom(from, PartSize) : PartReply(from, part)
             \/ PartFailed(1)
             \/ PartFailed(2)
    /\ UNCHANGED <<attached, status, handlerDue, load_cancel, links>>

Next ==
    \/ Attach
    \/ StatusReply
    \/ CallHandler
    \/ UserParamsReply
    \/ FetchPart
    \/ PartEnds
    \/ LinksReply

\* The scripts of the page are all run, timers fire and every request ends.
Fairness ==
    /\ WF_vars(Attach)
    /\ WF_vars(StatusReply)
    /\ WF_vars(CallHandler)
    /\ WF_vars(UserParamsReply)
    /\ WF_vars(FetchPart)
    /\ WF_vars(PartEnds)
    /\ WF_vars(LinksReply)

Spec == Init /\ [][Next]_vars /\ Fairness
----------------------------------------------------------------------------
TypeOK ==
    /\ attached \in BOOLEAN
    /\ status \in {"asked", "success", "failed"}
    /\ handlerDue \in BOOLEAN
    /\ load_cancel \in BOOLEAN
    /\ fetchLevel \in Nat
    /\ sent \subseteq {"status", "params", "links"}
    /\ IsABag(asked) /\ BagToSet(asked) \subseteq Nodes \cup {0}
    /\ partTimers \in Nat
    /\ last_id \in Nodes \cup {0}
    /\ nodes \subseteq Nodes
    /\ repeated \in BOOLEAN
    /\ links \in {NotLoaded} \cup 0..FetchAllLinks
    /\ starts \in Nat
    /\ failures \in 0..MaxFailures
    /\ cut \in BOOLEAN
    /\ broken \in 0..failures

\* The nodes read so far are all those up to last_id, whichever requests
\* failed, were asked twice or overtook each other, so no node is skipped by
\* asking from last_id on (main.js, fetch_part).  Node 0 is never asked for.
PartsAreAPrefix == nodes = {n \in Nodes : 0 < n /\ n <= last_id}

\* When the page starts, all nodes above id 0 are there, and so are the links
\* if they were loaded and are not more than fetchAllLinks asks for, unless a
\* stream was cut short (main.js, update_sequence; GraphController.php).
StartsComplete ==
    starts > 0 /\ ~cut =>
        /\ nodes = Nodes \ {0}
        /\ NLinks <= 2 * Cardinality(Nodes) + 1 => links \in {NotLoaded, NLinks}

UnderWay ==
    Cardinality(sent) + BagCardinality(asked) + partTimers
        + (IF handlerDue THEN 1 ELSE 0)

\* As long as the network breaks no request for a part, the load is a single
\* chain of requests and timers: it starts the page once, with its links, and
\* reads no node twice (status.js, main.js).
OneAtATimeUnlessBroken ==
    broken = 0 =>
        /\ UnderWay <= 1
        /\ ~repeated
        /\ starts > 0 => starts = 1 /\ links # NotLoaded /\ UnderWay = 0

\* The load comes to an end, if failures do: the page starts or the user is
\* told that it does not.
LoadEnds == <>(starts > 0 \/ load_cancel)

\* main.js, line 64, before the page is started: everything is ready.
ReadyWhenStarted == [][starts' > starts => links' # NotLoaded]_vars
====
