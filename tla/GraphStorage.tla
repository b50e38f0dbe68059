---- MODULE GraphStorage ----
(***************************************************************************)
(* What neo4j_graph_storage.go answers, as rpc_server.go streams it and    *)
(* PHP passes it on.  Of a node only its id counts here, of the links only *)
(* how many there are.  A stream that ends early, by an error or the       *)
(* timeout, is not told from a complete one: PHP sends what came in.       *)
(***************************************************************************)
EXTENDS Integers, FiniteSets

CONSTANTS
    Nodes,          \* the ids of the nodes; neo4j counts from 0
    NLinks          \* how many links have an id above 0

ASSUME GraphAssumption ==
    /\ IsFiniteSet(Nodes)
    /\ Nodes \subseteq Nat
    /\ NLinks \in Nat

\* Fault: the id a page is asked from is in the page.
After_Incl(from) == {n \in Nodes : n >= from}
After(from) == {n \in Nodes : n > from}
Highest(ids) == CHOOSE n \in ids : \A i \in ids : i <= n
Lowest(ids, k) == {n \in ids : Cardinality({i \in ids : i < n}) < k}

GetAllNodesFrom(from, take) == Lowest(After(from), take)

\* What reaches the browser of a part: the stream up to where it broke off.
PartsFrom(from, take) ==
    LET part == GetAllNodesFrom(from, take)
    IN  {Lowest(part, k) : k \in 0..Cardinality(part)}

GetNodesCount == Cardinality(Nodes)
\* The count query of the links is never used: queryInt32Noparam counts nodes.
GetLinksCount == GetNodesCount

\* /Graph/fetchAllLinks: how many links it answers with.
FetchAllLinks ==
    LET take == GetLinksCount * 2 + 1
    IN  IF NLinks < take THEN NLinks ELSE take
====
