---- MODULE ConfigGenerator ----
(***************************************************************************)
(* icinga/config_generator/generator: a depth-first search from one host   *)
(* finds for each host of the graph the usable host in front of it, on     *)
(* which it depends, and a file is written for every usable one, named by  *)
(* its name.  The search is recursive; here each of its calls is a frame   *)
(* on a stack, and the database returns the relationships of a node in any *)
(* order.                                                                  *)
(***************************************************************************)
EXTENDS Naturals, FiniteSets, Sequences, SequencesExt

CONSTANTS
    Hosts,          \* the nodes of the graph
    MaxEdges,       \* the links there may be: pairs of nodes
    Names,          \* icinga_names, blank ones included
    MaxNames,       \* the names nodes may have: pairs of a node and a name
    start_host,
    None            \* Python's None

ASSUME GeneratorAssumption ==
    /\ IsFiniteSet(Hosts)
    /\ start_host \in Hosts
    /\ MaxEdges \subseteq Hosts \X Hosts
    /\ MaxNames \subseteq Hosts \X Names
    /\ None \notin Hosts \cup Names

VARIABLES
    edges,          \* LINKS_TO in the database
    icinga_name,    \* node -> its icinga_name, None if it has none
    usable,         \* the nodes for which need_make_cfg holds
    stack,          \* the calls of dfs: node, usable parent, ends still to look at
    scanned,        \* scanned_nodes_id
    nodes,          \* the nodes to write a file for, in order
    connections,    \* pairs of a usable parent and a node
    written,        \* for how many of them it has been written
    files,          \* name -> the node its file is of, None while there is no file
    crashed

graph == <<edges, icinga_name, usable>>
search == <<stack, scanned, nodes, connections>>
output == <<written, files, crashed>>
vars == <<edges, icinga_name, usable, stack, scanned, nodes, connections, written, files, crashed>>

named == {n \in Hosts : icinga_name[n] # None}

Children(n) == {e[2] : e \in {e \in edges : e[1] = n}}

\* dfs: what a call does before it looks at the relationships.
Enter(n, parent) ==
    /\ scanned' = scanned \cup {n}
    /\ connections' = connections \cup (IF parent = None THEN {} ELSE {<<parent, n>>})
    /\ nodes' = IF n \in usable THEN Append(nodes, n) ELSE nodes

Frame(n, parent) ==
    [node |-> n, todo |-> Children(n), usable |-> IF n \in usable THEN n ELSE parent]

Init ==
    /\ edges \in SUBSET MaxEdges
    /\ icinga_name \in [Hosts -> Names \cup {None}]
    /\ \A n \in named : <<n, icinga_name[n]>> \in MaxNames
    /\ usable \in SUBSET named
    /\ stack = <<Frame(start_host, None)>>
    /\ scanned = {start_host}
    /\ nodes = IF start_host \in usable THEN <<start_host>> ELSE <<>>
    /\ connections = {}
    /\ written = 0
    /\ files = [f \in Names |-> None]
    /\ crashed = FALSE

Top == Head(stack)
\* Fault: the loop is left after the first relationship.
Rest_Left(n) == <<[Top EXCEPT !.todo = {}]>> \o Tail(stack)
Rest(n) == <<[Top EXCEPT !.todo = @ \ {n}]>> \o Tail(stack)

\* Fault: a node is only looked for among the callers of this call.
IsScanned_OnPath(n) == \E i \in DOMAIN stack : stack[i].node = n
IsScanned(n) == n \in scanned

\* The check is made when the relationship's turn comes.
Look ==
    /\ stack # <<>>
    /\ \E n \in Top.todo :
          \/ /\ ~IsScanned(n)
             /\ stack' = <<Frame(n, Top.usable)>> \o Rest(n)
             /\ Enter(n, Top.usable)
          \/ /\ IsScanned(n)
             /\ stack' = Rest(n)
             /\ UNCHANGED <<scanned, nodes, connections>>
    /\ UNCHANGED <<graph, output>>

Return ==
    /\ stack # <<>>
    /\ Top.todo = {}
    /\ stack' = Tail(stack)
    /\ UNCHANGED <<graph, scanned, nodes, connections, output>>

DependsOn(n) == {c[2] : c \in {c \in connections : c[1] = n}}

\* make_node_config: the nodes whose names go into the file of the host n.
NamesIn(n) == {n, start_host} \cup DependsOn(n)

\* Fault: a file that is there already is left as it is.
Save_Once(n) ==
    files' = [files EXCEPT ![icinga_name[n]] = IF @ = None THEN n ELSE @]

\* save_config: the file is named by the host's name and replaces what is there.
Save(n) == files' = [files EXCEPT ![icinga_name[n]] = n]

\* A name that is None cannot be put into the text and ends the program, before
\* the file of the host is opened.
Write ==
    /\ stack = <<>>
    /\ ~crashed
    /\ written < Len(nodes)
    /\ \/ /\ NamesIn(nodes[written + 1]) \subseteq named
          /\ Save(nodes[written + 1])
          /\ written' = written + 1
          /\ UNCHANGED crashed
       \/ /\ ~(NamesIn(nodes[written + 1]) \subseteq named)
          /\ crashed' = TRUE
          /\ UNCHANGED <<written, files>>
    /\ UNCHANGED <<graph, search>>

Next == Look \/ Return \/ Write
Spec == Init /\ [][Next]_vars /\ WF_vars(Next)
----------------------------------------------------------------------------
\* The nodes that ways from the nodes S through inner nodes of Via reach.
ReachableVia(S, Via) ==
    LET reach[k \in 0..Cardinality(Hosts)] ==
            IF k = 0 THEN S
            ELSE reach[k - 1] \cup UNION {Children(n) : n \in reach[k - 1] \cap (S \cup Via)}
    IN  reach[Cardinality(Hosts)]

Position(n) == IF n \in ToSet(nodes) THEN CHOOSE i \in DOMAIN nodes : nodes[i] = n
               ELSE Len(nodes) + 1

\* A node depends on at most one host, and no file is written twice.
OneDependency ==
    /\ IsInjective(nodes)
    /\ \A c, d \in connections : c[2] = d[2] => c = d

\* That host was found before it.
FoundBefore == \A c \in connections : Position(c[1]) < Position(c[2])

\* The dependencies form trees over the hosts: every node depends on at most
\* one host, which Icinga can check, which a way of other than usable nodes
\* leads from, and which was found before it, so that no host depends on
\* itself in the end (dfs, add_connection).
DependenciesAreTrees ==
    /\ OneDependency
    /\ FoundBefore
    /\ \A c \in connections : c[2] \in ReachableVia({c[1]}, Hosts \ usable)

Done == stack = <<>> /\ (crashed \/ written = Len(nodes))

InReach == ReachableVia({start_host}, Hosts)

\* The program ends before its last file only if a node in reach has no name,
\* and always if one has none and the start host is usable, since then each node
\* depends on a host (make_node_config).
CrashExplained ==
    /\ crashed => ~(InReach \subseteq named)
    /\ start_host \in usable /\ ~(InReach \subseteq named) => crashed

\* A file is of a usable host in reach that has the name of the file, and every
\* name in it is there, whatever happened afterwards (make_node_config).
FilesWhole ==
    \A f \in Names : files[f] # None =>
        /\ files[f] \in usable \cap InReach
        /\ icinga_name[files[f]] = f
        /\ NamesIn(files[f]) \subseteq named

\* The file of each name is that of the host found last among those of the name
\* in reach (save_config).
LastOfEachName ==
    \A n \in usable \cap InReach :
        /\ files[icinga_name[n]] # None
        /\ Position(n) <= Position(files[icinga_name[n]])

\* What the program has done when it has ended.
Outcome == CrashExplained /\ FilesWhole /\ (~crashed => LastOfEachName)

\* The program ends, on cyclic graphs too.  A start host without a name, and a
\* node without one behind a host, are what can end it early, and the files it
\* leaves then are whole; otherwise every usable host in reach has its file, if
\* no host found later has its name (dfs, make_node_config, save_config).
EveryHostConfigured == <>[](Done /\ Outcome)

\* What INSTALL.md says of the program, "It will easily create basic hosts
\* definitions from your graph": when it has ended, there is a definition of the
\* name of every usable host in reach (make_node_config).
HostsDefined == Done => \A n \in usable \cap InReach : files[icinga_name[n]] # None
====
