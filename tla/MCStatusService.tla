---- MODULE MCStatusService ----
(* One goroutine for each RPC.  The deployed backend has one source; with  *)
(* two, the second AddSource could meet a running call.                    *)
EXTENDS StatusService

CONSTANTS h1, h2, c1, c2

OneSource == <<"icinga">>
TwoSources == <<"icinga", "other">>

DistinctNames == {<<h1, h2>>}
\* Two nodes of the graph with one icinga_name.
SharedName == {<<h1, h1>>}
====
