---- MODULE MCConfigGenerator ----
(* All graphs over these links: a way and a detour to the last host, links *)
(* in both directions, and a cycle back to the start.  Two hosts may share *)
(* a name, the start host and another one too.                             *)
EXTENDS ConfigGenerator

CONSTANTS h1, h2, h3, h4, na, nb, nc

MCEdges == {<<h1, h2>>, <<h2, h1>>, <<h1, h3>>, <<h2, h3>>, <<h3, h4>>, <<h4, h2>>, <<h2, h4>>}
MCNames == {<<h1, na>>, <<h2, nb>>, <<h3, nb>>, <<h3, nc>>, <<h4, na>>, <<h4, nc>>}
====
