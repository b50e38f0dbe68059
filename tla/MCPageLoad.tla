---- MODULE MCPageLoad ----
(* Node 0, which is never asked for, and four more in parts of two: two    *)
(* full parts and an empty one.  There are as many links as fetchAllLinks  *)
(* can answer with.                                                        *)
EXTENDS PageLoad

MCNodes == 0..4
====
