---- MODULE MCPage ----
(* Two nodes besides node 0, in parts of one: two full parts and an empty  *)
(* one a rotation.                                                         *)
EXTENDS Page

MCNodes == 0..2
====
