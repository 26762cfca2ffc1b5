----------------------------- MODULE MCAppRelay -----------------------------
(* Two snapshots of one route, the second newer; a second route to move to. *)
EXTENDS AppRelay

MCSnapshot == {[route |-> "r1", app |-> 1], [route |-> "r1", app |-> 2]}
MCKept == {[route |-> "r1", app |-> 1]}
=============================================================================
