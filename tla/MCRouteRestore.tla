--------------------------- MODULE MCRouteRestore ---------------------------
(* Small instances of RouteRestore for TLC. *)
EXTENDS RouteRestore, TLC

CONSTANTS r1, r2, c1, c2

MCRoute == {r1, r2}
OneContext == {c1}
TwoContexts == {c1, c2}

ContextSymmetry == Permutations(TwoContexts)

\* The same App generation for both routes, as the daemon's tests store it.
EqualGenerations == (r1 :> 4) @@ (r2 :> 4)
\* r2 was saved before r1's last change.
OlderGeneration == (r1 :> 4) @@ (r2 :> 3)
=============================================================================
