--------------------------- MODULE AtomicSnapshot ---------------------------
(***************************************************************************)
(* What SnapshotApplyController promises the daemon, with the transfer     *)
(* protocol hidden: the driver holds one snapshot; it is replaced in one   *)
(* step, only by a snapshot of the route the driver was told, and only by  *)
(* a newer one in the lexicographic order of the two generations.          *)
(***************************************************************************)
EXTENDS Naturals

CONSTANTS DeviceHash, NoHash, Snapshot, NoSnapshot

VARIABLES route, value

\* s may replace v.
Newer(s, v) ==
    \/ v = NoSnapshot
    \/ s.app_generation > v.app_generation
    \/ /\ s.app_generation = v.app_generation
       /\ s.daemon_generation > v.daemon_generation

Init == route = NoHash /\ value = NoSnapshot

Announce == route' \in DeviceHash /\ UNCHANGED value

Adopt ==
    /\ value' \in Snapshot
    /\ value'.device_key_hash = route
    /\ Newer(value', value)
    /\ UNCHANGED route

Spec == Init /\ [][Announce \/ Adopt]_<<route, value>>
=============================================================================
