---------------------------- MODULE AtomicStore ----------------------------
(***************************************************************************)
(* What SnapshotStore promises its callers: per route a register.  Only    *)
(* the snapshot a caller is committing becomes visible, and all at once;   *)
(* what a power loss may leave is one of the snapshots installed since the *)
(* last completed Commit or the one before them; a Commit that returns     *)
(* true leaves only its own.  A Commit backs up the snapshot it replaces,  *)
(* which comes back if the medium fails before the new one is installed.   *)
(***************************************************************************)
EXTENDS Naturals

CONSTANTS Route, Snapshot, NoSnapshot, NoReturn

VARIABLES
    value,                  \* route |-> the snapshot a load returns
    maybe,                  \* route |-> what it may return after a power loss
    intent,                 \* the snapshot being committed
    backup,                 \* the snapshot it replaces, once it is backed up
    returned,               \* the route whose Commit just returned true
    decays                  \* failures of the medium so far

vars == <<value, maybe, intent, backup, returned, decays>>

Of(r) == {s \in Snapshot : s.route = r}

Init ==
    /\ value \in [Route -> Snapshot \cup {NoSnapshot}]
    /\ \A r \in Route : value[r] \in Of(r) \cup {NoSnapshot}
    /\ maybe = [r \in Route |-> {value[r]}]
    /\ intent = NoSnapshot /\ backup = NoSnapshot /\ returned = NoReturn /\ decays = 0

Call(s) ==
    /\ intent = NoSnapshot /\ intent' = s
    /\ UNCHANGED <<value, maybe, backup, returned, decays>>

BackUp(s) ==
    /\ intent = s /\ returned = NoReturn
    /\ backup' = value[s.route]
    /\ UNCHANGED <<value, maybe, intent, returned, decays>>

\* Only what the medium took is brought back.
BringBack(s) ==
    /\ intent = s /\ returned = NoReturn /\ backup # NoSnapshot /\ decays > 0
    /\ value' = [value EXCEPT ![s.route] = backup]
    /\ maybe' = [maybe EXCEPT ![s.route] = @ \cup {backup}]
    /\ UNCHANGED <<intent, backup, returned, decays>>

Install(s) ==
    /\ intent = s /\ returned = NoReturn
    /\ value' = [value EXCEPT ![s.route] = s]
    /\ maybe' = [maybe EXCEPT ![s.route] = @ \cup {s}]
    /\ UNCHANGED <<intent, backup, returned, decays>>

\* Only the medium can have taken back what was installed.
ReturnTrue(s) ==
    /\ intent = s /\ (value[s.route] = s \/ decays > 0)
    /\ maybe' = [maybe EXCEPT ![s.route] = {value[s.route]}]
    /\ returned' = s.route
    /\ UNCHANGED <<value, intent, backup, decays>>

\* The caller goes on after Commit returned, or dies with it.
CallerContinues ==
    /\ intent' = NoSnapshot /\ backup' = NoSnapshot /\ returned' = NoReturn
    /\ UNCHANGED <<value, maybe, decays>>

PowerLoss ==
    /\ value' \in [Route -> Snapshot \cup {NoSnapshot}]
    /\ \A r \in Route : value'[r] \in maybe[r]
    /\ maybe' = [r \in Route |-> {value'[r]}]
    /\ intent' = NoSnapshot /\ backup' = NoSnapshot /\ returned' = NoReturn
    /\ UNCHANGED decays

\* The medium fails: the route may fall back to another of its snapshots.
Decay(r) ==
    /\ decays' = decays + 1
    /\ value' = [value EXCEPT ![r] = value'[r]] /\ value'[r] \in Of(r) \cup {NoSnapshot}
    /\ maybe' = [maybe EXCEPT ![r] = maybe'[r]] /\ maybe'[r] \subseteq Of(r) \cup {NoSnapshot}
    /\ UNCHANGED <<intent, backup, returned>>

Next ==
    \/ \E s \in Snapshot :
            Call(s) \/ BackUp(s) \/ BringBack(s) \/ Install(s) \/ ReturnTrue(s)
    \/ CallerContinues \/ PowerLoss
    \/ \E r \in Route : Decay(r)

Spec == Init /\ [][Next]_vars
=============================================================================
