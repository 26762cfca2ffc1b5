--------------------------- MODULE SnapshotStore ---------------------------
(***************************************************************************)
(* SnapshotStore::Commit, one file operation at a time, and the load that  *)
(* RestoreCurrentRoute makes: current.snapshot, else previous.snapshot.    *)
(*                                                                         *)
(* The file system is external: a rename is atomic and visible at once,    *)
(* but until the directory is synced a power loss may keep or lose each    *)
(* rename on its own; a file that was not synced may be torn.  Temporary   *)
(* files are removed before they are used again and never loaded, so they  *)
(* live only as long as the Commit that makes them.                        *)
(***************************************************************************)
EXTENDS Naturals

CONSTANTS
    Route, Snapshot,        \* snapshots are records with a route
    NoSnapshot, Torn,       \* no file; a file that does not decode
    Kept,                   \* snapshots that may be stored at the first boot
    MaxCorruptions          \* bound: failures of the medium

ASSUME StoreAssumption ==
    /\ \A s \in Snapshot : s.route \in Route
    /\ Kept \subseteq Snapshot
    /\ NoSnapshot \notin Snapshot /\ Torn \notin Snapshot /\ NoSnapshot # Torn
    /\ MaxCorruptions \in Nat

VARIABLES
    files,                  \* route |-> its current and previous file
    durable,                \* route |-> what each may hold after a power loss
    commit,                 \* the Commit under way
    stored,                 \* route |-> Commits that returned true, up to 2
    corrupted               \* failures of the medium so far

storeVars == <<files, durable, commit, stored, corrupted>>

Content == Snapshot \cup {NoSnapshot, Torn}

Valid(content) == content \in Snapshot

\* LoadCurrent, then LoadPrevious, each with the device hash checked again.
Loaded(current, previous, r) ==
    IF Valid(current) /\ current.route = r THEN current
    ELSE IF Valid(previous) /\ previous.route = r THEN previous
    ELSE NoSnapshot

Idle == [at |-> "idle", result |-> "none", snapshot |-> NoSnapshot,
         temporary |-> NoSnapshot, synced |-> TRUE,
         previous_temporary |-> NoSnapshot]

\* The daemon starts on an empty store or on what two Commits left there.
StoreInit ==
    /\ files \in [Route -> {[current |-> c, previous |-> c] : c \in Kept \cup {NoSnapshot}}]
    /\ \A r \in Route : Valid(files[r].current) => files[r].current.route = r
    /\ durable = [r \in Route |-> [current |-> {files[r].current},
                                   previous |-> {files[r].previous}]]
    /\ commit = Idle
    /\ stored = [r \in Route |-> IF Valid(files[r].current) THEN 2 ELSE 0]
    /\ corrupted = 0

Target == commit.snapshot.route

StartCommit(s) ==
    /\ commit.at = "idle"
    /\ commit' = [Idle EXCEPT !.at = "write", !.snapshot = s]
    /\ UNCHANGED <<files, durable, stored, corrupted>>

\* file.tmp: a file that is written but not synced may turn out torn.
Written(content, synced) ==
    commit' = [commit EXCEPT !.at = "stage", !.temporary = content, !.synced = synced]

WriteTemporaryUnsynced ==
    /\ commit.at = "write" /\ Written(commit.snapshot, FALSE)
    /\ UNCHANGED <<files, durable, stored, corrupted>>

\* WriteFile ends with an fsync.
WriteTemporary ==
    /\ commit.at = "write" /\ Written(commit.snapshot, TRUE)
    /\ UNCHANGED <<files, durable, stored, corrupted>>

HasAnyCurrent == files[Target].current # NoSnapshot

\* has_valid_current
HasValidCurrent == Valid(files[Target].current)

\* The valid current file is copied, synced, to previous.tmp.
StagePrevious ==
    /\ commit.at = "stage" /\ HasValidCurrent
    /\ commit' = [commit EXCEPT !.at = "rotate",
                                !.previous_temporary = files[Target].current]
    /\ UNCHANGED <<files, durable, stored, corrupted>>

SkipPrevious ==
    /\ commit.at = "stage" /\ ~HasValidCurrent
    /\ commit' = [commit EXCEPT !.at = "publish"]
    /\ UNCHANGED <<files, durable, stored, corrupted>>

\* What a file may hold after a power loss.
Lasting(content, synced) == IF synced THEN {content} ELSE {content, Torn}

\* A rename: the name shows the file now, and either file after a power loss.
Rename(name, content, synced) ==
    /\ files' = [files EXCEPT ![Target][name] = content]
    /\ durable' = [durable EXCEPT ![Target][name] =
                     @ \cup Lasting(content, synced)]

RotatePrevious ==
    /\ commit.at = "rotate"
    /\ Rename("previous", commit.previous_temporary, TRUE)
    /\ commit' = [commit EXCEPT !.at = "publish"]
    /\ UNCHANGED <<stored, corrupted>>

PublishCurrent ==
    /\ commit.at = "publish"
    /\ Rename("current", commit.temporary, commit.synced)
    /\ commit' = [commit EXCEPT !.at = "sync"]
    /\ UNCHANGED <<stored, corrupted>>

FsyncDirectory ==
    /\ commit.at = "sync"
    /\ durable' = [durable EXCEPT
            ![Target] = [current |-> Lasting(files[Target].current, commit.synced),
                         previous |-> {files[Target].previous}]]
    /\ commit' = [commit EXCEPT !.at = "done", !.result = "stored"]
    /\ stored' = [stored EXCEPT ![Target] = IF @ < 2 THEN @ + 1 ELSE @]
    /\ UNCHANGED <<files, corrupted>>

\* Any operation may fail; the temporary files are removed and Commit returns
\* false.  What was renamed stays renamed.
CommitFails ==
    /\ commit.at \in {"write", "stage", "rotate", "publish", "sync"}
    /\ commit' = [commit EXCEPT !.at = "done", !.result = "failed"]
    /\ UNCHANGED <<files, durable, stored, corrupted>>

CommitReturns ==
    /\ commit.at = "done"
    /\ commit' = Idle
    /\ UNCHANGED <<files, durable, stored, corrupted>>

StoreStep ==
    \/ WriteTemporary \/ StagePrevious \/ SkipPrevious \/ RotatePrevious
    \/ PublishCurrent \/ FsyncDirectory \/ CommitFails

\* The daemon is killed: the kernel still has every rename.
StoreKilled ==
    /\ commit' = Idle
    /\ UNCHANGED <<files, durable, stored, corrupted>>

\* The device loses power.
StorePowerLoss ==
    /\ files' \in [Route -> [current : Content, previous : Content]]
    /\ \A r \in Route : /\ files'[r].current \in durable[r].current
                        /\ files'[r].previous \in durable[r].previous
    /\ durable' = [r \in Route |-> [current |-> {files'[r].current},
                                    previous |-> {files'[r].previous}]]
    /\ commit' = Idle
    /\ UNCHANGED <<stored, corrupted>>

\* The medium damages current.snapshot.
Corrupt(r) ==
    /\ corrupted < MaxCorruptions /\ Valid(files[r].current)
    /\ corrupted' = corrupted + 1
    /\ files' = [files EXCEPT ![r].current = Torn]
    /\ durable' = [durable EXCEPT ![r].current = {Torn}]
    /\ UNCHANGED <<commit, stored>>

StoreNext ==
    \/ StoreStep \/ CommitReturns \/ StoreKilled \/ StorePowerLoss
    \/ \E s \in Snapshot : StartCommit(s)
    \/ \E r \in Route : Corrupt(r)

StoreSpec == StoreInit /\ [][StoreNext]_storeVars

-----------------------------------------------------------------------------
(* Properties *)

\* Types: what Commit is about to publish or to keep as previous.snapshot decodes,
\* and what a load finds now is among what it may find after a power loss.
StoreTypeOK ==
    /\ files \in [Route -> [current : Content, previous : Content]]
    /\ durable \in [Route -> [current : SUBSET Content, previous : SUBSET Content]]
    /\ commit \in [at : {"idle", "write", "stage", "rotate", "publish", "sync", "done"},
                   result : {"none", "stored", "failed"},
                   snapshot : Snapshot \cup {NoSnapshot},
                   temporary : Snapshot \cup {NoSnapshot}, synced : BOOLEAN,
                   previous_temporary : Snapshot \cup {NoSnapshot}]
    /\ commit.at # "idle" => commit.snapshot \in Snapshot
    /\ stored \in [Route -> 0 .. 2] /\ corrupted \in 0 .. MaxCorruptions
    /\ \A r \in Route : /\ files[r].current \in durable[r].current
                        /\ files[r].previous \in durable[r].previous

\* What a load may return after a power loss now.
Possible(r) == {Loaded(c, p, r) : c \in durable[r].current, p \in durable[r].previous}

\* Whatever step of whatever Commit a crash, a kill or an I/O error falls on, a
\* route's snapshot changes as a whole, from the old one to the new one, and a
\* Commit that returned true survives a power loss (SnapshotStore::Commit).
Promise == INSTANCE AtomicStore WITH
    value <- [r \in Route |-> Loaded(files[r].current, files[r].previous, r)],
    maybe <- [r \in Route |-> Possible(r)],
    intent <- commit.snapshot, backup <- commit.previous_temporary,
    decays <- corrupted,
    returned <- IF commit.result = "stored" THEN commit.snapshot.route ELSE NoSnapshot,
    NoReturn <- NoSnapshot

ImplementsAtomicStore == Promise!Spec

\* After two completed Commits one damaged file does not cost the route its
\* settings, not even when power fails while the damage is being overwritten
\* (has_valid_current; "The store keeps both files so an interrupted write
\* cannot cost the user their settings", RestoreCurrentRoute).
SurvivesCorruption ==
    \A r \in Route : stored[r] = 2 /\ corrupted <= 1 => NoSnapshot \notin Possible(r)
=============================================================================
