--------------------------- MODULE AppRelayProofs ---------------------------
(***************************************************************************)
(* For any routes, snapshots, frames and faults: SnapshotStore is an       *)
(* AtomicStore, and two completed Commits survive one damaged file; the    *)
(* relay drives the store as SnapshotStore allows, files nothing the       *)
(* driver did not accept, and tells the App "applied" only of what a boot  *)
(* would restore.                                                          *)
(***************************************************************************)
EXTENDS AppRelay, TLAPS

USE StoreAssumption, RelayAssumption

-----------------------------------------------------------------------------
(* The store by itself: SnapshotStore's own specification *)


\* A route's files only ever hold its own snapshots.
OwnRoute ==
    \A r \in Route : \A c \in durable[r].current \cup durable[r].previous :
        Valid(c) => c.route = r

\* What the Commit under way has done so far, and that only the medium can have
\* undone it.
CommitProgress ==
    /\ commit.synced
    /\ commit.at = "idle" => commit = Idle
    /\ commit.at # "done" => commit.result = "none"
    /\ commit.at \in {"stage", "rotate", "publish", "sync"} =>
            commit.temporary = commit.snapshot
    /\ commit.at = "rotate" =>
            /\ Valid(commit.previous_temporary)
            /\ commit.previous_temporary.route = Target
            /\ \/ files[Target].current = commit.previous_temporary
               \/ files[Target].current = Torn /\ corrupted > 0
    /\ commit.at = "sync" =>
            \/ files[Target].current = commit.snapshot
            \/ files[Target].current = Torn /\ corrupted > 0

AllValid(contents) == \A c \in contents : Valid(c)

\* Before the medium fails: one completed Commit makes the current file safe, a
\* second one the previous file, which it has rotated before it publishes.
UndamagedKept ==
    corrupted = 0 =>
        /\ \A r \in Route : /\ stored[r] >= 1 => AllValid(durable[r].current)
                            /\ stored[r] = 2 => AllValid(durable[r].previous)
        /\ commit.at \in {"publish", "sync"} /\ stored[Target] >= 1 =>
                Valid(files[Target].previous)

\* After one failure at least one of the two files is safe.
DamagedKept ==
    corrupted = 1 =>
        /\ \A r \in Route : stored[r] = 2 =>
                AllValid(durable[r].current) \/ AllValid(durable[r].previous)
        /\ commit.at = "sync" /\ stored[Target] >= 1 =>
                Valid(files[Target].current) \/ Valid(files[Target].previous)

StoreInv ==
    StoreTypeOK /\ OwnRoute /\ CommitProgress /\ UndamagedKept /\ DamagedKept

-----------------------------------------------------------------------------
(* Lemmas about loading *)

\* A load returns a snapshot of the route it was asked for, or none.
LEMMA LoadedOwn ==
    ASSUME NEW c \in Content, NEW p \in Content, NEW r \in Route
    PROVE  Loaded(c, p, r) \in {s \in Snapshot : s.route = r} \cup {NoSnapshot}
BY DEF Loaded, Valid, Content

\* What a load returns now is one of the things it may return after a power loss.
LEMMA LoadedPossible ==
    ASSUME StoreTypeOK, NEW r \in Route
    PROVE  /\ Loaded(files[r].current, files[r].previous, r) \in Possible(r)
           /\ Possible(r) \subseteq {s \in Snapshot : s.route = r} \cup {NoSnapshot}
<1>1. files[r].current \in durable[r].current /\ files[r].previous \in durable[r].previous
  BY DEF StoreTypeOK
<1>2. durable[r].current \subseteq Content /\ durable[r].previous \subseteq Content
  BY DEF StoreTypeOK
<1>3. Loaded(files[r].current, files[r].previous, r) \in Possible(r)
  BY <1>1 DEF Possible
<1>4. Possible(r) \subseteq {s \in Snapshot : s.route = r} \cup {NoSnapshot}
  BY <1>2, LoadedOwn DEF Possible
<1> QED BY <1>3, <1>4

-----------------------------------------------------------------------------
(* The invariant *)

LEMMA StoreInitInvariant == StoreInit => StoreInv
<1> SUFFICES ASSUME StoreInit PROVE StoreInv
  OBVIOUS
<1>1. \A r \in Route : /\ files[r].current \in Kept \cup {NoSnapshot}
                       /\ files[r].previous = files[r].current
                       /\ files[r] = [current |-> files[r].current,
                                      previous |-> files[r].previous]
  <2> TAKE r \in Route
  <2>1. PICK c \in Kept \cup {NoSnapshot} : files[r] = [current |-> c, previous |-> c]
    BY DEF StoreInit
  <2> QED BY <2>1
<1>2. StoreTypeOK
  <2>1. files \in [Route -> [current : Content, previous : Content]]
    BY <1>1 DEF StoreInit, Content
  <2>2. durable \in [Route -> [current : SUBSET Content, previous : SUBSET Content]]
    BY <2>1 DEF StoreInit
  <2>3. stored \in [Route -> 0 .. 2] /\ corrupted \in 0 .. MaxCorruptions
    BY DEF StoreInit
  <2>4. \A r \in Route : /\ files[r].current \in durable[r].current
                         /\ files[r].previous \in durable[r].previous
    BY DEF StoreInit
  <2> QED BY <2>1, <2>2, <2>3, <2>4 DEF StoreInit, StoreTypeOK, Idle, Content
<1>3. OwnRoute
  BY <1>1 DEF StoreInit, OwnRoute
<1>4. CommitProgress /\ DamagedKept
  BY DEF StoreInit, CommitProgress, DamagedKept, Idle
<1>5. UndamagedKept
  BY <1>1 DEF StoreInit, UndamagedKept, AllValid, Idle, Valid
<1> QED BY <1>2, <1>3, <1>4, <1>5 DEF StoreInv

\* A Commit that begins.
LEMMA StartCommitInvariant ==
    ASSUME StoreInv, NEW s \in Snapshot, StartCommit(s)
    PROVE  StoreInv'
<1>1. commit' = [Idle EXCEPT !.at = "write", !.snapshot = s]
      /\ UNCHANGED <<files, durable, stored, corrupted>>
  BY DEF StartCommit
<1>2. StoreTypeOK'
  BY <1>1 DEF StoreInv, StoreTypeOK, Idle, Content
<1>3. OwnRoute' /\ CommitProgress' /\ UndamagedKept' /\ DamagedKept'
  BY <1>1 DEF StoreInv, OwnRoute, CommitProgress, UndamagedKept, DamagedKept, Idle,
              Target, Valid, AllValid
<1> QED BY <1>2, <1>3 DEF StoreInv

\* Each file operation of a Commit, and its failure.
LEMMA StoreStepInvariant == StoreInv /\ StoreStep => StoreInv'
<1> SUFFICES ASSUME StoreInv, StoreStep PROVE StoreInv'
  OBVIOUS
<1> USE DEF StoreInv, OwnRoute, CommitProgress, UndamagedKept, DamagedKept, Target
<1>0. commit.at # "idle"
  BY DEF StoreStep, WriteTemporary, StagePrevious, SkipPrevious, RotatePrevious,
         PublishCurrent, FsyncDirectory, CommitFails
<1>t. /\ commit.snapshot \in Snapshot /\ Target \in Route
      /\ files[Target] \in [current : Content, previous : Content]
      /\ files[Target].current \in durable[Target].current
      /\ files[Target].previous \in durable[Target].previous
  BY <1>0 DEF StoreTypeOK
<1>1. CASE WriteTemporary
  BY <1>1, <1>t DEF WriteTemporary, Written, StoreTypeOK, Content
<1>2. CASE StagePrevious
  BY <1>2, <1>t DEF StagePrevious, HasValidCurrent, StoreTypeOK, Valid
<1>3. CASE SkipPrevious
  BY <1>3, <1>t DEF SkipPrevious, HasValidCurrent, StoreTypeOK, Valid, AllValid
<1>4. CASE RotatePrevious
  <2>1. /\ commit.at = "rotate" /\ commit' = [commit EXCEPT !.at = "publish"]
        /\ files' = [files EXCEPT ![Target]["previous"] = commit.previous_temporary]
        /\ durable' = [durable EXCEPT ![Target]["previous"] =
                          @ \cup {commit.previous_temporary}]
        /\ UNCHANGED <<stored, corrupted>>
    BY <1>4 DEF RotatePrevious, Rename, Lasting
  <2>2. StoreTypeOK'
    <3>1. commit.previous_temporary \in Content
      BY <1>t DEF StoreTypeOK, Content
    <3> QED BY <2>1, <3>1, <1>t DEF StoreTypeOK
  <2>3. OwnRoute' /\ CommitProgress'
    BY <2>1, <1>t DEF StoreTypeOK
  <2>4. /\ \A r \in Route : durable'[r].current = durable[r].current
        /\ \A r \in Route : durable'[r].previous = durable[r].previous
                            \/ durable'[r].previous = durable[r].previous
                                                    \cup {commit.previous_temporary}
        /\ files'[Target].previous = commit.previous_temporary
        /\ commit'.at = "publish" /\ commit'.snapshot = commit.snapshot
    BY <2>1, <1>t DEF StoreTypeOK
  <2>5. UndamagedKept'
    BY <2>1, <2>4, <1>t DEF AllValid
  <2>6. DamagedKept'
    BY <2>1, <2>4, <1>t DEF AllValid
  <2> QED BY <2>2, <2>3, <2>5, <2>6
<1>5. CASE PublishCurrent
  <2>1. /\ commit.at = "publish" /\ commit' = [commit EXCEPT !.at = "sync"]
        /\ files' = [files EXCEPT ![Target]["current"] = commit.snapshot]
        /\ durable' = [durable EXCEPT ![Target]["current"] = @ \cup {commit.snapshot}]
        /\ UNCHANGED <<stored, corrupted>>
    BY <1>5 DEF PublishCurrent, Rename, Lasting
  <2>2. StoreTypeOK'
    <3>1. commit.snapshot \in Content
      BY <1>t DEF Content
    <3>2. commit' \in [at : {"idle", "write", "stage", "rotate", "publish", "sync", "done"},
                       result : {"none", "stored", "failed"},
                       snapshot : Snapshot \cup {NoSnapshot},
                       temporary : Snapshot \cup {NoSnapshot}, synced : BOOLEAN,
                       previous_temporary : Snapshot \cup {NoSnapshot}]
          /\ commit'.snapshot = commit.snapshot
      BY <2>1 DEF StoreTypeOK
    <3>3. /\ files' \in [Route -> [current : Content, previous : Content]]
          /\ durable' \in [Route -> [current : SUBSET Content, previous : SUBSET Content]]
      BY <2>1, <3>1, <1>t DEF StoreTypeOK
    <3>4. \A r \in Route : /\ files'[r].current \in durable'[r].current
                           /\ files'[r].previous \in durable'[r].previous
      BY <2>1, <3>1, <1>t DEF StoreTypeOK
    <3> QED BY <2>1, <3>2, <3>3, <3>4, <1>t DEF StoreTypeOK
  <2>3. OwnRoute' /\ CommitProgress'
    BY <2>1, <1>t DEF StoreTypeOK
  <2>4. /\ \A r \in Route : durable'[r].previous = durable[r].previous
        /\ \A r \in Route : durable'[r].current = durable[r].current
                            \/ durable'[r].current = durable[r].current
                                                   \cup {commit.snapshot}
        /\ files'[Target].previous = files[Target].previous
        /\ files'[Target].current = commit.snapshot
        /\ commit'.at = "sync" /\ commit'.snapshot = commit.snapshot
    BY <2>1, <1>t DEF StoreTypeOK
  <2>5. UndamagedKept'
    BY <2>1, <2>4, <1>t DEF AllValid, Valid
  <2>6. DamagedKept'
    BY <2>1, <2>4, <1>t DEF AllValid, Valid
  <2> QED BY <2>2, <2>3, <2>5, <2>6
<1>6. CASE FsyncDirectory
  <2>1. /\ commit.at = "sync"
        /\ commit' = [commit EXCEPT !.at = "done", !.result = "stored"]
        /\ durable' = [durable EXCEPT ![Target] =
                [current |-> {files[Target].current},
                 previous |-> {files[Target].previous}]]
        /\ stored' = [stored EXCEPT ![Target] = IF @ < 2 THEN @ + 1 ELSE @]
        /\ UNCHANGED <<files, corrupted>>
    BY <1>6 DEF FsyncDirectory, Lasting
  <2>2. StoreTypeOK'
    <3>1. commit' \in [at : {"idle", "write", "stage", "rotate", "publish", "sync", "done"},
                   result : {"none", "stored", "failed"},
                   snapshot : Snapshot \cup {NoSnapshot},
                   temporary : Snapshot \cup {NoSnapshot}, synced : BOOLEAN,
                   previous_temporary : Snapshot \cup {NoSnapshot}]
          /\ commit'.snapshot = commit.snapshot
      BY <2>1 DEF StoreTypeOK
    <3>2. stored' \in [Route -> 0 .. 2]
      BY <2>1, <1>t DEF StoreTypeOK
    <3>3. durable' \in [Route -> [current : SUBSET Content, previous : SUBSET Content]]
      BY <2>1, <1>t DEF StoreTypeOK
    <3>4. \A r \in Route : /\ files'[r].current \in durable'[r].current
                           /\ files'[r].previous \in durable'[r].previous
      BY <2>1, <1>t DEF StoreTypeOK
    <3> QED BY <2>1, <1>t, <3>1, <3>2, <3>3, <3>4 DEF StoreTypeOK
  <2>3. OwnRoute' /\ CommitProgress'
    BY <2>1, <1>t DEF StoreTypeOK
  <2>4. stored[Target] \in 0 .. 2 /\ \A r \in Route : r # Target =>
            stored'[r] = stored[r] /\ durable'[r] = durable[r]
    BY <2>1 DEF StoreTypeOK
  <2>5. UndamagedKept'
    BY <2>1, <2>4, <1>t DEF StoreTypeOK, AllValid, Valid
  <2>6. DamagedKept'
    BY <2>1, <2>4, <1>t DEF StoreTypeOK, AllValid
  <2> QED BY <2>2, <2>3, <2>5, <2>6
<1>7. CASE CommitFails
  BY <1>7, <1>t DEF CommitFails, StoreTypeOK
<1> QED BY <1>1, <1>2, <1>3, <1>4, <1>5, <1>6, <1>7 DEF StoreStep

\* A Commit that ends, returning or with the daemon.
LEMMA IdleInvariant ==
    ASSUME StoreInv, commit' = Idle, UNCHANGED <<files, durable, stored, corrupted>>
    PROVE  StoreInv'
<1>1. StoreTypeOK'
  BY DEF StoreInv, StoreTypeOK, Idle, Content
<1>2. OwnRoute' /\ CommitProgress' /\ UndamagedKept' /\ DamagedKept'
  BY DEF StoreInv, OwnRoute, CommitProgress, UndamagedKept, DamagedKept, Idle,
         Valid, AllValid
<1> QED BY <1>1, <1>2 DEF StoreInv

LEMMA PowerLossInvariant == StoreInv /\ StorePowerLoss => StoreInv'
<1> SUFFICES ASSUME StoreInv, StorePowerLoss PROVE StoreInv'
  OBVIOUS
<1>1. /\ files' \in [Route -> [current : Content, previous : Content]]
      /\ \A r \in Route : /\ files'[r].current \in durable[r].current
                          /\ files'[r].previous \in durable[r].previous
                          /\ durable'[r] = [current |-> {files'[r].current},
                                            previous |-> {files'[r].previous}]
      /\ durable' = [r \in Route |-> durable'[r]]
      /\ commit' = Idle /\ UNCHANGED <<stored, corrupted>>
  BY DEF StorePowerLoss
<1>2. StoreTypeOK'
  BY <1>1 DEF StoreInv, StoreTypeOK, Idle, Content
<1>3. OwnRoute' /\ CommitProgress'
  BY <1>1 DEF StoreInv, OwnRoute, CommitProgress, Idle, Valid
<1>4. UndamagedKept' /\ DamagedKept'
  BY <1>1 DEF StoreInv, UndamagedKept, DamagedKept, Idle, AllValid
<1> QED BY <1>2, <1>3, <1>4 DEF StoreInv

LEMMA CorruptInvariant ==
    ASSUME StoreInv, NEW r \in Route, Corrupt(r)
    PROVE  StoreInv'
<1>1. /\ corrupted < MaxCorruptions /\ Valid(files[r].current)
      /\ corrupted' = corrupted + 1 /\ corrupted \in Nat
      /\ files' = [files EXCEPT ![r].current = Torn]
      /\ durable' = [durable EXCEPT ![r].current = {Torn}]
      /\ UNCHANGED <<commit, stored>>
  BY DEF Corrupt, StoreInv, StoreTypeOK
<1>2. StoreTypeOK'
  BY <1>1 DEF StoreInv, StoreTypeOK, Content
<1>t. commit.at # "idle" => Target \in Route
  BY DEF StoreInv, StoreTypeOK, Target
<1>3. OwnRoute' /\ CommitProgress' /\ UndamagedKept'
  BY <1>1, <1>t DEF StoreInv, StoreTypeOK, OwnRoute, CommitProgress, UndamagedKept,
                    Target, Valid
<1>4. DamagedKept'
  <2>1. \A q \in Route : /\ durable'[q].previous = durable[q].previous
                         /\ files'[q].previous = files[q].previous
    BY <1>1 DEF StoreInv, StoreTypeOK
  <2>2. CASE corrupted = 0
    BY <1>1, <1>t, <2>1, <2>2 DEF StoreInv, UndamagedKept, DamagedKept, Target
  <2>3. CASE corrupted # 0
    <3>1. corrupted' # 1
      BY <1>1, <2>3
    <3> QED BY <3>1 DEF DamagedKept
  <2> QED BY <2>2, <2>3
<1> QED BY <1>2, <1>3, <1>4 DEF StoreInv

\* Every step of the store preserves the invariant.
LEMMA StoreNextInvariant == StoreInv /\ [StoreNext]_storeVars => StoreInv'
<1> SUFFICES ASSUME StoreInv, [StoreNext]_storeVars PROVE StoreInv'
  OBVIOUS
<1>1. CASE CommitReturns \/ StoreKilled
  BY <1>1, IdleInvariant DEF CommitReturns, StoreKilled
<1>2. CASE UNCHANGED storeVars
  BY <1>2 DEF storeVars, StoreInv, StoreTypeOK, OwnRoute, CommitProgress, UndamagedKept,
              DamagedKept, Target
<1> QED BY <1>1, <1>2, StartCommitInvariant, StoreStepInvariant, PowerLossInvariant,
           CorruptInvariant DEF StoreNext

\* The inductive invariant of the store.
THEOREM StoreInvariantCorrect == StoreSpec => []StoreInv
BY StoreInitInvariant, StoreNextInvariant, PTL DEF StoreSpec

\* The store's files, and what a power loss may leave of them, are well formed.
THEOREM StoreTypeCorrect == StoreSpec => []StoreTypeOK
<1>1. StoreInv => StoreTypeOK
  BY DEF StoreInv
<1> QED BY <1>1, StoreInvariantCorrect, PTL

\* The invariant leaves a loadable file after one failure of the medium.
LEMMA InvariantSurvives == StoreInv => SurvivesCorruption
<1> SUFFICES ASSUME StoreInv, NEW r \in Route, stored[r] = 2, corrupted <= 1,
                    NEW c \in durable[r].current, NEW p \in durable[r].previous
             PROVE  NoSnapshot # Loaded(c, p, r)
  BY DEF SurvivesCorruption, Possible
<1>1. AllValid(durable[r].current) \/ AllValid(durable[r].previous)
  BY DEF StoreInv, StoreTypeOK, UndamagedKept, DamagedKept
<1>2. /\ Valid(c) => c.route = r
      /\ Valid(p) => p.route = r
  BY DEF StoreInv, OwnRoute
<1> QED BY <1>1, <1>2 DEF AllValid, Loaded, Valid

\* After two completed Commits one damaged file never costs a route its settings,
\* at whatever step of a later Commit the damage, a kill or a power loss falls.
THEOREM SurvivesCorruptionCorrect == StoreSpec => []SurvivesCorruption
BY InvariantSurvives, StoreInvariantCorrect, PTL

-----------------------------------------------------------------------------
(* The refinement *)

\* The abstract register, as Promise maps it.
Value == [r \in Route |-> Loaded(files[r].current, files[r].previous, r)]
Maybe == [r \in Route |-> Possible(r)]
Returned == IF commit.result = "stored" THEN commit.snapshot.route ELSE NoSnapshot
Mapped == <<Value, Maybe, commit.snapshot, commit.previous_temporary, Returned, corrupted>>

\* What is loaded, now and after a power loss, depends only on the files.
LEMMA MappedUnchanged ==
    ASSUME UNCHANGED <<files, durable>>
    PROVE  UNCHANGED <<Value, Maybe>>
BY DEF Value, Maybe, Possible

\* With one content per file, exactly what is loaded now is possible.
LEMMA PossibleSingle ==
    ASSUME NEW r \in Route, durable[r].current = {files[r].current},
           durable[r].previous = {files[r].previous}
    PROVE  Possible(r) = {Loaded(files[r].current, files[r].previous, r)}
BY DEF Possible

LEMMA InitRefines == StoreInit => Promise!Init
<1> SUFFICES ASSUME StoreInit PROVE Promise!Init
  OBVIOUS
<1>1. StoreTypeOK
  BY StoreInitInvariant DEF StoreInv
<1>2. \A r \in Route : /\ Value[r] = Loaded(files[r].current, files[r].previous, r)
                       /\ Value[r] \in Promise!Of(r) \cup {NoSnapshot}
                       /\ Maybe[r] = {Value[r]}
  <2> TAKE r \in Route
  <2>1. Value[r] \in Promise!Of(r) \cup {NoSnapshot}
    BY <1>1, LoadedPossible DEF Value, Promise!Of
  <2>2. Possible(r) = {Loaded(files[r].current, files[r].previous, r)}
    BY PossibleSingle DEF StoreInit
  <2> QED BY <2>1, <2>2 DEF Value, Maybe
<1>3. Value \in [Route -> Snapshot \cup {NoSnapshot}]
  BY <1>2 DEF Value, Promise!Of
<1>4. Maybe = [r \in Route |-> {Value[r]}]
  BY <1>2 DEF Maybe
<1>5. commit = Idle /\ corrupted = 0
  BY DEF StoreInit
<1> QED BY <1>2, <1>3, <1>4, <1>5 DEF Promise!Init, Value, Maybe, Idle

\* A step that leaves the files alone.
LEMMA QuietRefines ==
    ASSUME StoreInv, UNCHANGED <<files, durable, corrupted>>,
           \/ \E s \in Snapshot : StartCommit(s)
           \/ WriteTemporary \/ StagePrevious \/ SkipPrevious \/ CommitFails
           \/ CommitReturns \/ StoreKilled
    PROVE  Promise!Next \/ UNCHANGED Mapped
<1>0. UNCHANGED <<Value, Maybe, corrupted>>
  BY MappedUnchanged
<1>1. ASSUME NEW s \in Snapshot, StartCommit(s) PROVE Promise!Call(s)
  <2>1. commit = Idle /\ commit' = [Idle EXCEPT !.at = "write", !.snapshot = s]
    BY <1>1 DEF StartCommit, StoreInv, CommitProgress
  <2> QED BY <1>0, <2>1 DEF Promise!Call, Value, Maybe, Idle
<1>2. CASE WriteTemporary \/ SkipPrevious \/ CommitFails
  BY <1>0, <1>2 DEF WriteTemporary, Written, SkipPrevious, CommitFails, Mapped, Returned,
       StoreInv, StoreTypeOK, CommitProgress
<1>3. CASE StagePrevious
  <2>1. /\ commit.snapshot \in Snapshot /\ Target \in Route
        /\ Valid(files[Target].current) /\ files[Target].current.route = Target
        /\ commit.result = "none"
        /\ commit' = [commit EXCEPT !.at = "rotate",
                                    !.previous_temporary = files[Target].current]
    BY <1>3 DEF StagePrevious, HasValidCurrent, StoreInv, StoreTypeOK, OwnRoute,
                CommitProgress, Target
  <2>2. Value[Target] = files[Target].current
    BY <2>1 DEF Value, Loaded
  <2>3. Promise!BackUp(commit.snapshot)
    BY <1>0, <2>1, <2>2 DEF Promise!BackUp, Value, Maybe, Target, StoreInv, StoreTypeOK
  <2> QED BY <2>1, <2>3 DEF Promise!Next
<1>4. CASE CommitReturns \/ StoreKilled
  <2>1. commit' = Idle
    BY <1>4 DEF CommitReturns, StoreKilled
  <2> QED BY <1>0, <2>1 DEF Promise!Next, Promise!CallerContinues, Value, Maybe, Idle
<1> QED BY <1>1, <1>2, <1>3, <1>4 DEF Promise!Next

\* What the Commit under way writes to.
LEMMA TargetTyped ==
    ASSUME StoreInv, commit.at # "idle"
    PROVE  /\ commit.snapshot \in Snapshot /\ Target \in Route
           /\ files[Target].current \in durable[Target].current
           /\ files[Target].previous \in durable[Target].previous
           /\ commit.at # "done" => Returned = NoSnapshot
BY DEF StoreInv, StoreTypeOK, CommitProgress, Target, Returned

\* Rotating shows nothing, unless the medium took the current file: then the
\* snapshot that was backed up comes back.
LEMMA RotateRefines ==
    ASSUME StoreInv, RotatePrevious
    PROVE  Promise!Next \/ UNCHANGED Mapped
<1> DEFINE X == commit.previous_temporary
<1>0. commit.at = "rotate"
  BY DEF RotatePrevious
<1>t. /\ commit.snapshot \in Snapshot /\ Target \in Route
      /\ files[Target].current \in durable[Target].current
      /\ files[Target].previous \in durable[Target].previous
      /\ Returned = NoSnapshot
  BY <1>0, TargetTyped
<1>1. /\ commit' = [commit EXCEPT !.at = "publish"]
      /\ files' = [files EXCEPT ![Target]["previous"] = X]
      /\ durable' = [durable EXCEPT ![Target]["previous"] = @ \cup {X}]
      /\ UNCHANGED corrupted
  BY DEF RotatePrevious, Rename, Lasting
<1>2. /\ files'[Target].current = files[Target].current
      /\ files'[Target].previous = X
      /\ durable'[Target].current = durable[Target].current
      /\ durable'[Target].previous = durable[Target].previous \cup {X}
      /\ \A r \in Route : r # Target => files'[r] = files[r] /\ durable'[r] = durable[r]
  BY <1>1, <1>t DEF StoreInv, StoreTypeOK
<1>3. \A r \in Route : r # Target => Value'[r] = Value[r] /\ Maybe'[r] = Maybe[r]
  BY <1>2 DEF Value, Maybe, Possible
<1>4. X \in Snapshot /\ X.route = Target
  BY <1>0 DEF StoreInv, CommitProgress, Valid
<1>5. \A c \in durable[Target].current : Valid(c) => c.route = Target
  BY <1>t DEF StoreInv, OwnRoute
<1>6. UNCHANGED <<commit.snapshot, commit.previous_temporary, Returned>>
  BY <1>1 DEF Returned, StoreInv, StoreTypeOK
<1> DEFINE C == durable[Target].current
           P == durable[Target].previous
           Before == {Loaded(c, p, Target) : c \in C, p \in P}
           After == {Loaded(c, p, Target) : c \in C, p \in P \cup {X}}
<1>7. \A c \in C : Loaded(c, X, Target) \in Before \cup {X}
  <2> TAKE c \in C
  <2>1. CASE Valid(c)
    BY <1>5, <1>t, <2>1 DEF Loaded
  <2>2. CASE ~Valid(c)
    BY <1>4, <2>2 DEF Loaded, Valid
  <2> QED BY <2>1, <2>2
<1>8. /\ Maybe[Target] = Before /\ Maybe'[Target] = After
      /\ Before \subseteq After /\ After \subseteq Before \cup {X}
  <2>1. Maybe[Target] = Before /\ Maybe'[Target] = After
    BY <1>2, <1>t DEF Maybe, Possible
  <2>2. Before \subseteq After /\ After \subseteq Before \cup {X}
    BY <1>7
  <2> QED BY <2>1, <2>2
<1>9. CASE files[Target].current = X
  <2>1. Value'[Target] = Value[Target] /\ Value[Target] = X
    BY <1>2, <1>4, <1>9, <1>t DEF Value, Loaded, Valid
  <2>2. X \in Maybe[Target]
    BY <2>1, <1>t, LoadedPossible DEF StoreInv, Value, Maybe
  <2>3. Maybe'[Target] = Maybe[Target]
    BY <1>8, <2>2
  <2>4. Value' = Value /\ Maybe' = Maybe
    BY <1>3, <2>1, <2>3 DEF Value, Maybe
  <2> QED BY <2>4, <1>1, <1>6 DEF Mapped
<1>10. CASE files[Target].current = Torn /\ corrupted > 0
  <2>1. Value'[Target] = X
    BY <1>2, <1>4, <1>10, <1>t DEF Value, Loaded, Valid
  <2>2. X \in After
    <3>1. Loaded(Torn, X, Target) = X
      BY <1>4 DEF Loaded, Valid
    <3> QED BY <1>10, <1>t, <3>1
  <2>3. Maybe'[Target] = Maybe[Target] \cup {X}
    BY <1>8, <2>2
  <2>4. Value' = [Value EXCEPT ![Target] = X]
    BY <1>3, <2>1 DEF Value
  <2>5. Maybe' = [Maybe EXCEPT ![Target] = @ \cup {X}]
    BY <1>3, <2>3 DEF Maybe
  <2>6. Promise!BringBack(commit.snapshot)
    BY <2>4, <2>5, <1>1, <1>4, <1>6, <1>10, <1>t DEF Promise!BringBack, Value, Maybe,
         Target, Returned
  <2> QED BY <2>6, <1>t DEF Promise!Next
<1> QED BY <1>0, <1>9, <1>10 DEF StoreInv, CommitProgress

\* Publishing installs the snapshot.
LEMMA PublishRefines ==
    ASSUME StoreInv, PublishCurrent
    PROVE  Promise!Install(commit.snapshot)
<1> DEFINE X == commit.snapshot
<1>0. commit.at = "publish"
  BY DEF PublishCurrent
<1>t. /\ X \in Snapshot /\ Target \in Route /\ X.route = Target
      /\ files[Target].current \in durable[Target].current
      /\ files[Target].previous \in durable[Target].previous
      /\ Returned = NoSnapshot
  BY <1>0, TargetTyped DEF Target
<1>1. /\ commit' = [commit EXCEPT !.at = "sync"]
      /\ files' = [files EXCEPT ![Target]["current"] = X]
      /\ durable' = [durable EXCEPT ![Target]["current"] = @ \cup {X}]
      /\ UNCHANGED corrupted
  BY <1>0 DEF PublishCurrent, Rename, Lasting, StoreInv, CommitProgress
<1>2. /\ files'[Target].current = X
      /\ durable'[Target].current = durable[Target].current \cup {X}
      /\ durable'[Target].previous = durable[Target].previous
      /\ \A r \in Route : r # Target => files'[r] = files[r] /\ durable'[r] = durable[r]
  BY <1>1, <1>t DEF StoreInv, StoreTypeOK
<1>3. \A r \in Route : r # Target => Value'[r] = Value[r] /\ Maybe'[r] = Maybe[r]
  BY <1>2 DEF Value, Maybe, Possible
<1>4. \A p : Loaded(X, p, Target) = X
  BY <1>t DEF Loaded, Valid
<1>5. Value'[Target] = X
  BY <1>2, <1>4, <1>t DEF Value
<1>6. Maybe'[Target] = Maybe[Target] \cup {X}
  BY <1>2, <1>4, <1>t DEF Maybe, Possible
<1>7. Value' = [Value EXCEPT ![Target] = X] /\ Maybe' = [Maybe EXCEPT ![Target] = @ \cup {X}]
  BY <1>3, <1>5, <1>6 DEF Value, Maybe
<1>8. UNCHANGED <<commit.snapshot, commit.previous_temporary, Returned>>
  BY <1>1 DEF Returned, StoreInv, StoreTypeOK
<1> QED BY <1>1, <1>7, <1>8, <1>t DEF Promise!Install, Value, Maybe, Target, Returned

\* Syncing the directory is where Commit has returned true.
LEMMA FsyncRefines ==
    ASSUME StoreInv, FsyncDirectory
    PROVE  Promise!ReturnTrue(commit.snapshot)
<1> DEFINE X == commit.snapshot
<1>0. commit.at = "sync"
  BY DEF FsyncDirectory
<1>t. /\ X \in Snapshot /\ Target \in Route /\ X.route = Target
      /\ files[Target].current \in durable[Target].current
      /\ files[Target].previous \in durable[Target].previous
  BY <1>0, TargetTyped DEF Target
<1>1. /\ commit' = [commit EXCEPT !.at = "done", !.result = "stored"]
      /\ durable' = [durable EXCEPT ![Target] =
            [current |-> {files[Target].current}, previous |-> {files[Target].previous}]]
      /\ UNCHANGED <<files, corrupted>>
  BY DEF FsyncDirectory, Lasting, StoreInv, CommitProgress
<1>2. /\ durable'[Target].current = {files[Target].current}
      /\ durable'[Target].previous = {files[Target].previous}
      /\ \A r \in Route : r # Target => durable'[r] = durable[r]
  BY <1>1, <1>t DEF StoreInv, StoreTypeOK
<1>3. UNCHANGED Value
  BY <1>1 DEF Value
<1>4. \A r \in Route : r # Target => Maybe'[r] = Maybe[r]
  BY <1>2 DEF Maybe, Possible
<1>5. Maybe'[Target] = {Value[Target]}
  BY <1>1, <1>2, <1>t DEF Maybe, Value, Possible
<1>6. Maybe' = [Maybe EXCEPT ![Target] = {Value[Target]}]
  BY <1>4, <1>5 DEF Maybe
<1>7. /\ UNCHANGED <<commit.snapshot, commit.previous_temporary>>
      /\ Returned' = Target
  BY <1>1 DEF Returned, Target, StoreInv, StoreTypeOK
<1>8. Value[Target] = X \/ corrupted > 0
  BY <1>0, <1>t DEF Value, Loaded, Valid, StoreInv, CommitProgress
<1> QED BY <1>1, <1>3, <1>6, <1>7, <1>8, <1>t DEF Promise!ReturnTrue, Value, Maybe,
           Target, Returned

\* A power loss leaves one of the snapshots that were possible.
LEMMA PowerLossRefines ==
    ASSUME StoreInv, StorePowerLoss
    PROVE  Promise!PowerLoss
<1>1. \A r \in Route : /\ files'[r].current \in durable[r].current
                       /\ files'[r].previous \in durable[r].previous
                       /\ durable'[r].current = {files'[r].current}
                       /\ durable'[r].previous = {files'[r].previous}
  BY DEF StorePowerLoss
<1>2. commit' = Idle /\ UNCHANGED corrupted
  BY DEF StorePowerLoss
<1>3. ASSUME NEW r \in Route
      PROVE  /\ Value'[r] \in Maybe[r] /\ Maybe'[r] = {Value'[r]}
             /\ Value'[r] \in Snapshot \cup {NoSnapshot}
  <2>1. Value'[r] = Loaded(files'[r].current, files'[r].previous, r)
    BY DEF Value
  <2>2. Value'[r] \in Possible(r)
    BY <1>1, <2>1 DEF Possible
  <2>3. Maybe'[r] = {Value'[r]}
    BY <1>1, <2>1 DEF Maybe, Possible
  <2> QED BY <2>2, <2>3, LoadedPossible DEF Maybe, StoreInv
<1>4. Value' \in [Route -> Snapshot \cup {NoSnapshot}] /\ Maybe' = [r \in Route |-> {Value'[r]}]
  BY <1>3 DEF Value, Maybe
<1> QED BY <1>2, <1>3, <1>4 DEF Promise!PowerLoss, Value, Maybe, Idle

\* A damaged file is a failure of the abstract medium.
LEMMA CorruptRefines ==
    ASSUME StoreInv, NEW r \in Route, Corrupt(r)
    PROVE  Promise!Decay(r)
<1>1. /\ corrupted' = corrupted + 1
      /\ \A q \in Route : q # r => files'[q] = files[q] /\ durable'[q] = durable[q]
      /\ UNCHANGED commit
  BY DEF Corrupt, StoreInv, StoreTypeOK
<1>2. \A q \in Route : q # r => Value'[q] = Value[q] /\ Maybe'[q] = Maybe[q]
  BY <1>1 DEF Value, Maybe, Possible
<1>3. StoreTypeOK'
  BY CorruptInvariant DEF StoreInv
<1>4. /\ Loaded(files'[r].current, files'[r].previous, r) \in Possible(r)'
      /\ Possible(r)' \subseteq {s \in Snapshot : s.route = r} \cup {NoSnapshot}
  <2>1. /\ files'[r].current \in durable'[r].current
        /\ files'[r].previous \in durable'[r].previous
        /\ durable'[r].current \subseteq Content /\ durable'[r].previous \subseteq Content
    BY <1>3 DEF StoreTypeOK
  <2> QED BY <2>1, LoadedOwn DEF Possible
<1>5. /\ Value'[r] \in Promise!Of(r) \cup {NoSnapshot}
      /\ Maybe'[r] \subseteq Promise!Of(r) \cup {NoSnapshot}
  BY <1>4 DEF Value, Maybe, Promise!Of
<1>6. Value' = [Value EXCEPT ![r] = Value'[r]] /\ Maybe' = [Maybe EXCEPT ![r] = Maybe'[r]]
  BY <1>2 DEF Value, Maybe
<1> QED BY <1>1, <1>5, <1>6 DEF Promise!Decay, Value, Maybe

\* Each step of the store is a step of the register, or invisible.
LEMMA StepRefines == StoreInv /\ [StoreNext]_storeVars => [Promise!Next]_Mapped
<1> SUFFICES ASSUME StoreInv, [StoreNext]_storeVars PROVE Promise!Next \/ UNCHANGED Mapped
  OBVIOUS
<1>1. CASE UNCHANGED storeVars
  BY <1>1 DEF storeVars, Mapped, Value, Maybe, Possible, Returned
<1>2. CASE \/ \E s \in Snapshot : StartCommit(s)
           \/ WriteTemporary \/ StagePrevious \/ SkipPrevious \/ CommitFails
           \/ CommitReturns \/ StoreKilled
  <2>1. UNCHANGED <<files, durable, corrupted>>
    BY <1>2 DEF StartCommit, WriteTemporary, StagePrevious, SkipPrevious, CommitFails,
                CommitReturns, StoreKilled
  <2> QED BY <1>2, <2>1, QuietRefines
<1>3. CASE PublishCurrent \/ FsyncDirectory
  <2>1. commit.snapshot \in Snapshot
    BY <1>3 DEF PublishCurrent, FsyncDirectory, StoreInv, StoreTypeOK
  <2> QED BY <1>3, <2>1, PublishRefines, FsyncRefines DEF Promise!Next
<1>4. CASE StorePowerLoss
  BY <1>4, PowerLossRefines DEF Promise!Next
<1>5. CASE \E r \in Route : Corrupt(r)
  BY <1>5, CorruptRefines DEF Promise!Next
<1> QED BY <1>1, <1>2, <1>3, <1>4, <1>5, RotateRefines DEF StoreNext, StoreStep

\* Whatever a crash, a kill, an I/O error or a damaged file interrupts, the store
\* is a register per route whose Commits take effect as a whole and, once they
\* returned true, survive a power loss.
THEOREM StoreRefinement == StoreSpec => ImplementsAtomicStore
<1>1. Mapped = Promise!vars
  BY DEF Mapped, Value, Maybe, Returned, Promise!vars
<1>2. StoreInv /\ [StoreNext]_storeVars => [Promise!Next]_(Promise!vars)
  BY StepRefines DEF Mapped, Value, Maybe, Returned, Promise!vars
<1> QED BY InitRefines, <1>2, StoreInvariantCorrect, PTL DEF StoreSpec,
           ImplementsAtomicStore, Promise!Spec

-----------------------------------------------------------------------------
(* The relay *)

Message ==
    [id : Nat, type : {"ANNOUNCE"}, data : Route \cup {NoRoute}] \cup
    [id : Nat, type : {"BEGIN"}, data : Snapshot] \cup
    [id : Nat, type : {"CHUNK"}, data : Chunk] \cup
    [id : Nat, type : {"COMMIT", "ABORT"}, data : {NoSnapshot}]

Answer == [id : Nat, ok : BOOLEAN]

DriverState ==
    [up : BOOLEAN, hash : Route \cup {NoRoute}, staging : BOOLEAN, staged : Transfer,
     last_app_generation_ : Nat]

\* The daemon's own variables; a transfer that is open has a size.
DaemonTyped ==
    /\ route \in Route \cup {NoRoute} /\ cache \in Route \cup {NoRoute}
    /\ announced \in Route \cup {NoRoute}
    /\ app_staging_ \in BOOLEAN /\ app_staged \in Transfer
    /\ app_staging_ => app_staged.total \in Snapshot
    /\ next_request_id_ \in Nat \ {0}

\* The driver and the connection.  A driver that is gone has neither.
DriverTyped ==
    /\ driver \in DriverState
    /\ driver.staging => driver.staged.total \in Snapshot
    /\ wire \in Seq(Message) /\ answers \in Seq(Answer)
    /\ ~driver.up => ~driver.staging /\ wire = <<>> /\ answers = <<>>

\* Bounds and history.
HistoryTyped ==
    /\ frames \in 0 .. MaxFrames /\ faults \in 0 .. MaxFaults
    /\ accepted \subseteq Snapshot /\ unsent \subseteq Chunk
    /\ clean \in Snapshot \cup {NoSnapshot} /\ told \in Snapshot \cup {NoSnapshot}

\* The relay's control state.
ControlTyped ==
    /\ pc \in {"idle", "wait", "store"}
    /\ request \in [id : Nat, type : {"NONE", "ANNOUNCE", "BEGIN", "COMMIT", "ABORT"}]
    /\ pc = "idle" <=> request = NoRequest
    /\ pc = "wait" => request.id = next_request_id_ - 1
    /\ pc = "store" <=> commit.at # "idle"
    /\ pc = "store" => ~app_staging_

RelayTyped == DaemonTyped /\ DriverTyped /\ HistoryTyped /\ ControlTyped

TypeInv == StoreInv /\ RelayTyped

-----------------------------------------------------------------------------
(* Lemmas about sequences *)

LEMMA AppendFacts ==
    ASSUME NEW S, NEW s \in Seq(S), NEW e \in S
    PROVE  /\ Append(s, e) \in Seq(S) /\ Len(Append(s, e)) = Len(s) + 1
           /\ Len(s) \in Nat
           /\ \A i \in 1 .. Len(s) : Append(s, e)[i] = s[i]
           /\ Append(s, e)[Len(s) + 1] = e
OBVIOUS

LEMMA TailFacts ==
    ASSUME NEW S, NEW s \in Seq(S), s # <<>>
    PROVE  /\ Tail(s) \in Seq(S) /\ Len(Tail(s)) = Len(s) - 1
           /\ Len(s) \in Nat /\ Len(s) >= 1
           /\ Head(s) = s[1] /\ Head(s) \in S
           /\ \A i \in 1 .. Len(s) - 1 : Tail(s)[i] = s[i + 1]
OBVIOUS

LEMMA EmptyFacts ==
    ASSUME NEW S
    PROVE  <<>> \in Seq(S) /\ Len(<<>>) = 0
OBVIOUS

-----------------------------------------------------------------------------
(* The relay uses the store as its interface allows *)

LEMMA StoreRelayed == RelayTyped /\ [Next]_vars => [StoreNext]_storeVars
<1> SUFFICES ASSUME RelayTyped, [Next]_vars PROVE StoreNext \/ UNCHANGED storeVars
  OBVIOUS
<1>1. CASE TakeAnswer
  <2>1. Storable => app_staged.total \in Snapshot
    BY DEF Storable, RelayTyped, DaemonTyped
  <2> QED BY <1>1, <2>1 DEF TakeAnswer, AnnounceAnswered, CommandAnswered, CommitStaged,
                            StoreNext
<1>2. CASE Timeout
  BY <1>2 DEF Timeout, AnnounceAnswered, CommandAnswered
<1>3. CASE Storing \/ StoreDone
  BY <1>3 DEF Storing, StoreDone, StoreNext
<1>4. CASE DaemonKilled \/ PowerLoss \/ MediumFails
  BY <1>4 DEF DaemonKilled, PowerLoss, MediumFails, StoreNext
<1>5. CASE \/ \E r \in Route : OnRouteReport(r)
           \/ Announce \/ ForgetAnnounced \/ DropAnswer \/ HandleSnapshotCommand
           \/ DriverDown \/ DriverUp
           \/ \E f \in AppFrame : OnSnapshotCommand(f) \/ RefuseUnsent(f)
  BY <1>5 DEF OnRouteReport, Announce, ForgetAnnounced, DropAnswer, HandleSnapshotCommand,
              DriverDown, DriverUp, OnSnapshotCommand, RefuseUnsent
<1>6. CASE UNCHANGED vars
  BY <1>6 DEF vars
<1> QED BY <1>1, <1>2, <1>3, <1>4, <1>5, <1>6 DEF Next

-----------------------------------------------------------------------------
(* Types *)

LEMMA TypeInit == Init => TypeInv
<1> SUFFICES ASSUME Init PROVE TypeInv
  OBVIOUS
<1>1. StoreInv
  BY StoreInitInvariant DEF Init
<1>2. DaemonTyped
  <2>1. app_staging_ \in BOOLEAN /\ ~app_staging_
    BY Zenon DEF Init
  <2> QED BY <2>1 DEF Init, DaemonTyped, NoTransfer, Transfer
<1>3. DriverTyped
  BY EmptyFacts DEF Init, DriverTyped, DriverState, NewDriver, NoTransfer, Transfer
<1>4. HistoryTyped
  <2>1. \A r \in Route : files[r].current \in Snapshot \cup {NoSnapshot}
    <3> TAKE r \in Route
    <3>1. PICK c \in Kept \cup {NoSnapshot} : files[r] = [current |-> c, previous |-> c]
      BY DEF Init, StoreInit
    <3> QED BY <3>1
  <2> QED BY <2>1 DEF Init, HistoryTyped
<1>5. ControlTyped
  BY DEF Init, ControlTyped, NoRequest, StoreInit, Idle
<1> QED BY <1>1, <1>2, <1>3, <1>4, <1>5 DEF TypeInv, RelayTyped

\* Staging a frame keeps the daemon's copy well formed.
LEMMA StageTyped ==
    ASSUME DaemonTyped, NEW f \in AppFrame, Stage(f)
    PROVE  /\ app_staging_' \in BOOLEAN /\ app_staged' \in Transfer
           /\ app_staging_' => app_staged'.total \in Snapshot
           /\ f.type \in {"BEGIN", "CHUNK", "COMMIT", "ABORT"}
           /\ f.type = "BEGIN" => f.data \in Snapshot
           /\ f.type = "CHUNK" => f.data \in Chunk
           /\ f.type \in {"COMMIT", "ABORT"} => f.data = NoSnapshot
<1>1. /\ f.type \in {"BEGIN", "CHUNK", "COMMIT", "ABORT"}
      /\ f.type = "BEGIN" => f.data \in Snapshot
      /\ f.type = "CHUNK" => f.data \in Chunk
      /\ f.type \in {"COMMIT", "ABORT"} => f.data = NoSnapshot
  BY DEF AppFrame, Frame, Chunk
<1>2. CASE f.type = "BEGIN"
  <2>1. app_staging_' = TRUE /\ app_staged' = [total |-> f.data, bytes |-> NoSnapshot]
    BY <1>2 DEF Stage
  <2>2. app_staging_' \in BOOLEAN
    BY <2>1, Zenon
  <2> QED BY <1>1, <1>2, <2>1, <2>2 DEF Transfer
<1>3. CASE f.type = "CHUNK" /\ app_staging_ /\ app_staged.bytes = NoSnapshot
  <2>1. app_staged' = [app_staged EXCEPT !.bytes = f.data] /\ UNCHANGED app_staging_
    BY <1>3 DEF Stage
  <2> QED BY <1>1, <1>3, <2>1 DEF Transfer, DaemonTyped
<1>4. CASE f.type = "CHUNK" /\ app_staging_ /\ app_staged.bytes # NoSnapshot
  <2>1. app_staging_' = FALSE /\ UNCHANGED app_staged
    BY <1>4 DEF Stage
  <2>2. app_staging_' \in BOOLEAN
    BY <2>1, Zenon
  <2> QED BY <1>1, <2>1, <2>2 DEF DaemonTyped
<1>5. CASE f.type # "BEGIN" /\ ~(f.type = "CHUNK" /\ app_staging_)
  <2>1. UNCHANGED <<app_staging_, app_staged>>
    BY <1>5 DEF Stage
  <2> QED BY <1>1, <2>1 DEF DaemonTyped
<1> QED BY <1>2, <1>3, <1>4, <1>5

\* What staging a frame does to the daemon's copy.
LEMMA StageEffect ==
    ASSUME DaemonTyped, NEW f \in AppFrame, Stage(f)
    PROVE  \/ /\ f.type = "BEGIN" /\ app_staging_'
              /\ app_staged' = [total |-> f.data, bytes |-> NoSnapshot]
           \/ /\ f.type = "CHUNK" /\ app_staging_ /\ app_staged.bytes = NoSnapshot
              /\ app_staging_' /\ app_staged'.bytes = f.data
              /\ app_staged'.total = app_staged.total
           \/ /\ f.type = "CHUNK" /\ app_staging_ /\ app_staged.bytes # NoSnapshot
              /\ ~app_staging_' /\ app_staged' = app_staged
           \/ /\ f.type = "CHUNK" /\ ~app_staging_ /\ ~app_staging_'
              /\ app_staged' = app_staged
           \/ /\ f.type \in {"COMMIT", "ABORT"} /\ (app_staging_' <=> app_staging_)
              /\ app_staged' = app_staged
<1>1. f.type \in {"BEGIN", "CHUNK", "COMMIT", "ABORT"} /\ app_staged \in Transfer
  BY DEF AppFrame, Frame, DaemonTyped
<1>2. CASE f.type = "BEGIN"
  BY <1>2 DEF Stage
<1>3. CASE f.type = "CHUNK" /\ app_staging_ /\ app_staged.bytes = NoSnapshot
  BY <1>1, <1>3 DEF Stage, Transfer
<1>4. CASE f.type = "CHUNK" /\ app_staging_ /\ app_staged.bytes # NoSnapshot
  BY <1>4 DEF Stage
<1>5. CASE f.type = "CHUNK" /\ ~app_staging_
  BY <1>5 DEF Stage
<1>6. CASE f.type \in {"COMMIT", "ABORT"}
  BY <1>6 DEF Stage
<1> QED BY <1>1, <1>2, <1>3, <1>4, <1>5, <1>6

\* Sending a command.
LEMMA RelayKeepsTypes ==
    ASSUME TypeInv, NEW type, NEW data, Relay(type, data), UNCHANGED <<driver, answers>>,
           driver.up,
           \A n \in Nat : [id |-> n, type |-> type, data |-> data] \in Message
    PROVE  DriverTyped'
<1> DEFINE m == [id |-> next_request_id_, type |-> type, data |-> data]
<1>1. m \in Message
  BY DEF TypeInv, RelayTyped, DaemonTyped
<1>2. wire' = Append(wire, m)
  BY DEF Relay
<1> HIDE DEF m
<1>3. wire' \in Seq(Message)
  BY <1>1, <1>2, AppendFacts DEF TypeInv, RelayTyped, DriverTyped
<1> QED BY <1>3 DEF TypeInv, RelayTyped, DriverTyped

\* The daemon's steps that send nothing or only send.
LEMMA SendingTyped ==
    ASSUME TypeInv,
           \/ \E r \in Route : OnRouteReport(r)
           \/ Announce \/ ForgetAnnounced
           \/ \E f \in AppFrame : OnSnapshotCommand(f) \/ RefuseUnsent(f)
    PROVE  RelayTyped'
<1> USE DEF TypeInv, RelayTyped
<1>1. ASSUME NEW r \in Route, OnRouteReport(r) PROVE RelayTyped'
  <2>1. DaemonTyped' /\ DriverTyped'
    BY <1>1 DEF OnRouteReport, DaemonTyped, DriverTyped
  <2>2. HistoryTyped'
    BY <1>1 DEF OnRouteReport, FromApp, HistoryTyped
  <2>3. ControlTyped'
    BY <1>1 DEF OnRouteReport, ControlTyped, storeVars
  <2> QED BY <2>1, <2>2, <2>3
<1>2. CASE Announce
  <2>1. \A n \in Nat : [id |-> n, type |-> "ANNOUNCE", data |-> route] \in Message
    BY DEF Message, DaemonTyped
  <2>2. DriverTyped'
    BY <1>2, <2>1, RelayKeepsTypes DEF Announce
  <2>3. DaemonTyped' /\ HistoryTyped'
    BY <1>2 DEF Announce, Relay, DaemonTyped, HistoryTyped
  <2>4. ControlTyped'
    BY <1>2 DEF Announce, Relay, Free, ControlTyped, DaemonTyped, NoRequest, storeVars
  <2> QED BY <2>2, <2>3, <2>4
<1>3. CASE ForgetAnnounced
  <2>1. DaemonTyped' /\ DriverTyped' /\ HistoryTyped'
    BY <1>3 DEF ForgetAnnounced, DaemonTyped, DriverTyped, HistoryTyped
  <2>2. ControlTyped'
    BY <1>3 DEF ForgetAnnounced, ControlTyped, storeVars
  <2> QED BY <2>1, <2>2
<1>4. ASSUME NEW f \in AppFrame, OnSnapshotCommand(f) PROVE RelayTyped'
  <2>1. Stage(f) /\ Relay(f.type, f.data)
    BY <1>4 DEF OnSnapshotCommand
  <2>2. /\ app_staging_' \in BOOLEAN /\ app_staged' \in Transfer
        /\ app_staging_' => app_staged'.total \in Snapshot
        /\ f.type \in {"BEGIN", "CHUNK", "COMMIT", "ABORT"}
        /\ f.type = "BEGIN" => f.data \in Snapshot
        /\ f.type = "CHUNK" => f.data \in Chunk
        /\ f.type \in {"COMMIT", "ABORT"} => f.data = NoSnapshot
    BY <2>1, StageTyped
  <2>3. \A n \in Nat : [id |-> n, type |-> f.type, data |-> f.data] \in Message
    BY <2>2 DEF Message
  <2>4. DriverTyped'
    BY <1>4, <2>1, <2>3, RelayKeepsTypes DEF OnSnapshotCommand
  <2>5. DaemonTyped'
    BY <1>4, <2>1, <2>2 DEF OnSnapshotCommand, Relay, DaemonTyped
  <2>6. HistoryTyped'
    BY <1>4, <2>2 DEF OnSnapshotCommand, FromApp, HistoryTyped
  <2>7. ControlTyped'
    <3>1. /\ pc = "idle" /\ commit' = commit
          /\ pc' = IF f.type = "CHUNK" THEN "idle" ELSE "wait"
          /\ request' = IF f.type = "CHUNK" THEN NoRequest
                        ELSE [id |-> next_request_id_, type |-> f.type]
          /\ next_request_id_' = next_request_id_ + 1
      BY <1>4, <2>1 DEF OnSnapshotCommand, Relay, Free, storeVars
    <3> QED BY <2>2, <3>1 DEF ControlTyped, DaemonTyped, NoRequest
  <2> QED BY <2>4, <2>5, <2>6, <2>7
<1>5. ASSUME NEW f \in AppFrame, RefuseUnsent(f) PROVE RelayTyped'
  <2>1. Stage(f)
    BY <1>5 DEF RefuseUnsent
  <2>2. /\ app_staging_' \in BOOLEAN /\ app_staged' \in Transfer
        /\ app_staging_' => app_staged'.total \in Snapshot
        /\ f.type = "CHUNK" => f.data \in Chunk
    BY <2>1, StageTyped
  <2>3. next_request_id_' \in Nat \ {0}
    BY <1>5 DEF RefuseUnsent, DaemonTyped
  <2>4. DaemonTyped' /\ DriverTyped'
    BY <1>5, <2>2, <2>3 DEF RefuseUnsent, DaemonTyped, DriverTyped
  <2>5. HistoryTyped'
    BY <1>5, <2>2 DEF RefuseUnsent, FromApp, Fault, HistoryTyped
  <2>6. ControlTyped'
    BY <1>5 DEF RefuseUnsent, Free, ControlTyped, storeVars
  <2> QED BY <2>4, <2>5, <2>6
<1> QED BY <1>1, <1>2, <1>3, <1>4, <1>5

\* Taking an answer off the connection.
LEMMA AnswersTyped ==
    ASSUME TypeInv, answers # <<>>, answers' = Tail(answers), UNCHANGED <<driver, wire>>
    PROVE  DriverTyped' /\ Head(answers).ok \in BOOLEAN
<1>1. answers' \in Seq(Answer) /\ Head(answers) \in Answer
  BY TailFacts DEF TypeInv, RelayTyped, DriverTyped
<1>2. answers' = <<>> \/ driver.up
  BY DEF TypeInv, RelayTyped, DriverTyped
<1> QED BY <1>1, <1>2 DEF TypeInv, RelayTyped, DriverTyped, Answer

\* The reply to a command: whatever the answer, the copy stays well formed.
LEMMA ReplyTyped ==
    ASSUME TypeInv, pc = "wait", NEW ok \in BOOLEAN,
           AnnounceAnswered(ok) \/ CommandAnswered(ok),
           UNCHANGED <<route, cache, next_request_id_, frames, accepted, unsent>>,
           faults' \in 0 .. MaxFaults
    PROVE  DaemonTyped' /\ HistoryTyped' /\ ControlTyped'
<1> USE DEF TypeInv, RelayTyped
<1>1. /\ pc' = "idle" /\ request' = NoRequest /\ UNCHANGED <<storeVars, told>>
      /\ announced' \in {route, announced} /\ clean' \in {clean, NoSnapshot}
  BY DEF AnnounceAnswered, CommandAnswered
<1>2. \/ UNCHANGED <<app_staging_, app_staged>>
      \/ app_staging_' = FALSE /\ app_staged' = [app_staged EXCEPT !.bytes = NoSnapshot]
  BY DEF AnnounceAnswered, CommandAnswered
<1>3. app_staging_' \in BOOLEAN
  BY <1>2, Zenon DEF DaemonTyped
<1>4. DaemonTyped'
  BY <1>1, <1>2, <1>3 DEF DaemonTyped, Transfer
<1>5. HistoryTyped'
  BY <1>1 DEF HistoryTyped
<1>6. ControlTyped'
  BY <1>1 DEF ControlTyped, NoRequest, storeVars
<1> QED BY <1>4, <1>5, <1>6

\* Answers, timeouts and the store.
LEMMA WaitingTyped ==
    ASSUME TypeInv, DropAnswer \/ TakeAnswer \/ Timeout \/ Storing \/ StoreDone
    PROVE  RelayTyped'
<1> USE DEF TypeInv, RelayTyped
<1>1. CASE DropAnswer
  <2>1. DriverTyped'
    BY <1>1, AnswersTyped DEF DropAnswer
  <2>2. DaemonTyped' /\ HistoryTyped'
    BY <1>1 DEF DropAnswer, DaemonTyped, HistoryTyped
  <2>3. ControlTyped'
    BY <1>1 DEF DropAnswer, ControlTyped, storeVars
  <2> QED BY <2>1, <2>2, <2>3
<1>2. CASE TakeAnswer
  <2> DEFINE ok == Head(answers).ok
  <2>1. DriverTyped' /\ ok \in BOOLEAN
    BY <1>2, AnswersTyped DEF TakeAnswer, Answered
  <2>2. CASE AnnounceAnswered(ok) \/ CommandAnswered(ok)
    <3>1. /\ pc = "wait" /\ faults' \in 0 .. MaxFaults
          /\ UNCHANGED <<route, cache, next_request_id_, frames, accepted, unsent>>
      BY <1>2 DEF TakeAnswer, HistoryTyped
    <3> HIDE DEF ok
    <3> QED BY <2>1, <2>2, <3>1, ReplyTyped
  <2>3. CASE CommitStaged
    <3>1. /\ app_staging_' = FALSE /\ UNCHANGED announced
          /\ app_staged' \in {app_staged, [app_staged EXCEPT !.bytes = NoSnapshot]}
      BY <2>3 DEF CommitStaged
    <3>2. app_staging_' \in BOOLEAN
      BY <3>1, Zenon
    <3>3. DaemonTyped'
      BY <1>2, <3>1, <3>2 DEF TakeAnswer, DaemonTyped, Transfer
    <3>4. HistoryTyped'
      BY <1>2, <2>3 DEF TakeAnswer, CommitStaged, HistoryTyped
    <3>5. ControlTyped'
      <4>1. CASE Storable
        BY <1>2, <2>3, <3>1, <4>1 DEF TakeAnswer, CommitStaged, StartCommit, Idle, ControlTyped,
                                      NoRequest
      <4>2. CASE ~Storable
        BY <1>2, <2>3, <4>2 DEF TakeAnswer, CommitStaged, ControlTyped, NoRequest, storeVars
      <4> QED BY <4>1, <4>2
    <3> QED BY <2>1, <3>3, <3>4, <3>5
  <2> QED BY <1>2, <2>2, <2>3 DEF TakeAnswer
<1>3. CASE Timeout
  <2>1. /\ pc = "wait" /\ (UNCHANGED faults \/ Fault)
        /\ UNCHANGED <<route, cache, next_request_id_, frames, accepted, unsent>>
    BY <1>3 DEF Timeout
  <2>2. faults' \in 0 .. MaxFaults
    BY <2>1 DEF Fault, HistoryTyped
  <2>3. \E ok \in BOOLEAN : AnnounceAnswered(ok) \/ CommandAnswered(ok)
    BY <1>3, Zenon DEF Timeout
  <2>4. DriverTyped'
    BY <1>3 DEF Timeout, DriverTyped
  <2> QED BY <2>1, <2>2, <2>3, <2>4, ReplyTyped
<1>4. CASE Storing
  <2>1. DaemonTyped' /\ DriverTyped' /\ HistoryTyped'
    <3>1. UNCHANGED relayVars
      BY <1>4 DEF Storing
    <3> QED BY <3>1 DEF relayVars, DaemonTyped, DriverTyped, HistoryTyped
  <2>2. commit'.at # "idle"
    <3>1. commit \in [at : {"idle", "write", "stage", "rotate", "publish", "sync", "done"},
                      result : {"none", "stored", "failed"},
                      snapshot : Snapshot \cup {NoSnapshot},
                      temporary : Snapshot \cup {NoSnapshot}, synced : BOOLEAN,
                      previous_temporary : Snapshot \cup {NoSnapshot}]
      BY DEF StoreInv, StoreTypeOK
    <3>2. CASE WriteTemporary
      BY <3>1, <3>2 DEF WriteTemporary, Written
    <3>3. CASE StagePrevious \/ SkipPrevious
      BY <3>1, <3>3 DEF StagePrevious, SkipPrevious
    <3>4. CASE RotatePrevious \/ PublishCurrent \/ FsyncDirectory \/ CommitFails
      BY <3>1, <3>4 DEF RotatePrevious, PublishCurrent, FsyncDirectory, CommitFails
    <3> QED BY <1>4, <3>2, <3>3, <3>4 DEF Storing, StoreStep
  <2>3. ControlTyped'
    BY <1>4, <2>2 DEF Storing, relayVars, ControlTyped
  <2> QED BY <2>1, <2>3
<1>5. CASE StoreDone
  <2>1. DaemonTyped' /\ DriverTyped' /\ HistoryTyped'
    BY <1>5 DEF StoreDone, DaemonTyped, DriverTyped, HistoryTyped
  <2>2. ControlTyped'
    BY <1>5 DEF StoreDone, CommitReturns, Idle, ControlTyped, NoRequest
  <2> QED BY <2>1, <2>2
<1> QED BY <1>1, <1>2, <1>3, <1>4, <1>5

\* What the driver does with a command.
LEMMA OutcomeTyped ==
    ASSUME TypeInv, NEW c \in Message, NEW o \in Outcomes(c)
    PROVE  /\ o.driver \in DriverState /\ o.ok \in BOOLEAN
           /\ o.driver.up = driver.up
           /\ o.driver.staging => o.driver.staged.total \in Snapshot
           /\ c.type = "COMMIT" /\ o.ok => driver.staged.total \in Snapshot
<1> USE DEF TypeInv, RelayTyped, DriverTyped, DriverState, Transfer
<1>1. CASE c.type = "ANNOUNCE"
  <2>1. o = [ok |-> TRUE, driver |-> [driver EXCEPT !.hash = c.data]]
    BY <1>1 DEF Outcomes
  <2>2. c.data \in Route \cup {NoRoute}
    BY <1>1 DEF Message
  <2> QED BY <1>1, <2>1, <2>2
<1>2. CASE c.type = "BEGIN"
  <2>1. o = Begin(c.data) /\ c.data \in Snapshot
    BY <1>2 DEF Outcomes, Message
  <2> QED BY <1>2, <2>1 DEF Begin
<1>3. CASE c.type = "CHUNK"
  <2>1. o = AppendChunk(c.data) /\ c.data \in Chunk
    BY <1>3 DEF Outcomes, Message
  <2> QED BY <1>3, <2>1 DEF AppendChunk, Aborted, NoTransfer
<1>4. CASE c.type = "COMMIT"
  <2>1. o \in Commits
    BY <1>4 DEF Outcomes
  <2>2. \/ o = [ok |-> FALSE, driver |-> Aborted]
        \/ /\ o = [ok |-> TRUE,
                   driver |-> [Aborted EXCEPT !.last_app_generation_ = driver.staged.total.app]]
           /\ driver.staging
    BY <2>1 DEF Commits
  <2>3. Aborted \in DriverState /\ Aborted.up = driver.up /\ ~Aborted.staging
    BY DEF Aborted, NoTransfer
  <2>4. driver.staging => driver.staged.total.app \in Nat
    OBVIOUS
  <2>5. CASE o = [ok |-> FALSE, driver |-> Aborted]
    BY <2>3, <2>5
  <2>6. CASE /\ driver.staging
             /\ o = [ok |-> TRUE,
                     driver |-> [Aborted EXCEPT !.last_app_generation_ = driver.staged.total.app]]
    <3> DEFINE d == [Aborted EXCEPT !.last_app_generation_ = driver.staged.total.app]
    <3>1. d \in DriverState /\ d.up = driver.up /\ ~d.staging
      BY <2>3, <2>4, <2>6
    <3> QED BY <2>6, <3>1
  <2> QED BY <2>2, <2>5, <2>6
<1>5. CASE c.type = "ABORT"
  <2>1. o = [ok |-> TRUE, driver |-> Aborted]
    BY <1>5 DEF Outcomes
  <2> QED BY <1>5, <2>1 DEF Aborted, NoTransfer
<1> QED BY <1>1, <1>2, <1>3, <1>4, <1>5 DEF Message

\* The driver handles a command.
LEMMA HandlingTyped == TypeInv /\ HandleSnapshotCommand => RelayTyped'
<1> SUFFICES ASSUME TypeInv, HandleSnapshotCommand PROVE RelayTyped'
  OBVIOUS
<1> DEFINE c == Head(wire)
<1> USE DEF TypeInv, RelayTyped
<1>1. c \in Message /\ Tail(wire) \in Seq(Message)
  BY TailFacts DEF HandleSnapshotCommand, DriverTyped
<1>2. PICK o \in Outcomes(c) :
        /\ driver' = o.driver
        /\ answers' = IF c.type = "CHUNK" /\ o.ok THEN answers
                      ELSE Append(answers, [id |-> c.id, ok |-> o.ok])
        /\ accepted' = IF c.type = "COMMIT" /\ o.ok
                       THEN accepted \cup {driver.staged.total} ELSE accepted
  BY DEF HandleSnapshotCommand
<1>3. /\ driver.up /\ wire' = Tail(wire)
      /\ UNCHANGED <<storeVars, route, cache, announced, pc, request, app_staging_,
                     app_staged, next_request_id_, frames, faults, unsent, clean, told>>
  BY DEF HandleSnapshotCommand
<1> HIDE DEF c
<1>4. /\ o.driver \in DriverState /\ o.ok \in BOOLEAN /\ o.driver.up = driver.up
      /\ o.driver.staging => o.driver.staged.total \in Snapshot
      /\ c.type = "COMMIT" /\ o.ok => driver.staged.total \in Snapshot
  BY <1>1, OutcomeTyped
<1>5. answers' \in Seq(Answer)
  <2>1. [id |-> c.id, ok |-> o.ok] \in Answer
    BY <1>1, <1>4 DEF Answer, Message
  <2> QED BY <1>2, <2>1, AppendFacts DEF DriverTyped
<1>6. DriverTyped'
  BY <1>1, <1>2, <1>3, <1>4, <1>5 DEF DriverTyped
<1>7. DaemonTyped'
  BY <1>3 DEF DaemonTyped
<1>8. HistoryTyped'
  BY <1>2, <1>3, <1>4 DEF HistoryTyped
<1>9. ControlTyped'
  BY <1>3 DEF ControlTyped, storeVars
<1> QED BY <1>6, <1>7, <1>8, <1>9

\* Crashes, restarts and the medium.
LEMMA CrashTyped ==
    ASSUME TypeInv, DriverDown \/ DriverUp \/ DaemonKilled \/ PowerLoss \/ MediumFails
    PROVE  RelayTyped'
<1> USE DEF TypeInv, RelayTyped
<1>1. /\ NewDriver(TRUE) \in DriverState /\ ~NewDriver(TRUE).staging /\ NewDriver(TRUE).up
      /\ NewDriver(FALSE) \in DriverState /\ ~NewDriver(FALSE).staging
  BY DEF NewDriver, DriverState, Transfer, NoTransfer
<1>2. CASE DriverDown \/ DriverUp
  <2>1. DriverDown => DriverTyped'
    BY <1>1, EmptyFacts DEF DriverDown, DriverTyped
  <2>2. DriverUp => DriverTyped'
    BY <1>1 DEF DriverUp, DriverTyped
  <2>3. DriverTyped'
    BY <1>2, <2>1, <2>2
  <2>4. DaemonTyped'
    BY <1>2 DEF DriverDown, DriverUp, NewDriver, DaemonTyped
  <2>5. ControlTyped'
    BY <1>2 DEF DriverDown, DriverUp, NewDriver, ControlTyped, storeVars
  <2>6. HistoryTyped'
    BY <1>2 DEF DriverDown, DriverUp, NewDriver, Fault, HistoryTyped
  <2> QED BY <2>3, <2>4, <2>5, <2>6
<1>3. CASE DaemonKilled \/ PowerLoss
  <2>1. DaemonStarts /\ commit' = Idle /\ driver' \in {driver, NewDriver(FALSE)}
    BY <1>3 DEF DaemonKilled, PowerLoss, StoreKilled, StorePowerLoss
  <2>2. DriverTyped'
    BY <1>1, <2>1, EmptyFacts DEF DaemonStarts, DriverTyped
  <2>3. app_staging_' \in BOOLEAN /\ ~app_staging_'
    BY <2>1, Zenon DEF DaemonStarts
  <2>4. DaemonTyped'
    BY <2>1, <2>3 DEF DaemonStarts, DaemonTyped, NoTransfer, Transfer
  <2>5. HistoryTyped'
    BY <2>1 DEF DaemonStarts, Fault, HistoryTyped
  <2>6. ControlTyped'
    BY <2>1 DEF DaemonStarts, Idle, ControlTyped, NoRequest
  <2> QED BY <2>2, <2>4, <2>5, <2>6
<1>4. CASE MediumFails
  <2>1. commit' = commit
    BY <1>4 DEF MediumFails, Corrupt
  <2>2. DaemonTyped' /\ DriverTyped' /\ HistoryTyped'
    BY <1>4 DEF MediumFails, DaemonTyped, DriverTyped, HistoryTyped
  <2>3. ControlTyped'
    BY <1>4, <2>1 DEF MediumFails, ControlTyped
  <2> QED BY <2>2, <2>3
<1> QED BY <1>2, <1>3, <1>4

LEMMA TypeNext == TypeInv /\ [Next]_vars => TypeInv'
<1> SUFFICES ASSUME TypeInv, [Next]_vars PROVE TypeInv'
  OBVIOUS
<1>1. StoreInv'
  BY StoreRelayed, StoreNextInvariant DEF TypeInv
<1>2. CASE UNCHANGED vars
  BY <1>1, <1>2 DEF vars, relayVars, storeVars, TypeInv, RelayTyped, DaemonTyped,
                    DriverTyped, HistoryTyped, ControlTyped
<1>3. CASE Next
  BY <1>1, <1>3, SendingTyped, WaitingTyped, HandlingTyped, CrashTyped DEF Next, TypeInv
<1> QED BY <1>2, <1>3

LEMMA TypeInvariant == Spec => []TypeInv
BY TypeInit, TypeNext, PTL DEF Spec

\* The relay's variables are well formed, it is in store_.Commit exactly while the
\* store has one under way, and it waits for the request it numbered last.
THEOREM RelayTypeCorrect == Spec => []TypeOK
<1>1. TypeInv => TypeOK
  BY DEF TypeInv, RelayTyped, TypeOK, StoreInv, DaemonTyped, DriverTyped, DriverState,
         HistoryTyped, ControlTyped
<1> QED BY <1>1, TypeInvariant, PTL

\* Whatever the App, the driver and the faults do, DaemonRuntime takes only steps
\* of the store's specification: what is proved of the store holds in the relay.
THEOREM RelayImplementsStore == Spec => StoreSpec
<1>1. Init => StoreInit
  BY DEF Init
<1>2. TypeInv => RelayTyped
  BY DEF TypeInv
<1> QED BY <1>1, <1>2, StoreRelayed, TypeInvariant, PTL DEF Spec, StoreSpec

-----------------------------------------------------------------------------
(* Requests and their answers *)

\* Requests are numbered upwards, and only what was sent is answered.
Numbered ==
    /\ \A i \in 1 .. Len(wire) : wire[i].id < next_request_id_
    /\ \A i, j \in 1 .. Len(wire) : i < j => wire[i].id < wire[j].id
    /\ \A i \in 1 .. Len(answers) : answers[i].id < next_request_id_

\* The request that is awaited, if the driver has not read it yet, is the last on
\* the wire.  BEGIN has opened the daemon's copy, and nothing was added to it.
Awaited ==
    pc = "wait" =>
        /\ \A i \in 1 .. Len(wire) : wire[i].id = request.id =>
                /\ wire[i].type = request.type
                /\ request.type = "BEGIN" => wire[i].data = app_staged.total
        /\ request.type = "BEGIN" => app_staging_ /\ app_staged.bytes = NoSnapshot

RequestInv == Numbered /\ Awaited

\* The message a step sends, if it sends one.
Sends(m) ==
    /\ m \in Message /\ m.id = next_request_id_
    /\ wire' = Append(wire, m) /\ next_request_id_' = next_request_id_ + 1
    /\ UNCHANGED <<answers, driver>>

\* The ways in which a step can change the connection.
LEMMA ConnectionSteps ==
    ASSUME TypeInv, [Next]_vars
    PROVE  \/ /\ UNCHANGED <<wire, answers>>
              /\ next_request_id_' \in {next_request_id_, next_request_id_ + 1}
           \/ \E m \in Message : Sends(m)
           \/ /\ answers # <<>> /\ answers' = Tail(answers)
              /\ UNCHANGED <<wire, driver, next_request_id_>>
           \/ /\ HandleSnapshotCommand /\ UNCHANGED next_request_id_
           \/ /\ wire' = <<>> /\ answers' = <<>>
<1>1. CASE Announce
  <2> DEFINE m == [id |-> next_request_id_, type |-> "ANNOUNCE", data |-> route]
  <2>1. m \in Message /\ m.id = next_request_id_
    BY DEF TypeInv, RelayTyped, DaemonTyped, Message
  <2>2. /\ wire' = Append(wire, m) /\ next_request_id_' = next_request_id_ + 1
        /\ UNCHANGED <<answers, driver>>
    BY <1>1 DEF Announce, Relay
  <2> HIDE DEF m
  <2> QED BY <2>1, <2>2 DEF Sends
<1>2. ASSUME NEW f \in AppFrame, OnSnapshotCommand(f)
      PROVE  \E m \in Message : Sends(m)
  <2> DEFINE m == [id |-> next_request_id_, type |-> f.type, data |-> f.data]
  <2>1. m \in Message /\ m.id = next_request_id_
    <3>1. DaemonTyped /\ Stage(f) /\ next_request_id_ \in Nat
      BY <1>2 DEF OnSnapshotCommand, TypeInv, RelayTyped, DaemonTyped
    <3> QED BY <3>1, StageTyped DEF Message
  <2>2. /\ wire' = Append(wire, m) /\ next_request_id_' = next_request_id_ + 1
        /\ UNCHANGED <<answers, driver>>
    BY <1>2 DEF OnSnapshotCommand, Relay
  <2> HIDE DEF m
  <2> QED BY <2>1, <2>2 DEF Sends
<1>3. CASE DropAnswer \/ TakeAnswer
  BY <1>3 DEF DropAnswer, TakeAnswer, Answered
<1>4. CASE HandleSnapshotCommand
  BY <1>4 DEF HandleSnapshotCommand
<1>5. CASE DriverDown \/ DaemonKilled \/ PowerLoss
  BY <1>5 DEF DriverDown, DaemonKilled, PowerLoss, DaemonStarts, NewDriver
<1>6. CASE \/ \E r \in Route : OnRouteReport(r)
           \/ \E f \in AppFrame : RefuseUnsent(f)
           \/ ForgetAnnounced \/ Storing \/ StoreDone \/ MediumFails
  BY <1>6 DEF OnRouteReport, RefuseUnsent, ForgetAnnounced, Storing, relayVars, StoreDone,
              MediumFails
<1>7. CASE DriverUp
  BY <1>7 DEF DriverUp, NewDriver
<1>8. CASE Timeout
  <2>1. UNCHANGED <<wire, answers, next_request_id_>>
    BY <1>8, Zenon DEF Timeout
  <2> QED BY <2>1
<1>9. CASE UNCHANGED vars
  BY <1>9 DEF vars, relayVars
<1> QED BY <1>1, <1>2, <1>3, <1>4, <1>5, <1>6, <1>7, <1>8, <1>9 DEF Next

LEMMA ConnectionTyped ==
    ASSUME TypeInv
    PROVE  /\ wire \in Seq(Message) /\ answers \in Seq(Answer)
           /\ Len(wire) \in Nat /\ Len(answers) \in Nat /\ next_request_id_ \in Nat
           /\ \A i \in 1 .. Len(wire) : wire[i] \in Message /\ wire[i].id \in Nat
           /\ \A i \in 1 .. Len(answers) : answers[i] \in Answer /\ answers[i].id \in Nat
<1>1. /\ wire \in Seq(Message) /\ answers \in Seq(Answer) /\ next_request_id_ \in Nat
  BY DEF TypeInv, RelayTyped, DriverTyped, DaemonTyped
<1>2. /\ \A i \in 1 .. Len(wire) : wire[i] \in Message
      /\ \A i \in 1 .. Len(answers) : answers[i] \in Answer
  BY <1>1
<1>3. (\A m \in Message : m.id \in Nat) /\ (\A a \in Answer : a.id \in Nat)
  BY DEF Message, Answer
<1> QED BY <1>1, <1>2, <1>3

\* A command leaves the wire, and at most one answer is added.
LEMMA HandleFacts ==
    ASSUME TypeInv, HandleSnapshotCommand
    PROVE  /\ Len(wire') = Len(wire) - 1 /\ Len(wire) \in Nat /\ Len(wire) >= 1
           /\ \A i \in 1 .. Len(wire) - 1 : wire'[i] = wire[i + 1]
           /\ wire[1] \in Message
           /\ \E o \in Outcomes(wire[1]) :
                /\ o.ok \in BOOLEAN /\ driver' = o.driver
                /\ accepted' = IF wire[1].type = "COMMIT" /\ o.ok
                               THEN accepted \cup {driver.staged.total} ELSE accepted
                /\ \/ answers' = answers
                   \/ \E a \in Answer : a.id = wire[1].id /\ a.ok = o.ok
                                      /\ answers' = Append(answers, a)
<1>1. /\ Len(wire') = Len(wire) - 1 /\ Len(wire) \in Nat /\ Len(wire) >= 1
      /\ \A i \in 1 .. Len(wire) - 1 : wire'[i] = wire[i + 1]
      /\ Head(wire) = wire[1] /\ wire[1] \in Message /\ wire[1].id \in Nat
  BY ConnectionTyped, TailFacts DEF HandleSnapshotCommand
<1>2. PICK o \in Outcomes(wire[1]) :
        /\ driver' = o.driver
        /\ answers' = answers \/ answers' = Append(answers, [id |-> wire[1].id, ok |-> o.ok])
        /\ accepted' = IF wire[1].type = "COMMIT" /\ o.ok
                       THEN accepted \cup {driver.staged.total} ELSE accepted
  BY <1>1 DEF HandleSnapshotCommand
<1>3. o.ok \in BOOLEAN
  BY <1>1, OutcomeTyped
<1> DEFINE a == [id |-> wire[1].id, ok |-> o.ok]
<1>4. a \in Answer /\ a.id = wire[1].id /\ a.ok = o.ok
  BY <1>1, <1>3 DEF Answer
<1>5. answers' = answers \/ answers' = Append(answers, a)
  BY <1>2
<1> HIDE DEF a
<1> QED BY <1>1, <1>2, <1>3, <1>4, <1>5

LEMMA NumberedNext == TypeInv /\ TypeInv' /\ Numbered /\ [Next]_vars => Numbered'
<1> SUFFICES ASSUME TypeInv, TypeInv', Numbered, [Next]_vars PROVE Numbered'
  OBVIOUS
<1>0. /\ wire \in Seq(Message) /\ answers \in Seq(Answer)
      /\ next_request_id_ \in Nat /\ next_request_id_' \in Nat
      /\ \A i \in 1 .. Len(wire) : wire[i].id \in Nat
      /\ \A i \in 1 .. Len(answers) : answers[i].id \in Nat
  BY ConnectionTyped DEF TypeInv, RelayTyped, DaemonTyped
<1>1. CASE /\ UNCHANGED <<wire, answers>>
           /\ next_request_id_' \in {next_request_id_, next_request_id_ + 1}
  <2>1. \A i \in 1 .. Len(wire) : wire[i].id < next_request_id_'
    BY <1>0, <1>1 DEF Numbered
  <2>2. \A i \in 1 .. Len(answers) : answers[i].id < next_request_id_'
    BY <1>0, <1>1 DEF Numbered
  <2> QED BY <1>1, <2>1, <2>2 DEF Numbered
<1>2. ASSUME NEW m \in Message, Sends(m) PROVE Numbered'
  <2>1. /\ Len(wire') = Len(wire) + 1 /\ Len(wire) \in Nat
        /\ \A i \in 1 .. Len(wire) : wire'[i] = wire[i]
        /\ wire'[Len(wire) + 1] = m
    BY <1>0, <1>2, AppendFacts DEF Sends
  <2>2. m.id = next_request_id_ /\ next_request_id_' = next_request_id_ + 1
        /\ UNCHANGED answers
    BY <1>2 DEF Sends
  <2>3. \A i \in 1 .. Len(wire) : wire'[i].id < next_request_id_
    BY <2>1 DEF Numbered
  <2>4. \A i \in 1 .. Len(wire') : wire'[i].id < next_request_id_'
    <3> TAKE i \in 1 .. Len(wire')
    <3>1. CASE i = Len(wire) + 1
      BY <1>0, <2>1, <2>2, <3>1
    <3>2. CASE i # Len(wire) + 1
      <4>1. i \in 1 .. Len(wire)
        BY <2>1, <3>2
      <4> QED BY <1>0, <2>1, <2>2, <2>3, <4>1
    <3> QED BY <3>1, <3>2
  <2>5. \A i, j \in 1 .. Len(wire') : i < j => wire'[i].id < wire'[j].id
    <3> SUFFICES ASSUME NEW i \in 1 .. Len(wire'), NEW j \in 1 .. Len(wire'), i < j
                 PROVE  wire'[i].id < wire'[j].id
      OBVIOUS
    <3>1. i \in 1 .. Len(wire)
      BY <2>1
    <3>2. CASE j = Len(wire) + 1
      BY <2>1, <2>2, <2>3, <3>1, <3>2
    <3>3. CASE j # Len(wire) + 1
      <4>1. j \in 1 .. Len(wire)
        BY <2>1, <3>3
      <4> QED BY <2>1, <3>1, <4>1 DEF Numbered
    <3> QED BY <3>2, <3>3
  <2>6. \A i \in 1 .. Len(answers) : answers[i].id < next_request_id_'
    BY <1>0, <2>2 DEF Numbered
  <2> QED BY <2>2, <2>4, <2>5, <2>6 DEF Numbered
<1>3. CASE /\ answers # <<>> /\ answers' = Tail(answers)
           /\ UNCHANGED <<wire, driver, next_request_id_>>
  <2>1. /\ Len(answers') = Len(answers) - 1 /\ Len(answers) \in Nat
        /\ \A i \in 1 .. Len(answers) - 1 : answers'[i] = answers[i + 1]
    BY <1>0, <1>3, TailFacts
  <2> QED BY <1>0, <1>3, <2>1 DEF Numbered
<1>4. CASE HandleSnapshotCommand /\ UNCHANGED next_request_id_
  <2>1. /\ Len(wire') = Len(wire) - 1 /\ Len(wire) \in Nat /\ Len(wire) >= 1
        /\ \A i \in 1 .. Len(wire) - 1 : wire'[i] = wire[i + 1]
    BY <1>4, HandleFacts
  <2>2. \/ answers' = answers
        \/ \E a \in Answer : a.id = wire[1].id /\ answers' = Append(answers, a)
    BY <1>4, HandleFacts
  <2>3. \A i \in 1 .. Len(wire') : wire'[i].id < next_request_id_'
    BY <1>0, <1>4, <2>1 DEF Numbered
  <2>4. \A i, j \in 1 .. Len(wire') : i < j => wire'[i].id < wire'[j].id
    <3> SUFFICES ASSUME NEW i \in 1 .. Len(wire'), NEW j \in 1 .. Len(wire'), i < j
                 PROVE  wire'[i].id < wire'[j].id
      OBVIOUS
    <3>1. i + 1 \in 1 .. Len(wire) /\ j + 1 \in 1 .. Len(wire) /\ i + 1 < j + 1
      BY <2>1
    <3>2. wire[i + 1].id < wire[j + 1].id
      BY <3>1 DEF Numbered
    <3> QED BY <2>1, <3>2
  <2>5. \A i \in 1 .. Len(answers') : answers'[i].id < next_request_id_'
    <3>1. CASE answers' = answers
      BY <1>4, <3>1 DEF Numbered
    <3>2. ASSUME NEW a \in Answer, a.id = wire[1].id, answers' = Append(answers, a)
          PROVE  \A i \in 1 .. Len(answers') : answers'[i].id < next_request_id_'
      <4>1. /\ Len(answers') = Len(answers) + 1 /\ Len(answers) \in Nat
            /\ \A i \in 1 .. Len(answers) : answers'[i] = answers[i]
            /\ answers'[Len(answers) + 1] = a
        BY <1>0, <3>2, AppendFacts
      <4> QED BY <1>0, <1>4, <2>1, <3>2, <4>1 DEF Numbered
    <3> QED BY <2>2, <3>1, <3>2
  <2> QED BY <2>3, <2>4, <2>5 DEF Numbered
<1>5. CASE wire' = <<>> /\ answers' = <<>>
  BY <1>5 DEF Numbered
<1> QED BY <1>1, <1>2, <1>3, <1>4, <1>5, ConnectionSteps

LEMMA AwaitedNext == TypeInv /\ Numbered /\ Awaited /\ [Next]_vars => Awaited'
<1> SUFFICES ASSUME TypeInv, Numbered, Awaited, [Next]_vars, pc' = "wait" PROVE Awaited'
  BY DEF Awaited
<1>0. /\ wire \in Seq(Message) /\ Len(wire) \in Nat /\ next_request_id_ \in Nat
      /\ \A i \in 1 .. Len(wire) : wire[i].id \in Nat /\ wire[i].id < next_request_id_
  BY ConnectionTyped DEF Numbered
<1>1. ASSUME NEW m \in Message, wire' = Append(wire, m), m.id = next_request_id_,
             request' = [id |-> next_request_id_, type |-> m.type],
             m.type = "BEGIN" => /\ app_staging_' /\ app_staged'.bytes = NoSnapshot
                                 /\ app_staged'.total = m.data
      PROVE  Awaited'
  <2>1. /\ Len(wire') = Len(wire) + 1
        /\ \A i \in 1 .. Len(wire) : wire'[i] = wire[i]
        /\ wire'[Len(wire) + 1] = m
    BY <1>0, <1>1, AppendFacts
  <2>2. request'.id = next_request_id_ /\ request'.type = m.type
    BY <1>1
  <2>3. ASSUME NEW i \in 1 .. Len(wire'), wire'[i].id = request'.id PROVE wire'[i] = m
    <3>1. CASE i = Len(wire) + 1
      BY <2>1, <3>1
    <3>2. CASE i # Len(wire) + 1
      <4>1. i \in 1 .. Len(wire)
        BY <1>0, <2>1, <3>2
      <4>2. wire'[i].id < next_request_id_ /\ wire'[i].id \in Nat
        BY <1>0, <2>1, <4>1
      <4> QED BY <1>0, <2>2, <2>3, <4>2
    <3> QED BY <3>1, <3>2
  <2> QED BY <1>1, <2>2, <2>3 DEF Awaited
<1>2. CASE Announce
  <2> DEFINE m == [id |-> next_request_id_, type |-> "ANNOUNCE", data |-> route]
  <2>1. m \in Message /\ m.id = next_request_id_ /\ m.type = "ANNOUNCE"
    BY <1>0 DEF TypeInv, RelayTyped, DaemonTyped, Message
  <2>2. /\ wire' = Append(wire, m)
        /\ request' = [id |-> next_request_id_, type |-> "ANNOUNCE"]
    BY <1>2 DEF Announce, Relay
  <2> HIDE DEF m
  <2> QED BY <1>1, <2>1, <2>2
<1>3. ASSUME NEW f \in AppFrame, OnSnapshotCommand(f) PROVE Awaited'
  <2> DEFINE m == [id |-> next_request_id_, type |-> f.type, data |-> f.data]
  <2>1. m \in Message /\ m.id = next_request_id_ /\ m.type = f.type /\ m.data = f.data
    <3>1. DaemonTyped /\ Stage(f)
      BY <1>3 DEF OnSnapshotCommand, TypeInv, RelayTyped
    <3> QED BY <1>0, <3>1, StageTyped DEF Message
  <2>2. f.type # "CHUNK"
    BY <1>3 DEF OnSnapshotCommand, Relay
  <2>3. /\ wire' = Append(wire, m)
        /\ request' = [id |-> next_request_id_, type |-> f.type]
    BY <1>3, <2>2 DEF OnSnapshotCommand, Relay
  <2>4. f.type = "BEGIN" => /\ app_staging_' /\ app_staged'.bytes = NoSnapshot
                            /\ app_staged'.total = f.data
    BY <1>3 DEF OnSnapshotCommand, Stage
  <2> HIDE DEF m
  <2> QED BY <1>1, <2>1, <2>3, <2>4
<1>4. CASE HandleSnapshotCommand
  <2>1. UNCHANGED <<pc, request, app_staging_, app_staged>>
    BY <1>4 DEF HandleSnapshotCommand
  <2>2. /\ Len(wire') = Len(wire) - 1
        /\ \A i \in 1 .. Len(wire) - 1 : wire'[i] = wire[i + 1]
    BY <1>4, HandleFacts
  <2>3. \A i \in 1 .. Len(wire') : i + 1 \in 1 .. Len(wire) /\ wire'[i] = wire[i + 1]
    BY <1>0, <2>2
  <2> QED BY <2>1, <2>3 DEF Awaited
<1>5. CASE DriverDown
  BY <1>5 DEF DriverDown, NewDriver, Awaited
<1>6. CASE DropAnswer \/ MediumFails \/ UNCHANGED vars
  BY <1>6 DEF DropAnswer, MediumFails, vars, relayVars, Awaited
<1>7. CASE DriverUp
  BY <1>7 DEF DriverUp, NewDriver, Awaited
<1>8. CASE \/ \E r \in Route : OnRouteReport(r)
           \/ \E f \in AppFrame : RefuseUnsent(f)
           \/ ForgetAnnounced \/ Storing \/ StoreDone \/ DaemonKilled \/ PowerLoss
  BY <1>8 DEF OnRouteReport, RefuseUnsent, ForgetAnnounced, Storing, relayVars, StoreDone,
              DaemonKilled, PowerLoss, DaemonStarts, NewDriver, Free
<1>9. CASE TakeAnswer \/ Timeout
  <2>1. \E ok : AnnounceAnswered(ok) \/ CommandAnswered(ok) \/ CommitStaged
    BY <1>9, Zenon DEF TakeAnswer, Timeout
  <2> QED BY <2>1 DEF AnnounceAnswered, CommandAnswered, CommitStaged
<1> QED BY <1>2, <1>3, <1>4, <1>5, <1>6, <1>7, <1>8, <1>9 DEF Next

LEMMA RequestInvariant == Spec => [](TypeInv /\ RequestInv)
<1>1. Init => RequestInv
  BY DEF Init, RequestInv, Numbered, Awaited
<1>2. TypeInv /\ TypeInv' /\ RequestInv /\ [Next]_vars => RequestInv'
  BY NumberedNext, AwaitedNext DEF RequestInv
<1> QED BY <1>1, <1>2, TypeInvariant, PTL DEF Spec

-----------------------------------------------------------------------------
(* What the store holds *)

\* What a command does to the driver's staging.
LEMMA OutcomeStaging ==
    ASSUME TypeInv, NEW c \in Message, NEW o \in Outcomes(c)
    PROVE  /\ c.type = "ANNOUNCE" =>
                (o.driver.staging <=> driver.staging) /\ o.driver.staged = driver.staged
           /\ c.type \in {"COMMIT", "ABORT"} => ~o.driver.staging
           /\ c.type = "CHUNK" =>
                \/ ~o.driver.staging
                \/ /\ o.driver.staging /\ driver.staging /\ driver.staged.bytes = NoSnapshot
                   /\ o.driver.staged.bytes = c.data
                   /\ o.driver.staged.total = driver.staged.total
           /\ c.type = "CHUNK" /\ driver.staging /\ driver.staged.bytes = NoSnapshot
                /\ c.data # Oversized => o.driver.staging
           /\ c.type = "BEGIN" =>
                \/ ~o.ok /\ o.driver = driver
                \/ o.ok /\ o.driver.staging
                   /\ o.driver.staged = [total |-> c.data, bytes |-> NoSnapshot]
           /\ c.type = "COMMIT" /\ o.ok =>
                /\ driver.staging /\ driver.staged.bytes = driver.staged.total
                /\ driver.staged.total \in Snapshot
<1> USE DEF TypeInv, RelayTyped, DriverTyped, DriverState, Transfer
<1>1. CASE c.type = "ANNOUNCE"
  <2>1. o = [ok |-> TRUE, driver |-> [driver EXCEPT !.hash = c.data]]
    BY <1>1 DEF Outcomes
  <2> QED BY <1>1, <2>1
<1>2. CASE c.type = "BEGIN"
  <2>1. o = Begin(c.data)
    BY <1>2 DEF Outcomes
  <2> QED BY <1>2, <2>1 DEF Begin
<1>3. CASE c.type = "CHUNK"
  <2>1. o = AppendChunk(c.data)
    BY <1>3 DEF Outcomes
  <2> QED BY <1>3, <2>1 DEF AppendChunk, Aborted
<1>4. CASE c.type = "COMMIT"
  <2>1. o \in Commits
    BY <1>4 DEF Outcomes
  <2>2. \/ o.driver = Aborted /\ ~o.ok
        \/ /\ o.driver = [Aborted EXCEPT !.last_app_generation_ = driver.staged.total.app]
           /\ driver.staging /\ driver.staged.bytes = driver.staged.total
    BY <2>1 DEF Commits
  <2> QED BY <1>4, <2>2 DEF Aborted
<1>5. CASE c.type = "ABORT"
  <2>1. o = [ok |-> TRUE, driver |-> Aborted]
    BY <1>5 DEF Outcomes
  <2> QED BY <1>5, <2>1 DEF Aborted
<1> QED BY <1>1, <1>2, <1>3, <1>4, <1>5 DEF Message

\* No transfer follows on the wire.
NothingAfter(i) ==
    \A j \in 1 .. Len(wire) : j > i => wire[j].type \notin {"BEGIN", "CHUNK"}

\* The bytes the daemon would store are the last the driver was sent, unless the
\* sending failed: the driver has them, will read them, or has refused them.
CopyOnItsWay ==
    app_staging_ /\ app_staged.bytes \notin unsent \cup {NoSnapshot} =>
        \/ /\ NothingAfter(0)
           /\ driver.staging => driver.staged.bytes = app_staged.bytes
        \/ \E i \in 1 .. Len(wire) : /\ wire[i].type = "CHUNK"
                                    /\ wire[i].data = app_staged.bytes
                                    /\ NothingAfter(i)

Vouched == accepted \cup unsent \cup {NoSnapshot, Torn}

\* An accepted COMMIT was of the daemon's copy.
AnswerVouches ==
    \A i \in 1 .. Len(answers) :
        /\ pc = "wait" /\ request.type = "COMMIT"
        /\ answers[i].id = request.id /\ answers[i].ok
        /\ app_staging_ /\ app_staged.bytes \in Snapshot
        => app_staged.bytes \in Vouched

\* Everything the store may hold, and what is about to be renamed into it.
StoreVouched ==
    /\ \A r \in Route : durable[r].current \subseteq Vouched
                        /\ durable[r].previous \subseteq Vouched
    /\ commit.snapshot \in Vouched /\ commit.temporary \in Vouched
    /\ commit.previous_temporary \in Vouched

AcceptInv == CopyOnItsWay /\ AnswerVouches /\ StoreVouched

\* The driver's staging and the wire when the driver handles a command.
LEMMA CopyHandled ==
    ASSUME TypeInv, CopyOnItsWay, HandleSnapshotCommand
    PROVE  CopyOnItsWay'
<1>1. UNCHANGED <<app_staging_, app_staged, unsent>>
  BY DEF HandleSnapshotCommand
<1>2. PICK o \in Outcomes(wire[1]) : driver' = o.driver
  BY HandleFacts
<1>3. /\ Len(wire') = Len(wire) - 1 /\ Len(wire) \in Nat /\ Len(wire) >= 1
      /\ \A i \in 1 .. Len(wire) - 1 : wire'[i] = wire[i + 1]
      /\ wire[1] \in Message
  BY HandleFacts
<1>4. ASSUME NEW i \in Nat, NothingAfter(i + 1) PROVE NothingAfter(i)'
  <2> SUFFICES ASSUME NEW j \in 1 .. Len(wire'), j > i
               PROVE  wire'[j].type \notin {"BEGIN", "CHUNK"}
    BY DEF NothingAfter
  <2>1. j + 1 \in 1 .. Len(wire) /\ j + 1 > i + 1 /\ wire'[j] = wire[j + 1]
    BY <1>3
  <2> QED BY <1>4, <2>1 DEF NothingAfter
<1> SUFFICES ASSUME app_staging_, app_staged.bytes \notin unsent \cup {NoSnapshot}
             PROVE  \/ /\ NothingAfter(0)'
                       /\ driver'.staging => driver'.staged.bytes = app_staged.bytes
                    \/ \E i \in 1 .. Len(wire') : /\ wire'[i].type = "CHUNK"
                                                 /\ wire'[i].data = app_staged.bytes
                                                 /\ NothingAfter(i)'
  BY <1>1 DEF CopyOnItsWay
<1>5. CASE /\ NothingAfter(0)
           /\ driver.staging => driver.staged.bytes = app_staged.bytes
  <2>1. wire[1].type \notin {"BEGIN", "CHUNK"}
    BY <1>3, <1>5 DEF NothingAfter
  <2>2. NothingAfter(1)
    BY <1>5 DEF NothingAfter
  <2>3. wire[1].type \in {"ANNOUNCE", "COMMIT", "ABORT"}
    BY <1>3, <2>1 DEF Message
  <2>4. driver'.staging => driver'.staged.bytes = app_staged.bytes
    BY <1>2, <1>3, <1>5, <2>3, OutcomeStaging
  <2> QED BY <1>4, <2>2, <2>4
<1>6. ASSUME NEW i \in 1 .. Len(wire), wire[i].type = "CHUNK",
             wire[i].data = app_staged.bytes, NothingAfter(i)
      PROVE  \/ /\ NothingAfter(0)'
                /\ driver'.staging => driver'.staged.bytes = app_staged.bytes
             \/ \E k \in 1 .. Len(wire') : /\ wire'[k].type = "CHUNK"
                                          /\ wire'[k].data = app_staged.bytes
                                          /\ NothingAfter(k)'
  <2>1. CASE i = 1
    <3>1. NothingAfter(0)'
      BY <1>4, <1>6, <2>1
    <3>2. driver'.staging => driver'.staged.bytes = app_staged.bytes
      BY <1>2, <1>3, <1>6, <2>1, OutcomeStaging
    <3> QED BY <3>1, <3>2
  <2>2. CASE i # 1
    <3>1. i - 1 \in 1 .. Len(wire') /\ wire'[i - 1] = wire[i] /\ i - 1 \in Nat /\ i = (i - 1) + 1
      BY <1>3, <2>2
    <3>2. NothingAfter(i - 1)'
      BY <1>4, <1>6, <3>1
    <3> QED BY <1>6, <3>1, <3>2
  <2> QED BY <2>1, <2>2
<1> QED BY <1>5, <1>6 DEF CopyOnItsWay

\* The copy when a message is sent: only a transfer's frames matter.
LEMMA CopySent ==
    ASSUME TypeInv, CopyOnItsWay, NEW m \in Message, wire' = Append(wire, m),
           UNCHANGED <<driver, unsent>>,
           app_staging_' =>
                \/ m.type \notin {"BEGIN", "CHUNK"} /\ app_staging_ /\ app_staged' = app_staged
                \/ m.type = "CHUNK" /\ app_staged'.bytes = m.data
                \/ app_staged'.bytes = NoSnapshot
    PROVE  CopyOnItsWay'
<1>1. /\ Len(wire') = Len(wire) + 1 /\ Len(wire) \in Nat
      /\ \A i \in 1 .. Len(wire) : wire'[i] = wire[i]
      /\ wire'[Len(wire) + 1] = m
  BY ConnectionTyped, AppendFacts
<1> SUFFICES ASSUME app_staging_', app_staged'.bytes \notin unsent \cup {NoSnapshot}
             PROVE  \/ /\ NothingAfter(0)'
                       /\ driver.staging => driver.staged.bytes = app_staged'.bytes
                    \/ \E i \in 1 .. Len(wire') : /\ wire'[i].type = "CHUNK"
                                                 /\ wire'[i].data = app_staged'.bytes
                                                 /\ NothingAfter(i)'
  BY DEF CopyOnItsWay
<1>2. CASE m.type = "CHUNK" /\ app_staged'.bytes = m.data
  <2>1. PICK k \in 1 .. Len(wire') : k = Len(wire) + 1
    BY <1>1
  <2>2. NothingAfter(k)'
    BY <1>1, <2>1 DEF NothingAfter
  <2> QED BY <1>1, <1>2, <2>1, <2>2
<1>3. CASE m.type \notin {"BEGIN", "CHUNK"} /\ app_staging_ /\ app_staged' = app_staged
  <2>1. ASSUME NEW i \in 0 .. Len(wire), NothingAfter(i) PROVE NothingAfter(i)'
    <3> SUFFICES ASSUME NEW j \in 1 .. Len(wire'), j > i
                 PROVE  wire'[j].type \notin {"BEGIN", "CHUNK"}
      BY DEF NothingAfter
    <3>1. CASE j = Len(wire) + 1
      BY <1>1, <1>3, <3>1
    <3>2. CASE j # Len(wire) + 1
      <4>1. j \in 1 .. Len(wire)
        BY <1>1, <3>2
      <4> QED BY <1>1, <2>1, <4>1 DEF NothingAfter
    <3> QED BY <3>1, <3>2
  <2>2. \/ /\ NothingAfter(0)
           /\ driver.staging => driver.staged.bytes = app_staged.bytes
        \/ \E i \in 1 .. Len(wire) : /\ wire[i].type = "CHUNK"
                                    /\ wire[i].data = app_staged.bytes
                                    /\ NothingAfter(i)
    BY <1>3 DEF CopyOnItsWay
  <2>3. 0 \in 0 .. Len(wire) /\ \A i \in 1 .. Len(wire) : i \in 1 .. Len(wire') /\ i \in 0 .. Len(wire)
    BY <1>1
  <2>4. CASE /\ NothingAfter(0)
             /\ driver.staging => driver.staged.bytes = app_staged.bytes
    BY <1>3, <2>1, <2>3, <2>4
  <2>5. ASSUME NEW i \in 1 .. Len(wire), wire[i].type = "CHUNK",
               wire[i].data = app_staged.bytes, NothingAfter(i)
        PROVE  \E k \in 1 .. Len(wire') : /\ wire'[k].type = "CHUNK"
                                          /\ wire'[k].data = app_staged'.bytes
                                          /\ NothingAfter(k)'
    <3>1. NothingAfter(i)' /\ i \in 1 .. Len(wire') /\ wire'[i] = wire[i]
      BY <1>1, <2>1, <2>3, <2>5
    <3> QED BY <1>3, <2>5, <3>1
  <2> QED BY <2>2, <2>4, <2>5
<1> QED BY <1>2, <1>3

\* The copy when nothing is sent or read.
LEMMA CopyKept ==
    ASSUME CopyOnItsWay, UNCHANGED <<wire, unsent>>,
           driver'.staging => driver.staging /\ driver'.staged = driver.staged,
           app_staging_' => app_staging_ /\ app_staged' = app_staged
    PROVE  CopyOnItsWay'
BY DEF CopyOnItsWay, NothingAfter

LEMMA CopyNext == TypeInv /\ CopyOnItsWay /\ [Next]_vars => CopyOnItsWay'
<1> SUFFICES ASSUME TypeInv, CopyOnItsWay, [Next]_vars PROVE CopyOnItsWay'
  OBVIOUS
<1>1. CASE HandleSnapshotCommand
  BY <1>1, CopyHandled
<1>2. CASE Announce
  <2> DEFINE m == [id |-> next_request_id_, type |-> "ANNOUNCE", data |-> route]
  <2>1. m \in Message /\ m.type = "ANNOUNCE"
    BY DEF TypeInv, RelayTyped, DaemonTyped, Message
  <2>2. wire' = Append(wire, m) /\ UNCHANGED <<driver, unsent, app_staging_, app_staged>>
    BY <1>2 DEF Announce, Relay
  <2> HIDE DEF m
  <2> QED BY <2>1, <2>2, CopySent
<1>3. ASSUME NEW f \in AppFrame, OnSnapshotCommand(f) PROVE CopyOnItsWay'
  <2> DEFINE m == [id |-> next_request_id_, type |-> f.type, data |-> f.data]
  <2>1. m \in Message /\ m.type = f.type /\ m.data = f.data
    <3>1. DaemonTyped /\ Stage(f) /\ next_request_id_ \in Nat
      BY <1>3 DEF OnSnapshotCommand, TypeInv, RelayTyped, DaemonTyped
    <3> QED BY <3>1, StageTyped DEF Message
  <2>2. wire' = Append(wire, m) /\ UNCHANGED <<driver, unsent>>
    BY <1>3 DEF OnSnapshotCommand, Relay
  <2>3. DaemonTyped /\ Stage(f)
    BY <1>3 DEF TypeInv, RelayTyped, OnSnapshotCommand
  <2>4. app_staging_' =>
            \/ f.type \notin {"BEGIN", "CHUNK"} /\ app_staging_ /\ app_staged' = app_staged
            \/ f.type = "CHUNK" /\ app_staged'.bytes = f.data
            \/ app_staged'.bytes = NoSnapshot
    BY <2>3, StageEffect
  <2> HIDE DEF m
  <2> QED BY <2>1, <2>2, <2>4, CopySent
<1>4. ASSUME NEW f \in AppFrame, RefuseUnsent(f) PROVE CopyOnItsWay'
  <2>1. /\ Stage(f) /\ UNCHANGED <<wire, driver>>
        /\ unsent' = IF driver.up /\ f.type = "CHUNK" THEN unsent \cup {f.data} ELSE unsent
    BY <1>4 DEF RefuseUnsent
  <2>2. DaemonTyped
    BY DEF TypeInv, RelayTyped
  <2>3. CASE app_staging_' => app_staging_ /\ app_staged' = app_staged
    BY <2>1, <2>3 DEF CopyOnItsWay, NothingAfter
  <2>4. CASE app_staged'.bytes = NoSnapshot
    BY <2>4 DEF CopyOnItsWay
  <2>5. CASE f.type = "CHUNK" /\ app_staged'.bytes = f.data /\ driver.up
    BY <2>1, <2>5 DEF CopyOnItsWay
  <2>6. CASE f.type = "CHUNK" /\ app_staged'.bytes = f.data /\ ~driver.up
    <3>1. wire = <<>> /\ ~driver.staging
      BY <2>6 DEF TypeInv, RelayTyped, DriverTyped
    <3>2. NothingAfter(0)'
      BY <2>1, <3>1 DEF NothingAfter
    <3> QED BY <2>1, <3>1, <3>2 DEF CopyOnItsWay
  <2> QED BY <2>1, <2>2, <2>3, <2>4, <2>5, <2>6, StageEffect
<1>5. CASE TakeAnswer \/ Timeout
  <2>1. \E ok : AnnounceAnswered(ok) \/ CommandAnswered(ok) \/ CommitStaged
    BY <1>5, Zenon DEF TakeAnswer, Timeout
  <2>2. app_staging_' => app_staging_ /\ app_staged' = app_staged
    BY <2>1 DEF AnnounceAnswered, CommandAnswered, CommitStaged
  <2>3. UNCHANGED <<wire, unsent, driver>>
    BY <1>5, Zenon DEF TakeAnswer, Timeout
  <2> QED BY <2>2, <2>3, CopyKept
<1>6. CASE DriverDown
  <2>1. wire' = <<>> /\ ~driver'.staging
    BY <1>6 DEF DriverDown, NewDriver
  <2> QED BY <2>1 DEF CopyOnItsWay, NothingAfter
<1>7. CASE DriverUp
  <2>1. UNCHANGED <<wire, unsent, app_staging_, app_staged>> /\ ~driver'.staging
    BY <1>7 DEF DriverUp, NewDriver
  <2> QED BY <2>1, CopyKept
<1>8. CASE DaemonKilled \/ PowerLoss
  <2>1. ~app_staging_'
    BY <1>8 DEF DaemonKilled, PowerLoss, DaemonStarts, NewDriver
  <2> QED BY <2>1 DEF CopyOnItsWay
<1>9. CASE \/ \E r \in Route : OnRouteReport(r)
           \/ ForgetAnnounced \/ DropAnswer \/ Storing \/ StoreDone \/ MediumFails
           \/ UNCHANGED vars
  <2>1. UNCHANGED <<wire, unsent, driver, app_staging_, app_staged>>
    BY <1>9 DEF OnRouteReport, ForgetAnnounced, DropAnswer, Storing, relayVars, StoreDone,
                MediumFails, vars
  <2> QED BY <2>1, CopyKept
<1> QED BY <1>1, <1>2, <1>3, <1>4, <1>5, <1>6, <1>7, <1>8, <1>9 DEF Next

\* The driver never takes an acceptance back, nor the daemon what it could not send.
LEMMA VouchedGrows == [Next]_vars => Vouched \subseteq Vouched'
<1> SUFFICES ASSUME [Next]_vars PROVE accepted \subseteq accepted' /\ unsent \subseteq unsent'
  BY DEF Vouched
<1>1. CASE HandleSnapshotCommand
  BY <1>1 DEF HandleSnapshotCommand
<1>2. CASE \E f \in AppFrame : RefuseUnsent(f)
  BY <1>2 DEF RefuseUnsent
<1>3. CASE TakeAnswer \/ Timeout
  BY <1>3, Zenon DEF TakeAnswer, Timeout
<1>4. CASE \/ \E r \in Route : OnRouteReport(r)
           \/ \E f \in AppFrame : OnSnapshotCommand(f)
           \/ Announce \/ ForgetAnnounced \/ DropAnswer \/ Storing \/ StoreDone
           \/ MediumFails \/ UNCHANGED vars
  BY <1>4 DEF OnRouteReport, OnSnapshotCommand, Announce, ForgetAnnounced, DropAnswer,
              Storing, relayVars, StoreDone, MediumFails, vars
<1>5. CASE DriverDown \/ DriverUp \/ DaemonKilled \/ PowerLoss
  BY <1>5 DEF DriverDown, DriverUp, DaemonKilled, PowerLoss, DaemonStarts, NewDriver
<1> QED BY <1>1, <1>2, <1>3, <1>4, <1>5 DEF Next

\* The awaited request, when the driver reads it, is all that is on the wire.
LEMMA AwaitedIsLast ==
    ASSUME TypeInv, RequestInv, pc = "wait", wire # <<>>, wire[1].id = request.id
    PROVE  /\ Len(wire) = 1 /\ wire[1].type = request.type
           /\ request.type = "BEGIN" => wire[1].data = app_staged.total
<1>1. /\ wire \in Seq(Message) /\ Len(wire) \in Nat /\ next_request_id_ \in Nat
      /\ \A i \in 1 .. Len(wire) : wire[i].id \in Nat
  BY ConnectionTyped
<1>2. Len(wire) >= 1
  BY <1>1, TailFacts
<1>3. request.id = next_request_id_ - 1
  BY DEF TypeInv, RelayTyped, ControlTyped
<1>4. Len(wire) = 1
  <2>1. ASSUME Len(wire) >= 2 PROVE FALSE
    <3>1. 1 \in 1 .. Len(wire) /\ 2 \in 1 .. Len(wire) /\ 1 < 2
      BY <1>1, <2>1
    <3>2. wire[1].id < wire[2].id /\ wire[2].id < next_request_id_
      BY <3>1 DEF RequestInv, Numbered
    <3> QED BY <1>1, <1>3, <3>1, <3>2
  <2>2. \A n \in Nat : n >= 1 => n = 1 \/ n >= 2
    OBVIOUS
  <2> QED BY <1>1, <1>2, <2>1, <2>2
<1>5. 1 \in 1 .. Len(wire)
  BY <1>1, <1>2
<1> QED BY <1>4, <1>5 DEF RequestInv, Awaited

\* An answer that is already there when a request is sent is not its answer, and one
\* that was there stays what it was.
LEMMA AnswersNext ==
    TypeInv /\ RequestInv /\ CopyOnItsWay /\ AnswerVouches /\ [Next]_vars => AnswerVouches'
<1> SUFFICES ASSUME TypeInv, RequestInv, CopyOnItsWay, AnswerVouches, [Next]_vars,
                    NEW i \in 1 .. Len(answers'), pc' = "wait", request'.type = "COMMIT",
                    answers'[i].id = request'.id, answers'[i].ok, app_staging_',
                    app_staged'.bytes \in Snapshot
             PROVE  app_staged'.bytes \in Vouched'
  BY DEF AnswerVouches
<1>0. /\ answers \in Seq(Answer) /\ Len(answers) \in Nat /\ next_request_id_ \in Nat
      /\ \A k \in 1 .. Len(answers) :
            answers[k].id \in Nat /\ answers[k].id < next_request_id_
  BY ConnectionTyped DEF RequestInv, Numbered
<1>1. Vouched \subseteq Vouched'
  BY VouchedGrows
<1>2. CASE Announce \/ \E f \in AppFrame : OnSnapshotCommand(f)
  <2>1. /\ answers' = answers
        /\ \E type : /\ pc' = IF type = "CHUNK" THEN "idle" ELSE "wait"
                     /\ request' = IF type = "CHUNK" THEN NoRequest
                                   ELSE [id |-> next_request_id_, type |-> type]
    BY <1>2 DEF Announce, OnSnapshotCommand, Relay
  <2>2. request'.id = next_request_id_
    BY <2>1
  <2> QED BY <1>0, <2>1, <2>2
<1>3. ASSUME UNCHANGED <<pc, request, app_staging_, app_staged>>,
             NEW k \in 1 .. Len(answers), answers'[i] = answers[k]
      PROVE  app_staged'.bytes \in Vouched'
  BY <1>1, <1>3 DEF AnswerVouches
<1>4. CASE DropAnswer
  <2>1. /\ Len(answers') = Len(answers) - 1
        /\ \A k \in 1 .. Len(answers) - 1 : answers'[k] = answers[k + 1]
    BY <1>0, <1>4, TailFacts DEF DropAnswer
  <2>2. i + 1 \in 1 .. Len(answers) /\ answers'[i] = answers[i + 1]
    BY <1>0, <2>1
  <2> QED BY <1>3, <1>4, <2>2 DEF DropAnswer
<1>5. CASE HandleSnapshotCommand
  <2>1. UNCHANGED <<pc, request, app_staging_, app_staged, unsent>>
    BY <1>5 DEF HandleSnapshotCommand
  <2>2. PICK o \in Outcomes(wire[1]) :
            /\ accepted' = IF wire[1].type = "COMMIT" /\ o.ok
                           THEN accepted \cup {driver.staged.total} ELSE accepted
            /\ \/ answers' = answers
               \/ \E a \in Answer : a.id = wire[1].id /\ a.ok = o.ok
                                  /\ answers' = Append(answers, a)
    BY <1>5, HandleFacts
  <2>3. CASE answers' = answers
    BY <1>3, <2>1, <2>3
  <2>4. ASSUME NEW a \in Answer, a.id = wire[1].id, a.ok = o.ok, answers' = Append(answers, a)
        PROVE  app_staged'.bytes \in Vouched'
    <3>1. /\ Len(answers') = Len(answers) + 1
          /\ \A k \in 1 .. Len(answers) : answers'[k] = answers[k]
          /\ answers'[Len(answers) + 1] = a
      BY <1>0, <2>4, AppendFacts
    <3>2. CASE i \in 1 .. Len(answers)
      BY <1>3, <2>1, <3>1, <3>2
    <3>3. CASE i = Len(answers) + 1
      <4>1. a.id = request.id /\ o.ok /\ pc = "wait" /\ request.type = "COMMIT"
        BY <2>1, <2>4, <3>1, <3>3
      <4>2. wire # <<>>
        BY <1>5 DEF HandleSnapshotCommand
      <4>3. Len(wire) = 1 /\ wire[1].type = "COMMIT"
        BY <2>4, <4>1, <4>2, AwaitedIsLast
      <4>4. wire[1] \in Message
        BY <1>5, HandleFacts
      <4>5. /\ driver.staging /\ driver.staged.bytes = driver.staged.total
            /\ driver.staged.total \in Snapshot
        BY <4>1, <4>3, <4>4, OutcomeStaging
      <4>6. driver.staged.bytes \in Vouched'
        BY <2>2, <4>1, <4>3, <4>5 DEF Vouched
      <4>7. CASE app_staged.bytes \in unsent
        BY <2>1, <4>7 DEF Vouched
      <4>8. CASE app_staged.bytes \notin unsent
        <5>1. app_staging_ /\ app_staged.bytes \notin unsent \cup {NoSnapshot}
          BY <2>1, <4>8
        <5>2. driver.staged.bytes = app_staged.bytes
          BY <4>3, <4>5, <5>1 DEF CopyOnItsWay
        <5> QED BY <2>1, <4>6, <5>2
      <4> QED BY <4>7, <4>8
    <3> QED BY <1>0, <3>1, <3>2, <3>3
  <2> QED BY <2>2, <2>3, <2>4
<1>6. CASE MediumFails \/ UNCHANGED vars
  <2>1. UNCHANGED <<answers, pc, request, app_staging_, app_staged>>
    BY <1>6 DEF MediumFails, vars, relayVars
  <2> QED BY <1>3, <2>1
<1>7. CASE DriverDown \/ DriverUp \/ DaemonKilled \/ PowerLoss
  <2>1. CASE DriverUp
    BY <1>3, <2>1 DEF DriverUp, NewDriver
  <2>2. CASE DriverDown \/ DaemonKilled \/ PowerLoss
    <3>1. answers' = <<>>
      BY <2>2 DEF DriverDown, DaemonKilled, PowerLoss, DaemonStarts, NewDriver
    <3> QED BY <3>1
  <2> QED BY <1>7, <2>1, <2>2
<1>8. CASE \/ \E r \in Route : OnRouteReport(r)
           \/ \E f \in AppFrame : RefuseUnsent(f)
           \/ ForgetAnnounced \/ Storing \/ StoreDone
  BY <1>8 DEF OnRouteReport, RefuseUnsent, ForgetAnnounced, Storing, relayVars, StoreDone, Free
<1>9. CASE TakeAnswer \/ Timeout
  <2>1. \E ok : AnnounceAnswered(ok) \/ CommandAnswered(ok) \/ CommitStaged
    BY <1>9, Zenon DEF TakeAnswer, Timeout
  <2> QED BY <2>1 DEF AnnounceAnswered, CommandAnswered, CommitStaged
<1> QED BY <1>2, <1>4, <1>5, <1>6, <1>7, <1>8, <1>9 DEF Next

\* The store's own steps only move what it has.
LEMMA VouchedStore ==
    ASSUME StoreInv, StoreVouched, Vouched \subseteq Vouched',
           \/ StoreStep \/ CommitReturns \/ StoreKilled \/ StorePowerLoss
           \/ \E r \in Route : Corrupt(r)
           \/ \E s \in Snapshot : s \in Vouched /\ StartCommit(s)
           \/ UNCHANGED storeVars
    PROVE  StoreVouched'
<1>1. NoSnapshot \in Vouched' /\ Torn \in Vouched'
  BY DEF Vouched
<1>2. Idle.snapshot \in Vouched' /\ Idle.temporary \in Vouched'
      /\ Idle.previous_temporary \in Vouched'
  BY <1>1 DEF Idle
<1>3. /\ \A r \in Route : durable[r].current \subseteq Vouched'
                          /\ durable[r].previous \subseteq Vouched'
      /\ commit.snapshot \in Vouched' /\ commit.temporary \in Vouched'
      /\ commit.previous_temporary \in Vouched'
  BY DEF StoreVouched
<1>4. \A r \in Route : files[r].current \in Vouched' /\ files[r].previous \in Vouched'
  BY <1>3 DEF StoreInv, StoreTypeOK
<1>5. commit \in [at : {"idle", "write", "stage", "rotate", "publish", "sync", "done"},
                  result : {"none", "stored", "failed"},
                  snapshot : Snapshot \cup {NoSnapshot},
                  temporary : Snapshot \cup {NoSnapshot}, synced : BOOLEAN,
                  previous_temporary : Snapshot \cup {NoSnapshot}]
  BY DEF StoreInv, StoreTypeOK
<1>6. commit.at # "idle" => Target \in Route
  BY DEF StoreInv, StoreTypeOK, Target
<1>7. durable \in [Route -> [current : SUBSET Content, previous : SUBSET Content]]
  BY DEF StoreInv, StoreTypeOK
<1>8. commit.synced
  BY DEF StoreInv, CommitProgress
<1>9. CASE CommitReturns \/ StoreKilled
  BY <1>2, <1>3, <1>9 DEF CommitReturns, StoreKilled, StoreVouched
<1>10. CASE StorePowerLoss
  <2>1. commit' = Idle
    BY <1>10 DEF StorePowerLoss
  <2>2. \A r \in Route : files'[r].current \in Vouched' /\ files'[r].previous \in Vouched'
    BY <1>3, <1>10 DEF StorePowerLoss
  <2>3. durable' = [r \in Route |-> [current |-> {files'[r].current},
                                     previous |-> {files'[r].previous}]]
    BY <1>10 DEF StorePowerLoss
  <2> QED BY <1>2, <2>1, <2>2, <2>3 DEF StoreVouched
<1>11. ASSUME NEW r \in Route, Corrupt(r) PROVE StoreVouched'
  <2>1. commit' = commit /\ durable' = [durable EXCEPT ![r].current = {Torn}]
    BY <1>11 DEF Corrupt
  <2>2. \A q \in Route : durable'[q].current \subseteq Vouched'
                         /\ durable'[q].previous \subseteq Vouched'
    BY <1>1, <1>3, <1>7, <2>1
  <2> QED BY <1>3, <2>1, <2>2 DEF StoreVouched
<1>12. ASSUME NEW s \in Snapshot, s \in Vouched, StartCommit(s) PROVE StoreVouched'
  BY <1>1, <1>3, <1>12 DEF StartCommit, Idle, StoreVouched
<1>13. CASE UNCHANGED storeVars
  BY <1>3, <1>13 DEF storeVars, StoreVouched
<1>14. CASE StoreStep
  <2>1. CASE WriteTemporary \/ StagePrevious \/ SkipPrevious \/ CommitFails
    <3>1. /\ durable' = durable /\ commit'.snapshot = commit.snapshot
          /\ commit'.temporary \in {commit.temporary, commit.snapshot}
          /\ commit'.previous_temporary \in {commit.previous_temporary, files[Target].current}
      BY <1>5, <2>1 DEF WriteTemporary, Written, StagePrevious, SkipPrevious, CommitFails
    <3>2. commit.at # "idle"
      BY <2>1 DEF WriteTemporary, StagePrevious, SkipPrevious, CommitFails
    <3> QED BY <1>3, <1>4, <1>6, <3>1, <3>2 DEF StoreVouched
  <2>2. CASE RotatePrevious
    <3>1. /\ durable' = [durable EXCEPT ![Target]["previous"] =
                            @ \cup {commit.previous_temporary}]
          /\ commit' = [commit EXCEPT !.at = "publish"] /\ Target \in Route
      BY <1>6, <2>2 DEF RotatePrevious, Rename, Lasting
    <3>2. \A q \in Route : durable'[q].current \subseteq Vouched'
                           /\ durable'[q].previous \subseteq Vouched'
      BY <1>3, <1>7, <3>1
    <3> QED BY <1>3, <1>5, <3>1, <3>2 DEF StoreVouched
  <2>3. CASE PublishCurrent
    <3>1. /\ durable' = [durable EXCEPT ![Target]["current"] = @ \cup {commit.temporary}]
          /\ commit' = [commit EXCEPT !.at = "sync"] /\ Target \in Route
      BY <1>6, <1>8, <2>3 DEF PublishCurrent, Rename, Lasting
    <3>2. \A q \in Route : durable'[q].current \subseteq Vouched'
                           /\ durable'[q].previous \subseteq Vouched'
      BY <1>3, <1>7, <3>1
    <3> QED BY <1>3, <1>5, <3>1, <3>2 DEF StoreVouched
  <2>4. CASE FsyncDirectory
    <3>1. /\ durable' = [durable EXCEPT ![Target] =
                            [current |-> {files[Target].current},
                             previous |-> {files[Target].previous}]]
          /\ commit' = [commit EXCEPT !.at = "done", !.result = "stored"]
          /\ Target \in Route
      BY <1>6, <1>8, <2>4 DEF FsyncDirectory, Lasting
    <3>2. \A q \in Route : durable'[q].current \subseteq Vouched'
                           /\ durable'[q].previous \subseteq Vouched'
      BY <1>3, <1>4, <1>7, <3>1
    <3> QED BY <1>3, <1>5, <3>1, <3>2 DEF StoreVouched
  <2> QED BY <1>14, <2>1, <2>2, <2>3, <2>4 DEF StoreStep
<1> QED BY <1>9, <1>10, <1>11, <1>12, <1>13, <1>14

\* A Commit is only started on a copy an accepted COMMIT was about.
LEMMA StoredNext ==
    TypeInv /\ AnswerVouches /\ StoreVouched /\ [Next]_vars => StoreVouched'
<1> SUFFICES ASSUME TypeInv, AnswerVouches, StoreVouched, [Next]_vars PROVE StoreVouched'
  OBVIOUS
<1>1. StoreInv /\ Vouched \subseteq Vouched'
  BY VouchedGrows DEF TypeInv
<1>2. CASE TakeAnswer
  <2>1. CASE AnnounceAnswered(Head(answers).ok) \/ CommandAnswered(Head(answers).ok)
    <3>1. UNCHANGED storeVars
      BY <2>1 DEF AnnounceAnswered, CommandAnswered
    <3> QED BY <1>1, <3>1, VouchedStore
  <2>2. CASE Head(answers).ok /\ CommitStaged
    <3>1. CASE Storable
      <4>1. /\ pc = "wait" /\ request.type = "COMMIT" /\ answers # <<>>
            /\ Head(answers).id = request.id
        BY <1>2, <2>2 DEF TakeAnswer, Answered, CommitStaged
      <4>2. Head(answers) = answers[1] /\ 1 \in 1 .. Len(answers)
        BY <4>1, ConnectionTyped, TailFacts
      <4>3. /\ app_staging_ /\ app_staged.bytes = app_staged.total
            /\ app_staged.total \in Snapshot
        BY <3>1 DEF Storable, TypeInv, RelayTyped, DaemonTyped
      <4>4. app_staged.total \in Vouched
        BY <2>2, <4>1, <4>2, <4>3 DEF AnswerVouches
      <4>5. StartCommit(app_staged.total)
        BY <2>2, <3>1 DEF CommitStaged
      <4> QED BY <1>1, <4>3, <4>4, <4>5, VouchedStore
    <3>2. CASE ~Storable
      <4>1. UNCHANGED storeVars
        BY <2>2, <3>2 DEF CommitStaged
      <4> QED BY <1>1, <4>1, VouchedStore
    <3> QED BY <3>1, <3>2
  <2> QED BY <1>2, <2>1, <2>2 DEF TakeAnswer
<1>3. CASE Storing \/ StoreDone \/ DaemonKilled \/ PowerLoss \/ MediumFails
  <2>1. \/ StoreStep \/ CommitReturns \/ StoreKilled \/ StorePowerLoss
        \/ \E r \in Route : Corrupt(r)
    BY <1>3 DEF Storing, StoreDone, DaemonKilled, PowerLoss, MediumFails
  <2> QED BY <1>1, <2>1, VouchedStore
<1>4. CASE \/ \E r \in Route : OnRouteReport(r)
           \/ Announce \/ ForgetAnnounced \/ DropAnswer \/ HandleSnapshotCommand
           \/ DriverDown \/ DriverUp \/ UNCHANGED vars
           \/ \E f \in AppFrame : OnSnapshotCommand(f) \/ RefuseUnsent(f)
  <2>1. UNCHANGED storeVars
    BY <1>4 DEF OnRouteReport, Announce, ForgetAnnounced, DropAnswer, HandleSnapshotCommand,
                DriverDown, DriverUp, OnSnapshotCommand, RefuseUnsent, vars
  <2> QED BY <1>1, <2>1, VouchedStore
<1>5. CASE Timeout
  <2>1. UNCHANGED storeVars
    BY <1>5 DEF Timeout, AnnounceAnswered, CommandAnswered
  <2> QED BY <1>1, <2>1, VouchedStore
<1> QED BY <1>2, <1>3, <1>4, <1>5 DEF Next

LEMMA AcceptInvariant == Spec => [](TypeInv /\ RequestInv /\ AcceptInv)
<1>1. Init => AcceptInv
  <2> SUFFICES ASSUME Init PROVE AcceptInv
    OBVIOUS
  <2>1. CopyOnItsWay /\ AnswerVouches
    BY DEF Init, CopyOnItsWay, AnswerVouches
  <2>2. ASSUME NEW r \in Route
        PROVE  durable[r].current \subseteq Vouched /\ durable[r].previous \subseteq Vouched
    <3>1. PICK c \in Kept \cup {NoSnapshot} : files[r] = [current |-> c, previous |-> c]
      BY DEF Init, StoreInit
    <3>2. durable[r].current = {c} /\ durable[r].previous = {c}
      <4>1. durable = [q \in Route |-> [current |-> {files[q].current},
                                        previous |-> {files[q].previous}]]
        BY DEF Init, StoreInit
      <4>2. files[r].current = c /\ files[r].previous = c
        BY <3>1
      <4> QED BY <4>1, <4>2
    <3>3. c = NoSnapshot \/ c \in accepted
      <4>1. files[r].current \in {files[q].current : q \in Route} /\ files[r].current = c
        BY <3>1
      <4>2. accepted = {files[q].current : q \in Route} \ {NoSnapshot}
        BY DEF Init
      <4> QED BY <4>1, <4>2
    <3>4. c \in Vouched
      BY <3>3 DEF Vouched
    <3> QED BY <3>2, <3>4
  <2>3. StoreVouched
    BY <2>2 DEF Init, StoreInit, Idle, StoreVouched, Vouched
  <2> QED BY <2>1, <2>3 DEF AcceptInv
<1>2. TypeInv /\ RequestInv /\ AcceptInv /\ [Next]_vars => AcceptInv'
  BY CopyNext, AnswersNext, StoredNext DEF AcceptInv
<1> QED BY <1>1, <1>2, RequestInvariant, PTL DEF Spec

\* Whatever DaemonRuntime files, the driver accepted, or its bytes could not be
\* sent to a driver that stayed connected: neither a late answer, a timeout, a crash
\* nor a second transfer makes CommitStagedAppSnapshot store what was refused.
THEOREM StoredAcceptedCorrect == Spec => []StoredAcceptedOrUnsent
<1>1. TypeInv /\ AcceptInv => StoredAcceptedOrUnsent
  <2> SUFFICES ASSUME TypeInv, AcceptInv, NEW r \in Route
               PROVE  Possible(r) \subseteq accepted \cup unsent \cup {NoSnapshot}
    BY DEF StoredAcceptedOrUnsent
  <2>1. ASSUME NEW c \in durable[r].current, NEW p \in durable[r].previous
        PROVE  Loaded(c, p, r) \in accepted \cup unsent \cup {NoSnapshot}
    <3>1. c \in Vouched /\ p \in Vouched
      BY DEF AcceptInv, StoreVouched
    <3> QED BY <3>1 DEF Loaded, Valid, Vouched
  <2> QED BY <2>1 DEF Possible
<1> QED BY <1>1, AcceptInvariant, PTL

-----------------------------------------------------------------------------
(* What the App is told *)

On(type) == \E i \in 1 .. Len(wire) : wire[i].type = type

\* A transfer the App may be told of: BEGIN was accepted and nothing refused since.
Opened == clean # NoSnapshot /\ pc # "store" /\ ~(pc = "wait" /\ request.type = "BEGIN")

\* The App's transfer is the daemon's copy, for the route the daemon has.
CleanIsCopy ==
    clean # NoSnapshot =>
        /\ app_staged.total = clean /\ clean.route = route
        /\ ~(pc = "wait" /\ request.type = "ABORT")

\* A driver that accepted BEGIN has nothing more to read and holds no bytes.
CleanBegun ==
    clean # NoSnapshot /\ pc = "wait" /\ request.type = "BEGIN" =>
        \A i \in 1 .. Len(answers) : answers[i].id = request.id /\ answers[i].ok =>
            /\ wire = <<>>
            /\ driver.staging => driver.staged = [total |-> clean, bytes |-> NoSnapshot]

\* The driver's transfer when no chunk, one chunk or more were sent.
NoneSent ==
    ~On("CHUNK") /\ driver.staged = [total |-> app_staged.total, bytes |-> NoSnapshot]

OneSent ==
    /\ driver.staged.total = app_staged.total
    /\ \/ ~On("CHUNK") /\ driver.staged.bytes = app_staged.bytes
       \/ /\ driver.staged.bytes = NoSnapshot
          /\ \E i \in 1 .. Len(wire) :
                /\ wire[i].type = "CHUNK" /\ wire[i].data = app_staged.bytes
                /\ \A j \in 1 .. Len(wire) : wire[j].type = "CHUNK" => j = i

MoreSent ==
    \E i \in 1 .. Len(wire) :
        /\ wire[i].type = "CHUNK"
        /\ \/ driver.staged.bytes # NoSnapshot
           \/ \E k \in 1 .. Len(wire) : k < i /\ wire[k].type = "CHUNK"

\* Both sides stage the same transfer: a driver that does not follow has dropped
\* its own, or will when it reads the chunk too many.
SameTransfer ==
    Opened =>
        /\ ~On("BEGIN")
        /\ driver.staging =>
            /\ app_staging_ /\ app_staged.bytes = NoSnapshot => NoneSent
            /\ app_staging_ /\ app_staged.bytes # NoSnapshot => OneSent
            /\ ~app_staging_ => MoreSent

\* An accepted COMMIT finds the daemon's copy complete.
CleanCommit ==
    clean # NoSnapshot /\ pc = "wait" /\ request.type = "COMMIT" =>
        \A i \in 1 .. Len(answers) : answers[i].id = request.id /\ answers[i].ok =>
            app_staging_ /\ app_staged.bytes = clean

\* The Commit under way is of the App's transfer, and the medium has not failed it.
CleanStored ==
    pc = "store" =>
        /\ told = NoSnapshot
        /\ clean # NoSnapshot =>
            /\ commit.snapshot = clean
            /\ commit.at = "sync" => files[Target].current = clean
            /\ commit.at = "done" /\ commit.result = "stored" =>
                    durable[Target].current = {clean}

ToldInv ==
    /\ CleanIsCopy /\ CleanBegun /\ SameTransfer /\ CleanCommit /\ CleanStored
    /\ ToldMeansStored

\* The driver reads a command of the transfer, or one that is not of any.
LEMMA SentHandled ==
    ASSUME TypeInv, HandleSnapshotCommand, wire[1].type \in {"ANNOUNCE", "CHUNK"},
           driver'.staging
    PROVE  /\ NoneSent => NoneSent'
           /\ OneSent => OneSent'
           /\ MoreSent => MoreSent'
<1>1. UNCHANGED <<app_staging_, app_staged, clean, pc, request>>
  BY DEF HandleSnapshotCommand
<1>2. PICK o \in Outcomes(wire[1]) : driver' = o.driver
  BY HandleFacts
<1>3. /\ Len(wire') = Len(wire) - 1 /\ Len(wire) \in Nat /\ Len(wire) >= 1
      /\ \A i \in 1 .. Len(wire) - 1 : wire'[i] = wire[i + 1]
      /\ wire[1] \in Message /\ 1 \in 1 .. Len(wire)
  BY HandleFacts
<1>4. \A i \in 1 .. Len(wire') : i + 1 \in 1 .. Len(wire) /\ wire'[i] = wire[i + 1]
  BY <1>3
<1>5. \A i \in 1 .. Len(wire) : i # 1 =>
            i - 1 \in 1 .. Len(wire') /\ wire'[i - 1] = wire[i] /\ i \in Nat
  BY <1>3
<1>6. CASE wire[1].type = "ANNOUNCE"
  <2>1. driver.staging /\ driver'.staged = driver.staged
    BY <1>2, <1>3, <1>6, OutcomeStaging
  <2>2. ASSUME ~On("CHUNK") PROVE ~On("CHUNK")'
    BY <1>4, <2>2 DEF On
  <2>3. NoneSent => NoneSent'
    BY <1>1, <2>1, <2>2 DEF NoneSent
  <2>4. ASSUME OneSent PROVE OneSent'
    <3>1. CASE ~On("CHUNK") /\ driver.staged.bytes = app_staged.bytes
      BY <1>1, <2>1, <2>2, <2>4, <3>1 DEF OneSent
    <3>2. ASSUME driver.staged.bytes = NoSnapshot, NEW i \in 1 .. Len(wire),
                 wire[i].type = "CHUNK", wire[i].data = app_staged.bytes,
                 \A j \in 1 .. Len(wire) : wire[j].type = "CHUNK" => j = i
          PROVE  OneSent'
      <4>1. i # 1 /\ i - 1 \in 1 .. Len(wire') /\ wire'[i - 1] = wire[i]
        BY <1>5, <1>6, <3>2
      <4>2. \A j \in 1 .. Len(wire') : wire'[j].type = "CHUNK" => j = i - 1
        <5> SUFFICES ASSUME NEW j \in 1 .. Len(wire'), wire'[j].type = "CHUNK" PROVE j = i - 1
          OBVIOUS
        <5>1. j + 1 = i
          BY <1>4, <3>2
        <5> QED BY <5>1
      <4> QED BY <1>1, <2>1, <2>4, <3>2, <4>1, <4>2 DEF OneSent
    <3> QED BY <2>4, <3>1, <3>2 DEF OneSent
  <2>5. ASSUME MoreSent PROVE MoreSent'
    <3>1. PICK i \in 1 .. Len(wire) :
            /\ wire[i].type = "CHUNK"
            /\ \/ driver.staged.bytes # NoSnapshot
               \/ \E k \in 1 .. Len(wire) : k < i /\ wire[k].type = "CHUNK"
      BY <2>5 DEF MoreSent
    <3>2. i # 1 /\ i - 1 \in 1 .. Len(wire') /\ wire'[i - 1] = wire[i]
      BY <1>5, <1>6, <3>1
    <3>3. CASE driver.staged.bytes # NoSnapshot
      BY <2>1, <3>1, <3>2, <3>3 DEF MoreSent
    <3>4. ASSUME NEW k \in 1 .. Len(wire), k < i, wire[k].type = "CHUNK" PROVE MoreSent'
      <4>1. k # 1 /\ k - 1 \in 1 .. Len(wire') /\ wire'[k - 1] = wire[k] /\ k - 1 < i - 1
        BY <1>5, <1>6, <3>4
      <4> QED BY <3>1, <3>2, <3>4, <4>1 DEF MoreSent
    <3> QED BY <3>1, <3>3, <3>4
  <2> QED BY <2>3, <2>4, <2>5
<1>7. CASE wire[1].type = "CHUNK"
  <2>1. /\ driver.staging /\ driver.staged.bytes = NoSnapshot
        /\ driver'.staged.bytes = wire[1].data /\ driver'.staged.total = driver.staged.total
    BY <1>2, <1>3, <1>7, OutcomeStaging
  <2>2. wire[1].data # NoSnapshot /\ On("CHUNK")
    BY <1>3, <1>7 DEF On, Message, Chunk, Content
  <2>3. ~NoneSent
    BY <2>2 DEF NoneSent
  <2>4. ASSUME OneSent PROVE OneSent'
    <3>1. PICK i \in 1 .. Len(wire) :
            /\ wire[i].type = "CHUNK" /\ wire[i].data = app_staged.bytes
            /\ \A j \in 1 .. Len(wire) : wire[j].type = "CHUNK" => j = i
      BY <2>2, <2>4 DEF OneSent
    <3>2. i = 1
      BY <1>3, <1>7, <3>1
    <3>3. ~On("CHUNK")'
      <4> SUFFICES ASSUME NEW j \in 1 .. Len(wire'), wire'[j].type = "CHUNK" PROVE FALSE
        BY DEF On
      <4>1. j + 1 = 1
        BY <1>4, <3>1, <3>2
      <4> QED BY <4>1
    <3> QED BY <1>1, <2>1, <2>4, <3>1, <3>2, <3>3 DEF OneSent
  <2>5. ASSUME MoreSent PROVE MoreSent'
    <3>1. PICK i \in 1 .. Len(wire) :
            /\ wire[i].type = "CHUNK"
            /\ \E k \in 1 .. Len(wire) : k < i /\ wire[k].type = "CHUNK"
      BY <2>1, <2>5 DEF MoreSent
    <3>2. i # 1
      BY <1>3, <3>1
    <3>3. i - 1 \in 1 .. Len(wire') /\ wire'[i - 1] = wire[i]
      BY <1>5, <3>2
    <3> QED BY <2>1, <2>2, <3>1, <3>3 DEF MoreSent
  <2> QED BY <2>3, <2>4, <2>5
<1> QED BY <1>6, <1>7

\* A command that is not of the transfer is sent.
LEMMA SentOther ==
    ASSUME TypeInv, NEW m \in Message, wire' = Append(wire, m),
           m.type \notin {"BEGIN", "CHUNK"},
           UNCHANGED <<driver, app_staging_, app_staged, clean>>
    PROVE  /\ ~On("BEGIN") => ~On("BEGIN")'
           /\ NoneSent => NoneSent'
           /\ OneSent => OneSent'
           /\ MoreSent => MoreSent'
<1>1. /\ Len(wire') = Len(wire) + 1 /\ Len(wire) \in Nat
      /\ \A i \in 1 .. Len(wire) : wire'[i] = wire[i]
      /\ wire'[Len(wire) + 1] = m
  BY ConnectionTyped, AppendFacts
<1>2. ASSUME NEW i \in 1 .. Len(wire'), wire'[i].type \in {"BEGIN", "CHUNK"}
      PROVE  i \in 1 .. Len(wire) /\ wire'[i] = wire[i]
  BY <1>1, <1>2
<1>3. \A i \in 1 .. Len(wire) : i \in 1 .. Len(wire') /\ wire'[i] = wire[i]
  BY <1>1
<1>4. ~On("BEGIN") => ~On("BEGIN")'
  BY <1>2 DEF On
<1>5. ~On("CHUNK") => ~On("CHUNK")'
  BY <1>2 DEF On
<1>6. NoneSent => NoneSent'
  BY <1>5 DEF NoneSent
<1>7. ASSUME OneSent PROVE OneSent'
  <2>1. CASE ~On("CHUNK") /\ driver.staged.bytes = app_staged.bytes
    BY <1>5, <1>7, <2>1 DEF OneSent
  <2>2. ASSUME driver.staged.bytes = NoSnapshot, NEW i \in 1 .. Len(wire),
               wire[i].type = "CHUNK", wire[i].data = app_staged.bytes,
               \A j \in 1 .. Len(wire) : wire[j].type = "CHUNK" => j = i
        PROVE  OneSent'
    <3>1. i \in 1 .. Len(wire') /\ wire'[i] = wire[i]
      BY <1>3
    <3>2. \A j \in 1 .. Len(wire') : wire'[j].type = "CHUNK" => j = i
      BY <1>2, <2>2
    <3> QED BY <1>7, <2>2, <3>1, <3>2 DEF OneSent
  <2> QED BY <1>7, <2>1, <2>2 DEF OneSent
<1>8. MoreSent => MoreSent'
  BY <1>3 DEF MoreSent
<1> QED BY <1>4, <1>6, <1>7, <1>8

\* A chunk is staged and sent: the first, the second, or one too many.
LEMMA SentChunk ==
    ASSUME TypeInv, NEW f \in AppFrame, f.type = "CHUNK", Stage(f),
           NEW m \in Message, m.type = "CHUNK", m.data = f.data, wire' = Append(wire, m),
           UNCHANGED driver
    PROVE  /\ ~On("BEGIN") => ~On("BEGIN")'
           /\ \/ /\ app_staging_ /\ app_staged.bytes = NoSnapshot /\ (NoneSent => OneSent')
                 /\ app_staging_' /\ app_staged'.bytes = f.data /\ f.data # NoSnapshot
              \/ /\ app_staging_ /\ app_staged.bytes # NoSnapshot /\ (OneSent => MoreSent')
                 /\ ~app_staging_' /\ app_staged' = app_staged
              \/ /\ ~app_staging_ /\ (MoreSent => MoreSent')
                 /\ ~app_staging_' /\ app_staged' = app_staged
<1>1. /\ Len(wire') = Len(wire) + 1 /\ Len(wire) \in Nat
      /\ \A i \in 1 .. Len(wire) : wire'[i] = wire[i]
      /\ wire'[Len(wire) + 1] = m
  BY ConnectionTyped, AppendFacts
<1>2. PICK n \in 1 .. Len(wire') : n = Len(wire) + 1 /\ wire'[n] = m
  BY <1>1
<1>3. \A i \in 1 .. Len(wire) : i \in 1 .. Len(wire') /\ wire'[i] = wire[i] /\ i < n
  BY <1>1, <1>2
<1>4. \A i \in 1 .. Len(wire') : i # n => i \in 1 .. Len(wire) /\ wire'[i] = wire[i]
  BY <1>1, <1>2
<1>5. ~On("BEGIN") => ~On("BEGIN")'
  BY <1>2, <1>4 DEF On
<1>6. DaemonTyped
  BY DEF TypeInv, RelayTyped
<1>7. f.data # NoSnapshot
  BY DEF AppFrame, Frame, Chunk, Content
<1>8. ASSUME NoneSent, app_staged'.bytes = f.data, app_staged'.total = app_staged.total
      PROVE  OneSent'
  <2>1. driver.staged.total = app_staged.total /\ driver.staged.bytes = NoSnapshot
    BY <1>8 DEF NoneSent
  <2>2. \A j \in 1 .. Len(wire') : wire'[j].type = "CHUNK" => j = n
    BY <1>4, <1>8 DEF NoneSent, On
  <2> QED BY <1>2, <1>8, <2>1, <2>2 DEF OneSent
<1>9. ASSUME OneSent, app_staged.bytes # NoSnapshot PROVE MoreSent'
  <2>1. \/ driver.staged.bytes # NoSnapshot
        \/ \E k \in 1 .. Len(wire') : k < n /\ wire'[k].type = "CHUNK"
    BY <1>3, <1>9 DEF OneSent
  <2> QED BY <1>2, <2>1 DEF MoreSent
<1>10. MoreSent => MoreSent'
  BY <1>3 DEF MoreSent
<1> QED BY <1>5, <1>6, <1>7, <1>8, <1>9, <1>10, StageEffect

LEMMA TransferNext ==
    TypeInv /\ RequestInv /\ ToldInv /\ [Next]_vars => SameTransfer'
<1> SUFFICES ASSUME TypeInv, RequestInv, ToldInv, [Next]_vars, Opened' PROVE SameTransfer'
  BY DEF SameTransfer
<1>0. SameTransfer
  BY DEF ToldInv
<1>1. CASE HandleSnapshotCommand
  <2>1. Opened /\ UNCHANGED <<app_staging_, app_staged>>
    BY <1>1 DEF HandleSnapshotCommand, Opened
  <2>2. /\ \A i \in 1 .. Len(wire') : i + 1 \in 1 .. Len(wire) /\ wire'[i] = wire[i + 1]
        /\ wire[1] \in Message /\ 1 \in 1 .. Len(wire)
        /\ \E o \in Outcomes(wire[1]) : driver' = o.driver
    <3>1. /\ Len(wire') = Len(wire) - 1 /\ Len(wire) \in Nat /\ Len(wire) >= 1
          /\ \A i \in 1 .. Len(wire) - 1 : wire'[i] = wire[i + 1]
          /\ wire[1] \in Message
          /\ \E o \in Outcomes(wire[1]) : driver' = o.driver
      BY <1>1, HandleFacts
    <3> QED BY <3>1
  <2>3. ~On("BEGIN")' /\ wire[1].type # "BEGIN"
    BY <1>0, <2>1, <2>2 DEF SameTransfer, On
  <2>4. ASSUME driver'.staging
        PROVE  /\ driver.staging /\ (NoneSent => NoneSent')
               /\ (OneSent => OneSent') /\ (MoreSent => MoreSent')
    <3>1. PICK o \in Outcomes(wire[1]) : driver' = o.driver
      BY <2>2
    <3>2. wire[1].type \in {"ANNOUNCE", "CHUNK"}
      BY <2>2, <2>3, <2>4, <3>1, OutcomeStaging DEF Message
    <3>3. driver.staging
      BY <2>2, <2>4, <3>1, <3>2, OutcomeStaging
    <3> QED BY <1>1, <2>4, <3>2, <3>3, SentHandled
  <2> QED BY <1>0, <2>1, <2>3, <2>4 DEF SameTransfer
<1>2. CASE Announce
  <2> DEFINE m == [id |-> next_request_id_, type |-> "ANNOUNCE", data |-> route]
  <2>1. m \in Message /\ m.type = "ANNOUNCE"
    BY DEF TypeInv, RelayTyped, DaemonTyped, Message
  <2>2. wire' = Append(wire, m) /\ UNCHANGED <<driver, app_staging_, app_staged, clean>>
        /\ Opened
    BY <1>2 DEF Announce, Relay, Free, Opened
  <2> HIDE DEF m
  <2>3. /\ ~On("BEGIN") => ~On("BEGIN")'
        /\ (NoneSent => NoneSent') /\ (OneSent => OneSent') /\ (MoreSent => MoreSent')
    BY <2>1, <2>2, SentOther
  <2> QED BY <1>0, <2>2, <2>3 DEF SameTransfer
<1>3. ASSUME NEW f \in AppFrame, OnSnapshotCommand(f) PROVE SameTransfer'
  <2> DEFINE m == [id |-> next_request_id_, type |-> f.type, data |-> f.data]
  <2>1. DaemonTyped /\ Stage(f) /\ next_request_id_ \in Nat
    BY <1>3 DEF OnSnapshotCommand, TypeInv, RelayTyped, DaemonTyped
  <2>2. m \in Message /\ m.type = f.type /\ m.data = f.data
    BY <2>1, StageTyped DEF Message
  <2>3. wire' = Append(wire, m) /\ UNCHANGED driver
    BY <1>3 DEF OnSnapshotCommand, Relay
  <2> HIDE DEF m
  <2>4. f.type # "BEGIN" /\ f.type # "ABORT" /\ clean' = clean /\ Opened
    BY <1>3 DEF OnSnapshotCommand, Relay, Free, Opened
  <2>5. CASE f.type = "CHUNK"
    <3>1. /\ ~On("BEGIN") => ~On("BEGIN")'
          /\ \/ /\ app_staging_ /\ app_staged.bytes = NoSnapshot /\ (NoneSent => OneSent')
                /\ app_staging_' /\ app_staged'.bytes = f.data /\ f.data # NoSnapshot
             \/ /\ app_staging_ /\ app_staged.bytes # NoSnapshot /\ (OneSent => MoreSent')
                /\ ~app_staging_' /\ app_staged' = app_staged
             \/ /\ ~app_staging_ /\ (MoreSent => MoreSent')
                /\ ~app_staging_' /\ app_staged' = app_staged
      BY <2>1, <2>2, <2>3, <2>5, SentChunk
    <3> QED BY <1>0, <2>3, <2>4, <3>1 DEF SameTransfer
  <2>6. CASE f.type # "CHUNK"
    <3>1. f.type = "COMMIT" /\ UNCHANGED <<app_staging_, app_staged>>
      <4>1. f.type = "COMMIT"
        BY <2>4, <2>6 DEF AppFrame, Frame
      <4> QED BY <2>1, <4>1 DEF Stage
    <3>2. /\ ~On("BEGIN") => ~On("BEGIN")'
          /\ (NoneSent => NoneSent') /\ (OneSent => OneSent') /\ (MoreSent => MoreSent')
      BY <2>2, <2>3, <2>4, <3>1, SentOther
    <3> QED BY <1>0, <2>3, <2>4, <3>1, <3>2 DEF SameTransfer
  <2> QED BY <2>5, <2>6
<1>4. CASE \E f \in AppFrame : RefuseUnsent(f)
  BY <1>4 DEF RefuseUnsent, Opened
<1>5. CASE TakeAnswer
  <2>1. UNCHANGED <<wire, driver>>
    BY <1>5, Zenon DEF TakeAnswer
  <2>2. CASE AnnounceAnswered(Head(answers).ok)
    <3>1. pc = "wait"
      BY <1>5, Zenon DEF TakeAnswer
    <3>2. Opened /\ UNCHANGED <<app_staging_, app_staged, clean>>
      BY <2>2, <3>1 DEF AnnounceAnswered, Opened
    <3> QED BY <1>0, <2>1, <3>2 DEF SameTransfer, On, NoneSent, OneSent, MoreSent
  <2>3. CASE CommandAnswered(Head(answers).ok)
    <3>0. clean' # NoSnapshot /\ clean' = IF Head(answers).ok THEN clean ELSE NoSnapshot
      <4>1. clean' # NoSnapshot
        BY DEF Opened
      <4> QED BY <2>3, <4>1, Zenon DEF CommandAnswered
    <3>1. Head(answers).ok /\ clean' = clean /\ clean # NoSnapshot
      BY <3>0
    <3>2. pc = "wait" /\ answers # <<>> /\ Head(answers).id = request.id
      BY <1>5 DEF TakeAnswer, Answered
    <3>3. request.type = "BEGIN"
      BY <2>3, <3>1, <3>2 DEF CommandAnswered, ToldInv, CleanIsCopy
    <3>4. Head(answers) = answers[1] /\ 1 \in 1 .. Len(answers)
      BY <3>2, ConnectionTyped, TailFacts
    <3>5. /\ wire = <<>>
          /\ driver.staging => driver.staged = [total |-> clean, bytes |-> NoSnapshot]
      BY <3>1, <3>2, <3>3, <3>4 DEF ToldInv, CleanBegun
    <3>6. app_staging_ /\ app_staged.bytes = NoSnapshot
      BY <3>2, <3>3 DEF RequestInv, Awaited
    <3>7. UNCHANGED <<app_staging_, app_staged>>
      BY <2>3, <3>1, <3>3 DEF CommandAnswered, Clears
    <3>8. app_staging_' /\ app_staged'.bytes = NoSnapshot
      BY <3>6, <3>7
    <3>9. app_staged'.total = clean
      BY <3>1, <3>7 DEF ToldInv, CleanIsCopy
    <3> QED BY <2>1, <3>5, <3>8, <3>9 DEF SameTransfer, On, NoneSent
  <2>4. CASE CommitStaged
    BY <2>4 DEF CommitStaged, Opened
  <2> QED BY <1>5, <2>2, <2>3, <2>4 DEF TakeAnswer
<1>6. CASE Timeout
  <2>1. UNCHANGED <<wire, driver>> /\ pc = "wait"
    BY <1>6, Zenon DEF Timeout
  <2>2. ~CommandAnswered(FALSE)
    <3>1. clean' # NoSnapshot
      BY DEF Opened
    <3> QED BY <3>1, Zenon DEF CommandAnswered
  <2>3. AnnounceAnswered(FALSE)
    BY <1>6, <2>2, Zenon DEF Timeout
  <2>4. Opened /\ UNCHANGED <<app_staging_, app_staged, clean>>
    BY <2>1, <2>3 DEF AnnounceAnswered, Opened
  <2> QED BY <1>0, <2>1, <2>4 DEF SameTransfer, On, NoneSent, OneSent, MoreSent
<1>7. CASE DriverDown \/ DriverUp
  <2>1. ~driver'.staging
    BY <1>7 DEF DriverDown, DriverUp, NewDriver
  <2>2. wire' = <<>>
    BY <1>7 DEF DriverDown, DriverUp, NewDriver, TypeInv, RelayTyped, DriverTyped
  <2> QED BY <2>1, <2>2 DEF SameTransfer, On
<1>8. CASE StoreDone \/ DaemonKilled \/ PowerLoss \/ \E r \in Route : OnRouteReport(r)
  BY <1>8 DEF StoreDone, DaemonKilled, PowerLoss, DaemonStarts, OnRouteReport, NewDriver, Opened
<1>9. CASE ForgetAnnounced \/ DropAnswer \/ Storing \/ MediumFails \/ UNCHANGED vars
  <2>1. /\ UNCHANGED <<wire, driver, app_staging_, app_staged, pc, request>>
        /\ clean' \in {clean, NoSnapshot}
    BY <1>9 DEF ForgetAnnounced, DropAnswer, Storing, relayVars, MediumFails, vars
  <2>2. Opened /\ clean' = clean
    BY <2>1 DEF Opened
  <2> QED BY <1>0, <2>1, <2>2 DEF SameTransfer, On, NoneSent, OneSent, MoreSent
<1> QED BY <1>1, <1>2, <1>3, <1>4, <1>5, <1>6, <1>7, <1>8, <1>9 DEF Next

\* Only BEGIN opens a transfer, ABORT and every refusal close it.
LEMMA CleanNext == TypeInv /\ CleanIsCopy /\ [Next]_vars => CleanIsCopy'
<1> SUFFICES ASSUME TypeInv, CleanIsCopy, [Next]_vars, clean' # NoSnapshot PROVE CleanIsCopy'
  BY DEF CleanIsCopy
<1>0. app_staged \in Transfer /\ DaemonTyped
  BY DEF TypeInv, RelayTyped, DaemonTyped
<1>1. ASSUME NEW f \in AppFrame, OnSnapshotCommand(f) PROVE CleanIsCopy'
  <2>1. /\ Stage(f) /\ route' = route
        /\ clean' = CASE f.type = "BEGIN" -> IF f.data.route = route THEN f.data ELSE NoSnapshot
                      [] f.type = "ABORT" -> NoSnapshot
                      [] OTHER -> clean
        /\ pc' = IF f.type = "CHUNK" THEN "idle" ELSE "wait"
        /\ f.type # "CHUNK" => request'.type = f.type
    BY <1>1 DEF OnSnapshotCommand, Relay
  <2>2. f.type # "ABORT"
    BY <2>1
  <2>3. CASE f.type = "BEGIN"
    BY <2>1, <2>3 DEF CleanIsCopy, Stage
  <2>4. CASE f.type # "BEGIN"
    <3>1. clean' = clean
      BY <2>1, <2>2, <2>4
    <3>2. app_staged'.total = app_staged.total
      BY <1>0, <2>1, <2>4, StageEffect
    <3>3. ~(pc' = "wait" /\ request'.type = "ABORT")
      BY <2>1, <2>2
    <3> QED BY <2>1, <3>1, <3>2, <3>3 DEF CleanIsCopy
  <2> QED BY <2>3, <2>4
<1>2. CASE TakeAnswer \/ Timeout
  <2>1. \E ok : AnnounceAnswered(ok) \/ CommandAnswered(ok) \/ CommitStaged
    BY <1>2, Zenon DEF TakeAnswer, Timeout
  <2>2. route' = route
    BY <1>2, Zenon DEF TakeAnswer, Timeout
  <2>3. pc' # "wait" /\ clean' \in {clean, NoSnapshot}
    BY <2>1 DEF AnnounceAnswered, CommandAnswered, CommitStaged
  <2>4. app_staged'.total = app_staged.total
    BY <1>0, <2>1 DEF AnnounceAnswered, CommandAnswered, CommitStaged, Transfer
  <2> QED BY <2>2, <2>3, <2>4 DEF CleanIsCopy
<1>3. CASE Announce
  BY <1>3 DEF Announce, Relay, CleanIsCopy
<1>4. CASE \/ \E r \in Route : OnRouteReport(r)
           \/ \E f \in AppFrame : RefuseUnsent(f)
           \/ StoreDone \/ DaemonKilled \/ PowerLoss
  BY <1>4 DEF OnRouteReport, RefuseUnsent, StoreDone, DaemonKilled, PowerLoss, DaemonStarts,
              NewDriver
<1>5. CASE \/ ForgetAnnounced \/ DropAnswer \/ Storing \/ HandleSnapshotCommand
           \/ DriverDown \/ DriverUp \/ MediumFails \/ UNCHANGED vars
  <2>1. UNCHANGED <<app_staged, route, pc, request>> /\ clean' \in {clean, NoSnapshot}
    BY <1>5 DEF ForgetAnnounced, DropAnswer, Storing, relayVars, HandleSnapshotCommand,
                DriverDown, DriverUp, NewDriver, MediumFails, vars
  <2> QED BY <2>1 DEF CleanIsCopy
<1> QED BY <1>1, <1>2, <1>3, <1>4, <1>5 DEF Next

\* An answer to the awaited request was there already, or the driver read the
\* request just now, as the last thing it was sent.
LEMMA AwaitedAnswer ==
    ASSUME TypeInv, RequestInv, [Next]_vars, pc' = "wait",
           NEW i \in 1 .. Len(answers'), answers'[i].id = request'.id
    PROVE  /\ UNCHANGED <<pc, request, app_staging_, app_staged, clean>>
           /\ \/ /\ \E k \in 1 .. Len(answers) : answers'[i] = answers[k]
                 /\ UNCHANGED <<wire, driver>> \/ wire # <<>>
              \/ /\ Len(wire) = 1 /\ wire' = <<>>
                 /\ wire[1] \in Message /\ wire[1].type = request.type
                 /\ request.type = "BEGIN" => wire[1].data = app_staged.total
                 /\ \E o \in Outcomes(wire[1]) : driver' = o.driver /\ o.ok = answers'[i].ok
<1>0. /\ answers \in Seq(Answer) /\ Len(answers) \in Nat /\ next_request_id_ \in Nat
      /\ wire \in Seq(Message) /\ Len(wire) \in Nat
      /\ \A k \in 1 .. Len(answers) :
            answers[k].id \in Nat /\ answers[k].id < next_request_id_
  BY ConnectionTyped DEF RequestInv, Numbered
<1>1. CASE Announce \/ \E f \in AppFrame : OnSnapshotCommand(f)
  <2>1. /\ answers' = answers
        /\ \E type : /\ pc' = IF type = "CHUNK" THEN "idle" ELSE "wait"
                     /\ request' = IF type = "CHUNK" THEN NoRequest
                                   ELSE [id |-> next_request_id_, type |-> type]
    BY <1>1 DEF Announce, OnSnapshotCommand, Relay
  <2>2. request'.id = next_request_id_
    BY <2>1
  <2> QED BY <1>0, <2>1, <2>2
<1>2. CASE DropAnswer
  <2>1. /\ Len(answers') = Len(answers) - 1
        /\ \A k \in 1 .. Len(answers) - 1 : answers'[k] = answers[k + 1]
    BY <1>0, <1>2, TailFacts DEF DropAnswer
  <2>2. i + 1 \in 1 .. Len(answers) /\ answers'[i] = answers[i + 1]
    BY <1>0, <2>1
  <2>3. UNCHANGED <<pc, request, app_staging_, app_staged, clean, wire, driver>>
    BY <1>2 DEF DropAnswer
  <2> QED BY <2>2, <2>3
<1>3. CASE HandleSnapshotCommand
  <2>1. UNCHANGED <<pc, request, app_staging_, app_staged, clean>> /\ wire # <<>>
    BY <1>3 DEF HandleSnapshotCommand
  <2>2. PICK o \in Outcomes(wire[1]) :
            /\ driver' = o.driver
            /\ \/ answers' = answers
               \/ \E a \in Answer : a.id = wire[1].id /\ a.ok = o.ok
                                  /\ answers' = Append(answers, a)
    BY <1>3, HandleFacts
  <2>3. CASE answers' = answers
    BY <2>1, <2>3
  <2>4. ASSUME NEW a \in Answer, a.id = wire[1].id, a.ok = o.ok, answers' = Append(answers, a)
        PROVE  \/ \E k \in 1 .. Len(answers) : answers'[i] = answers[k]
               \/ /\ Len(wire) = 1 /\ wire' = <<>>
                  /\ wire[1] \in Message /\ wire[1].type = request.type
                  /\ request.type = "BEGIN" => wire[1].data = app_staged.total
                  /\ \E p \in Outcomes(wire[1]) : driver' = p.driver /\ p.ok = answers'[i].ok
    <3>1. /\ Len(answers') = Len(answers) + 1
          /\ \A k \in 1 .. Len(answers) : answers'[k] = answers[k]
          /\ answers'[Len(answers) + 1] = a
      BY <1>0, <2>4, AppendFacts
    <3>2. CASE i \in 1 .. Len(answers)
      BY <3>1, <3>2
    <3>3. CASE i = Len(answers) + 1
      <4>1. wire[1].id = request.id /\ pc = "wait"
        BY <2>1, <2>4, <3>1, <3>3
      <4>2. /\ Len(wire) = 1 /\ wire[1].type = request.type
            /\ request.type = "BEGIN" => wire[1].data = app_staged.total
        BY <2>1, <4>1, AwaitedIsLast
      <4>3. wire[1] \in Message /\ Len(wire') = Len(wire) - 1
        BY <1>3, HandleFacts
      <4>4. wire' = <<>>
        <5>1. wire' = Tail(wire)
          BY <1>3 DEF HandleSnapshotCommand
        <5>2. wire' \in Seq(Message) /\ Len(wire') = 0
          BY <1>0, <2>1, <4>2, <4>3, <5>1, TailFacts
        <5> QED BY <5>2
      <4>5. answers'[i].ok = o.ok
        BY <2>4, <3>1, <3>3
      <4> QED BY <2>2, <4>2, <4>3, <4>4, <4>5
    <3> QED BY <1>0, <3>1, <3>2, <3>3
  <2> QED BY <2>1, <2>2, <2>3, <2>4
<1>4. CASE UNCHANGED vars
  BY <1>4 DEF vars, relayVars
<1>5. CASE MediumFails
  <2>1. UNCHANGED <<pc, request, app_staging_, app_staged, wire, driver, answers>>
        /\ clean' = IF pc = "store" THEN NoSnapshot ELSE clean
    BY <1>5 DEF MediumFails
  <2> QED BY <2>1
<1>6. CASE DriverUp
  <2>1. answers = <<>> /\ answers' = answers
    BY <1>6 DEF DriverUp, TypeInv, RelayTyped, DriverTyped, NewDriver
  <2> QED BY <2>1
<1>7. CASE DriverDown \/ DaemonKilled \/ PowerLoss
  <2>1. answers' = <<>>
    BY <1>7 DEF DriverDown, DaemonKilled, PowerLoss, DaemonStarts, NewDriver
  <2> QED BY <2>1
<1>8. CASE \/ \E r \in Route : OnRouteReport(r)
           \/ \E f \in AppFrame : RefuseUnsent(f)
           \/ ForgetAnnounced \/ Storing \/ StoreDone
  BY <1>8 DEF OnRouteReport, RefuseUnsent, ForgetAnnounced, Storing, relayVars, StoreDone, Free
<1>9. CASE TakeAnswer \/ Timeout
  <2>1. \E ok : AnnounceAnswered(ok) \/ CommandAnswered(ok) \/ CommitStaged
    BY <1>9, Zenon DEF TakeAnswer, Timeout
  <2> QED BY <2>1 DEF AnnounceAnswered, CommandAnswered, CommitStaged
<1> QED BY <1>1, <1>2, <1>3, <1>4, <1>5, <1>6, <1>7, <1>8, <1>9 DEF Next

LEMMA BegunNext ==
    TypeInv /\ RequestInv /\ CleanIsCopy /\ CleanBegun /\ [Next]_vars => CleanBegun'
<1> SUFFICES ASSUME TypeInv, RequestInv, CleanIsCopy, CleanBegun, [Next]_vars,
                    clean' # NoSnapshot, pc' = "wait", request'.type = "BEGIN",
                    NEW i \in 1 .. Len(answers'), answers'[i].id = request'.id,
                    answers'[i].ok
             PROVE  /\ wire' = <<>>
                    /\ driver'.staging =>
                            driver'.staged = [total |-> clean', bytes |-> NoSnapshot]
  BY DEF CleanBegun
<1>1. UNCHANGED <<pc, request, app_staging_, app_staged, clean>>
  BY AwaitedAnswer
<1>2. CASE /\ \E k \in 1 .. Len(answers) : answers'[i] = answers[k]
           /\ UNCHANGED <<wire, driver>> \/ wire # <<>>
  BY <1>1, <1>2 DEF CleanBegun
<1>3. CASE /\ wire' = <<>> /\ wire[1] \in Message /\ wire[1].type = request.type
           /\ request.type = "BEGIN" => wire[1].data = app_staged.total
           /\ \E o \in Outcomes(wire[1]) : driver' = o.driver /\ o.ok = answers'[i].ok
  <2>1. wire[1].type = "BEGIN" /\ wire[1].data = clean
    BY <1>1, <1>3 DEF CleanIsCopy
  <2>2. PICK o \in Outcomes(wire[1]) : driver' = o.driver /\ o.ok = answers'[i].ok
    BY <1>3
  <2>3. o.ok /\ wire[1] \in Message
    BY <1>3, <2>2
  <2>4. o.driver.staged = [total |-> wire[1].data, bytes |-> NoSnapshot]
    BY <2>1, <2>3, OutcomeStaging
  <2>5. driver'.staged = [total |-> clean, bytes |-> NoSnapshot]
    BY <2>1, <2>2, <2>4
  <2> QED BY <1>1, <1>3, <2>5
<1> QED BY <1>2, <1>3, AwaitedAnswer

LEMMA CommitNext ==
    TypeInv /\ RequestInv /\ CleanIsCopy /\ SameTransfer /\ CleanCommit /\ [Next]_vars
        => CleanCommit'
<1> SUFFICES ASSUME TypeInv, RequestInv, CleanIsCopy, SameTransfer, CleanCommit, [Next]_vars,
                    clean' # NoSnapshot, pc' = "wait", request'.type = "COMMIT",
                    NEW i \in 1 .. Len(answers'), answers'[i].id = request'.id,
                    answers'[i].ok
             PROVE  app_staging_' /\ app_staged'.bytes = clean'
  BY DEF CleanCommit
<1>1. UNCHANGED <<pc, request, app_staging_, app_staged, clean>>
  BY AwaitedAnswer
<1>2. CASE \E k \in 1 .. Len(answers) : answers'[i] = answers[k]
  BY <1>1, <1>2 DEF CleanCommit
<1>3. CASE /\ Len(wire) = 1 /\ wire[1] \in Message /\ wire[1].type = request.type
           /\ \E o \in Outcomes(wire[1]) : driver' = o.driver /\ o.ok = answers'[i].ok
  <2>1. wire[1].type = "COMMIT"
    BY <1>1, <1>3
  <2>2. ~On("CHUNK")
    BY <1>3, <2>1 DEF On
  <2>3. /\ driver.staging /\ driver.staged.bytes = driver.staged.total
        /\ driver.staged.total \in Snapshot
    BY <1>3, <2>1, OutcomeStaging
  <2>4. Opened
    BY <1>1 DEF Opened
  <2>5. app_staging_
    BY <2>2, <2>3, <2>4 DEF SameTransfer, MoreSent, On
  <2>6. app_staged.bytes # NoSnapshot
    BY <2>3, <2>4, <2>5 DEF SameTransfer, NoneSent
  <2>7. driver.staged.total = clean /\ driver.staged.bytes = app_staged.bytes
    BY <1>1, <2>2, <2>3, <2>4, <2>5, <2>6 DEF SameTransfer, OneSent, On, CleanIsCopy
  <2> QED BY <1>1, <2>3, <2>5, <2>7
<1> QED BY <1>2, <1>3, AwaitedAnswer

\* The Commit under way moves towards a durable current file.
LEMMA CleanStoredNext ==
    TypeInv /\ CleanIsCopy /\ CleanStored /\ [Next]_vars => CleanStored'
<1> SUFFICES ASSUME TypeInv, CleanIsCopy, CleanStored, [Next]_vars, pc' = "store"
             PROVE  CleanStored'
  BY DEF CleanStored
<1>1. CASE Storing
  <2>1. pc = "store" /\ StoreStep /\ clean' = clean /\ told' = told /\ told = NoSnapshot
    BY <1>1 DEF Storing, relayVars, CleanStored
  <2> SUFFICES ASSUME clean # NoSnapshot
               PROVE  /\ commit'.snapshot = clean
                      /\ commit'.at = "sync" => files'[Target'].current = clean
                      /\ commit'.at = "done" /\ commit'.result = "stored" =>
                            durable'[Target'].current = {clean}
    BY <2>1 DEF CleanStored
  <2>2. /\ commit.snapshot = clean
        /\ commit.at = "sync" => files[Target].current = clean
    BY <2>1 DEF CleanStored
  <2>3. /\ StoreTypeOK /\ commit.synced
        /\ commit.at \in {"stage", "rotate", "publish", "sync"} => commit.temporary = clean
    BY <2>2 DEF TypeInv, StoreInv, CommitProgress
  <2>4. Target \in Route
    BY <2>2, <2>3 DEF StoreTypeOK, Target
  <2>5. CASE WriteTemporary \/ StagePrevious \/ SkipPrevious \/ CommitFails
    <3>1. commit'.snapshot = commit.snapshot
      BY <2>3, <2>5 DEF WriteTemporary, Written, StagePrevious, SkipPrevious, CommitFails,
                        StoreTypeOK
    <3>2. \/ commit'.at \in {"stage", "rotate", "publish"}
          \/ commit'.at = "done" /\ commit'.result = "failed"
      BY <2>3, <2>5 DEF WriteTemporary, Written, StagePrevious, SkipPrevious, CommitFails,
                        StoreTypeOK
    <3> QED BY <2>2, <3>1, <3>2
  <2>6. CASE RotatePrevious
    BY <2>2, <2>3, <2>6 DEF RotatePrevious, StoreTypeOK
  <2>7. CASE PublishCurrent
    <3>1. commit' = [commit EXCEPT !.at = "sync"] /\ commit.at = "publish"
          /\ files' = [files EXCEPT ![Target]["current"] = commit.temporary]
      BY <2>7 DEF PublishCurrent, Rename
    <3>2. commit'.snapshot = commit.snapshot /\ commit'.at = "sync" /\ Target' = Target
      BY <2>3, <3>1 DEF StoreTypeOK, Target
    <3>3. files'[Target].current = clean
      BY <2>3, <2>4, <3>1 DEF StoreTypeOK
    <3> QED BY <2>2, <3>2, <3>3
  <2>8. CASE FsyncDirectory
    <3>1. /\ commit' = [commit EXCEPT !.at = "done", !.result = "stored"]
          /\ commit.at = "sync"
          /\ durable' = [durable EXCEPT
                ![Target] = [current |-> Lasting(files[Target].current, commit.synced),
                             previous |-> {files[Target].previous}]]
      BY <2>8 DEF FsyncDirectory
    <3>2. commit'.snapshot = commit.snapshot /\ commit'.at = "done" /\ Target' = Target
      BY <2>3, <3>1 DEF StoreTypeOK, Target
    <3>3. Lasting(files[Target].current, commit.synced) = {clean}
      BY <2>2, <2>3, <3>1 DEF Lasting
    <3>4. durable'[Target].current = {clean}
      BY <2>3, <2>4, <3>1, <3>3 DEF StoreTypeOK
    <3> QED BY <2>2, <3>2, <3>4
  <2> QED BY <2>1, <2>5, <2>6, <2>7, <2>8 DEF StoreStep
<1>2. CASE TakeAnswer \/ Timeout
  <2>1. CommitStaged
    <3>1. \E ok : AnnounceAnswered(ok) \/ CommandAnswered(ok) \/ CommitStaged
      BY <1>2, Zenon DEF TakeAnswer, Timeout
    <3> QED BY <3>1 DEF AnnounceAnswered, CommandAnswered
  <2>2. StartCommit(app_staged.total) /\ told' = NoSnapshot /\ clean' = clean
    BY <2>1 DEF CommitStaged
  <2>3. commit'.at = "write" /\ commit'.snapshot = app_staged.total
    BY <2>2 DEF StartCommit, Idle
  <2> QED BY <2>2, <2>3 DEF CleanStored, CleanIsCopy
<1>3. CASE MediumFails
  <2>1. pc = "store" /\ clean' = NoSnapshot /\ told' \in {told, NoSnapshot}
    BY <1>3 DEF MediumFails
  <2> QED BY <2>1 DEF CleanStored
<1>4. CASE HandleSnapshotCommand \/ DriverDown \/ DriverUp \/ UNCHANGED vars
  <2>1. UNCHANGED <<storeVars, pc, clean, told>>
    BY <1>4 DEF HandleSnapshotCommand, DriverDown, DriverUp, NewDriver, vars, relayVars
  <2> QED BY <2>1 DEF CleanStored, storeVars, Target
<1>5. CASE \/ \E r \in Route : OnRouteReport(r)
           \/ Announce \/ ForgetAnnounced \/ DropAnswer \/ StoreDone
           \/ DaemonKilled \/ PowerLoss
           \/ \E f \in AppFrame : OnSnapshotCommand(f) \/ RefuseUnsent(f)
  BY <1>5 DEF OnRouteReport, Announce, Relay, ForgetAnnounced, DropAnswer, StoreDone,
              DaemonKilled, PowerLoss, DaemonStarts, NewDriver, OnSnapshotCommand,
              RefuseUnsent, Free
<1> QED BY <1>1, <1>2, <1>3, <1>4, <1>5 DEF Next

\* A power loss leaves one of the things a load might have returned.
LEMMA PowerLossPossible ==
    ASSUME StoreTypeOK, StorePowerLoss, NEW r \in Route
    PROVE  Possible(r)' \subseteq Possible(r) /\ Possible(r)' # {}
<1>1. /\ files'[r].current \in durable[r].current
      /\ files'[r].previous \in durable[r].previous
      /\ durable'[r] = [current |-> {files'[r].current}, previous |-> {files'[r].previous}]
  BY DEF StorePowerLoss
<1>2. Possible(r)' = {Loaded(files'[r].current, files'[r].previous, r)}
  BY <1>1 DEF Possible, Loaded, Valid
<1>3. Loaded(files'[r].current, files'[r].previous, r) \in Possible(r)
  BY <1>1 DEF Possible
<1> QED BY <1>2, <1>3

LEMMA ToldNext ==
    TypeInv /\ RequestInv /\ ToldInv /\ [Next]_vars => ToldMeansStored'
<1> SUFFICES ASSUME TypeInv, RequestInv, ToldInv, [Next]_vars, told' # NoSnapshot
             PROVE  Possible(told.route)' = {told'}
  BY DEF ToldMeansStored
<1>0. /\ StoreTypeOK /\ told \in Snapshot \cup {NoSnapshot}
      /\ clean \in Snapshot \cup {NoSnapshot}
      /\ ToldMeansStored /\ CleanStored /\ CleanIsCopy /\ CleanCommit
  BY DEF TypeInv, StoreInv, RelayTyped, HistoryTyped, ToldInv
<1>1. ASSUME UNCHANGED <<durable, told>> PROVE Possible(told.route)' = {told'}
  BY <1>0, <1>1 DEF ToldMeansStored, Possible, Loaded, Valid
<1>2. CASE TakeAnswer
  <2>1. CASE AnnounceAnswered(Head(answers).ok) \/ CommandAnswered(Head(answers).ok)
    BY <1>1, <2>1 DEF AnnounceAnswered, CommandAnswered, storeVars
  <2>2. CASE Head(answers).ok /\ CommitStaged
    <3>1. /\ pc = "wait" /\ request.type = "COMMIT" /\ answers # <<>>
          /\ Head(answers).id = request.id
      BY <1>2, <2>2 DEF TakeAnswer, Answered, CommitStaged
    <3>2. Head(answers) = answers[1] /\ 1 \in 1 .. Len(answers)
      BY <3>1, ConnectionTyped, TailFacts
    <3>3. ~Storable /\ clean # NoSnapshot
      BY <2>2 DEF CommitStaged
    <3>4. app_staging_ /\ app_staged.bytes = clean
      BY <1>0, <2>2, <3>1, <3>2, <3>3 DEF CleanCommit
    <3>5. app_staged.total = clean /\ clean.route = route
      BY <1>0, <3>3 DEF CleanIsCopy
    <3> QED BY <3>3, <3>4, <3>5 DEF Storable
  <2> QED BY <1>2, <2>1, <2>2 DEF TakeAnswer
<1>3. CASE StoreDone
  <2>1. /\ pc = "store" /\ commit.at = "done" /\ commit.result = "stored"
        /\ told' = clean /\ clean # NoSnapshot /\ durable' = durable
    BY <1>3 DEF StoreDone, CommitReturns
  <2>2. commit.snapshot = clean /\ durable[clean.route].current = {clean}
    BY <1>0, <2>1 DEF CleanStored, Target
  <2>3. clean \in Snapshot /\ clean.route \in Route
    BY <1>0, <2>1
  <2>4. PICK q : q \in durable[clean.route].previous
    BY <1>0, <2>3 DEF StoreTypeOK
  <2>5. \A c \in durable[clean.route].current, p \in durable[clean.route].previous :
            Loaded(c, p, clean.route) = clean
    BY <2>2, <2>3 DEF Loaded, Valid
  <2>6. Possible(clean.route) = {clean}
    BY <2>2, <2>4, <2>5 DEF Possible
  <2>7. Possible(told.route)' = Possible(clean.route)
    BY <2>1 DEF Possible, Loaded, Valid
  <2> QED BY <2>1, <2>6, <2>7
<1>4. CASE PowerLoss
  <2>1. StorePowerLoss /\ told' = told
    BY <1>4 DEF PowerLoss, DaemonStarts, NewDriver
  <2>2. told.route \in Route
    BY <1>0, <2>1
  <2>3. Possible(told.route) = {told}
    BY <1>0, <2>1 DEF ToldMeansStored
  <2>4. PICK r \in Route : r = told.route
    BY <2>2
  <2>5. Possible(r)' \subseteq {told} /\ Possible(r)' # {}
    BY <1>0, <2>1, <2>3, <2>4, PowerLossPossible
  <2>6. Possible(told.route)' = Possible(r)'
    BY <2>1, <2>4 DEF Possible, Loaded, Valid
  <2> QED BY <2>1, <2>5, <2>6
<1>5. CASE MediumFails
  <2>1. PICK r \in Route : /\ Corrupt(r)
                           /\ told' = IF told # NoSnapshot /\ told.route = r
                                      THEN NoSnapshot ELSE told
    BY <1>5 DEF MediumFails
  <2>2. told' = told /\ told.route # r /\ told.route \in Route
    BY <1>0, <2>1
  <2>3. durable'[told.route] = durable[told.route]
    BY <1>0, <2>1, <2>2 DEF Corrupt, StoreTypeOK
  <2>4. Possible(told.route)' = Possible(told.route)
    BY <2>2, <2>3 DEF Possible, Loaded, Valid
  <2> QED BY <1>0, <2>2, <2>4 DEF ToldMeansStored
<1>6. CASE Storing
  BY <1>0, <1>6 DEF Storing, relayVars, CleanStored
<1>7. CASE Timeout
  <2>1. UNCHANGED <<storeVars, told>>
    BY <1>7 DEF Timeout, AnnounceAnswered, CommandAnswered
  <2> QED BY <1>1, <2>1 DEF storeVars
<1>8. CASE DaemonKilled
  BY <1>1, <1>8 DEF DaemonKilled, DaemonStarts, StoreKilled
<1>9. CASE \/ \E r \in Route : OnRouteReport(r)
           \/ Announce \/ ForgetAnnounced \/ DropAnswer \/ HandleSnapshotCommand
           \/ DriverDown \/ DriverUp \/ UNCHANGED vars
           \/ \E f \in AppFrame : OnSnapshotCommand(f) \/ RefuseUnsent(f)
  <2>1. UNCHANGED <<storeVars, told>>
    BY <1>9 DEF OnRouteReport, Announce, ForgetAnnounced, DropAnswer, HandleSnapshotCommand,
                DriverDown, DriverUp, NewDriver, OnSnapshotCommand, RefuseUnsent, vars, relayVars
  <2> QED BY <1>1, <2>1 DEF storeVars
<1> QED BY <1>2, <1>3, <1>4, <1>5, <1>6, <1>7, <1>8, <1>9 DEF Next

\* When the App is told its transfer is applied and the store reported no error,
\* every boot after a kill or a power loss restores exactly that snapshot, until the
\* next one is stored or the medium fails.
THEOREM ToldMeansStoredCorrect == Spec => []ToldMeansStored
<1>1. Init => ToldInv
  BY DEF Init, ToldInv, CleanIsCopy, CleanBegun, SameTransfer, Opened, CleanCommit,
         CleanStored, ToldMeansStored
<1>2. TypeInv /\ RequestInv /\ ToldInv /\ [Next]_vars => ToldInv'
  <2> SUFFICES ASSUME TypeInv, RequestInv, ToldInv, [Next]_vars PROVE ToldInv'
    OBVIOUS
  <2>1. CleanIsCopy /\ CleanBegun /\ SameTransfer /\ CleanCommit /\ CleanStored
    BY DEF ToldInv
  <2>2. CleanIsCopy' /\ CleanBegun' /\ CleanCommit' /\ CleanStored'
    BY <2>1, CleanNext, BegunNext, CommitNext, CleanStoredNext
  <2> QED BY <2>2, TransferNext, ToldNext DEF ToldInv
<1>3. ToldInv => ToldMeansStored
  BY DEF ToldInv
<1> QED BY <1>1, <1>2, <1>3, RequestInvariant, PTL DEF Spec

-----------------------------------------------------------------------------
(* The daemon's copy and the driver's, without faults *)

\* A copy that BEGIN opened and no awaited answer is about to close.
OpenCopy ==
    /\ app_staging_ /\ app_staged.bytes # Oversized
    /\ pc = "wait" => request.type = "ANNOUNCE"

\* The driver stages the same transfer, once it has read its chunk.
InStep ==
    OpenCopy =>
        /\ driver.staging
        /\ \A i \in 1 .. Len(wire) : wire[i].type \in {"ANNOUNCE", "CHUNK"}
        /\ app_staged.bytes = NoSnapshot => NoneSent
        /\ app_staged.bytes # NoSnapshot => OneSent

\* A driver that accepted BEGIN stages it and has nothing more to read.
BegunTogether ==
    pc = "wait" /\ request.type = "BEGIN" =>
        \A i \in 1 .. Len(answers) : answers[i].id = request.id /\ answers[i].ok =>
            wire = <<>> /\ driver.staging /\ driver.staged = app_staged

SidesInv == faults = 0 => driver.up /\ BegunTogether /\ InStep

\* What a step that is no fault cannot be.
LEMMA NoFault ==
    ASSUME TypeInv, [Next]_vars, faults' = 0
    PROVE  /\ faults = 0
           /\ ~DriverDown /\ ~DaemonKilled /\ ~PowerLoss
           /\ driver.up => \A f \in AppFrame : ~RefuseUnsent(f)
<1>1. faults \in Nat
  BY DEF TypeInv, RelayTyped, HistoryTyped
<1>2. ~Fault
  BY <1>1 DEF Fault
<1>3. ~DriverDown /\ ~DaemonKilled /\ ~PowerLoss
  BY <1>2 DEF DriverDown, DaemonKilled, PowerLoss, DaemonStarts
<1>4. driver.up => \A f \in AppFrame : ~RefuseUnsent(f)
  BY <1>2 DEF RefuseUnsent
<1>5. faults' = faults
  <2>1. CASE \E f \in AppFrame : RefuseUnsent(f)
    BY <1>2, <2>1 DEF RefuseUnsent
  <2>2. CASE TakeAnswer
    BY <2>2, Zenon DEF TakeAnswer
  <2>3. CASE Timeout
    <3>1. Fault \/ faults' = faults
      BY <2>3, Zenon DEF Timeout
    <3> QED BY <1>2, <3>1
  <2>4. CASE \/ \E r \in Route : OnRouteReport(r)
             \/ Announce \/ ForgetAnnounced \/ DropAnswer \/ Storing \/ StoreDone
             \/ \E f \in AppFrame : OnSnapshotCommand(f)
             \/ HandleSnapshotCommand \/ DriverUp \/ MediumFails \/ UNCHANGED vars
    BY <2>4 DEF OnRouteReport, Announce, ForgetAnnounced, DropAnswer, Storing, relayVars,
                StoreDone, OnSnapshotCommand, HandleSnapshotCommand, DriverUp, NewDriver,
                MediumFails, vars
  <2> QED BY <1>3, <2>1, <2>2, <2>3, <2>4 DEF Next
<1> QED BY <1>3, <1>4, <1>5

\* Only commands and faults change the driver.
LEMMA QuietDriver ==
    ASSUME [Next]_vars, driver.up, ~HandleSnapshotCommand, ~DriverDown, ~DaemonKilled,
           ~PowerLoss
    PROVE  UNCHANGED driver
<1>1. CASE TakeAnswer \/ Timeout
  BY <1>1, Zenon DEF TakeAnswer, Timeout
<1>2. CASE \/ \E r \in Route : OnRouteReport(r)
           \/ Announce \/ ForgetAnnounced \/ DropAnswer \/ Storing \/ StoreDone
           \/ \E f \in AppFrame : OnSnapshotCommand(f) \/ RefuseUnsent(f)
           \/ DriverUp \/ MediumFails \/ UNCHANGED vars
  BY <1>2 DEF OnRouteReport, Announce, ForgetAnnounced, DropAnswer, Storing, relayVars,
              StoreDone, OnSnapshotCommand, RefuseUnsent, DriverUp, MediumFails, vars
<1> QED BY <1>1, <1>2 DEF Next

LEMMA BegunTogetherNext ==
    TypeInv /\ RequestInv /\ BegunTogether /\ [Next]_vars => BegunTogether'
<1> SUFFICES ASSUME TypeInv, RequestInv, BegunTogether, [Next]_vars,
                    pc' = "wait", request'.type = "BEGIN",
                    NEW i \in 1 .. Len(answers'), answers'[i].id = request'.id,
                    answers'[i].ok
             PROVE  wire' = <<>> /\ driver'.staging /\ driver'.staged = app_staged'
  BY DEF BegunTogether
<1>1. UNCHANGED <<pc, request, app_staging_, app_staged, clean>>
  BY AwaitedAnswer
<1>2. CASE /\ \E k \in 1 .. Len(answers) : answers'[i] = answers[k]
           /\ UNCHANGED <<wire, driver>> \/ wire # <<>>
  BY <1>1, <1>2 DEF BegunTogether
<1>3. CASE /\ wire' = <<>> /\ wire[1] \in Message /\ wire[1].type = request.type
           /\ request.type = "BEGIN" => wire[1].data = app_staged.total
           /\ \E o \in Outcomes(wire[1]) : driver' = o.driver /\ o.ok = answers'[i].ok
  <2>1. wire[1].type = "BEGIN" /\ wire[1].data = app_staged.total
    BY <1>1, <1>3
  <2>2. PICK o \in Outcomes(wire[1]) : driver' = o.driver /\ o.ok = answers'[i].ok
    BY <1>3
  <2>3. /\ driver'.staging
        /\ driver'.staged = [total |-> app_staged.total, bytes |-> NoSnapshot]
    <3>1. o.ok
      BY <2>2
    <3> QED BY <1>3, <2>1, <2>2, <3>1, OutcomeStaging
  <2>4. app_staged.bytes = NoSnapshot /\ app_staged \in Transfer
    BY <1>1 DEF RequestInv, Awaited, TypeInv, RelayTyped, DaemonTyped
  <2>5. app_staged = [total |-> app_staged.total, bytes |-> NoSnapshot]
    BY <2>4 DEF Transfer
  <2> QED BY <1>1, <1>3, <2>3, <2>5
<1> QED BY <1>2, <1>3, AwaitedAnswer

\* The driver reads what follows BEGIN.
LEMMA InStepHandled ==
    ASSUME TypeInv, InStep, OpenCopy, HandleSnapshotCommand PROVE InStep'
<1>1. UNCHANGED <<app_staging_, app_staged, pc, request>>
  BY DEF HandleSnapshotCommand
<1>2. /\ Len(wire') = Len(wire) - 1 /\ Len(wire) \in Nat /\ Len(wire) >= 1
      /\ \A i \in 1 .. Len(wire) - 1 : wire'[i] = wire[i + 1]
      /\ wire[1] \in Message
  BY HandleFacts
<1>3. 1 \in 1 .. Len(wire)
      /\ \A i \in 1 .. Len(wire') : i + 1 \in 1 .. Len(wire) /\ wire'[i] = wire[i + 1]
  BY <1>2
<1>4. /\ wire[1].type \in {"ANNOUNCE", "CHUNK"}
      /\ \A i \in 1 .. Len(wire') : wire'[i].type \in {"ANNOUNCE", "CHUNK"}
  BY <1>3 DEF InStep
<1>5. PICK o \in Outcomes(wire[1]) : driver' = o.driver
  BY HandleFacts
<1>6. driver'.staging
  <2>1. CASE wire[1].type = "ANNOUNCE"
    BY <1>2, <1>5, <2>1, OutcomeStaging DEF InStep
  <2>2. CASE wire[1].type = "CHUNK"
    <3>1. On("CHUNK")
      BY <1>3, <2>2 DEF On
    <3>2. OneSent
      BY <3>1 DEF InStep, NoneSent
    <3>3. driver.staged.bytes = NoSnapshot /\ wire[1].data = app_staged.bytes
      BY <1>3, <2>2, <3>1, <3>2 DEF OneSent
    <3> QED BY <1>2, <1>5, <2>2, <3>3, OutcomeStaging DEF InStep, OpenCopy
  <2> QED BY <1>4, <2>1, <2>2
<1>7. (NoneSent => NoneSent') /\ (OneSent => OneSent')
  BY <1>4, <1>6, SentHandled
<1> QED BY <1>1, <1>4, <1>6, <1>7 DEF InStep

LEMMA InStepNext ==
    ASSUME TypeInv, RequestInv, driver.up, BegunTogether, InStep, [Next]_vars, faults' = 0
    PROVE  InStep'
<1> SUFFICES ASSUME OpenCopy' PROVE InStep'
  BY DEF InStep
<1>0. /\ wire \in Seq(Message) /\ Len(wire) \in Nat /\ next_request_id_ \in Nat
      /\ DaemonTyped
  BY ConnectionTyped DEF TypeInv, RelayTyped
<1>1. CASE HandleSnapshotCommand
  <2>1. OpenCopy
    BY <1>1 DEF HandleSnapshotCommand, OpenCopy
  <2> QED BY <1>1, <2>1, InStepHandled
<1>2. ASSUME NEW m \in Message, wire' = Append(wire, m), m.type \in {"ANNOUNCE", "CHUNK"},
             OpenCopy, InStep
      PROVE  \A i \in 1 .. Len(wire') : wire'[i].type \in {"ANNOUNCE", "CHUNK"}
  <2>1. /\ Len(wire') = Len(wire) + 1
        /\ \A i \in 1 .. Len(wire) : wire'[i] = wire[i]
        /\ wire'[Len(wire) + 1] = m
    BY <1>0, <1>2, AppendFacts
  <2> QED BY <1>0, <1>2, <2>1 DEF InStep
<1>3. CASE Announce
  <2> DEFINE m == [id |-> next_request_id_, type |-> "ANNOUNCE", data |-> route]
  <2>1. m \in Message /\ m.type = "ANNOUNCE"
    BY <1>0 DEF DaemonTyped, Message
  <2>2. wire' = Append(wire, m) /\ UNCHANGED <<driver, app_staging_, app_staged, clean>>
        /\ OpenCopy
    BY <1>3 DEF Announce, Relay, Free, OpenCopy
  <2> HIDE DEF m
  <2>3. (NoneSent => NoneSent') /\ (OneSent => OneSent')
    BY <2>1, <2>2, SentOther
  <2>4. \A i \in 1 .. Len(wire') : wire'[i].type \in {"ANNOUNCE", "CHUNK"}
    BY <1>2, <2>1, <2>2
  <2> QED BY <2>2, <2>3, <2>4 DEF InStep
<1>4. ASSUME NEW f \in AppFrame, OnSnapshotCommand(f) PROVE InStep'
  <2> DEFINE m == [id |-> next_request_id_, type |-> f.type, data |-> f.data]
  <2>1. Stage(f) /\ wire' = Append(wire, m) /\ UNCHANGED driver /\ pc = "idle"
    BY <1>4 DEF OnSnapshotCommand, Relay, Free
  <2>2. m \in Message /\ m.type = f.type /\ m.data = f.data
    BY <1>0, <2>1, StageTyped DEF Message
  <2> HIDE DEF m
  <2>3. f.type = "CHUNK"
    <3>1. f.type # "CHUNK" => pc' = "wait" /\ request'.type = f.type
      BY <1>4 DEF OnSnapshotCommand, Relay
    <3>2. f.type \in {"BEGIN", "CHUNK", "COMMIT", "ABORT"}
      BY <1>0, <2>1, StageTyped
    <3> QED BY <3>1, <3>2 DEF OpenCopy
  <2>4. /\ app_staging_ /\ app_staged.bytes = NoSnapshot /\ (NoneSent => OneSent')
        /\ app_staged'.bytes = f.data /\ f.data # NoSnapshot
    BY <2>1, <2>2, <2>3, SentChunk DEF OpenCopy
  <2>5. OpenCopy
    BY <2>1, <2>4 DEF OpenCopy, Content
  <2>6. driver'.staging /\ OneSent'
    BY <2>1, <2>4, <2>5 DEF InStep
  <2>7. \A i \in 1 .. Len(wire') : wire'[i].type \in {"ANNOUNCE", "CHUNK"}
    BY <1>2, <2>1, <2>2, <2>3, <2>5
  <2> QED BY <2>4, <2>6, <2>7 DEF InStep
<1>5. ASSUME UNCHANGED <<wire, driver, app_staging_, app_staged>>, OpenCopy PROVE InStep'
  BY <1>5 DEF InStep, NoneSent, OneSent, On
<1>6. CASE TakeAnswer
  <2>1. UNCHANGED <<wire, driver>> /\ pc = "wait" /\ answers # <<>>
        /\ Head(answers).id = request.id
    BY <1>6, Zenon DEF TakeAnswer, Answered
  <2>2. CASE AnnounceAnswered(Head(answers).ok)
    BY <1>5, <2>1, <2>2 DEF AnnounceAnswered, OpenCopy
  <2>3. CASE CommandAnswered(Head(answers).ok)
    <3>1. app_staging_'
      BY DEF OpenCopy
    <3>2. request.type \in {"BEGIN", "ABORT"} \/ (request.type = "COMMIT" /\ ~Head(answers).ok)
      BY <2>3, Zenon DEF CommandAnswered
    <3>3. ~Clears(Head(answers).ok)
      BY <2>3, <3>1 DEF CommandAnswered, Clears
    <3>4. Head(answers).ok /\ request.type = "BEGIN"
      BY <3>2, <3>3 DEF Clears
    <3>5. Head(answers) = answers[1] /\ 1 \in 1 .. Len(answers)
      BY <2>1, ConnectionTyped, TailFacts
    <3>6. wire = <<>> /\ driver.staging /\ driver.staged = app_staged
      BY <2>1, <3>4, <3>5 DEF BegunTogether
    <3>7. app_staged.bytes = NoSnapshot /\ app_staged \in Transfer
      BY <1>0, <2>1, <3>4 DEF RequestInv, Awaited, DaemonTyped
    <3>8. app_staged = [total |-> app_staged.total, bytes |-> NoSnapshot]
      BY <3>7 DEF Transfer
    <3>9. UNCHANGED <<app_staging_, app_staged>>
      BY <2>3, <3>4 DEF CommandAnswered, Clears
    <3> QED BY <2>1, <3>6, <3>7, <3>8, <3>9 DEF InStep, NoneSent, On
  <2>4. CASE CommitStaged
    BY <2>4 DEF CommitStaged, OpenCopy
  <2> QED BY <1>6, <2>2, <2>3, <2>4 DEF TakeAnswer
<1>7. CASE Timeout
  <2>1. UNCHANGED <<wire, driver>> /\ pc = "wait"
    BY <1>7, Zenon DEF Timeout
  <2>2. ~CommandAnswered(FALSE)
    <3>1. app_staging_'
      BY DEF OpenCopy
    <3> QED BY <3>1, Zenon DEF CommandAnswered, Clears
  <2>3. AnnounceAnswered(FALSE)
    BY <1>7, <2>2, Zenon DEF Timeout
  <2>4. OpenCopy /\ UNCHANGED <<app_staging_, app_staged>>
    BY <2>1, <2>3 DEF AnnounceAnswered, OpenCopy
  <2> QED BY <1>5, <2>1, <2>4
<1>8. CASE DriverUp
  BY <1>8 DEF DriverUp
<1>9. CASE \/ \E r \in Route : OnRouteReport(r)
           \/ ForgetAnnounced \/ DropAnswer \/ Storing \/ MediumFails \/ UNCHANGED vars
  <2>1. UNCHANGED <<wire, driver, app_staging_, app_staged, pc, request>>
    BY <1>9 DEF OnRouteReport, ForgetAnnounced, DropAnswer, Storing, relayVars, MediumFails,
                vars
  <2> QED BY <1>5, <2>1 DEF OpenCopy
<1>10. CASE StoreDone
  <2>1. ~app_staging_ /\ app_staging_' = app_staging_
    BY <1>10 DEF StoreDone, TypeInv, RelayTyped, ControlTyped
  <2> QED BY <2>1 DEF OpenCopy
<1> QED BY <1>1, <1>3, <1>4, <1>6, <1>7, <1>8, <1>9, <1>10, NoFault DEF Next

\* Without faults, the copy CommitStagedAppSnapshot would file is the one the driver's
\* SnapshotApplyController would apply, once it has read what was sent, however the
\* App orders its frames and whatever the driver refused before.
THEOREM SidesAgreeCorrect == Spec => []SidesAgree
<1>1. Init => SidesInv
  BY DEF Init, NewDriver, SidesInv, BegunTogether, InStep, OpenCopy
<1>2. TypeInv /\ RequestInv /\ SidesInv /\ [Next]_vars => SidesInv'
  <2> SUFFICES ASSUME TypeInv, RequestInv, SidesInv, [Next]_vars, faults' = 0
               PROVE  driver'.up /\ BegunTogether' /\ InStep'
    BY DEF SidesInv
  <2>1. faults = 0 /\ driver.up /\ BegunTogether /\ InStep
    BY NoFault DEF SidesInv
  <2>2. driver'.up
    <3>1. CASE HandleSnapshotCommand
      <4>1. PICK o \in Outcomes(wire[1]) : driver' = o.driver
        BY <3>1, HandleFacts
      <4>2. wire[1] \in Message
        BY <3>1, HandleFacts
      <4>3. o.driver.up = driver.up
        BY <4>2, OutcomeTyped
      <4> QED BY <2>1, <4>1, <4>3
    <3>2. CASE ~HandleSnapshotCommand
      <4>1. UNCHANGED driver
        BY <2>1, <3>2, NoFault, QuietDriver
      <4> QED BY <2>1, <4>1
    <3> QED BY <3>1, <3>2
  <2>3. BegunTogether'
    BY <2>1, BegunTogetherNext
  <2>4. InStep'
    BY <2>1, InStepNext
  <2> QED BY <2>2, <2>3, <2>4
<1>3. TypeInv /\ SidesInv => SidesAgree
  <2> SUFFICES ASSUME TypeInv, SidesInv, faults = 0, Free, wire = <<>>, Storable
               PROVE  driver.staging /\ driver.staged = app_staged
    BY DEF SidesAgree
  <2>1. /\ app_staging_ /\ app_staged.bytes = app_staged.total
        /\ app_staged.total \in Snapshot /\ app_staged \in Transfer
        /\ driver.staged \in Transfer
    BY DEF Storable, TypeInv, RelayTyped, DaemonTyped, DriverTyped, DriverState
  <2>2. OpenCopy /\ app_staged.bytes # NoSnapshot
    BY <2>1 DEF OpenCopy, Free, Content
  <2>3. driver.staging /\ OneSent
    BY <2>2 DEF SidesInv, InStep
  <2>4. driver.staged.total = app_staged.total /\ driver.staged.bytes = app_staged.bytes
    BY <2>3 DEF OneSent
  <2> QED BY <2>1, <2>3, <2>4 DEF Transfer
<1> QED BY <1>1, <1>2, <1>3, RequestInvariant, PTL DEF Spec
=============================================================================
