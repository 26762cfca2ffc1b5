------------------------ MODULE SnapshotApplyProofs ------------------------
(***************************************************************************)
(* The safety of the snapshot transfer for every set of routes, snapshots, *)
(* chunks and every buffer bound: the invariants of SnapshotApply and that *)
(* it implements AtomicSnapshot.                                           *)
(***************************************************************************)
EXTENDS SnapshotApply, TLAPS

USE ConstantsAssumption, SnapshotAssumption, CodecAssumption, MetadataAssumption

\* The buffer Reset() leaves is a byte sequence.
LEMMA EmptyType == << >> \in Seq(Byte)
OBVIOUS

\* A decoded snapshot is a snapshot of the declared set, or the decoding failed.
LEMMA DecodeType ==
    ASSUME NEW bytes
    PROVE  DecodeSnapshot(bytes) \in Snapshot \cup {NoSnapshot}
BY DEF DecodeSnapshot

\* The answers the controller gives are well formed.
LEMMA AckType ==
    ASSUME NEW ok \in BOOLEAN, NEW error \in ApplyError
    PROVE  Ack(ok, error) \in [accepted : BOOLEAN, error : ApplyError, app : Nat,
                               daemon : Nat, graph : Nat]
BY DEF Ack

\* BEGIN's and COMMIT's checks report a code of the ApplyError enumeration.
LEMMA ErrorsType ==
    /\ \A m \in Metadata : BeginError(m) \in ApplyError
    /\ CommitError \in ApplyError
BY DEF BeginError, CommitError, ApplyError

\* The initial state is well typed.
LEMMA InitType == Init => TypeOK
<1> SUFFICES ASSUME Init PROVE TypeOK
  OBVIOUS
<1>1. "NONE" \in ApplyError
  BY DEF ApplyError
<1>2. Ack(FALSE, "NONE") \in [accepted : BOOLEAN, error : ApplyError, app : Nat,
                              daemon : Nat, graph : Nat]
  BY <1>1, AckType
<1>3. ack \in [accepted : BOOLEAN, error : ApplyError, app : Nat, daemon : Nat,
               graph : Nat]
  BY <1>2 DEF Init
<1>4. /\ staged_ \in Seq(Byte) /\ last_error_ \in ApplyError
      /\ device_key_hash_ \in DeviceHash \cup {NoHash}
      /\ metadata_ \in Metadata \cup {NoMetadata}
      /\ adopted \in Snapshot \cup {NoSnapshot}
  BY <1>1, EmptyType DEF Init
<1>5. /\ last_app_generation_ \in Nat /\ last_daemon_generation_ \in Nat
      /\ last_graph_generation_ \in Nat /\ graph_generation_ \in Nat
      /\ staging_ \in BOOLEAN
  BY DEF Init
<1>6. {active, pending} \subseteq [generation : Nat, of : Snapshot \cup {NoSnapshot}]
  BY DEF Init, NoGraph
<1>7. fading \in BOOLEAN /\ bypassed \in BOOLEAN /\ retracted \in BOOLEAN
  BY Zenon DEF Init
<1> QED BY <1>3, <1>4, <1>5, <1>6, <1>7 DEF TypeOK

\* The type invariant of the controller (SnapshotApplyController's members and
\* the answers HandleSnapshotCommand gives) holds in every reachable state.
THEOREM TypeCorrect == Spec => []TypeOK
<1>1. Init => TypeOK
  BY InitType
<1>2. TypeOK /\ [Next]_vars => TypeOK'
  <2> SUFFICES ASSUME TypeOK, [Next]_vars PROVE TypeOK'
    OBVIOUS
  <2> USE AckType, EmptyType DEF TypeOK, controlVars, appliedVars, driverVars
  <2>e. {"NONE", "NOT_STAGING", "CHUNK_OUT_OF_ORDER", "CHUNK_RANGE", "BAD_METADATA",
         "GRAPH_PREPARE_FAILED", "ABORTED"} \subseteq ApplyError
    BY DEF ApplyError
  <2>r. ASSUME NEW error \in ApplyError, Refuse(error) PROVE TypeOK'
    BY <2>r DEF Refuse
  <2>a. ASSUME NEW error \in ApplyError, AbortAndFail(error) PROVE TypeOK'
    BY <2>a DEF AbortAndFail, Reset
  <2>g. NoGraph \in [generation : Nat, of : Snapshot \cup {NoSnapshot}]
    BY DEF NoGraph
  <2>n. ASSUME NEW s \in Snapshot \cup {NoSnapshot}
        PROVE  NewGraph(s) \in [generation : Nat, of : Snapshot \cup {NoSnapshot}]
    BY DEF NewGraph
  <2>1. ASSUME NEW h \in DeviceHash, SetDaemonRoute(h) PROVE TypeOK'
    BY <2>1, <2>e DEF SetDaemonRoute
  <2>2. ASSUME NEW m \in Metadata, Begin(m) PROVE TypeOK'
    BY <2>2, <2>e, <2>r, ErrorsType DEF Begin, Ack
  <2>3. ASSUME NEW offset \in 0 .. MaxStagedBytes, NEW chunk \in Chunk,
               AppendSnapshot(offset, chunk)
        PROVE TypeOK'
    <3>1. staged_ \o chunk \in Seq(Byte)
      OBVIOUS
    <3>2. CASE Refuse("NOT_STAGING")
      BY <3>2, <2>e, <2>r
    <3>3. CASE AbortAndFail("CHUNK_OUT_OF_ORDER") \/ AbortAndFail("CHUNK_RANGE")
      BY <3>3, <2>e, <2>a
    <3>4. CASE /\ staged_' = staged_ \o chunk
               /\ ack' = Ack(TRUE, "NONE")
               /\ UNCHANGED <<device_key_hash_, staging_, metadata_, last_error_,
                              appliedVars, driverVars>>
      BY <3>1, <3>4, <2>e
    <3> QED BY <2>3, <3>2, <3>3, <3>4 DEF AppendSnapshot
  <2>4. CASE MalformedChunk
    BY <2>4, <2>e, <2>a DEF MalformedChunk
  <2>5. CASE Commit
    <3>1. CASE CommitRefused
      BY <3>1, <2>e, <2>r, <2>a, ErrorsType DEF CommitRefused
    <3>2. CASE CommitIdempotent
      BY <3>2, <2>e DEF CommitIdempotent, Reset, Ack
    <3>3. CASE CommitterRefuses
      BY <3>3, <2>e, <2>a DEF CommitterRefuses
    <3>5. CASE PrepareFails
      BY <3>5, <2>e, <2>g DEF PrepareFails, DropPending, Reset
    <3>4. CASE CommitApplied
      <4>1. StagedSnapshot \in Snapshot
        BY <3>4, DecodeType DEF CommitApplied, CommitError, StagedSnapshot
      <4>2. /\ StagedSnapshot.app_generation \in Nat
            /\ StagedSnapshot.daemon_generation \in Nat
            /\ graph_generation_ + 1 \in Nat
        BY <4>1
      <4>3. ack' \in [accepted : BOOLEAN, error : ApplyError, app : Nat,
                      daemon : Nat, graph : Nat]
        BY <3>4, <4>2, <2>e DEF CommitApplied, Ack
      <4>4. retracted' \in BOOLEAN
        BY <3>4, Zenon DEF CommitApplied
      <4>5. pending' \in [generation : Nat, of : Snapshot \cup {NoSnapshot}]
        BY <3>4, <4>1, <2>n DEF CommitApplied
      <4> QED BY <3>4, <4>1, <4>2, <4>3, <4>4, <4>5, <2>e DEF CommitApplied, Reset
    <3> QED BY <2>5, <3>1, <3>2, <3>3, <3>4, <3>5 DEF Commit
  <2>6. CASE MalformedCommit
    BY <2>6, <2>e, <2>a DEF MalformedCommit
  <2>7. CASE Abort
    BY <2>7, <2>e DEF Abort, Reset
  <2>8. CASE SetConfig
    <3>1. bypassed' \in BOOLEAN /\ retracted' \in BOOLEAN
      BY <2>8, Zenon DEF SetConfig
    <3>2. NewGraph(adopted) \in [generation : Nat, of : Snapshot \cup {NoSnapshot}]
      BY <2>n
    <3>3. {active', pending'} \subseteq [generation : Nat, of : Snapshot \cup {NoSnapshot}]
      BY <2>8, <3>2 DEF SetConfig
    <3> QED BY <2>8, <3>1, <3>3 DEF SetConfig
  <2>11. CASE SetConfigFails
    <3>1. bypassed' \in BOOLEAN
      BY <2>11, Zenon DEF SetConfigFails
    <3> QED BY <2>11, <2>g, <3>1 DEF SetConfigFails, DropPending
  <2>12. CASE ConsumePending
    BY <2>12, <2>g DEF ConsumePending
  <2>13. CASE ReleasePrevious
    <3>1. fading' \in BOOLEAN
      BY <2>13, Zenon DEF ReleasePrevious
    <3> QED BY <2>13, <3>1 DEF ReleasePrevious
  <2>14. CASE ProcessRefused
    <3>1. bypassed' \in BOOLEAN
      BY <2>14, Zenon DEF ProcessRefused
    <3> QED BY <2>14, <3>1 DEF ProcessRefused
  <2>9. CASE MalformedRequest
    BY <2>9, <2>e DEF MalformedRequest
  <2>10. CASE UNCHANGED vars
    BY <2>10 DEF vars
  <2> QED
    BY <2>1, <2>2, <2>3, <2>4, <2>5, <2>6, <2>7, <2>8, <2>9, <2>10, <2>11, <2>12,
       <2>13, <2>14 DEF Next
<1> QED BY <1>1, <1>2, PTL DEF Spec

-----------------------------------------------------------------------------
\* A graph is staged only behind an active one.
StagedBehindActive == active = NoGraph => pending = NoGraph /\ ~retracted

\* The inductive invariant behind the remaining results.
IInv == TypeOK /\ StagingWithinBounds /\ GenerationsDescribeAdopted
        /\ AdoptedSoundsNext /\ AckDescribesAdopted /\ StagedBehindActive

\* What a commit that passed every check knows of the staged snapshot.
LEMMA CommittedSnapshot ==
    ASSUME IInv, staging_, CommitError = "NONE", ~Current
    PROVE  /\ StagedSnapshot \in Snapshot
           /\ StagedSnapshot.device_key_hash = device_key_hash_
           /\ StagedSnapshot.app_generation > 0
           /\ StagedSnapshot.daemon_generation > 0
           /\ ~Stale
BY DecodeType DEF IInv, StagingWithinBounds, CommitError, StagedSnapshot

\* A refusal that leaves the transfer alone changes nothing the invariant reads.
LEMMA RefuseInvariant ==
    ASSUME IInv, TypeOK', NEW error, Refuse(error)
    PROVE  IInv'
BY DEF IInv, Refuse, Ack, controlVars, appliedVars, driverVars, StagedBehindActive,
       StagingWithinBounds, GenerationsDescribeAdopted, AdoptedSoundsNext,
       AckDescribesAdopted, Upcoming

\* An aborted transfer releases its buffer and leaves the driver's state alone.
LEMMA AbortInvariant ==
    ASSUME IInv, TypeOK', NEW error, AbortAndFail(error)
    PROVE  IInv'
BY DEF IInv, AbortAndFail, Reset, Ack, appliedVars, driverVars, StagedBehindActive,
       StagingWithinBounds, GenerationsDescribeAdopted, AdoptedSoundsNext,
       AckDescribesAdopted, Upcoming

\* Every command preserves the invariant.
LEMMA StepInvariant ==
    ASSUME IInv, TypeOK', [Next]_vars
    PROVE  IInv'
<1> USE DEF IInv, controlVars, appliedVars, driverVars, StagingWithinBounds,
            GenerationsDescribeAdopted, AdoptedSoundsNext, AckDescribesAdopted,
            StagedBehindActive, Upcoming
<1>1. ASSUME NEW h \in DeviceHash, SetDaemonRoute(h) PROVE IInv'
  BY <1>1 DEF SetDaemonRoute, Ack
<1>2. ASSUME NEW m \in Metadata, Begin(m) PROVE IInv'
  <2>1. CASE BeginError(m) # "NONE"
    BY <1>2, <2>1, RefuseInvariant DEF Begin
  <2>2. CASE BeginError(m) = "NONE"
    <3>1. /\ m.total_size \in 1 .. MaxStagedBytes
          /\ m.app_generation > 0 /\ m.daemon_generation > 0
      BY <2>2 DEF BeginError
    <3>2. /\ metadata_' = m /\ staged_' = << >> /\ staging_' = TRUE
          /\ ack'.graph = 0
          /\ UNCHANGED <<appliedVars, driverVars>>
      BY <1>2, <2>2 DEF Begin, Ack
    <3> QED BY <3>1, <3>2 DEF TypeOK
  <2> QED BY <2>1, <2>2
<1>3. ASSUME NEW offset \in 0 .. MaxStagedBytes, NEW chunk \in Chunk,
             AppendSnapshot(offset, chunk)
      PROVE IInv'
  <2>1. CASE staging_ /\ offset = Len(staged_) /\ chunk # << >> /\ Len(chunk) <= Room
    <3>1. chunk \in Seq(Byte) /\ staged_ \in Seq(Byte)
      BY DEF TypeOK
    <3>2. Len(staged_ \o chunk) = Len(staged_) + Len(chunk)
      BY <3>1
    <3>3. Len(staged_ \o chunk) <= metadata_.total_size
      <4>1. metadata_ \in Metadata \/ metadata_ = NoMetadata
        BY DEF TypeOK
      <4>2. metadata_.total_size \in Nat
        BY <4>1 DEF NoMetadata
      <4>3. Len(staged_) \in Nat /\ Len(chunk) \in Nat
        BY <3>1
      <4> QED BY <2>1, <3>2, <4>2, <4>3 DEF Room
    <3>4. /\ staged_' = staged_ \o chunk
          /\ ack' = Ack(TRUE, "NONE")
          /\ UNCHANGED <<device_key_hash_, staging_, metadata_, last_error_,
                         appliedVars, driverVars>>
      <4>1. Len(chunk) \in Nat /\ ~(Len(chunk) > Room)
        BY <2>1, <3>1 DEF Room
      <4> QED BY <1>3, <2>1, <4>1 DEF AppendSnapshot
    <3> QED BY <2>1, <3>3, <3>4 DEF Ack
  <2>2. CASE ~(staging_ /\ offset = Len(staged_) /\ chunk # << >> /\ Len(chunk) <= Room)
    BY <1>3, <2>2, RefuseInvariant, AbortInvariant DEF AppendSnapshot
  <2> QED BY <2>1, <2>2
<1>4. CASE MalformedChunk
  BY <1>4, AbortInvariant DEF MalformedChunk
<1>5. CASE Commit
  <2>1. CASE CommitRefused
    BY <2>1, RefuseInvariant, AbortInvariant DEF CommitRefused
  <2>2. CASE CommitIdempotent
    <3>1. adopted # NoSnapshot
      BY <2>2, DecodeType DEF CommitIdempotent, Current, CommitError, TypeOK
    <3> QED BY <2>2, <3>1 DEF CommitIdempotent, Reset, Ack, TypeOK
  <2>3. CASE CommitterRefuses
    BY <2>3, AbortInvariant DEF CommitterRefuses
  <2>5. CASE PrepareFails
    BY <2>5 DEF PrepareFails, DropPending, Reset, Ack, MayPrepare
  <2>4. CASE CommitApplied
    <3>1. /\ StagedSnapshot \in Snapshot
          /\ StagedSnapshot.app_generation > 0
          /\ StagedSnapshot.daemon_generation > 0
      BY <2>4, CommittedSnapshot DEF CommitApplied
    <3>2. adopted' = StagedSnapshot /\ adopted' # NoSnapshot
      BY <2>4, <3>1, ConstantsAssumption DEF CommitApplied
    <3>6. /\ pending'.generation = graph_generation_ + 1 /\ pending'.of = StagedSnapshot
          /\ pending' # NoGraph /\ active' = active /\ active # NoGraph
      BY <2>4 DEF CommitApplied, NewGraph, NoGraph, MayPrepare, TypeOK
    <3>3. StagingWithinBounds'
      BY <2>4 DEF CommitApplied, Reset
    <3>4. GenerationsDescribeAdopted' /\ AdoptedSoundsNext'
      <4>1. /\ last_app_generation_' = StagedSnapshot.app_generation
            /\ last_daemon_generation_' = StagedSnapshot.daemon_generation
        BY <2>4 DEF CommitApplied
      <4> QED BY <3>1, <3>2, <3>6, <4>1
    <3>5. AckDescribesAdopted'
      <4>1. /\ ack'.accepted
            /\ ack'.app = StagedSnapshot.app_generation
            /\ ack'.daemon = StagedSnapshot.daemon_generation
            /\ ack'.graph = last_graph_generation_'
        BY <2>4 DEF CommitApplied, Ack
      <4>2. /\ last_graph_generation_' <= graph_generation_'
            /\ last_graph_generation_' <= pending'.generation
        BY <2>4, <3>6 DEF CommitApplied, TypeOK
      <4> QED BY <3>2, <3>6, <4>1, <4>2
    <3> QED BY <3>3, <3>4, <3>5, <3>6
  <2> QED BY <1>5, <2>1, <2>2, <2>3, <2>4, <2>5 DEF Commit
<1>6. CASE MalformedCommit
  BY <1>6, AbortInvariant DEF MalformedCommit
<1>7. CASE Abort
  BY <1>7 DEF Abort, Reset, Ack
<1>8. CASE SetConfig
  <2>1. /\ NewGraph(adopted).generation = graph_generation_ + 1
        /\ NewGraph(adopted).of = adopted /\ NewGraph(adopted) # NoGraph
    <3>1. graph_generation_ + 1 # 0
      BY DEF TypeOK
    <3> QED BY <3>1 DEF NewGraph, NoGraph
  <2>2. Upcoming' = NewGraph(adopted) /\ active' # NoGraph
    BY <1>8, <2>1 DEF SetConfig
  <2>3. last_graph_generation_ <= graph_generation_ + 1
    BY DEF TypeOK
  <2> QED BY <1>8, <2>1, <2>2, <2>3 DEF SetConfig, TypeOK
<1>11. CASE SetConfigFails
  <2>1. /\ UNCHANGED <<controlVars, appliedVars, last_error_, ack, graph_generation_,
                      adopted, active>>
        /\ \/ pending' = NoGraph /\ retracted' = (retracted \/ pending # NoGraph)
           \/ pending' = pending /\ retracted' = retracted
    BY <1>11 DEF SetConfigFails, DropPending
  <2>2. CASE pending' = pending /\ retracted' = retracted
    BY <2>1, <2>2
  <2>3. CASE pending' = NoGraph /\ retracted' = (retracted \/ pending # NoGraph)
    <3>1. StagingWithinBounds'
      BY <2>1
    <3>2. retracted' \/ (pending = NoGraph /\ Upcoming' = Upcoming)
      BY <2>1, <2>3
    <3>3. GenerationsDescribeAdopted' /\ AdoptedSoundsNext' /\ AckDescribesAdopted'
      BY <2>1, <2>3, <3>2
    <3> QED BY <2>1, <2>3, <3>1, <3>3
  <2> QED BY <2>1, <2>2, <2>3
<1>12. CASE ConsumePending
  BY <1>12 DEF ConsumePending
<1>13. CASE ReleasePrevious
  BY <1>13 DEF ReleasePrevious
<1>14. CASE ProcessRefused
  BY <1>14 DEF ProcessRefused
<1>9. CASE MalformedRequest
  BY <1>9 DEF MalformedRequest, Ack
<1>10. CASE UNCHANGED vars
  BY <1>10 DEF vars
<1> QED BY <1>1, <1>2, <1>3, <1>4, <1>5, <1>6, <1>7, <1>8, <1>9, <1>10, <1>11, <1>12,
           <1>13, <1>14 DEF Next

\* In every reachable state the staging buffer is within its declared bound,
\* the generations are those of the adopted snapshot and the last COMMIT
\* acknowledgement describes it.
THEOREM InvariantCorrect == Spec => []IInv
<1>1. Init => IInv
  BY InitType DEF Init, IInv, StagingWithinBounds, Ack, GenerationsDescribeAdopted,
                  AdoptedSoundsNext, AckDescribesAdopted, StagedBehindActive, Upcoming,
                  NoGraph
<1>2. IInv /\ TypeOK' /\ [Next]_vars => IInv'
  BY StepInvariant
<1> QED BY <1>1, <1>2, TypeCorrect, PTL DEF Spec

\* The staging buffer stays within BEGIN's declared size.
THEOREM StagingBounded == Spec => []StagingWithinBounds
BY InvariantCorrect, PTL DEF IInv

\* The pair new snapshots are compared with is the adopted snapshot's, through every
\* failed, aborted or repeated transfer.
THEOREM GenerationsCorrect == Spec => []GenerationsDescribeAdopted
BY InvariantCorrect, PTL DEF IInv

\* The graph that sounds next was prepared from the adopted snapshot, unless a failed
\* prepare retracted that graph and none was prepared since.
THEOREM AdoptedSoundsNextCorrect == Spec => []AdoptedSoundsNext
BY InvariantCorrect, PTL DEF IInv

\* A COMMIT's acknowledgement describes the adopted snapshot.
THEOREM AckCorrect == Spec => []AckDescribesAdopted
BY InvariantCorrect, PTL DEF IInv

-----------------------------------------------------------------------------
\* A step of the controller is an announcement, an adoption of a newer local
\* snapshot, or invisible to the daemon.
LEMMA StepRefines ==
    ASSUME IInv, [Next]_vars
    PROVE  [Promise!Announce \/ Promise!Adopt]_<<device_key_hash_, adopted>>
<1> USE DEF controlVars, appliedVars, driverVars
<1>1. ASSUME NEW h \in DeviceHash, SetDaemonRoute(h) PROVE Promise!Announce
  BY <1>1 DEF SetDaemonRoute, Promise!Announce
<1>2. CASE CommitApplied
  <2>1. /\ StagedSnapshot \in Snapshot
        /\ StagedSnapshot.device_key_hash = device_key_hash_
        /\ ~Stale /\ ~Current
    BY <1>2, CommittedSnapshot DEF CommitApplied
  <2>2. adopted' = StagedSnapshot /\ UNCHANGED device_key_hash_
    BY <1>2 DEF CommitApplied, Reset
  <2>3. Promise!Newer(StagedSnapshot, adopted)
    BY <2>1 DEF Promise!Newer, Stale, Current, Older, IInv, TypeOK,
                GenerationsDescribeAdopted
  <2>4. Promise!Adopt
    BY <2>1, <2>2, <2>3 DEF Promise!Adopt
  <2> QED BY <2>4
<1>3. ASSUME Next, ~CommitApplied, \A h \in DeviceHash : ~SetDaemonRoute(h)
      PROVE  UNCHANGED <<device_key_hash_, adopted>>
  BY <1>3 DEF Next, Begin, AppendSnapshot, MalformedRequest, MalformedChunk, Commit, CommitRefused,
              CommitIdempotent, CommitterRefuses, PrepareFails, MalformedCommit, Abort,
              SetConfig, SetConfigFails, ConsumePending, ReleasePrevious, ProcessRefused,
              Refuse, AbortAndFail, Reset
<1>4. CASE UNCHANGED vars
  BY <1>4 DEF vars
<1> QED BY <1>1, <1>2, <1>3, <1>4

\* The controller implements AtomicSnapshot: seen from the daemon, the driver
\* changes atomically, forwards, and only to snapshots of its own route.
THEOREM Refinement == Spec => ImplementsAtomicSnapshot
<1>1. Init => Promise!Init
  BY DEF Init, Promise!Init
<1>2. IInv /\ [Next]_vars
      => [Promise!Announce \/ Promise!Adopt]_<<device_key_hash_, adopted>>
  BY StepRefines
<1> QED BY <1>1, <1>2, InvariantCorrect, PTL
        DEF Spec, ImplementsAtomicSnapshot, Promise!Spec
=============================================================================
