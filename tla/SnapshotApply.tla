---------------------------- MODULE SnapshotApply ----------------------------
(***************************************************************************)
(* The driver side of a snapshot transfer: SnapshotApplyController staging *)
(* BEGIN / CHUNK / COMMIT / ABORT commands, driven by                      *)
(* ViperContext::HandleSnapshotCommand, and committing through             *)
(* ViperContext::CommitDaemonSnapshot.  Every method runs under            *)
(* control_mutex_, so one command is one step; what interleaves is the     *)
(* order of the commands, route announcements, SET_CONFIG, whether the     *)
(* committer succeeds, and the audio thread, which consumes what was       *)
(* prepared (its accesses one at a time are DspGraphSlots').  A graph is   *)
(* its generation and the snapshot it was prepared from, which alone gives *)
(* it its resources (parameters also reach it through ParameterMailbox);   *)
(* the geometry it was prepared for is left out.                           *)
(***************************************************************************)
EXTENDS Naturals, Sequences

CONSTANTS
    Byte,               \* what a staged buffer is made of
    DeviceHash,         \* well-formed 64-character device key hashes
    NoHash,             \* the empty hash of a driver that was told no route
    NoSnapshot,         \* decoding failed / nothing was ever committed
    Snapshot,           \* decoded snapshots (header fields and body)
    Metadata,           \* SNAPSHOT_BEGIN payloads the daemon may send
    Chunk,              \* SNAPSHOT_CHUNK data the daemon may send
    MaxStagedBytes,     \* kMaxStagedBytes
    MaxGraphGeneration, \* bound on the driver's graph preparations
    Crc32(_),           \* checksum of a byte sequence
    Codec               \* the byte sequences that decode, and to which snapshot

ApplyError == {"NONE", "NOT_STAGING", "ALREADY_STAGING", "BAD_METADATA",
               "CHUNK_OUT_OF_ORDER", "CHUNK_RANGE", "SIZE_MISMATCH",
               "CRC_MISMATCH", "DECODE_FAILED", "DEVICE_MISMATCH",
               "STALE_GENERATION", "GRAPH_PREPARE_FAILED", "ABORTED"}

\* What the proofs need of the constants.
ASSUME ConstantsAssumption ==
    /\ NoHash \notin DeviceHash
    /\ NoSnapshot \notin Snapshot
    /\ MaxStagedBytes \in Nat
    /\ MaxGraphGeneration \in Nat
    /\ Chunk \subseteq Seq(Byte)

ASSUME SnapshotAssumption ==
    \A s \in Snapshot :
        /\ s.device_key_hash \in DeviceHash
        /\ s.app_generation \in Nat
        /\ s.daemon_generation \in Nat
        /\ s.streams_decode \in BOOLEAN

ASSUME CodecAssumption ==
    \A bytes \in DOMAIN Codec : Codec[bytes] \in Snapshot

ASSUME MetadataAssumption ==
    \A m \in Metadata :
        /\ m.app_generation \in Nat
        /\ m.daemon_generation \in Nat
        /\ m.total_size \in Nat

VARIABLES
    device_key_hash_,       \* the route the daemon announced, or NoHash
    staging_,
    metadata_,              \* of the transfer being staged, or NoMetadata
    staged_,                \* the bytes received so far
    last_app_generation_,
    last_daemon_generation_,
    last_error_,
    ack,                    \* the answer to the last command
    last_graph_generation_, \* the one the last applied snapshot was prepared as
    graph_generation_,      \* ViperContext: graphs prepared so far
    adopted,                \* the snapshot CommitDaemonSnapshot adopted last, in
                            \* parameter_snapshot_ and resources_
    active, pending,        \* the graph that sounds, and the one staged to follow
    fading,                 \* the previous graph still holds the other slot
    bypassed,               \* disable_reason_ is not NONE
    retracted               \* a staged graph was dropped and not replaced since

controlVars == <<device_key_hash_, staging_, metadata_, staged_>>
appliedVars == <<last_app_generation_, last_daemon_generation_,
                 last_graph_generation_>>
driverVars == <<graph_generation_, adopted, active, pending, fading, bypassed,
                retracted>>
vars == <<controlVars, appliedVars, last_error_, ack, driverVars>>

DecodeSnapshot(bytes) ==
    IF bytes \in DOMAIN Codec THEN Codec[bytes] ELSE NoSnapshot

\* SnapshotMetadata{}, what Reset() leaves behind.
NoMetadata == [app_generation |-> 0, daemon_generation |-> 0,
               device_key_hash |-> NoHash, total_size |-> 0, crc32 |-> 0]

AckWithoutCode(ok, error) == [accepted |-> ok, error |-> "UNSET", app |-> 0,
                              daemon |-> 0, graph |-> 0]

\* SnapshotAck.  A refusal also echoes the generations it was asked for, which
\* is left out: only an accepted command's generations say anything.
Ack(ok, error) == [accepted |-> ok, error |-> error, app |-> 0, daemon |-> 0,
                   graph |-> 0]

NoGraph == [generation |-> 0, of |-> NoSnapshot]
NewGraphOfAdopted(s) == [generation |-> graph_generation_ + 1, of |-> adopted]

\* DspGraph::Prepare and ApplyTo, with the parameters and resources of s.
NewGraph(s) == [generation |-> graph_generation_ + 1, of |-> s]

\* Reset(): drop the transfer and release its buffer.
Reset ==
    /\ staging_' = FALSE
    /\ metadata_' = NoMetadata
    /\ staged_' = << >>
    /\ UNCHANGED device_key_hash_

\* Fail() alone: the transfer being staged, if any, is left as it is.
Refuse(error) ==
    /\ last_error_' = error
    /\ ack' = Ack(FALSE, error)
    /\ UNCHANGED <<controlVars, appliedVars, driverVars>>

\* Abort() followed by Fail().
AbortAndFail(error) ==
    /\ Reset
    /\ last_error_' = error
    /\ ack' = Ack(FALSE, error)
    /\ UNCHANGED <<appliedVars, driverVars>>

-----------------------------------------------------------------------------
Init ==
    /\ device_key_hash_ = NoHash
    /\ staging_ = FALSE
    /\ metadata_ = NoMetadata
    /\ staged_ = << >>
    /\ last_app_generation_ = 0
    /\ last_daemon_generation_ = 0
    /\ last_error_ = "NONE"
    /\ ack = Ack(FALSE, "NONE")
    /\ last_graph_generation_ = 0
    /\ graph_generation_ = 0
    /\ adopted = NoSnapshot
    /\ active = NoGraph /\ pending = NoGraph
    /\ fading = FALSE /\ bypassed = FALSE /\ retracted = FALSE

\* ROUTE_ANNOUNCE: the transfer being staged is not touched.
SetDaemonRoute(h) ==
    /\ device_key_hash_' = h
    /\ ack' = Ack(TRUE, "NONE")
    /\ UNCHANGED <<staging_, metadata_, staged_, last_error_, appliedVars,
                   driverVars>>

\* A ROUTE_ANNOUNCE or SNAPSHOT_BEGIN that does not decode changes nothing.
MalformedRequest ==
    /\ ack' = Ack(FALSE, "BAD_METADATA")
    /\ UNCHANGED <<controlVars, appliedVars, last_error_, driverVars>>

BeginError(m) ==
    IF staging_ THEN "ALREADY_STAGING"
    ELSE IF m.total_size = 0 \/ m.total_size > MaxStagedBytes THEN "BAD_METADATA"
    ELSE IF m.app_generation = 0 \/ m.daemon_generation = 0 THEN "BAD_METADATA"
    ELSE IF m.device_key_hash \notin DeviceHash THEN "BAD_METADATA"
    ELSE IF device_key_hash_ = NoHash \/ m.device_key_hash # device_key_hash_
         THEN "DEVICE_MISMATCH"
    ELSE "NONE"

Begin(m) ==
    \/ /\ BeginError(m) # "NONE"
       /\ Refuse(BeginError(m))
    \/ /\ BeginError(m) = "NONE"
       /\ metadata_' = m
       /\ staged_' = << >>
       /\ staging_' = TRUE
       /\ last_error_' = "NONE"
       /\ ack' = [Ack(TRUE, "NONE") EXCEPT !.app = m.app_generation,
                                           !.daemon = m.daemon_generation]
       /\ UNCHANGED <<device_key_hash_, appliedVars, driverVars>>

RoomIgnoringStaged == metadata_.total_size

\* The unsigned difference Append compares the chunk against.
Room == metadata_.total_size - Len(staged_)

AppendSnapshot(offset, chunk) ==
    \/ ~staging_ /\ Refuse("NOT_STAGING")
    \/ staging_ /\ offset # Len(staged_) /\ AbortAndFail("CHUNK_OUT_OF_ORDER")
    \/ /\ staging_ /\ offset = Len(staged_)
       /\ chunk = << >> \/ Len(chunk) > Room
       /\ AbortAndFail("CHUNK_RANGE")
    \/ /\ staging_ /\ offset = Len(staged_)
       /\ chunk # << >> /\ Len(chunk) <= Room
       /\ staged_' = staged_ \o chunk
       /\ ack' = Ack(TRUE, "NONE")
       /\ UNCHANGED <<device_key_hash_, staging_, metadata_, last_error_,
                      appliedVars, driverVars>>

\* A chunk that does not decode aborts the transfer even when none is staged.
MalformedChunk == AbortAndFail("CHUNK_RANGE")

\* (app, daemon) generation pairs compared as the controller compares them.
Older(a, d, a2, d2) == a < a2 \/ (a = a2 /\ d < d2)

\* The staged bytes as Commit() sees them once they passed size and CRC.
StagedSnapshot == DecodeSnapshot(staged_)

Stale == Older(StagedSnapshot.app_generation, StagedSnapshot.daemon_generation,
               last_app_generation_, last_daemon_generation_)

Current == /\ StagedSnapshot.app_generation = last_app_generation_
           /\ StagedSnapshot.daemon_generation = last_daemon_generation_

CommitErrorNoDeviceCheck ==
    IF Len(staged_) # metadata_.total_size THEN "SIZE_MISMATCH"
    ELSE IF Crc32(staged_) # metadata_.crc32 THEN "CRC_MISMATCH"
    ELSE IF StagedSnapshot = NoSnapshot THEN "DECODE_FAILED"
    ELSE IF Stale THEN "STALE_GENERATION"
    ELSE "NONE"

\* Commit()'s checks up to the committer, in the order the code makes them.
CommitError ==
    IF Len(staged_) # metadata_.total_size THEN "SIZE_MISMATCH"
    ELSE IF Crc32(staged_) # metadata_.crc32 THEN "CRC_MISMATCH"
    ELSE IF StagedSnapshot = NoSnapshot THEN "DECODE_FAILED"
    ELSE IF StagedSnapshot.device_key_hash # device_key_hash_
         THEN "DEVICE_MISMATCH"
    ELSE IF \/ StagedSnapshot.app_generation # metadata_.app_generation
            \/ StagedSnapshot.daemon_generation # metadata_.daemon_generation
         THEN "BAD_METADATA"
    ELSE IF Stale THEN "STALE_GENERATION"
    ELSE IF Current THEN "NONE"
    ELSE IF ~StagedSnapshot.streams_decode THEN "DECODE_FAILED"
    ELSE "NONE"

CommitRefused ==
    \/ ~staging_ /\ Refuse("NOT_STAGING")
    \/ staging_ /\ CommitError # "NONE" /\ AbortAndFail(CommitError)

CommitIdempotentReportsLatestGraph ==
    /\ staging_ /\ CommitError = "NONE" /\ Current
    /\ Reset
    /\ last_error_' = "NONE"
    /\ ack' = [Ack(TRUE, "NONE") EXCEPT !.app = last_app_generation_,
                                        !.daemon = last_daemon_generation_,
                                        !.graph = graph_generation_]
    /\ UNCHANGED <<appliedVars, driverVars>>

\* The same generation pair again: acknowledged, the graph is left alone.
CommitIdempotent ==
    /\ staging_ /\ CommitError = "NONE" /\ Current
    /\ Reset
    /\ last_error_' = "NONE"
    /\ ack' = [Ack(TRUE, "NONE") EXCEPT !.app = last_app_generation_,
                                        !.daemon = last_daemon_generation_,
                                        !.graph = last_graph_generation_]
    /\ UNCHANGED <<appliedVars, driverVars>>

\* RetractPending(), and no graph is prepared in its place.
DropPending ==
    /\ pending' = NoGraph
    /\ retracted' = (retracted \/ pending # NoGraph)

\* CommitDaemonSnapshot refuses before it touches the slots: bypassed, not
\* configured, or a record that is not valid.  Only scratch copies were changed.
CommitterRefuses ==
    /\ staging_ /\ CommitError = "NONE" /\ ~Current
    /\ AbortAndFail("GRAPH_PREPARE_FAILED")

MayPrepare == ~bypassed /\ active # NoGraph

PrepareFailsAfterRecording ==
    /\ staging_ /\ CommitError = "NONE" /\ ~Current /\ MayPrepare
    /\ DropPending
    /\ Reset
    /\ last_error_' = "GRAPH_PREPARE_FAILED"
    /\ ack' = Ack(FALSE, "GRAPH_PREPARE_FAILED")
    /\ last_app_generation_' = StagedSnapshot.app_generation
    /\ last_daemon_generation_' = StagedSnapshot.daemon_generation
    /\ UNCHANGED <<last_graph_generation_, graph_generation_, adopted, active, fading,
                   bypassed>>

\* The staged graph is retracted first; then PreparePending finds no free slot
\* or the resources do not load.  Nothing is adopted or recorded.
PrepareFails ==
    /\ staging_ /\ CommitError = "NONE" /\ ~Current /\ MayPrepare
    /\ DropPending
    /\ Reset
    /\ last_error_' = "GRAPH_PREPARE_FAILED"
    /\ ack' = Ack(FALSE, "GRAPH_PREPARE_FAILED")
    /\ UNCHANGED <<appliedVars, graph_generation_, adopted, active, fading, bypassed>>

CommitApplied ==
    /\ staging_ /\ CommitError = "NONE" /\ ~Current /\ MayPrepare /\ ~fading
    /\ graph_generation_ < MaxGraphGeneration
    /\ graph_generation_' = graph_generation_ + 1
    /\ pending' = NewGraph(StagedSnapshot) /\ retracted' = FALSE
    /\ adopted' = StagedSnapshot
    /\ last_app_generation_' = StagedSnapshot.app_generation
    /\ last_daemon_generation_' = StagedSnapshot.daemon_generation
    /\ last_graph_generation_' = graph_generation_ + 1
    /\ Reset
    /\ last_error_' = "NONE"
    /\ ack' = [Ack(TRUE, "NONE") EXCEPT !.app = last_app_generation_',
                                        !.daemon = last_daemon_generation_',
                                        !.graph = last_graph_generation_']
    /\ UNCHANGED <<active, fading, bypassed>>

Commit == \/ CommitRefused \/ CommitIdempotent \/ CommitterRefuses
          \/ PrepareFails \/ CommitApplied

\* A commit that does not decode aborts, whatever is staged.
MalformedCommit == AbortAndFail("BAD_METADATA")

\* SNAPSHOT_ABORT is acknowledged as accepted, with the ABORTED code.
Abort ==
    /\ Reset
    /\ last_error_' = "ABORTED"
    /\ ack' = Ack(TRUE, "ABORTED")
    /\ UNCHANGED <<appliedVars, driverVars>>

-----------------------------------------------------------------------------
(* EFFECT_CMD_SET_CONFIG and the audio thread *)

\* A graph is prepared from what was adopted: the first one, or the next.
SetConfig ==
    /\ graph_generation_ < MaxGraphGeneration /\ ~fading
    /\ graph_generation_' = graph_generation_ + 1
    /\ IF active = NoGraph
       THEN active' = NewGraph(adopted) /\ UNCHANGED pending
       ELSE pending' = NewGraph(adopted) /\ UNCHANGED active
    /\ bypassed' = FALSE /\ retracted' = FALSE
    /\ UNCHANGED <<controlVars, appliedVars, last_error_, ack, adopted, fading>>

\* The configuration is refused, or valid and its graph cannot be prepared.
SetConfigFails ==
    /\ bypassed' = TRUE
    /\ DropPending \/ UNCHANGED <<pending, retracted>>
    /\ UNCHANGED <<controlVars, appliedVars, last_error_, ack, graph_generation_,
                   adopted, active, fading>>

\* Process consumes the staged graph; across sample rates nothing is faded.
ConsumePending ==
    /\ ~bypassed /\ pending # NoGraph
    /\ active' = pending /\ pending' = NoGraph
    /\ fading' \in BOOLEAN
    /\ UNCHANGED <<controlVars, appliedVars, last_error_, ack, graph_generation_,
                   adopted, bypassed, retracted>>

\* The fade ends (Process), or RESET or ENABLE cut it short.
ReleasePrevious ==
    /\ fading /\ fading' = FALSE
    /\ UNCHANGED <<controlVars, appliedVars, last_error_, ack, graph_generation_,
                   adopted, active, pending, bypassed, retracted>>

\* A block that cannot be processed bypasses the driver.
ProcessRefused ==
    /\ ~bypassed /\ active # NoGraph /\ bypassed' = TRUE
    /\ UNCHANGED <<controlVars, appliedVars, last_error_, ack, graph_generation_,
                   adopted, active, pending, fading, retracted>>

Next ==
    \/ \E h \in DeviceHash : SetDaemonRoute(h)
    \/ \E m \in Metadata : Begin(m)
    \/ \E offset \in 0 .. MaxStagedBytes, chunk \in Chunk : AppendSnapshot(offset, chunk)
    \/ MalformedRequest
    \/ MalformedChunk
    \/ Commit
    \/ MalformedCommit
    \/ Abort
    \/ SetConfig \/ SetConfigFails
    \/ ConsumePending \/ ReleasePrevious \/ ProcessRefused

Spec == Init /\ [][Next]_vars

-----------------------------------------------------------------------------
\* The controller's fields and its last answer are well formed after any
\* command; an answer's code is one of ApplyError (SnapshotApplyController.h).
TypeOK ==
    /\ device_key_hash_ \in DeviceHash \cup {NoHash}
    /\ staging_ \in BOOLEAN
    /\ metadata_ \in Metadata \cup {NoMetadata}
    /\ staged_ \in Seq(Byte)
    /\ last_app_generation_ \in Nat
    /\ last_daemon_generation_ \in Nat
    /\ last_graph_generation_ \in Nat
    /\ graph_generation_ \in Nat
    /\ last_error_ \in ApplyError
    /\ ack \in [accepted : BOOLEAN, error : ApplyError, app : Nat, daemon : Nat,
                graph : Nat]
    /\ adopted \in Snapshot \cup {NoSnapshot}
    /\ {active, pending} \subseteq [generation : Nat, of : Snapshot \cup {NoSnapshot}]
    /\ fading \in BOOLEAN /\ bypassed \in BOOLEAN /\ retracted \in BOOLEAN

\* The staging buffer never outgrows the size BEGIN declared, which is itself
\* bounded, so the unsigned subtraction in Append() (metadata_.total_size -
\* staged_.size()) cannot wrap whatever the order of commands; and a transfer
\* that ended, in any way, holds no bytes inside the audio effect.
StagingWithinBounds ==
    /\ staging_ => /\ metadata_.total_size \in 1 .. MaxStagedBytes
                   /\ metadata_.app_generation > 0
                   /\ metadata_.daemon_generation > 0
                   /\ Len(staged_) <= metadata_.total_size
    /\ ~staging_ => staged_ = << >> /\ metadata_ = NoMetadata

\* The graph the next block renders, once the driver is configured.
Upcoming == IF pending # NoGraph THEN pending ELSE active

\* The generation pair the controller compares new snapshots with is that of
\* the adopted snapshot, through every failed, aborted or idempotent transfer: a
\* pair that moved without the snapshot would refuse the retry, one that lagged
\* would let an older snapshot in.
GenerationsDescribeAdopted ==
    IF adopted = NoSnapshot
    THEN last_app_generation_ = 0 /\ last_daemon_generation_ = 0
    ELSE /\ last_app_generation_ = adopted.app_generation
         /\ last_daemon_generation_ = adopted.daemon_generation
         /\ last_app_generation_ > 0 /\ last_daemon_generation_ > 0

\* The graph that sounds next was prepared from the adopted snapshot, whatever
\* commits, reconfigurations and blocks came in between; unless a prepare that
\* failed (CommitDaemonSnapshot, HandleSetConfig) had retracted the adopted
\* snapshot's graph and none was prepared since.
AdoptedSoundsNext == Upcoming.of = adopted \/ retracted

\* An accepted COMMIT's acknowledgement (the only one with a graph generation)
\* names the adopted snapshot and a graph that was really prepared from it, also
\* when the commit was idempotent and the graph is an earlier transfer's; and
\* that graph, or a later one, sounds next unless it was retracted.
AckDescribesAdopted ==
    /\ last_graph_generation_ <= graph_generation_
    /\ last_graph_generation_ <= Upcoming.generation \/ retracted
    /\ ack.graph # 0 =>
        /\ ack.accepted
        /\ adopted # NoSnapshot
        /\ ack.app = adopted.app_generation
        /\ ack.daemon = adopted.daemon_generation
        /\ ack.graph = last_graph_generation_

\* What the daemon may assume of the driver: see AtomicSnapshot.
Promise == INSTANCE AtomicSnapshot WITH route <- device_key_hash_,
                                        value <- adopted

\* The controller implements AtomicSnapshot: whatever sequence of commands it
\* is sent, the driver's state changes all at once, only to a snapshot of the
\* announced route and only forwards in (app, daemon) generation order.
ImplementsAtomicSnapshot == Promise!Spec
=============================================================================
