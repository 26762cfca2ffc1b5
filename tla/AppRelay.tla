------------------------------ MODULE AppRelay ------------------------------
(***************************************************************************)
(* The App's path into the system: AppEventServer hands its frames to      *)
(* DaemonRuntime, which stages a copy of the snapshot, relays the command  *)
(* to the driver, waits for the answer, and after an accepted COMMIT files *)
(* the copy in SnapshotStore (module SnapshotStore, extended here).        *)
(*                                                                         *)
(* The App sends any decodable frames in any order, reconnecting at will:  *)
(* the relay keeps no state per connection.  A snapshot travels as one     *)
(* chunk, so a second chunk is one at the wrong offset; Oversized is a     *)
(* chunk longer than the size BEGIN declared.  The driver has one context. *)
(* The daemon runs with restore_enabled off: RouteRestore has the restore. *)
(***************************************************************************)
EXTENDS SnapshotStore, Sequences

CONSTANTS
    NoRoute, Oversized,
    CachedRoute,            \* route.cache at the first boot
    MaxFrames,              \* bound: frames and route reports of the App
    MaxFaults               \* bound: timeouts, failed sends, crashes

ASSUME RelayAssumption ==
    /\ NoRoute \notin Route /\ CachedRoute \in Route \cup {NoRoute} /\ Oversized \notin Content
    /\ MaxFrames \in Nat /\ MaxFaults \in Nat
    /\ \A s \in Snapshot : s.app \in Nat

VARIABLES
    route, cache, announced,    \* CurrentKeyHash, route.cache, announced_route_hash_
    pc, request,                \* the relay: idle, waiting for an answer, storing
    app_staging_, app_staged,   \* the daemon's copy of the transfer
    next_request_id_,
    driver,                     \* the context's SnapshotApplyController
    wire, answers,              \* daemon to driver, driver to daemon
    frames, faults,             \* how much of each bound is used
    accepted,                   \* snapshots the driver ever accepted
    unsent,                     \* chunks staged that a connected driver was not sent
    clean, told                 \* the App's transfer; what it was told is applied

relayVars == <<route, cache, announced, pc, request, app_staging_, app_staged,
               next_request_id_, driver, wire, answers, frames, faults,
               accepted, unsent, clean, told>>
vars == <<storeVars, relayVars>>

Chunk == Snapshot \cup {Oversized}
Frame == [type : {"BEGIN", "CHUNK"}, data : Chunk] \cup
         [type : {"COMMIT", "ABORT"}, data : {NoSnapshot}]
AppFrame == {f \in Frame : ~(f.type = "BEGIN" /\ f.data = Oversized)}

NoTransfer == [total |-> NoSnapshot, bytes |-> NoSnapshot]
NoRequest == [id |-> 0, type |-> "NONE"]

\* A driver process starts: no route, nothing staged, nothing applied.
NewDriver(up) == [up |-> up, hash |-> NoRoute, staging |-> FALSE,
                  staged |-> NoTransfer, last_app_generation_ |-> 0]

Init ==
    /\ StoreInit
    /\ route = CachedRoute /\ cache = CachedRoute /\ announced = NoRoute
    /\ pc = "idle" /\ request = NoRequest
    /\ app_staging_ = FALSE /\ app_staged = NoTransfer
    /\ next_request_id_ = 1
    /\ driver = NewDriver(TRUE)
    /\ wire = <<>> /\ answers = <<>>
    /\ frames = 0 /\ faults = 0
    /\ accepted = {files[r].current : r \in Route} \ {NoSnapshot}
    /\ unsent = {} /\ clean = NoSnapshot /\ told = NoSnapshot

-----------------------------------------------------------------------------
(* The daemon *)

Free == pc = "idle"
FromApp == frames < MaxFrames /\ frames' = frames + 1
Fault == faults < MaxFaults /\ faults' = faults + 1

\* The route takes effect even when it cannot be cached.
OnRouteReport(r) ==
    /\ Free /\ FromApp /\ r # route
    /\ route' = r /\ cache' \in {cache, r}
    /\ clean' = NoSnapshot
    /\ UNCHANGED <<storeVars, announced, pc, request, app_staging_, app_staged,
                   next_request_id_, driver, wire, answers, faults, accepted, unsent, told>>

\* SendSnapshotCommand, and the wait for the answer unless it is a chunk.
Relay(type, data) ==
    /\ wire' = Append(wire, [id |-> next_request_id_, type |-> type, data |-> data])
    /\ request' = IF type = "CHUNK" THEN NoRequest
                  ELSE [id |-> next_request_id_, type |-> type]
    /\ pc' = IF type = "CHUNK" THEN "idle" ELSE "wait"
    /\ next_request_id_' = next_request_id_ + 1

\* AnnounceRouteToDriver, its spacing and its budget of attempts left out.
Announce ==
    /\ Free /\ driver.up /\ announced # route
    /\ Relay("ANNOUNCE", route)
    /\ UNCHANGED <<storeVars, route, cache, announced, app_staging_, app_staged,
                   driver, answers, frames, faults, accepted, unsent, clean, told>>

\* RunOnce finds no driver: the next connection is announced to again.
ForgetAnnounced ==
    /\ Free /\ ~driver.up /\ announced # NoRoute
    /\ announced' = NoRoute
    /\ UNCHANGED <<storeVars, route, cache, pc, request, app_staging_, app_staged,
                   next_request_id_, driver, wire, answers, frames, faults,
                   accepted, unsent, clean, told>>

StageWithoutClearing(f) ==
    CASE f.type = "BEGIN" ->
            /\ app_staging_' = TRUE
            /\ app_staged' = [app_staged EXCEPT !.total = f.data]
      [] f.type = "CHUNK" /\ app_staging_ ->
            IF app_staged.bytes = NoSnapshot
            THEN /\ app_staged' = [app_staged EXCEPT !.bytes = f.data]
                 /\ UNCHANGED app_staging_
            ELSE app_staging_' = FALSE /\ UNCHANGED app_staged
      [] OTHER -> UNCHANGED <<app_staging_, app_staged>>

\* StageAppSnapshotCommand: before anyone knows what the driver says.
Stage(f) ==
    CASE f.type = "BEGIN" ->
            /\ app_staging_' = TRUE
            /\ app_staged' = [total |-> f.data, bytes |-> NoSnapshot]
      [] f.type = "CHUNK" /\ app_staging_ ->
            IF app_staged.bytes = NoSnapshot
            THEN /\ app_staged' = [app_staged EXCEPT !.bytes = f.data]
                 /\ UNCHANGED app_staging_
            ELSE app_staging_' = FALSE /\ UNCHANGED app_staged
      [] OTHER -> UNCHANGED <<app_staging_, app_staged>>

\* OnSnapshotCommand up to the wait.
OnSnapshotCommand(f) ==
    /\ Free /\ FromApp /\ driver.up
    /\ Stage(f) /\ Relay(f.type, f.data)
    /\ clean' = CASE f.type = "BEGIN" -> IF f.data.route = route THEN f.data ELSE NoSnapshot
                  [] f.type = "ABORT" -> NoSnapshot
                  [] OTHER -> clean
    /\ UNCHANGED <<storeVars, route, cache, announced, driver, answers, faults,
                   accepted, unsent, told>>

\* No driver, or the socket takes no more: refused at once, the copy is kept.
RefuseUnsent(f) ==
    /\ Free /\ FromApp
    /\ IF driver.up THEN Fault /\ next_request_id_' = next_request_id_ + 1
       ELSE UNCHANGED <<faults, next_request_id_>>
    /\ Stage(f)
    /\ unsent' = IF driver.up /\ f.type = "CHUNK" THEN unsent \cup {f.data} ELSE unsent
    /\ clean' = NoSnapshot
    /\ UNCHANGED <<storeVars, route, cache, announced, pc, request,
                   driver, wire, answers, accepted, told>>

\* CommitStagedAppSnapshot's checks of its own copy.
Storable ==
    /\ app_staging_
    /\ app_staged.bytes = app_staged.total
    /\ app_staged.total.route = route

AnswersAnyRequest == answers # <<>>

\* AwaitApplyOutcome: the answer to this request ...
Answered == answers # <<>> /\ Head(answers).id = request.id

\* ... any other is dropped.
DropAnswer ==
    /\ pc = "wait" /\ answers # <<>> /\ ~Answered
    /\ answers' = Tail(answers)
    /\ UNCHANGED <<storeVars, route, cache, announced, pc, request, app_staging_,
                   app_staged, next_request_id_, driver, wire, frames, faults,
                   accepted, unsent, clean, told>>

ClearOnlyRefused(ok) == ~ok

\* A refused or abandoned transfer leaves no bytes behind.
Clears(ok) == ~ok \/ request.type = "ABORT"

AnnounceAnswered(ok) ==
    /\ request.type = "ANNOUNCE"
    /\ announced' = IF ok THEN route ELSE announced
    /\ UNCHANGED <<storeVars, app_staging_, app_staged, clean, told>>
    /\ pc' = "idle" /\ request' = NoRequest

\* The reply to BEGIN, ABORT or a refused COMMIT.
CommandAnswered(ok) ==
    /\ request.type \in {"BEGIN", "ABORT"} \/ (request.type = "COMMIT" /\ ~ok)
    /\ IF Clears(ok) THEN app_staging_' = FALSE
                          /\ app_staged' = [app_staged EXCEPT !.bytes = NoSnapshot]
       ELSE UNCHANGED <<app_staging_, app_staged>>
    /\ clean' = IF ok THEN clean ELSE NoSnapshot
    /\ pc' = "idle" /\ request' = NoRequest
    /\ UNCHANGED <<storeVars, announced, told>>

CommitStagedKeepsStaging ==
    /\ request.type = "COMMIT"
    /\ IF Storable
       THEN /\ StartCommit(app_staged.total) /\ pc' = "store" /\ told' = NoSnapshot
            /\ app_staged' = [app_staged EXCEPT !.bytes = NoSnapshot]
            /\ UNCHANGED <<app_staging_, request, clean>>
       ELSE /\ app_staging_' = FALSE /\ pc' = "idle" /\ request' = NoRequest
            /\ told' = clean /\ clean' = NoSnapshot
            /\ UNCHANGED <<storeVars, app_staged>>
    /\ UNCHANGED announced

\* An accepted COMMIT: CommitStagedAppSnapshot, then the reply.
CommitStaged ==
    /\ request.type = "COMMIT"
    /\ app_staging_' = FALSE
    /\ app_staged' = IF app_staging_ THEN [app_staged EXCEPT !.bytes = NoSnapshot]
                     ELSE app_staged
    /\ IF Storable
       THEN /\ StartCommit(app_staged.total) /\ pc' = "store" /\ told' = NoSnapshot
            /\ UNCHANGED <<request, clean>>
       ELSE /\ pc' = "idle" /\ request' = NoRequest
            /\ told' = clean /\ clean' = NoSnapshot
            /\ UNCHANGED storeVars
    /\ UNCHANGED announced

TakeAnswer ==
    /\ pc = "wait" /\ Answered
    /\ answers' = Tail(answers)
    /\ LET ok == Head(answers).ok
       IN  \/ AnnounceAnswered(ok)
           \/ CommandAnswered(ok)
           \/ ok /\ CommitStaged
    /\ UNCHANGED <<route, cache, next_request_id_, driver, wire, frames, faults,
                   accepted, unsent>>

\* kApplyPollAttempts without the answer: treated as a refusal.  The answer may
\* still come, unless the driver is gone.
Timeout ==
    /\ pc = "wait" /\ ~Answered
    /\ IF wire = <<>> /\ answers = <<>> THEN UNCHANGED faults ELSE Fault
    /\ AnnounceAnswered(FALSE) \/ CommandAnswered(FALSE)
    /\ UNCHANGED <<route, cache, next_request_id_, driver, wire, answers, frames,
                   accepted, unsent>>

\* The file operations of store_.Commit.
Storing ==
    /\ pc = "store" /\ StoreStep
    /\ UNCHANGED relayVars

\* store_.Commit returns; a failure is counted, the App is told the driver's word.
StoreDone ==
    /\ pc = "store" /\ CommitReturns
    /\ pc' = "idle" /\ request' = NoRequest
    /\ told' = IF commit.result = "stored" THEN clean ELSE NoSnapshot
    /\ clean' = NoSnapshot
    /\ UNCHANGED <<route, cache, announced, app_staging_, app_staged, next_request_id_,
                   driver, wire, answers, frames, faults, accepted, unsent>>

-----------------------------------------------------------------------------
(* The driver: HandleSnapshotCommand of the bridge and of ViperContext,     *)
(* with SnapshotApplyController cut down to what the relay can tell apart.  *)

Aborted == [driver EXCEPT !.staging = FALSE, !.staged = NoTransfer]

Begin(s) ==
    IF ~driver.staging /\ driver.hash # NoRoute /\ s.route = driver.hash
    THEN [ok |-> TRUE, driver |-> [driver EXCEPT !.staging = TRUE,
                                     !.staged = [total |-> s, bytes |-> NoSnapshot]]]
    ELSE [ok |-> FALSE, driver |-> driver]

AppendChunk(data) ==
    IF driver.staging /\ driver.staged.bytes = NoSnapshot /\ data # Oversized
    THEN [ok |-> TRUE, driver |-> [driver EXCEPT !.staged.bytes = data]]
    ELSE [ok |-> FALSE, driver |-> Aborted]

\* The committer may refuse any snapshot, and one of the App generation that runs
\* is stale, applied again or new by its daemon generation, left out here.
Commits ==
    LET s == driver.staged.total
        valid == /\ driver.staging /\ driver.staged.bytes = s
                 /\ s.route = driver.hash /\ s.app >= driver.last_app_generation_
        applied == [ok |-> TRUE,
                    driver |-> [Aborted EXCEPT !.last_app_generation_ = s.app]]
        refused == [ok |-> FALSE, driver |-> Aborted]
    IN  IF valid THEN {applied, refused} ELSE {refused}

\* What a command does, and what it is answered.
Outcomes(c) ==
    CASE c.type = "ANNOUNCE" ->
            {[ok |-> TRUE, driver |-> [driver EXCEPT !.hash = c.data]]}
      [] c.type = "BEGIN" -> {Begin(c.data)}
      [] c.type = "CHUNK" -> {AppendChunk(c.data)}
      [] c.type = "COMMIT" -> Commits
      [] c.type = "ABORT" -> {[ok |-> TRUE, driver |-> Aborted]}

HandleSnapshotCommand ==
    /\ driver.up /\ wire # <<>>
    /\ LET c == Head(wire) IN \E o \in Outcomes(c) :
        /\ driver' = o.driver
        /\ answers' = IF c.type = "CHUNK" /\ o.ok THEN answers
                      ELSE Append(answers, [id |-> c.id, ok |-> o.ok])
        /\ accepted' = IF c.type = "COMMIT" /\ o.ok
                       THEN accepted \cup {driver.staged.total} ELSE accepted
    /\ wire' = Tail(wire)
    /\ UNCHANGED <<storeVars, route, cache, announced, pc, request, app_staging_,
                   app_staged, next_request_id_, frames, faults, unsent, clean, told>>

-----------------------------------------------------------------------------
(* Crashes *)

\* The audio server dies with the connection; it comes back later.
DriverDown ==
    /\ driver.up /\ Fault
    /\ driver' = NewDriver(FALSE) /\ wire' = <<>> /\ answers' = <<>>
    /\ UNCHANGED <<storeVars, route, cache, announced, pc, request, app_staging_,
                   app_staged, next_request_id_, frames, accepted, unsent, clean, told>>

DriverUp ==
    /\ ~driver.up
    /\ driver' = NewDriver(TRUE)
    /\ UNCHANGED <<storeVars, route, cache, announced, pc, request, app_staging_,
                   app_staged, next_request_id_, wire, answers, frames, faults,
                   accepted, unsent, clean, told>>

\* A new daemon knows the cached route; the connections are new.
DaemonStarts ==
    /\ Fault
    /\ route' = cache /\ announced' = NoRoute
    /\ pc' = "idle" /\ request' = NoRequest
    /\ app_staging_' = FALSE /\ app_staged' = NoTransfer
    /\ next_request_id_' = 1
    /\ wire' = <<>> /\ answers' = <<>> /\ clean' = NoSnapshot
    /\ UNCHANGED <<cache, frames, accepted, unsent, told>>

\* The driver keeps what it staged.
DaemonKilled ==
    /\ DaemonStarts /\ StoreKilled /\ UNCHANGED driver

PowerLoss ==
    /\ DaemonStarts /\ StorePowerLoss /\ driver' = NewDriver(FALSE)

MediumFails ==
    /\ \E r \in Route : /\ Corrupt(r)
                        /\ told' = IF told # NoSnapshot /\ told.route = r
                                   THEN NoSnapshot ELSE told
    /\ clean' = IF pc = "store" THEN NoSnapshot ELSE clean
    /\ UNCHANGED <<route, cache, announced, pc, request, app_staging_, app_staged,
                   next_request_id_, driver, wire, answers, frames, faults,
                   accepted, unsent>>

Next ==
    \/ \E r \in Route : OnRouteReport(r)
    \/ Announce \/ ForgetAnnounced
    \/ \E f \in AppFrame : OnSnapshotCommand(f) \/ RefuseUnsent(f)
    \/ DropAnswer \/ TakeAnswer \/ Timeout \/ Storing \/ StoreDone
    \/ HandleSnapshotCommand
    \/ DriverDown \/ DriverUp \/ DaemonKilled \/ PowerLoss \/ MediumFails

Spec == Init /\ [][Next]_vars

-----------------------------------------------------------------------------
(* Properties *)

Transfer == [total : Snapshot \cup {NoSnapshot}, bytes : Chunk \cup {NoSnapshot}]

\* Types, and the relay's control state: it is in store_.Commit exactly while the
\* store has one under way, with the transfer it came from closed, and it waits
\* for the request it numbered last.
TypeOK ==
    /\ StoreTypeOK
    /\ {route, cache, announced} \subseteq Route \cup {NoRoute}
    /\ pc \in {"idle", "wait", "store"}
    /\ app_staging_ \in BOOLEAN /\ app_staged \in Transfer
    /\ driver.staged \in Transfer /\ driver.hash \in Route \cup {NoRoute}
    /\ frames \in 0 .. MaxFrames /\ faults \in 0 .. MaxFaults
    /\ accepted \subseteq Snapshot /\ unsent \subseteq Chunk
    /\ {clean, told} \subseteq Snapshot \cup {NoSnapshot}
    /\ pc = "store" <=> commit.at # "idle"
    /\ pc = "store" => ~app_staging_
    /\ pc = "wait" => request.id = next_request_id_ - 1
    /\ pc = "idle" <=> request = NoRequest

\* Whatever the store may hold after any crash, the driver once accepted it, or its
\* bytes could not be sent to a driver that stayed connected: a late answer to an
\* earlier request, a timeout, a driver or daemon restart or a second transfer
\* never files a snapshot the driver refused (OnSnapshotCommand and
\* CommitStagedAppSnapshot: "it must never hold something unverified").
StoredAcceptedOrUnsent ==
    \A r \in Route : Possible(r) \subseteq accepted \cup unsent \cup {NoSnapshot}

\* When the App's whole transfer, to the route the daemon has, was accepted and the
\* store reported no error, a boot after any kill or power loss restores exactly
\* that snapshot, until the next one is stored or the medium fails
\* (OnSnapshotCommand: "every reboot would come back to defaults, which is exactly
\* what route restore exists to prevent").
ToldMeansStored ==
    told # NoSnapshot => Possible(told.route) = {told}

\* Without faults, the copy the daemon would store is the one the driver would
\* apply, once the driver has read what was sent (StageAppSnapshotCommand mirrors
\* SnapshotApplyController: "exactly as the driver requires").
SidesAgree ==
    faults = 0 /\ Free /\ wire = <<>> /\ Storable =>
        driver.staging /\ driver.staged = app_staged
=============================================================================
