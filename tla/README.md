# ViPERFX_RE: verification project

TLA+ models of the parts of this repository where several threads, processes or
messages meet, the TLC runs that check them on small instances, and TLAPS proofs
of what matters most for every instance. `PROJECT.json` holds the machine-readable
side: runs, the source lines every definition stands for, hazards, findings.

## 1. The system

    App ──(app socket)──┐                      ┌── audio server process ─────────────┐
                        │                      │  DriverDaemonBridge thread           │
    Owner process ──────┤  daemon (one thread) │    └─ DriverEventPublisher (fan-out) │
      (owner socket)    │  DaemonRuntime       │         └─ ViperContext × n          │
                        │   ├ DriverEventServer│◄──seq──►│   ├ SnapshotApplyController│
                        │   ├ SessionRegistry  │  packet │   ├ DspGraphSlots          │
                        │   ├ RouteWatcher     │         │   ├ ParameterMailbox       │
                        │   ├ SnapshotStore    │         │   └ IemContext             │
                        │   └ OwnerSupervisor  │         │  audio thread: Process()   │
                        └──────────────────────┘         │  command thread: AudioFlinger
                                                         └─────────────────────────────┘

| Component | State | Operations | What makes it correct | Module |
|---|---|---|---|---|
| SnapshotApplyController | staged bytes and metadata, announced route hash, last generation pair | BEGIN, CHUNK, COMMIT, ABORT, announce | the driver's state changes all at once, only to the announced route's snapshot, only forwards; the buffer stays within its declared size | SnapshotApply, AtomicSnapshot |
| ParameterMailbox | three slots, published and reading index | Publish (control), ConsumeLatest (audio, lock-free) | no torn read, never an older value, no lost publication | ParameterMailbox, LatestValue |
| DspGraphSlots, GraphCrossfade, ViperContext commands | two graphs, a packed atomic word, the fade | prepare, retract, consume, release; SET_CONFIG, RESET, ENABLE, DISABLE, Process | a graph in use is never rebuilt; a rebuilt graph is installed; graphs only get newer; slots are given back | DspGraphSlots |
| IemContext, IemGraphSlots | three graphs, a packed word, the desired structure and resources, a dirty flag | DispatchRawParam, TryPrepareDesiredGraph, Prepare, Reset, Process | a graph in use is not rebuilt; what was asked for ends up sounding | IemGraphs |
| DaemonRuntime: announce and restore | current and announced route, restore reasons, generations | RunOnce, announce, restore | an accepted restore is what the driver runs; the loop never wedges; the current route's snapshot ends up running | RouteRestore |
| DaemonRuntime: App relay; AppEventServer | the copy of the App's transfer | OnSnapshotCommand, StageAppSnapshotCommand, CommitStagedAppSnapshot | nothing the driver refused is stored, and what the App was told is stored survives a reboot | AppRelay |
| SnapshotStore | current, previous and temporary files | Commit (write, fsync, rename), Load | a crash at any point leaves the old or the new snapshot | SnapshotStore, AtomicStore |
| DriverEventPublisher, DriverDaemonBridge, DriverEventServer, SessionRegistry | contexts, sequence numbers, a bounded queue, sockets, the daemon's view, stale marks | register, publish, replay; Apply, MarkStaleAfter, RescanComplete | the daemon's view converges to the live contexts | EventStream |
| OwnerSupervisor, OwnerServer, OwnerProcess, owner process | owner state, deadline, back-off, pid, state file; the effect handle | spawn, handshake, adopt, own, rebuild | one owner at a time, its effect reported as it is, eventually one owner | OwnerSupervision |
| RouteWatcher, DeviceKey, RouteCache | the route and its cached copy | report, load | the route survives a restart | in RouteRestore and AppRelay |
| IemParameterMailbox | as ParameterMailbox | as ParameterMailbox | as ParameterMailbox | the same algorithm |
| GenerationArbiter, protocol codecs, PlanarBlockScheduler, IemTelemetry | – | pure functions, a sequence lock | agreement with a reference definition | not modelled |

Hard behaviours: the audio thread takes no lock and meets two other threads on
atomic words; a transfer is several messages to several contexts, any of which can
refuse; connections are replaced, processes die, answers come late; events are
numbered in one order and queued in another; a commit is five file operations;
generations are compared across routes and across restarts. `PROJECT.json`
"hazards" has each at its line.

## 2. The modules

### SnapshotApply (proofs: SnapshotApplyProofs; promise: AtomicSnapshot)

Variables carry the names of the controller's fields. One action per command that
`HandleSnapshotCommand` dispatches, every method running under `control_mutex_`:
`SetDaemonRoute`, `Begin`, `AppendSnapshot`, `Commit`, `Abort` and the malformed
forms of each. `Commit` is refused by the controller, idempotent, refused by the
committer before it touches the slots (`CommitterRefuses`), failed after it has
retracted the staged graph (`PrepareFails`), or applied. `BeginError` and
`CommitError` list the checks in the code's order. Bytes, snapshots, checksum and
codec are parameters; what decodes is a function `Codec`. `adopted` is the snapshot
`CommitDaemonSnapshot` made current in `parameter_snapshot_` and `resources_`;
`active` and `pending` are the graphs prepared from it, at the grain of one step per
operation (DspGraphSlots has the accesses): `SetConfig` and `SetConfigFails` prepare
and retract behind the controller's back, `ConsumePending`, `ReleasePrevious` and
`ProcessRefused` are the audio thread. `retracted` is history: a staged graph was
dropped and none prepared since. `AtomicSnapshot` is what the daemon may assume of
`adopted`: it changes only to a snapshot of the announced route and only forwards in
(app, daemon) order.

### ParameterMailbox (proofs: ParameterMailboxProofs; promise: LatestValue)

`Publish` and `ConsumeLatest` split at every access to shared memory. A parameter
block is two words written one after the other, so a torn copy is visible.
`FairSpec` is the sequentially consistent execution. `WeakSpec` adds what
release/acquire permits: the reader's second load of `published_index_` is
performed before its store to `reading_index_` is visible.

### DspGraphSlots (proofs: DspGraphSlotsProofs)

The packed word is a record; the audio thread's `Process` and the bridge thread's
`CommitDaemonSnapshot` are split at every access to it, AudioFlinger's commands are
one step. External assumption: AudioFlinger serialises commands with `process()`
of the same effect; the bridge thread is not covered by that lock. A compare-and-
swap loop is one step, its successful exchange; `PreparePending`'s single exchange,
which may fail, is a step of its own. A preparation that fails may have overwritten
the inactive graph (`PreparationFails`). `Process` loads `Previous()` to check it, to
dereference it, and for the rest of the block: `ProcessParams`, `ProcessApply` and
`ProcessLoadPrevious`. A fade is `FadeBlocks` blocks.

### IemGraphs (proofs: IemGraphsProofs)

The IEM half of the same context, under the same assumption on threads. It differs
from DspGraphSlots where it matters: there are three graphs, a rebuild may start
while a previous graph still fades, staging it makes the word forget that graph,
and a change that cannot be made now leaves `structural_dirty_` for a later
parameter to retry. `desired` is what the parameters and resources ask for; the
control thread's `TryPrepareDesiredGraph` is split at every access to the word, and
so are the three loads of `Previous()` in `Process` (`CheckPrevious`,
`ApplyPrevious`, `LoadPrevious`); if the second finds null, audioserver dies and a new
context starts (`Restarted`). `IemContext::Reset` is one step for its several loads:
only fades depend on them.
`forgotten` and `rate_lost` are history: they name the two situations in which the
code does not keep what one would expect of it (section 6).

### EventStream (proofs: EventStreamProofs)

`contexts_` and `made` are the publisher's records and the event each thread is
publishing; the number is taken (`Stamp`) before the queue's lock (`Enqueue`), as
in the code, and the bridge thread numbers replayed events one by one after the
contexts were collected, in any order, since `contexts_` is an `unordered_map`. Queue and sockets have capacities; what does not fit is
dropped where the code drops it. `registry`, `highest_sequence_` and
`rescan_needed_` follow `SessionRegistry::Apply` check by check. A context is its
id and its enabled flag; the other observations are data. `overtaken` is history:
the contexts whose latest event carries a lower number than something older.

### SnapshotStore (promise: AtomicStore), AppRelay (instance: MCAppRelay) (proofs of both: AppRelayProofs)

SnapshotStore is `Commit`, one file operation per step, each of which may fail.
`files` is what the kernel shows, `durable` what each file may hold after a power
loss: a rename counts only once the directory is synced, a file that was not
synced may be torn. `Loaded` is the load of `RestoreCurrentRoute`. `AtomicStore`
is a register per route to which only the snapshot being committed is written. It
also says that a Commit backs up what it replaces and may bring it back (`backup`,
`BringBack`): if the medium damages the current file after it was copied for
rotation, the rotation makes the copy the newest valid file again.

AppRelay extends it with the App's path: any decodable frames in any order,
`StageAppSnapshotCommand` before the relay, the wait for the answer, and after an
accepted COMMIT the store. The driver is SnapshotApply cut down to one context and
one chunk; a chunk can also be too long or one too many. Faults are timeouts,
failed sends, crashes of the driver, kills of the daemon and power losses.
`clean`, `told` and `unsent` are history: the transfer the App has made without a
slip, the snapshot it was told is applied and that was stored, and the chunks that
were staged but that the socket to a connected driver did not take. The store is
checked inside the relay: no run has it alone.

### OwnerSupervision (proofs: OwnerSupervisionProofs)

The daemon's loop as far as it concerns the owner (`phase`), the supervisor's
fields, the accepted connection and the backlog, `owner_pid` of the state file, and
the owner processes with their handles. The daemon may be killed between any two
steps. Clocks are flags: a deadline is armed until it expires. `surprises` counts
two things the code cannot tell from their harmless twins: a deadline that expires
on a living owner, and a daemon killed while its state file does not name the
living owner.

### RouteRestore (proofs: RouteRestoreProofs; instances: MCRouteRestore)

Composes the daemon's control loop, the socket, the bridge thread and n contexts.
`pc` is the progress of `RunOnce`: poll, App messages, announce, wait, restore,
wait for BEGIN, wait for COMMIT. Inside a wait the daemon keeps polling the driver,
so a new connection can replace the client there too. Each connection has a queue
of commands and of events; `AcceptPending` makes the next waiting connection the
client. A context's transfer state is that of SnapshotApply reduced to a single
chunk that decodes: `Accepts` and `After` are its guards and effects. A fan-out to
all live contexts is one step and is accepted only if every context accepts.
`ready` says that `CommitDaemonSnapshot` would succeed. `DaemonRestart` keeps what
is persisted, the route; `DriverCrash` loses what the process held, and a context
may be created again in the next process. `sampled` is history: the connection at
which `RunOnce` last looked. Queue capacity and numbering are EventStream's.

## 3. Runs

| Run | Shows | States |
|---|---|---|
| snapshot_apply | type, buffer bounds, generations, the graph that sounds next, answers, refinement of AtomicSnapshot | 448,390 |
| parameter_mailbox | exclusive slots, no torn read, refinement of LatestValue, publications are taken | 17,128 |
| graph_slots | exclusive rebuild, exchange cannot fail, no null previous graph, distinct roles, graphs advance, previous is released | 46,598 |
| iem | exclusive rebuild and no null previous graph but for a forgotten one, nothing asked for is lost, changes take effect | 1.08 million |
| route_restore | AcceptedMeansAdopted with two contexts, a crash, a late answer, a route change | 2.5 million |
| route_restore_live | LoopNeverWedges under a driver crash, a daemon restart and a route change; RouteEventuallyRestored as long as the run is undisturbed (below) | 611,666 |
| event_stream | no live context is lost, the view is wrong only where an event was overtaken, the view settles | 1.47 million |
| app_relay | what is stored was accepted or could not be sent, what the App was told is there after a reboot, daemon and driver stage the same, a damaged file is survived, refinement of AtomicStore | 1.74 million |
| owner | one owner, reported as it is, and eventually one or an admitted failure | 125,214 |

Runs that show a disagreement between the code and what the repository says of it:

| Run | What TLC shows |
|---|---|
| parameter_mailbox_weak | without a store-load barrier the reader can return a torn block |
| route_restore_new_context | an effect created on an existing connection has no route; its refusal blocks all contexts |
| route_restore_restart | after a daemon restart another route's snapshot is "idempotent" and not applied |

What the conditions in the properties mean. They are stated so that removing any
of them makes TLC find a behaviour of the code that breaks the property; section 6
describes each.
* `AdoptedSoundsNext`, and `AckDescribesAdopted` in what it says of the graph that
  sounds next, except `retracted`.
* `NoContextLost`, `WrongOnlyIfOvertaken`, `ViewSettles`: no event or rescan request
  was dropped for want of room, and the driver process was not replaced.
  `WrongOnlyIfOvertaken` excepts contexts in `overtaken`.
* `RouteEventuallyRestored`: no timeout, no daemon restart, one effect at a time, and
  the loop sampled `Connected()` between two connections (`Undisturbed`); a newer App
  generation of another route may keep running (`Outranked`).
* `SingleOwner`, `OwnerSettles` and the second half of `OwnedIsReal`: no surprise.
* `StoredAcceptedOrUnsent` excepts `unsent`. `ToldMeansStored`: a transfer to the daemon's current route without a refused frame,
  and no store error. `SidesAgree`: no fault.
* `RebuildExclusive` and `PreviousNotNull` (IEM) except `forgotten`, `DesiredReflected` excepts `rate_lost`.

Bounds. SnapshotApply: two hashes, buffers of at most three bytes, metadata that
agrees and disagrees with the bytes, enough generations for older, equal and newer,
and four graphs: a first one, two applied snapshots and a reconfiguration.
ParameterMailbox: six publications, twice the number of slots, so every slot is
reused while the reader holds any other. DspGraphSlots: two sample rates, a fade of
two blocks and enough generations for three commits. IemGraphs: two structures, two
rates, three preparations (each graph is built once, one is rebuilt), a fade of one
block. EventStream: two contexts, three publications, a queue of one and sockets of
four frames, which HELLO and a full replay just fill, so both overflow; one snapshot command or restart; one publishing
thread beside the bridge thread, which publishes too (two publishing threads with
three publications and no disturbance, or two publications and one, pass as well).
AppRelay: five frames, enough for one transfer and the start of another or for a
transfer with two slips; one fault; one damaged file; a snapshot of each of two App
generations and a route to move to. OwnerSupervision: two faults and one surprise,
so that faults meet in recovery; two spawn attempts. RouteRestore: two routes, two
contexts where they interact, at most two connections, one crash, one restart, one
late answer, one route change; every counter stops when the environment stops, so
the bounds on the environment bound the state.

Fairness. The audio thread (`ConsumeLatest`, `Process`) runs as long as audio
plays; the daemon's loop and the bridge thread are endless loops with finite sleeps
(`RunOnce`, `Poll`, `DaemonLoop`, `RunBridgeThread`, `HandleSnapshotCommand`,
`EnsureConnected`, `DrainQueue`, `CloseConnection`); the control thread finishes a
preparation it began (`Control`) and a publishing thread its event; time passes
(`RouteSettles`, `AnnounceFallsDue`, `Expire`, `RetryDue`, `Timeout` once no answer
can come); init restarts a dead daemon; an owner's threads are scheduled;
AudioFlinger configures an effect it created. Nothing is assumed of the App, of
crashes, or of effect creation and release. Deadlock checking is off in the runs
whose environment is bounded: such a system may stop.

## 4. Proofs

All for every value of the constants, from the assumptions named in the modules. An
inductive invariant that is not itself checked by a run was checked by TLC on the
run's instance before it was proved.

* SnapshotApplyProofs: `TypeCorrect`, `StagingBounded`, `GenerationsCorrect`,
  `AdoptedSoundsNextCorrect`, `AckCorrect` and `Refinement` (SnapshotApply implements AtomicSnapshot). The
  inductive invariant is the conjunction of the type invariant, the four safety
  invariants and `StagedBehindActive` (a graph is staged or retracted only behind
  an active one); the staging bounds need the
  metadata's, and the refinement needs
  `GenerationsDescribeAdopted`, because the controller compares recorded
  generations where the abstract specification compares snapshots.
* ParameterMailboxProofs: `TypeCorrect`, `SlotExclusiveCorrect`,
  `NoTornReadCorrect`, `Refinement`. The invariant states, per program counter of
  the two threads, which slot is private to the writer and what the reader's
  re-check established: after it, the reader's slot is announced and is not the
  writer's target.
* DspGraphSlotsProofs: `TypeCorrect`, `RebuildExclusiveCorrect`, `ExchangeCorrect`,
  `PreviousNotNullCorrect`, `ActiveAdvancesCorrect`. The invariant says that while the bridge
  rebuilds, the word is exactly the one it loaded: with nothing pending and nothing
  previous no step of the audio thread can change it. `ActiveAdvances` needs that
  pending graphs carry a newer generation.
* IemGraphsProofs: `TypeCorrect`, `RebuildExclusiveCorrect`,
  `PreviousNotNullCorrect`, `DesiredReflectedCorrect`. Here the word may change during a rebuild, but only by
  losing its previous graph (`RebuildHolds`); the audio thread's previous graph is
  the word's until the word forgets it (`LocalsCurrent`); the rebuilt graph and the
  upcoming one fit what is desired unless something is dirty (`Reflected`).
* AppRelayProofs, the store: `StoreTypeCorrect`, `SurvivesCorruptionCorrect` and
  `StoreRefinement` (SnapshotStore implements AtomicStore), for any number of
  failures of the medium. `CommitProgress` says what the file operations so far have
  established, and that only the medium can have undone it; `UndamagedKept` and
  `DamagedKept` say which files are valid after no and after one failure;
  `OwnRoute`, that a file only holds snapshots of its route.
* AppRelayProofs, the relay: `RelayTypeCorrect`, `RelayImplementsStore` (every behaviour of the
  relay is one of the store, so the theorems above hold in it),
  `StoredAcceptedCorrect`, `ToldMeansStoredCorrect`, `SidesAgreeCorrect`.
  `RequestInv`: numbers on the connection grow, and the message with the number of the
  awaited request is that request. On it rest `AcceptInv` (a COMMIT on its way, or its
  answer, vouches for the daemon's copy: the driver has the same bytes, or they went
  unsent), `ToldInv` (through a transfer without a slip, what the driver has staged
  and what is still on the wire add up to the daemon's copy, until it is stored) and
  `SidesInv` (without faults both sides begin, fill and drop their buffers together).
* OwnerSupervisionProofs: `TypeCorrect`, `SingleOwnerCorrect`, `OwnedIsRealCorrect`.
  `Tracked` and `Recorded`: without a surprise the living owner is the one that is
  tracked, or, with the daemon down, the one in the state file. `Reported` and
  `OwnedGreeted`: the last report of a living process on its connection is true, and
  OWNED is about a connection whose greeting has been read.
* EventStreamProofs: `TypeCorrect`, `NoContextLostCorrect`,
  `WrongOnlyIfOvertakenCorrect`. Unless something was dropped (`CoverInv`): ids and numbers on their way are below the counters and no
  RELEASED of a live context is among them (`InOrder`); a replayed event is newer than
  all the registry saw when it arrives, so it is no duplicate (`ReplayNewer`); a live
  context is known, or introduced by an event on its way, or a replay is due
  (`Covered`); and every terminator spares every live context, because its own replay
  names it, with nothing between that could mark it stale, or because the context is
  not introduced before it (`TerminatorsSpare`). For `WrongOnlyIfOvertaken`
  (`ViewInv`), every context that is not overtaken is accounted for in one of five
  ways: its last word is being published (`Pending`), is on its way with nothing after
  it that the registry would take instead (`OnItsWay`), has arrived and all that
  follows is telemetry or a duplicate (`Settled`); or a replay will say it before
  anything else introduces the context (`ReplayDue`); or the registry does not know
  the context and nothing on its way introduces it (`Silent`). The order of arrival
  matters as much as the numbers: an introducing event that arrived after a RELEASED
  would be taken whatever its number, because Apply has nothing left to compare it with;
  `Beaten` says which later events are harmless. Each step moves a context between the five or
  puts it into `overtaken`; a restarted daemon finds live contexts with a replay due
  and released ones silent.
* RouteRestoreProofs: `TypeCorrect`, `AcceptedMeansAdoptedCorrect`. The second has the
  hypothesis that the daemon was not restarted: a restarted daemon numbers its
  generations from 1 again, and the run route_restore_restart shows the property
  fails then. Crashes and reconnections of the driver, timeouts, late answers, route
  changes and contexts that come and go are all included. `TransferInv` has
  five parts: commands, answers and the contexts' transfers carry request ids and
  daemon generations below the daemon's counters (`CommandsNumbered`,
  `AnswersNumbered`, `ContextsNumbered`), so an answer with the awaited id is the
  answer to that request and no earlier snapshot has the generation of the one being sent;
  while the daemon waits for BEGIN, that command is the last on its connection, or it
  was answered, and if it was accepted every live context has staged what is being sent
  or nothing (`BeginUnderWay`); and while it waits for COMMIT, only that CHUNK and COMMIT
  are left, and the contexts that accepted the COMMIT have adopted it (`CommitUnderWay`).

What proof attempts changed in the models. The refinement of AtomicStore was false
when the current file is damaged between its copy and its rotation, which the run's
bounds did not reach; `backup` and `BringBack` state what the code guarantees. That
only accepted snapshots are stored failed where a chunk of a second transfer is
refused by a full socket (section 6); `unsent` names that case. EventStream replayed
contexts in the order of their ids, which an unordered map does not do.

Only model-checked: all liveness (`EventuallyTaken`, `PreviousReleased`,
`ChangeTakesEffect`, `LoopNeverWedges`, `RouteEventuallyRestored`, `ViewSettles`,
`OwnerSettles`), because fairness and ENABLED are beyond the prover. Every invariant,
every action property and every refinement of a passing run is stated by a theorem.

## 5. Not modelled

Signal processing (IEMDSP, the ViPER engine), generated tables, host tools, the
installer, PCM conversion: data without control worth checking. Byte layouts of the
protocol: SnapshotApply takes decoding as a parameter. Parameter reads and
telemetry of ViperContext; session deltas and release of the owner; the state
file's statistics. Where the daemon's three jobs (restore, relay, owner) share the
loop, each module has the others idle; the relay's and the restore's transfers can
meet in the driver, and AppRelay has the restore switched off.

Steps merged or left out because no property tells them apart. EventStream: a commit's
generations are published by one context, although the fan-out reaches all, and the
steps of `Publish` after the number is taken are one. OwnerSupervision: `OpenLink` is the
connection and OWNER_HELLO together, so the watchdog says nothing on a link before its
greeting; `Abandon`'s SIGTERM ends the process at once. RouteRestore: the registry takes
the contexts of a restarted driver for new ones (the duplicate test is EventStream's),
and an answer the bridge drops because its socket is full shows only as a timeout.

The share of the implementation's lines that the map covers stays small for one
reason: of 58,138 counted lines, 36,594 are the generated table
`IEMDSP/resources/generated/IemResources.cpp`, and most of the rest is floating-point
signal processing. Of the daemon, the driver's control code and the owner, the parts
that change state are mapped.

## 6. Known limits of the code

What the models show the code does not guarantee, beyond the three violation runs.

Snapshot. A COMMIT whose graph cannot be prepared, and a SET_CONFIG that fails, have
already retracted the graph of the snapshot acknowledged before, if no block consumed
it: its parameters still reach the running graph through the mailbox, its convolver
kernel and DDC coefficients do not. The recorded pair stays, so sending the snapshot
again is answered as idempotent. tests/ViperContextSnapshotTest.cpp:306-307 wants "the
previously applied kernel" to "still be live" after a failed commit; it processes a
block before, which is why it passes. A newer snapshot or a valid SET_CONFIG, which prepares
from what was adopted, brings it back.

Restore. A route whose snapshot has a lower App generation than the running one is
refused as stale, because generations are compared across routes. A restore refused
before SET_CONFIG is not retried after it. A driver that dies and reconnects between
two samples of `Connected()` is not told the route. A BEGIN answered after the daemon
gave up leaves the context staging; the daemon never sends ABORT. A valid SET_CONFIG
during a fade finds no slot and leaves the effect bypassed.

Events. After a driver restart ids and numbers start over under the same boot id, so
the registry takes first events for duplicates, and nothing marks the old contexts
stale on reconnection. A replayed event, or the generations a commit publishes, can
carry a higher number than a newer event of the same context, which is then dropped as
a duplicate. A dropped event shows as a gap only if a later live event arrives, and a
rescan request that meets a full socket is not repeated. HELLO and answers take
numbers the registry never sees, which makes for gaps, and rescans, without loss.

App relay. A route reported between BEGIN and COMMIT, a daemon that restarted without
a cached route, or a chunk the socket refused and the App sent again, end in a
snapshot the driver runs and the daemon does not store, and the App is told it was
accepted; so is a store that failed. When a send fails on a connection that stays up,
`OnSnapshotCommand` returns (DaemonRuntime.cpp:618) with its copy staged: if the driver
still holds a complete earlier transfer, a COMMIT makes it accept that one and the
daemon file the later one, which the comment at 651-652 rules out. A second BEGIN, a timeout or a killed daemon
leave the driver staging. Parent directories of a new route are not synced.

Owner. A handshake longer than the deadline on an owner this daemon did not spawn, or
a daemon killed before it wrote the pid, can leave two owners that evict each other at
every reconnection. A connected owner that timed out may still report OWNED, with no
pid known. An answer to OWN_SESSION that meets a closed link ends the owner.

IEM. Staging a graph, or resetting the runtime, while a block renders the previous
graph makes the word forget it, and a second rebuild in that block may take it. If it
happens between `Process`'s check of `Previous()` and the second call it dereferences
(IemContext.cpp:227-228), that is a null pointer in audioserver. A lost
exchange reports FAILED and is retried only at the next parameter. `matches_desired`
ignores the sample rate, so cancelling the graph of a new rate can leave the old one
running. `IemContext::Prepare` fails while a graph is pending, which SET_CONFIG does
not retract.

## 7. Plan

1. `AcceptedMeansAdopted` across daemon restarts, should the daemon come to persist
   its generations: `ContextsNumbered` is the part of `TransferInv` a restart breaks.
2. GenerationArbiter and PlanarBlockScheduler as operators against a reference;
   IemTelemetry's sequence lock.
3. The relay and the restore together, against one driver.
