-------------------------- MODULE OwnerSupervision --------------------------
(***************************************************************************)
(* Who holds the effect handle: DaemonRuntime's owner half (OwnerServer,   *)
(* OwnerSupervisor, the daemon.state file) and the owner processes it      *)
(* spawns (OwnerMain, EffectOwner).                                        *)
(*                                                                         *)
(* A pass of the control loop accepts at most one connection, reads its    *)
(* frames, runs the supervisor, and publishes owner_pid; the daemon may    *)
(* be killed between any two of these.  Clocks are flags: a deadline is    *)
(* armed until it expires, a retry is due or not.  A process keeps its     *)
(* handle when the daemon dies and reconnects; the handle goes stale when  *)
(* audioserver restarts, until the watchdog rebuilds it.                   *)
(*                                                                         *)
(* Session deltas only feed a statistic and are left out, and so is        *)
(* RELEASE_SESSION, which nothing in the daemon sends.                     *)
(***************************************************************************)
EXTENDS Naturals, Sequences, FiniteSets

CONSTANTS
    kMaxSpawnAttempts,
    MaxFaults,              \* bound: crashes, restarts, failed creations and spawns
    MaxSurprises            \* bound: see Late and Unpublished below

ASSUME OwnerAssumption ==
    kMaxSpawnAttempts \in Nat \ {0} /\ MaxFaults \in Nat /\ MaxSurprises \in Nat

Pid == 1 .. (1 + MaxFaults + MaxSurprises)
Backlog == 2                \* listen(fd, 2)

VARIABLES
    phase,                  \* the daemon's loop; "down" while it is dead
    sup,                    \* OwnerSupervisor
    client, backlog,        \* the accepted connection; those not yet accepted
    commanded,              \* OWN_SESSION was sent on this connection
    published,              \* owner_pid in daemon.state
    proc,                   \* the owner processes
    effects,                \* effect ids handed out by audioserver so far
    faults, surprises

daemonVars == <<phase, sup, client, backlog, commanded, published>>
vars == <<daemonVars, proc, effects, faults, surprises>>

NoClient == [pid |-> 0, up |-> <<>>, down |-> <<>>, eof |-> FALSE]

NewSupervisor ==
    [state_ |-> "ABSENT", pid_ |-> 0, pid_is_ours_ |-> FALSE, effect_id_ |-> 0,
     spawn_attempts_ |-> 0, arm_pending |-> FALSE, backoff_pending |-> FALSE,
     deadline |-> "none", retry |-> "due"]

NotStarted == [at |-> "none", handle |-> 0, dead |-> FALSE, asked |-> FALSE,
               busy |-> FALSE]

Init ==
    /\ phase = "accept" /\ sup = NewSupervisor
    /\ client = NoClient /\ backlog = <<>> /\ commanded = FALSE
    /\ published = 0
    /\ proc = [p \in Pid |-> NotStarted]
    /\ effects = 0 /\ faults = 0 /\ surprises = 0

Fault == faults < MaxFaults /\ faults' = faults + 1
Surprise == surprises < MaxSurprises /\ surprises' = surprises + 1

Living == {p \in Pid : proc[p].at \in {"boot", "up"}}

-----------------------------------------------------------------------------
(* Connections.  A process has at most one open connection.                *)

Ends(c, p) == IF c.pid = p THEN [c EXCEPT !.eof = TRUE] ELSE c

\* The process is gone: the daemon reads what it sent, then the end.
Hangs(p) ==
    /\ client' = Ends(client, p)
    /\ backlog' = [i \in DOMAIN backlog |-> Ends(backlog[i], p)]

Linked(p) ==
    \/ client.pid = p /\ ~client.eof
    \/ \E i \in DOMAIN backlog : backlog[i].pid = p /\ ~backlog[i].eof

\* What the process sends is lost when its link is closed (trySend).
Sends(p, message) ==
    /\ client' = IF client.pid = p /\ ~client.eof
                 THEN [client EXCEPT !.up = Append(@, message)] ELSE client
    /\ backlog' = [i \in DOMAIN backlog |->
                    IF backlog[i].pid = p /\ ~backlog[i].eof
                    THEN [backlog[i] EXCEPT !.up = Append(@, message)] ELSE backlog[i]]

-----------------------------------------------------------------------------
(* OwnerSupervisor *)

OnConnected(pid) ==
    [sup EXCEPT !.pid_ = pid,
                !.pid_is_ours_ = IF sup.state_ = "ABSENT" THEN FALSE ELSE @,
                !.state_ = IF @ = "OWNED" THEN @ ELSE "STARTING",
                !.arm_pending = IF sup.state_ = "OWNED" THEN @ ELSE TRUE]

OnOwned(id) ==
    [sup EXCEPT !.effect_id_ = id, !.state_ = "OWNED", !.spawn_attempts_ = 0,
                !.deadline = "none"]

OnOwnerFailed ==
    [sup EXCEPT !.effect_id_ = 0, !.state_ = "FAILED", !.deadline = "none"]

OnDisconnected ==
    [sup EXCEPT !.effect_id_ = 0, !.pid_ = 0, !.pid_is_ours_ = FALSE,
                !.state_ = "ABSENT", !.deadline = "none", !.backoff_pending = TRUE]

\* The pending timers are started against the caller's clock.
Armed ==
    [sup EXCEPT !.arm_pending = FALSE, !.backoff_pending = FALSE,
                !.deadline = IF sup.arm_pending THEN "armed" ELSE @,
                !.retry = IF sup.backoff_pending THEN "later" ELSE @]

NeverOverdue(s) == FALSE

\* A zero deadline has passed.
Overdue(s) == s.state_ = "STARTING" /\ s.deadline # "armed"

AbandonKeepsOurs(s) ==
    /\ sup' = [s EXCEPT !.effect_id_ = 0, !.pid_ = 0,
                        !.state_ = "ABSENT", !.retry = "later"]
    /\ IF s.pid_is_ours_ /\ s.pid_ \in Living
       THEN proc' = [proc EXCEPT ![s.pid_].at = "dead"] /\ Hangs(s.pid_)
       ELSE UNCHANGED <<proc, client, backlog>>

\* STARTING too long: the owner is killed if it was spawned here.
Abandon(s) ==
    /\ sup' = [s EXCEPT !.effect_id_ = 0, !.pid_ = 0, !.pid_is_ours_ = FALSE,
                        !.state_ = "ABSENT", !.retry = "later"]
    /\ IF s.pid_is_ours_ /\ s.pid_ \in Living
       THEN proc' = [proc EXCEPT ![s.pid_].at = "dead"] /\ Hangs(s.pid_)
       ELSE UNCHANGED <<proc, client, backlog>>

SpawnDue(s) == s.state_ = "ABSENT" /\ s.retry = "due"

Exhausted(s) ==
    /\ sup' = [s EXCEPT !.state_ = "FAILED"]
    /\ UNCHANGED <<proc, client, backlog, faults>>

Spawn(s, p) ==
    /\ proc[p].at = "none" /\ \A q \in Pid : q < p => proc[q].at # "none"
    /\ proc' = [proc EXCEPT ![p].at = "boot"]
    /\ sup' = [s EXCEPT !.spawn_attempts_ = @ + 1, !.pid_ = p, !.pid_is_ours_ = TRUE,
                        !.state_ = "STARTING", !.deadline = "armed"]
    /\ UNCHANGED <<client, backlog, faults>>

SpawnFails(s) ==
    /\ Fault
    /\ sup' = [s EXCEPT !.spawn_attempts_ = @ + 1, !.retry = "later",
                        !.state_ = IF s.spawn_attempts_ + 1 >= kMaxSpawnAttempts
                                   THEN "FAILED" ELSE "ABSENT"]
    /\ UNCHANGED <<proc, client, backlog>>

\* OwnerSupervisor::Poll(true, now).
Supervise ==
    \/ Overdue(Armed) /\ Abandon(Armed) /\ UNCHANGED faults
    \/ /\ SpawnDue(Armed)
       /\ IF Armed.spawn_attempts_ >= kMaxSpawnAttempts THEN Exhausted(Armed)
          ELSE SpawnFails(Armed) \/ \E p \in Pid : Spawn(Armed, p)
    \/ /\ ~Overdue(Armed) /\ ~SpawnDue(Armed)
       /\ sup' = Armed
       /\ UNCHANGED <<proc, client, backlog, faults>>

-----------------------------------------------------------------------------
(* The daemon's loop *)

\* OwnerServer::DropClient(true), with OnOwnerDisconnected.
AcceptPending ==
    /\ phase = "accept" /\ phase' = "frames"
    /\ IF backlog # <<>>
       THEN /\ client' = Head(backlog) /\ backlog' = Tail(backlog)
            /\ IF client # NoClient THEN sup' = OnDisconnected /\ commanded' = FALSE
               ELSE UNCHANGED <<sup, commanded>>
       ELSE UNCHANGED <<client, backlog, sup, commanded>>
    /\ UNCHANGED <<published, proc, effects, faults, surprises>>

HandleFrame ==
    /\ phase = "frames" /\ client.up # <<>>
    /\ LET message == Head(client.up)
       IN  /\ sup' = CASE message.type = "OWNER_HELLO" -> OnConnected(client.pid)
                       [] message.type = "OWNED" -> OnOwned(message.effect_id)
                       [] message.type = "OWN_FAILED" -> OnOwnerFailed
           /\ commanded' = IF message.type = "OWNER_HELLO" THEN FALSE ELSE commanded
    /\ client' = [client EXCEPT !.up = Tail(@)]
    /\ UNCHANGED <<phase, backlog, published, proc, effects, faults, surprises>>

DropClient ==
    /\ phase = "frames" /\ client.up = <<>> /\ client.eof
    /\ client' = NoClient /\ sup' = OnDisconnected /\ commanded' = FALSE
    /\ phase' = "drive"
    /\ UNCHANGED <<backlog, published, proc, effects, faults, surprises>>

NoMoreFrames ==
    /\ phase = "frames" /\ client.up = <<>> /\ ~client.eof
    /\ phase' = "drive"
    /\ UNCHANGED <<sup, client, backlog, commanded, published, proc, effects,
                   faults, surprises>>

\* DriveOwner, first half.
PollSupervisor ==
    /\ phase = "drive" /\ phase' = "command"
    /\ Supervise
    /\ UNCHANGED <<commanded, published, effects, surprises>>

\* DriveOwner, second half: one OWN_SESSION per connection.
Command ==
    /\ phase = "command" /\ phase' = "write"
    /\ IF client.pid # 0 /\ ~client.eof /\ ~commanded /\ sup.state_ # "OWNED"
       THEN /\ client' = [client EXCEPT !.down = Append(@, "OWN_SESSION")]
            /\ commanded' = TRUE
       ELSE UNCHANGED <<client, commanded>>
    /\ UNCHANGED <<sup, backlog, published, proc, effects, faults, surprises>>

WriteStateFile ==
    /\ phase = "write" /\ phase' = "accept"
    /\ published' = sup.pid_
    /\ UNCHANGED <<sup, client, backlog, commanded, proc, effects, faults, surprises>>

DaemonLoop ==
    \/ AcceptPending \/ HandleFrame \/ DropClient \/ NoMoreFrames
    \/ PollSupervisor \/ Command \/ WriteStateFile

\* A killed daemon whose state file does not name the living owner.
Unpublished == Living \ {published} # {}

DaemonKilled ==
    /\ phase # "down" /\ Fault
    /\ IF Unpublished THEN Surprise ELSE UNCHANGED surprises
    /\ phase' = "down" /\ sup' = NewSupervisor /\ commanded' = FALSE
    /\ client' = NoClient /\ backlog' = <<>>
    /\ UNCHANGED <<published, proc, effects>>

SeedNobody == NewSupervisor

\* SeedSurvivingOwner(ReadPublishedOwnerPid()).
Seeded ==
    IF published \in Living
    THEN [NewSupervisor EXCEPT !.pid_ = published, !.state_ = "STARTING",
                               !.arm_pending = TRUE]
    ELSE NewSupervisor

Start ==
    /\ phase = "down" /\ phase' = "accept"
    /\ sup' = Seeded
    /\ UNCHANGED <<client, backlog, commanded, published, proc, effects,
                   faults, surprises>>

\* A deadline that expires on a living owner, slower than kHandshakeTimeout to
\* connect or to create its effect, or before a dead one's last frames are read.
Late ==
    \/ sup.pid_ \in Living \/ client.pid = sup.pid_
    \/ \E i \in DOMAIN backlog : backlog[i].pid = sup.pid_

Expire ==
    /\ phase # "down" /\ sup.state_ = "STARTING" /\ sup.deadline = "armed"
    /\ IF Late THEN Surprise ELSE UNCHANGED surprises
    /\ sup' = [sup EXCEPT !.deadline = "expired"]
    /\ UNCHANGED <<phase, client, backlog, commanded, published, proc, effects, faults>>

RetryDue ==
    /\ phase # "down" /\ sup.retry = "later"
    /\ sup' = [sup EXCEPT !.retry = "due"]
    /\ UNCHANGED <<phase, client, backlog, commanded, published, proc, effects,
                   faults, surprises>>

-----------------------------------------------------------------------------
(* The owner processes *)

\* openLink: connect, and OWNER_HELLO.
OpenLink(p) ==
    /\ p \in Living /\ ~Linked(p) /\ ~proc[p].busy
    /\ phase # "down" /\ Len(backlog) < Backlog
    /\ backlog' = Append(backlog, [pid |-> p, up |-> <<[type |-> "OWNER_HELLO", effect_id |-> 0]>>,
                                   down |-> <<>>, eof |-> FALSE])
    /\ proc' = [proc EXCEPT ![p].at = "up"]
    /\ UNCHANGED <<phase, sup, client, commanded, published, effects, faults, surprises>>

\* The first connect must succeed; a later one is retried for two minutes.
Exits(p) ==
    /\ phase = "down" /\ p \in Living /\ ~proc[p].busy
    /\ IF proc[p].at = "boot" THEN UNCHANGED faults ELSE Fault
    /\ proc' = [proc EXCEPT ![p].at = "dead"]
    /\ UNCHANGED <<daemonVars, effects, surprises>>

Owned(id) == [type |-> "OWNED", effect_id |-> id]
OwnFailed == [type |-> "OWN_FAILED", effect_id |-> 0]

\* createAndEnable: a new effect, or none.
Creates(p) ==
    /\ effects' = effects + 1
    /\ proc' = [proc EXCEPT ![p].handle = effects + 1, ![p].dead = FALSE, ![p].asked = TRUE,
                          ![p].busy = FALSE]
    /\ UNCHANGED faults

CannotCreate(p) ==
    /\ Fault
    /\ proc' = [proc EXCEPT ![p].handle = 0, ![p].dead = FALSE, ![p].asked = TRUE,
                          ![p].busy = FALSE]
    /\ UNCHANGED effects

\* serve() has read OWN_SESSION; handle() and the watchdog exclude each other.
ReadCommand(p) ==
    /\ p \in Living /\ ~proc[p].busy
    /\ client.pid = p /\ ~client.eof /\ client.down # <<>>
    /\ client' = [client EXCEPT !.down = Tail(@)]
    /\ proc' = [proc EXCEPT ![p].busy = TRUE]
    /\ UNCHANGED <<phase, sup, backlog, commanded, published, effects, faults, surprises>>

\* handle(OWN_SESSION): a handle that is held is reported as it is.
AnswerCommand(p) ==
    /\ p \in Living /\ proc[p].busy /\ Linked(p)
    /\ \/ /\ proc[p].handle # 0 /\ Sends(p, Owned(proc[p].handle))
          /\ proc' = [proc EXCEPT ![p].busy = FALSE]
          /\ UNCHANGED <<effects, faults>>
       \/ proc[p].handle = 0 /\ Creates(p) /\ Sends(p, Owned(effects + 1))
       \/ proc[p].handle = 0 /\ CannotCreate(p) /\ Sends(p, OwnFailed)
    /\ UNCHANGED <<phase, sup, commanded, published, surprises>>

\* The answer meets a closed link: handle() throws, run() and main() do not catch
\* it before System.exit, and the handle goes with the process.
AnswerIntoClosedLink(p) ==
    /\ p \in Living /\ proc[p].busy /\ ~Linked(p)
    /\ proc' = [proc EXCEPT ![p].at = "dead"]
    /\ UNCHANGED <<daemonVars, effects, faults, surprises>>

Broken(p) == proc[p].asked /\ ~proc[p].busy /\ (proc[p].handle = 0 \/ proc[p].dead)

RebuildsSilently(p) ==
    /\ p \in Living /\ Broken(p)
    /\ Creates(p)
    /\ UNCHANGED <<daemonVars, surprises>>

\* checkHandleLiveness, every second, whether or not there is a daemon.
Rebuilds(p) ==
    /\ p \in Living /\ Broken(p)
    /\ Creates(p) /\ Sends(p, Owned(effects + 1))
    /\ UNCHANGED <<phase, sup, commanded, published, surprises>>

CannotRebuild(p) ==
    /\ p \in Living /\ Broken(p)
    /\ CannotCreate(p) /\ Sends(p, OwnFailed)
    /\ UNCHANGED <<phase, sup, commanded, published, surprises>>

OwnerCrash(p) ==
    /\ p \in Living /\ Fault
    /\ proc' = [proc EXCEPT ![p].at = "dead"]
    /\ Hangs(p)
    /\ UNCHANGED <<phase, sup, commanded, published, effects, surprises>>

\* Every handle dies with audioserver and keeps its id.
AudioserverRestart ==
    /\ Fault /\ \E p \in Living : proc[p].handle # 0
    /\ proc' = [p \in Pid |-> [proc[p] EXCEPT !.dead = proc[p].handle # 0]]
    /\ UNCHANGED <<daemonVars, effects, surprises>>

Environment ==
    \/ DaemonKilled \/ AudioserverRestart
    \/ \E p \in Pid : OwnerCrash(p) \/ CannotRebuild(p) \/ Exits(p)

OwnerStep(p) ==
    OpenLink(p) \/ ReadCommand(p) \/ AnswerCommand(p) \/ AnswerIntoClosedLink(p) \/ Rebuilds(p)

Next ==
    \/ DaemonLoop \/ Start \/ Expire \/ RetryDue
    \/ \E p \in Pid : OwnerStep(p)
    \/ Environment

\* The loop runs for ever, init restarts the daemon, time passes, and a living
\* owner's two threads are scheduled.
Fairness ==
    /\ WF_vars(DaemonLoop) /\ WF_vars(Start) /\ WF_vars(Expire) /\ WF_vars(RetryDue)
    /\ \A p \in Pid : /\ WF_vars(OpenLink(p)) /\ WF_vars(ReadCommand(p))
                      /\ WF_vars(AnswerCommand(p)) /\ WF_vars(AnswerIntoClosedLink(p))
                      /\ WF_vars(Rebuilds(p))

Spec == Init /\ [][Next]_vars /\ Fairness

-----------------------------------------------------------------------------
(* Properties *)

\* Types, and the supervisor's own consistency: it only claims a process as its
\* child while it tracks one, and counts no more spawns than its budget.
TypeOK ==
    /\ phase \in {"down", "accept", "frames", "drive", "command", "write"}
    /\ sup.state_ \in {"ABSENT", "STARTING", "OWNED", "FAILED"}
    /\ sup.pid_ \in Pid \cup {0} /\ published \in Pid \cup {0}
    /\ client.pid \in Pid \cup {0} /\ Len(backlog) <= Backlog
    /\ commanded \in BOOLEAN
    /\ proc \in [Pid -> [at : {"none", "boot", "up", "dead"}, handle : 0 .. effects,
                         dead : BOOLEAN, asked : BOOLEAN, busy : BOOLEAN]]
    /\ faults \in 0 .. MaxFaults /\ surprises \in 0 .. MaxSurprises
    /\ sup.pid_is_ours_ => sup.pid_ # 0
    /\ sup.spawn_attempts_ <= kMaxSpawnAttempts
    /\ sup.pid_ # 0 => proc[sup.pid_].at # "none"

\* Two owners would mean two AudioFlinger modules (Start: "Spawning
\* unconditionally here would create a second owner").  It takes a handshake that
\* outlasts kHandshakeTimeout, or a daemon killed before it published the pid.
SingleOwner == surprises = 0 => Cardinality(Living) <= 1

\* OWNED is what makes the App stand back.  Once the frames sent so far are read,
\* it names the connected process and the effect id that process really has,
\* through reconnects and rebuilt handles (checkHandleLiveness: "the daemon's
\* published id would otherwise stay stale").
OwnedIsReal ==
    /\ sup.state_ = "OWNED" /\ client.up = <<>> /\ ~client.eof
        => client.pid # 0 /\ proc[client.pid].handle = sup.effect_id_
    /\ sup.state_ = "OWNED" /\ surprises = 0 => sup.pid_ = client.pid

\* Crashes of owner, daemon and audioserver are recovered from: the daemon ends up
\* with an owner that holds a live handle, or its spawn budget is spent.
OwnerSettles ==
    [](surprises = 0) =>
        \/ <>[](/\ sup.state_ = "OWNED" /\ client.pid \in Living
                /\ proc[client.pid].handle = sup.effect_id_ /\ ~proc[client.pid].dead)
        \/ <>[](sup.state_ = "FAILED" /\ Living = {})
=============================================================================
