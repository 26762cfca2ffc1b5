---------------------------- MODULE EventStream ----------------------------
(***************************************************************************)
(* How the daemon learns which effect contexts the driver has:             *)
(* DriverEventPublisher records contexts and makes events, the driver's    *)
(* DriverDaemonBridge numbers, queues and sends them and replays all live  *)
(* contexts when a rescan is asked for, DriverEventServer reads them and   *)
(* SessionRegistry keeps the daemon's view.                                *)
(*                                                                         *)
(* Publish takes its sequence number before it takes the queue's lock, and *)
(* a replayed event takes its number after the contexts were collected:    *)
(* these are separate steps here.  Sockets are SOCK_SEQPACKET (external):  *)
(* ordered, and a full buffer refuses a frame.                             *)
(***************************************************************************)
EXTENDS Naturals, Sequences, SequencesExt, Functions

CONSTANTS
    Thread,                 \* AudioFlinger threads that command effects
    NoEvent,
    QueueCapacity,          \* kQueueCapacity
    SocketCapacity,         \* frames a socket buffer holds, either direction
    MaxContexts,            \* bounds on what the environment does:
    MaxPublications,        \*   lifecycle events
    MaxDisturbances         \*   snapshot commands, restarts of either process

\* Lifecycle events go through the queue, answers and replays past it.
LifecycleType ==
    {"CONTEXT_CREATED", "CONTEXT_CONFIGURED", "CONTEXT_ENABLED", "CONTEXT_DISABLED",
     "TELEMETRY", "CONTEXT_RELEASED"}

EventType == LifecycleType \cup {"DRIVER_HELLO", "RESCAN_RESPONSE", "ANSWER"}

DriverEvent == [type : EventType, id : Nat, enabled : BOOLEAN, sequence : Nat]

ASSUME StreamAssumption ==
    /\ NoEvent \notin DriverEvent
    /\ QueueCapacity \in Nat \ {0} /\ SocketCapacity \in Nat \ {0}
    /\ MaxContexts \in Nat /\ MaxPublications \in Nat /\ MaxDisturbances \in Nat

VARIABLES
    \* DriverEventPublisher
    contexts_,              \* live context id |-> its enabled flag
    next_context_instance_id_,
    made,                   \* the event each thread is publishing
    \* DriverDaemonBridge
    next_sequence_, queue_,
    dropped_events_,        \* 0 or 1: none, some (of any driver process)
    rescan_requested_,
    bridge,                 \* what RunBridgeThread is in the middle of
    outgoing,               \* events the bridge thread holds in its hands
    link,                   \* its socket: "down", "up", or "dead" (peer gone)
    \* the connection
    wire, commands,
    \* SessionRegistry
    registry, highest_sequence_, rescan_needed_,
    \* what the properties look back at
    refused,                \* a rescan request the socket did not take
    overtaken,              \* contexts whose last event has too low a number
    spent                   \* how often the environment has acted

publisher == <<contexts_, next_context_instance_id_, made>>
numbers == <<next_sequence_, dropped_events_>>
thread == <<rescan_requested_, bridge, outgoing, link>>
daemon == <<registry, highest_sequence_, rescan_needed_>>
history == <<overtaken, refused>>
vars == <<publisher, numbers, queue_, thread, wire, commands, daemon, history, spent>>

Event(type, id, enabled) ==
    [type |-> type, id |-> id, enabled |-> enabled, sequence |-> 0]

\* A map with an entry added or replaced.
With(map, key, entry) ==
    [k \in DOMAIN map \cup {key} |-> IF k = key THEN entry ELSE map[k]]

Stamped(event) == [event EXCEPT !.sequence = next_sequence_]

Init ==
    /\ contexts_ = << >> /\ next_context_instance_id_ = 1
    /\ made = [t \in Thread |-> NoEvent]
    /\ next_sequence_ = 1 /\ queue_ = << >> /\ dropped_events_ = 0
    /\ rescan_requested_ = FALSE /\ bridge = "idle"
    /\ outgoing = << >> /\ link = "down"
    /\ wire = << >> /\ commands = << >>
    /\ registry = << >> /\ highest_sequence_ = 0 /\ rescan_needed_ = FALSE
    /\ refused = FALSE /\ overtaken = {}
    /\ spent = [publications |-> 0, commands |-> 0, drivers |-> 0, daemons |-> 0]

-----------------------------------------------------------------------------
(* DriverEventPublisher: the record changes and the event is made under     *)
(* its mutex.  AudioFlinger serialises the commands of one effect           *)
(* (external), so a context has at most one event on its way.               *)

Idle(t, c) ==
    /\ made[t] = NoEvent /\ spent.publications < MaxPublications
    /\ \A u \in Thread : made[u] # NoEvent => made[u].id # c

Made(t, event) ==
    /\ made' = [made EXCEPT ![t] = event]
    /\ spent' = [spent EXCEPT !.publications = @ + 1]
    /\ UNCHANGED <<numbers, queue_, thread, wire, commands, daemon, history>>

RegisterContext(t) ==
    LET c == next_context_instance_id_ IN
    /\ Idle(t, c) /\ c <= MaxContexts
    /\ contexts_' = With(contexts_, c, FALSE)
    /\ next_context_instance_id_' = c + 1
    /\ Made(t, Event("CONTEXT_CREATED", c, FALSE))

PublishConfigured(t, c) ==
    /\ Idle(t, c)
    /\ Made(t, Event("CONTEXT_CONFIGURED", c, contexts_[c]))
    /\ UNCHANGED <<contexts_, next_context_instance_id_>>

\* AudioFlinger enables what is disabled and disables what is enabled (external).
PublishEnabled(t, c, enabled) ==
    /\ Idle(t, c) /\ enabled # contexts_[c]
    /\ contexts_' = [contexts_ EXCEPT ![c] = enabled]
    /\ Made(t, Event(IF enabled THEN "CONTEXT_ENABLED" ELSE "CONTEXT_DISABLED",
                     c, enabled))
    /\ UNCHANGED next_context_instance_id_

\* PublishGenerations and PublishTelemetry, when the value changed.
PublishTelemetry(t, c) ==
    /\ Idle(t, c)
    /\ Made(t, Event("TELEMETRY", c, contexts_[c]))
    /\ UNCHANGED <<contexts_, next_context_instance_id_>>

UnregisterContext(t, c) ==
    /\ Idle(t, c)
    /\ contexts_' = Restrict(contexts_, DOMAIN contexts_ \ {c})
    /\ Made(t, Event("CONTEXT_RELEASED", c, FALSE))
    /\ UNCHANGED next_context_instance_id_

-----------------------------------------------------------------------------
(* DriverDaemonBridge::Publish: the number first, then the lock. *)

Stamp(t) ==
    /\ made[t] # NoEvent /\ made[t].sequence = 0
    /\ made' = [made EXCEPT ![t] = Stamped(@)]
    /\ next_sequence_' = next_sequence_ + 1
    /\ overtaken' = IF made[t].type = "TELEMETRY" THEN overtaken
                    ELSE overtaken \ {made[t].id}
    /\ UNCHANGED <<contexts_, next_context_instance_id_, dropped_events_, queue_,
                   thread, wire, commands, daemon, refused, spent>>

Enqueue(t) ==
    /\ made[t] # NoEvent /\ made[t].sequence # 0
    /\ made' = [made EXCEPT ![t] = NoEvent]
    /\ IF Len(queue_) < QueueCapacity
       THEN queue_' = Append(queue_, made[t]) /\ UNCHANGED dropped_events_
       ELSE dropped_events_' = 1 /\ UNCHANGED queue_
    /\ UNCHANGED <<contexts_, next_context_instance_id_, next_sequence_, thread, wire,
                   commands, daemon, history, spent>>

-----------------------------------------------------------------------------
(* The bridge thread: RunBridgeThread *)

\* SendEvent on a connection that is up: EAGAIN drops the event.
Send(event) ==
    IF Len(wire) < SocketCapacity
    THEN wire' = Append(wire, event) /\ UNCHANGED dropped_events_
    ELSE dropped_events_' = 1 /\ UNCHANGED wire

\* A new connection replaces the daemon's client (AcceptPending): what the old
\* one still held is lost.  HELLO goes first, and a replay is due.
EnsureConnected ==
    /\ link = "down" /\ next_context_instance_id_ > 1
    /\ link' = "up" /\ bridge' = "idle" /\ rescan_requested_' = TRUE
    /\ wire' = <<Stamped(Event("DRIVER_HELLO", 0, FALSE))>>
    /\ commands' = << >>
    /\ next_sequence_' = next_sequence_ + 1
    /\ UNCHANGED <<publisher, dropped_events_, queue_, outgoing, daemon, history, spent>>

CloseConnection ==
    /\ link' = "down" /\ outgoing' = << >> /\ bridge' = "idle"
    /\ UNCHANGED <<rescan_requested_, wire>>

\* CollectRescanEvents: every live context, in the order in which an
\* unordered_map happens to hold them, then the terminator.
Replay(ids) ==
    Append([i \in 1 .. Len(ids) |-> Event("RESCAN_RESPONSE", ids[i], contexts_[ids[i]])],
           Event("RESCAN_RESPONSE", 0, FALSE))

HandleRescan ==
    /\ bridge = "idle" /\ link # "down" /\ rescan_requested_
    /\ rescan_requested_' = FALSE
    /\ \E ids \in SetToSeqs(DOMAIN contexts_) : outgoing' = Replay(ids)
    /\ bridge' = "replay"
    /\ UNCHANGED <<publisher, numbers, queue_, link, wire, commands, daemon, history,
                   spent>>

\* The context has changed since it was collected, and the event that says so
\* has its number already.
Outdated(response) ==
    /\ response.id \notin DOMAIN contexts_ \/ contexts_[response.id] # response.enabled
    /\ \A t \in Thread :
        made[t] # NoEvent /\ made[t].id = response.id /\ made[t].type # "TELEMETRY"
            => made[t].sequence # 0

\* Each replayed event is numbered when its turn comes.
SendReplayed ==
    /\ bridge = "replay"
    /\ next_sequence_' = next_sequence_ + 1
    /\ LET response == Head(outgoing)
       IN  overtaken' = IF response.id # 0 /\ Outdated(response)
                        THEN overtaken \cup {response.id} ELSE overtaken \ {response.id}
    /\ \/ /\ link = "up"
          /\ Send(Stamped(Head(outgoing)))
          /\ outgoing' = Tail(outgoing)
          /\ bridge' = IF Len(outgoing) = 1 THEN "idle" ELSE "replay"
          /\ UNCHANGED <<rescan_requested_, link>>
       \/ link = "dead" /\ CloseConnection /\ UNCHANGED dropped_events_
    /\ UNCHANGED <<publisher, queue_, commands, daemon, refused, spent>>

\* DrainQueue.  An event that could not be sent goes back to the front, if there
\* is still room.
Draining == bridge = "idle" /\ ~rescan_requested_ /\ queue_ # << >>

SendQueued ==
    /\ Draining /\ link = "up"
    /\ queue_' = Tail(queue_) /\ Send(Head(queue_))
    /\ UNCHANGED <<publisher, next_sequence_, thread, commands, daemon, history, spent>>

SendQueuedFails ==
    /\ Draining /\ link = "dead"
    /\ queue_' = Tail(queue_) /\ outgoing' = <<Head(queue_)>> /\ bridge' = "failed"
    /\ UNCHANGED <<publisher, numbers, rescan_requested_, link, wire, commands, daemon,
                   history, spent>>

PutBack ==
    /\ bridge = "failed" /\ CloseConnection
    /\ IF Len(queue_) < QueueCapacity
       THEN queue_' = outgoing \o queue_ /\ UNCHANGED dropped_events_
       ELSE dropped_events_' = 1 /\ UNCHANGED queue_
    /\ UNCHANGED <<publisher, next_sequence_, commands, daemon, history, spent>>

\* One command per round, after the queue was found empty.
Receives(command) ==
    /\ bridge = "idle" /\ ~rescan_requested_ /\ queue_ = << >>
    /\ link = "up" /\ commands # << >> /\ Head(commands) = command
    /\ commands' = Tail(commands)
    /\ UNCHANGED bridge

ReceiveRescan ==
    /\ Receives("rescan")
    /\ rescan_requested_' = TRUE
    /\ UNCHANGED <<publisher, numbers, queue_, outgoing, link, wire, daemon, history, spent>>

\* HandleSnapshotCommand.  A chunk that was taken is not answered; any other
\* command is, past the queue.
ReceiveSnapshot ==
    /\ Receives("snapshot")
    /\ \/ UNCHANGED <<numbers, wire>>
       \/ /\ next_sequence_' = next_sequence_ + 1
          /\ Send(Stamped(Event("ANSWER", 0, FALSE)))
    /\ UNCHANGED <<publisher, queue_, rescan_requested_, outgoing, link, daemon, history,
                   spent>>

\* A commit that took effect publishes the context's generations first, from the
\* bridge thread, which AudioFlinger does not serialise with its own commands.
ReceiveCommit(c) ==
    /\ Receives("snapshot")
    /\ next_sequence_' = next_sequence_ + 2
    /\ overtaken' = IF \E t \in Thread : made[t] # NoEvent /\ made[t].id = c
                                         /\ made[t].sequence # 0
                    THEN overtaken \cup {c} ELSE overtaken
    /\ LET room == Len(queue_) < QueueCapacity
           fits == Len(wire) < SocketCapacity
           generations == Stamped(Event("TELEMETRY", c, contexts_[c]))
           answer == [Event("ANSWER", 0, FALSE) EXCEPT !.sequence = next_sequence_ + 1]
       IN  /\ queue_' = IF room THEN Append(queue_, generations) ELSE queue_
           /\ wire' = IF fits THEN Append(wire, answer) ELSE wire
           /\ dropped_events_' = IF room /\ fits THEN dropped_events_ ELSE 1
    /\ UNCHANGED <<publisher, rescan_requested_, outgoing, link, daemon, refused, spent>>

\* POLLHUP: the daemon is gone.
HangUp ==
    /\ bridge = "idle" /\ ~rescan_requested_ /\ queue_ = << >> /\ link = "dead"
    /\ CloseConnection
    /\ UNCHANGED <<publisher, numbers, queue_, commands, daemon, history, spent>>

-----------------------------------------------------------------------------
(* DriverEventServer::Poll and SessionRegistry::Apply *)

Known(event) == event.id \in DOMAIN registry

\* HELLO is no lifecycle event, an answer never reaches the registry, and only
\* CREATED and RESCAN_RESPONSE introduce a context.
Ignored(event) ==
    \/ event.type \in {"DRIVER_HELLO", "ANSWER"}
    \/ /\ event.id # 0 /\ ~Known(event)
       /\ event.type \notin {"CONTEXT_CREATED", "RESCAN_RESPONSE"}

Terminator(event) == event.type = "RESCAN_RESPONSE" /\ event.id = 0

\* An event already observed for this context.
Duplicate(event) ==
    event.id # 0 /\ Known(event) /\ event.sequence <= registry[event.id].last_sequence

Gap(event) ==
    /\ highest_sequence_ # 0 /\ event.sequence > highest_sequence_ + 1
    /\ event.type # "RESCAN_RESPONSE"

HigherOfAny(event) == event.sequence

Higher(event) == IF event.sequence > highest_sequence_ THEN event.sequence
                 ELSE highest_sequence_

StateAfterReplayUntouched(event) ==
    IF event.type = "RESCAN_RESPONSE" THEN "INACTIVE"
    ELSE CASE event.type = "CONTEXT_CREATED" -> "CREATED"
           [] event.type = "CONTEXT_CONFIGURED" -> "CONFIGURED"
           [] event.type = "CONTEXT_ENABLED" -> "ACTIVE"
           [] event.type = "CONTEXT_DISABLED" -> "INACTIVE"
           [] OTHER -> registry[event.id].state

StateAfter(event) ==
    CASE event.type = "CONTEXT_CREATED" -> "CREATED"
      [] event.type = "CONTEXT_CONFIGURED" -> "CONFIGURED"
      [] event.type = "CONTEXT_ENABLED" -> "ACTIVE"
      [] event.type = "CONTEXT_DISABLED" -> "INACTIVE"
      [] event.type = "RESCAN_RESPONSE" -> IF event.enabled THEN "ACTIVE" ELSE "INACTIVE"
      [] OTHER -> registry[event.id].state

StaleAfterAlways(event) == Known(event) /\ registry[event.id].stale

\* Only a replay confirms an entry.
StaleAfter(event) ==
    event.type # "RESCAN_RESPONSE" /\ Known(event) /\ registry[event.id].stale

Observed(event) ==
    IF event.type = "CONTEXT_RELEASED"
    THEN Restrict(registry, DOMAIN registry \ {event.id})
    ELSE With(registry, event.id,
              [state |-> StateAfter(event), last_sequence |-> event.sequence,
               stale |-> StaleAfter(event)])

\* RescanComplete: what is still stale was not replayed.
Reconciled(entries, sequence) ==
    LET kept == {c \in DOMAIN entries :
                    ~entries[c].stale \/ entries[c].last_sequence > sequence}
    IN  [c \in kept |-> [entries[c] EXCEPT !.stale = FALSE]]

\* MarkStaleAfter(HighestSequence()).
MarkedStale(entries, sequence) ==
    [c \in DOMAIN entries |->
        [entries[c] EXCEPT !.stale = @ \/ entries[c].last_sequence <= sequence]]

RequestRescanForgotten == UNCHANGED <<commands, refused>>

\* RequestRescan: a send that fails is not repeated.
RequestRescan ==
    LET sent == link = "up" /\ Len(commands) < SocketCapacity
    IN  /\ commands' = IF sent THEN Append(commands, "rescan") ELSE commands
        /\ refused' = (refused \/ ~sent)

Poll ==
    /\ wire # << >> /\ link # "dead"
    /\ wire' = Tail(wire)
    /\ LET event == Head(wire) IN
       \/ /\ Ignored(event) \/ (~Terminator(event) /\ Duplicate(event))
          /\ UNCHANGED <<daemon, commands, refused>>
       \/ /\ Terminator(event)
          /\ highest_sequence_' = Higher(event)
          /\ registry' = Reconciled(registry, Higher(event))
          /\ rescan_needed_' = FALSE
          /\ UNCHANGED <<commands, refused>>
       \/ /\ ~Ignored(event) /\ ~Terminator(event) /\ ~Duplicate(event)
          /\ highest_sequence_' = Higher(event)
          /\ IF Gap(event)
             THEN /\ registry' = MarkedStale(Observed(event), Higher(event))
                  /\ rescan_needed_' = TRUE
                  /\ RequestRescan
             ELSE registry' = Observed(event)
                  /\ UNCHANGED <<rescan_needed_, commands, refused>>
    /\ UNCHANGED <<publisher, numbers, queue_, thread, overtaken, spent>>

DisturbancesLeft == spent.commands + spent.drivers + spent.daemons < MaxDisturbances

\* DaemonRuntime sends an announce, a BEGIN, a COMMIT...
SendSnapshotCommand ==
    /\ link = "up" /\ Len(commands) < SocketCapacity
    /\ DisturbancesLeft
    /\ spent' = [spent EXCEPT !.commands = @ + 1]
    /\ commands' = Append(commands, "snapshot")
    /\ UNCHANGED <<publisher, numbers, queue_, thread, wire, daemon, history>>

-----------------------------------------------------------------------------
(* Faults *)

\* The daemon is replaced: its registry and what it had not read are gone.
DaemonRestart ==
    /\ DisturbancesLeft
    /\ spent' = [spent EXCEPT !.daemons = @ + 1]
    /\ registry' = << >> /\ highest_sequence_' = 0 /\ rescan_needed_' = FALSE
    /\ wire' = << >> /\ commands' = << >>
    /\ link' = IF link = "up" THEN "dead" ELSE link
    /\ UNCHANGED <<publisher, numbers, queue_, rescan_requested_, bridge, outgoing, history>>

\* The audio server is replaced: ids and numbers start over, and boot_id_, which
\* names the boot of the device, stays the same (ResolveBootId).
DriverRestart ==
    /\ DisturbancesLeft
    /\ spent' = [spent EXCEPT !.drivers = @ + 1]
    /\ contexts_' = << >> /\ next_context_instance_id_' = 1
    /\ made' = [t \in Thread |-> NoEvent]
    /\ next_sequence_' = 1 /\ queue_' = << >>
    /\ rescan_requested_' = FALSE /\ bridge' = "idle"
    /\ outgoing' = << >> /\ link' = "down" /\ commands' = << >>
    /\ overtaken' = {}
    /\ UNCHANGED <<dropped_events_, wire, daemon, refused>>

Publish ==
    \E t \in Thread :
        \/ RegisterContext(t) \/ Stamp(t) \/ Enqueue(t)
        \/ \E c \in DOMAIN contexts_ :
            \/ PublishConfigured(t, c) \/ PublishTelemetry(t, c)
            \/ UnregisterContext(t, c)
            \/ \E enabled \in BOOLEAN : PublishEnabled(t, c, enabled)

RunBridgeThread ==
    \/ EnsureConnected \/ HandleRescan \/ SendReplayed \/ SendQueued
    \/ SendQueuedFails \/ PutBack \/ ReceiveRescan \/ ReceiveSnapshot \/ HangUp
    \/ \E c \in DOMAIN contexts_ : ReceiveCommit(c)

Next ==
    \/ Publish \/ RunBridgeThread \/ Poll \/ SendSnapshotCommand
    \/ DaemonRestart \/ DriverRestart

Spec == Init /\ [][Next]_vars

\* The bridge thread and the daemon's loop run for ever, and a thread that is
\* publishing an event finishes.
FairSpec ==
    /\ Spec
    /\ WF_vars(RunBridgeThread) /\ WF_vars(Poll)
    /\ \A t \in Thread : WF_vars(Stamp(t) \/ Enqueue(t))

-----------------------------------------------------------------------------
(* Properties *)

States == {"CREATED", "CONFIGURED", "ACTIVE", "INACTIVE"}

\* The publisher, the bridge and the registry are well formed, and the registry
\* has seen no event of a context later than highest_sequence_, which both the
\* gap check and MarkStaleAfter(HighestSequence()) rely on.
TypeOK ==
    /\ DOMAIN contexts_ \subseteq 1 .. next_context_instance_id_ - 1
    /\ \A c \in DOMAIN contexts_ : contexts_[c] \in BOOLEAN
    /\ Len(queue_) <= QueueCapacity /\ Len(wire) <= SocketCapacity
    /\ Len(commands) <= SocketCapacity
    /\ bridge \in {"idle", "replay", "failed"}
    /\ bridge = "idle" <=> outgoing = << >>
    /\ link \in {"down", "up", "dead"}
    /\ rescan_requested_ \in BOOLEAN /\ rescan_needed_ \in BOOLEAN
    /\ \A c \in DOMAIN registry :
        /\ c # 0 /\ registry[c].state \in States /\ registry[c].stale \in BOOLEAN
        /\ registry[c].last_sequence \in 1 .. highest_sequence_

\* Everything published has been read, and no rescan is under way.
Quiet ==
    /\ \A t \in Thread : made[t] = NoEvent
    /\ queue_ = << >> /\ outgoing = << >> /\ wire = << >> /\ commands = << >>
    /\ link = "up" /\ ~rescan_requested_

\* Nothing was dropped for want of room, and it is the same driver process.
NoLoss == dropped_events_ = 0 /\ ~refused /\ spent.drivers = 0

\* Gaps, replays, a terminator that erases what was not replayed, reconnections
\* and a restarted daemon never make the registry forget a live context as long
\* as no buffer overflows (SessionRegistry::RescanComplete, HandleRescan).
NoContextLost == Quiet /\ NoLoss => DOMAIN contexts_ \subseteq DOMAIN registry

Agrees(c) ==
    /\ c \in DOMAIN contexts_
    /\ registry[c].state = "ACTIVE" => contexts_[c]
    /\ registry[c].state = "INACTIVE" => ~contexts_[c]

\* The registry says something wrong about a context, or knows one that is gone,
\* only if that context's last event was overtaken: a replayed event or the
\* generations of a commit, numbered later but older in content, arrived first
\* and made Apply take the last event for a duplicate.
WrongOnlyIfOvertaken ==
    Quiet /\ NoLoss => \A c \in DOMAIN registry : Agrees(c) \/ c \in overtaken

\* The daemon's view settles: every rescan that was asked for ends with its
\* terminator, nothing stays marked stale, and every context that stays is
\* known, however often the daemon is replaced (Poll, HandleRescan; "A fresh
\* daemon connection has no session state, so replay live contexts").
ViewSettles ==
    <>[](NoLoss => /\ ~rescan_needed_
                   /\ \A c \in DOMAIN registry : ~registry[c].stale
                   /\ DOMAIN contexts_ \subseteq DOMAIN registry)
=============================================================================
