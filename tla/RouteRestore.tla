---------------------------- MODULE RouteRestore ----------------------------
(***************************************************************************)
(* The daemon restoring a route's stored snapshot into the driver:         *)
(* DaemonRuntime::RunOnce with its announce and its BEGIN/CHUNK/COMMIT     *)
(* transfer, DriverEventServer's single client, the bridge thread of the   *)
(* driver process with its fan-out to every ViperContext, and what happens *)
(* around them: routes change, contexts are created, configured and        *)
(* released, the driver process or the daemon restarts, answers come too   *)
(* late.                                                                   *)
(*                                                                         *)
(* A context's transfer state is SnapshotApply's, reduced to one chunk     *)
(* that always decodes.  Sockets are SOCK_SEQPACKET: ordered, lossless     *)
(* until closed (external).  Time is two flags: the route has settled, the *)
(* next announce is due.                                                   *)
(***************************************************************************)
EXTENDS Naturals, Sequences, FiniteSets, Functions

CONSTANTS
    Route, NoRoute, NoSnapshot,
    Context,                \* effect instances
    Stored,                 \* route |-> app_generation in the store, 0: none
    MaxAnnounceAttempts,    \* kMaxAnnounceAttempts
    ReadyAtCreation,        \* SET_CONFIG always precedes the daemon's commands
    MaxConnections,         \* bounds on what the environment does
    MaxCreations, MaxReports, MaxCrashes, MaxRestarts, MaxTimeouts

ASSUME RestoreAssumption ==
    /\ NoRoute \notin Route /\ IsFiniteSet(Context)
    /\ Stored \in [Route -> Nat]
    /\ MaxAnnounceAttempts \in Nat \ {0}
    /\ ReadyAtCreation \in BOOLEAN
    /\ MaxConnections \in Nat /\ MaxCreations \in Nat /\ MaxReports \in Nat
    /\ MaxCrashes \in Nat /\ MaxRestarts \in Nat /\ MaxTimeouts \in Nat

VARIABLES
    \* DaemonRuntime
    pc,                     \* progress of RunOnce
    route,                  \* routes_.CurrentKeyHash(), kept by RouteCache
    route_restore_pending_, settled,
    announced_route_hash_, announce_attempts_, due, driver_was_connected_,
    driver_connected, new_driver_connection,        \* locals of RunOnce
    restored_context_generation_, daemon_generation_, next_request_id_,
    sending,                \* the snapshot being transferred
    accepted,               \* the restore this pass counted as accepted
    sampled,                \* the connection driver_was_connected_ is about (history)
    \* DriverEventServer and SessionRegistry
    client_fd_, backlog, registered, context_generation_,
    \* the sockets: per connection, commands and events not yet read
    commands, events, last_connection,
    \* the driver process
    socket_fd_, contexts, queue_,
    spent                   \* how often the environment has acted

loop == <<pc, driver_connected, new_driver_connection, sending, accepted>>
routing == <<route, route_restore_pending_, settled>>
announcing == <<announced_route_hash_, announce_attempts_, due,
                driver_was_connected_, sampled>>
numbering == <<restored_context_generation_, daemon_generation_,
               next_request_id_>>
server == <<client_fd_, backlog, registered, context_generation_>>
wires == <<commands, events, last_connection>>
driver == <<socket_fd_, contexts, queue_>>
vars == <<loop, routing, announcing, numbering, server, wires, driver, spent>>

LiveContexts == {c \in Context : contexts[c].state = "live"}

\* A ViperContext as its constructor leaves it.
Fresh(ready) == [state |-> "live", ready |-> ready, hash |-> NoRoute,
                 staging |-> NoSnapshot, got |-> FALSE, adopted |-> NoSnapshot]

Gone(state) == [Fresh(FALSE) EXCEPT !.state = state]

NoAcceptance == [snapshot |-> NoSnapshot, contexts |-> {}, process |-> 0]

Init ==
    \* DaemonRuntime's constructor and Start(), the route seeded from RouteCache
    /\ route \in Route \cup {NoRoute}
    /\ route_restore_pending_ = (route # NoRoute)
    /\ settled = (route = NoRoute)
    /\ pc = "poll" /\ driver_connected = FALSE /\ new_driver_connection = FALSE
    /\ sending = NoSnapshot /\ accepted = NoAcceptance
    /\ announced_route_hash_ = NoRoute /\ announce_attempts_ = 0 /\ due = TRUE
    /\ driver_was_connected_ = FALSE /\ sampled = 0
    /\ restored_context_generation_ = 0
    /\ daemon_generation_ = 1 /\ next_request_id_ = 1
    /\ client_fd_ = 0 /\ backlog = << >>
    /\ registered = {} /\ context_generation_ = 0
    \* no driver process yet
    /\ commands = [n \in 1 .. MaxConnections |-> << >>]
    /\ events = [n \in 1 .. MaxConnections |-> << >>]
    /\ last_connection = 0
    /\ socket_fd_ = 0 /\ queue_ = << >>
    /\ contexts = [c \in Context |-> Gone("not created")]
    /\ spent = [creations |-> 0, reports |-> 0, crashes |-> 0, restarts |-> 0, timeouts |-> 0]

-----------------------------------------------------------------------------
(* DriverEventServer *)

\* AcceptPending: a waiting connection replaces the client.
Peer == IF backlog = << >> THEN client_fd_ ELSE Head(backlog)

Received == IF Peer = 0 THEN << >> ELSE events[Peer]

ContextsOf(type) ==
    UNION {Received[i].contexts : i \in {i \in DOMAIN Received : Received[i].type = type}}

\* Poll reads everything there is; a closed peer is dropped at its end.
Poll ==
    /\ backlog' = IF backlog = << >> THEN << >> ELSE Tail(backlog)
    /\ client_fd_' = IF Peer = socket_fd_ THEN Peer ELSE 0
    /\ events' = [n \in DOMAIN events |-> IF n \in {Peer, client_fd_} THEN << >>
                                         ELSE events[n]]
    /\ registered' = (registered \cup ContextsOf("created")) \ ContextsOf("released")
    /\ context_generation_' = context_generation_
            + Cardinality(ContextsOf("created") \ registered)
    /\ UNCHANGED <<last_connection, driver>>

AnswerIndices == {i \in DOMAIN Received : Received[i].type = "answer"}

\* pending_outcome_ after this Poll: the last answer read.
Outcome == Received[CHOOSE i \in AnswerIndices : \A j \in AnswerIndices : j <= i]

AwaitedId == next_request_id_ - 1

AnsweredByAnyone == AnswerIndices # {}

\* AwaitApplyOutcome returns: the outcome is the one of this request.
Answered == AnswerIndices # {} /\ Outcome.request_id = AwaitedId

\* A send succeeds while the peer has the socket open.
Sendable(fd) == fd # 0 /\ fd = socket_fd_

Command(type, snapshot, id) == [type |-> type, snapshot |-> snapshot,
                                request_id |-> id]

Push(fd, batch) == [commands EXCEPT ![fd] = @ \o batch]

-----------------------------------------------------------------------------
(* RunOnce *)

RunPoll ==
    /\ pc = "poll"
    /\ Poll
    /\ pc' = "app"
    /\ accepted' = NoAcceptance
    /\ UNCHANGED <<commands, driver_connected, new_driver_connection, sending,
                   routing, announcing, numbering, spent>>

\* OnRouteReport, from app_server_.Poll: RouteCache remembers the route, and
\* routes_.Poll adopts it, so RunOnce's own routes_.Poll finds no change.
OnRouteReport(r) ==
    /\ pc = "app" /\ r # route
    /\ spent.reports < MaxReports
    /\ spent' = [spent EXCEPT !.reports = @ + 1]
    /\ route' = r
    /\ route_restore_pending_' = TRUE /\ settled' = FALSE
    /\ UNCHANGED <<loop, announcing, numbering, server, wires, driver>>

BudgetIgnored(attempts) == TRUE

BudgetLeft(attempts) == attempts < MaxAnnounceAttempts

\* The connection edge, then at most one announce per pass.
AnnounceRoute ==
    /\ pc = "app"
    /\ LET up == client_fd_ # 0
           edge == up /\ ~driver_was_connected_
           forget == edge \/ ~up
           told == IF forget THEN NoRoute ELSE announced_route_hash_
           tried == IF forget THEN 0 ELSE announce_attempts_
           now == forget \/ due
           needed == up /\ told # route /\ BudgetLeft(tried) /\ now
           sent == needed /\ Sendable(client_fd_)
       IN /\ driver_connected' = up /\ new_driver_connection' = edge
          /\ driver_was_connected_' = up /\ sampled' = client_fd_
          /\ announced_route_hash_' = told
          /\ announce_attempts_' = IF needed THEN tried + 1 ELSE tried
          /\ due' = IF needed /\ ~sent THEN FALSE ELSE now
          /\ next_request_id_' = IF needed THEN next_request_id_ + 1
                                 ELSE next_request_id_
          /\ commands' = IF sent
                THEN Push(client_fd_, <<Command("announce",
                            [route |-> route, app |-> 0, daemon |-> 0],
                            next_request_id_)>>)
                ELSE commands
          /\ pc' = IF sent THEN "announce_wait" ELSE "restore"
    /\ UNCHANGED <<sending, accepted, routing, restored_context_generation_,
                   daemon_generation_, server, events, last_connection, driver,
                   spent>>

AnnounceAnswered ==
    /\ pc = "announce_wait" /\ Answered
    /\ Poll
    /\ \/ /\ Outcome.accepted
          /\ announced_route_hash_' = route
          /\ announce_attempts_' = 0
          /\ UNCHANGED due
       \/ /\ ~Outcome.accepted
          /\ due' = FALSE
          /\ UNCHANGED <<announced_route_hash_, announce_attempts_>>
    /\ pc' = "restore"
    /\ UNCHANGED <<driver_connected, new_driver_connection, sending, accepted,
                   routing, driver_was_connected_, sampled, numbering, commands, spent>>

NewContextReady ==
    context_generation_ # restored_context_generation_ /\ registered # {}

RestoreDueIgnoringRoute ==
    /\ new_driver_connection \/ NewContextReady
    /\ driver_connected /\ announced_route_hash_ = route /\ settled

RestoreDue ==
    /\ route_restore_pending_ \/ new_driver_connection \/ NewContextReady
    /\ driver_connected
    /\ announced_route_hash_ = route
    /\ settled

\* RunOnce returns and its locals with it.
PassEnds ==
    /\ pc' = "poll" /\ sending' = NoSnapshot
    /\ driver_connected' = FALSE /\ new_driver_connection' = FALSE

RestoreNotDue ==
    /\ pc = "restore" /\ ~RestoreDue
    /\ PassEnds
    /\ UNCHANGED <<accepted, routing, announcing, numbering, server, wires, driver, spent>>

\* No route, or nothing stored for it: the restore counts as done.
RestoreBypassed ==
    /\ pc = "restore" /\ RestoreDue
    /\ route = NoRoute \/ (route \in Route /\ Stored[route] = 0)
    /\ route_restore_pending_' = FALSE
    /\ restored_context_generation_' = context_generation_
    /\ PassEnds
    /\ UNCHANGED <<accepted, route, settled, announcing, daemon_generation_,
                   next_request_id_, server, wires, driver, spent>>

\* RestoreCurrentRoute up to the BEGIN that ApplySnapshotToDriver awaits.
RestoreBegin ==
    /\ pc = "restore" /\ RestoreDue
    /\ route \in Route /\ Stored[route] # 0
    /\ route_restore_pending_' = FALSE
    /\ daemon_generation_' = daemon_generation_ + 1
    /\ next_request_id_' = next_request_id_ + 1
    /\ LET snapshot == [route |-> route, app |-> Stored[route],
                        daemon |-> daemon_generation_ + 1]
       IN \/ /\ Sendable(client_fd_)
             /\ commands' = Push(client_fd_,
                                 <<Command("begin", snapshot, next_request_id_)>>)
             /\ sending' = snapshot
             /\ pc' = "begin_wait"
             /\ UNCHANGED <<driver_connected, new_driver_connection,
                            restored_context_generation_>>
          \/ /\ ~Sendable(client_fd_)
             /\ restored_context_generation_' = context_generation_
             /\ PassEnds
             /\ UNCHANGED commands
    /\ UNCHANGED <<accepted, route, settled, announcing, server, events, last_connection,
                   driver, spent>>

\* RunOnce after RestoreCurrentRoute, whatever it returned.
RestoreEnds ==
    /\ PassEnds
    /\ restored_context_generation_' = context_generation_'

BeginAnswered ==
    /\ pc = "begin_wait" /\ Answered
    /\ Poll
    /\ \/ /\ Outcome.accepted /\ Sendable(client_fd_')
          /\ commands' = Push(client_fd_', <<Command("chunk", sending, AwaitedId),
                                             Command("commit", sending, AwaitedId)>>)
          /\ pc' = "commit_wait"
          /\ UNCHANGED <<driver_connected, new_driver_connection, sending,
                         restored_context_generation_>>
       \/ /\ ~(Outcome.accepted /\ Sendable(client_fd_'))
          /\ RestoreEnds
          /\ UNCHANGED commands
    /\ UNCHANGED <<accepted, routing, announcing, daemon_generation_,
                   next_request_id_, spent>>

CommitAnswered ==
    /\ pc = "commit_wait" /\ Answered
    /\ Poll
    /\ accepted' = IF Outcome.accepted
                   THEN [snapshot |-> sending, contexts |-> Outcome.contexts,
                         process |-> Outcome.process]
                   ELSE accepted
    /\ RestoreEnds
    /\ UNCHANGED <<commands, routing, announcing, daemon_generation_, next_request_id_, spent>>

Waiting == pc \in {"announce_wait", "begin_wait", "commit_wait"}

\* AwaitApplyOutcome keeps polling the driver while it waits.
WaitPoll ==
    /\ Waiting /\ ~Answered
    /\ Poll
    /\ UNCHANGED <<commands, loop, routing, announcing, numbering, spent>>

\* The answer is still on its way over the connection the daemon listens to.
AnswerComing ==
    /\ client_fd_ # 0
    /\ \/ /\ client_fd_ = socket_fd_
          /\ \E i \in DOMAIN commands[client_fd_] :
                commands[client_fd_][i].request_id = AwaitedId
       \/ \E i \in DOMAIN events[client_fd_] :
                /\ events[client_fd_][i].type = "answer"
                /\ events[client_fd_][i].request_id = AwaitedId

\* AwaitApplyOutcome gives up.
GiveUp ==
    /\ UNCHANGED <<accepted, routing, announced_route_hash_, announce_attempts_,
                   driver_was_connected_, sampled, daemon_generation_,
                   next_request_id_, server, wires, driver>>
    /\ \/ /\ pc = "announce_wait"
          /\ due' = FALSE /\ pc' = "restore"
          /\ UNCHANGED <<driver_connected, new_driver_connection, sending,
                         restored_context_generation_>>
       \/ /\ pc # "announce_wait"
          /\ RestoreEnds
          /\ UNCHANGED due

TimeoutOnlyWhileConnected ==
    /\ Waiting /\ ~Answered /\ client_fd_ # 0
    /\ UNCHANGED spent
    /\ GiveUp

\* kApplyPollAttempts are used up: certain when no answer can come any more,
\* possible (MaxTimeouts times) when the driver is slow.
Timeout ==
    /\ Waiting /\ ~Answered
    /\ \/ ~AnswerComing /\ UNCHANGED spent
       \/ /\ AnswerComing /\ spent.timeouts < MaxTimeouts
          /\ spent' = [spent EXCEPT !.timeouts = @ + 1]
    /\ GiveUp

\* route_debounce has passed (RouteSettled).
RouteSettles ==
    /\ ~settled /\ settled' = TRUE
    /\ UNCHANGED <<loop, route, route_restore_pending_, announcing, numbering,
                   server, wires, driver, spent>>

\* kAnnounceRetryDelay has passed.
AnnounceFallsDue ==
    /\ ~due /\ due' = TRUE
    /\ UNCHANGED <<loop, routing, announced_route_hash_, announce_attempts_,
                   driver_was_connected_, sampled, numbering, server, wires, driver,
                   spent>>

RunOnce == \/ RunPoll \/ AnnounceRoute \/ AnnounceAnswered
           \/ RestoreNotDue \/ RestoreBypassed \/ RestoreBegin \/ BeginAnswered
           \/ CommitAnswered \/ WaitPoll

-----------------------------------------------------------------------------
(* The driver process *)

NotOlder(snapshot, adopted) ==
    adopted = NoSnapshot \/ snapshot.app > adopted.app
    \/ (snapshot.app = adopted.app /\ snapshot.daemon >= adopted.daemon)

SamePair(snapshot, adopted) ==
    adopted # NoSnapshot /\ snapshot.app = adopted.app
    /\ snapshot.daemon = adopted.daemon

\* Does context x accept command m (HandleSnapshotCommand, SnapshotApply)?
Accepts(x, m) ==
    CASE m.type = "announce" -> TRUE
      [] m.type = "begin"    -> x.staging = NoSnapshot /\ m.snapshot.route = x.hash
      [] m.type = "chunk"    -> x.staging # NoSnapshot /\ ~x.got
      [] m.type = "commit"   -> /\ x.staging # NoSnapshot /\ x.got
                                /\ x.staging.route = x.hash
                                /\ NotOlder(x.staging, x.adopted)
                                /\ SamePair(x.staging, x.adopted) \/ x.ready

\* Context x after command m.  A refused CHUNK and every COMMIT end the transfer.
After(x, m) ==
    LET idle == [x EXCEPT !.staging = NoSnapshot, !.got = FALSE]
    IN CASE m.type = "announce" -> [x EXCEPT !.hash = m.snapshot.route]
         [] m.type = "begin" -> IF Accepts(x, m)
                                THEN [x EXCEPT !.staging = m.snapshot] ELSE x
         [] m.type = "chunk" -> IF Accepts(x, m) THEN [x EXCEPT !.got = TRUE] ELSE idle
         [] m.type = "commit" ->
                IF Accepts(x, m) /\ ~SamePair(x.staging, x.adopted)
                THEN [idle EXCEPT !.adopted = x.staging] ELSE idle

Accepted(m) == LiveContexts # {} /\ \A c \in LiveContexts : Accepts(contexts[c], m)

Answer(id, ok) == [type |-> "answer", request_id |-> id, accepted |-> ok,
                   contexts |-> LiveContexts, process |-> spent.crashes]

\* The bridge thread reads one command: ApplySnapshotCommand runs it on every
\* registered context; only a CHUNK that was taken is not answered.
HandleSnapshotCommand ==
    /\ socket_fd_ # 0 /\ socket_fd_ \in {client_fd_} \cup Range(backlog)
    /\ commands[socket_fd_] # << >>
    /\ LET m == Head(commands[socket_fd_])
       IN /\ commands' = [commands EXCEPT ![socket_fd_] = Tail(@)]
          /\ contexts' = [c \in Context |-> IF c \in LiveContexts
                                            THEN After(contexts[c], m) ELSE contexts[c]]
          /\ events' = IF m.type = "chunk" /\ Accepted(m) THEN events
                       ELSE [events EXCEPT ![socket_fd_] =
                                Append(@, Answer(m.request_id, Accepted(m)))]
    /\ UNCHANGED <<loop, routing, announcing, numbering, server, last_connection,
                   socket_fd_, queue_, spent>>

Started == \E c \in Context : contexts[c].state \in {"live", "released"}

Lifecycle(type, cs) == [type |-> type, contexts |-> cs]

\* EnsureConnected, then HandleRescan replays the registered contexts.
EnsureConnected ==
    /\ socket_fd_ = 0 /\ Started
    /\ last_connection < MaxConnections
    /\ last_connection' = last_connection + 1
    /\ socket_fd_' = last_connection'
    /\ backlog' = Append(backlog, last_connection')
    /\ events' = [events EXCEPT ![last_connection'] =
                                <<Lifecycle("created", LiveContexts)>>]
    /\ UNCHANGED <<loop, routing, announcing, numbering, client_fd_, registered,
                   context_generation_, commands, contexts, queue_, spent>>

DrainQueue ==
    /\ socket_fd_ # 0 /\ queue_ # << >>
    /\ events' = [events EXCEPT ![socket_fd_] = @ \o queue_]
    /\ queue_' = << >>
    /\ UNCHANGED <<loop, routing, announcing, numbering, server, commands,
                   last_connection, socket_fd_, contexts, spent>>

\* POLLHUP: the daemon closed this connection.
CloseConnection ==
    /\ socket_fd_ # 0 /\ socket_fd_ \notin {client_fd_} \cup Range(backlog)
    /\ socket_fd_' = 0
    /\ commands' = [commands EXCEPT ![socket_fd_] = << >>]
    /\ events' = [events EXCEPT ![socket_fd_] = << >>]
    /\ UNCHANGED <<loop, routing, announcing, numbering, server, last_connection,
                   contexts, queue_, spent>>

\* AudioFlinger creates an effect: RegisterContext publishes it, under an id that
\* is new to this driver process.
CreateContext(c) ==
    /\ contexts[c].state \in {"not created", "dead"}
    /\ spent.creations < MaxCreations
    /\ spent' = [spent EXCEPT !.creations = @ + 1]
    /\ contexts' = [contexts EXCEPT ![c] = Fresh(ReadyAtCreation)]
    /\ queue_' = Append(queue_, Lifecycle("created", {c}))
    /\ UNCHANGED <<loop, routing, announcing, numbering, server, wires, socket_fd_>>

\* EFFECT_CMD_SET_CONFIG gives the context its active graph.
ConfigureContext(c) ==
    /\ c \in LiveContexts /\ ~contexts[c].ready
    /\ contexts' = [contexts EXCEPT ![c].ready = TRUE]
    /\ UNCHANGED <<loop, routing, announcing, numbering, server, wires, socket_fd_,
                   queue_, spent>>

\* UnregisterContext.
ReleaseContext(c) ==
    /\ c \in LiveContexts
    /\ contexts' = [contexts EXCEPT ![c] = Gone("released")]
    /\ queue_' = Append(queue_, Lifecycle("released", {c}))
    /\ UNCHANGED <<loop, routing, announcing, numbering, server, wires, socket_fd_,
                   spent>>

\* The audio server dies with its contexts and the queued events.
DriverCrash ==
    /\ Started /\ spent.crashes < MaxCrashes
    /\ spent' = [spent EXCEPT !.crashes = @ + 1]
    /\ socket_fd_' = 0 /\ queue_' = << >>
    /\ contexts' = [c \in Context |-> IF contexts[c].state = "not created"
                                      THEN contexts[c] ELSE Gone("dead")]
    /\ commands' = [n \in DOMAIN commands |-> << >>]
    /\ UNCHANGED <<loop, routing, announcing, numbering, server, events,
                   last_connection>>

\* The daemon is restarted: the driver process and RouteCache survive it.
DaemonRestart ==
    /\ spent.restarts < MaxRestarts
    /\ spent' = [spent EXCEPT !.restarts = @ + 1]
    /\ route_restore_pending_' = (route # NoRoute)
    /\ settled' = (route = NoRoute)
    /\ pc' = "poll" /\ driver_connected' = FALSE /\ new_driver_connection' = FALSE
    /\ sending' = NoSnapshot /\ accepted' = NoAcceptance
    /\ announced_route_hash_' = NoRoute /\ announce_attempts_' = 0 /\ due' = TRUE
    /\ driver_was_connected_' = FALSE /\ sampled' = 0
    /\ restored_context_generation_' = 0
    /\ daemon_generation_' = 1 /\ next_request_id_' = 1
    /\ client_fd_' = 0 /\ backlog' = << >>
    /\ registered' = {} /\ context_generation_' = 0
    /\ UNCHANGED <<route, wires, driver>>

Next ==
    \/ RunOnce \/ Timeout \/ RouteSettles \/ AnnounceFallsDue \/ DaemonRestart
    \/ \E r \in Route : OnRouteReport(r)
    \/ HandleSnapshotCommand \/ EnsureConnected \/ DrainQueue \/ CloseConnection
    \/ DriverCrash
    \/ \E c \in Context : CreateContext(c) \/ ConfigureContext(c) \/ ReleaseContext(c)

Spec == Init /\ [][Next]_vars

\* The daemon's loop and the bridge thread run forever, time passes, and
\* AudioFlinger configures every effect it creates.
FairSpec ==
    /\ Spec
    /\ WF_vars(RunOnce) /\ WF_vars(Timeout)
    /\ WF_vars(RouteSettles) /\ WF_vars(AnnounceFallsDue)
    /\ WF_vars(HandleSnapshotCommand) /\ WF_vars(EnsureConnected)
    /\ WF_vars(DrainQueue) /\ WF_vars(CloseConnection)
    /\ \A c \in Context : WF_vars(ConfigureContext(c))

-----------------------------------------------------------------------------
(* Properties *)

Snapshots == [route : Route, app : Nat, daemon : Nat]
Connections == 0 .. MaxConnections

\* The state of the daemon, the sockets and the driver is well formed: the
\* daemon listens only to connections that were made, and every context keeps
\* a staged or adopted snapshot of a route (DaemonRuntime.h, ViperContext.h).
TypeOK ==
    /\ pc \in {"poll", "app", "announce_wait", "restore", "begin_wait", "commit_wait"}
    /\ {driver_connected, new_driver_connection, route_restore_pending_, settled,
        due, driver_was_connected_} \subseteq BOOLEAN
    /\ {route, announced_route_hash_} \subseteq Route \cup {NoRoute}
    /\ announce_attempts_ \in 0 .. MaxAnnounceAttempts
    /\ {restored_context_generation_, daemon_generation_, next_request_id_,
        context_generation_} \subseteq Nat
    /\ sending \in Snapshots \cup {NoSnapshot}
    /\ accepted.snapshot \in Snapshots \cup {NoSnapshot}
    /\ accepted.contexts \subseteq Context /\ registered \subseteq Context
    /\ {client_fd_, socket_fd_} \subseteq 0 .. last_connection
    /\ Range(backlog) \subseteq 1 .. last_connection
    /\ last_connection \in Connections
    /\ \A c \in Context :
        /\ contexts[c].hash \in Route \cup {NoRoute}
        /\ {contexts[c].staging, contexts[c].adopted}
                \subseteq Snapshots \cup {NoSnapshot}
        /\ contexts[c].got => contexts[c].staging # NoSnapshot

\* When RestoreCurrentRoute counts a restore as accepted, every context that
\* took part and still lives runs the snapshot that was sent: a late answer of
\* an earlier request, a partial fan-out or a new connection never passes for
\* the answer of this COMMIT (AwaitApplyOutcome, ApplySnapshotCommand).
AcceptedMeansAdopted ==
    [][accepted' # accepted /\ accepted'.snapshot # NoSnapshot =>
        /\ accepted'.contexts # {}
        /\ \A c \in accepted'.contexts \cap
                   (IF accepted'.process = spent.crashes THEN LiveContexts ELSE {}) :
                contexts[c].adopted = accepted'.snapshot]_vars

\* Whatever the driver does, RunOnce always comes round again (the "bounded"
\* comment of AwaitApplyOutcome).
LoopNeverWedges == pc # "poll" ~> pc = "poll"

Restored(c) ==
    route \in Route /\ Stored[route] # 0 =>
        contexts[c].adopted # NoSnapshot /\ contexts[c].adopted.route = route

\* The driver adopted a later App generation for another route and refuses this
\* route's snapshot as stale.
Outranked(c) ==
    /\ contexts[c].adopted # NoSnapshot /\ route \in Route
    /\ contexts[c].adopted.app > Stored[route]

\* No request timed out before its answer, the daemon was not restarted, no effect
\* was created beside another or after one was released, and RunOnce sampled
\* Connected() between the loss of one connection and the next.
Undisturbed ==
    /\ spent.timeouts = 0 /\ spent.restarts = 0
    /\ client_fd_ # 0 /\ driver_was_connected_ => client_fd_ = sampled
    /\ Cardinality(LiveContexts) <= 1
    /\ \A c \in Context : contexts[c].state # "released"

\* Once routes stop changing, the effect ends up running the snapshot stored for
\* the current route, also after the driver process was restarted in the middle of
\* a transfer; unless a later App generation keeps it out (DaemonRuntime's class
\* comment, RestoreCurrentRoute).  What happens outside Undisturbed is the subject
\* of NewContextRestored, of AcceptedMeansAdopted under a restart, and of the
\* README's list of known limits.
RouteEventuallyRestored ==
    []Undisturbed => <>[](\A c \in LiveContexts : Restored(c) \/ Outranked(c))

\* The same for an effect created next to others that stay: "Registry
\* generation covers a context discovered after the connection edge"
\* (DaemonRuntime::RunOnce).
NewContextRestored ==
    <>[]((\A d \in Context : contexts[d].state # "released")
            => \A c \in LiveContexts : Restored(c))
=============================================================================
