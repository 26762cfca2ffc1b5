------------------------- MODULE RouteRestoreProofs -------------------------
(***************************************************************************)
(* For any routes, contexts, stored generations and bounds: the daemon, the *)
(* sockets and the driver stay well formed, and a restore that is counted  *)
(* as accepted was adopted by every context that took part and still       *)
(* lives, as long as the daemon is not restarted.                          *)
(***************************************************************************)
EXTENDS RouteRestore, FiniteSetTheorems, SequenceTheorems, WellFoundedInduction, TLAPS

USE RestoreAssumption

RouteHash == Route \cup {NoRoute}

MaybeSnapshot == Snapshots \cup {NoSnapshot}

CommandSet ==
    [type : {"announce"}, snapshot : [route : RouteHash, app : {0}, daemon : {0}],
     request_id : Nat] \cup
    [type : {"begin", "chunk", "commit"}, snapshot : Snapshots, request_id : Nat]

LifecycleSet == [type : {"created", "released"}, contexts : SUBSET Context]

AnswerSet ==
    [type : {"answer"}, request_id : Nat, accepted : BOOLEAN,
     contexts : SUBSET Context, process : Nat]

EventSet == LifecycleSet \cup AnswerSet

ContextRecord ==
    [state : {"not created", "live", "released", "dead"}, ready : BOOLEAN,
     hash : RouteHash, staging : MaybeSnapshot, got : BOOLEAN, adopted : MaybeSnapshot]

\* RunOnce and what DaemonRuntime keeps between two passes.
LoopTyped ==
    /\ pc \in {"poll", "app", "announce_wait", "restore", "begin_wait", "commit_wait"}
    /\ driver_connected \in BOOLEAN /\ new_driver_connection \in BOOLEAN
    /\ sending \in MaybeSnapshot
    /\ pc \in {"begin_wait", "commit_wait"} => sending \in Snapshots
    /\ accepted \in [snapshot : MaybeSnapshot, contexts : SUBSET Context, process : Nat]

RoutingTyped ==
    /\ route \in RouteHash /\ announced_route_hash_ \in RouteHash
    /\ route_restore_pending_ \in BOOLEAN /\ settled \in BOOLEAN
    /\ due \in BOOLEAN /\ driver_was_connected_ \in BOOLEAN
    /\ announce_attempts_ \in 0 .. MaxAnnounceAttempts

NumbersTyped ==
    /\ restored_context_generation_ \in Nat /\ context_generation_ \in Nat
    /\ daemon_generation_ \in Nat \ {0} /\ next_request_id_ \in Nat \ {0}
    /\ spent \in [creations : Nat, reports : Nat, crashes : Nat, restarts : Nat,
                  timeouts : Nat]

\* The daemon listens only to connections that were made.
ServerTyped ==
    /\ last_connection \in 0 .. MaxConnections
    /\ client_fd_ \in 0 .. last_connection /\ socket_fd_ \in 0 .. last_connection
    /\ backlog \in Seq(1 .. last_connection)
    /\ registered \in SUBSET Context

WiresTyped ==
    /\ commands \in [1 .. MaxConnections -> Seq(CommandSet)]
    /\ events \in [1 .. MaxConnections -> Seq(EventSet)]
    /\ queue_ \in Seq(LifecycleSet)

DriverTyped ==
    /\ contexts \in [Context -> ContextRecord]
    /\ \A c \in Context : contexts[c].got => contexts[c].staging # NoSnapshot

TypeInv ==
    LoopTyped /\ RoutingTyped /\ NumbersTyped /\ ServerTyped /\ WiresTyped /\ DriverTyped

Transferring == pc \in {"begin_wait", "commit_wait"}

\* No snapshot is newer than the daemon's last one, and the last one is the one
\* being transferred.
Numbered(snapshot) ==
    snapshot # NoSnapshot =>
        /\ snapshot.daemon <= daemon_generation_
        /\ Transferring /\ snapshot.daemon = daemon_generation_ => snapshot = sending

\* Only the open socket carries commands, and nothing in flight has a number the
\* daemon has not given out yet.  An answer that the open socket still holds was
\* given by the process that runs; it names contexts of its process, and at least
\* one if it accepts.
CommandsNumbered ==
    \A n \in 1 .. MaxConnections :
        /\ n # socket_fd_ => commands[n] = << >>
        /\ \A m \in Range(commands[n]) :
            m.request_id < next_request_id_ /\ Numbered(m.snapshot)

AnswersNumbered ==
    \A n \in 1 .. MaxConnections : \A e \in Range(events[n]) : e.type = "answer" =>
        /\ e.request_id < next_request_id_ /\ e.process <= spent.crashes
        /\ n = socket_fd_ => e.process = spent.crashes
        /\ e.process = spent.crashes =>
            \A c \in e.contexts : contexts[c].state \in {"live", "released"}
        /\ e.accepted => e.contexts # {}

ContextsNumbered ==
    /\ Transferring => sending.daemon = daemon_generation_
    /\ \A c \in Context : Numbered(contexts[c].staging) /\ Numbered(contexts[c].adopted)

Answers(n) == {e \in Range(events[n]) : e.type = "answer" /\ e.request_id = AwaitedId}

\* Every context that lives has staged what is being sent, or has nothing staged.
AllStaged == \A c \in LiveContexts : contexts[c].staging \in {sending, NoSnapshot}

\* The BEGIN that is awaited is the last command, or it was answered, on one
\* connection; and when it was accepted by the process that runs, no command came
\* after it.
BeginUnderWay ==
    pc = "begin_wait" =>
        /\ \A n \in 1 .. MaxConnections : \A i \in 1 .. Len(commands[n]) :
            commands[n][i].request_id = AwaitedId =>
                /\ i = Len(commands[n])
                /\ commands[n][i].type = "begin" /\ commands[n][i].snapshot = sending
        /\ \A n \in 1 .. MaxConnections : \A e \in Answers(n) :
            /\ \A k \in 1 .. MaxConnections :
                /\ \A m \in Range(commands[k]) : m.request_id # AwaitedId
                /\ Answers(k) # {} => k = n
            /\ e.accepted /\ n = socket_fd_ => commands[n] = << >> /\ AllStaged

Remaining ==
    {<< >>, <<Command("commit", sending, AwaitedId)>>,
     <<Command("chunk", sending, AwaitedId), Command("commit", sending, AwaitedId)>>}

\* The CHUNK and the COMMIT are the only commands left, on contexts that staged
\* what is being sent; and when the COMMIT was accepted, they adopted it.
CommitUnderWay ==
    pc = "commit_wait" =>
        \A n \in 1 .. MaxConnections :
            /\ commands[n] \in Remaining
            /\ commands[n] # << >> => AllStaged
            /\ \A e \in Answers(n) : e.accepted =>
                /\ \A k \in 1 .. MaxConnections : commands[k] = << >>
                /\ e.process = spent.crashes =>
                    \A c \in e.contexts \cap LiveContexts : contexts[c].adopted = sending

Transfers ==
    /\ CommandsNumbered /\ AnswersNumbered /\ ContextsNumbered
    /\ BeginUnderWay /\ CommitUnderWay

\* A restarted daemon numbers from the beginning again.
TransferInv == spent.restarts = 0 => Transfers

-----------------------------------------------------------------------------
(* Lemmas about sequences *)

\* A set of indices that is not empty has a last one.
LEMMA GreatestIndex ==
    ASSUME NEW n \in Nat, NEW S \in SUBSET (1 .. n), S # {}
    PROVE  \E i \in S : \A j \in S : j <= i
<1> DEFINE T == {n - i : i \in S}
<1>1. \A i \in S : i \in Nat /\ i <= n /\ n - i \in Nat
  OBVIOUS
<1>2. T \subseteq Nat
  BY <1>1, Zenon
<1>3. T # {}
  <2>1. PICK i \in S : TRUE
    OBVIOUS
  <2>2. n - i \in T
    OBVIOUS
  <2> QED BY <2>2
<1>4. PICK x \in T : \A y \in T : ~ (<<y, x>> \in OpToRel(<, Nat))
  BY <1>2, <1>3, NatLessThanWellFounded, WFMin, Zenon
<1>5. \A y \in T : ~ (y < x)
  BY <1>2, <1>4 DEF OpToRel
<1>6. PICK i \in S : x = n - i
  OBVIOUS
<1>7. ASSUME NEW j \in S PROVE j <= i
  <2>1. n - j \in T
    OBVIOUS
  <2>2. ~ (n - j < n - i)
    BY <1>5, <1>6, <2>1
  <2> QED BY <2>2
<1> QED BY <1>7

LEMMA AppendFacts ==
    ASSUME NEW S, NEW s \in Seq(S), NEW e \in S
    PROVE  Append(s, e) \in Seq(S) /\ Range(Append(s, e)) = Range(s) \cup {e}
<1>1. /\ Append(s, e) \in Seq(S) /\ Len(Append(s, e)) = Len(s) + 1 /\ Len(s) \in Nat
      /\ \A i \in 1 .. Len(s) : Append(s, e)[i] = s[i]
      /\ Append(s, e)[Len(s) + 1] = e
  OBVIOUS
<1>2. DOMAIN Append(s, e) = (1 .. Len(s)) \cup {Len(s) + 1} /\ DOMAIN s = 1 .. Len(s)
  BY <1>1
<1> QED BY <1>1, <1>2 DEF Range

LEMMA TailFacts ==
    ASSUME NEW S, NEW s \in Seq(S), s # << >>
    PROVE  /\ Tail(s) \in Seq(S) /\ Len(Tail(s)) = Len(s) - 1
           /\ Len(s) \in Nat \ {0}
           /\ Head(s) = s[1] /\ Head(s) \in S /\ Head(s) \in Range(s)
           /\ \A i \in 1 .. Len(s) - 1 : Tail(s)[i] = s[i + 1]
           /\ Range(Tail(s)) \subseteq Range(s)
<1>1. /\ Tail(s) \in Seq(S) /\ Len(Tail(s)) = Len(s) - 1
      /\ Len(s) \in Nat \ {0}
      /\ Head(s) = s[1] /\ Head(s) \in S
      /\ \A i \in 1 .. Len(s) - 1 : Tail(s)[i] = s[i + 1]
  OBVIOUS
<1>2. DOMAIN s = 1 .. Len(s) /\ DOMAIN Tail(s) = 1 .. Len(s) - 1
  BY <1>1
<1>3. 1 \in DOMAIN s /\ \A i \in DOMAIN Tail(s) : i + 1 \in DOMAIN s /\ s[i + 1] = Tail(s)[i]
  BY <1>1, <1>2
<1> QED BY <1>1, <1>3 DEF Range

LEMMA ConcatFacts ==
    ASSUME NEW S, NEW s \in Seq(S), NEW t \in Seq(S)
    PROVE  /\ s \o t \in Seq(S) /\ Len(s \o t) = Len(s) + Len(t)
           /\ Len(s) \in Nat /\ Len(t) \in Nat
           /\ \A i \in 1 .. Len(s) : (s \o t)[i] = s[i]
           /\ \A i \in 1 .. Len(t) : (s \o t)[Len(s) + i] = t[i]
OBVIOUS

LEMMA ConcatRange ==
    ASSUME NEW S, NEW s \in Seq(S), NEW t \in Seq(S)
    PROVE  Range(s \o t) \subseteq Range(s) \cup Range(t)
<1>1. /\ DOMAIN s = 1 .. Len(s) /\ DOMAIN t = 1 .. Len(t)
      /\ DOMAIN (s \o t) = 1 .. Len(s) + Len(t)
      /\ Len(s) \in Nat /\ Len(t) \in Nat
  BY ConcatFacts
<1> SUFFICES ASSUME NEW x \in Range(s \o t) PROVE x \in Range(s) \cup Range(t)
  OBVIOUS
<1>2. PICK i \in 1 .. Len(s) + Len(t) : x = (s \o t)[i]
  BY <1>1 DEF Range
<1>3. CASE i <= Len(s)
  <2>1. i \in DOMAIN s /\ x = s[i]
    BY <1>1, <1>2, <1>3, ConcatFacts
  <2> QED BY <2>1 DEF Range
<1>4. CASE i > Len(s)
  <2>1. i - Len(s) \in 1 .. Len(t) /\ Len(s) + (i - Len(s)) = i
    BY <1>1, <1>2, <1>4
  <2>2. x = t[i - Len(s)]
    BY <1>2, <2>1, ConcatFacts
  <2> QED BY <1>1, <2>1, <2>2 DEF Range
<1> QED BY <1>1, <1>2, <1>3, <1>4

LEMMA RangeFacts ==
    ASSUME NEW S, NEW s \in Seq(S)
    PROVE  /\ \A i \in 1 .. Len(s) : s[i] \in Range(s) /\ s[i] \in S
           /\ \A x \in Range(s) : x \in S /\ \E i \in 1 .. Len(s) : x = s[i]
           /\ DOMAIN s = 1 .. Len(s)
<1>1. DOMAIN s = 1 .. Len(s)
  OBVIOUS
<1> QED BY <1>1 DEF Range

LEMMA EmptyFacts ==
    ASSUME NEW S
    PROVE  << >> \in Seq(S) /\ Len(<< >>) = 0 /\ Range(<< >>) = {}
BY DEF Range

-----------------------------------------------------------------------------
(* DriverEventServer::Poll *)

LEMMA PeerTyped ==
    ASSUME TypeInv
    PROVE  Peer \in 0 .. last_connection /\ Received \in Seq(EventSet)
<1>1. Peer \in 0 .. last_connection
  <2>1. CASE backlog = << >>
    BY <2>1 DEF TypeInv, ServerTyped, Peer
  <2>2. CASE backlog # << >>
    <3>1. Head(backlog) \in 1 .. last_connection
      BY <2>2, TailFacts DEF TypeInv, ServerTyped
    <3> QED BY <2>2, <3>1 DEF Peer
  <2> QED BY <2>1, <2>2
<1>2. CASE Peer = 0
  <2>1. Received = << >>
    BY <1>2 DEF Received
  <2> QED BY <1>1, <2>1
<1>3. CASE Peer # 0
  <2>1. Peer \in 1 .. MaxConnections
    BY <1>1, <1>3 DEF TypeInv, ServerTyped
  <2>2. events[Peer] \in Seq(EventSet)
    BY <2>1 DEF TypeInv, WiresTyped
  <2>3. Received = events[Peer]
    BY <1>3 DEF Received
  <2> QED BY <1>1, <2>2, <2>3
<1> QED BY <1>2, <1>3

LEMMA ContextsOfTyped ==
    ASSUME TypeInv, NEW type
    PROVE  ContextsOf(type) \subseteq Context
<1>1. \A i \in DOMAIN Received : Received[i].contexts \subseteq Context
  <2>1. \A e \in EventSet : e.contexts \subseteq Context
    BY DEF EventSet, LifecycleSet, AnswerSet
  <2>2. \A i \in DOMAIN Received : Received[i] \in EventSet
    BY PeerTyped
  <2> QED BY <2>1, <2>2
<1> QED BY <1>1, Zenon DEF ContextsOf

LEMMA PollTyped ==
    ASSUME TypeInv, Poll
    PROVE  /\ client_fd_' \in 0 .. last_connection
           /\ backlog' \in Seq(1 .. last_connection)
           /\ events' \in [1 .. MaxConnections -> Seq(EventSet)]
           /\ registered' \in SUBSET Context /\ context_generation_' \in Nat
           /\ UNCHANGED <<last_connection, socket_fd_, contexts, queue_>>
<1>1. client_fd_' \in 0 .. last_connection
  <2>1. 0 \in 0 .. last_connection
    BY DEF TypeInv, ServerTyped
  <2> QED BY <2>1, PeerTyped DEF Poll
<1>2. backlog' \in Seq(1 .. last_connection)
  <2>1. CASE backlog = << >>
    <3>1. backlog' = << >>
      BY <2>1 DEF Poll
    <3> QED BY <3>1
  <2>2. CASE backlog # << >>
    <3>1. backlog' = Tail(backlog)
      BY <2>2 DEF Poll
    <3>2. backlog \in Seq(1 .. last_connection)
      BY DEF TypeInv, ServerTyped
    <3> QED BY <2>2, <3>1, <3>2, TailFacts
  <2> QED BY <2>1, <2>2
<1>3. events' \in [1 .. MaxConnections -> Seq(EventSet)]
  <2>1. << >> \in Seq(EventSet)
    BY EmptyFacts
  <2>2. events \in [1 .. MaxConnections -> Seq(EventSet)]
    BY DEF TypeInv, WiresTyped
  <2>3. events' = [n \in DOMAIN events |-> IF n \in {Peer, client_fd_} THEN << >> ELSE events[n]]
    BY DEF Poll
  <2> QED BY <2>1, <2>2, <2>3
<1>4. registered' \in SUBSET Context
  <2>1. registered' = (registered \cup ContextsOf("created")) \ ContextsOf("released")
    BY DEF Poll
  <2> QED BY <2>1, ContextsOfTyped DEF TypeInv, ServerTyped
<1>5. context_generation_' \in Nat
  <2>1. ContextsOf("created") \ registered \in SUBSET Context
    BY ContextsOfTyped
  <2>2. IsFiniteSet(ContextsOf("created") \ registered)
    BY <2>1, FS_Subset
  <2>3. Cardinality(ContextsOf("created") \ registered) \in Nat
    BY <2>2, FS_CardinalityType
  <2>4. context_generation_' =
            context_generation_ + Cardinality(ContextsOf("created") \ registered)
    BY DEF Poll
  <2> QED BY <2>3, <2>4 DEF TypeInv, NumbersTyped
<1>6. UNCHANGED <<last_connection, socket_fd_, contexts, queue_>>
  BY DEF Poll, driver
<1> QED BY <1>1, <1>2, <1>3, <1>4, <1>5, <1>6

\* The outcome that AwaitApplyOutcome looks at is an answer that was read.
LEMMA OutcomeFacts ==
    ASSUME TypeInv, AnswerIndices # {}
    PROVE  /\ Outcome \in AnswerSet
           /\ Peer \in 1 .. MaxConnections /\ Outcome \in Range(events[Peer])
<1>1. AnswerIndices \in SUBSET (1 .. Len(Received)) /\ Len(Received) \in Nat
  BY PeerTyped DEF AnswerIndices
<1>2. \E i \in AnswerIndices : \A j \in AnswerIndices : j <= i
  BY <1>1, GreatestIndex
<1> DEFINE last == CHOOSE i \in AnswerIndices : \A j \in AnswerIndices : j <= i
<1>3. last \in AnswerIndices
  BY <1>2, Zenon
<1>4. Outcome = Received[last]
  BY DEF Outcome
<1> HIDE DEF last
<1>5. Outcome \in Range(Received) /\ Outcome \in EventSet /\ Outcome.type = "answer"
  BY <1>1, <1>3, <1>4, PeerTyped, RangeFacts DEF AnswerIndices
<1>6. Outcome \in AnswerSet
  <2>1. \A e \in EventSet : e.type = "answer" => e \in AnswerSet
    BY DEF EventSet, LifecycleSet
  <2> QED BY <1>5, <2>1
<1>7. Peer # 0
  <2>1. Received # << >>
    BY <1>1, <1>3
  <2> QED BY <2>1 DEF Received
<1>8. Peer \in 1 .. MaxConnections /\ Received = events[Peer]
  BY <1>7, PeerTyped DEF Received, TypeInv, ServerTyped
<1> QED BY <1>5, <1>6, <1>8

-----------------------------------------------------------------------------
(* Type correctness *)

LEMMA GoneTyped ==
    ASSUME NEW state \in {"not created", "live", "released", "dead"}
    PROVE  Gone(state) \in ContextRecord /\ ~Gone(state).got /\ Gone(state).state = state
           /\ Gone(state).staging = NoSnapshot /\ Gone(state).adopted = NoSnapshot
<1>1. ASSUME NEW f \in BOOLEAN, ~f
      PROVE  LET x == [[state |-> "live", ready |-> f, hash |-> NoRoute, staging |-> NoSnapshot,
                        got |-> f, adopted |-> NoSnapshot] EXCEPT !.state = state]
             IN  x \in ContextRecord /\ ~x.got /\ x.state = state
                 /\ x.staging = NoSnapshot /\ x.adopted = NoSnapshot
  BY <1>1 DEF ContextRecord, RouteHash, MaybeSnapshot
<1> QED BY <1>1, Zenon DEF Gone, Fresh

LEMMA FreshTyped ==
    /\ Fresh(ReadyAtCreation) \in ContextRecord /\ ~Fresh(ReadyAtCreation).got
    /\ Fresh(ReadyAtCreation).state = "live"
    /\ Fresh(ReadyAtCreation).staging = NoSnapshot
    /\ Fresh(ReadyAtCreation).adopted = NoSnapshot
BY Zenon DEF Fresh, ContextRecord, RouteHash, MaybeSnapshot

LEMMA TypeInit == Init => TypeInv
<1> SUFFICES ASSUME Init PROVE TypeInv
  OBVIOUS
<1>1. LoopTyped
  <2>1. accepted \in [snapshot : MaybeSnapshot, contexts : SUBSET Context, process : Nat]
    BY DEF Init, NoAcceptance, MaybeSnapshot
  <2>2. driver_connected \in BOOLEAN /\ new_driver_connection \in BOOLEAN
    BY Zenon DEF Init
  <2>3. pc = "poll" /\ sending \in MaybeSnapshot
    BY DEF Init, MaybeSnapshot
  <2> QED BY <2>1, <2>2, <2>3 DEF LoopTyped
<1>2. RoutingTyped
  <2>1. /\ route_restore_pending_ \in BOOLEAN /\ settled \in BOOLEAN
        /\ due \in BOOLEAN /\ driver_was_connected_ \in BOOLEAN
    BY Zenon DEF Init
  <2>2. /\ route \in RouteHash /\ announced_route_hash_ = NoRoute
        /\ announce_attempts_ = 0
    BY Zenon DEF Init, RouteHash
  <2> QED BY <2>1, <2>2 DEF RoutingTyped, RouteHash
<1>3. NumbersTyped
  <2>1. /\ restored_context_generation_ = 0 /\ context_generation_ = 0
        /\ daemon_generation_ = 1 /\ next_request_id_ = 1
        /\ spent = [creations |-> 0, reports |-> 0, crashes |-> 0, restarts |-> 0, timeouts |-> 0]
    BY Zenon DEF Init
  <2> QED BY <2>1 DEF NumbersTyped
<1>4. ServerTyped
  <2>1. /\ last_connection = 0 /\ client_fd_ = 0 /\ socket_fd_ = 0
        /\ backlog = << >> /\ registered = {}
    BY Zenon DEF Init
  <2> QED BY <2>1 DEF ServerTyped
<1>5. WiresTyped
  <2>1. << >> \in Seq(CommandSet) /\ << >> \in Seq(EventSet) /\ << >> \in Seq(LifecycleSet)
    BY EmptyFacts
  <2> QED BY <2>1 DEF Init, WiresTyped
<1>6. DriverTyped
  BY GoneTyped DEF Init, DriverTyped
<1> QED BY <1>1, <1>2, <1>3, <1>4, <1>5, <1>6 DEF TypeInv

\* A command that is sent joins the ones of the connection.
LEMMA PushTyped ==
    ASSUME TypeInv, NEW fd \in 1 .. MaxConnections, NEW batch \in Seq(CommandSet)
    PROVE  Push(fd, batch) \in [1 .. MaxConnections -> Seq(CommandSet)]
<1>1. commands[fd] \o batch \in Seq(CommandSet)
  <2>1. commands[fd] \in Seq(CommandSet)
    BY DEF TypeInv, WiresTyped
  <2> QED BY <2>1, ConcatFacts
<1> QED BY <1>1 DEF Push, TypeInv, WiresTyped

LEMMA SendableFacts ==
    ASSUME TypeInv, NEW fd, Sendable(fd)
    PROVE  fd \in 1 .. MaxConnections /\ fd = socket_fd_
BY DEF Sendable, TypeInv, ServerTyped

LEMMA AnnounceTyped ==
    ASSUME TypeInv, AnnounceRoute
    PROVE  TypeInv'
<1> DEFINE up == client_fd_ # 0
           edge == up /\ ~driver_was_connected_
           forget == edge \/ ~up
           told == IF forget THEN NoRoute ELSE announced_route_hash_
           tried == IF forget THEN 0 ELSE announce_attempts_
           now == forget \/ due
           needed == up /\ told # route /\ BudgetLeft(tried) /\ now
           sent == needed /\ Sendable(client_fd_)
           announcement == Command("announce", [route |-> route, app |-> 0, daemon |-> 0],
                                   next_request_id_)
<1>1. /\ driver_connected' = up /\ new_driver_connection' = edge
      /\ driver_was_connected_' = up
      /\ announced_route_hash_' = told
      /\ announce_attempts_' = IF needed THEN tried + 1 ELSE tried
      /\ due' = IF needed /\ ~sent THEN FALSE ELSE now
      /\ next_request_id_' = IF needed THEN next_request_id_ + 1 ELSE next_request_id_
      /\ commands' = IF sent THEN Push(client_fd_, <<announcement>>) ELSE commands
      /\ pc' = IF sent THEN "announce_wait" ELSE "restore"
  BY DEF AnnounceRoute
<1>2. UNCHANGED <<sending, accepted, routing, restored_context_generation_,
                  daemon_generation_, server, events, last_connection, driver, spent>>
  BY DEF AnnounceRoute
<1>3. LoopTyped'
  <2>1. driver_connected' \in BOOLEAN /\ new_driver_connection' \in BOOLEAN
    BY <1>1, Zenon
  <2>2. pc' \in {"announce_wait", "restore"} /\ UNCHANGED <<sending, accepted>>
    BY <1>1, <1>2, Zenon
  <2> QED BY <2>1, <2>2 DEF LoopTyped, TypeInv
<1>4. RoutingTyped'
  <2>1. due' \in BOOLEAN /\ driver_was_connected_' \in BOOLEAN
    <3>1. due \in BOOLEAN
      BY DEF TypeInv, RoutingTyped
    <3> QED BY <1>1, <3>1, Zenon
  <2>2. announced_route_hash_' \in RouteHash
    BY <1>1 DEF TypeInv, RoutingTyped, RouteHash
  <2>3. announce_attempts_' \in 0 .. MaxAnnounceAttempts
    <3>1. tried \in 0 .. MaxAnnounceAttempts
      BY DEF TypeInv, RoutingTyped
    <3>2. needed => tried < MaxAnnounceAttempts
      BY DEF BudgetLeft
    <3> HIDE DEF needed, tried
    <3> QED BY <1>1, <3>1, <3>2
  <2>4. UNCHANGED <<route, route_restore_pending_, settled>>
    BY <1>2 DEF routing
  <2> QED BY <2>1, <2>2, <2>3, <2>4 DEF RoutingTyped, TypeInv
<1>5. NumbersTyped'
  <2>1. next_request_id_' \in Nat \ {0}
    <3> HIDE DEF needed
    <3> QED BY <1>1 DEF TypeInv, NumbersTyped
  <2> QED BY <1>2, <2>1 DEF TypeInv, NumbersTyped, server
<1>6. ServerTyped'
  BY <1>2 DEF TypeInv, ServerTyped, server, driver
<1>7. WiresTyped'
  <2>1. <<announcement>> \in Seq(CommandSet)
    <3>1. announcement \in CommandSet
      BY DEF TypeInv, RoutingTyped, NumbersTyped, Command, CommandSet
    <3> HIDE DEF announcement
    <3> QED BY <3>1
  <2>2. CASE sent
    <3>1. client_fd_ \in 1 .. MaxConnections
      BY <2>2, SendableFacts
    <3>2. commands' = Push(client_fd_, <<announcement>>)
      BY <1>1, <2>2
    <3> HIDE DEF announcement
    <3>3. commands' \in [1 .. MaxConnections -> Seq(CommandSet)]
      BY <2>1, <3>1, <3>2, PushTyped
    <3> QED BY <1>2, <3>3 DEF TypeInv, WiresTyped, driver
  <2>3. CASE ~sent
    <3>1. commands' = commands
      BY <1>1, <2>3
    <3> QED BY <1>2, <3>1 DEF TypeInv, WiresTyped, driver
  <2> QED BY <2>2, <2>3
<1>8. DriverTyped'
  BY <1>2 DEF TypeInv, DriverTyped, driver
<1> QED BY <1>3, <1>4, <1>5, <1>6, <1>7, <1>8 DEF TypeInv

LEMMA PassEndsFacts ==
    ASSUME PassEnds
    PROVE  /\ pc' = "poll" /\ sending' = NoSnapshot
           /\ driver_connected' \in BOOLEAN /\ new_driver_connection' \in BOOLEAN
BY Zenon DEF PassEnds

LEMMA PollKeepsTypes ==
    ASSUME TypeInv, Poll
    PROVE  /\ ServerTyped' /\ DriverTyped' /\ context_generation_' \in Nat
           /\ commands' \in [1 .. MaxConnections -> Seq(CommandSet)] => WiresTyped'
<1>1. ServerTyped' /\ DriverTyped'
  BY PollTyped DEF TypeInv, ServerTyped, DriverTyped
<1>2. commands' \in [1 .. MaxConnections -> Seq(CommandSet)] => WiresTyped'
  BY PollTyped DEF TypeInv, WiresTyped
<1> QED BY <1>1, <1>2, PollTyped

LEMMA RunPollTyped ==
    ASSUME TypeInv, RunPoll
    PROVE  TypeInv'
<1>1. Poll
  BY DEF RunPoll
<1>2. /\ pc' = "app" /\ accepted' = NoAcceptance
      /\ UNCHANGED <<commands, driver_connected, new_driver_connection, sending,
                     routing, announcing, numbering, spent>>
  BY DEF RunPoll
<1>3. LoopTyped'
  <2>1. accepted' \in [snapshot : MaybeSnapshot, contexts : SUBSET Context, process : Nat]
    BY <1>2 DEF NoAcceptance, MaybeSnapshot
  <2> QED BY <1>2, <2>1 DEF TypeInv, LoopTyped
<1>4. RoutingTyped'
  BY <1>2 DEF TypeInv, RoutingTyped, routing, announcing
<1>5. NumbersTyped'
  BY <1>1, <1>2, PollTyped DEF TypeInv, NumbersTyped, numbering
<1>6. ServerTyped' /\ DriverTyped' /\ WiresTyped'
  <2>1. commands' \in [1 .. MaxConnections -> Seq(CommandSet)]
    BY <1>2 DEF TypeInv, WiresTyped
  <2> QED BY <1>1, <2>1, PollKeepsTypes
<1> QED BY <1>3, <1>4, <1>5, <1>6 DEF TypeInv

LEMMA WaitPollTyped ==
    ASSUME TypeInv, WaitPoll
    PROVE  TypeInv'
<1>1. Poll
  BY DEF WaitPoll
<1>2. UNCHANGED <<commands, loop, routing, announcing, numbering, spent>>
  BY DEF WaitPoll
<1>3. LoopTyped' /\ RoutingTyped'
  BY <1>2 DEF TypeInv, LoopTyped, RoutingTyped, loop, routing, announcing
<1>4. NumbersTyped'
  BY <1>1, <1>2, PollTyped DEF TypeInv, NumbersTyped, numbering
<1>5. ServerTyped' /\ DriverTyped' /\ WiresTyped'
  <2>1. commands' \in [1 .. MaxConnections -> Seq(CommandSet)]
    BY <1>2 DEF TypeInv, WiresTyped
  <2> QED BY <1>1, <2>1, PollKeepsTypes
<1> QED BY <1>3, <1>4, <1>5 DEF TypeInv

LEMMA AnnounceAnsweredTyped ==
    ASSUME TypeInv, AnnounceAnswered
    PROVE  TypeInv'
<1>1. Poll
  BY DEF AnnounceAnswered
<1>2. /\ pc' = "restore"
      /\ UNCHANGED <<driver_connected, new_driver_connection, sending, accepted,
                     routing, driver_was_connected_, sampled, numbering, commands, spent>>
  BY DEF AnnounceAnswered
<1>3. /\ announced_route_hash_' \in {announced_route_hash_, route}
      /\ announce_attempts_' \in {announce_attempts_, 0}
      /\ due' \in {due, FALSE}
  BY Zenon DEF AnnounceAnswered
<1>4. LoopTyped'
  BY <1>2 DEF TypeInv, LoopTyped
<1>5. RoutingTyped'
  <2>1. due' \in BOOLEAN
    <3>1. due \in BOOLEAN
      BY DEF TypeInv, RoutingTyped
    <3> QED BY <1>3, <3>1, Zenon
  <2>2. announced_route_hash_' \in RouteHash
    BY <1>3 DEF TypeInv, RoutingTyped
  <2>3. announce_attempts_' \in 0 .. MaxAnnounceAttempts
    BY <1>3 DEF TypeInv, RoutingTyped
  <2> QED BY <1>2, <2>1, <2>2, <2>3 DEF TypeInv, RoutingTyped, routing
<1>6. NumbersTyped'
  BY <1>1, <1>2, PollTyped DEF TypeInv, NumbersTyped, numbering
<1>7. ServerTyped' /\ DriverTyped' /\ WiresTyped'
  <2>1. commands' \in [1 .. MaxConnections -> Seq(CommandSet)]
    BY <1>2 DEF TypeInv, WiresTyped
  <2> QED BY <1>1, <2>1, PollKeepsTypes
<1> QED BY <1>4, <1>5, <1>6, <1>7 DEF TypeInv

LEMMA RestoreSkippedTyped ==
    ASSUME TypeInv, RestoreNotDue \/ RestoreBypassed
    PROVE  TypeInv'
<1>1. /\ PassEnds /\ restored_context_generation_' \in Nat
      /\ UNCHANGED <<accepted, route, settled, announcing, daemon_generation_,
                     next_request_id_, server, wires, driver, spent>>
  BY DEF RestoreNotDue, RestoreBypassed, TypeInv, NumbersTyped, routing, numbering
<1>2. route_restore_pending_' \in BOOLEAN
  <2>1. route_restore_pending_ \in BOOLEAN
    BY DEF TypeInv, RoutingTyped
  <2> QED BY <2>1, Zenon DEF RestoreNotDue, RestoreBypassed, routing
<1>3. LoopTyped'
  BY <1>1, PassEndsFacts DEF TypeInv, LoopTyped, MaybeSnapshot
<1>4. RoutingTyped'
  BY <1>1, <1>2 DEF TypeInv, RoutingTyped, announcing
<1>5. NumbersTyped' /\ ServerTyped'
  BY <1>1 DEF TypeInv, NumbersTyped, ServerTyped, server, wires, driver
<1>6. WiresTyped' /\ DriverTyped'
  BY <1>1 DEF TypeInv, WiresTyped, DriverTyped, wires, driver
<1> QED BY <1>3, <1>4, <1>5, <1>6 DEF TypeInv

LEMMA CommandTyped ==
    ASSUME NEW type \in {"begin", "chunk", "commit"}, NEW snapshot \in Snapshots,
           NEW id \in Nat
    PROVE  Command(type, snapshot, id) \in CommandSet
BY DEF Command, CommandSet

LEMMA RestoreBeginTyped ==
    ASSUME TypeInv, RestoreBegin
    PROVE  TypeInv'
<1> DEFINE snapshot == [route |-> route, app |-> Stored[route],
                        daemon |-> daemon_generation_ + 1]
           begin == Command("begin", snapshot, next_request_id_)
<1>1. /\ daemon_generation_' = daemon_generation_ + 1
      /\ next_request_id_' = next_request_id_ + 1
      /\ UNCHANGED <<accepted, route, settled, announcing, server, events, last_connection,
                     driver, spent>>
  BY DEF RestoreBegin
<1>2. snapshot \in Snapshots /\ begin \in CommandSet
  <2>1. snapshot \in Snapshots
    BY DEF RestoreBegin, TypeInv, NumbersTyped, Snapshots
  <2>2. next_request_id_ \in Nat
    BY DEF TypeInv, NumbersTyped
  <2> HIDE DEF snapshot
  <2> QED BY <2>1, <2>2, CommandTyped
<1>3. \/ /\ Sendable(client_fd_) /\ commands' = Push(client_fd_, <<begin>>)
         /\ sending' = snapshot /\ pc' = "begin_wait"
         /\ UNCHANGED <<driver_connected, new_driver_connection, restored_context_generation_>>
      \/ /\ restored_context_generation_' = context_generation_
         /\ PassEnds /\ UNCHANGED commands
  BY DEF RestoreBegin
<1> HIDE DEF snapshot, begin
<1>4. LoopTyped'
  BY <1>1, <1>2, <1>3, PassEndsFacts DEF TypeInv, LoopTyped, MaybeSnapshot
<1>5. RoutingTyped'
  <2>1. route_restore_pending_' \in BOOLEAN
    BY Zenon DEF RestoreBegin
  <2> QED BY <1>1, <2>1 DEF TypeInv, RoutingTyped, announcing
<1>6. NumbersTyped'
  BY <1>1, <1>3 DEF TypeInv, NumbersTyped, server
<1>7. ServerTyped' /\ DriverTyped'
  BY <1>1 DEF TypeInv, ServerTyped, DriverTyped, server, driver
<1>8. WiresTyped'
  <2>1. commands' \in [1 .. MaxConnections -> Seq(CommandSet)]
    <3>1. commands \in [1 .. MaxConnections -> Seq(CommandSet)] /\ <<begin>> \in Seq(CommandSet)
      BY <1>2 DEF TypeInv, WiresTyped
    <3>2. Sendable(client_fd_) => client_fd_ \in 1 .. MaxConnections
      BY SendableFacts
    <3> QED BY <1>3, <3>1, <3>2, PushTyped
  <2> QED BY <1>1, <2>1 DEF TypeInv, WiresTyped, driver
<1> QED BY <1>4, <1>5, <1>6, <1>7, <1>8 DEF TypeInv

LEMMA BeginAnsweredTyped ==
    ASSUME TypeInv, BeginAnswered
    PROVE  TypeInv'
<1> DEFINE batch == <<Command("chunk", sending, AwaitedId), Command("commit", sending, AwaitedId)>>
<1>1. /\ Poll
      /\ UNCHANGED <<accepted, routing, announcing, daemon_generation_, next_request_id_, spent>>
  BY DEF BeginAnswered
<1>2. \/ /\ Sendable(client_fd_') /\ commands' = Push(client_fd_', batch)
         /\ pc' = "commit_wait"
         /\ UNCHANGED <<driver_connected, new_driver_connection, sending,
                        restored_context_generation_>>
      \/ /\ PassEnds /\ restored_context_generation_' = context_generation_'
         /\ UNCHANGED commands
  BY DEF BeginAnswered, RestoreEnds
<1>3. batch \in Seq(CommandSet)
  <2>1. sending \in Snapshots /\ AwaitedId \in Nat
    BY DEF BeginAnswered, TypeInv, LoopTyped, NumbersTyped, AwaitedId
  <2>2. /\ Command("chunk", sending, AwaitedId) \in CommandSet
        /\ Command("commit", sending, AwaitedId) \in CommandSet
    BY <2>1, CommandTyped
  <2> QED BY <2>2
<1> HIDE DEF batch
<1>4. LoopTyped'
  <2>1. sending \in Snapshots
    BY DEF BeginAnswered, TypeInv, LoopTyped
  <2> QED BY <1>1, <1>2, <2>1, PassEndsFacts DEF TypeInv, LoopTyped, MaybeSnapshot
<1>5. RoutingTyped'
  BY <1>1 DEF TypeInv, RoutingTyped, routing, announcing
<1>6. NumbersTyped'
  BY <1>1, <1>2, PollTyped DEF TypeInv, NumbersTyped
<1>7. ServerTyped' /\ DriverTyped' /\ WiresTyped'
  <2>1. commands' \in [1 .. MaxConnections -> Seq(CommandSet)]
    <3>1. commands \in [1 .. MaxConnections -> Seq(CommandSet)]
      BY DEF TypeInv, WiresTyped
    <3>2. Sendable(client_fd_') => client_fd_' \in 1 .. MaxConnections
      BY SendableFacts
    <3> QED BY <1>2, <1>3, <3>1, <3>2, PushTyped
  <2> QED BY <1>1, <2>1, PollKeepsTypes
<1> QED BY <1>4, <1>5, <1>6, <1>7 DEF TypeInv

LEMMA CommitAnsweredTyped ==
    ASSUME TypeInv, CommitAnswered
    PROVE  TypeInv'
<1>1. /\ Poll /\ PassEnds /\ restored_context_generation_' = context_generation_'
      /\ UNCHANGED <<commands, routing, announcing, daemon_generation_, next_request_id_, spent>>
  BY DEF CommitAnswered, RestoreEnds
<1>2. accepted' \in [snapshot : MaybeSnapshot, contexts : SUBSET Context, process : Nat]
  <2>1. Outcome \in AnswerSet
    BY OutcomeFacts DEF CommitAnswered, Answered
  <2>2. Outcome.contexts \in SUBSET Context /\ Outcome.process \in Nat
    BY <2>1 DEF AnswerSet
  <2>3. accepted' = [snapshot |-> sending, contexts |-> Outcome.contexts,
                     process |-> Outcome.process] \/ accepted' = accepted
    BY DEF CommitAnswered
  <2> QED BY <2>2, <2>3 DEF TypeInv, LoopTyped
<1>3. LoopTyped'
  BY <1>1, <1>2, PassEndsFacts DEF LoopTyped, MaybeSnapshot
<1>4. RoutingTyped'
  BY <1>1 DEF TypeInv, RoutingTyped, routing, announcing
<1>5. NumbersTyped'
  BY <1>1, PollTyped DEF TypeInv, NumbersTyped
<1>6. ServerTyped' /\ DriverTyped' /\ WiresTyped'
  <2>1. commands' \in [1 .. MaxConnections -> Seq(CommandSet)]
    BY <1>1 DEF TypeInv, WiresTyped
  <2> QED BY <1>1, <2>1, PollKeepsTypes
<1> QED BY <1>3, <1>4, <1>5, <1>6 DEF TypeInv

LEMMA TimeoutTyped ==
    ASSUME TypeInv, Timeout
    PROVE  TypeInv'
<1>1. /\ UNCHANGED <<accepted, routing, announced_route_hash_, announce_attempts_,
                     driver_was_connected_, sampled, daemon_generation_,
                     next_request_id_, server, wires, driver>>
      /\ \/ /\ pc' = "restore"
            /\ UNCHANGED <<driver_connected, new_driver_connection, sending,
                           restored_context_generation_>>
         \/ PassEnds /\ restored_context_generation_' = context_generation_'
  BY DEF Timeout, GiveUp, RestoreEnds
<1>2. due' \in BOOLEAN
  <2>1. due \in BOOLEAN
    BY DEF TypeInv, RoutingTyped
  <2> QED BY <2>1, Zenon DEF Timeout, GiveUp
<1>3. LoopTyped'
  BY <1>1, PassEndsFacts DEF TypeInv, LoopTyped, MaybeSnapshot
<1>4. RoutingTyped'
  BY <1>1, <1>2 DEF TypeInv, RoutingTyped, routing
<1>5. NumbersTyped'
  <2>1. spent' = spent \/ spent' = [spent EXCEPT !.timeouts = @ + 1]
    BY DEF Timeout
  <2> QED BY <1>1, <2>1 DEF TypeInv, NumbersTyped, server
<1>6. ServerTyped' /\ DriverTyped' /\ WiresTyped'
  BY <1>1 DEF TypeInv, ServerTyped, DriverTyped, WiresTyped, server, wires, driver
<1> QED BY <1>3, <1>4, <1>5, <1>6 DEF TypeInv

\* Reports and the passing of time touch the routing only.
LEMMA RoutingStepTyped ==
    ASSUME TypeInv, RouteSettles \/ AnnounceFallsDue \/ \E r \in Route : OnRouteReport(r)
    PROVE  TypeInv'
<1>1. UNCHANGED <<loop, announced_route_hash_, announce_attempts_, driver_was_connected_,
                  numbering, server, wires, driver>>
  BY DEF RouteSettles, AnnounceFallsDue, OnRouteReport, announcing
<1>2. /\ route' \in RouteHash
      /\ spent' = spent \/ spent' = [spent EXCEPT !.reports = @ + 1]
  <2>1. route' = route \/ route' \in Route
    BY Zenon DEF RouteSettles, AnnounceFallsDue, OnRouteReport, routing
  <2>2. spent' = spent \/ spent' = [spent EXCEPT !.reports = @ + 1]
    BY Zenon DEF RouteSettles, AnnounceFallsDue, OnRouteReport
  <2> QED BY <2>1, <2>2 DEF TypeInv, RoutingTyped, RouteHash
<1>3. route_restore_pending_' \in BOOLEAN /\ settled' \in BOOLEAN /\ due' \in BOOLEAN
  <2>1. route_restore_pending_ \in BOOLEAN /\ settled \in BOOLEAN /\ due \in BOOLEAN
    BY DEF TypeInv, RoutingTyped
  <2>2. CASE RouteSettles
    BY <2>1, <2>2, Zenon DEF RouteSettles, announcing
  <2>3. CASE AnnounceFallsDue
    BY <2>1, <2>3, Zenon DEF AnnounceFallsDue, routing
  <2>4. CASE \E r \in Route : OnRouteReport(r)
    BY <2>1, <2>4, Zenon DEF OnRouteReport, announcing
  <2> QED BY <2>2, <2>3, <2>4
<1>4. LoopTyped' /\ RoutingTyped'
  BY <1>1, <1>2, <1>3 DEF TypeInv, LoopTyped, RoutingTyped, loop
<1>5. NumbersTyped'
  BY <1>1, <1>2 DEF TypeInv, NumbersTyped, numbering, server
<1>7. ServerTyped'
  BY <1>1 DEF TypeInv, ServerTyped, server, wires, driver
<1>6. DriverTyped' /\ WiresTyped'
  BY <1>1 DEF TypeInv, DriverTyped, WiresTyped, wires, driver
<1> QED BY <1>4, <1>5, <1>6, <1>7 DEF TypeInv

LEMMA DaemonRestartTyped ==
    ASSUME TypeInv, DaemonRestart
    PROVE  TypeInv'
<1>1. /\ pc' = "poll" /\ sending' = NoSnapshot /\ accepted' = NoAcceptance
      /\ announced_route_hash_' = NoRoute /\ announce_attempts_' = 0
      /\ restored_context_generation_' = 0
      /\ daemon_generation_' = 1 /\ next_request_id_' = 1
      /\ client_fd_' = 0 /\ backlog' = << >>
      /\ registered' = {} /\ context_generation_' = 0
      /\ spent' = [spent EXCEPT !.restarts = @ + 1]
      /\ UNCHANGED <<route, wires, driver>>
  BY DEF DaemonRestart
<1>2. /\ route_restore_pending_' \in BOOLEAN /\ settled' \in BOOLEAN
      /\ driver_connected' \in BOOLEAN /\ new_driver_connection' \in BOOLEAN
      /\ due' \in BOOLEAN /\ driver_was_connected_' \in BOOLEAN
  BY Zenon DEF DaemonRestart
<1>3. LoopTyped'
  <2>1. accepted' \in [snapshot : MaybeSnapshot, contexts : SUBSET Context, process : Nat]
    BY <1>1 DEF NoAcceptance, MaybeSnapshot
  <2> QED BY <1>1, <1>2, <2>1 DEF LoopTyped, MaybeSnapshot
<1>4. RoutingTyped'
  BY <1>1, <1>2 DEF TypeInv, RoutingTyped, RouteHash
<1>7. NumbersTyped'
  <2>1. spent \in [creations : Nat, reports : Nat, crashes : Nat, restarts : Nat,
                  timeouts : Nat]
    BY DEF TypeInv, NumbersTyped
  <2>2. spent' = [spent EXCEPT !.restarts = @ + 1]
    BY <1>1
  <2>3. spent' \in [creations : Nat, reports : Nat, crashes : Nat, restarts : Nat,
                   timeouts : Nat]
    BY <2>1, <2>2
  <2> QED BY <1>1, <2>3 DEF NumbersTyped
<1>5. ServerTyped'
  BY <1>1 DEF TypeInv, ServerTyped, wires, driver
<1>6. DriverTyped' /\ WiresTyped'
  BY <1>1 DEF TypeInv, DriverTyped, WiresTyped, wires, driver
<1> QED BY <1>3, <1>4, <1>5, <1>6, <1>7 DEF TypeInv

\* A context stays well formed whatever command it is given.
LEMMA AfterTyped ==
    ASSUME NEW x \in ContextRecord, x.got => x.staging # NoSnapshot, NEW m \in CommandSet
    PROVE  /\ After(x, m) \in ContextRecord
           /\ After(x, m).got => After(x, m).staging # NoSnapshot
           /\ After(x, m).state = x.state
<1> DEFINE idle == [x EXCEPT !.staging = NoSnapshot, !.got = FALSE]
<1>1. /\ idle \in ContextRecord /\ ~idle.got /\ idle.state = x.state
  <2>1. ASSUME NEW f \in BOOLEAN, ~f
        PROVE  LET y == [x EXCEPT !.staging = NoSnapshot, !.got = f]
               IN  y \in ContextRecord /\ ~y.got /\ y.state = x.state
    BY <2>1 DEF ContextRecord, MaybeSnapshot
  <2> QED BY <2>1, Zenon
<1>2. CASE m.type = "announce"
  <2>1. m.snapshot.route \in RouteHash
    BY <1>2 DEF CommandSet
  <2>2. After(x, m) = [x EXCEPT !.hash = m.snapshot.route]
    BY <1>2 DEF After
  <2> QED BY <2>1, <2>2 DEF ContextRecord
<1>3. CASE m.type = "begin"
  <2>1. m.snapshot \in Snapshots
    BY <1>3 DEF CommandSet
  <2>2. After(x, m) = IF Accepts(x, m) THEN [x EXCEPT !.staging = m.snapshot] ELSE x
    BY <1>3 DEF After
  <2>3. Accepts(x, m) => x.staging = NoSnapshot
    BY <1>3 DEF Accepts
  <2> QED BY <2>1, <2>2, <2>3 DEF ContextRecord, MaybeSnapshot
<1>4. CASE m.type = "chunk"
  <2>1. After(x, m) = IF Accepts(x, m) THEN [x EXCEPT !.got = TRUE] ELSE idle
    BY <1>4 DEF After
  <2>2. Accepts(x, m) => x.staging # NoSnapshot
    BY <1>4 DEF Accepts
  <2>3. ASSUME NEW t \in BOOLEAN, Accepts(x, m)
        PROVE  LET y == [x EXCEPT !.got = t]
               IN  y \in ContextRecord /\ y.state = x.state /\ y.staging # NoSnapshot
    BY <2>2, <2>3 DEF ContextRecord
  <2>4. CASE Accepts(x, m)
    <3>1. After(x, m) = [x EXCEPT !.got = TRUE]
      BY <2>1, <2>4
    <3>2. TRUE \in BOOLEAN
      BY Zenon
    <3> QED BY <2>3, <2>4, <3>1, <3>2, Zenon
  <2>5. CASE ~Accepts(x, m)
    <3>1. After(x, m) = idle
      BY <2>1, <2>5
    <3> HIDE DEF idle
    <3> QED BY <1>1, <3>1
  <2> QED BY <2>4, <2>5
<1>5. CASE m.type = "commit"
  <2>1. After(x, m) = idle \/ After(x, m) = [idle EXCEPT !.adopted = x.staging]
    BY <1>5 DEF After
  <2> HIDE DEF idle
  <2> QED BY <1>1, <2>1 DEF ContextRecord
<1> QED BY <1>2, <1>3, <1>4, <1>5 DEF CommandSet

LEMMA AnswerTyped ==
    ASSUME TypeInv, NEW id \in Nat, NEW ok \in BOOLEAN
    PROVE  Answer(id, ok) \in AnswerSet /\ Answer(id, ok) \in EventSet
BY DEF Answer, AnswerSet, EventSet, LiveContexts, TypeInv, NumbersTyped

LEMMA LifecycleTyped ==
    ASSUME NEW type \in {"created", "released"}, NEW cs \in SUBSET Context
    PROVE  Lifecycle(type, cs) \in LifecycleSet /\ Lifecycle(type, cs) \in EventSet
BY DEF Lifecycle, LifecycleSet, EventSet

\* What HandleSnapshotCommand does, command by command.
LEMMA HandleFacts ==
    ASSUME TypeInv, HandleSnapshotCommand
    PROVE  LET m == Head(commands[socket_fd_])
           IN  /\ socket_fd_ \in 1 .. MaxConnections /\ commands[socket_fd_] # << >>
               /\ m \in CommandSet /\ Accepted(m) \in BOOLEAN
               /\ commands' = [commands EXCEPT ![socket_fd_] = Tail(@)]
               /\ contexts' = [c \in Context |-> IF c \in LiveContexts
                                   THEN After(contexts[c], m) ELSE contexts[c]]
               /\ \/ m.type = "chunk" /\ Accepted(m) /\ events' = events
                  \/ /\ ~(m.type = "chunk" /\ Accepted(m))
                     /\ events' = [events EXCEPT ![socket_fd_] =
                                        Append(@, Answer(m.request_id, Accepted(m)))]
               /\ UNCHANGED <<loop, routing, announcing, numbering, server, last_connection,
                              socket_fd_, queue_, spent>>
<1>1. socket_fd_ \in 1 .. MaxConnections /\ commands[socket_fd_] # << >>
  BY DEF HandleSnapshotCommand, TypeInv, ServerTyped
<1>2. Head(commands[socket_fd_]) \in CommandSet
  <2>1. commands[socket_fd_] \in Seq(CommandSet)
    BY <1>1 DEF TypeInv, WiresTyped
  <2> QED BY <1>1, <2>1, TailFacts
<1>3. Accepted(Head(commands[socket_fd_])) \in BOOLEAN
  BY DEF Accepted
<1> QED BY <1>1, <1>2, <1>3, Zenon DEF HandleSnapshotCommand

LEMMA HandleTyped ==
    ASSUME TypeInv, HandleSnapshotCommand
    PROVE  TypeInv'
<1> DEFINE m == Head(commands[socket_fd_])
           answer == Answer(m.request_id, Accepted(m))
<1>1. /\ socket_fd_ \in 1 .. MaxConnections /\ commands[socket_fd_] # << >>
      /\ m \in CommandSet /\ Accepted(m) \in BOOLEAN
      /\ commands' = [commands EXCEPT ![socket_fd_] = Tail(@)]
      /\ contexts' = [c \in Context |-> IF c \in LiveContexts
                          THEN After(contexts[c], m) ELSE contexts[c]]
      /\ events' = events \/ events' = [events EXCEPT ![socket_fd_] = Append(@, answer)]
      /\ UNCHANGED <<loop, routing, announcing, numbering, server, last_connection,
                     socket_fd_, queue_, spent>>
  BY HandleFacts, Zenon
<1>2. answer \in EventSet
  <2>1. m.request_id \in Nat
    BY <1>1 DEF CommandSet
  <2> QED BY <1>1, <2>1, AnswerTyped
<1> HIDE DEF m, answer
<1>3. LoopTyped' /\ RoutingTyped'
  BY <1>1 DEF TypeInv, LoopTyped, RoutingTyped, loop, routing, announcing
<1>4. NumbersTyped' /\ ServerTyped'
  BY <1>1 DEF TypeInv, NumbersTyped, ServerTyped, numbering, server
<1>5. WiresTyped'
  <2>1. /\ commands \in [1 .. MaxConnections -> Seq(CommandSet)]
        /\ events \in [1 .. MaxConnections -> Seq(EventSet)]
    BY DEF TypeInv, WiresTyped
  <2>2. Tail(commands[socket_fd_]) \in Seq(CommandSet)
    BY <1>1, <2>1, TailFacts
  <2>3. Append(events[socket_fd_], answer) \in Seq(EventSet)
    BY <1>1, <1>2, <2>1, AppendFacts
  <2>4. commands' \in [1 .. MaxConnections -> Seq(CommandSet)]
    BY <1>1, <2>1, <2>2
  <2>5. events' \in [1 .. MaxConnections -> Seq(EventSet)]
    BY <1>1, <2>1, <2>3
  <2> QED BY <1>1, <2>4, <2>5 DEF TypeInv, WiresTyped
<1>6. DriverTyped'
  <2>1. \A c \in Context : /\ contexts[c] \in ContextRecord
                           /\ contexts[c].got => contexts[c].staging # NoSnapshot
    BY DEF TypeInv, DriverTyped
  <2>2. \A c \in Context : /\ After(contexts[c], m) \in ContextRecord
                           /\ After(contexts[c], m).got => After(contexts[c], m).staging # NoSnapshot
    BY <1>1, <2>1, AfterTyped
  <2> QED BY <1>1, <2>1, <2>2 DEF DriverTyped
<1> QED BY <1>3, <1>4, <1>5, <1>6 DEF TypeInv

LEMMA LiveTyped == LiveContexts \in SUBSET Context
BY DEF LiveContexts

LEMMA EnsureConnectedTyped ==
    ASSUME TypeInv, EnsureConnected
    PROVE  TypeInv'
<1>1. /\ last_connection' = last_connection + 1 /\ last_connection < MaxConnections
      /\ socket_fd_' = last_connection'
      /\ backlog' = Append(backlog, last_connection')
      /\ events' = [events EXCEPT ![last_connection'] = <<Lifecycle("created", LiveContexts)>>]
      /\ UNCHANGED <<loop, routing, announcing, numbering, client_fd_, registered,
                     context_generation_, commands, contexts, queue_, spent>>
  BY DEF EnsureConnected
<1>2. LoopTyped' /\ RoutingTyped'
  BY <1>1 DEF TypeInv, LoopTyped, RoutingTyped, loop, routing, announcing
<1>3. NumbersTyped'
  BY <1>1 DEF TypeInv, NumbersTyped, numbering
<1>4. ServerTyped'
  <2>1. last_connection \in Nat /\ MaxConnections \in Nat /\ backlog \in Seq(1 .. last_connection)
    BY DEF TypeInv, ServerTyped
  <2>2. backlog \in Seq(1 .. last_connection')
    BY <1>1, <2>1
  <2>3. last_connection' \in 1 .. last_connection'
    BY <1>1, <2>1
  <2>4. backlog' \in Seq(1 .. last_connection')
    BY <1>1, <2>2, <2>3, AppendFacts
  <2> QED BY <1>1, <2>1, <2>4 DEF TypeInv, ServerTyped
<1>5. WiresTyped'
  <2>1. events \in [1 .. MaxConnections -> Seq(EventSet)]
    BY DEF TypeInv, WiresTyped
  <2>2. <<Lifecycle("created", LiveContexts)>> \in Seq(EventSet)
    <3>1. Lifecycle("created", LiveContexts) \in EventSet
      BY LifecycleTyped, LiveTyped
    <3> QED BY <3>1
  <2>3. events' \in [1 .. MaxConnections -> Seq(EventSet)]
    BY <1>1, <2>1, <2>2
  <2> QED BY <1>1, <2>3 DEF TypeInv, WiresTyped
<1>6. DriverTyped'
  BY <1>1 DEF TypeInv, DriverTyped
<1> QED BY <1>2, <1>3, <1>4, <1>5, <1>6 DEF TypeInv

LEMMA DrainQueueTyped ==
    ASSUME TypeInv, DrainQueue
    PROVE  TypeInv'
<1>1. /\ socket_fd_ # 0 /\ queue_' = << >>
      /\ events' = [events EXCEPT ![socket_fd_] = @ \o queue_]
      /\ UNCHANGED <<loop, routing, announcing, numbering, server, commands,
                     last_connection, socket_fd_, contexts, spent>>
  BY DEF DrainQueue
<1>2. LoopTyped' /\ RoutingTyped'
  BY <1>1 DEF TypeInv, LoopTyped, RoutingTyped, loop, routing, announcing
<1>3. NumbersTyped' /\ ServerTyped'
  BY <1>1 DEF TypeInv, NumbersTyped, ServerTyped, numbering, server
<1>4. WiresTyped'
  <2>1. socket_fd_ \in 1 .. MaxConnections
    BY <1>1 DEF TypeInv, ServerTyped
  <2>2. events \in [1 .. MaxConnections -> Seq(EventSet)] /\ queue_ \in Seq(EventSet)
    BY DEF TypeInv, WiresTyped, EventSet
  <2>3. events[socket_fd_] \o queue_ \in Seq(EventSet)
    BY <2>1, <2>2, ConcatFacts
  <2>4. events' \in [1 .. MaxConnections -> Seq(EventSet)]
    BY <1>1, <2>2, <2>3
  <2>5. queue_' \in Seq(LifecycleSet)
    BY <1>1, EmptyFacts
  <2> QED BY <1>1, <2>4, <2>5 DEF TypeInv, WiresTyped
<1>5. DriverTyped'
  BY <1>1 DEF TypeInv, DriverTyped
<1> QED BY <1>2, <1>3, <1>4, <1>5 DEF TypeInv

LEMMA CloseConnectionTyped ==
    ASSUME TypeInv, CloseConnection
    PROVE  TypeInv'
<1>1. /\ socket_fd_' = 0
      /\ commands' = [commands EXCEPT ![socket_fd_] = << >>]
      /\ events' = [events EXCEPT ![socket_fd_] = << >>]
      /\ UNCHANGED <<loop, routing, announcing, numbering, server, last_connection,
                     contexts, queue_, spent>>
  BY DEF CloseConnection
<1>2. LoopTyped' /\ RoutingTyped'
  BY <1>1 DEF TypeInv, LoopTyped, RoutingTyped, loop, routing, announcing
<1>3. NumbersTyped' /\ ServerTyped'
  BY <1>1 DEF TypeInv, NumbersTyped, ServerTyped, numbering, server
<1>4. WiresTyped'
  BY <1>1, EmptyFacts DEF TypeInv, WiresTyped
<1>5. DriverTyped'
  BY <1>1 DEF TypeInv, DriverTyped
<1> QED BY <1>2, <1>3, <1>4, <1>5 DEF TypeInv

\* AudioFlinger's calls change one context and may publish it.
LEMMA EffectStepTyped ==
    ASSUME TypeInv, NEW c \in Context,
           CreateContext(c) \/ ConfigureContext(c) \/ ReleaseContext(c)
    PROVE  TypeInv'
<1>1. UNCHANGED <<loop, routing, announcing, numbering, server, wires, socket_fd_>>
  BY DEF CreateContext, ConfigureContext, ReleaseContext
<1>2. spent' = spent \/ spent' = [spent EXCEPT !.creations = @ + 1]
  BY Zenon DEF CreateContext, ConfigureContext, ReleaseContext
<1>3. LoopTyped' /\ RoutingTyped'
  BY <1>1 DEF TypeInv, LoopTyped, RoutingTyped, loop, routing, announcing
<1>4. NumbersTyped'
  BY <1>1, <1>2 DEF TypeInv, NumbersTyped, numbering, server
<1>5. ServerTyped'
  BY <1>1 DEF TypeInv, ServerTyped, server, wires
<1>6. queue_' \in Seq(LifecycleSet)
  <2>1. queue_ \in Seq(LifecycleSet)
    BY DEF TypeInv, WiresTyped
  <2>2. \/ queue_' = queue_
        \/ queue_' = Append(queue_, Lifecycle("created", {c}))
        \/ queue_' = Append(queue_, Lifecycle("released", {c}))
    BY Zenon DEF CreateContext, ConfigureContext, ReleaseContext
  <2>3. /\ Lifecycle("created", {c}) \in LifecycleSet
        /\ Lifecycle("released", {c}) \in LifecycleSet
    BY LifecycleTyped
  <2> QED BY <2>1, <2>2, <2>3, AppendFacts
<1>7. WiresTyped'
  BY <1>1, <1>6 DEF TypeInv, WiresTyped, wires
<1>8. DriverTyped'
  <2>1. CASE CreateContext(c)
    <3>1. contexts' = [contexts EXCEPT ![c] = Fresh(ReadyAtCreation)]
      BY <2>1 DEF CreateContext
    <3> QED BY <3>1, FreshTyped DEF TypeInv, DriverTyped
  <2>2. CASE ConfigureContext(c)
    <3>1. ASSUME NEW t \in BOOLEAN, contexts' = [contexts EXCEPT ![c].ready = t]
          PROVE  DriverTyped'
      BY <3>1 DEF TypeInv, DriverTyped, ContextRecord
    <3>2. contexts' = [contexts EXCEPT ![c].ready = TRUE]
      BY <2>2, Zenon DEF ConfigureContext
    <3>3. TRUE \in BOOLEAN
      BY Zenon
    <3> QED BY <3>1, <3>2, <3>3, Zenon
  <2>3. CASE ReleaseContext(c)
    <3>1. contexts' = [contexts EXCEPT ![c] = Gone("released")]
      BY <2>3 DEF ReleaseContext
    <3> QED BY <3>1, GoneTyped DEF TypeInv, DriverTyped
  <2> QED BY <2>1, <2>2, <2>3
<1> QED BY <1>3, <1>4, <1>5, <1>7, <1>8 DEF TypeInv

LEMMA DriverCrashTyped ==
    ASSUME TypeInv, DriverCrash
    PROVE  TypeInv'
<1>1. /\ socket_fd_' = 0 /\ queue_' = << >>
      /\ commands' = [n \in DOMAIN commands |-> << >>]
      /\ UNCHANGED <<loop, routing, announcing, numbering, server, events, last_connection>>
  BY DEF DriverCrash
<1>2. spent' = [spent EXCEPT !.crashes = @ + 1]
  BY DEF DriverCrash
<1>3. contexts' = [c \in Context |-> IF contexts[c].state = "not created"
                                     THEN contexts[c] ELSE Gone("dead")]
  BY DEF DriverCrash
<1>4. LoopTyped' /\ RoutingTyped'
  BY <1>1 DEF TypeInv, LoopTyped, RoutingTyped, loop, routing, announcing
<1>5. NumbersTyped'
  <2>1. spent' \in [creations : Nat, reports : Nat, crashes : Nat, restarts : Nat,
                   timeouts : Nat]
    BY <1>2 DEF TypeInv, NumbersTyped
  <2> QED BY <1>1, <2>1 DEF TypeInv, NumbersTyped, numbering, server
<1>6. ServerTyped'
  BY <1>1 DEF TypeInv, ServerTyped, server
<1>7. WiresTyped'
  BY <1>1, EmptyFacts DEF TypeInv, WiresTyped
<1>8. DriverTyped'
  BY <1>3, GoneTyped DEF TypeInv, DriverTyped
<1> QED BY <1>4, <1>5, <1>6, <1>7, <1>8 DEF TypeInv

LEMMA StutterTyped ==
    ASSUME TypeInv, UNCHANGED vars
    PROVE  TypeInv'
<1>1. UNCHANGED <<loop, routing, announcing, numbering, server, wires, driver, spent>>
  BY DEF vars
<1>2. LoopTyped' /\ RoutingTyped'
  BY <1>1 DEF TypeInv, LoopTyped, RoutingTyped, loop, routing, announcing
<1>3. NumbersTyped' /\ ServerTyped'
  BY <1>1 DEF TypeInv, NumbersTyped, ServerTyped, numbering, server, wires, driver
<1>4. DriverTyped' /\ WiresTyped'
  BY <1>1 DEF TypeInv, DriverTyped, WiresTyped, wires, driver
<1> QED BY <1>2, <1>3, <1>4 DEF TypeInv

LEMMA TypeStep == TypeInv /\ [Next]_vars => TypeInv'
<1> SUFFICES ASSUME TypeInv, [Next]_vars PROVE TypeInv'
  OBVIOUS
<1>1. CASE RunOnce
  BY <1>1, RunPollTyped, AnnounceTyped, AnnounceAnsweredTyped, RestoreSkippedTyped,
     RestoreBeginTyped, BeginAnsweredTyped, CommitAnsweredTyped, WaitPollTyped DEF RunOnce
<1>2. CASE Timeout
  BY <1>2, TimeoutTyped
<1>3. CASE RouteSettles \/ AnnounceFallsDue \/ \E r \in Route : OnRouteReport(r)
  BY <1>3, RoutingStepTyped
<1>4. CASE DaemonRestart
  BY <1>4, DaemonRestartTyped
<1>5. CASE HandleSnapshotCommand \/ EnsureConnected \/ DrainQueue \/ CloseConnection
  BY <1>5, HandleTyped, EnsureConnectedTyped, DrainQueueTyped, CloseConnectionTyped
<1>6. CASE DriverCrash
  BY <1>6, DriverCrashTyped
<1>7. CASE \E c \in Context : CreateContext(c) \/ ConfigureContext(c) \/ ReleaseContext(c)
  BY <1>7, EffectStepTyped
<1>8. CASE UNCHANGED vars
  BY <1>8, StutterTyped
<1> QED BY <1>1, <1>2, <1>3, <1>4, <1>5, <1>6, <1>7, <1>8, Zenon DEF Next

LEMMA TypeInvImpliesTypeOK == TypeInv => TypeOK
<1> SUFFICES ASSUME TypeInv PROVE TypeOK
  OBVIOUS
<1>1. /\ pc \in {"poll", "app", "announce_wait", "restore", "begin_wait", "commit_wait"}
      /\ {driver_connected, new_driver_connection, route_restore_pending_, settled,
          due, driver_was_connected_} \subseteq BOOLEAN
      /\ {route, announced_route_hash_} \subseteq Route \cup {NoRoute}
      /\ announce_attempts_ \in 0 .. MaxAnnounceAttempts
  BY DEF TypeInv, LoopTyped, RoutingTyped, RouteHash
<1>2. /\ {restored_context_generation_, daemon_generation_, next_request_id_,
          context_generation_} \subseteq Nat
      /\ sending \in Snapshots \cup {NoSnapshot}
      /\ accepted.snapshot \in Snapshots \cup {NoSnapshot}
      /\ accepted.contexts \subseteq Context /\ registered \subseteq Context
  BY DEF TypeInv, LoopTyped, NumbersTyped, ServerTyped, MaybeSnapshot
<1>3. /\ {client_fd_, socket_fd_} \subseteq 0 .. last_connection
      /\ Range(backlog) \subseteq 1 .. last_connection
      /\ last_connection \in Connections
  <2>1. backlog \in Seq(1 .. last_connection)
    BY DEF TypeInv, ServerTyped
  <2>2. Range(backlog) \subseteq 1 .. last_connection
    BY <2>1, RangeFacts
  <2> QED BY <2>2 DEF TypeInv, ServerTyped, Connections
<1>4. \A c \in Context :
        /\ contexts[c].hash \in Route \cup {NoRoute}
        /\ {contexts[c].staging, contexts[c].adopted} \subseteq Snapshots \cup {NoSnapshot}
        /\ contexts[c].got => contexts[c].staging # NoSnapshot
  <2> SUFFICES ASSUME NEW c \in Context
               PROVE  /\ contexts[c].hash \in Route \cup {NoRoute}
                      /\ {contexts[c].staging, contexts[c].adopted} \subseteq MaybeSnapshot
                      /\ contexts[c].got => contexts[c].staging # NoSnapshot
    BY DEF MaybeSnapshot
  <2>1. contexts[c] \in ContextRecord
    BY DEF TypeInv, DriverTyped
  <2>2. contexts[c].got => contexts[c].staging # NoSnapshot
    BY DEF TypeInv, DriverTyped
  <2> QED BY <2>1, <2>2 DEF ContextRecord, RouteHash
<1> QED BY <1>1, <1>2, <1>3, <1>4 DEF TypeOK

LEMMA TypeInvHolds == Spec => []TypeInv
BY TypeInit, TypeStep, PTL DEF Spec

\* The daemon, the sockets and the driver stay well formed, across crashes of the
\* driver process and restarts of the daemon: the daemon listens only to
\* connections that were made, and a context with a chunk has a staged snapshot
\* (DaemonRuntime::RunOnce, DriverEventServer::Poll, ApplySnapshotCommand).
THEOREM TypeCorrect == Spec => []TypeOK
BY TypeInvHolds, TypeInvImpliesTypeOK, PTL

-----------------------------------------------------------------------------
(* An accepted restore was adopted *)

\* A step of the daemon goes on with the transfer, or there is none after it.
Continues ==
    \/ UNCHANGED <<pc, sending, daemon_generation_, next_request_id_>>
    \/ /\ pc' \notin {"begin_wait", "commit_wait"}
       /\ daemon_generation_' >= daemon_generation_
       /\ next_request_id_' >= next_request_id_

\* What has a number keeps it below the numbers that are given out later.
NumbersKept ==
    /\ \A s : (s # NoSnapshot => s.daemon \in Nat) /\ Numbered(s) => Numbered(s)'
    /\ next_request_id_' >= next_request_id_

\* No answer is new.
AnswersShrink ==
    \A n \in 1 .. MaxConnections : \A e \in Range(events'[n]) :
        e.type = "answer" => e \in Range(events[n])

\* A new connection has no answer.
SocketSteady ==
    \A n \in 1 .. MaxConnections :
        n = socket_fd_' => n = socket_fd_ \/ \A e \in Range(events'[n]) : e.type # "answer"

\* Connections lose their commands or keep them.
CommandsShrink ==
    \A n \in 1 .. MaxConnections :
        /\ commands'[n] \in {commands[n], << >>}
        /\ n # socket_fd_' => commands'[n] = << >>

\* Contexts come and go without adopting anything, and none comes back that the
\* process had before.
ContextsIdle ==
    \A c \in Context :
        /\ contexts'[c].staging \in {contexts[c].staging, NoSnapshot}
        /\ contexts'[c].adopted \in {contexts[c].adopted, NoSnapshot}
        /\ contexts'[c].state = "live" /\ contexts[c].state # "live" =>
            contexts'[c].staging = NoSnapshot
        /\ contexts[c].state \in {"live", "released"} =>
            /\ contexts'[c].state \in {"live", "released"}
            /\ contexts'[c].state = "live" =>
                contexts[c].state = "live" /\ contexts'[c].adopted = contexts[c].adopted

LEMMA ContinuesKeeps ==
    ASSUME TypeInv, TypeInv', Continues
    PROVE  /\ NumbersKept
           /\ ContextsNumbered => (Transferring => sending.daemon = daemon_generation_)'
<1>1. /\ daemon_generation_ \in Nat /\ daemon_generation_' \in Nat
      /\ next_request_id_ \in Nat /\ next_request_id_' \in Nat
  BY DEF TypeInv, NumbersTyped
<1>2. ASSUME NEW s, s # NoSnapshot => s.daemon \in Nat, Numbered(s)
      PROVE  Numbered(s)'
  BY <1>1, <1>2 DEF Continues, Numbered, Transferring
<1>3. next_request_id_' >= next_request_id_
  BY <1>1 DEF Continues
<1>4. ContextsNumbered => (Transferring => sending.daemon = daemon_generation_)'
  BY DEF ContextsNumbered, Continues, Transferring
<1> QED BY <1>2, <1>3, <1>4 DEF NumbersKept

LEMMA SnapshotNumber ==
    /\ \A s \in MaybeSnapshot : s # NoSnapshot => s.daemon \in Nat
    /\ \A m \in CommandSet : m.snapshot.daemon \in Nat /\ m.request_id \in Nat
BY DEF MaybeSnapshot, Snapshots, CommandSet

LEMMA CommandsStep ==
    ASSUME TypeInv, TypeInv', CommandsNumbered, NumbersKept, CommandsShrink
    PROVE  CommandsNumbered'
<1> SUFFICES ASSUME NEW n \in 1 .. MaxConnections
             PROVE  /\ n # socket_fd_' => commands'[n] = << >>
                    /\ \A m \in Range(commands'[n]) :
                        m.request_id < next_request_id_' /\ Numbered(m.snapshot)'
  BY DEF CommandsNumbered
<1>1. n # socket_fd_' => commands'[n] = << >>
  BY DEF CommandsShrink
<1>2. ASSUME NEW m \in Range(commands'[n])
      PROVE  m.request_id < next_request_id_' /\ Numbered(m.snapshot)'
  <2>1. m \in Range(commands[n])
    BY EmptyFacts DEF CommandsShrink
  <2>2. m \in CommandSet
    BY <2>1, RangeFacts DEF TypeInv, WiresTyped
  <2>3. m.request_id < next_request_id_ /\ Numbered(m.snapshot)
    BY <2>1 DEF CommandsNumbered
  <2>4. m.request_id < next_request_id_'
    BY <2>2, <2>3, SnapshotNumber DEF NumbersKept, TypeInv, NumbersTyped
  <2>5. Numbered(m.snapshot)'
    BY <2>2, <2>3, SnapshotNumber DEF NumbersKept
  <2> QED BY <2>4, <2>5
<1> QED BY <1>1, <1>2

LEMMA AnswersStep ==
    ASSUME TypeInv, TypeInv', AnswersNumbered, NumbersKept, AnswersShrink, SocketSteady,
           ContextsIdle, spent'.crashes = spent.crashes
    PROVE  AnswersNumbered'
<1> SUFFICES ASSUME NEW n \in 1 .. MaxConnections, NEW e \in Range(events'[n]), e.type = "answer"
             PROVE  /\ e.request_id < next_request_id_' /\ e.process <= spent'.crashes
                    /\ n = socket_fd_' => e.process = spent'.crashes
                    /\ e.process = spent'.crashes =>
                        \A c \in e.contexts : contexts'[c].state \in {"live", "released"}
                    /\ e.accepted => e.contexts # {}
  BY DEF AnswersNumbered
<1>1. e \in Range(events[n])
  BY DEF AnswersShrink
<1>2. e \in EventSet
  BY <1>1, RangeFacts DEF TypeInv, WiresTyped
<1>3. /\ e.request_id < next_request_id_ /\ e.process <= spent.crashes
      /\ n = socket_fd_ => e.process = spent.crashes
      /\ e.process = spent.crashes =>
            \A c \in e.contexts : contexts[c].state \in {"live", "released"}
      /\ e.accepted => e.contexts # {}
  BY <1>1 DEF AnswersNumbered
<1>4. e.request_id \in Nat /\ e.contexts \subseteq Context
  BY <1>2 DEF EventSet, LifecycleSet, AnswerSet
<1>5. e.request_id < next_request_id_'
  BY <1>3, <1>4 DEF NumbersKept, TypeInv, NumbersTyped
<1>6. n = socket_fd_' => n = socket_fd_
  BY DEF SocketSteady
<1>7. e.process = spent.crashes => \A c \in e.contexts : contexts'[c].state \in {"live", "released"}
  BY <1>3, <1>4 DEF ContextsIdle
<1> QED BY <1>3, <1>5, <1>6, <1>7

LEMMA ContextsStep ==
    ASSUME TypeInv, TypeInv', ContextsNumbered, NumbersKept, ContextsIdle,
           (Transferring => sending.daemon = daemon_generation_)'
    PROVE  ContextsNumbered'
<1>2. ASSUME NEW c \in Context
      PROVE  (Numbered(contexts[c].staging) /\ Numbered(contexts[c].adopted))'
  <2>1. contexts'[c].staging \in MaybeSnapshot /\ contexts'[c].adopted \in MaybeSnapshot
    BY DEF TypeInv, DriverTyped, ContextRecord
  <2>2. Numbered(contexts'[c].staging) /\ Numbered(contexts'[c].adopted)
    BY DEF ContextsNumbered, ContextsIdle, Numbered
  <2>3. \A s \in MaybeSnapshot : Numbered(s) => Numbered(s)'
    BY SnapshotNumber DEF NumbersKept
  <2> QED BY <2>1, <2>2, <2>3 DEF Numbered, Transferring
<1> QED BY <1>2 DEF ContextsNumbered

LEMMA StagedStep ==
    ASSUME TypeInv, ContextsIdle, AllStaged, sending' = sending
    PROVE  AllStaged'
<1> SUFFICES ASSUME NEW c \in Context, contexts'[c].state = "live"
             PROVE  contexts'[c].staging \in {sending, NoSnapshot}
  BY DEF AllStaged, LiveContexts
<1>1. CASE contexts[c].state = "live"
  BY <1>1 DEF ContextsIdle, AllStaged, LiveContexts
<1>2. CASE contexts[c].state # "live"
  BY <1>2 DEF ContextsIdle
<1> QED BY <1>1, <1>2

LEMMA BeginStep ==
    ASSUME TypeInv, TypeInv', BeginUnderWay, Continues, AnswersShrink, CommandsShrink,
           SocketSteady, ContextsIdle
    PROVE  BeginUnderWay'
<1> SUFFICES ASSUME pc' = "begin_wait" PROVE BeginUnderWay'
  BY DEF BeginUnderWay
<1>1. pc = "begin_wait" /\ sending' = sending /\ AwaitedId' = AwaitedId
  BY DEF Continues, AwaitedId
<1>2. \A n \in 1 .. MaxConnections : \A e \in Answers(n)' : e \in Answers(n)
  BY <1>1 DEF Answers, AnswersShrink
<1>3. \A n \in 1 .. MaxConnections : commands'[n] = commands[n] \/ commands'[n] = << >>
  BY DEF CommandsShrink
<1>4. ASSUME NEW n \in 1 .. MaxConnections, NEW i \in 1 .. Len(commands'[n]),
             commands'[n][i].request_id = AwaitedId'
      PROVE  /\ i = Len(commands'[n])
             /\ commands'[n][i].type = "begin" /\ commands'[n][i].snapshot = sending'
  <2>1. commands'[n] = commands[n]
    BY <1>3
  <2> QED BY <1>1, <1>4, <2>1 DEF BeginUnderWay
<1>5. ASSUME NEW n \in 1 .. MaxConnections, NEW e \in Answers(n)'
      PROVE  /\ \A k \in 1 .. MaxConnections :
                    /\ \A m \in Range(commands'[k]) : m.request_id # AwaitedId'
                    /\ Answers(k)' # {} => k = n
             /\ e.accepted /\ n = socket_fd_' => commands'[n] = << >> /\ AllStaged'
  <2>1. e \in Answers(n)
    BY <1>2
  <2>2. ASSUME NEW k \in 1 .. MaxConnections, NEW m \in Range(commands'[k])
        PROVE  m.request_id # AwaitedId'
    <3>1. m \in Range(commands[k])
      BY <1>3, EmptyFacts
    <3> QED BY <1>1, <2>1, <3>1 DEF BeginUnderWay
  <2>3. ASSUME NEW k \in 1 .. MaxConnections, Answers(k)' # {}
        PROVE  k = n
    <3>1. Answers(k) # {}
      BY <1>2, <2>3
    <3> QED BY <1>1, <2>1, <3>1 DEF BeginUnderWay
  <2>4. ASSUME e.accepted, n = socket_fd_'
        PROVE  commands'[n] = << >> /\ AllStaged'
    <3>1. e \in Range(events'[n]) /\ e.type = "answer"
      BY DEF Answers
    <3>2. n = socket_fd_
      BY <2>4, <3>1 DEF SocketSteady
    <3>3. commands[n] = << >> /\ AllStaged
      BY <1>1, <2>1, <2>4, <3>2 DEF BeginUnderWay
    <3> QED BY <1>1, <1>3, <3>3, StagedStep
  <2> QED BY <2>2, <2>3, <2>4
<1> QED BY <1>4, <1>5 DEF BeginUnderWay

LEMMA CommitStep ==
    ASSUME TypeInv, TypeInv', AnswersNumbered, CommitUnderWay, Continues, AnswersShrink,
           CommandsShrink, ContextsIdle, spent'.crashes = spent.crashes
    PROVE  CommitUnderWay'
<1> SUFFICES ASSUME pc' = "commit_wait" PROVE CommitUnderWay'
  BY DEF CommitUnderWay
<1>1. pc = "commit_wait" /\ sending' = sending /\ AwaitedId' = AwaitedId
  BY DEF Continues, AwaitedId
<1>2. Remaining' = Remaining /\ << >> \in Remaining
  BY <1>1 DEF Remaining, Command
<1>3. \A n \in 1 .. MaxConnections : commands'[n] = commands[n] \/ commands'[n] = << >>
  BY DEF CommandsShrink
<1> SUFFICES ASSUME NEW n \in 1 .. MaxConnections
             PROVE  /\ commands'[n] \in Remaining'
                    /\ commands'[n] # << >> => AllStaged'
                    /\ \A e \in Answers(n)' : e.accepted =>
                        /\ \A k \in 1 .. MaxConnections : commands'[k] = << >>
                        /\ e.process = spent'.crashes =>
                            \A c \in e.contexts \cap LiveContexts' : contexts'[c].adopted = sending'
  BY DEF CommitUnderWay
<1>4. commands'[n] \in Remaining'
  BY <1>1, <1>2, <1>3 DEF CommitUnderWay
<1>5. commands'[n] # << >> => AllStaged'
  BY <1>1, <1>3, StagedStep DEF CommitUnderWay
<1>6. ASSUME NEW e \in Answers(n)', e.accepted
      PROVE  /\ \A k \in 1 .. MaxConnections : commands'[k] = << >>
             /\ e.process = spent'.crashes =>
                    \A c \in e.contexts \cap LiveContexts' : contexts'[c].adopted = sending'
  <2>1. e \in Answers(n) /\ e \in Range(events[n]) /\ e.type = "answer"
    BY <1>1 DEF Answers, AnswersShrink
  <2>2. \A k \in 1 .. MaxConnections : commands[k] = << >>
    BY <1>1, <1>6, <2>1 DEF CommitUnderWay
  <2>3. ASSUME e.process = spent'.crashes, NEW c \in e.contexts \cap LiveContexts'
        PROVE  contexts'[c].adopted = sending'
    <3>1. c \in Context /\ contexts'[c].state = "live"
      BY DEF LiveContexts
    <3>2. contexts[c].state \in {"live", "released"}
      BY <2>1, <2>3 DEF AnswersNumbered
    <3>3. c \in LiveContexts /\ contexts'[c].adopted = contexts[c].adopted
      BY <3>1, <3>2 DEF ContextsIdle, LiveContexts
    <3>4. contexts[c].adopted = sending
      BY <1>1, <1>6, <2>1, <2>3, <3>3 DEF CommitUnderWay
    <3> QED BY <1>1, <3>3, <3>4
  <2> QED BY <1>3, <2>2, <2>3
<1> QED BY <1>4, <1>5, <1>6

LEMMA QuietStep ==
    ASSUME TypeInv, TypeInv', Transfers, Continues, AnswersShrink, CommandsShrink, SocketSteady,
           ContextsIdle, spent'.crashes = spent.crashes
    PROVE  Transfers'
BY ContinuesKeeps, CommandsStep, AnswersStep, ContextsStep, BeginStep, CommitStep DEF Transfers

LEMMA SameCommands ==
    ASSUME CommandsNumbered, UNCHANGED <<commands, socket_fd_>>
    PROVE  CommandsShrink /\ SocketSteady
BY DEF CommandsNumbered, CommandsShrink, SocketSteady

LEMMA SameContexts ==
    ASSUME UNCHANGED contexts
    PROVE  ContextsIdle
BY DEF ContextsIdle

LEMMA SameAnswers ==
    ASSUME UNCHANGED events
    PROVE  AnswersShrink
BY DEF AnswersShrink

LEMMA PollQuiet ==
    ASSUME TypeInv, Poll
    PROVE  /\ AnswersShrink /\ ContextsIdle /\ socket_fd_' = socket_fd_
           /\ \A n \in 1 .. MaxConnections : n \in {Peer, client_fd_} => events'[n] = << >>
<1>1. /\ DOMAIN events = 1 .. MaxConnections
      /\ events' = [n \in DOMAIN events |-> IF n \in {Peer, client_fd_} THEN << >> ELSE events[n]]
  BY DEF Poll, TypeInv, WiresTyped
<1>2. \A n \in 1 .. MaxConnections : events'[n] = << >> \/ events'[n] = events[n]
  BY <1>1
<1>3. AnswersShrink
  BY <1>2, EmptyFacts DEF AnswersShrink
<1> QED BY <1>1, <1>3, PollTyped, SameContexts

\* The daemon's steps that send nothing.
LEMMA DaemonQuiet ==
    ASSUME TypeInv, TypeInv', Transfers,
           \/ RunPoll \/ AnnounceAnswered \/ RestoreNotDue \/ RestoreBypassed \/ CommitAnswered
           \/ WaitPoll \/ Timeout \/ RouteSettles \/ AnnounceFallsDue
           \/ \E r \in Route : OnRouteReport(r)
    PROVE  Transfers'
<1>1. /\ Poll \/ UNCHANGED <<events, socket_fd_, contexts>>
      /\ UNCHANGED commands
  BY DEF RunPoll, AnnounceAnswered, RestoreNotDue, RestoreBypassed, CommitAnswered, WaitPoll,
         Timeout, GiveUp, RouteSettles, AnnounceFallsDue, OnRouteReport, wires, driver
<1>2. UNCHANGED <<daemon_generation_, next_request_id_>>
  BY DEF RunPoll, AnnounceAnswered, RestoreNotDue, RestoreBypassed, CommitAnswered, WaitPoll,
         Timeout, GiveUp, RouteSettles, AnnounceFallsDue, OnRouteReport, numbering
<1>3. pc' \in {"app", "restore", "poll"} \/ UNCHANGED <<pc, sending>>
  BY DEF RunPoll, AnnounceAnswered, RestoreNotDue, RestoreBypassed, CommitAnswered, WaitPoll,
         Timeout, GiveUp, RouteSettles, AnnounceFallsDue, OnRouteReport, RestoreEnds, PassEnds, loop
<1>4. spent'.crashes = spent.crashes
  <2>1. \/ spent' = spent \/ spent' = [spent EXCEPT !.timeouts = @ + 1]
        \/ spent' = [spent EXCEPT !.reports = @ + 1]
    BY DEF RunPoll, AnnounceAnswered, RestoreNotDue, RestoreBypassed, CommitAnswered, WaitPoll,
           Timeout, RouteSettles, AnnounceFallsDue, OnRouteReport
  <2> QED BY <2>1 DEF TypeInv, NumbersTyped
<1>5. Continues
  BY <1>2, <1>3 DEF Continues, TypeInv, NumbersTyped
<1>6. AnswersShrink /\ ContextsIdle /\ socket_fd_' = socket_fd_
  BY <1>1, PollQuiet, SameAnswers, SameContexts
<1>7. CommandsShrink /\ SocketSteady
  BY <1>1, <1>6, SameCommands DEF Transfers
<1> QED BY <1>4, <1>5, <1>6, <1>7, QuietStep

LEMMA StutterQuiet ==
    ASSUME TypeInv, TypeInv', Transfers, UNCHANGED vars
    PROVE  Transfers'
<1>1. UNCHANGED <<pc, sending, daemon_generation_, next_request_id_, events, commands,
                  socket_fd_, contexts, spent>>
  BY DEF vars, loop, numbering, wires, driver
<1>2. Continues
  BY <1>1 DEF Continues
<1> QED BY <1>1, <1>2, SameAnswers, SameContexts, SameCommands, QuietStep DEF Transfers

\* The bridge connects, drains its queue or closes.
LEMMA BridgeQuiet ==
    ASSUME TypeInv, TypeInv', Transfers, EnsureConnected \/ DrainQueue \/ CloseConnection
    PROVE  Transfers'
<1>1. UNCHANGED <<pc, sending, daemon_generation_, next_request_id_, contexts, spent>>
  BY DEF EnsureConnected, DrainQueue, CloseConnection, loop, numbering
<1>2. Continues /\ ContextsIdle /\ spent'.crashes = spent.crashes
  BY <1>1, SameContexts DEF Continues
<1>3. CASE EnsureConnected
  <2>1. /\ socket_fd_ = 0 /\ socket_fd_' = last_connection' /\ commands' = commands
        /\ events' = [events EXCEPT ![last_connection'] = <<Lifecycle("created", LiveContexts)>>]
    BY <1>3 DEF EnsureConnected
  <2>2. last_connection' \in 1 .. MaxConnections
    BY <1>3 DEF EnsureConnected, TypeInv, ServerTyped
  <2>3. \A e \in Range(events'[last_connection']) : e.type # "answer"
    <3>1. events'[last_connection'] = <<Lifecycle("created", LiveContexts)>>
      BY <2>1, <2>2 DEF TypeInv, WiresTyped
    <3>2. \A e \in Range(<<Lifecycle("created", LiveContexts)>>) :
                e = Lifecycle("created", LiveContexts)
      BY DEF Range
    <3> QED BY <3>1, <3>2 DEF Lifecycle
  <2>4. \A n \in 1 .. MaxConnections : commands[n] = << >>
    BY <2>1 DEF Transfers, CommandsNumbered
  <2>5. CommandsShrink /\ SocketSteady
    BY <2>1, <2>3, <2>4 DEF CommandsShrink, SocketSteady
  <2>6. AnswersShrink
    <3>1. \A n \in 1 .. MaxConnections : n # last_connection' => events'[n] = events[n]
      BY <2>1 DEF TypeInv, WiresTyped
    <3> QED BY <2>3, <3>1 DEF AnswersShrink
  <2> QED BY <1>2, <2>5, <2>6, QuietStep
<1>4. CASE DrainQueue
  <2>1. /\ events' = [events EXCEPT ![socket_fd_] = @ \o queue_]
        /\ UNCHANGED <<commands, socket_fd_>> /\ socket_fd_ \in 1 .. MaxConnections
    BY <1>4 DEF DrainQueue, TypeInv, ServerTyped
  <2>2. /\ events \in [1 .. MaxConnections -> Seq(EventSet)]
        /\ queue_ \in Seq(LifecycleSet) /\ queue_ \in Seq(EventSet)
    BY DEF TypeInv, WiresTyped, EventSet
  <2>3. \A e \in Range(queue_) : e.type # "answer"
    <3>1. \A e \in Range(queue_) : e \in LifecycleSet
      BY <2>2, RangeFacts
    <3> QED BY <3>1 DEF LifecycleSet
  <2>4. Range(events[socket_fd_] \o queue_) \subseteq Range(events[socket_fd_]) \cup Range(queue_)
    BY <2>1, <2>2, ConcatRange
  <2>5. AnswersShrink
    <3> SUFFICES ASSUME NEW n \in 1 .. MaxConnections, NEW e \in Range(events'[n]),
                        e.type = "answer"
                 PROVE  e \in Range(events[n])
      BY DEF AnswersShrink
    <3>1. CASE n = socket_fd_
      <4>1. events'[n] = events[socket_fd_] \o queue_
        BY <2>1, <2>2, <3>1
      <4> QED BY <2>3, <2>4, <3>1, <4>1
    <3>2. CASE n # socket_fd_
      <4>1. events'[n] = events[n]
        BY <2>1, <2>2, <3>2
      <4> QED BY <4>1
    <3> QED BY <3>1, <3>2
  <2> QED BY <1>2, <2>1, <2>5, SameCommands, QuietStep DEF Transfers
<1>5. CASE CloseConnection
  <2>1. /\ socket_fd_' = 0
        /\ commands' = [commands EXCEPT ![socket_fd_] = << >>]
        /\ events' = [events EXCEPT ![socket_fd_] = << >>]
    BY <1>5 DEF CloseConnection
  <2>2. \A n \in 1 .. MaxConnections : events'[n] = << >> \/ events'[n] = events[n]
    BY <2>1 DEF TypeInv, WiresTyped
  <2>3. \A n \in 1 .. MaxConnections : commands'[n] = << >>
    <3>1. \A n \in 1 .. MaxConnections : n # socket_fd_ => commands[n] = << >>
      BY DEF Transfers, CommandsNumbered
    <3> QED BY <2>1, <3>1 DEF TypeInv, WiresTyped
  <2>4. AnswersShrink
    BY <2>2, EmptyFacts DEF AnswersShrink
  <2>5. CommandsShrink /\ SocketSteady
    BY <2>1, <2>3 DEF CommandsShrink, SocketSteady
  <2> QED BY <1>2, <2>4, <2>5, QuietStep
<1> QED BY <1>3, <1>4, <1>5

LEMMA EffectQuiet ==
    ASSUME TypeInv, TypeInv', Transfers, NEW c \in Context,
           CreateContext(c) \/ ConfigureContext(c) \/ ReleaseContext(c)
    PROVE  Transfers'
<1>1. UNCHANGED <<pc, sending, daemon_generation_, next_request_id_, events, commands, socket_fd_>>
  BY DEF CreateContext, ConfigureContext, ReleaseContext, loop, numbering, wires
<1>2. spent'.crashes = spent.crashes
  <2>1. spent' = spent \/ spent' = [spent EXCEPT !.creations = @ + 1]
    BY Zenon DEF CreateContext, ConfigureContext, ReleaseContext
  <2> QED BY <2>1 DEF TypeInv, NumbersTyped
<1>3. Continues
  BY <1>1 DEF Continues
<1>4. ContextsIdle
  <2>1. contexts \in [Context -> ContextRecord]
    BY DEF TypeInv, DriverTyped
  <2>2. CASE CreateContext(c)
    <3>1. /\ contexts' = [contexts EXCEPT ![c] = Fresh(ReadyAtCreation)]
          /\ contexts[c].state \in {"not created", "dead"}
      BY <2>2 DEF CreateContext
    <3> QED BY <2>1, <3>1, FreshTyped DEF ContextsIdle
  <2>3. CASE ConfigureContext(c)
    <3>1. ASSUME NEW t \in BOOLEAN, contexts' = [contexts EXCEPT ![c].ready = t]
          PROVE  ContextsIdle
      BY <2>1, <3>1 DEF ContextsIdle, ContextRecord
    <3>2. contexts' = [contexts EXCEPT ![c].ready = TRUE]
      BY <2>3, Zenon DEF ConfigureContext
    <3>3. TRUE \in BOOLEAN
      BY Zenon
    <3> QED BY <3>1, <3>2, <3>3, Zenon
  <2>4. CASE ReleaseContext(c)
    <3>1. contexts' = [contexts EXCEPT ![c] = Gone("released")]
      BY <2>4 DEF ReleaseContext
    <3> QED BY <2>1, <3>1, GoneTyped DEF ContextsIdle
  <2> QED BY <2>2, <2>3, <2>4
<1> QED BY <1>1, <1>2, <1>3, <1>4, SameAnswers, SameCommands, QuietStep DEF Transfers

LEMMA DriverCrashSafe ==
    ASSUME TypeInv, TypeInv', Transfers, DriverCrash
    PROVE  Transfers'
<1>1. /\ UNCHANGED <<pc, sending, daemon_generation_, next_request_id_, events>>
      /\ socket_fd_' = 0
  BY DEF DriverCrash, loop, numbering
<1>2. spent'.crashes = spent.crashes + 1 /\ spent.crashes \in Nat
  BY DEF DriverCrash, TypeInv, NumbersTyped
<1>3. \A n \in 1 .. MaxConnections : commands'[n] = << >>
  BY DEF DriverCrash, TypeInv, WiresTyped
<1>4. Continues /\ NumbersKept
  BY <1>1, ContinuesKeeps DEF Continues
<1>5. CommandsNumbered'
  BY <1>3, EmptyFacts DEF CommandsNumbered
<1>6. \A n \in 1 .. MaxConnections : \A e \in Range(events'[n]) : e.type = "answer" =>
        e.process # spent'.crashes /\ e.process <= spent'.crashes
  <2> SUFFICES ASSUME NEW n \in 1 .. MaxConnections, NEW e \in Range(events'[n]),
                      e.type = "answer"
               PROVE  e.process # spent'.crashes /\ e.process <= spent'.crashes
    OBVIOUS
  <2>1. e \in Range(events[n]) /\ e \in EventSet
    BY <1>1, RangeFacts DEF TypeInv, WiresTyped
  <2>2. e.process \in Nat
    BY <2>1 DEF EventSet, LifecycleSet, AnswerSet
  <2>3. e.process <= spent.crashes
    BY <2>1 DEF Transfers, AnswersNumbered
  <2> QED BY <1>2, <2>2, <2>3
<1>7. AnswersNumbered'
  <2> SUFFICES ASSUME NEW n \in 1 .. MaxConnections, NEW e \in Range(events'[n]),
                      e.type = "answer"
               PROVE  /\ e.request_id < next_request_id_' /\ e.process <= spent'.crashes
                      /\ n # socket_fd_' /\ e.process # spent'.crashes
                      /\ e.accepted => e.contexts # {}
    BY DEF AnswersNumbered
  <2>1. e \in Range(events[n]) /\ n # socket_fd_'
    BY <1>1
  <2>2. e.request_id < next_request_id_ /\ (e.accepted => e.contexts # {})
    BY <2>1 DEF Transfers, AnswersNumbered
  <2> QED BY <1>1, <1>6, <2>1, <2>2
<1>8. ContextsNumbered'
  <2>1. (Transferring => sending.daemon = daemon_generation_)'
    BY <1>1 DEF Transfers, ContextsNumbered, Transferring
  <2>2. ASSUME NEW c \in Context
        PROVE  (Numbered(contexts[c].staging) /\ Numbered(contexts[c].adopted))'
    <3>1. /\ contexts'[c].staging \in {contexts[c].staging, NoSnapshot}
          /\ contexts'[c].adopted \in {contexts[c].adopted, NoSnapshot}
      BY GoneTyped DEF DriverCrash
    <3> QED BY <1>1, <3>1 DEF Transfers, ContextsNumbered, Numbered, Transferring
  <2> QED BY <2>1, <2>2 DEF ContextsNumbered
<1>9. \A n \in 1 .. MaxConnections : Answers(n)' = Answers(n)
  BY <1>1 DEF Answers, AwaitedId
<1>10. BeginUnderWay'
  <2> SUFFICES ASSUME pc' = "begin_wait" PROVE BeginUnderWay'
    BY DEF BeginUnderWay
  <2>1. BeginUnderWay /\ pc = "begin_wait"
    BY <1>1 DEF Transfers
  <2>2. \A n \in 1 .. MaxConnections : Len(commands'[n]) = 0 /\ Range(commands'[n]) = {}
    BY <1>3, EmptyFacts
  <2>3. \A n, k \in 1 .. MaxConnections : \A e \in Answers(n)' : Answers(k)' # {} => k = n
    BY <1>9, <2>1 DEF BeginUnderWay
  <2>4. \A n \in 1 .. MaxConnections : n # socket_fd_'
    BY <1>1
  <2>5. \A n \in 1 .. MaxConnections : ~ \E i \in 1 .. Len(commands'[n]) : TRUE
    BY <2>2
  <2> QED BY <2>2, <2>3, <2>4, <2>5, Zenon DEF BeginUnderWay
<1>11. CommitUnderWay'
  <2> SUFFICES ASSUME NEW n \in 1 .. MaxConnections
               PROVE  /\ commands'[n] \in Remaining'
                      /\ commands'[n] = << >>
                      /\ \A e \in Answers(n)' : e.process # spent'.crashes
    BY <1>3 DEF CommitUnderWay
  <2> QED BY <1>3, <1>6 DEF Remaining, Answers
<1> QED BY <1>5, <1>7, <1>8, <1>10, <1>11 DEF Transfers

LEMMA PushNumbered ==
    ASSUME TypeInv, TypeInv', CommandsNumbered, NumbersKept, socket_fd_' = socket_fd_,
           socket_fd_ \in 1 .. MaxConnections, NEW batch \in Seq(CommandSet),
           commands' = Push(socket_fd_, batch),
           \A m \in Range(batch) : m.request_id < next_request_id_' /\ Numbered(m.snapshot)'
    PROVE  CommandsNumbered'
<1> SUFFICES ASSUME NEW n \in 1 .. MaxConnections
             PROVE  /\ n # socket_fd_ => commands'[n] = << >>
                    /\ \A m \in Range(commands'[n]) :
                        m.request_id < next_request_id_' /\ Numbered(m.snapshot)'
  BY DEF CommandsNumbered
<1>1. commands \in [1 .. MaxConnections -> Seq(CommandSet)]
  BY DEF TypeInv, WiresTyped
<1>2. /\ n # socket_fd_ => commands'[n] = commands[n]
      /\ n = socket_fd_ => commands'[n] = commands[n] \o batch
  BY <1>1 DEF Push
<1>3. n # socket_fd_ => commands'[n] = << >>
  BY <1>2 DEF CommandsNumbered
<1>4. ASSUME NEW m \in Range(commands'[n])
      PROVE  m.request_id < next_request_id_' /\ Numbered(m.snapshot)'
  <2>1. m \in Range(commands[n]) \/ m \in Range(batch)
    BY <1>1, <1>2, ConcatRange
  <2>2. CASE m \in Range(commands[n])
    <3>1. m \in CommandSet
      BY <1>1, <2>2, RangeFacts
    <3>2. m.request_id < next_request_id_ /\ Numbered(m.snapshot)
      BY <2>2 DEF CommandsNumbered
    <3>3. m.request_id < next_request_id_'
      <4>1. next_request_id_' >= next_request_id_
        BY DEF NumbersKept
      <4>2. /\ next_request_id_ \in Nat /\ next_request_id_' \in Nat
            /\ m.request_id \in Nat
        BY <3>1, SnapshotNumber DEF TypeInv, NumbersTyped
      <4> QED BY <3>2, <4>1, <4>2
    <3>4. Numbered(m.snapshot)'
      BY <3>1, <3>2, SnapshotNumber DEF NumbersKept
    <3> QED BY <3>3, <3>4
  <2> QED BY <2>1, <2>2
<1> QED BY <1>3, <1>4

LEMMA AnnounceSafe ==
    ASSUME TypeInv, TypeInv', Transfers, AnnounceRoute
    PROVE  Transfers'
<1> DEFINE announcement == Command("announce", [route |-> route, app |-> 0, daemon |-> 0],
                                   next_request_id_)
<1>1. /\ pc' \in {"announce_wait", "restore"}
      /\ UNCHANGED <<daemon_generation_, events, socket_fd_, contexts, spent>>
      /\ next_request_id_' \in {next_request_id_, next_request_id_ + 1}
  BY Zenon DEF AnnounceRoute, driver
<1>2. \/ commands' = commands
      \/ /\ Sendable(client_fd_) /\ commands' = Push(client_fd_, <<announcement>>)
         /\ next_request_id_' = next_request_id_ + 1
  BY Zenon DEF AnnounceRoute
<1>3. Continues
  BY <1>1 DEF Continues, TypeInv, NumbersTyped
<1>4. AnswersShrink /\ ContextsIdle /\ spent'.crashes = spent.crashes
  BY <1>1, SameAnswers, SameContexts
<1>5. CASE commands' = commands
  BY <1>1, <1>3, <1>4, <1>5, SameCommands, QuietStep DEF Transfers
<1>6. CASE Sendable(client_fd_) /\ commands' = Push(client_fd_, <<announcement>>)
           /\ next_request_id_' = next_request_id_ + 1
  <2>1. announcement \in CommandSet
    BY DEF TypeInv, RoutingTyped, NumbersTyped, Command, CommandSet
  <2>2. announcement.request_id < next_request_id_' /\ announcement.snapshot.daemon = 0
    BY <1>1, <1>6 DEF Command, TypeInv, NumbersTyped
  <2> HIDE DEF announcement
  <2>3. <<announcement>> \in Seq(CommandSet) /\ \A m \in Range(<<announcement>>) : m = announcement
    BY <2>1 DEF Range
  <2>4. client_fd_ = socket_fd_ /\ socket_fd_ \in 1 .. MaxConnections
    BY <1>6, SendableFacts
  <2>5. CommandsNumbered'
    <3>1. \A m \in Range(<<announcement>>) :
                m.request_id < next_request_id_' /\ Numbered(m.snapshot)'
      <4> SUFFICES ASSUME NEW m \in Range(<<announcement>>)
                   PROVE  m.request_id < next_request_id_' /\ Numbered(m.snapshot)'
        OBVIOUS
      <4>1. m = announcement
        BY <2>3
      <4>2. daemon_generation_' \in Nat \ {0}
        BY DEF TypeInv, NumbersTyped
      <4> QED BY <1>1, <2>2, <4>1, <4>2 DEF Numbered, Transferring
    <3> QED BY <1>1, <1>3, <1>6, <2>3, <2>4, <3>1, ContinuesKeeps, PushNumbered DEF Transfers
  <2>6. AnswersNumbered' /\ ContextsNumbered'
    <3>1. SocketSteady
      BY <1>1 DEF SocketSteady
    <3> QED BY <1>3, <1>4, <3>1, ContinuesKeeps, AnswersStep, ContextsStep DEF Transfers
  <2>7. BeginUnderWay' /\ CommitUnderWay'
    BY <1>1 DEF BeginUnderWay, CommitUnderWay
  <2> QED BY <2>5, <2>6, <2>7 DEF Transfers
<1> QED BY <1>2, <1>5, <1>6

\* Nothing in flight carries the next request id.
LEMMA NextIdFresh ==
    ASSUME TypeInv, Transfers
    PROVE  /\ \A n \in 1 .. MaxConnections : \A m \in Range(commands[n]) :
                m.request_id # next_request_id_
           /\ \A n \in 1 .. MaxConnections : \A e \in Range(events[n]) :
                e.type = "answer" => e.request_id # next_request_id_
<1>1. next_request_id_ \in Nat
  BY DEF TypeInv, NumbersTyped
<1>2. ASSUME NEW n \in 1 .. MaxConnections, NEW m \in Range(commands[n])
      PROVE  m.request_id # next_request_id_
  <2>1. m.request_id < next_request_id_
    BY DEF Transfers, CommandsNumbered
  <2> QED BY <1>1, <2>1
<1>3. ASSUME NEW n \in 1 .. MaxConnections, NEW e \in Range(events[n]), e.type = "answer"
      PROVE  e.request_id # next_request_id_
  <2>1. e.request_id < next_request_id_
    BY <1>3 DEF Transfers, AnswersNumbered
  <2> QED BY <1>1, <2>1
<1> QED BY <1>2, <1>3

LEMMA RestoreBeginSafe ==
    ASSUME TypeInv, TypeInv', Transfers, RestoreBegin
    PROVE  Transfers'
<1> DEFINE snapshot == [route |-> route, app |-> Stored[route],
                        daemon |-> daemon_generation_ + 1]
           begin == Command("begin", snapshot, next_request_id_)
<1>1. /\ daemon_generation_' = daemon_generation_ + 1
      /\ next_request_id_' = next_request_id_ + 1
      /\ UNCHANGED <<events, socket_fd_, contexts, spent>>
  BY DEF RestoreBegin, driver
<1>2. /\ snapshot \in Snapshots /\ snapshot.daemon = daemon_generation_'
      /\ begin \in CommandSet /\ begin.snapshot = snapshot
      /\ begin.request_id = next_request_id_ /\ begin.type = "begin"
  <2>1. snapshot \in Snapshots /\ snapshot.daemon = daemon_generation_'
    BY <1>1 DEF RestoreBegin, TypeInv, NumbersTyped, Snapshots
  <2>2. next_request_id_ \in Nat
    BY DEF TypeInv, NumbersTyped
  <2> HIDE DEF snapshot
  <2>3. begin \in CommandSet
    BY <2>1, <2>2, CommandTyped
  <2> QED BY <2>1, <2>3 DEF Command
<1>3. \/ /\ Sendable(client_fd_) /\ commands' = Push(client_fd_, <<begin>>)
         /\ sending' = snapshot /\ pc' = "begin_wait"
      \/ PassEnds /\ UNCHANGED commands
  BY DEF RestoreBegin
<1>4. AnswersShrink /\ ContextsIdle /\ SocketSteady /\ spent'.crashes = spent.crashes
  BY <1>1, SameAnswers, SameContexts DEF SocketSteady
<1>5. /\ daemon_generation_ \in Nat /\ daemon_generation_' = daemon_generation_ + 1
      /\ next_request_id_ \in Nat /\ next_request_id_' = next_request_id_ + 1
  BY <1>1 DEF TypeInv, NumbersTyped
<1> HIDE DEF snapshot, begin
<1>6. CASE PassEnds /\ UNCHANGED commands
  <2>1. Continues
    BY <1>5, <1>6, PassEndsFacts DEF Continues
  <2> QED BY <1>1, <1>4, <1>6, <2>1, SameCommands, QuietStep DEF Transfers
<1>7. CASE /\ Sendable(client_fd_) /\ commands' = Push(client_fd_, <<begin>>)
           /\ sending' = snapshot /\ pc' = "begin_wait"
  <2>1. client_fd_ = socket_fd_ /\ socket_fd_ \in 1 .. MaxConnections
    BY <1>7, SendableFacts
  <2>2. NumbersKept
    <3>1. ASSUME NEW s, s # NoSnapshot => s.daemon \in Nat, Numbered(s)
          PROVE  Numbered(s)'
      BY <1>5, <3>1 DEF Numbered, Transferring
    <3>2. next_request_id_' >= next_request_id_
      BY <1>5
    <3> QED BY <3>1, <3>2 DEF NumbersKept
  <2>3. <<begin>> \in Seq(CommandSet) /\ \A m \in Range(<<begin>>) : m = begin
    BY <1>2 DEF Range
  <2>4. CommandsNumbered'
    <3>1. ASSUME NEW m \in Range(<<begin>>)
          PROVE  m.request_id < next_request_id_' /\ Numbered(m.snapshot)'
      <4>1. m = begin
        BY <2>3
      <4>2. m.request_id < next_request_id_'
        BY <1>2, <1>5, <4>1
      <4>3. m.snapshot = sending' /\ m.snapshot.daemon = daemon_generation_'
        BY <1>2, <1>7, <4>1
      <4> QED BY <1>5, <4>2, <4>3 DEF Numbered
    <3> QED BY <1>1, <1>7, <2>1, <2>2, <2>3, <3>1, PushNumbered DEF Transfers
  <2>5. AnswersNumbered'
    BY <1>4, <2>2, AnswersStep DEF Transfers
  <2>6. ContextsNumbered'
    <3>1. (Transferring => sending.daemon = daemon_generation_)'
      BY <1>2, <1>7
    <3> QED BY <1>4, <2>2, <3>1, ContextsStep DEF Transfers
  <2>7. AwaitedId' = next_request_id_
    BY <1>5 DEF AwaitedId
  <2>8. \A n \in 1 .. MaxConnections : Answers(n)' = {}
    BY <1>1, <2>7, NextIdFresh DEF Answers
  <2>9. ASSUME NEW n \in 1 .. MaxConnections, NEW i \in 1 .. Len(commands'[n]),
               commands'[n][i].request_id = next_request_id_
        PROVE  /\ i = Len(commands'[n])
               /\ commands'[n][i].type = "begin" /\ commands'[n][i].snapshot = sending'
    <3>1. commands[n] \in Seq(CommandSet)
      BY DEF TypeInv, WiresTyped
    <3>2. CASE n # socket_fd_
      <4>1. commands'[n] = commands[n]
        BY <1>7, <2>1, <3>2 DEF Push, TypeInv, WiresTyped
      <4>2. commands'[n][i] \in Range(commands[n])
        BY <3>1, <4>1, RangeFacts
      <4> QED BY <2>9, <4>2, NextIdFresh
    <3>3. CASE n = socket_fd_
      <4>1. commands'[n] = commands[n] \o <<begin>>
        BY <1>7, <2>1, <3>3 DEF Push, TypeInv, WiresTyped
      <4>2. /\ Len(commands'[n]) = Len(commands[n]) + 1 /\ Len(commands[n]) \in Nat
            /\ \A j \in 1 .. Len(commands[n]) : commands'[n][j] = commands[n][j]
            /\ commands'[n][Len(commands[n]) + 1] = begin
        <5>1. Len(<<begin>>) = 1 /\ <<begin>>[1] = begin /\ 1 \in 1 .. Len(<<begin>>)
          OBVIOUS
        <5> QED BY <2>3, <3>1, <4>1, <5>1, ConcatFacts
      <4>3. i \notin 1 .. Len(commands[n])
        <5> SUFFICES ASSUME i \in 1 .. Len(commands[n]) PROVE FALSE
          OBVIOUS
        <5>1. commands'[n][i] \in Range(commands[n])
          BY <3>1, <4>2, RangeFacts
        <5> QED BY <2>9, <5>1, NextIdFresh
      <4>4. i = Len(commands[n]) + 1
        BY <4>2, <4>3
      <4> QED BY <1>2, <1>7, <4>2, <4>4
    <3> QED BY <3>2, <3>3
  <2>10. BeginUnderWay' /\ CommitUnderWay'
    <3>1. BeginUnderWay'
      BY <2>7, <2>8, <2>9 DEF BeginUnderWay
    <3> QED BY <1>7, <3>1 DEF CommitUnderWay
  <2> QED BY <2>4, <2>5, <2>6, <2>10 DEF Transfers
<1> QED BY <1>3, <1>6, <1>7

LEMMA OutcomeAwaited ==
    ASSUME TypeInv, Answered
    PROVE  Outcome \in Answers(Peer) /\ Peer \in 1 .. MaxConnections /\ Outcome \in AnswerSet
<1>1. Outcome \in AnswerSet /\ Peer \in 1 .. MaxConnections /\ Outcome \in Range(events[Peer])
  BY OutcomeFacts DEF Answered
<1>2. Outcome.type = "answer" /\ Outcome.request_id = AwaitedId
  BY <1>1 DEF AnswerSet, Answered
<1> QED BY <1>1, <1>2 DEF Answers

LEMMA BeginAnsweredSafe ==
    ASSUME TypeInv, TypeInv', Transfers, BeginAnswered
    PROVE  Transfers'
<1> DEFINE chunk == Command("chunk", sending, AwaitedId)
           commit == Command("commit", sending, AwaitedId)
<1>1. /\ Poll /\ Answered /\ pc = "begin_wait"
      /\ UNCHANGED <<daemon_generation_, next_request_id_, spent>>
  BY DEF BeginAnswered
<1>2. \/ /\ Outcome.accepted /\ Sendable(client_fd_')
         /\ commands' = Push(client_fd_', <<chunk, commit>>)
         /\ pc' = "commit_wait" /\ sending' = sending
      \/ PassEnds /\ UNCHANGED commands
  BY DEF BeginAnswered, RestoreEnds
<1>3. /\ AnswersShrink /\ ContextsIdle /\ socket_fd_' = socket_fd_ /\ spent'.crashes = spent.crashes
      /\ SocketSteady
  BY <1>1, PollQuiet DEF SocketSteady
<1>4. CASE PassEnds /\ UNCHANGED commands
  <2>1. Continues
    BY <1>1, <1>4, PassEndsFacts DEF Continues, TypeInv, NumbersTyped
  <2> QED BY <1>3, <1>4, <2>1, SameCommands, QuietStep DEF Transfers
<1>5. CASE /\ Outcome.accepted /\ Sendable(client_fd_')
           /\ commands' = Push(client_fd_', <<chunk, commit>>)
           /\ pc' = "commit_wait" /\ sending' = sending
  <2>1. client_fd_' = socket_fd_ /\ socket_fd_ \in 1 .. MaxConnections /\ Peer = socket_fd_
    <3>1. client_fd_' = socket_fd_ /\ socket_fd_ \in 1 .. MaxConnections
      BY <1>5, SendableFacts
    <3>2. client_fd_' = IF Peer = socket_fd_ THEN Peer ELSE 0
      BY <1>1 DEF Poll
    <3> QED BY <3>1, <3>2
  <2>2. Outcome \in Answers(Peer)
    BY <1>1, OutcomeAwaited
  <2>3. commands[socket_fd_] = << >> /\ AllStaged
    BY <1>1, <1>5, <2>1, <2>2 DEF Transfers, BeginUnderWay
  <2>4. AwaitedId' = AwaitedId /\ next_request_id_ \in Nat \ {0} /\ AwaitedId < next_request_id_
        /\ AwaitedId \in Nat
    BY <1>1 DEF AwaitedId, TypeInv, NumbersTyped
  <2>5. NumbersKept
    <3>1. ASSUME NEW s, s # NoSnapshot => s.daemon \in Nat, Numbered(s)
          PROVE  Numbered(s)'
      BY <1>1, <1>5, <3>1 DEF Numbered, Transferring
    <3>2. next_request_id_' >= next_request_id_
      BY <1>1, <2>4
    <3> QED BY <3>1, <3>2 DEF NumbersKept
  <2>6. sending \in Snapshots /\ sending.daemon = daemon_generation_
    BY <1>1 DEF TypeInv, LoopTyped, Transfers, ContextsNumbered, Transferring
  <2>7. <<chunk, commit>> \in Seq(CommandSet) /\ \A m \in Range(<<chunk, commit>>) :
            m.snapshot = sending /\ m.request_id = AwaitedId
    <3>1. chunk \in CommandSet /\ commit \in CommandSet
      BY <2>4, <2>6, CommandTyped
    <3>2. /\ chunk.snapshot = sending /\ commit.snapshot = sending
          /\ chunk.request_id = AwaitedId /\ commit.request_id = AwaitedId
      BY DEF Command
    <3> HIDE DEF chunk, commit
    <3>3. \A m \in Range(<<chunk, commit>>) : m = chunk \/ m = commit
      BY DEF Range
    <3> QED BY <3>1, <3>2, <3>3
  <2> HIDE DEF chunk, commit
  <2>8. CommandsNumbered'
    <3>1. ASSUME NEW m \in Range(<<chunk, commit>>)
          PROVE  m.request_id < next_request_id_' /\ Numbered(m.snapshot)'
      <4>1. m.snapshot = sending /\ m.request_id = AwaitedId
        BY <2>7
      <4>2. sending.daemon <= daemon_generation_ /\ sending' = sending
        BY <1>5, <2>6 DEF TypeInv, NumbersTyped
      <4> QED BY <1>1, <2>4, <4>1, <4>2 DEF Numbered
    <3> QED BY <1>3, <1>5, <2>1, <2>5, <2>7, <3>1, PushNumbered DEF Transfers
  <2>9. AnswersNumbered'
    BY <1>3, <2>5, AnswersStep DEF Transfers
  <2>10. ContextsNumbered'
    <3>1. (Transferring => sending.daemon = daemon_generation_)'
      BY <1>1, <1>5, <2>6
    <3> QED BY <1>3, <2>5, <3>1, ContextsStep DEF Transfers
  <2>11. BeginUnderWay'
    BY <1>5 DEF BeginUnderWay
  <2>12. \A n \in 1 .. MaxConnections : Answers(n)' = {}
    <3> SUFFICES ASSUME NEW n \in 1 .. MaxConnections, NEW e \in Answers(n)' PROVE FALSE
      OBVIOUS
    <3>1. e \in Answers(n) /\ e \in Range(events'[n])
      BY <1>3, <2>4 DEF Answers, AnswersShrink
    <3>2. n = Peer
      BY <1>1, <2>1, <2>2, <3>1 DEF Transfers, BeginUnderWay
    <3>3. events'[n] = << >>
      BY <1>1, <3>2, PollQuiet
    <3> QED BY <3>1, <3>3, EmptyFacts
  <2>13. \A n \in 1 .. MaxConnections : commands'[n] = << >> \/ commands'[n] = <<chunk, commit>>
    <3> SUFFICES ASSUME NEW n \in 1 .. MaxConnections
                 PROVE  commands'[n] = << >> \/ commands'[n] = <<chunk, commit>>
      OBVIOUS
    <3>1. CASE n = socket_fd_
      <4>1. commands'[n] = << >> \o <<chunk, commit>>
        BY <1>5, <2>1, <2>3, <3>1 DEF Push, TypeInv, WiresTyped
      <4> QED BY <2>7, <4>1
    <3>2. CASE n # socket_fd_
      <4>1. commands'[n] = commands[n]
        BY <1>5, <2>1, <3>2 DEF Push, TypeInv, WiresTyped
      <4> QED BY <3>2, <4>1 DEF Transfers, CommandsNumbered
    <3> QED BY <3>1, <3>2
  <2>14. << >> \in Remaining' /\ <<chunk, commit>> \in Remaining'
    BY <1>5, <2>4 DEF Remaining, chunk, commit, Command
  <2>15. AllStaged'
    BY <1>3, <1>5, <2>3, StagedStep
  <2>16. CommitUnderWay'
    BY <2>12, <2>13, <2>14, <2>15 DEF CommitUnderWay
  <2> QED BY <2>8, <2>9, <2>10, <2>11, <2>16 DEF Transfers
<1> QED BY <1>2, <1>4, <1>5

\* What a command does to a context that it reaches.
LEMMA AfterFacts ==
    ASSUME NEW x \in ContextRecord, NEW m \in CommandSet
    PROVE  /\ After(x, m).state = x.state
           /\ \/ After(x, m).staging \in {x.staging, NoSnapshot}
              \/ m.type = "begin" /\ After(x, m).staging = m.snapshot
           /\ After(x, m).adopted \in {x.adopted, x.staging}
           /\ m.type = "begin" /\ Accepts(x, m) => After(x, m).staging = m.snapshot
           /\ m.type = "commit" /\ Accepts(x, m) =>
                /\ x.staging # NoSnapshot
                /\ \/ After(x, m).adopted = x.staging
                   \/ After(x, m).adopted = x.adopted /\ SamePair(x.staging, x.adopted)
<1> DEFINE idle == [x EXCEPT !.staging = NoSnapshot, !.got = FALSE]
<1>1. /\ idle.state = x.state /\ idle.staging = NoSnapshot /\ idle.adopted = x.adopted
      /\ idle \in ContextRecord
  <2>1. ASSUME NEW f \in BOOLEAN
        PROVE  LET y == [x EXCEPT !.staging = NoSnapshot, !.got = f]
               IN  /\ y.state = x.state /\ y.staging = NoSnapshot /\ y.adopted = x.adopted
                   /\ y \in ContextRecord
    BY <2>1 DEF ContextRecord, MaybeSnapshot
  <2> QED BY <2>1, Zenon
<1>2. CASE m.type = "announce"
  <2>1. After(x, m) = [x EXCEPT !.hash = m.snapshot.route]
    BY <1>2 DEF After
  <2> QED BY <1>2, <2>1 DEF ContextRecord
<1>3. CASE m.type = "begin"
  <2>1. After(x, m) = IF Accepts(x, m) THEN [x EXCEPT !.staging = m.snapshot] ELSE x
    BY <1>3 DEF After
  <2> QED BY <1>3, <2>1 DEF ContextRecord
<1>4. CASE m.type = "chunk"
  <2>1. After(x, m) = IF Accepts(x, m) THEN [x EXCEPT !.got = TRUE] ELSE idle
    BY <1>4 DEF After
  <2>2. ASSUME NEW t \in BOOLEAN
        PROVE  LET y == [x EXCEPT !.got = t]
               IN  y.state = x.state /\ y.staging = x.staging /\ y.adopted = x.adopted
    BY <2>2 DEF ContextRecord
  <2>3. CASE Accepts(x, m)
    <3>1. After(x, m) = [x EXCEPT !.got = TRUE] /\ TRUE \in BOOLEAN
      BY <2>1, <2>3, Zenon
    <3>2. /\ After(x, m).state = x.state /\ After(x, m).staging = x.staging
          /\ After(x, m).adopted = x.adopted
      BY <2>2, <3>1, Zenon
    <3> QED BY <1>4, <3>2
  <2>4. CASE ~Accepts(x, m)
    <3>1. After(x, m) = idle
      BY <2>1, <2>4
    <3> HIDE DEF idle
    <3> QED BY <1>1, <1>4, <3>1
  <2> QED BY <2>3, <2>4
<1>5. CASE m.type = "commit"
  <2>1. After(x, m) = IF Accepts(x, m) /\ ~SamePair(x.staging, x.adopted)
                      THEN [idle EXCEPT !.adopted = x.staging] ELSE idle
    BY <1>5 DEF After
  <2>2. Accepts(x, m) => x.staging # NoSnapshot
    BY <1>5 DEF Accepts
  <2> HIDE DEF idle
  <2> QED BY <1>1, <1>5, <2>1, <2>2 DEF ContextRecord
<1> QED BY <1>2, <1>3, <1>4, <1>5 DEF CommandSet

LEMMA HandleSafe ==
    ASSUME TypeInv, TypeInv', Transfers, HandleSnapshotCommand
    PROVE  Transfers'
<1> DEFINE s == socket_fd_
           m == Head(commands[s])
           answer == Answer(m.request_id, Accepted(m))
<1>1. /\ s \in 1 .. MaxConnections /\ commands[s] # << >>
      /\ m \in CommandSet /\ Accepted(m) \in BOOLEAN
      /\ commands' = [commands EXCEPT ![s] = Tail(@)]
      /\ contexts' = [c \in Context |-> IF c \in LiveContexts
                          THEN After(contexts[c], m) ELSE contexts[c]]
      /\ \/ m.type = "chunk" /\ Accepted(m) /\ events' = events
         \/ /\ ~(m.type = "chunk" /\ Accepted(m))
            /\ events' = [events EXCEPT ![s] = Append(@, answer)]
      /\ UNCHANGED <<loop, numbering, socket_fd_, spent>>
  BY HandleFacts, Zenon
<1>2. UNCHANGED <<pc, sending, daemon_generation_, next_request_id_, socket_fd_, spent>>
  BY <1>1 DEF loop, numbering
<1>3. /\ answer.type = "answer" /\ answer.request_id = m.request_id
      /\ answer.accepted = Accepted(m) /\ answer.contexts = LiveContexts
      /\ answer.process = spent.crashes
      /\ answer \in EventSet
  <2>1. m.request_id \in Nat
    BY <1>1, SnapshotNumber
  <2>2. answer \in EventSet
    BY <1>1, <2>1, AnswerTyped
  <2>3. ASSUME NEW id, NEW ok \in BOOLEAN
        PROVE  LET a == Answer(id, ok)
               IN  /\ a.type = "answer" /\ a.request_id = id /\ a.accepted = ok
                   /\ a.contexts = LiveContexts /\ a.process = spent.crashes
    BY DEF Answer
  <2> QED BY <1>1, <2>2, <2>3
<1>4. /\ commands \in [1 .. MaxConnections -> Seq(CommandSet)]
      /\ events \in [1 .. MaxConnections -> Seq(EventSet)]
      /\ contexts \in [Context -> ContextRecord]
  BY DEF TypeInv, WiresTyped, DriverTyped
<1>5. /\ Tail(commands[s]) \in Seq(CommandSet) /\ Len(Tail(commands[s])) = Len(commands[s]) - 1
      /\ Len(commands[s]) \in Nat \ {0} /\ m = commands[s][1] /\ m \in Range(commands[s])
      /\ \A i \in 1 .. Len(commands[s]) - 1 : Tail(commands[s])[i] = commands[s][i + 1]
      /\ Range(Tail(commands[s])) \subseteq Range(commands[s])
  BY <1>1, <1>4, TailFacts
<1>6. /\ commands'[s] = Tail(commands[s])
      /\ \A n \in 1 .. MaxConnections : n # s => commands'[n] = commands[n] /\ commands[n] = << >>
  <2>1. \A n \in 1 .. MaxConnections : n # s => commands[n] = << >>
    BY DEF Transfers, CommandsNumbered
  <2> QED BY <1>1, <1>4, <2>1
<1>7. m.request_id < next_request_id_ /\ Numbered(m.snapshot)
  BY <1>1, <1>5 DEF Transfers, CommandsNumbered
<1>8. \A n \in 1 .. MaxConnections : \A e \in Range(events'[n]) :
        \/ e \in Range(events[n])
        \/ n = s /\ e = answer /\ ~(m.type = "chunk" /\ Accepted(m))
  <2>1. Range(Append(events[s], answer)) = Range(events[s]) \cup {answer}
    BY <1>1, <1>3, <1>4, AppendFacts
  <2> HIDE DEF answer, m
  <2>2. CASE events' = events
    BY <2>2
  <2>3. CASE /\ ~(m.type = "chunk" /\ Accepted(m))
             /\ events' = [events EXCEPT ![s] = Append(@, answer)]
    <3>1. /\ events'[s] = Append(events[s], answer)
          /\ \A n \in 1 .. MaxConnections : n # s => events'[n] = events[n]
      BY <1>1, <1>4, <2>3
    <3> QED BY <2>1, <2>3, <3>1
  <2> QED BY <1>1, <2>2, <2>3
<1>9. \A c \in Context : contexts'[c] = IF contexts[c].state = "live"
                                        THEN After(contexts[c], m) ELSE contexts[c]
  <2> HIDE DEF m
  <2> QED BY <1>1 DEF LiveContexts
<1>10. \A c \in Context : contexts'[c].state = contexts[c].state
  BY <1>1, <1>4, <1>9, AfterFacts
<1>11. LiveContexts' = LiveContexts
  BY <1>10 DEF LiveContexts
<1>12. AwaitedId' = AwaitedId /\ Transferring' = Transferring
  BY <1>2 DEF AwaitedId, Transferring
<1> HIDE DEF m, answer
<1>13. CommandsNumbered'
  <2> SUFFICES ASSUME NEW n \in 1 .. MaxConnections
               PROVE  /\ n # socket_fd_' => commands'[n] = << >>
                      /\ \A k \in Range(commands'[n]) :
                            k.request_id < next_request_id_' /\ Numbered(k.snapshot)'
    BY DEF CommandsNumbered
  <2>1. n # socket_fd_' => commands'[n] = << >>
    BY <1>2, <1>6
  <2>2. ASSUME NEW k \in Range(commands'[n])
        PROVE  k.request_id < next_request_id_' /\ Numbered(k.snapshot)'
    <3>1. k \in Range(commands[n])
      BY <1>5, <1>6
    <3>2. k.request_id < next_request_id_ /\ Numbered(k.snapshot)
      BY <3>1 DEF Transfers, CommandsNumbered
    <3> QED BY <1>2, <3>2 DEF Numbered, Transferring
  <2> QED BY <2>1, <2>2
<1>14. AnswersNumbered'
  <2> SUFFICES ASSUME NEW n \in 1 .. MaxConnections, NEW e \in Range(events'[n]), e.type = "answer"
               PROVE  /\ e.request_id < next_request_id_' /\ e.process <= spent'.crashes
                      /\ n = socket_fd_' => e.process = spent'.crashes
                      /\ e.process = spent'.crashes =>
                          \A c \in e.contexts : contexts'[c].state \in {"live", "released"}
                      /\ e.accepted => e.contexts # {}
    BY DEF AnswersNumbered
  <2>1. CASE e \in Range(events[n])
    <3>1. /\ e.request_id < next_request_id_ /\ e.process <= spent.crashes
          /\ n = socket_fd_ => e.process = spent.crashes
          /\ e.process = spent.crashes =>
                \A c \in e.contexts : contexts[c].state \in {"live", "released"}
          /\ e.accepted => e.contexts # {}
      BY <2>1 DEF Transfers, AnswersNumbered
    <3>2. e.contexts \subseteq Context
      <4>1. e \in EventSet
        BY <1>4, <2>1, RangeFacts
      <4> QED BY <4>1 DEF EventSet, LifecycleSet, AnswerSet
    <3> QED BY <1>2, <1>10, <3>1, <3>2
  <2>2. CASE e = answer
    <3>1. e.process = spent.crashes /\ e.contexts = LiveContexts /\ e.request_id = m.request_id
      BY <1>3, <2>2
    <3>2. spent.crashes \in Nat
      BY DEF TypeInv, NumbersTyped
    <3>3. e.accepted => LiveContexts # {}
      BY <1>3, <2>2 DEF Accepted
    <3>4. \A c \in LiveContexts : contexts'[c].state = "live"
      BY <1>10 DEF LiveContexts
    <3> QED BY <1>2, <1>7, <3>1, <3>2, <3>3, <3>4
  <2> QED BY <1>8, <2>1, <2>2
<1>15. ContextsNumbered'
  <2>1. (Transferring => sending.daemon = daemon_generation_)'
    BY <1>2 DEF Transfers, ContextsNumbered, Transferring
  <2>2. ASSUME NEW c \in Context
        PROVE  (Numbered(contexts[c].staging) /\ Numbered(contexts[c].adopted))'
    <3>1. Numbered(contexts[c].staging) /\ Numbered(contexts[c].adopted) /\ Numbered(NoSnapshot)
      BY DEF Transfers, ContextsNumbered, Numbered
    <3>2. /\ contexts'[c].staging \in {contexts[c].staging, NoSnapshot, m.snapshot}
          /\ contexts'[c].adopted \in {contexts[c].adopted, contexts[c].staging}
      BY <1>1, <1>4, <1>9, AfterFacts
    <3>3. Numbered(contexts'[c].staging) /\ Numbered(contexts'[c].adopted)
      BY <1>7, <3>1, <3>2
    <3> QED BY <1>2, <3>3 DEF Numbered, Transferring
  <2> QED BY <2>1, <2>2 DEF ContextsNumbered
<1>16. BeginUnderWay'
  <2> SUFFICES ASSUME pc = "begin_wait"
               PROVE  /\ \A n \in 1 .. MaxConnections : \A i \in 1 .. Len(commands'[n]) :
                            commands'[n][i].request_id = AwaitedId =>
                              /\ i = Len(commands'[n])
                              /\ commands'[n][i].type = "begin"
                              /\ commands'[n][i].snapshot = sending
                      /\ \A n \in 1 .. MaxConnections : \A e \in Answers(n)' :
                            /\ \A k \in 1 .. MaxConnections :
                                /\ \A j \in Range(commands'[k]) : j.request_id # AwaitedId
                                /\ Answers(k)' # {} => k = n
                            /\ e.accepted /\ n = s => commands'[n] = << >> /\ AllStaged'
    BY <1>2, <1>12 DEF BeginUnderWay
  <2>1. /\ \A i \in 1 .. Len(commands[s]) :
              commands[s][i].request_id = AwaitedId =>
                /\ i = Len(commands[s])
                /\ commands[s][i].type = "begin" /\ commands[s][i].snapshot = sending
        /\ \A n \in 1 .. MaxConnections : \A e \in Answers(n) :
              /\ \A k \in 1 .. MaxConnections :
                  /\ \A j \in Range(commands[k]) : j.request_id # AwaitedId
                  /\ Answers(k) # {} => k = n
              /\ e.accepted /\ n = s => commands[n] = << >> /\ AllStaged
    BY <1>1 DEF Transfers, BeginUnderWay
  <2>2. CASE m.request_id = AwaitedId
    <3>1. Len(commands[s]) = 1 /\ m.type = "begin" /\ m.snapshot = sending
      <4>1. 1 \in 1 .. Len(commands[s]) /\ commands[s][1].request_id = AwaitedId
        BY <1>5, <2>2
      <4> QED BY <1>5, <2>1, <4>1
    <3>2. \A n \in 1 .. MaxConnections : commands'[n] = << >>
      <4>1. Tail(commands[s]) = << >>
        <5>1. Tail(commands[s]) \in Seq(CommandSet) /\ Len(Tail(commands[s])) = 0
          BY <1>5, <3>1
        <5> QED BY <5>1, EmptySeq
      <4> QED BY <1>6, <4>1
    <3>3. \A n \in 1 .. MaxConnections : Answers(n) = {}
      BY <1>1, <1>5, <2>1, <2>2
    <3>4. \A n \in 1 .. MaxConnections : \A e \in Answers(n)' : n = s /\ e = answer
      BY <1>8, <1>12, <3>3 DEF Answers
    <3>5. answer.accepted => AllStaged'
      <4> SUFFICES ASSUME Accepted(m), NEW c \in LiveContexts
                   PROVE  contexts'[c].staging = sending
        BY <1>2, <1>3, <1>11 DEF AllStaged
      <4>1. c \in Context /\ contexts[c].state = "live" /\ Accepts(contexts[c], m)
        BY DEF Accepted, LiveContexts
      <4>2. contexts'[c] = After(contexts[c], m)
        BY <1>9, <4>1
      <4> QED BY <1>1, <1>4, <3>1, <4>1, <4>2, AfterFacts
    <3> QED BY <3>2, <3>4, <3>5, EmptyFacts
  <2>3. CASE m.request_id # AwaitedId
    <3>1. \A n \in 1 .. MaxConnections : Answers(n)' \subseteq Answers(n)
      BY <1>3, <1>8, <1>12, <2>3 DEF Answers
    <3>2. \A n \in 1 .. MaxConnections : Range(commands'[n]) \subseteq Range(commands[n])
      BY <1>5, <1>6
    <3>3. ASSUME NEW n \in 1 .. MaxConnections, NEW i \in 1 .. Len(commands'[n]),
                 commands'[n][i].request_id = AwaitedId
          PROVE  /\ i = Len(commands'[n])
                 /\ commands'[n][i].type = "begin" /\ commands'[n][i].snapshot = sending
      <4>1. n = s
        BY <1>6
      <4>2. commands'[n][i] = commands[s][i + 1] /\ i + 1 \in 1 .. Len(commands[s])
        <5>1. i \in 1 .. Len(commands[s]) - 1 /\ Len(commands[s]) \in Nat
          BY <1>5, <1>6, <4>1
        <5>2. i + 1 \in 1 .. Len(commands[s])
          BY <5>1
        <5> QED BY <1>5, <1>6, <4>1, <5>1, <5>2
      <4>3. /\ i + 1 = Len(commands[s])
            /\ commands'[n][i].type = "begin" /\ commands'[n][i].snapshot = sending
        BY <2>1, <3>3, <4>2
      <4>4. Len(commands'[n]) = Len(commands[s]) - 1
        BY <1>5, <1>6, <4>1
      <4> QED BY <4>3, <4>4
    <3>4. ASSUME NEW n \in 1 .. MaxConnections, NEW e \in Answers(n)'
          PROVE  /\ \A k \in 1 .. MaxConnections :
                      /\ \A j \in Range(commands'[k]) : j.request_id # AwaitedId
                      /\ Answers(k)' # {} => k = n
                 /\ e.accepted /\ n = s => FALSE
      <4>1. e \in Answers(n)
        BY <3>1
      <4> QED BY <1>1, <2>1, <3>1, <3>2, <4>1
    <3> QED BY <3>3, <3>4
  <2> QED BY <2>2, <2>3
<1>17. CommitUnderWay'
  <2> SUFFICES ASSUME pc = "commit_wait", NEW n \in 1 .. MaxConnections
               PROVE  /\ commands'[n] \in Remaining'
                      /\ commands'[n] # << >> => AllStaged'
                      /\ \A e \in Answers(n)' : e.accepted =>
                          /\ \A k \in 1 .. MaxConnections : commands'[k] = << >>
                          /\ e.process = spent'.crashes =>
                              \A c \in e.contexts \cap LiveContexts' :
                                  contexts'[c].adopted = sending'
    BY <1>2 DEF CommitUnderWay
  <2> DEFINE chunk == Command("chunk", sending, AwaitedId)
             commit == Command("commit", sending, AwaitedId)
  <2>1. Remaining' = {<< >>, <<commit>>, <<chunk, commit>>} /\ Remaining = Remaining'
    BY <1>2, <1>12 DEF Remaining, Command
  <2>2. /\ commands[s] = <<commit>> \/ commands[s] = <<chunk, commit>>
        /\ AllStaged
        /\ \A k \in 1 .. MaxConnections : \A e \in Answers(k) : ~e.accepted
    BY <1>1, <2>1 DEF Transfers, CommitUnderWay
  <2>3. /\ commit.type = "commit" /\ chunk.type = "chunk"
        /\ commit.snapshot = sending /\ chunk.snapshot = sending
    BY DEF Command
  <2> HIDE DEF commit, chunk
  <2>4. \A k \in 1 .. MaxConnections : \A e \in Answers(k)' : e.accepted =>
          e = answer /\ Accepted(m) /\ m.type # "chunk"
    BY <1>3, <1>8, <1>12, <2>2 DEF Answers
  <2>5. CASE commands[s] = <<commit>>
    <3>1. m = commit /\ Tail(commands[s]) = << >>
      BY <2>5 DEF m
    <3>2. \A k \in 1 .. MaxConnections : commands'[k] = << >>
      BY <1>6, <3>1
    <3>3. ASSUME Accepted(m), NEW c \in LiveContexts
          PROVE  contexts'[c].adopted = sending
      <4>1. c \in Context /\ contexts[c].state = "live" /\ Accepts(contexts[c], m)
        BY <3>3 DEF Accepted, LiveContexts
      <4>2. contexts'[c] = After(contexts[c], m)
        BY <1>9, <4>1
      <4>3. /\ contexts[c].staging # NoSnapshot
            /\ \/ contexts'[c].adopted = contexts[c].staging
               \/ /\ contexts'[c].adopted = contexts[c].adopted
                  /\ SamePair(contexts[c].staging, contexts[c].adopted)
        BY <1>1, <1>4, <2>3, <3>1, <4>1, <4>2, AfterFacts
      <4>4. contexts[c].staging = sending
        BY <2>2, <4>3 DEF AllStaged
      <4>5. Numbered(contexts[c].adopted) /\ sending.daemon = daemon_generation_ /\ Transferring
        BY <4>1 DEF Transfers, ContextsNumbered, Transferring
      <4> QED BY <4>3, <4>4, <4>5 DEF Numbered, SamePair
    <3> QED BY <1>2, <1>3, <1>11, <2>1, <2>4, <3>2, <3>3
  <2>6. CASE commands[s] = <<chunk, commit>>
    <3>1. m = chunk /\ Tail(commands[s]) = <<commit>>
      BY <2>6 DEF m
    <3>2. \A k \in 1 .. MaxConnections : commands'[k] = << >> \/ commands'[k] = <<commit>>
      BY <1>6, <3>1
    <3>3. AllStaged'
      <4> SUFFICES ASSUME NEW c \in LiveContexts
                   PROVE  contexts'[c].staging \in {sending, NoSnapshot}
        BY <1>2, <1>11 DEF AllStaged
      <4>1. c \in Context /\ contexts[c].state = "live"
        BY DEF LiveContexts
      <4>2. contexts'[c] = After(contexts[c], m)
        BY <1>9, <4>1
      <4>3. contexts[c].staging \in {sending, NoSnapshot}
        BY <2>2 DEF AllStaged
      <4> QED BY <1>1, <1>4, <2>3, <3>1, <4>1, <4>2, <4>3, AfterFacts
    <3>4. \A e \in Answers(n)' : ~e.accepted
      BY <2>3, <2>4, <3>1
    <3> QED BY <2>1, <3>2, <3>3, <3>4
  <2> QED BY <2>2, <2>5, <2>6
<1> QED BY <1>13, <1>14, <1>15, <1>16, <1>17 DEF Transfers

LEMMA TransferInit == Init => TransferInv
<1> SUFFICES ASSUME Init PROVE Transfers
  BY DEF TransferInv
<1>1. /\ pc = "poll"
      /\ commands = [n \in 1 .. MaxConnections |-> << >>]
      /\ events = [n \in 1 .. MaxConnections |-> << >>]
      /\ contexts = [c \in Context |-> Gone("not created")]
  BY Zenon DEF Init
<1>2. \A n \in 1 .. MaxConnections : /\ commands[n] = << >> /\ Range(commands[n]) = {}
                                     /\ Range(events[n]) = {}
  BY <1>1, EmptyFacts
<1>3. CommandsNumbered /\ AnswersNumbered
  BY <1>2 DEF CommandsNumbered, AnswersNumbered
<1>4. ContextsNumbered
  <2>1. \A c \in Context : contexts[c].staging = NoSnapshot /\ contexts[c].adopted = NoSnapshot
    BY <1>1, GoneTyped
  <2> QED BY <1>1, <2>1 DEF ContextsNumbered, Numbered, Transferring
<1>5. BeginUnderWay /\ CommitUnderWay
  BY <1>1 DEF BeginUnderWay, CommitUnderWay
<1> QED BY <1>3, <1>4, <1>5 DEF Transfers

\* Only a restart of the daemon counts as one.
LEMMA RestartsCounted ==
    ASSUME TypeInv, [Next]_vars, ~DaemonRestart
    PROVE  spent'.restarts = spent.restarts
<1>1. \/ spent' = spent
      \/ spent' = [spent EXCEPT !.reports = @ + 1]
      \/ spent' = [spent EXCEPT !.timeouts = @ + 1]
      \/ spent' = [spent EXCEPT !.creations = @ + 1]
      \/ spent' = [spent EXCEPT !.crashes = @ + 1]
  BY Zenon DEF Next, RunOnce, RunPoll, AnnounceRoute, AnnounceAnswered, RestoreNotDue,
       RestoreBypassed, RestoreBegin, BeginAnswered, CommitAnswered, WaitPoll, Timeout,
       RouteSettles, AnnounceFallsDue, OnRouteReport, HandleSnapshotCommand, EnsureConnected,
       DrainQueue, CloseConnection, DriverCrash, CreateContext, ConfigureContext,
       ReleaseContext, vars
<1> QED BY <1>1 DEF TypeInv, NumbersTyped

LEMMA TransferStep ==
    TypeInv /\ TypeInv' /\ TransferInv /\ [Next]_vars => TransferInv'
<1> SUFFICES ASSUME TypeInv, TypeInv', TransferInv, [Next]_vars, spent'.restarts = 0
             PROVE  Transfers'
  BY DEF TransferInv
<1>1. ~DaemonRestart
  <2> SUFFICES ASSUME DaemonRestart PROVE FALSE
    OBVIOUS
  <2>1. spent' = [spent EXCEPT !.restarts = @ + 1]
    BY Zenon DEF DaemonRestart
  <2> QED BY <2>1 DEF TypeInv, NumbersTyped
<1>2. Transfers
  BY <1>1, RestartsCounted DEF TransferInv
<1>3. CASE \/ RunPoll \/ AnnounceAnswered \/ RestoreNotDue \/ RestoreBypassed \/ CommitAnswered
           \/ WaitPoll \/ Timeout \/ RouteSettles \/ AnnounceFallsDue
           \/ \E r \in Route : OnRouteReport(r)
  BY <1>2, <1>3, DaemonQuiet
<1>4. CASE AnnounceRoute
  BY <1>2, <1>4, AnnounceSafe
<1>5. CASE RestoreBegin
  BY <1>2, <1>5, RestoreBeginSafe
<1>6. CASE BeginAnswered
  BY <1>2, <1>6, BeginAnsweredSafe
<1>7. CASE HandleSnapshotCommand
  BY <1>2, <1>7, HandleSafe
<1>8. CASE EnsureConnected \/ DrainQueue \/ CloseConnection
  BY <1>2, <1>8, BridgeQuiet
<1>9. CASE DriverCrash
  BY <1>2, <1>9, DriverCrashSafe
<1>10. CASE \E c \in Context : CreateContext(c) \/ ConfigureContext(c) \/ ReleaseContext(c)
  BY <1>2, <1>10, EffectQuiet
<1>11. CASE UNCHANGED vars
  BY <1>2, <1>11, StutterQuiet
<1> QED BY <1>1, <1>3, <1>4, <1>5, <1>6, <1>7, <1>8, <1>9, <1>10, <1>11 DEF Next, RunOnce

LEMMA TransferInvHolds == Spec => [](TypeInv /\ TransferInv)
<1>1. TypeInv /\ TransferInv /\ [Next]_vars => (TypeInv /\ TransferInv)'
  BY TypeStep, TransferStep
<1>2. Init => TypeInv /\ TransferInv
  BY TypeInit, TransferInit
<1> QED BY <1>1, <1>2, PTL DEF Spec

\* The one step that counts a restore as accepted, and what it then knows.
LEMMA CommitAdopted ==
    ASSUME TypeInv, Transfers, CommitAnswered, accepted' # accepted
    PROVE  /\ accepted'.contexts # {}
           /\ accepted'.process = spent.crashes =>
                \A c \in accepted'.contexts \cap LiveContexts :
                    contexts[c].adopted = accepted'.snapshot
<1>1. /\ pc = "commit_wait" /\ Answered /\ Outcome.accepted
      /\ accepted' = [snapshot |-> sending, contexts |-> Outcome.contexts,
                      process |-> Outcome.process]
  BY DEF CommitAnswered
<1>2. /\ accepted'.snapshot = sending /\ accepted'.contexts = Outcome.contexts
      /\ accepted'.process = Outcome.process
  BY <1>1
<1>3. Outcome \in Answers(Peer) /\ Peer \in 1 .. MaxConnections
  BY <1>1, OutcomeAwaited
<1>4. Outcome.contexts # {}
  BY <1>1, <1>3 DEF Transfers, AnswersNumbered, Answers
<1>5. Outcome.process = spent.crashes =>
        \A c \in Outcome.contexts \cap LiveContexts : contexts[c].adopted = sending
  BY <1>1, <1>3 DEF Transfers, CommitUnderWay
<1> QED BY <1>2, <1>4, <1>5

LEMMA AcceptedStep ==
    ASSUME TypeInv, TransferInv, spent.restarts = 0, [Next]_vars,
           accepted' # accepted, accepted'.snapshot # NoSnapshot
    PROVE  /\ accepted'.contexts # {}
           /\ \A c \in accepted'.contexts \cap
                      (IF accepted'.process = spent.crashes THEN LiveContexts ELSE {}) :
                contexts[c].adopted = accepted'.snapshot
<1>1. accepted' # NoAcceptance
  BY DEF NoAcceptance
<1>2. CommitAnswered
  BY <1>1, Zenon DEF Next, RunOnce, RunPoll, AnnounceRoute, AnnounceAnswered, RestoreNotDue,
       RestoreBypassed, RestoreBegin, BeginAnswered, WaitPoll, Timeout, GiveUp,
       RouteSettles, AnnounceFallsDue, OnRouteReport, HandleSnapshotCommand, EnsureConnected,
       DrainQueue, CloseConnection, DriverCrash, CreateContext, ConfigureContext,
       ReleaseContext, DaemonRestart, vars, loop
<1>3. Transfers
  BY DEF TransferInv
<1> QED BY <1>2, <1>3, CommitAdopted

\* While the daemon that counts is the one that started the numbering, a restore
\* it counts as accepted was adopted by every context that took part and still
\* lives, whatever was late, lost or reconnected in between: request ids keep the
\* answers apart and daemon generations the snapshots (ApplySnapshotToDriver,
\* AwaitApplyOutcome, ApplySnapshotCommand).  A restarted daemon numbers from 1
\* again, and the run route_restore_restart shows that the property then fails.
THEOREM AcceptedMeansAdoptedCorrect ==
    Spec /\ [](spent.restarts = 0) => AcceptedMeansAdopted
<1> DEFINE Adopted ==
        accepted' # accepted /\ accepted'.snapshot # NoSnapshot =>
            /\ accepted'.contexts # {}
            /\ \A c \in accepted'.contexts \cap
                       (IF accepted'.process = spent.crashes THEN LiveContexts ELSE {}) :
                    contexts[c].adopted = accepted'.snapshot
<1>1. TypeInv /\ TransferInv /\ spent.restarts = 0 /\ [Next]_vars => [Adopted]_vars
  BY AcceptedStep
<1> HIDE DEF Adopted
<1>2. Spec /\ [](spent.restarts = 0) => [][Adopted]_vars
  BY <1>1, TransferInvHolds, PTL DEF Spec
<1> QED BY <1>2 DEF AcceptedMeansAdopted, Adopted
=============================================================================
