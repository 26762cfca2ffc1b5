------------------------- MODULE EventStreamProofs -------------------------
(***************************************************************************)
(* For any number of contexts, threads, publications and disturbances and  *)
(* buffers of any size: the registry and the bridge stay well formed, and, *)
(* unless a buffer overflowed, no live context is lost and the registry is *)
(* wrong about a context only if the context's last event was overtaken.   *)
(***************************************************************************)
EXTENDS EventStream, FiniteSetTheorems, SequenceTheorems, TLAPS

USE StreamAssumption

-----------------------------------------------------------------------------
(* The inductive invariants *)

\* An event of a context, and one that has its number.
Lifecycle == [type : LifecycleType, id : Nat \ {0}, enabled : BOOLEAN, sequence : Nat]

Queued == {e \in Lifecycle : e.sequence # 0}

Response == [type : {"RESCAN_RESPONSE"}, id : Nat, enabled : BOOLEAN, sequence : Nat]

\* What goes over the socket is numbered, and says of which context it is.
Frame ==
    {e \in DriverEvent : e.sequence # 0 /\ (e.type \in LifecycleType => e.id # 0)}

Entry == [state : States, last_sequence : Nat, stale : BOOLEAN]

PublisherTyped ==
    /\ next_context_instance_id_ \in Nat \ {0}
    /\ contexts_ \in [DOMAIN contexts_ -> BOOLEAN]
    /\ DOMAIN contexts_ \subseteq 1 .. next_context_instance_id_ - 1
    /\ made \in [Thread -> Lifecycle \cup {NoEvent}]

\* A thread without a connection is idle, and an event is put back because the
\* daemon has gone.
BridgeTyped ==
    /\ next_sequence_ \in Nat \ {0} /\ dropped_events_ \in {0, 1}
    /\ queue_ \in Seq(Queued) /\ Len(queue_) <= QueueCapacity
    /\ rescan_requested_ \in BOOLEAN
    /\ bridge \in {"idle", "replay", "failed"}
    /\ link \in {"down", "up", "dead"}
    /\ link = "down" => bridge = "idle"
    /\ bridge = "idle" => outgoing = << >>
    /\ bridge = "replay" => outgoing \in Seq(Response) /\ outgoing # << >>
    /\ bridge = "failed" => link = "dead" /\ outgoing \in Seq(Queued) /\ Len(outgoing) = 1

SocketTyped ==
    /\ wire \in Seq(Frame) /\ Len(wire) <= SocketCapacity
    /\ commands \in Seq({"rescan", "snapshot"}) /\ Len(commands) <= SocketCapacity

RegistryTyped ==
    /\ registry \in [DOMAIN registry -> Entry] /\ DOMAIN registry \subseteq Nat \ {0}
    /\ highest_sequence_ \in Nat /\ rescan_needed_ \in BOOLEAN
    /\ \A c \in DOMAIN registry : registry[c].last_sequence \in 1 .. highest_sequence_

HistoryTyped ==
    /\ refused \in BOOLEAN
    /\ spent \in [publications : Nat, commands : Nat, drivers : Nat, daemons : Nat]

TypeInv ==
    PublisherTyped /\ BridgeTyped /\ SocketTyped /\ RegistryTyped /\ HistoryTyped

\* Everything that is on its way to the registry.
Making == {made[t] : t \in {u \in Thread : made[u] # NoEvent}}

Flying == Making \cup Range(queue_) \cup Range(outgoing) \cup Range(wire)

\* Within one driver process ids and numbers only grow, and a released context
\* does not come back.
InOrder ==
    /\ \A e \in Flying : e.id < next_context_instance_id_ /\ e.sequence < next_sequence_
    /\ \A e \in Flying : e.type = "CONTEXT_RELEASED" => e.id \notin DOMAIN contexts_
    /\ \A c \in DOMAIN registry : c < next_context_instance_id_
    /\ highest_sequence_ < next_sequence_
    /\ link # "up" => wire = << >>

\* A replayed event is newer than all the registry has seen when it arrives, since
\* it takes its number as it is sent.
ReplayNewer ==
    \A i \in 1 .. Len(wire) : wire[i].type = "RESCAN_RESPONSE" =>
        /\ wire[i].sequence > highest_sequence_
        /\ \A j \in 1 .. i - 1 : wire[j].sequence < wire[i].sequence

Introduces(e, c) == e.id = c /\ e.type \in {"CONTEXT_CREATED", "RESCAN_RESPONSE"}

\* A live context is known, or an event that introduces it is on its way, or a
\* replay is due.
Covered ==
    \A c \in DOMAIN contexts_ :
        \/ link # "up" \/ rescan_requested_
        \/ c \in DOMAIN registry
        \/ \E e \in Flying : Introduces(e, c)

Pipe == wire \o outgoing

IsReplay(i, j) == \A n \in i .. j : Pipe[n].type = "RESCAN_RESPONSE"

\* The terminator at k does not make the registry forget c: its own replay
\* confirms c first, or has just done so, or c is not known before it.
Spares(k, c) ==
    \/ \E j \in 1 .. k - 1 : Pipe[j].id = c /\ IsReplay(j, k)
    \/ c \in DOMAIN registry /\ ~registry[c].stale /\ IsReplay(1, k)
    \/ c \notin DOMAIN registry /\ \A n \in 1 .. k : ~Introduces(Pipe[n], c)

TerminatorsSpare ==
    link = "up" =>
        \A k \in 1 .. Len(Pipe) : Terminator(Pipe[k]) =>
            \A c \in DOMAIN contexts_ : Spares(k, c)

Undropped == InOrder /\ ReplayNewer /\ Covered /\ TerminatorsSpare

CoverInv == NoLoss => Undropped

-----------------------------------------------------------------------------
(* Lemmas about sequences and maps *)

LEMMA AppendFacts ==
    ASSUME NEW S, NEW s \in Seq(S), NEW e \in S
    PROVE  /\ Append(s, e) \in Seq(S) /\ Len(Append(s, e)) = Len(s) + 1
           /\ Len(s) \in Nat /\ Append(s, e) # << >>
           /\ \A i \in 1 .. Len(s) : Append(s, e)[i] = s[i]
           /\ Append(s, e)[Len(s) + 1] = e
           /\ Range(Append(s, e)) = Range(s) \cup {e}
<1>1. /\ Append(s, e) \in Seq(S) /\ Len(Append(s, e)) = Len(s) + 1
      /\ Len(s) \in Nat /\ Append(s, e) # << >>
      /\ \A i \in 1 .. Len(s) : Append(s, e)[i] = s[i]
      /\ Append(s, e)[Len(s) + 1] = e
  OBVIOUS
<1>2. DOMAIN Append(s, e) = (1 .. Len(s)) \cup {Len(s) + 1} /\ DOMAIN s = 1 .. Len(s)
  BY <1>1
<1>3. Range(Append(s, e)) = Range(s) \cup {e}
  BY <1>1, <1>2 DEF Range
<1> QED BY <1>1, <1>3

LEMMA TailFacts ==
    ASSUME NEW S, NEW s \in Seq(S), s # << >>
    PROVE  /\ Tail(s) \in Seq(S) /\ Len(Tail(s)) = Len(s) - 1
           /\ Len(s) \in Nat /\ Len(s) >= 1
           /\ Head(s) = s[1] /\ Head(s) \in S
           /\ \A i \in 1 .. Len(s) - 1 : Tail(s)[i] = s[i + 1]
           /\ Range(s) = {Head(s)} \cup Range(Tail(s))
<1>1. /\ Tail(s) \in Seq(S) /\ Len(Tail(s)) = Len(s) - 1
      /\ Len(s) \in Nat /\ Len(s) >= 1
      /\ Head(s) = s[1] /\ Head(s) \in S
      /\ \A i \in 1 .. Len(s) - 1 : Tail(s)[i] = s[i + 1]
  OBVIOUS
<1>2. DOMAIN s = 1 .. Len(s) /\ DOMAIN Tail(s) = 1 .. Len(s) - 1
  BY <1>1
<1>3. \A x \in Range(s) : x = Head(s) \/ x \in Range(Tail(s))
  <2> SUFFICES ASSUME NEW i \in 1 .. Len(s), i # 1
               PROVE  s[i] \in Range(Tail(s))
    BY <1>1, <1>2 DEF Range
  <2>1. i - 1 \in 1 .. Len(s) - 1 /\ Tail(s)[i - 1] = s[i]
    BY <1>1
  <2> QED BY <2>1, <1>2 DEF Range
<1>4. Head(s) \in Range(s) /\ \A x \in Range(Tail(s)) : x \in Range(s)
  <2>1. 1 \in DOMAIN s /\ \A i \in DOMAIN Tail(s) : i + 1 \in DOMAIN s /\ s[i + 1] = Tail(s)[i]
    BY <1>1, <1>2
  <2> QED BY <2>1, <1>1 DEF Range
<1> QED BY <1>1, <1>3, <1>4

LEMMA EmptyFacts ==
    ASSUME NEW S
    PROVE  << >> \in Seq(S) /\ Len(<< >>) = 0 /\ Range(<< >>) = {}
BY DEF Range

LEMMA ConcatFacts ==
    ASSUME NEW S, NEW s \in Seq(S), NEW t \in Seq(S)
    PROVE  /\ s \o t \in Seq(S) /\ Len(s \o t) = Len(s) + Len(t)
           /\ Len(s) \in Nat /\ Len(t) \in Nat
           /\ \A i \in 1 .. Len(s) : (s \o t)[i] = s[i]
           /\ \A i \in 1 .. Len(t) : (s \o t)[Len(s) + i] = t[i]
OBVIOUS

LEMMA ConcatRange ==
    ASSUME NEW S, NEW s \in Seq(S), NEW t \in Seq(S)
    PROVE  Range(s \o t) = Range(s) \cup Range(t)
<1>1. /\ DOMAIN s = 1 .. Len(s) /\ DOMAIN t = 1 .. Len(t)
      /\ DOMAIN (s \o t) = 1 .. Len(s) + Len(t)
      /\ Len(s) \in Nat /\ Len(t) \in Nat
  BY ConcatFacts
<1>2. ASSUME NEW x \in Range(s \o t) PROVE x \in Range(s) \cup Range(t)
  <2>1. PICK i \in 1 .. Len(s) + Len(t) : x = (s \o t)[i]
    BY <1>1 DEF Range
  <2>2. CASE i <= Len(s)
    <3>1. i \in DOMAIN s /\ x = s[i]
      BY <1>1, <2>1, <2>2, ConcatFacts
    <3> QED BY <3>1 DEF Range
  <2>3. CASE i > Len(s)
    <3>1. i - Len(s) \in 1 .. Len(t) /\ Len(s) + (i - Len(s)) = i
      BY <1>1, <2>1, <2>3
    <3>2. x = t[i - Len(s)]
      BY <2>1, <3>1, ConcatFacts
    <3> QED BY <1>1, <3>1, <3>2 DEF Range
  <2> QED BY <1>1, <2>1, <2>2, <2>3
<1>3. ASSUME NEW x \in Range(s) PROVE x \in Range(s \o t)
  <2>1. PICK i \in 1 .. Len(s) : x = s[i]
    BY <1>1 DEF Range
  <2>2. i \in DOMAIN (s \o t) /\ x = (s \o t)[i]
    BY <1>1, <2>1, ConcatFacts
  <2> QED BY <2>2 DEF Range
<1>4. ASSUME NEW x \in Range(t) PROVE x \in Range(s \o t)
  <2>1. PICK i \in 1 .. Len(t) : x = t[i]
    BY <1>1 DEF Range
  <2>2. Len(s) + i \in DOMAIN (s \o t) /\ x = (s \o t)[Len(s) + i]
    BY <1>1, <2>1, ConcatFacts
  <2> QED BY <2>2 DEF Range
<1> QED BY <1>2, <1>3, <1>4

LEMMA RangeFacts ==
    ASSUME NEW S, NEW s \in Seq(S)
    PROVE  /\ \A i \in 1 .. Len(s) : s[i] \in Range(s) /\ s[i] \in S
           /\ \A x \in Range(s) : x \in S /\ \E i \in 1 .. Len(s) : x = s[i]
<1>1. DOMAIN s = 1 .. Len(s)
  OBVIOUS
<1> QED BY <1>1 DEF Range

LEMMA WithFacts ==
    ASSUME NEW map, NEW key, NEW entry, NEW S, map \in [DOMAIN map -> S], entry \in S
    PROVE  /\ DOMAIN With(map, key, entry) = DOMAIN map \cup {key}
           /\ With(map, key, entry) \in [DOMAIN With(map, key, entry) -> S]
           /\ With(map, key, entry)[key] = entry
           /\ \A k \in DOMAIN map : k # key => With(map, key, entry)[k] = map[k]
BY DEF With

\* A replay of all live contexts, in whatever order, names each of them.
LEMMA ReplayFacts ==
    ASSUME PublisherTyped, NEW ids \in SetToSeqs(DOMAIN contexts_)
    PROVE  /\ Replay(ids) \in Seq(Response) /\ Replay(ids) # << >>
           /\ \A e \in Range(Replay(ids)) :
                e.type = "RESCAN_RESPONSE" /\ e.id \in DOMAIN contexts_ \cup {0}
                /\ e.sequence = 0
           /\ \A c \in DOMAIN contexts_ :
                \E j \in 1 .. Len(Replay(ids)) - 1 : Replay(ids)[j].id = c
           /\ \A k \in 1 .. Len(Replay(ids)) : Terminator(Replay(ids)[k]) =>
                k = Len(Replay(ids))
<1> DEFINE S == DOMAIN contexts_
           n == Cardinality(S)
           responses == [i \in 1 .. Len(ids) |->
                            Event("RESCAN_RESPONSE", ids[i], contexts_[ids[i]])]
           last == Event("RESCAN_RESPONSE", 0, FALSE)
<1>1. IsFiniteSet(S) /\ n \in Nat
  <2>1. IsFiniteSet(1 .. next_context_instance_id_ - 1)
    <3>1. 1 \in Int /\ next_context_instance_id_ - 1 \in Int
      BY DEF PublisherTyped
    <3> QED BY <3>1, FS_Interval, Zenon
  <2>2. IsFiniteSet(S)
    BY <2>1, FS_Subset DEF PublisherTyped
  <2> QED BY <2>2, FS_CardinalityType
<1>2. ids \in [1 .. n -> S] /\ \A i, j \in 1 .. n : i # j => ids[i] # ids[j]
  BY DEF SetToSeqs
<1>3. ids \in Surjection(1 .. n, S)
  <2>1. ids \in Injection(1 .. n, S)
    BY <1>2 DEF Injection, IsInjective
  <2>2. IsFiniteSet(1 .. n) /\ Cardinality(1 .. n) = n
    BY <1>1, FS_Interval
  <2> QED BY <2>1, <2>2, <1>1, FS_Injection
<1>4. ids \in Seq(S) /\ Len(ids) = n
  BY <1>1, <1>2
<1>5. \A i \in 1 .. n : ids[i] \in S /\ ids[i] \in Nat \ {0} /\ contexts_[ids[i]] \in BOOLEAN
  BY <1>2 DEF PublisherTyped
<1>6. responses \in Seq(Response) /\ Len(responses) = n
  <2>1. \A i \in 1 .. n : Event("RESCAN_RESPONSE", ids[i], contexts_[ids[i]]) \in Response
    BY <1>5 DEF Event, Response
  <2>2. responses \in [1 .. n -> Response]
    BY <2>1, <1>4
  <2> HIDE DEF responses, n
  <2> QED BY <2>2, <1>1
<1>7. last \in Response
  BY DEF Event, Response
<1>8. Replay(ids) = Append(responses, last)
  BY DEF Replay
<1>9. \A i \in 1 .. n : responses[i] = Event("RESCAN_RESPONSE", ids[i], contexts_[ids[i]])
  BY <1>4
<1>10. last.type = "RESCAN_RESPONSE" /\ last.id = 0 /\ last.sequence = 0
  BY DEF Event
<1> HIDE DEF responses, last, n
<1>11. Len(Replay(ids)) = n + 1 /\ Replay(ids) \in Seq(Response) /\ Replay(ids) # << >>
  BY <1>6, <1>7, <1>8, AppendFacts
<1>12. \A i \in 1 .. n : Replay(ids)[i] = Event("RESCAN_RESPONSE", ids[i], contexts_[ids[i]])
  BY <1>6, <1>7, <1>8, <1>9, AppendFacts
<1>13. Replay(ids)[n + 1] = last
  BY <1>6, <1>7, <1>8, AppendFacts
<1>14. \A e \in Range(Replay(ids)) :
        e.type = "RESCAN_RESPONSE" /\ e.id \in S \cup {0} /\ e.sequence = 0
  <2> SUFFICES ASSUME NEW i \in 1 .. n + 1
               PROVE  LET e == Replay(ids)[i]
                      IN  e.type = "RESCAN_RESPONSE" /\ e.id \in S \cup {0} /\ e.sequence = 0
    BY <1>11, RangeFacts
  <2>1. CASE i = n + 1
    BY <2>1, <1>13, <1>10
  <2>2. CASE i \in 1 .. n
    <3>1. Replay(ids)[i] = Event("RESCAN_RESPONSE", ids[i], contexts_[ids[i]]) /\ ids[i] \in S
      BY <2>2, <1>12, <1>5
    <3> QED BY <3>1 DEF Event
  <2> QED BY <2>1, <2>2, <1>1
<1>15. \A c \in S : \E j \in 1 .. n : Replay(ids)[j].id = c
  <2> TAKE c \in S
  <2>1. PICK j \in 1 .. n : ids[j] = c
    BY <1>3 DEF Surjection
  <2>2. Replay(ids)[j] = Event("RESCAN_RESPONSE", ids[j], contexts_[ids[j]])
    BY <1>12
  <2> QED BY <2>1, <2>2 DEF Event
<1>16. \A k \in 1 .. n + 1 : Terminator(Replay(ids)[k]) => k = n + 1
  <2> SUFFICES ASSUME NEW k \in 1 .. n PROVE Replay(ids)[k].id # 0
    BY <1>1 DEF Terminator
  <2>1. Replay(ids)[k] = Event("RESCAN_RESPONSE", ids[k], contexts_[ids[k]]) /\ ids[k] # 0
    BY <1>12, <1>5
  <2> QED BY <2>1 DEF Event
<1> QED BY <1>11, <1>14, <1>15, <1>16, <1>1

-----------------------------------------------------------------------------
(* Types *)

LEMMA TypeInit == Init => TypeInv
<1> SUFFICES ASSUME Init PROVE TypeInv
  OBVIOUS
<1>1. PublisherTyped
  <2>1. DOMAIN contexts_ = {} /\ contexts_ \in [DOMAIN contexts_ -> BOOLEAN]
    BY DEF Init
  <2> QED BY <2>1 DEF Init, PublisherTyped
<1>2. BridgeTyped
  <2>1. rescan_requested_ \in BOOLEAN
    BY Zenon DEF Init
  <2> QED BY <2>1, EmptyFacts DEF Init, BridgeTyped
<1>3. SocketTyped
  BY EmptyFacts DEF Init, SocketTyped
<1>4. RegistryTyped
  <2>1. DOMAIN registry = {} /\ registry \in [DOMAIN registry -> Entry]
    BY DEF Init
  <2> QED BY <2>1 DEF Init, RegistryTyped
<1>5. HistoryTyped
  BY DEF Init, HistoryTyped
<1> QED BY <1>1, <1>2, <1>3, <1>4, <1>5 DEF TypeInv

\* What a thread of AudioFlinger makes.
LEMMA MadeTyped ==
    ASSUME PublisherTyped, NEW t \in Thread, NEW e \in Lifecycle,
           made' = [made EXCEPT ![t] = e]
    PROVE  made' \in [Thread -> Lifecycle \cup {NoEvent}]
BY DEF PublisherTyped

LEMMA PublisherType == TypeInv /\ [Next]_vars => PublisherTyped'
<1> SUFFICES ASSUME TypeInv, [Next]_vars PROVE PublisherTyped'
  OBVIOUS
<1> USE DEF TypeInv
<1>1. ASSUME NEW t \in Thread, RegisterContext(t) PROVE PublisherTyped'
  <2> DEFINE c == next_context_instance_id_
  <2>1. contexts_' = With(contexts_, c, FALSE) /\ next_context_instance_id_' = c + 1
        /\ made' = [made EXCEPT ![t] = Event("CONTEXT_CREATED", c, FALSE)]
    BY <1>1 DEF RegisterContext, Made
  <2>2. /\ contexts_' \in [DOMAIN contexts_' -> BOOLEAN]
        /\ DOMAIN contexts_' = DOMAIN contexts_ \cup {c}
    <3>1. contexts_ \in [DOMAIN contexts_ -> BOOLEAN] /\ FALSE \in BOOLEAN
      BY DEF PublisherTyped
    <3> HIDE DEF c
    <3> QED BY <2>1, <3>1, WithFacts
  <2>3. Event("CONTEXT_CREATED", c, FALSE) \in Lifecycle
    BY DEF PublisherTyped, Event, Lifecycle, LifecycleType
  <2>4. made' \in [Thread -> Lifecycle \cup {NoEvent}]
    BY <2>1, <2>3, MadeTyped
  <2>5. next_context_instance_id_' \in Nat \ {0}
        /\ DOMAIN contexts_' \subseteq 1 .. next_context_instance_id_' - 1
    <3>1. next_context_instance_id_ \in Nat \ {0}
          /\ DOMAIN contexts_ \subseteq 1 .. next_context_instance_id_ - 1
      BY DEF PublisherTyped
    <3>2. next_context_instance_id_' = next_context_instance_id_ + 1
      BY <2>1
    <3> QED BY <2>2, <3>1, <3>2
  <2> QED BY <2>2, <2>4, <2>5 DEF PublisherTyped
<1>2. ASSUME NEW t \in Thread, NEW c \in DOMAIN contexts_,
             PublishConfigured(t, c) \/ PublishTelemetry(t, c)
      PROVE  PublisherTyped'
  <2>1. UNCHANGED <<contexts_, next_context_instance_id_>>
    BY <1>2 DEF PublishConfigured, PublishTelemetry
  <2>2. PICK e \in Lifecycle : made' = [made EXCEPT ![t] = e]
    <3>1. \A type \in LifecycleType : Event(type, c, contexts_[c]) \in Lifecycle
      BY DEF PublisherTyped, Event, Lifecycle
    <3> QED BY <1>2, <3>1 DEF PublishConfigured, PublishTelemetry, Made, LifecycleType
  <2> QED BY <2>1, <2>2, MadeTyped DEF PublisherTyped
<1>3. ASSUME NEW t \in Thread, NEW c \in DOMAIN contexts_, NEW enabled \in BOOLEAN,
             PublishEnabled(t, c, enabled)
      PROVE  PublisherTyped'
  <2>1. contexts_' = [contexts_ EXCEPT ![c] = enabled] /\ UNCHANGED next_context_instance_id_
    BY <1>3 DEF PublishEnabled
  <2>2. PICK e \in Lifecycle : made' = [made EXCEPT ![t] = e]
    <3>1. \A type \in LifecycleType : Event(type, c, enabled) \in Lifecycle
      BY DEF PublisherTyped, Event, Lifecycle
    <3>2. \E type \in LifecycleType : made' = [made EXCEPT ![t] = Event(type, c, enabled)]
      BY <1>3 DEF PublishEnabled, Made, LifecycleType
    <3> QED BY <3>1, <3>2
  <2> QED BY <2>1, <2>2, MadeTyped DEF PublisherTyped
<1>4. ASSUME NEW t \in Thread, NEW c \in DOMAIN contexts_, UnregisterContext(t, c)
      PROVE  PublisherTyped'
  <2>1. contexts_' = Restrict(contexts_, DOMAIN contexts_ \ {c})
        /\ UNCHANGED next_context_instance_id_
        /\ made' = [made EXCEPT ![t] = Event("CONTEXT_RELEASED", c, FALSE)]
    BY <1>4 DEF UnregisterContext, Made
  <2>2. Event("CONTEXT_RELEASED", c, FALSE) \in Lifecycle
    BY DEF PublisherTyped, Event, Lifecycle, LifecycleType
  <2>3. made' \in [Thread -> Lifecycle \cup {NoEvent}]
    BY <2>1, <2>2, MadeTyped
  <2> QED BY <2>1, <2>3 DEF PublisherTyped, Restrict
<1>5. ASSUME NEW t \in Thread, Stamp(t) PROVE PublisherTyped'
  <2>1. made' = [made EXCEPT ![t] = Stamped(made[t])] /\ made[t] \in Lifecycle
        /\ UNCHANGED <<contexts_, next_context_instance_id_>>
    BY <1>5 DEF Stamp, PublisherTyped
  <2>2. Stamped(made[t]) \in Lifecycle
    BY <2>1 DEF Stamped, Lifecycle, BridgeTyped
  <2> QED BY <2>1, <2>2, MadeTyped DEF PublisherTyped
<1>6. ASSUME NEW t \in Thread, Enqueue(t) PROVE PublisherTyped'
  BY <1>6 DEF Enqueue, PublisherTyped
<1>7. CASE DriverRestart
  <2>1. DOMAIN contexts_' = {} /\ contexts_' \in [DOMAIN contexts_' -> BOOLEAN]
    BY <1>7 DEF DriverRestart
  <2> QED BY <1>7, <2>1 DEF DriverRestart, PublisherTyped
<1>8. CASE RunBridgeThread \/ Poll \/ SendSnapshotCommand \/ DaemonRestart
  <2>1. UNCHANGED publisher
    BY <1>8 DEF RunBridgeThread, Poll, SendSnapshotCommand, DaemonRestart, EnsureConnected,
         HandleRescan, SendReplayed, SendQueued, SendQueuedFails, PutBack, ReceiveRescan,
         ReceiveSnapshot, HangUp, ReceiveCommit
  <2> QED BY <2>1 DEF publisher, PublisherTyped
<1>9. CASE UNCHANGED vars
  BY <1>9 DEF vars, publisher, PublisherTyped
<1> QED BY <1>1, <1>2, <1>3, <1>4, <1>5, <1>6, <1>7, <1>8, <1>9 DEF Next, Publish

\* Lifecycle commands touch neither the bridge's thread nor the connection.
Commands ==
    \E t \in Thread :
        \/ RegisterContext(t)
        \/ \E c \in DOMAIN contexts_ :
            \/ PublishConfigured(t, c) \/ PublishTelemetry(t, c)
            \/ UnregisterContext(t, c)
            \/ \E enabled \in BOOLEAN : PublishEnabled(t, c, enabled)

LEMMA CommandsFrame ==
    Commands => /\ UNCHANGED <<numbers, queue_, thread, wire, commands, daemon, history>>
                /\ spent' = [spent EXCEPT !.publications = @ + 1]
BY DEF Commands, RegisterContext, PublishConfigured, PublishTelemetry, UnregisterContext,
       PublishEnabled, Made

\* Next with Publish taken apart.
LEMMA NextCases ==
    [Next]_vars <=> \/ Commands
                    \/ \E t \in Thread : Stamp(t) \/ Enqueue(t)
                    \/ RunBridgeThread \/ Poll \/ SendSnapshotCommand
                    \/ DaemonRestart \/ DriverRestart
                    \/ UNCHANGED vars
BY DEF Next, Publish, Commands

LEMMA QueuedFacts ==
    ASSUME TypeInv
    PROVE  /\ \A t \in Thread : made[t] # NoEvent /\ made[t].sequence # 0 => made[t] \in Queued
           /\ Queued \subseteq Frame
<1>1. \A e \in Lifecycle : e \in DriverEvent
  BY DEF Lifecycle, DriverEvent, EventType
<1> QED BY <1>1 DEF TypeInv, PublisherTyped, Queued, Frame, Lifecycle

LEMMA BridgeType == TypeInv /\ [Next]_vars => BridgeTyped'
<1> SUFFICES ASSUME TypeInv, [Next]_vars PROVE BridgeTyped'
  OBVIOUS
<1> USE DEF TypeInv
<1>1. ASSUME NEW t \in Thread, Stamp(t) PROVE BridgeTyped'
  BY <1>1 DEF Stamp, BridgeTyped, thread
<1>2. ASSUME NEW t \in Thread, Enqueue(t) PROVE BridgeTyped'
  <2>1. queue_' \in Seq(Queued) /\ Len(queue_') <= QueueCapacity /\ dropped_events_' \in {0, 1}
    <3>1. made[t] \in Queued
      BY <1>2, QueuedFacts DEF Enqueue
    <3>2. \/ /\ queue_' = Append(queue_, made[t]) /\ Len(queue_) < QueueCapacity
             /\ UNCHANGED dropped_events_
          \/ UNCHANGED queue_ /\ dropped_events_' = 1
      BY <1>2 DEF Enqueue
    <3> QED BY <3>1, <3>2, AppendFacts DEF BridgeTyped
  <2> QED BY <1>2, <2>1 DEF Enqueue, BridgeTyped, thread
<1>3. CASE EnsureConnected
  <2>1. rescan_requested_' \in BOOLEAN
    BY <1>3, Zenon DEF EnsureConnected
  <2> QED BY <1>3, <2>1 DEF EnsureConnected, BridgeTyped
<1>4. CASE HandleRescan
  <2>1. rescan_requested_' \in BOOLEAN
    BY <1>4, Zenon DEF HandleRescan
  <2>2. outgoing' \in Seq(Response) /\ outgoing' # << >>
    BY <1>4, ReplayFacts DEF HandleRescan
  <2> QED BY <1>4, <2>1, <2>2 DEF HandleRescan, BridgeTyped, numbers
<1>5. CASE SendReplayed
  <2>1. outgoing \in Seq(Response) /\ outgoing # << >> /\ bridge = "replay"
    BY <1>5 DEF SendReplayed, BridgeTyped
  <2>2. next_sequence_' = next_sequence_ + 1 /\ UNCHANGED <<queue_, rescan_requested_>>
        /\ dropped_events_' \in {0, 1}
    BY <1>5 DEF SendReplayed, Send, CloseConnection, BridgeTyped
  <2>3. CASE link = "up"
    <3>1. outgoing' = Tail(outgoing) /\ UNCHANGED link
          /\ bridge' = (IF Len(outgoing) = 1 THEN "idle" ELSE "replay")
      BY <1>5, <2>3 DEF SendReplayed
    <3>2. outgoing' \in Seq(Response) /\ Len(outgoing') = Len(outgoing) - 1 /\ Len(outgoing) \in Nat
      BY <2>1, <3>1, TailFacts
    <3>3. Len(outgoing) = 1 <=> outgoing' = << >>
      <4>1. Len(outgoing') = 0 <=> outgoing' = << >>
        BY <3>2
      <4> QED BY <3>2, <4>1
    <3> QED BY <2>2, <2>3, <3>1, <3>2, <3>3 DEF BridgeTyped
  <2>4. CASE link = "dead"
    <3>1. link' = "down" /\ outgoing' = << >> /\ bridge' = "idle"
      BY <1>5, <2>4 DEF SendReplayed, CloseConnection
    <3> QED BY <2>2, <3>1 DEF BridgeTyped
  <2> QED BY <1>5, <2>3, <2>4 DEF SendReplayed
<1>6. CASE SendQueued
  <2>1. queue_' \in Seq(Queued) /\ Len(queue_') <= QueueCapacity
    BY <1>6, TailFacts DEF SendQueued, Draining, BridgeTyped
  <2>2. dropped_events_' \in {0, 1}
    BY <1>6 DEF SendQueued, Send, BridgeTyped
  <2> QED BY <1>6, <2>1, <2>2 DEF SendQueued, BridgeTyped, thread
<1>7. CASE SendQueuedFails
  <2>1. queue_' \in Seq(Queued) /\ Len(queue_') <= QueueCapacity /\ Head(queue_) \in Queued
    BY <1>7, TailFacts DEF SendQueuedFails, Draining, BridgeTyped
  <2>2. <<Head(queue_)>> \in Seq(Queued) /\ Len(<<Head(queue_)>>) = 1
    BY <2>1
  <2> QED BY <1>7, <2>1, <2>2 DEF SendQueuedFails, BridgeTyped, numbers
<1>8. CASE PutBack
  <2>1. queue_' \in Seq(Queued) /\ Len(queue_') <= QueueCapacity /\ dropped_events_' \in {0, 1}
    <3>1. \/ /\ queue_' = outgoing \o queue_ /\ Len(queue_) < QueueCapacity
             /\ UNCHANGED dropped_events_
          \/ UNCHANGED queue_ /\ dropped_events_' = 1
      BY <1>8 DEF PutBack
    <3>2. outgoing \in Seq(Queued) /\ Len(outgoing) = 1
      BY <1>8 DEF PutBack, BridgeTyped
    <3>3. /\ outgoing \o queue_ \in Seq(Queued) /\ Len(outgoing \o queue_) = 1 + Len(queue_)
          /\ Len(queue_) \in Nat
      <4>1. queue_ \in Seq(Queued)
        BY DEF BridgeTyped
      <4>2. /\ outgoing \o queue_ \in Seq(Queued) /\ Len(queue_) \in Nat
            /\ Len(outgoing \o queue_) = Len(outgoing) + Len(queue_)
        BY <3>2, <4>1, ConcatFacts, Zenon
      <4> QED BY <3>2, <4>2
    <3> HIDE DEF TypeInv
    <3>4. CASE UNCHANGED queue_ /\ dropped_events_' = 1
      BY <3>4 DEF BridgeTyped, TypeInv
    <3>5. CASE queue_' = outgoing \o queue_ /\ Len(queue_) < QueueCapacity
               /\ UNCHANGED dropped_events_
      <4>1. dropped_events_ \in {0, 1}
        BY DEF BridgeTyped, TypeInv
      <4> QED BY <3>3, <3>5, <4>1
    <3> QED BY <3>1, <3>4, <3>5
  <2> QED BY <1>8, <2>1 DEF PutBack, CloseConnection, BridgeTyped
<1>9. CASE ReceiveRescan \/ ReceiveSnapshot
  <2>1. rescan_requested_' \in BOOLEAN
    BY <1>9, Zenon DEF ReceiveRescan, ReceiveSnapshot, BridgeTyped
  <2>2. next_sequence_' \in Nat \ {0} /\ dropped_events_' \in {0, 1}
    <3>1. \/ UNCHANGED <<next_sequence_, dropped_events_>>
          \/ /\ next_sequence_' = next_sequence_ + 1
             /\ dropped_events_' = 1 \/ UNCHANGED dropped_events_
      BY <1>9 DEF ReceiveRescan, ReceiveSnapshot, numbers, Send
    <3> QED BY <3>1 DEF BridgeTyped
  <2> QED BY <1>9, <2>1, <2>2 DEF ReceiveRescan, ReceiveSnapshot, Receives, BridgeTyped
<1>10. ASSUME NEW c \in DOMAIN contexts_, ReceiveCommit(c) PROVE BridgeTyped'
  <2>1. next_sequence_' = next_sequence_ + 2 /\ dropped_events_' \in {0, 1}
    BY <1>10 DEF ReceiveCommit, BridgeTyped
  <2>2. queue_' \in Seq(Queued) /\ Len(queue_') <= QueueCapacity
    <3>1. Stamped(Event("TELEMETRY", c, contexts_[c])) \in Queued
      <4>1. c \in Nat \ {0} /\ contexts_[c] \in BOOLEAN /\ next_sequence_ \in Nat \ {0}
        BY DEF PublisherTyped, BridgeTyped
      <4>2. Stamped(Event("TELEMETRY", c, contexts_[c]))
                = [type |-> "TELEMETRY", id |-> c, enabled |-> contexts_[c],
                   sequence |-> next_sequence_]
        BY DEF Stamped, Event
      <4> QED BY <4>1, <4>2 DEF Queued, Lifecycle, LifecycleType
    <3>2. UNCHANGED queue_
          \/ /\ queue_' = Append(queue_, Stamped(Event("TELEMETRY", c, contexts_[c])))
             /\ Len(queue_) < QueueCapacity
      BY <1>10 DEF ReceiveCommit
    <3> QED BY <3>1, <3>2, AppendFacts DEF BridgeTyped
  <2>3. UNCHANGED <<rescan_requested_, outgoing, link, bridge>>
    BY <1>10 DEF ReceiveCommit, Receives
  <2> QED BY <2>1, <2>2, <2>3 DEF BridgeTyped
<1>11. CASE HangUp
  BY <1>11 DEF HangUp, CloseConnection, BridgeTyped, numbers
<1>12. CASE DaemonRestart
  BY <1>12 DEF DaemonRestart, BridgeTyped, numbers
<1>13. CASE DriverRestart
  <2>1. rescan_requested_' \in BOOLEAN
    BY <1>13, Zenon DEF DriverRestart
  <2> QED BY <1>13, <2>1, EmptyFacts DEF DriverRestart, BridgeTyped
<1>14. CASE Commands \/ Poll \/ SendSnapshotCommand \/ UNCHANGED vars
  <2>1. UNCHANGED <<numbers, queue_, thread>>
    BY <1>14, CommandsFrame DEF Poll, SendSnapshotCommand, vars
  <2> QED BY <2>1 DEF numbers, thread, BridgeTyped
<1> QED BY <1>1, <1>2, <1>3, <1>4, <1>5, <1>6, <1>7, <1>8, <1>9, <1>10, <1>11, <1>12, <1>13,
           <1>14, NextCases DEF RunBridgeThread

LEMMA FrameFacts ==
    ASSUME TypeInv
    PROVE  /\ Stamped(Event("DRIVER_HELLO", 0, FALSE)) \in Frame
           /\ Stamped(Event("ANSWER", 0, FALSE)) \in Frame
           /\ [Event("ANSWER", 0, FALSE) EXCEPT !.sequence = next_sequence_ + 1] \in Frame
           /\ \A e \in Response : Stamped(e) \in Frame
<1>1. next_sequence_ \in Nat \ {0}
  BY DEF TypeInv, BridgeTyped
<1>2. ASSUME NEW n \in Nat \ {0}, NEW kind \in {"DRIVER_HELLO", "ANSWER"},
             NEW b \in BOOLEAN
      PROVE  [Event(kind, 0, b) EXCEPT !.sequence = n] \in Frame
  <2>1. [Event(kind, 0, b) EXCEPT !.sequence = n]
            = [type |-> kind, id |-> 0, enabled |-> b, sequence |-> n]
    BY DEF Event
  <2>2. [type |-> kind, id |-> 0, enabled |-> b, sequence |-> n] \in Frame
    BY DEF Frame, DriverEvent, EventType, LifecycleType
  <2> QED BY <2>1, <2>2
<1>3. ASSUME NEW e \in Response PROVE Stamped(e) \in Frame
  <2>1. e = [type |-> "RESCAN_RESPONSE", id |-> e.id, enabled |-> e.enabled,
             sequence |-> e.sequence] /\ e.id \in Nat /\ e.enabled \in BOOLEAN
    BY DEF Response
  <2>2. Stamped(e) = [type |-> "RESCAN_RESPONSE", id |-> e.id, enabled |-> e.enabled,
                      sequence |-> next_sequence_]
    BY <2>1 DEF Stamped
  <2> HIDE DEF Stamped
  <2> QED BY <1>1, <2>1, <2>2 DEF Frame, DriverEvent, EventType, LifecycleType
<1>4. next_sequence_ + 1 \in Nat \ {0}
  BY <1>1
<1>5. FALSE \in BOOLEAN /\ "ANSWER" \in {"DRIVER_HELLO", "ANSWER"}
      /\ "DRIVER_HELLO" \in {"DRIVER_HELLO", "ANSWER"}
  OBVIOUS
<1> QED BY <1>1, <1>2, <1>3, <1>4, <1>5, Zenon DEF Stamped

LEMMA SendFacts ==
    ASSUME SocketTyped, NEW e \in Frame, Send(e)
    PROVE  /\ wire' \in Seq(Frame) /\ Len(wire') <= SocketCapacity
           /\ \/ wire' = Append(wire, e) /\ UNCHANGED dropped_events_
              \/ dropped_events_' = 1 /\ UNCHANGED wire
<1>1. \/ wire' = Append(wire, e) /\ UNCHANGED dropped_events_ /\ Len(wire) < SocketCapacity
      \/ dropped_events_' = 1 /\ UNCHANGED wire
  BY DEF Send
<1>2. wire \in Seq(Frame) /\ Len(wire) <= SocketCapacity
  BY DEF SocketTyped
<1>3. Append(wire, e) \in Seq(Frame) /\ Len(Append(wire, e)) = Len(wire) + 1 /\ Len(wire) \in Nat
  BY <1>2, AppendFacts, Zenon
<1>4. Len(wire) < SocketCapacity => Len(wire) + 1 <= SocketCapacity
  BY <1>3
<1> QED BY <1>1, <1>2, <1>3, <1>4, Zenon

LEMMA CommandFacts ==
    ASSUME SocketTyped, Len(commands) < SocketCapacity, NEW command \in {"rescan", "snapshot"}
    PROVE  LET after == Append(commands, command)
           IN  after \in Seq({"rescan", "snapshot"}) /\ Len(after) <= SocketCapacity
BY AppendFacts DEF SocketTyped

LEMMA SocketType == TypeInv /\ [Next]_vars => SocketTyped'
<1> SUFFICES ASSUME TypeInv, [Next]_vars PROVE SocketTyped'
  OBVIOUS
<1> USE DEF TypeInv
<1> DEFINE C == commands' \in Seq({"rescan", "snapshot"}) /\ Len(commands') <= SocketCapacity
           W == wire' \in Seq(Frame) /\ Len(wire') <= SocketCapacity
<1>0. C /\ W => SocketTyped'
  BY DEF SocketTyped
<1>1. UNCHANGED commands => C
  BY DEF SocketTyped
<1>2. UNCHANGED wire => W
  BY DEF SocketTyped
<1>3. commands' = << >> => C
  BY EmptyFacts
<1>4. wire' = << >> => W
  BY EmptyFacts
<1>5. ASSUME NEW e \in Frame, Send(e) PROVE W
  BY <1>5, SendFacts
<1>6. CASE EnsureConnected
  <2>1. wire' = <<Stamped(Event("DRIVER_HELLO", 0, FALSE))>> /\ commands' = << >>
    BY <1>6 DEF EnsureConnected
  <2>2. \A e \in Frame : <<e>> \in Seq(Frame) /\ Len(<<e>>) = 1
    OBVIOUS
  <2>3. wire' \in Seq(Frame) /\ Len(wire') = 1
    BY <2>1, <2>2, FrameFacts, Zenon
  <2>4. W
    BY <2>3
  <2>5. C
    BY <2>1, <1>3
  <2> QED BY <1>0, <2>4, <2>5
<1>7. CASE SendReplayed
  <2>1. Stamped(Head(outgoing)) \in Frame
    BY <1>7, TailFacts, FrameFacts DEF SendReplayed, BridgeTyped
  <2>2. Send(Stamped(Head(outgoing))) \/ UNCHANGED wire
    BY <1>7 DEF SendReplayed, CloseConnection
  <2>3. UNCHANGED commands
    BY <1>7 DEF SendReplayed
  <2> HIDE DEF C, W
  <2> QED BY <1>0, <1>1, <1>2, <1>5, <2>1, <2>2, <2>3
<1>8. CASE SendQueued
  <2>1. Head(queue_) \in Frame
    BY <1>8, TailFacts, QueuedFacts DEF SendQueued, Draining, BridgeTyped
  <2>2. Send(Head(queue_)) /\ UNCHANGED commands
    BY <1>8 DEF SendQueued
  <2> HIDE DEF C, W
  <2> QED BY <1>0, <1>1, <1>5, <2>1, <2>2
<1>9. ASSUME NEW command, Receives(command) PROVE C
  <2>1. commands # << >> /\ commands' = Tail(commands)
    BY <1>9 DEF Receives
  <2> QED BY <2>1, TailFacts DEF SocketTyped
<1>10. CASE ReceiveRescan \/ ReceiveSnapshot
  <2>1. C
    BY <1>9, <1>10 DEF ReceiveRescan, ReceiveSnapshot
  <2>2. UNCHANGED wire \/ Send(Stamped(Event("ANSWER", 0, FALSE)))
    BY <1>10 DEF ReceiveRescan, ReceiveSnapshot
  <2> HIDE DEF C, W
  <2> QED BY <1>0, <1>2, <1>5, <2>1, <2>2, FrameFacts
<1>11. ASSUME NEW c \in DOMAIN contexts_, ReceiveCommit(c) PROVE SocketTyped'
  <2>1. C
    BY <1>9, <1>11 DEF ReceiveCommit
  <2> DEFINE answer == [Event("ANSWER", 0, FALSE) EXCEPT !.sequence = next_sequence_ + 1]
  <2>2. UNCHANGED wire \/ (wire' = Append(wire, answer) /\ Len(wire) < SocketCapacity)
    BY <1>11 DEF ReceiveCommit
  <2>3. answer \in Frame
    BY FrameFacts
  <2> HIDE DEF answer
  <2>4. W
    BY <2>2, <2>3, <1>2, AppendFacts DEF SocketTyped
  <2> QED BY <1>0, <2>1, <2>4
<1>12. CASE Poll
  <2>1. W
    BY <1>12, TailFacts DEF Poll, SocketTyped
  <2>2. UNCHANGED commands \/ RequestRescan
    BY <1>12 DEF Poll
  <2>3. RequestRescan => UNCHANGED commands \/ (commands' = Append(commands, "rescan")
                                               /\ Len(commands) < SocketCapacity)
    BY DEF RequestRescan
  <2>4. C
    BY <2>2, <2>3, <1>1, CommandFacts
  <2> QED BY <1>0, <2>1, <2>4
<1>13. CASE SendSnapshotCommand
  <2>1. C
    BY <1>13, CommandFacts DEF SendSnapshotCommand
  <2>2. W
    BY <1>13, <1>2 DEF SendSnapshotCommand
  <2> QED BY <1>0, <2>1, <2>2
<1>14. CASE DaemonRestart \/ DriverRestart
  <2> HIDE DEF C, W
  <2> QED BY <1>0, <1>14, <1>2, <1>3, <1>4 DEF DaemonRestart, DriverRestart
<1>15. CASE \/ Commands \/ HandleRescan \/ SendQueuedFails \/ PutBack \/ HangUp
            \/ UNCHANGED vars \/ \E t \in Thread : Stamp(t) \/ Enqueue(t)
  <2>1. UNCHANGED <<wire, commands>>
    BY <1>15, CommandsFrame DEF HandleRescan, SendQueuedFails, PutBack, HangUp, vars, Stamp,
         Enqueue, CloseConnection
  <2> QED BY <2>1 DEF SocketTyped
<1> QED BY <1>6, <1>7, <1>8, <1>10, <1>11, <1>12, <1>13, <1>14, <1>15, NextCases
        DEF RunBridgeThread

\* What Apply makes of an event of a context that it neither ignores nor drops.
LEMMA ObservedFacts ==
    ASSUME RegistryTyped, NEW e \in Frame, ~Ignored(e), ~Terminator(e)
    PROVE  /\ e.id \in Nat \ {0}
           /\ Observed(e) \in [DOMAIN Observed(e) -> Entry]
           /\ e.type = "CONTEXT_RELEASED" => DOMAIN Observed(e) = DOMAIN registry \ {e.id}
           /\ e.type # "CONTEXT_RELEASED" =>
                /\ DOMAIN Observed(e) = DOMAIN registry \cup {e.id}
                /\ Observed(e)[e.id].last_sequence = e.sequence
                /\ Observed(e)[e.id].state = StateAfter(e)
                /\ Observed(e)[e.id].stale = StaleAfter(e)
           /\ \A c \in DOMAIN registry \ {e.id} : Observed(e)[c] = registry[c]
<1>1. e \in DriverEvent /\ e.sequence \in Nat \ {0} /\ e.id \in Nat
      /\ e.type \in LifecycleType \cup {"RESCAN_RESPONSE"}
      /\ (e.type \in LifecycleType => e.id # 0)
  BY DEF Frame, DriverEvent, EventType, Ignored
<1>2. e.id # 0
  BY <1>1 DEF Terminator, LifecycleType
<1>3. e.type \notin {"CONTEXT_CREATED", "RESCAN_RESPONSE"} => e.id \in DOMAIN registry
  BY <1>2 DEF Ignored, Known
<1>4. registry \in [DOMAIN registry -> Entry]
  BY DEF RegistryTyped
<1>5. CASE e.type = "CONTEXT_RELEASED"
  <2>1. Observed(e) = Restrict(registry, DOMAIN registry \ {e.id})
    BY <1>5 DEF Observed
  <2> QED BY <1>1, <1>2, <1>4, <1>5, <2>1 DEF Restrict
<1>6. CASE e.type # "CONTEXT_RELEASED"
  <2> DEFINE entry == [state |-> StateAfter(e), last_sequence |-> e.sequence,
                       stale |-> StaleAfter(e)]
  <2>1. Observed(e) = With(registry, e.id, entry)
    BY <1>6 DEF Observed
  <2>2. StateAfter(e) \in States
    <3>1. e.id \in DOMAIN registry => registry[e.id].state \in States
      BY <1>4 DEF Entry
    <3>2. CASE e.type = "TELEMETRY"
      BY <1>3, <3>1, <3>2 DEF StateAfter
    <3>3. CASE e.type # "TELEMETRY"
      BY <1>1, <1>6, <3>3 DEF StateAfter, LifecycleType, States
    <3> QED BY <3>2, <3>3
  <2>3. StaleAfter(e) \in BOOLEAN
    BY DEF StaleAfter, Known
  <2>4. entry \in Entry
    <3> HIDE DEF entry
    <3>1. entry = [state |-> StateAfter(e), last_sequence |-> e.sequence,
                   stale |-> StaleAfter(e)]
      BY DEF entry
    <3> QED BY <1>1, <2>2, <2>3, <3>1 DEF Entry
  <2>5. /\ entry.last_sequence = e.sequence /\ entry.stale = StaleAfter(e)
        /\ entry.state = StateAfter(e)
    OBVIOUS
  <2> HIDE DEF entry
  <2>6. /\ DOMAIN Observed(e) = DOMAIN registry \cup {e.id}
        /\ Observed(e) \in [DOMAIN Observed(e) -> Entry] /\ Observed(e)[e.id] = entry
        /\ \A k \in DOMAIN registry : k # e.id => Observed(e)[k] = registry[k]
    <3>1. Observed(e) = [k \in DOMAIN registry \cup {e.id} |->
                            IF k = e.id THEN entry ELSE registry[k]]
      BY <2>1 DEF With
    <3> QED BY <1>4, <2>4, <3>1
  <2>7. e.id \in Nat \ {0}
    BY <1>1, <1>2
  <2> QED BY <1>6, <2>5, <2>6, <2>7, Zenon
<1> QED BY <1>5, <1>6

\* Both ways to rewrite the entries keep their types and never move a number.
LEMMA EntriesFacts ==
    ASSUME NEW entries, NEW n \in Nat, entries \in [DOMAIN entries -> Entry]
    PROVE  /\ Reconciled(entries, n) \in [DOMAIN Reconciled(entries, n) -> Entry]
           /\ DOMAIN Reconciled(entries, n) \subseteq DOMAIN entries
           /\ \A c \in DOMAIN Reconciled(entries, n) :
                /\ Reconciled(entries, n)[c].last_sequence = entries[c].last_sequence
                /\ Reconciled(entries, n)[c].state = entries[c].state
           /\ \A c \in DOMAIN entries : ~entries[c].stale =>
                c \in DOMAIN Reconciled(entries, n) /\ ~Reconciled(entries, n)[c].stale
           /\ MarkedStale(entries, n) \in [DOMAIN MarkedStale(entries, n) -> Entry]
           /\ DOMAIN MarkedStale(entries, n) = DOMAIN entries
           /\ \A c \in DOMAIN entries :
                /\ MarkedStale(entries, n)[c].last_sequence = entries[c].last_sequence
                /\ MarkedStale(entries, n)[c].state = entries[c].state
<1>1. \A c \in DOMAIN entries :
        /\ entries[c] \in Entry
        /\ entries[c] = [state |-> entries[c].state, last_sequence |-> entries[c].last_sequence,
                         stale |-> entries[c].stale]
        /\ entries[c].state \in States /\ entries[c].last_sequence \in Nat
        /\ entries[c].stale \in BOOLEAN
  BY DEF Entry
<1>2. \A c \in DOMAIN entries : \A b \in BOOLEAN :
        LET e == [entries[c] EXCEPT !.stale = b]
        IN  /\ e \in Entry /\ e.last_sequence = entries[c].last_sequence /\ e.stale = b
            /\ e.state = entries[c].state
  BY <1>1 DEF Entry
<1>3. /\ DOMAIN Reconciled(entries, n) \subseteq DOMAIN entries
      /\ \A c \in DOMAIN Reconciled(entries, n) :
            Reconciled(entries, n)[c] = [entries[c] EXCEPT !.stale = FALSE]
      /\ \A c \in DOMAIN entries : ~entries[c].stale => c \in DOMAIN Reconciled(entries, n)
  BY DEF Reconciled
<1>4. Reconciled(entries, n) = [c \in DOMAIN Reconciled(entries, n) |-> Reconciled(entries, n)[c]]
  BY DEF Reconciled
<1>5. \A c \in DOMAIN Reconciled(entries, n) :
        /\ Reconciled(entries, n)[c] \in Entry
        /\ Reconciled(entries, n)[c].last_sequence = entries[c].last_sequence
        /\ Reconciled(entries, n)[c].state = entries[c].state
        /\ Reconciled(entries, n)[c].stale = FALSE
  <2> TAKE c \in DOMAIN Reconciled(entries, n)
  <2>1. c \in DOMAIN entries /\ FALSE \in BOOLEAN
    BY <1>3
  <2> QED BY <1>2, <1>3, <2>1, Zenon
<1>6. MarkedStale(entries, n) =
        [c \in DOMAIN entries |->
            [entries[c] EXCEPT !.stale = entries[c].stale \/ entries[c].last_sequence <= n]]
  BY DEF MarkedStale
<1>7. \A c \in DOMAIN entries :
        /\ MarkedStale(entries, n)[c] \in Entry
        /\ MarkedStale(entries, n)[c].last_sequence = entries[c].last_sequence
        /\ MarkedStale(entries, n)[c].state = entries[c].state
  <2> TAKE c \in DOMAIN entries
  <2>1. (entries[c].stale \/ entries[c].last_sequence <= n) \in BOOLEAN
    BY <1>1
  <2>2. MarkedStale(entries, n)[c] =
            [entries[c] EXCEPT !.stale = entries[c].stale \/ entries[c].last_sequence <= n]
    BY <1>6
  <2> QED BY <1>2, <2>1, <2>2, Zenon
<1>8. DOMAIN MarkedStale(entries, n) = DOMAIN entries
  BY <1>6
<1>9. Reconciled(entries, n) \in [DOMAIN Reconciled(entries, n) -> Entry]
  BY <1>4, <1>5
<1>10. MarkedStale(entries, n) \in [DOMAIN MarkedStale(entries, n) -> Entry]
  <2>1. MarkedStale(entries, n) = [c \in DOMAIN entries |-> MarkedStale(entries, n)[c]]
    BY <1>6
  <2> QED BY <1>7, <1>8, <2>1
<1>11. \A c \in DOMAIN entries : ~entries[c].stale =>
            c \in DOMAIN Reconciled(entries, n) /\ ~Reconciled(entries, n)[c].stale
  <2> SUFFICES ASSUME NEW c \in DOMAIN entries, ~entries[c].stale
               PROVE  c \in DOMAIN Reconciled(entries, n) /\ ~Reconciled(entries, n)[c].stale
    OBVIOUS
  <2>1. c \in DOMAIN Reconciled(entries, n)
    BY <1>3
  <2>2. Reconciled(entries, n)[c].stale = FALSE
    BY <1>5, <2>1
  <2> QED BY <2>1, <2>2, Zenon
<1>12. \A c \in DOMAIN Reconciled(entries, n) :
            /\ Reconciled(entries, n)[c].last_sequence = entries[c].last_sequence
            /\ Reconciled(entries, n)[c].state = entries[c].state
  BY <1>5
<1>13. \A c \in DOMAIN entries :
            /\ MarkedStale(entries, n)[c].last_sequence = entries[c].last_sequence
            /\ MarkedStale(entries, n)[c].state = entries[c].state
  BY <1>7
<1>14. DOMAIN Reconciled(entries, n) \subseteq DOMAIN entries
  BY <1>3
<1> QED BY <1>8, <1>9, <1>10, <1>11, <1>12, <1>13, <1>14

\* Poll, with the event it reads.
LEMMA PollFacts ==
    ASSUME TypeInv, Poll
    PROVE  LET e == Head(wire) IN
           /\ wire # << >> /\ link # "dead" /\ wire' = Tail(wire) /\ e \in Frame
           /\ UNCHANGED <<publisher, numbers, queue_, thread, overtaken, spent>>
           /\ \/ /\ Ignored(e) \/ (~Terminator(e) /\ Duplicate(e))
                 /\ UNCHANGED <<daemon, commands, refused>>
              \/ /\ Terminator(e) /\ highest_sequence_' = Higher(e)
                 /\ registry' = Reconciled(registry, Higher(e))
                 /\ rescan_needed_' = FALSE /\ UNCHANGED <<commands, refused>>
              \/ /\ ~Ignored(e) /\ ~Terminator(e) /\ ~Duplicate(e)
                 /\ highest_sequence_' = Higher(e)
                 /\ \/ /\ Gap(e) /\ registry' = MarkedStale(Observed(e), Higher(e))
                       /\ rescan_needed_' = TRUE /\ RequestRescan
                    \/ /\ ~Gap(e) /\ registry' = Observed(e)
                       /\ UNCHANGED <<rescan_needed_, commands, refused>>
<1>1. Head(wire) \in Frame
  BY TailFacts DEF Poll, TypeInv, SocketTyped
<1> QED BY <1>1, Zenon DEF Poll

LEMMA RegistryType == TypeInv /\ [Next]_vars => RegistryTyped'
<1> SUFFICES ASSUME TypeInv, [Next]_vars PROVE RegistryTyped'
  OBVIOUS
<1>1. CASE Poll
  <2> DEFINE e == Head(wire)
  <2>1. RegistryTyped /\ highest_sequence_ \in Nat /\ e \in Frame /\ e.sequence \in Nat \ {0}
    BY <1>1, PollFacts DEF TypeInv, RegistryTyped, Frame, DriverEvent
  <2>2. Higher(e) \in Nat /\ Higher(e) >= highest_sequence_ /\ Higher(e) >= e.sequence
    BY <2>1 DEF Higher
  <2>3. CASE UNCHANGED <<daemon, commands, refused>>
    BY <2>1, <2>3 DEF daemon, RegistryTyped
  <2>4. CASE Terminator(e) /\ highest_sequence_' = Higher(e)
             /\ registry' = Reconciled(registry, Higher(e)) /\ rescan_needed_' = FALSE
    <3>1. rescan_needed_' \in BOOLEAN
      BY <2>4, Zenon
    <3> HIDE DEF e
    <3>2. /\ registry' \in [DOMAIN registry' -> Entry] /\ DOMAIN registry' \subseteq DOMAIN registry
          /\ \A c \in DOMAIN registry' : registry'[c].last_sequence = registry[c].last_sequence
      BY <2>1, <2>2, <2>4, EntriesFacts DEF RegistryTyped
    <3> QED BY <2>1, <2>2, <2>4, <3>1, <3>2 DEF RegistryTyped
  <2>5. CASE /\ ~Ignored(e) /\ ~Terminator(e) /\ highest_sequence_' = Higher(e)
             /\ \/ registry' = MarkedStale(Observed(e), Higher(e)) /\ rescan_needed_' = TRUE
                \/ registry' = Observed(e) /\ UNCHANGED rescan_needed_
    <3>1. rescan_needed_' \in BOOLEAN
      BY <2>1, <2>5, Zenon DEF RegistryTyped
    <3> HIDE DEF e
    <3>2. /\ Observed(e) \in [DOMAIN Observed(e) -> Entry]
          /\ DOMAIN Observed(e) \subseteq DOMAIN registry \cup {e.id} /\ e.id \in Nat \ {0}
          /\ \A c \in DOMAIN Observed(e) : Observed(e)[c].last_sequence \in 1 .. Higher(e)
      <4>1. /\ Observed(e) \in [DOMAIN Observed(e) -> Entry]
            /\ DOMAIN Observed(e) \subseteq DOMAIN registry \cup {e.id} /\ e.id \in Nat \ {0}
            /\ e.id \in DOMAIN Observed(e) => Observed(e)[e.id].last_sequence = e.sequence
            /\ \A c \in DOMAIN registry \ {e.id} : Observed(e)[c] = registry[c]
        BY <2>1, <2>5, ObservedFacts
      <4>2. \A c \in DOMAIN registry : registry[c].last_sequence \in 1 .. highest_sequence_
        BY <2>1 DEF RegistryTyped
      <4> QED BY <4>1, <4>2, <2>1, <2>2
    <3>3. /\ registry' \in [DOMAIN registry' -> Entry] /\ DOMAIN registry' = DOMAIN Observed(e)
          /\ \A c \in DOMAIN registry' : registry'[c].last_sequence = Observed(e)[c].last_sequence
      BY <2>2, <2>5, <3>2, EntriesFacts
    <3> QED BY <2>1, <2>2, <2>5, <3>1, <3>2, <3>3 DEF RegistryTyped
  <2> QED BY <1>1, <2>3, <2>4, <2>5, PollFacts
<1>2. CASE DaemonRestart
  <2>1. DOMAIN registry' = {} /\ registry' \in [DOMAIN registry' -> Entry]
    BY <1>2 DEF DaemonRestart
  <2>2. rescan_needed_' \in BOOLEAN
    BY <1>2, Zenon DEF DaemonRestart
  <2> QED BY <1>2, <2>1, <2>2 DEF DaemonRestart, RegistryTyped
<1>3. CASE \/ Commands \/ RunBridgeThread \/ SendSnapshotCommand \/ DriverRestart
           \/ UNCHANGED vars \/ \E t \in Thread : Stamp(t) \/ Enqueue(t)
  <2>1. UNCHANGED daemon
    BY <1>3, CommandsFrame DEF RunBridgeThread, EnsureConnected, HandleRescan, SendReplayed,
         SendQueued, SendQueuedFails, PutBack, ReceiveRescan, ReceiveSnapshot, HangUp,
         ReceiveCommit, SendSnapshotCommand, DriverRestart, vars, Stamp, Enqueue
  <2> QED BY <2>1 DEF daemon, RegistryTyped, TypeInv
<1> QED BY <1>1, <1>2, <1>3, NextCases

LEMMA HistoryType == TypeInv /\ [Next]_vars => HistoryTyped'
<1> SUFFICES ASSUME TypeInv, [Next]_vars PROVE HistoryTyped'
  OBVIOUS
<1>0. HistoryTyped
  BY DEF TypeInv
<1>1. refused' \in BOOLEAN
  <2>1. CASE Poll
    <3>1. UNCHANGED refused \/ RequestRescan
      BY <2>1, PollFacts
    <3> QED BY <1>0, <3>1, Zenon DEF RequestRescan, HistoryTyped
  <2>2. CASE ~Poll
    <3>1. UNCHANGED refused
      BY <2>2, NextCases, CommandsFrame DEF RunBridgeThread, EnsureConnected, HandleRescan,
           SendReplayed, SendQueued, SendQueuedFails, PutBack, ReceiveRescan,
           ReceiveSnapshot, HangUp, ReceiveCommit, SendSnapshotCommand, DaemonRestart,
           DriverRestart, vars, history, Stamp, Enqueue
    <3> QED BY <1>0, <3>1 DEF HistoryTyped
  <2> QED BY <2>1, <2>2
<1>2. \/ UNCHANGED spent
      \/ spent' = [spent EXCEPT !.publications = @ + 1]
      \/ spent' = [spent EXCEPT !.commands = @ + 1]
      \/ spent' = [spent EXCEPT !.drivers = @ + 1]
      \/ spent' = [spent EXCEPT !.daemons = @ + 1]
  BY NextCases, CommandsFrame DEF RunBridgeThread, EnsureConnected, HandleRescan,
       SendReplayed, SendQueued, SendQueuedFails, PutBack, ReceiveRescan, ReceiveSnapshot,
       HangUp, ReceiveCommit, SendSnapshotCommand, DaemonRestart, DriverRestart, Poll,
       vars, Stamp, Enqueue
<1>3. spent' \in [publications : Nat, commands : Nat, drivers : Nat, daemons : Nat]
  BY <1>0, <1>2 DEF HistoryTyped
<1> QED BY <1>1, <1>3 DEF HistoryTyped

LEMMA TypeStep == TypeInv /\ [Next]_vars => TypeInv'
BY PublisherType, BridgeType, SocketType, RegistryType, HistoryType DEF TypeInv

LEMMA TypeImplied == TypeInv => TypeOK
<1> SUFFICES ASSUME TypeInv PROVE TypeOK
  OBVIOUS
<1>1. bridge = "idle" <=> outgoing = << >>
  BY EmptyFacts DEF TypeInv, BridgeTyped
<1>2. \A c \in DOMAIN registry :
        /\ c # 0 /\ registry[c].state \in States /\ registry[c].stale \in BOOLEAN
        /\ registry[c].last_sequence \in 1 .. highest_sequence_
  BY DEF TypeInv, RegistryTyped, Entry
<1>3. \A c \in DOMAIN contexts_ : contexts_[c] \in BOOLEAN
  BY DEF TypeInv, PublisherTyped
<1> QED BY <1>1, <1>2, <1>3
        DEF TypeInv, TypeOK, PublisherTyped, BridgeTyped, SocketTyped, RegistryTyped

\* The publisher, the bridge and the registry stay well formed, and the registry
\* has seen no event of a context later than highest_sequence_ (SessionRegistry::Apply,
\* DriverDaemonBridge), through reconnections and restarts of either process.
THEOREM TypeCorrect == Spec => []TypeOK
<1>1. Spec => []TypeInv
  BY TypeInit, TypeStep, PTL DEF Spec
<1> QED BY <1>1, TypeImplied, PTL

-----------------------------------------------------------------------------
(* What each step does to the events on their way, when nothing is dropped *)

\* Losses are for ever, and no driver process is replaced without being counted.
LEMMA LossLasts ==
    ASSUME TypeInv, [Next]_vars, NoLoss'
    PROVE  NoLoss /\ ~DriverRestart
<1>0. dropped_events_' = 0 /\ ~refused' /\ spent'.drivers = 0
  BY DEF NoLoss
<1>1. dropped_events_ \in {0, 1} /\ refused \in BOOLEAN
      /\ spent \in [publications : Nat, commands : Nat, drivers : Nat, daemons : Nat]
  BY DEF TypeInv, BridgeTyped, HistoryTyped
<1>2. ~DriverRestart
  <2> SUFFICES ASSUME spent' = [spent EXCEPT !.drivers = @ + 1] PROVE FALSE
    BY DEF DriverRestart
  <2> QED BY <1>0, <1>1
<1>3. dropped_events_' = 1 \/ UNCHANGED dropped_events_
  BY NextCases, CommandsFrame DEF RunBridgeThread, EnsureConnected, HandleRescan,
       SendReplayed, SendQueued, SendQueuedFails, PutBack, ReceiveRescan, ReceiveSnapshot,
       HangUp, ReceiveCommit, SendSnapshotCommand, DaemonRestart, DriverRestart, Poll,
       vars, numbers, Send, Stamp, Enqueue
<1>4. refused => refused'
  <2>1. UNCHANGED refused \/ RequestRescan
    BY NextCases, CommandsFrame DEF RunBridgeThread, EnsureConnected, HandleRescan,
         SendReplayed, SendQueued, SendQueuedFails, PutBack, ReceiveRescan, ReceiveSnapshot,
         HangUp, ReceiveCommit, SendSnapshotCommand, DaemonRestart, DriverRestart, Poll,
         vars, history, Stamp, Enqueue
  <2> QED BY <2>1, Zenon DEF RequestRescan
<1>5. \/ UNCHANGED spent
      \/ spent' = [spent EXCEPT !.publications = @ + 1]
      \/ spent' = [spent EXCEPT !.commands = @ + 1]
      \/ spent' = [spent EXCEPT !.daemons = @ + 1]
  BY <1>2, NextCases, CommandsFrame DEF RunBridgeThread, EnsureConnected, HandleRescan,
       SendReplayed, SendQueued, SendQueuedFails, PutBack, ReceiveRescan, ReceiveSnapshot,
       HangUp, ReceiveCommit, SendSnapshotCommand, DaemonRestart, Poll,
       vars, Stamp, Enqueue
<1>6. spent.drivers = 0
  BY <1>0, <1>1, <1>5
<1>7. dropped_events_ = 0
  BY <1>0, <1>3
<1>8. ~refused
  BY <1>0, <1>4
<1> QED BY <1>2, <1>6, <1>7, <1>8 DEF NoLoss

LEMMA StampedFacts ==
    ASSUME TypeInv, NEW e \in DriverEvent
    PROVE  /\ Stamped(e).type = e.type /\ Stamped(e).id = e.id
           /\ Stamped(e).sequence = next_sequence_
BY DEF Stamped, DriverEvent

\* The sets of events that the steps of the threads and of the bridge leave.
LEMMA MakingFacts ==
    ASSUME TypeInv, NEW t \in Thread, NEW e, made' = [made EXCEPT ![t] = e]
    PROVE  /\ e # NoEvent => Making' \subseteq Making \cup {e} /\ e \in Making'
           /\ \A x \in Making : x = made[t] \/ x \in Making'
           /\ e = NoEvent => Making' \subseteq Making
<1>1. \A u \in Thread : made'[u] = IF u = t THEN e ELSE made[u]
  BY DEF TypeInv, PublisherTyped
<1> QED BY <1>1 DEF Making

LEMMA MakingSame == UNCHANGED made => Making' = Making
BY DEF Making

\* No event is dropped, so whatever leaves one place enters the next.
LEMMA SendAppends ==
    ASSUME SocketTyped, NEW e \in Frame, Send(e), dropped_events_' = 0
    PROVE  wire' = Append(wire, e) /\ Range(wire') = Range(wire) \cup {e}
<1>1. dropped_events_' # 1
  OBVIOUS
<1>2. wire' = Append(wire, e)
  BY <1>1 DEF Send
<1>3. wire \in Seq(Frame)
  BY DEF SocketTyped
<1>4. Range(Append(wire, e)) = Range(wire) \cup {e}
  BY <1>3, AppendFacts
<1> QED BY <1>2, <1>4, Zenon

\* An event that the step puts on its way is in order.
Fits(y) ==
    /\ y.id < next_context_instance_id_' /\ y.sequence < next_sequence_'
    /\ y.type = "CONTEXT_RELEASED" => y.id \notin DOMAIN contexts_'

AllFit == \A y \in Flying' : y \in Flying \/ Fits(y)

Carried == \A c : \A x \in Flying : Introduces(x, c) => \E y \in Flying' : Introduces(y, c)

LEMMA CommandsFly ==
    ASSUME TypeInv, Commands
    PROVE  AllFit /\ Carried
<1>0. UNCHANGED <<queue_, outgoing, wire, next_sequence_>>
  BY CommandsFrame DEF numbers, thread
<1>1. next_context_instance_id_ \in Nat \ {0} /\ next_sequence_ \in Nat \ {0}
      /\ DOMAIN contexts_ \subseteq 1 .. next_context_instance_id_ - 1
  BY DEF TypeInv, PublisherTyped, BridgeTyped
<1>2. PICK t \in Thread : \/ RegisterContext(t)
                          \/ \E c \in DOMAIN contexts_ :
                              \/ PublishConfigured(t, c) \/ PublishTelemetry(t, c)
                              \/ UnregisterContext(t, c)
                              \/ \E enabled \in BOOLEAN : PublishEnabled(t, c, enabled)
  BY DEF Commands
<1>3. PICK e : made[t] = NoEvent /\ made' = [made EXCEPT ![t] = e] /\ Fits(e)
  <2>1. CASE RegisterContext(t)
    <3>1. Fits(Event("CONTEXT_CREATED", next_context_instance_id_, FALSE))
      BY <2>1, <1>0, <1>1 DEF RegisterContext, Fits, Event
    <3> QED BY <2>1, <3>1 DEF RegisterContext, Made, Idle
  <2>2. ASSUME NEW c \in DOMAIN contexts_, PublishConfigured(t, c) \/ PublishTelemetry(t, c)
        PROVE  \E e : made[t] = NoEvent /\ made' = [made EXCEPT ![t] = e] /\ Fits(e)
    <3>1. \A type \in {"CONTEXT_CONFIGURED", "TELEMETRY"} : Fits(Event(type, c, contexts_[c]))
      BY <2>2, <1>0, <1>1 DEF PublishConfigured, PublishTelemetry, Fits, Event
    <3> QED BY <2>2, <3>1 DEF PublishConfigured, PublishTelemetry, Made, Idle
  <2>3. ASSUME NEW c \in DOMAIN contexts_, UnregisterContext(t, c)
        PROVE  \E e : made[t] = NoEvent /\ made' = [made EXCEPT ![t] = e] /\ Fits(e)
    <3>1. c \notin DOMAIN contexts_'
      BY <2>3 DEF UnregisterContext, Restrict
    <3>2. Fits(Event("CONTEXT_RELEASED", c, FALSE))
      BY <2>3, <3>1, <1>0, <1>1 DEF UnregisterContext, Fits, Event
    <3> QED BY <2>3, <3>2 DEF UnregisterContext, Made, Idle
  <2>4. ASSUME NEW c \in DOMAIN contexts_, NEW enabled \in BOOLEAN,
               PublishEnabled(t, c, enabled)
        PROVE  \E e : made[t] = NoEvent /\ made' = [made EXCEPT ![t] = e] /\ Fits(e)
    <3>1. \A type \in {"CONTEXT_ENABLED", "CONTEXT_DISABLED"} : Fits(Event(type, c, enabled))
      BY <2>4, <1>0, <1>1 DEF PublishEnabled, Fits, Event
    <3>2. \E type \in {"CONTEXT_ENABLED", "CONTEXT_DISABLED"} :
            made' = [made EXCEPT ![t] = Event(type, c, enabled)]
      BY <2>4 DEF PublishEnabled, Made
    <3>3. made[t] = NoEvent
      BY <2>4 DEF PublishEnabled, Idle
    <3> QED BY <3>1, <3>2, <3>3
  <2> QED BY <1>2, <2>1, <2>2, <2>3, <2>4
<1>4. Making' \subseteq Making \cup {e}
  BY <1>3, MakingFacts
<1>5. Making \subseteq Making'
  <2>1. \A x \in Making : x = made[t] \/ x \in Making'
    BY <1>3, MakingFacts
  <2>2. \A x \in Making : x # NoEvent
    BY DEF Making
  <2> QED BY <1>3, <2>1, <2>2
<1> QED BY <1>0, <1>3, <1>4, <1>5 DEF AllFit, Carried, Flying

LEMMA ThreadFlies ==
    ASSUME TypeInv, InOrder, NoLoss', NEW t \in Thread, Stamp(t) \/ Enqueue(t)
    PROVE  AllFit /\ Carried
<1> USE DEF TypeInv
<1>0. next_sequence_ \in Nat \ {0}
  BY DEF BridgeTyped
<1>1. made[t] \in Lifecycle /\ made[t] \in DriverEvent /\ made[t] \in Making
  BY DEF Stamp, Enqueue, PublisherTyped, Making, Lifecycle, DriverEvent, EventType
<1>2. CASE Stamp(t)
  <2> DEFINE e == Stamped(made[t])
  <2>1. made' = [made EXCEPT ![t] = e] /\ next_sequence_' = next_sequence_ + 1
        /\ UNCHANGED <<queue_, outgoing, wire, contexts_, next_context_instance_id_>>
    BY <1>2 DEF Stamp, thread
  <2>2. e.type = made[t].type /\ e.id = made[t].id /\ e.sequence = next_sequence_
    BY <1>1, StampedFacts
  <2>3. e # NoEvent
    <3>1. e \in DriverEvent
      BY <1>0, <1>1 DEF Stamped, DriverEvent
    <3> QED BY <3>1
  <2> HIDE DEF e
  <2>4. Making' \subseteq Making \cup {e} /\ e \in Making'
        /\ \A x \in Making : x = made[t] \/ x \in Making'
    BY <2>1, <2>3, MakingFacts
  <2>5. Fits(e)
    <3>1. made[t] \in Flying
      BY <1>1 DEF Flying
    <3> QED BY <1>0, <2>1, <2>2, <3>1 DEF Fits, InOrder
  <2> QED BY <2>1, <2>2, <2>4, <2>5 DEF AllFit, Carried, Flying, Introduces
<1>3. CASE Enqueue(t)
  <2>1. made' = [made EXCEPT ![t] = NoEvent] /\ UNCHANGED <<outgoing, wire>>
    BY <1>3 DEF Enqueue, thread
  <2>2. queue_' = Append(queue_, made[t])
    <3>1. dropped_events_' # 1
      BY DEF NoLoss
    <3> QED BY <1>3, <3>1 DEF Enqueue
  <2>3. Range(queue_') = Range(queue_) \cup {made[t]}
    BY <1>3, <2>2, QueuedFacts, AppendFacts DEF Enqueue, BridgeTyped
  <2>4. Making' \subseteq Making /\ \A x \in Making : x = made[t] \/ x \in Making'
    BY <2>1, MakingFacts
  <2> QED BY <1>1, <2>1, <2>3, <2>4 DEF AllFit, Carried, Flying
<1> QED BY <1>2, <1>3

LEMMA AnswerFacts ==
    ASSUME TypeInv
    PROVE  /\ Stamped(Event("DRIVER_HELLO", 0, FALSE)).id = 0
           /\ Stamped(Event("DRIVER_HELLO", 0, FALSE)).type = "DRIVER_HELLO"
           /\ Stamped(Event("DRIVER_HELLO", 0, FALSE)).sequence = next_sequence_
           /\ Stamped(Event("ANSWER", 0, FALSE)).id = 0
           /\ Stamped(Event("ANSWER", 0, FALSE)).type = "ANSWER"
           /\ Stamped(Event("ANSWER", 0, FALSE)).sequence = next_sequence_
BY DEF Stamped, Event

LEMMA BridgeFlies ==
    ASSUME TypeInv, InOrder, NoLoss', RunBridgeThread
    PROVE  AllFit /\ (link' # "up" \/ Carried)
<1> USE DEF TypeInv
<1>0. next_sequence_ \in Nat \ {0} /\ next_context_instance_id_ \in Nat \ {0}
      /\ dropped_events_' = 0
  BY DEF BridgeTyped, PublisherTyped, NoLoss
<1>1. UNCHANGED publisher
  BY DEF RunBridgeThread, EnsureConnected, HandleRescan, SendReplayed, SendQueued,
       SendQueuedFails, PutBack, ReceiveRescan, ReceiveSnapshot, HangUp, ReceiveCommit
<1>2. Making' = Making /\ UNCHANGED <<contexts_, next_context_instance_id_>>
  BY <1>1, MakingSame DEF publisher
<1>3. CASE EnsureConnected
  <2> DEFINE e == Stamped(Event("DRIVER_HELLO", 0, FALSE))
  <2>1. wire' = <<e>> /\ UNCHANGED <<queue_, outgoing>> /\ next_sequence_' = next_sequence_ + 1
    BY <1>3 DEF EnsureConnected
  <2>2. wire = << >>
    BY <1>3 DEF EnsureConnected, InOrder
  <2>3. e.id = 0 /\ e.type = "DRIVER_HELLO" /\ e.sequence = next_sequence_
    BY AnswerFacts
  <2> HIDE DEF e
  <2>4. Fits(e)
    BY <1>0, <1>2, <2>1, <2>3 DEF Fits
  <2>5. Range(wire') = {e} /\ Range(wire) = {}
    BY <2>1, <2>2, EmptyFacts DEF Range
  <2> QED BY <1>2, <2>1, <2>4, <2>5 DEF AllFit, Carried, Flying
<1>4. CASE HandleRescan
  <2>1. PICK ids \in SetToSeqs(DOMAIN contexts_) : outgoing' = Replay(ids)
    BY <1>4 DEF HandleRescan
  <2>2. UNCHANGED <<queue_, wire, next_sequence_>> /\ outgoing = << >>
    BY <1>4 DEF HandleRescan, BridgeTyped, numbers
  <2>3. \A e \in Range(outgoing') : Fits(e)
    <3>1. \A e \in Range(outgoing') :
            e.type = "RESCAN_RESPONSE" /\ e.id \in DOMAIN contexts_ \cup {0} /\ e.sequence = 0
      BY <2>1, ReplayFacts
    <3>2. DOMAIN contexts_ \subseteq 1 .. next_context_instance_id_ - 1
      BY DEF PublisherTyped
    <3> QED BY <1>0, <1>2, <2>2, <3>1, <3>2 DEF Fits
  <2>4. Range(outgoing) = {}
    BY <2>2, EmptyFacts
  <2> QED BY <1>2, <2>2, <2>3, <2>4 DEF AllFit, Carried, Flying
<1>5. CASE SendReplayed
  <2>1. outgoing \in Seq(Response) /\ outgoing # << >>
    BY <1>5 DEF SendReplayed, BridgeTyped
  <2>2. UNCHANGED queue_ /\ next_sequence_' = next_sequence_ + 1
    BY <1>5 DEF SendReplayed
  <2>3. CASE link = "up"
    <3> DEFINE x == Head(outgoing)
               e == Stamped(x)
    <3>1. Send(e) /\ outgoing' = Tail(outgoing)
      BY <1>5, <2>3 DEF SendReplayed
    <3>2. x \in Response /\ x \in DriverEvent /\ Range(outgoing) = {x} \cup Range(outgoing')
      <4>1. x \in Response /\ Range(outgoing) = {x} \cup Range(outgoing')
        BY <2>1, <3>1, TailFacts
      <4> HIDE DEF x
      <4> QED BY <4>1 DEF Response, DriverEvent, EventType
    <3>3. e.type = x.type /\ e.id = x.id /\ e.sequence = next_sequence_ /\ e \in Frame
      BY <3>2, StampedFacts, FrameFacts
    <3> HIDE DEF x, e
    <3>4. Range(wire') = Range(wire) \cup {e}
      BY <1>0, <3>1, <3>3, SendAppends
    <3>5. Fits(e)
      <4>1. x \in Flying
        BY <3>2 DEF Flying
      <4> QED BY <1>0, <1>2, <2>2, <3>3, <4>1 DEF Fits, InOrder
    <3> QED BY <1>2, <2>2, <3>2, <3>3, <3>4, <3>5 DEF AllFit, Carried, Flying, Introduces
  <2>4. CASE link = "dead"
    <3>1. outgoing' = << >> /\ UNCHANGED wire /\ link' = "down"
      BY <1>5, <2>4 DEF SendReplayed, CloseConnection
    <3>2. Range(outgoing') = {}
      BY <3>1, EmptyFacts
    <3> QED BY <1>2, <2>2, <3>1, <3>2 DEF AllFit, Flying
  <2> QED BY <1>5, <2>3, <2>4 DEF SendReplayed
<1>6. CASE SendQueued
  <2>1. queue_ # << >> /\ queue_' = Tail(queue_) /\ Send(Head(queue_)) /\ UNCHANGED outgoing
    BY <1>6 DEF SendQueued, Draining, thread
  <2>2. Head(queue_) \in Queued /\ Range(queue_) = {Head(queue_)} \cup Range(queue_')
    BY <2>1, TailFacts DEF BridgeTyped
  <2>3. Head(queue_) \in Frame
    BY <2>2, QueuedFacts
  <2>4. Range(wire') = Range(wire) \cup {Head(queue_)}
    BY <1>0, <2>1, <2>3, SendAppends
  <2> QED BY <1>2, <2>1, <2>2, <2>4 DEF AllFit, Carried, Flying
<1>7. CASE SendQueuedFails
  <2>1. queue_ # << >> /\ queue_' = Tail(queue_) /\ outgoing' = <<Head(queue_)>>
        /\ UNCHANGED <<wire, link>> /\ link = "dead"
    BY <1>7 DEF SendQueuedFails, Draining
  <2>2. Range(queue_) = {Head(queue_)} \cup Range(queue_')
    BY <2>1, TailFacts DEF BridgeTyped
  <2>3. Range(outgoing') = {Head(queue_)}
    BY <2>1 DEF Range
  <2> QED BY <1>2, <2>1, <2>2, <2>3 DEF AllFit, Flying
<1>8. CASE PutBack
  <2>1. outgoing \in Seq(Queued) /\ Len(outgoing) = 1 /\ link' = "down" /\ UNCHANGED wire
        /\ outgoing' = << >>
    BY <1>8 DEF PutBack, CloseConnection, BridgeTyped
  <2>2. queue_' = outgoing \o queue_
    BY <1>0, <1>8 DEF PutBack
  <2>3. Range(queue_') = Range(outgoing) \cup Range(queue_)
    BY <2>1, <2>2, ConcatRange DEF BridgeTyped
  <2>4. Range(outgoing') = {}
    BY <2>1, EmptyFacts
  <2> QED BY <1>2, <2>1, <2>3, <2>4 DEF AllFit, Flying
<1>9. CASE ReceiveRescan \/ HangUp
  <2>1. UNCHANGED <<queue_, wire>>
    BY <1>9 DEF ReceiveRescan, HangUp, CloseConnection
  <2>2. UNCHANGED outgoing
    BY <1>9 DEF ReceiveRescan, HangUp, CloseConnection, BridgeTyped
  <2> QED BY <1>2, <2>1, <2>2 DEF AllFit, Carried, Flying
<1>10. CASE ReceiveSnapshot
  <2> DEFINE e == Stamped(Event("ANSWER", 0, FALSE))
  <2>1. UNCHANGED <<queue_, outgoing>>
    BY <1>10 DEF ReceiveSnapshot
  <2>2. CASE UNCHANGED wire
    BY <1>2, <2>1, <2>2 DEF AllFit, Carried, Flying
  <2>3. CASE Send(e) /\ next_sequence_' = next_sequence_ + 1
    <3>1. e.id = 0 /\ e.type = "ANSWER" /\ e.sequence = next_sequence_ /\ e \in Frame
      BY AnswerFacts, FrameFacts
    <3> HIDE DEF e
    <3>2. Fits(e) /\ e \in Frame
      BY <1>0, <1>2, <2>3, <3>1 DEF Fits
    <3>3. Range(wire') = Range(wire) \cup {e}
      BY <1>0, <2>3, <3>2, SendAppends
    <3> QED BY <1>2, <2>1, <3>2, <3>3 DEF AllFit, Carried, Flying
  <2> QED BY <1>10, <2>2, <2>3 DEF ReceiveSnapshot
<1>11. ASSUME NEW c \in DOMAIN contexts_, ReceiveCommit(c) PROVE AllFit /\ Carried
  <2> DEFINE e == [Event("ANSWER", 0, FALSE) EXCEPT !.sequence = next_sequence_ + 1]
             g == Stamped(Event("TELEMETRY", c, contexts_[c]))
  <2>1. next_sequence_' = next_sequence_ + 2 /\ UNCHANGED outgoing
    BY <1>11 DEF ReceiveCommit
  <2>2. queue_' = Append(queue_, g) /\ wire' = Append(wire, e)
    <3>1. 0 # 1
      OBVIOUS
    <3> QED BY <1>0, <1>11, <3>1 DEF ReceiveCommit
  <2>3. Fits(e) /\ e \in Frame
    BY <1>0, <1>2, <2>1, FrameFacts DEF Fits, Event
  <2>4. g.type = "TELEMETRY" /\ g.id = c /\ g.sequence = next_sequence_ /\ g \in Queued
    <3>1. c \in Nat \ {0} /\ contexts_[c] \in BOOLEAN
      BY DEF PublisherTyped
    <3>2. g = [type |-> "TELEMETRY", id |-> c, enabled |-> contexts_[c],
               sequence |-> next_sequence_]
      BY DEF Stamped, Event
    <3> HIDE DEF g
    <3> QED BY <1>0, <3>1, <3>2 DEF Queued, Lifecycle, LifecycleType
  <2>5. Fits(g)
    <3>1. c < next_context_instance_id_
      BY <1>0 DEF PublisherTyped
    <3> HIDE DEF g
    <3> QED BY <1>0, <1>2, <2>1, <2>4, <3>1 DEF Fits
  <2> HIDE DEF e, g
  <2>6. Range(queue_') = Range(queue_) \cup {g} /\ Range(wire') = Range(wire) \cup {e}
    BY <2>2, <2>3, <2>4, AppendFacts DEF SocketTyped, BridgeTyped
  <2> QED BY <1>2, <2>1, <2>3, <2>5, <2>6 DEF AllFit, Carried, Flying
<1> QED BY <1>3, <1>4, <1>5, <1>6, <1>7, <1>8, <1>9, <1>10, <1>11 DEF RunBridgeThread

LEMMA PollFlies ==
    ASSUME TypeInv, Poll
    PROVE  Flying = Flying' \cup {Head(wire)} /\ Head(wire) \in Frame
<1>1. wire # << >> /\ wire' = Tail(wire) /\ Head(wire) \in Frame
      /\ UNCHANGED <<made, queue_, outgoing>>
  BY PollFacts DEF publisher, thread
<1>2. Range(wire) = {Head(wire)} \cup Range(wire')
  BY <1>1, TailFacts DEF TypeInv, SocketTyped
<1> QED BY <1>1, <1>2, MakingSame DEF Flying

LEMMA EveryStepFits ==
    ASSUME TypeInv, InOrder, [Next]_vars, NoLoss'
    PROVE  AllFit
<1>0. ~DriverRestart
  BY LossLasts
<1>1. CASE Poll
  BY <1>1, PollFlies DEF AllFit
<1>2. CASE SendSnapshotCommand \/ UNCHANGED vars
  <2>1. UNCHANGED <<made, queue_, outgoing, wire>>
    BY <1>2 DEF SendSnapshotCommand, vars, publisher, thread
  <2> QED BY <2>1, MakingSame DEF AllFit, Flying
<1>3. CASE DaemonRestart
  <2>1. UNCHANGED <<made, queue_, outgoing>> /\ wire' = << >>
    BY <1>3 DEF DaemonRestart, publisher
  <2>2. Range(wire') = {}
    BY <2>1, EmptyFacts
  <2> QED BY <2>1, <2>2, MakingSame DEF AllFit, Flying
<1> QED BY <1>0, <1>1, <1>2, <1>3, CommandsFly, ThreadFlies, BridgeFlies, NextCases

\* Ids and numbers grow, and a context that is new has a new id.
LEMMA CountersGrow ==
    ASSUME TypeInv, [Next]_vars, ~DriverRestart
    PROVE  /\ next_context_instance_id_' >= next_context_instance_id_
           /\ next_sequence_' >= next_sequence_
           /\ DOMAIN contexts_' \subseteq DOMAIN contexts_ \cup {next_context_instance_id_}
<1>0. next_context_instance_id_ \in Nat /\ next_sequence_ \in Nat
      /\ contexts_ \in [DOMAIN contexts_ -> BOOLEAN]
  BY DEF TypeInv, PublisherTyped, BridgeTyped
<1>1. /\ next_context_instance_id_' \in
            {next_context_instance_id_, next_context_instance_id_ + 1}
      /\ DOMAIN contexts_' \subseteq DOMAIN contexts_ \cup {next_context_instance_id_}
  <2>1. CASE Commands
    <3>1. ASSUME NEW t \in Thread, RegisterContext(t)
          PROVE  /\ next_context_instance_id_' = next_context_instance_id_ + 1
                 /\ DOMAIN contexts_' = DOMAIN contexts_ \cup {next_context_instance_id_}
      BY <3>1 DEF RegisterContext, With
    <3>2. ASSUME NEW t \in Thread, NEW c \in DOMAIN contexts_,
                 \/ PublishConfigured(t, c) \/ PublishTelemetry(t, c)
                 \/ \E enabled \in BOOLEAN : PublishEnabled(t, c, enabled)
                 \/ UnregisterContext(t, c)
          PROVE  UNCHANGED next_context_instance_id_ /\ DOMAIN contexts_' \subseteq DOMAIN contexts_
      BY <3>2, <1>0 DEF PublishConfigured, PublishTelemetry, PublishEnabled, UnregisterContext,
           Restrict
    <3> QED BY <2>1, <3>1, <3>2 DEF Commands
  <2>2. CASE ~Commands
    <3>1. UNCHANGED <<contexts_, next_context_instance_id_>>
      BY <2>2, NextCases DEF RunBridgeThread, EnsureConnected, HandleRescan,
           SendReplayed, SendQueued, SendQueuedFails, PutBack, ReceiveRescan, ReceiveSnapshot,
           HangUp, ReceiveCommit, SendSnapshotCommand, DaemonRestart, Poll,
           vars, publisher, Stamp, Enqueue
    <3> QED BY <3>1
  <2> QED BY <2>1, <2>2
<1>2. next_sequence_' \in {next_sequence_, next_sequence_ + 1, next_sequence_ + 2}
  BY NextCases, CommandsFrame DEF RunBridgeThread, EnsureConnected, HandleRescan,
       SendReplayed, SendQueued, SendQueuedFails, PutBack, ReceiveRescan, ReceiveSnapshot,
       HangUp, ReceiveCommit, SendSnapshotCommand, DaemonRestart, Poll,
       vars, numbers, Stamp, Enqueue
<1> QED BY <1>0, <1>1, <1>2

\* The wire gains an event at its end, loses its first, or is a new one.
LEMMA WireStep ==
    ASSUME TypeInv, InOrder, [Next]_vars, NoLoss', ~Poll
    PROVE  \/ UNCHANGED <<wire, registry, highest_sequence_>>
           \/ /\ UNCHANGED <<registry, highest_sequence_, link>> /\ link = "up"
              /\ \E e \in Frame : /\ wire' = Append(wire, e) /\ e.sequence < next_sequence_'
                                  /\ e.type = "RESCAN_RESPONSE" =>
                                        SendReplayed /\ e.sequence = next_sequence_
           \/ /\ EnsureConnected /\ wire = << >> /\ UNCHANGED <<registry, highest_sequence_>>
              /\ wire' = <<Stamped(Event("DRIVER_HELLO", 0, FALSE))>>
           \/ DaemonRestart /\ wire' = << >> /\ registry' = << >> /\ highest_sequence_' = 0
<1> USE DEF TypeInv
<1>0. ~DriverRestart /\ dropped_events_' = 0 /\ next_sequence_ \in Nat
  BY LossLasts DEF NoLoss, BridgeTyped
<1>1. CASE EnsureConnected
  BY <1>1 DEF EnsureConnected, InOrder, daemon
<1>2. CASE SendReplayed
  <2>1. CASE link = "up"
    <3>1. Send(Stamped(Head(outgoing))) /\ UNCHANGED <<registry, highest_sequence_, link>>
          /\ next_sequence_' = next_sequence_ + 1
      BY <1>2, <2>1 DEF SendReplayed, daemon
    <3>2. Head(outgoing) \in Response
      BY <1>2, TailFacts DEF SendReplayed, BridgeTyped
    <3>3. Stamped(Head(outgoing)) \in Frame /\ Stamped(Head(outgoing)).sequence = next_sequence_
      BY <3>2, FrameFacts, StampedFacts DEF Response, DriverEvent, EventType
    <3>4. wire' = Append(wire, Stamped(Head(outgoing)))
      BY <1>0, <3>1, <3>3, SendAppends
    <3>5. Stamped(Head(outgoing)).sequence < next_sequence_'
      BY <1>0, <3>1, <3>3
    <3> QED BY <1>2, <2>1, <3>1, <3>3, <3>4, <3>5, Zenon
  <2>2. CASE link = "dead"
    BY <1>2, <2>2 DEF SendReplayed, CloseConnection, daemon
  <2> QED BY <1>2, <2>1, <2>2 DEF SendReplayed
<1>3. CASE SendQueued
  <2>1. Send(Head(queue_)) /\ queue_ # << >> /\ link = "up"
        /\ UNCHANGED <<registry, highest_sequence_, link, next_sequence_>>
    BY <1>3 DEF SendQueued, Draining, daemon, thread
  <2>2. Head(queue_) \in Queued /\ Head(queue_) \in Range(queue_)
    BY <2>1, TailFacts DEF BridgeTyped
  <2>3. Head(queue_) \in Frame /\ Head(queue_).type # "RESCAN_RESPONSE"
        /\ Head(queue_).sequence < next_sequence_
    BY <2>2, QueuedFacts DEF Queued, Lifecycle, LifecycleType, InOrder, Flying
  <2>4. wire' = Append(wire, Head(queue_))
    BY <1>0, <2>1, <2>3, SendAppends
  <2> QED BY <2>1, <2>3, <2>4
<1>4. CASE ReceiveSnapshot
  <2>1. CASE UNCHANGED wire
    BY <1>4, <2>1 DEF ReceiveSnapshot, daemon
  <2>2. CASE Send(Stamped(Event("ANSWER", 0, FALSE))) /\ next_sequence_' = next_sequence_ + 1
    <3> DEFINE e == Stamped(Event("ANSWER", 0, FALSE))
    <3>1. e.type = "ANSWER" /\ e.sequence = next_sequence_ /\ e \in Frame /\ Send(e)
      BY <2>2, AnswerFacts, FrameFacts
    <3> HIDE DEF e
    <3>2. wire' = Append(wire, e)
      BY <1>0, <3>1, SendAppends
    <3>3. UNCHANGED <<registry, highest_sequence_, link>> /\ link = "up"
      BY <1>4 DEF ReceiveSnapshot, Receives, daemon
    <3>4. e.sequence < next_sequence_' /\ e.type # "RESCAN_RESPONSE"
      BY <1>0, <2>2, <3>1
    <3> QED BY <3>1, <3>2, <3>3, <3>4, Zenon
  <2> QED BY <1>4, <2>1, <2>2 DEF ReceiveSnapshot
<1>5. ASSUME NEW c \in DOMAIN contexts_, ReceiveCommit(c)
      PROVE  /\ UNCHANGED <<registry, highest_sequence_, link>> /\ link = "up"
             /\ \E e \in Frame : /\ wire' = Append(wire, e) /\ e.sequence < next_sequence_'
                                 /\ e.type # "RESCAN_RESPONSE"
  <2> DEFINE e == [Event("ANSWER", 0, FALSE) EXCEPT !.sequence = next_sequence_ + 1]
  <2>1. wire' = Append(wire, e)
    <3>1. 0 # 1
      OBVIOUS
    <3> QED BY <1>0, <1>5, <3>1 DEF ReceiveCommit
  <2>2. e.type = "ANSWER" /\ e.sequence = next_sequence_ + 1 /\ e \in Frame
    BY FrameFacts DEF Event
  <2> HIDE DEF e
  <2>3. next_sequence_' = next_sequence_ + 2
    BY <1>5 DEF ReceiveCommit
  <2>4. UNCHANGED <<registry, highest_sequence_, link>> /\ link = "up"
    BY <1>5 DEF ReceiveCommit, Receives, daemon
  <2> QED BY <1>0, <2>1, <2>2, <2>3, <2>4
<1>6. CASE DaemonRestart
  BY <1>6 DEF DaemonRestart
<1>7. CASE \/ Commands \/ HandleRescan \/ SendQueuedFails \/ PutBack \/ ReceiveRescan \/ HangUp
           \/ SendSnapshotCommand \/ UNCHANGED vars \/ \E t \in Thread : Stamp(t) \/ Enqueue(t)
  BY <1>7, CommandsFrame DEF HandleRescan, SendQueuedFails, PutBack, ReceiveRescan, HangUp,
       SendSnapshotCommand, vars, Stamp, Enqueue, CloseConnection, daemon
<1> QED BY <1>0, <1>1, <1>2, <1>3, <1>4, <1>5, <1>6, <1>7, NextCases DEF RunBridgeThread

-----------------------------------------------------------------------------
(* The parts of the invariant, one by one *)

LEMMA InOrderStep ==
    ASSUME TypeInv, InOrder, [Next]_vars, NoLoss'
    PROVE  InOrder'
<1>0. /\ next_context_instance_id_ \in Nat /\ next_context_instance_id_' \in Nat
      /\ next_sequence_ \in Nat /\ next_sequence_' \in Nat /\ ~DriverRestart
  BY TypeStep, LossLasts DEF TypeInv, PublisherTyped, BridgeTyped
<1>1. /\ next_context_instance_id_' >= next_context_instance_id_
      /\ next_sequence_' >= next_sequence_
      /\ DOMAIN contexts_' \subseteq DOMAIN contexts_ \cup {next_context_instance_id_}
  BY <1>0, CountersGrow
<1>2. ASSUME NEW y \in Flying
      PROVE  y.id \in Nat /\ y.sequence \in Nat
  <2>1. y \in Making => y \in Lifecycle
    BY DEF Making, TypeInv, PublisherTyped
  <2>2. y \in Range(queue_) => y \in Queued
    BY RangeFacts DEF TypeInv, BridgeTyped
  <2>3. y \in Range(wire) => y \in Frame
    BY RangeFacts DEF TypeInv, SocketTyped
  <2>4. y \in Range(outgoing) => y \in Response \/ y \in Queued
    BY RangeFacts, EmptyFacts DEF TypeInv, BridgeTyped
  <2> QED BY <2>1, <2>2, <2>3, <2>4
          DEF Flying, Queued, Lifecycle, Frame, DriverEvent, Response
<1>3. ASSUME NEW y \in Flying'
      PROVE  /\ y.id < next_context_instance_id_' /\ y.sequence < next_sequence_'
             /\ y.type = "CONTEXT_RELEASED" => y.id \notin DOMAIN contexts_'
  <2>1. CASE Fits(y)
    BY <2>1 DEF Fits
  <2>2. CASE y \in Flying
    <3>1. /\ y.id < next_context_instance_id_ /\ y.sequence < next_sequence_
          /\ y.type = "CONTEXT_RELEASED" => y.id \notin DOMAIN contexts_
      BY <2>2 DEF InOrder
    <3>2. y.id \in Nat /\ y.sequence \in Nat
      BY <1>2, <2>2
    <3> QED BY <1>0, <1>1, <3>1, <3>2
  <2> QED BY <2>1, <2>2, EveryStepFits DEF AllFit
<1>4. /\ \A c \in DOMAIN registry' : c < next_context_instance_id_'
      /\ highest_sequence_' < next_sequence_'
      /\ link' # "up" => wire' = << >>
  <2>0. /\ \A c \in DOMAIN registry : c \in Nat /\ c < next_context_instance_id_
        /\ highest_sequence_ \in Nat /\ highest_sequence_ < next_sequence_
        /\ link # "up" => wire = << >>
    BY DEF TypeInv, RegistryTyped, InOrder
  <2>1. CASE Poll
    <3> DEFINE e == Head(wire)
    <3>1. e \in Flying /\ e \in Frame
      BY <2>1, PollFlies
    <3>2. e.id < next_context_instance_id_ /\ e.sequence < next_sequence_
          /\ e.id \in Nat /\ e.sequence \in Nat
      BY <1>2, <3>1 DEF InOrder
    <3>3. UNCHANGED <<next_context_instance_id_, next_sequence_, link>> /\ wire # << >>
      BY <2>1, PollFacts DEF publisher, numbers, thread
    <3> HIDE DEF e
    <3>4. Higher(e) < next_sequence_ /\ Higher(e) \in Nat
      BY <2>0, <3>2 DEF Higher
    <3>5. /\ highest_sequence_' < next_sequence_
          /\ DOMAIN registry' \subseteq DOMAIN registry \cup {e.id}
      <4>1. CASE UNCHANGED <<daemon, commands, refused>>
        BY <4>1, <2>0 DEF daemon
      <4>2. CASE highest_sequence_' = Higher(e) /\ registry' = Reconciled(registry, Higher(e))
        BY <3>4, <4>2, EntriesFacts DEF TypeInv, RegistryTyped
      <4>3. CASE /\ ~Ignored(e) /\ ~Terminator(e) /\ highest_sequence_' = Higher(e)
                 /\ registry' = MarkedStale(Observed(e), Higher(e)) \/ registry' = Observed(e)
        <5>1. Observed(e) \in [DOMAIN Observed(e) -> Entry]
              /\ DOMAIN Observed(e) \subseteq DOMAIN registry \cup {e.id}
          BY <3>1, <4>3, ObservedFacts DEF TypeInv
        <5>2. DOMAIN registry' = DOMAIN Observed(e)
          BY <3>4, <4>3, <5>1, EntriesFacts
        <5> QED BY <3>4, <4>3, <5>1, <5>2
      <4> QED BY <2>1, <4>1, <4>2, <4>3, PollFacts DEF e
    <3> QED BY <2>0, <3>2, <3>3, <3>5
  <2>2. CASE ~Poll
    <3>1. /\ DOMAIN registry' \subseteq DOMAIN registry
          /\ highest_sequence_' \in {0, highest_sequence_}
      <4>1. registry' = << >> => DOMAIN registry' = {}
        OBVIOUS
      <4> QED BY <2>2, <4>1, WireStep
    <3>2. link' # "up" => wire' = << >>
      <4>1. CASE UNCHANGED wire /\ ~EnsureConnected
        <5>1. link' = "up" => link = "up"
          BY <1>0, <4>1, NextCases, CommandsFrame DEF RunBridgeThread, HandleRescan,
             SendReplayed, SendQueued, SendQueuedFails, PutBack, ReceiveRescan,
             ReceiveSnapshot, HangUp, ReceiveCommit, SendSnapshotCommand, DaemonRestart,
             Poll, vars, thread, CloseConnection, Stamp, Enqueue
        <5>2. link = "up" /\ link' # "up" => DaemonRestart
          BY <1>0, <4>1, NextCases, CommandsFrame DEF RunBridgeThread, HandleRescan,
             SendReplayed, SendQueued, SendQueuedFails, PutBack, ReceiveRescan,
             ReceiveSnapshot, HangUp, ReceiveCommit, SendSnapshotCommand, BridgeTyped,
             Poll, vars, thread, CloseConnection, Stamp, Enqueue, TypeInv
        <5>3. DaemonRestart => wire' = << >>
          BY DEF DaemonRestart
        <5> QED BY <2>0, <4>1, <5>2, <5>3
      <4>2. CASE EnsureConnected
        BY <4>2 DEF EnsureConnected
      <4> QED BY <2>2, <4>1, <4>2, WireStep
    <3> QED BY <1>0, <1>1, <2>0, <3>1, <3>2
  <2> QED BY <2>1, <2>2
<1> QED BY <1>3, <1>4 DEF InOrder

\* The numbers on the wire are numbers, and already taken.
LEMMA WireNumbers ==
    ASSUME TypeInv, InOrder
    PROVE  /\ Len(wire) \in Nat
           /\ \A i \in 1 .. Len(wire) :
                wire[i] \in Frame /\ wire[i].sequence \in Nat /\ wire[i].sequence < next_sequence_
<1>1. wire \in Seq(Frame)
  BY DEF TypeInv, SocketTyped
<1>2. \A i \in 1 .. Len(wire) : wire[i] \in Frame /\ wire[i] \in Flying
  BY <1>1, RangeFacts DEF Flying
<1>3. Len(wire) \in Nat
  BY <1>1
<1> QED BY <1>2, <1>3 DEF InOrder, Frame, DriverEvent

LEMMA ReplayNewerStep ==
    ASSUME TypeInv, InOrder, ReplayNewer, [Next]_vars, NoLoss'
    PROVE  ReplayNewer'
<1>0. /\ wire \in Seq(Frame) /\ highest_sequence_ \in Nat /\ highest_sequence_ < next_sequence_
      /\ next_sequence_ \in Nat
  BY DEF TypeInv, SocketTyped, RegistryTyped, BridgeTyped, InOrder
<1>1. CASE Poll
  <2> DEFINE e == Head(wire)
  <2>1. /\ wire # << >> /\ wire' = Tail(wire) /\ e \in Frame
        /\ highest_sequence_' \in {highest_sequence_, Higher(e)}
    BY <1>1, PollFacts DEF daemon
  <2>2. /\ Len(wire') = Len(wire) - 1 /\ Len(wire) \in Nat /\ Len(wire) >= 1 /\ e = wire[1]
        /\ \A i \in 1 .. Len(wire) - 1 : wire'[i] = wire[i + 1]
    BY <1>0, <2>1, TailFacts
  <2> HIDE DEF e
  <2> SUFFICES ASSUME NEW i \in 1 .. Len(wire'), wire'[i].type = "RESCAN_RESPONSE"
               PROVE  /\ wire'[i].sequence > highest_sequence_'
                      /\ \A j \in 1 .. i - 1 : wire'[j].sequence < wire'[i].sequence
    BY DEF ReplayNewer
  <2>3. i \in Nat /\ i + 1 \in 1 .. Len(wire) /\ wire'[i] = wire[i + 1]
    BY <2>2
  <2>4. /\ wire[i + 1].sequence > highest_sequence_
        /\ \A j \in 1 .. i : wire[j].sequence < wire[i + 1].sequence
    BY <2>3 DEF ReplayNewer
  <2>5. wire[i + 1].sequence > e.sequence
    <3>1. 1 \in 1 .. i /\ wire[1].sequence < wire[i + 1].sequence
      BY <2>4
    <3>2. wire[1].sequence \in Nat /\ wire[i + 1].sequence \in Nat
      BY <2>2, <2>3, WireNumbers
    <3> QED BY <2>2, <3>1, <3>2
  <2>6. wire[i + 1].sequence > highest_sequence_'
    BY <2>1, <2>4, <2>5 DEF Higher
  <2>7. ASSUME NEW j \in 1 .. i - 1 PROVE wire'[j].sequence < wire'[i].sequence
    <3>1. j + 1 \in 1 .. i /\ j \in 1 .. Len(wire) - 1
      BY <2>2, <2>3
    <3> QED BY <2>2, <2>3, <2>4, <3>1
  <2> QED BY <2>3, <2>6, <2>7
<1>2. CASE UNCHANGED <<wire, highest_sequence_>>
  BY <1>2 DEF ReplayNewer
<1>3. ASSUME NEW e \in Frame, wire' = Append(wire, e), UNCHANGED highest_sequence_,
             e.type = "RESCAN_RESPONSE" => e.sequence = next_sequence_
      PROVE  ReplayNewer'
  <2>1. /\ Len(wire') = Len(wire) + 1 /\ Len(wire) \in Nat
        /\ \A i \in 1 .. Len(wire) : wire'[i] = wire[i]
        /\ wire'[Len(wire) + 1] = e
    BY <1>0, <1>3, AppendFacts
  <2> SUFFICES ASSUME NEW i \in 1 .. Len(wire'), wire'[i].type = "RESCAN_RESPONSE"
               PROVE  /\ wire'[i].sequence > highest_sequence_
                      /\ \A j \in 1 .. i - 1 : wire'[j].sequence < wire'[i].sequence
    BY <1>3 DEF ReplayNewer
  <2>2. CASE i = Len(wire) + 1
    <3>1. wire'[i].sequence = next_sequence_
      BY <1>3, <2>1, <2>2
    <3>2. ASSUME NEW j \in 1 .. i - 1 PROVE wire'[j].sequence < next_sequence_
      BY <2>1, <2>2, WireNumbers
    <3> QED BY <1>0, <3>1, <3>2
  <2>3. CASE i \in 1 .. Len(wire)
    <3>1. wire'[i] = wire[i] /\ \A j \in 1 .. i - 1 : wire'[j] = wire[j]
      BY <2>1, <2>3
    <3> QED BY <2>3, <3>1 DEF ReplayNewer
  <2> QED BY <2>1, <2>2, <2>3
<1>4. CASE wire' = << >>
  <2>1. Len(wire') = 0
    BY <1>4, EmptyFacts
  <2> QED BY <2>1 DEF ReplayNewer
<1>5. CASE wire' = <<Stamped(Event("DRIVER_HELLO", 0, FALSE))>>
  <2> DEFINE e == Stamped(Event("DRIVER_HELLO", 0, FALSE))
  <2>1. e.type = "DRIVER_HELLO"
    BY AnswerFacts
  <2> HIDE DEF e
  <2>2. Len(wire') = 1 /\ wire'[1].type # "RESCAN_RESPONSE"
    BY <1>5, <2>1 DEF e
  <2> QED BY <2>2 DEF ReplayNewer
<1>6. CASE ~Poll
  BY <1>2, <1>3, <1>4, <1>5, <1>6, WireStep, Zenon
<1> QED BY <1>1, <1>6

\* The event at the front of the wire does not make the registry forget a live
\* context, and if it introduces one the registry knows it from now on.
LEMMA PollKeeps ==
    ASSUME TypeInv, InOrder, TerminatorsSpare, Poll, link = "up",
           NEW c \in DOMAIN contexts_,
           c \in DOMAIN registry \/ Introduces(Head(wire), c)
    PROVE  c \in DOMAIN registry'
<1> DEFINE e == Head(wire)
<1>1. wire \in Seq(Frame) /\ wire # << >> /\ e \in Frame /\ c # 0 /\ RegistryTyped
      /\ registry \in [DOMAIN registry -> Entry]
  <2>1. c # 0 /\ RegistryTyped /\ wire \in Seq(Frame)
    BY DEF TypeInv, SocketTyped, PublisherTyped
  <2>2. wire # << >> /\ e \in Frame
    BY PollFacts
  <2> QED BY <2>1, <2>2 DEF RegistryTyped
<1>2. e.type = "CONTEXT_RELEASED" => e.id # c
  BY PollFlies DEF InOrder
<1>3. Higher(e) \in Nat
  BY <1>1 DEF Higher, Frame, DriverEvent, RegistryTyped
<1>4. CASE /\ Ignored(e) \/ (~Terminator(e) /\ Duplicate(e))
           /\ UNCHANGED <<daemon, commands, refused>>
  <2>1. UNCHANGED registry
    BY <1>4 DEF daemon
  <2>2. Introduces(e, c) => c \in DOMAIN registry
    BY <1>1, <1>4 DEF Introduces, Ignored, Duplicate, Known
  <2> QED BY <2>1, <2>2
<1>5. CASE Terminator(e) /\ registry' = Reconciled(registry, Higher(e))
  <2>1. ~Introduces(e, c)
    BY <1>1, <1>5 DEF Terminator, Introduces
  <2>2. 1 \in 1 .. Len(Pipe) /\ Pipe[1] = e
    <3>1. \/ outgoing \in Seq(Frame) \/ outgoing \in Seq(Response) \/ outgoing \in Seq(Queued)
      BY EmptyFacts DEF TypeInv, BridgeTyped
    <3>2. \E S : wire \in Seq(S) /\ outgoing \in Seq(S)
      <4>1. \A S : wire \in Seq(Frame \cup S)
        BY <1>1
      <4>2. \A S : outgoing \in Seq(S) => outgoing \in Seq(Frame \cup S)
        OBVIOUS
      <4> QED BY <3>1, <4>1, <4>2
    <3>3. Len(wire) \in Nat /\ Len(wire) >= 1 /\ e = wire[1]
      BY <1>1, TailFacts
    <3> HIDE DEF e
    <3> QED BY <3>2, <3>3, ConcatFacts DEF Pipe
  <2>3. Spares(1, c)
    BY <1>5, <2>2 DEF TerminatorsSpare
  <2>4. ~registry[c].stale
    BY <2>1, <2>3 DEF Spares
  <2> QED BY <1>1, <1>3, <1>5, <2>1, <2>4, EntriesFacts
<1>6. CASE /\ ~Ignored(e) /\ ~Terminator(e)
           /\ registry' = MarkedStale(Observed(e), Higher(e)) \/ registry' = Observed(e)
  <2> HIDE DEF e
  <2>1. /\ Observed(e) \in [DOMAIN Observed(e) -> Entry]
        /\ e.type = "CONTEXT_RELEASED" => DOMAIN Observed(e) = DOMAIN registry \ {e.id}
        /\ e.type # "CONTEXT_RELEASED" => DOMAIN Observed(e) = DOMAIN registry \cup {e.id}
    BY <1>1, <1>6, ObservedFacts
  <2>2. c \in DOMAIN Observed(e)
    BY <1>2, <2>1 DEF Introduces, e
  <2>3. DOMAIN registry' = DOMAIN Observed(e)
    BY <1>3, <1>6, <2>1, EntriesFacts
  <2> QED BY <2>2, <2>3
<1> QED BY <1>4, <1>5, <1>6, PollFacts

LEMMA CoveredStep ==
    ASSUME TypeInv, InOrder, Covered, TerminatorsSpare, [Next]_vars, NoLoss'
    PROVE  Covered'
<1> SUFFICES ASSUME NEW c \in DOMAIN contexts_', link' = "up", ~rescan_requested_'
             PROVE  \/ c \in DOMAIN registry'
                    \/ \E y \in Flying' : Introduces(y, c)
  BY DEF Covered
<1>0. ~DriverRestart /\ ~DaemonRestart
  BY LossLasts DEF DaemonRestart, TypeInv, BridgeTyped
<1>1. CASE Commands
  <2>1. UNCHANGED <<link, rescan_requested_, registry>>
    BY <1>1, CommandsFrame DEF thread, daemon
  <2>2. CASE c \in DOMAIN contexts_
    <3>1. \/ c \in DOMAIN registry
          \/ \E x \in Flying : Introduces(x, c)
      BY <2>1, <2>2 DEF Covered
    <3> QED BY <1>1, <2>1, <3>1, CommandsFly DEF Carried
  <2>3. CASE c \notin DOMAIN contexts_
    <3>1. contexts_ \in [DOMAIN contexts_ -> BOOLEAN]
      BY DEF TypeInv, PublisherTyped
    <3>2. PICK t \in Thread : RegisterContext(t)
      <4>1. ASSUME NEW t \in Thread, NEW d \in DOMAIN contexts_,
                   \/ PublishConfigured(t, d) \/ PublishTelemetry(t, d)
                   \/ \E enabled \in BOOLEAN : PublishEnabled(t, d, enabled)
                   \/ UnregisterContext(t, d)
            PROVE  DOMAIN contexts_' \subseteq DOMAIN contexts_
        BY <4>1, <3>1 DEF PublishConfigured, PublishTelemetry, PublishEnabled, UnregisterContext,
             Restrict
      <4> QED BY <1>1, <2>3, <4>1 DEF Commands
    <3> DEFINE e == Event("CONTEXT_CREATED", next_context_instance_id_, FALSE)
    <3>3. c = next_context_instance_id_
      BY <2>3, <3>2 DEF RegisterContext, With
    <3>4. Introduces(e, c)
      BY <3>3 DEF Introduces, Event
    <3>5. e # NoEvent
      <4>1. e \in DriverEvent
        BY DEF Event, DriverEvent, EventType, LifecycleType, TypeInv, PublisherTyped
      <4> QED BY <4>1
    <3>6. made' = [made EXCEPT ![t] = e]
      BY <3>2 DEF RegisterContext, Made
    <3> HIDE DEF e
    <3>7. e \in Making'
      BY <3>5, <3>6, MakingFacts
    <3> QED BY <3>4, <3>7 DEF Flying
  <2> QED BY <2>2, <2>3
<1>2. ASSUME NEW t \in Thread, Stamp(t) \/ Enqueue(t)
      PROVE  \/ c \in DOMAIN registry'
             \/ \E y \in Flying' : Introduces(y, c)
  <2>1. UNCHANGED <<contexts_, link, rescan_requested_, registry>>
    BY <1>2 DEF Stamp, Enqueue, thread, daemon
  <2>2. \/ c \in DOMAIN registry
        \/ \E x \in Flying : Introduces(x, c)
    BY <2>1 DEF Covered
  <2> QED BY <1>2, <2>1, <2>2, ThreadFlies DEF Carried
<1>3. CASE RunBridgeThread
  <2>1. UNCHANGED <<contexts_, registry>>
    BY <1>3 DEF RunBridgeThread, EnsureConnected, HandleRescan, SendReplayed, SendQueued,
         SendQueuedFails, PutBack, ReceiveRescan, ReceiveSnapshot, HangUp, ReceiveCommit,
         publisher, daemon
  <2>2. CASE HandleRescan
    <3>1. PICK ids \in SetToSeqs(DOMAIN contexts_) : outgoing' = Replay(ids)
      BY <2>2 DEF HandleRescan
    <3>2. PICK j \in 1 .. Len(outgoing') - 1 : outgoing'[j].id = c
      BY <2>1, <3>1, ReplayFacts DEF TypeInv
    <3>3. outgoing' \in Seq(Response)
      BY <3>1, ReplayFacts DEF TypeInv
    <3>4. outgoing'[j] \in Range(outgoing') /\ outgoing'[j] \in Response
      <4>1. j \in 1 .. Len(outgoing')
        BY <3>3
      <4> QED BY <3>3, <4>1, RangeFacts
    <3> QED BY <3>2, <3>4 DEF Flying, Introduces, Response
  <2>3. CASE ~HandleRescan
    <3>1. link = "up" /\ ~rescan_requested_
      <4>1. ~EnsureConnected
        BY Zenon DEF EnsureConnected
      <4>2. ~ReceiveRescan
        BY Zenon DEF ReceiveRescan
      <4>3. /\ \/ SendReplayed \/ SendQueued \/ SendQueuedFails \/ PutBack
               \/ ReceiveSnapshot \/ HangUp \/ \E d \in DOMAIN contexts_ : ReceiveCommit(d)
            /\ link' = "up"
        BY <1>3, <2>3, <4>1, <4>2 DEF RunBridgeThread
      <4>4. UNCHANGED rescan_requested_
        BY <4>3 DEF SendReplayed, SendQueued, SendQueuedFails, PutBack,
             ReceiveSnapshot, HangUp, ReceiveCommit, CloseConnection, thread
      <4>5. link = "up"
        <5>1. UNCHANGED link \/ link' = "down"
          BY <4>3 DEF SendReplayed, SendQueued, SendQueuedFails, PutBack,
               ReceiveSnapshot, HangUp, ReceiveCommit, CloseConnection, thread
        <5> QED BY <4>3, <5>1
      <4> QED BY <4>4, <4>5
    <3>2. \/ c \in DOMAIN registry
          \/ \E x \in Flying : Introduces(x, c)
      BY <2>1, <3>1 DEF Covered
    <3> QED BY <1>3, <2>1, <3>2, BridgeFlies DEF Carried
  <2> QED BY <2>2, <2>3
<1>4. CASE Poll
  <2>1. UNCHANGED <<contexts_, link, rescan_requested_>>
    BY <1>4, PollFacts DEF publisher, thread
  <2>2. \/ c \in DOMAIN registry
        \/ \E x \in Flying : Introduces(x, c)
    BY <2>1 DEF Covered
  <2>3. c \in DOMAIN registry \/ Introduces(Head(wire), c) => c \in DOMAIN registry'
    BY <1>4, <2>1, PollKeeps
  <2> QED BY <1>4, <2>2, <2>3, PollFlies
<1>5. CASE SendSnapshotCommand \/ UNCHANGED vars
  <2>1. UNCHANGED <<contexts_, link, rescan_requested_, registry, made, queue_, outgoing, wire>>
    BY <1>5 DEF SendSnapshotCommand, vars, publisher, thread, daemon
  <2>2. Flying' = Flying
    BY <2>1, MakingSame DEF Flying
  <2> QED BY <2>1, <2>2 DEF Covered
<1> QED BY <1>0, <1>1, <1>2, <1>3, <1>4, <1>5, NextCases

\* The wire and what follows it, place by place.
PipeTyped ==
    /\ Len(wire) \in Nat /\ Len(outgoing) \in Nat /\ Len(Pipe) = Len(wire) + Len(outgoing)
    /\ wire \in Seq(DriverEvent) /\ outgoing \in Seq(DriverEvent)
    /\ \A i \in 1 .. Len(wire) : Pipe[i] = wire[i]
    /\ \A i \in 1 .. Len(outgoing) : Pipe[Len(wire) + i] = outgoing[i]
    /\ \A i \in 1 .. Len(Pipe) : Pipe[i] \in DriverEvent

LEMMA PipeFacts == TypeInv => PipeTyped
<1> SUFFICES ASSUME TypeInv PROVE PipeTyped
  OBVIOUS
<1>1. /\ \A e \in Frame : e \in DriverEvent
      /\ \A e \in Response : e \in DriverEvent
      /\ \A e \in Queued : e \in DriverEvent
  BY DEF Frame, Response, Queued, Lifecycle, DriverEvent, EventType
<1>2. wire \in Seq(DriverEvent)
  <2>1. wire \in Seq(Frame)
    BY DEF TypeInv, SocketTyped
  <2> QED BY <1>1, <2>1
<1>3. outgoing \in Seq(DriverEvent)
  <2>1. outgoing = << >> \/ outgoing \in Seq(Response) \/ outgoing \in Seq(Queued)
    BY DEF TypeInv, BridgeTyped
  <2>2. \A S : S \subseteq DriverEvent => Seq(S) \subseteq Seq(DriverEvent)
    OBVIOUS
  <2> QED BY <1>1, <2>1, <2>2, EmptyFacts
<1>4. /\ wire \o outgoing \in Seq(DriverEvent)
      /\ Len(wire \o outgoing) = Len(wire) + Len(outgoing)
      /\ Len(wire) \in Nat /\ Len(outgoing) \in Nat
      /\ \A i \in 1 .. Len(wire) : (wire \o outgoing)[i] = wire[i]
      /\ \A i \in 1 .. Len(outgoing) : (wire \o outgoing)[Len(wire) + i] = outgoing[i]
  BY <1>2, <1>3, ConcatFacts
<1>5. \A i \in 1 .. Len(wire \o outgoing) : (wire \o outgoing)[i] \in DriverEvent
  BY <1>4
<1> QED BY <1>2, <1>3, <1>4, <1>5 DEF PipeTyped, Pipe

LEMMA PipeFactsNext == TypeInv' => PipeTyped'
BY PipeFacts, PTL

\* Whether a terminator spares a context depends on what is before it.
LEMMA SparesSame ==
    ASSUME NEW k \in Nat, NEW c, Spares(k, c), UNCHANGED registry,
           \A n \in 1 .. k : Pipe'[n].type = Pipe[n].type /\ Pipe'[n].id = Pipe[n].id
    PROVE  Spares(k, c)'
<1>1. CASE \E j \in 1 .. k - 1 : Pipe[j].id = c /\ IsReplay(j, k)
  BY <1>1 DEF Spares, IsReplay
<1>2. CASE c \in DOMAIN registry /\ ~registry[c].stale /\ IsReplay(1, k)
  BY <1>2 DEF Spares, IsReplay
<1>3. CASE c \notin DOMAIN registry /\ \A n \in 1 .. k : ~Introduces(Pipe[n], c)
  BY <1>3 DEF Spares, Introduces
<1> QED BY <1>1, <1>2, <1>3 DEF Spares

\* A step that only adds events which end no replay spares what was spared, and a
\* context with a new id is in nobody's way.
LEMMA PipeExtends ==
    ASSUME TypeInv, InOrder, TerminatorsSpare, [Next]_vars, ~DriverRestart,
           link = "up", UNCHANGED registry,
           \A n \in 1 .. Len(Pipe) : Pipe'[n].type = Pipe[n].type /\ Pipe'[n].id = Pipe[n].id,
           \A n \in 1 .. Len(Pipe') : Terminator(Pipe'[n]) => n \in 1 .. Len(Pipe)
    PROVE  TerminatorsSpare'
<1> SUFFICES ASSUME NEW k \in 1 .. Len(Pipe'), Terminator(Pipe'[k]), NEW c \in DOMAIN contexts_'
             PROVE  Spares(k, c)'
  BY DEF TerminatorsSpare, Terminator
<1>1. k \in 1 .. Len(Pipe) /\ Len(Pipe) \in Nat /\ k \in Nat
  BY PipeFacts DEF PipeTyped
<1>2. \A n \in 1 .. k : Pipe'[n].type = Pipe[n].type /\ Pipe'[n].id = Pipe[n].id
  BY <1>1
<1>3. Terminator(Pipe[k])
  BY <1>1, <1>2 DEF Terminator
<1>4. CASE c \in DOMAIN contexts_
  <2>1. Spares(k, c)
    BY <1>1, <1>3, <1>4 DEF TerminatorsSpare
  <2> QED BY <1>1, <1>2, <2>1, SparesSame
<1>5. CASE c \notin DOMAIN contexts_
  <2>1. c = next_context_instance_id_ /\ c \in Nat
    BY <1>5, CountersGrow DEF TypeInv, PublisherTyped
  <2>2. c \notin DOMAIN registry
    BY <2>1 DEF InOrder, TypeInv, RegistryTyped
  <2>3. \A n \in 1 .. Len(Pipe) : Pipe[n].id # c
    <3> SUFFICES ASSUME NEW n \in 1 .. Len(Pipe) PROVE Pipe[n].id < c
      BY <2>1, PipeFacts DEF PipeTyped, DriverEvent
    <3>1. Pipe[n] \in Range(wire) \/ Pipe[n] \in Range(outgoing)
      <4>1. Len(wire) \in Nat /\ Len(outgoing) \in Nat /\ Len(Pipe) = Len(wire) + Len(outgoing)
        BY PipeFacts DEF PipeTyped
      <4>2. CASE n \in 1 .. Len(wire)
        BY <4>2, PipeFacts, RangeFacts DEF PipeTyped
      <4>3. CASE n > Len(wire)
        <5>1. n - Len(wire) \in 1 .. Len(outgoing) /\ Len(wire) + (n - Len(wire)) = n
          BY <4>1, <4>3
        <5>2. Pipe[n] = outgoing[n - Len(wire)]
          BY <5>1, PipeFacts DEF PipeTyped
        <5> QED BY <5>1, <5>2, PipeFacts, RangeFacts DEF PipeTyped
      <4> QED BY <4>1, <4>2, <4>3
    <3> QED BY <2>1, <3>1 DEF InOrder, Flying
  <2>4. \A n \in 1 .. k : ~Introduces(Pipe[n], c)
    BY <1>1, <2>3 DEF Introduces
  <2>5. Spares(k, c)
    BY <2>2, <2>4 DEF Spares
  <2> QED BY <1>1, <1>2, <2>5, SparesSame
<1> QED BY <1>4, <1>5

\* What the event at the front does to the entry of a live context.
LEMMA PollEntries ==
    ASSUME TypeInv, ReplayNewer, Poll, NEW c \in DOMAIN contexts_
    PROVE  LET e == Head(wire) IN
           /\ e.type = "RESCAN_RESPONSE"
              /\ (e.id = c \/ (c \in DOMAIN registry /\ ~registry[c].stale))
                => c \in DOMAIN registry' /\ ~registry'[c].stale
           /\ c \notin DOMAIN registry /\ ~Introduces(e, c) => c \notin DOMAIN registry'
<1> DEFINE e == Head(wire)
<1>1. wire \in Seq(Frame) /\ wire # << >> /\ e \in Frame /\ c # 0 /\ RegistryTyped
      /\ registry \in [DOMAIN registry -> Entry]
  <2>1. c # 0 /\ RegistryTyped /\ wire \in Seq(Frame)
    BY DEF TypeInv, SocketTyped, PublisherTyped
  <2>2. wire # << >> /\ e \in Frame
    BY PollFacts
  <2> QED BY <2>1, <2>2 DEF RegistryTyped
<1>2. Higher(e) \in Nat
  BY <1>1 DEF Higher, Frame, DriverEvent, RegistryTyped
<1>3. ASSUME e.type = "RESCAN_RESPONSE" PROVE ~Duplicate(e) /\ ~Gap(e)
  <2>1. e = wire[1] /\ 1 \in 1 .. Len(wire)
    BY <1>1, TailFacts
  <2>2. e.sequence > highest_sequence_
    BY <1>3, <2>1 DEF ReplayNewer
  <2>3. e.sequence \in Nat /\ highest_sequence_ \in Nat
        /\ \A d \in DOMAIN registry : registry[d].last_sequence \in 1 .. highest_sequence_
    BY <1>1 DEF Frame, DriverEvent, RegistryTyped
  <2> HIDE DEF e
  <2> QED BY <1>3, <2>2, <2>3 DEF Duplicate, Gap, Known
<1> HIDE DEF e
<1>4. CASE /\ Ignored(e) \/ (~Terminator(e) /\ Duplicate(e))
           /\ UNCHANGED <<daemon, commands, refused>>
  <2>1. UNCHANGED registry
    BY <1>4 DEF daemon
  <2>2. e.type = "RESCAN_RESPONSE" => ~Ignored(e)
    BY DEF Ignored
  <2>3. e.type # "RESCAN_RESPONSE"
    BY <1>3, <1>4, <2>2
  <2> QED BY <2>1, <2>3 DEF e
<1>5. CASE Terminator(e) /\ registry' = Reconciled(registry, Higher(e))
  <2>1. e.id # c
    BY <1>1, <1>5 DEF Terminator
  <2>2. DOMAIN registry' \subseteq DOMAIN registry
    BY <1>1, <1>2, <1>5, EntriesFacts
  <2>3. c \in DOMAIN registry /\ ~registry[c].stale => c \in DOMAIN registry' /\ ~registry'[c].stale
    BY <1>1, <1>2, <1>5, EntriesFacts
  <2> QED BY <2>1, <2>2, <2>3 DEF e
<1>6. CASE /\ ~Ignored(e) /\ ~Terminator(e)
           /\ \/ Gap(e) /\ registry' = MarkedStale(Observed(e), Higher(e))
              \/ ~Gap(e) /\ registry' = Observed(e)
  <2>1. /\ Observed(e) \in [DOMAIN Observed(e) -> Entry]
        /\ e.type = "CONTEXT_RELEASED" => DOMAIN Observed(e) = DOMAIN registry \ {e.id}
        /\ e.type # "CONTEXT_RELEASED" =>
            /\ DOMAIN Observed(e) = DOMAIN registry \cup {e.id}
            /\ Observed(e)[e.id].stale = StaleAfter(e)
        /\ \A d \in DOMAIN registry \ {e.id} : Observed(e)[d] = registry[d]
    BY <1>1, <1>6, ObservedFacts
  <2>2. DOMAIN registry' = DOMAIN Observed(e)
    BY <1>2, <1>6, <2>1, EntriesFacts
  <2>3. c \notin DOMAIN registry /\ ~Introduces(e, c) => c \notin DOMAIN registry'
    <3>1. e.id = c /\ c \notin DOMAIN registry => Introduces(e, c)
      BY <1>1, <1>6 DEF Ignored, Known, Introduces
    <3> QED BY <2>1, <2>2, <3>1
  <2>4. ASSUME e.type = "RESCAN_RESPONSE",
               e.id = c \/ (c \in DOMAIN registry /\ ~registry[c].stale)
        PROVE  c \in DOMAIN registry' /\ ~registry'[c].stale
    <3>1. registry' = Observed(e)
      BY <1>3, <1>6, <2>4
    <3>2. CASE e.id = c
      <4>1. ~StaleAfter(e)
        BY <2>4 DEF StaleAfter
      <4>2. c \in DOMAIN Observed(e) /\ Observed(e)[c].stale = StaleAfter(e)
        BY <2>1, <2>4, <3>2
      <4> QED BY <3>1, <4>1, <4>2, Zenon
    <3>3. CASE e.id # c
      <4>1. c \in DOMAIN Observed(e) /\ Observed(e)[c] = registry[c]
        BY <2>1, <2>4, <3>3
      <4> QED BY <2>4, <3>1, <3>3, <4>1, Zenon
    <3> QED BY <3>2, <3>3
  <2> QED BY <2>3, <2>4 DEF e
<1> QED BY <1>4, <1>5, <1>6, PollFacts DEF e

LEMMA PollSpares ==
    ASSUME TypeInv, TypeInv', InOrder, ReplayNewer, TerminatorsSpare, Poll
    PROVE  TerminatorsSpare'
<1> DEFINE e == Head(wire)
<1>1. wire # << >> /\ wire' = Tail(wire) /\ UNCHANGED <<contexts_, outgoing, link>>
  BY PollFacts DEF publisher, thread
<1>2. /\ Len(Pipe') = Len(Pipe) - 1 /\ Len(Pipe) \in Nat /\ Len(Pipe) >= 1 /\ Pipe[1] = e
      /\ \A n \in 1 .. Len(Pipe') : Pipe'[n] = Pipe[n + 1]
  <2>1. PipeTyped /\ PipeTyped'
    BY PipeFacts, PipeFactsNext
  <2>2. /\ Len(wire') = Len(wire) - 1 /\ Len(wire) \in Nat /\ Len(wire) >= 1 /\ e = wire[1]
        /\ \A i \in 1 .. Len(wire) - 1 : wire'[i] = wire[i + 1]
    BY <1>1, <2>1, TailFacts DEF PipeTyped
  <2> HIDE DEF e
  <2>3. /\ Len(Pipe') = Len(Pipe) - 1 /\ Len(Pipe) \in Nat /\ Len(Pipe) >= 1 /\ Pipe[1] = e
    BY <1>1, <2>1, <2>2 DEF PipeTyped
  <2>4. ASSUME NEW n \in 1 .. Len(Pipe') PROVE Pipe'[n] = Pipe[n + 1]
    <3>1. CASE n <= Len(wire')
      <4>1. n \in 1 .. Len(wire') /\ n + 1 \in 1 .. Len(wire)
        BY <2>2, <3>1
      <4> QED BY <2>1, <2>2, <4>1 DEF PipeTyped
    <3>2. CASE n > Len(wire')
      <4>1. /\ n - Len(wire') \in 1 .. Len(outgoing) /\ Len(wire') + (n - Len(wire')) = n
            /\ Len(wire) + (n - Len(wire')) = n + 1
        BY <1>1, <2>1, <2>2, <3>2 DEF PipeTyped
      <4>2. Pipe'[n] = outgoing[n - Len(wire')]
        BY <1>1, <2>1, <4>1 DEF PipeTyped
      <4>3. Pipe[n + 1] = outgoing[n - Len(wire')]
        BY <2>1, <4>1 DEF PipeTyped
      <4> QED BY <4>2, <4>3
    <3> QED BY <2>2, <3>1, <3>2
  <2> QED BY <2>3, <2>4
<1> HIDE DEF e
<1> SUFFICES ASSUME link = "up", NEW k \in 1 .. Len(Pipe'), Terminator(Pipe'[k]),
                    NEW c \in DOMAIN contexts_
             PROVE  Spares(k, c)'
  BY <1>1 DEF TerminatorsSpare, Terminator
<1>3. k \in Nat /\ k >= 1 /\ k + 1 \in 1 .. Len(Pipe) /\ Pipe'[k] = Pipe[k + 1]
      /\ \A n \in 1 .. k : Pipe'[n] = Pipe[n + 1]
  BY <1>2
<1>4. Spares(k + 1, c)
  BY <1>3 DEF TerminatorsSpare
<1>5. /\ e.type = "RESCAN_RESPONSE"
         /\ (e.id = c \/ (c \in DOMAIN registry /\ ~registry[c].stale))
            => c \in DOMAIN registry' /\ ~registry'[c].stale
      /\ c \notin DOMAIN registry /\ ~Introduces(e, c) => c \notin DOMAIN registry'
  BY PollEntries DEF e
<1>6. ASSUME NEW j \in 1 .. k, IsReplay(j, k + 1)
      PROVE  \A n \in j .. k : Pipe'[n].type = "RESCAN_RESPONSE"
  <2> TAKE n \in j .. k
  <2>1. n + 1 \in j .. k + 1 /\ n \in 1 .. k
    BY <1>3
  <2> QED BY <1>3, <1>6, <2>1 DEF IsReplay
<1>7. ASSUME NEW j \in 1 .. k, Pipe[j].id = c, IsReplay(j, k + 1) PROVE Spares(k, c)'
  <2>1. CASE j = 1
    <3>1. e.type = "RESCAN_RESPONSE" /\ e.id = c
      BY <1>2, <1>3, <1>7, <2>1 DEF IsReplay
    <3>2. IsReplay(1, k)'
      BY <1>6, <1>7, <2>1 DEF IsReplay
    <3>3. c \in DOMAIN registry' /\ ~registry'[c].stale
      BY <1>5, <3>1
    <3> QED BY <3>2, <3>3, Zenon DEF Spares
  <2>2. CASE j # 1
    <3>1. j - 1 \in 1 .. k - 1 /\ Pipe'[j - 1].id = c
      <4>1. j - 1 \in 1 .. k - 1 /\ j - 1 \in 1 .. k /\ (j - 1) + 1 = j
        BY <1>3, <2>2
      <4>2. Pipe'[j - 1] = Pipe[j]
        BY <1>3, <4>1
      <4> QED BY <1>7, <4>1, <4>2
    <3>2. IsReplay(j - 1, k)'
      <4> SUFFICES ASSUME NEW n \in j - 1 .. k PROVE Pipe'[n].type = "RESCAN_RESPONSE"
        BY DEF IsReplay
      <4>1. n + 1 \in j .. k + 1 /\ n \in 1 .. k
        BY <1>3, <2>2
      <4> QED BY <1>3, <1>7, <4>1 DEF IsReplay
    <3> QED BY <3>1, <3>2 DEF Spares
  <2> QED BY <2>1, <2>2
<1>8. CASE c \in DOMAIN registry /\ ~registry[c].stale /\ IsReplay(1, k + 1)
  <2>1. e.type = "RESCAN_RESPONSE"
    BY <1>2, <1>3, <1>8 DEF IsReplay
  <2>2. IsReplay(1, k)'
    <3>1. 1 \in 1 .. k
      BY <1>3
    <3> QED BY <1>6, <1>8, <3>1 DEF IsReplay
  <2> QED BY <1>5, <1>8, <2>1, <2>2 DEF Spares
<1>9. CASE c \notin DOMAIN registry /\ \A n \in 1 .. k + 1 : ~Introduces(Pipe[n], c)
  <2>1. ~Introduces(e, c)
    BY <1>2, <1>3, <1>9
  <2>2. \A n \in 1 .. k : ~Introduces(Pipe'[n], c)
    <3> TAKE n \in 1 .. k
    <3>1. n + 1 \in 1 .. k + 1
      BY <1>3
    <3> QED BY <1>3, <1>9, <3>1
  <2>3. \A n \in 1 .. k : ~Introduces(Pipe[n], c)'
    BY <2>2 DEF Introduces
  <2> QED BY <1>5, <1>9, <2>1, <2>3 DEF Spares
<1>10. 1 .. (k + 1) - 1 = 1 .. k
  BY <1>3
<1> QED BY <1>4, <1>7, <1>8, <1>9, <1>10 DEF Spares

\* A replay that is collected names every live context before its terminator.
LEMMA RescanSpares ==
    ASSUME TypeInv, TypeInv', TerminatorsSpare, HandleRescan
    PROVE  TerminatorsSpare'
<1>1. PICK ids \in SetToSeqs(DOMAIN contexts_) : outgoing' = Replay(ids)
  BY DEF HandleRescan
<1>2. UNCHANGED <<contexts_, registry, wire, link>> /\ outgoing = << >>
  BY DEF HandleRescan, TypeInv, BridgeTyped, publisher, daemon
<1>3. PipeTyped /\ PipeTyped' /\ Len(outgoing) = 0
  BY <1>2, PipeFacts, PipeFactsNext, EmptyFacts
<1>4. /\ \A e \in Range(outgoing') : e.type = "RESCAN_RESPONSE"
      /\ \A c \in DOMAIN contexts_ : \E j \in 1 .. Len(outgoing') - 1 : outgoing'[j].id = c
      /\ \A k \in 1 .. Len(outgoing') : Terminator(outgoing'[k]) => k = Len(outgoing')
  BY <1>1, ReplayFacts DEF TypeInv
<1>5. \A i \in 1 .. Len(outgoing') : outgoing'[i].type = "RESCAN_RESPONSE"
  BY <1>3, <1>4, RangeFacts DEF PipeTyped
<1>6. /\ Len(wire) \in Nat /\ Len(outgoing') \in Nat /\ Len(Pipe) = Len(wire)
      /\ Len(Pipe') = Len(wire) + Len(outgoing')
      /\ \A i \in 1 .. Len(wire) : Pipe'[i] = Pipe[i]
      /\ \A i \in 1 .. Len(outgoing') : Pipe'[Len(wire) + i] = outgoing'[i]
  <2>1. /\ Len(wire) \in Nat /\ Len(Pipe) = Len(wire) + Len(outgoing)
        /\ \A i \in 1 .. Len(wire) : Pipe[i] = wire[i]
    BY <1>3 DEF PipeTyped
  <2>2. /\ Len(outgoing') \in Nat /\ Len(Pipe') = Len(wire') + Len(outgoing')
        /\ \A i \in 1 .. Len(wire') : Pipe'[i] = wire'[i]
        /\ \A i \in 1 .. Len(outgoing') : Pipe'[Len(wire') + i] = outgoing'[i]
    BY <1>3 DEF PipeTyped
  <2>3. wire' = wire /\ Len(outgoing) = 0
    BY <1>2, <1>3
  <2> QED BY <2>1, <2>2, <2>3
<1> SUFFICES ASSUME link = "up", NEW k \in 1 .. Len(Pipe'), Terminator(Pipe'[k]),
                    NEW c \in DOMAIN contexts_
             PROVE  Spares(k, c)'
  BY <1>2 DEF TerminatorsSpare, Terminator
<1>7. CASE k <= Len(wire)
  <2>1. k \in Nat /\ k \in 1 .. Len(Pipe) /\ \A n \in 1 .. k : Pipe'[n] = Pipe[n]
    BY <1>6, <1>7
  <2>2. Spares(k, c)
    BY <2>1 DEF TerminatorsSpare
  <2> QED BY <1>2, <2>1, <2>2, SparesSame
<1>8. CASE k > Len(wire)
  <2>1. /\ k - Len(wire) \in 1 .. Len(outgoing') /\ Len(wire) + (k - Len(wire)) = k
        /\ k \in Nat
    BY <1>6, <1>8
  <2>2. PICK j \in 1 .. Len(outgoing') - 1 : outgoing'[j].id = c
    BY <1>4
  <2>3. k - Len(wire) = Len(outgoing')
    BY <1>4, <1>6, <2>1
  <2>4. Len(wire) + j \in 1 .. k - 1 /\ Pipe'[Len(wire) + j].id = c
    <3>1. j \in 1 .. Len(outgoing') /\ Len(wire) + j \in 1 .. k - 1
      BY <1>6, <2>1, <2>3
    <3> QED BY <1>6, <2>2, <3>1
  <2>5. IsReplay(Len(wire) + j, k)'
    <3> SUFFICES ASSUME NEW n \in Len(wire) + j .. k PROVE Pipe'[n].type = "RESCAN_RESPONSE"
      BY <1>2 DEF IsReplay
    <3>1. n - Len(wire) \in 1 .. Len(outgoing') /\ Len(wire) + (n - Len(wire)) = n
      BY <1>6, <2>1, <2>3
    <3> QED BY <1>5, <1>6, <3>1
  <2> QED BY <1>2, <2>4, <2>5 DEF Spares
<1> QED BY <1>6, <1>7, <1>8

\* An event that joins the wire while the bridge's hands are empty ends no replay.
LEMMA AppendSpares ==
    ASSUME TypeInv, TypeInv', InOrder, TerminatorsSpare, [Next]_vars, ~DriverRestart,
           link = "up", UNCHANGED <<registry, outgoing>>, outgoing = << >>,
           NEW e \in Frame, wire' = Append(wire, e), e.type # "RESCAN_RESPONSE"
    PROVE  TerminatorsSpare'
<1>1. PipeTyped /\ PipeTyped' /\ Len(outgoing) = 0
  BY PipeFacts, PipeFactsNext, EmptyFacts
<1>2. /\ Len(wire') = Len(wire) + 1 /\ Len(wire) \in Nat
      /\ \A i \in 1 .. Len(wire) : wire'[i] = wire[i]
      /\ wire'[Len(wire) + 1] = e
  BY AppendFacts DEF TypeInv, SocketTyped
<1>3. /\ Len(Pipe) = Len(wire) /\ Len(Pipe') = Len(wire) + 1 /\ Pipe'[Len(wire) + 1] = e
      /\ \A i \in 1 .. Len(wire) : Pipe'[i] = Pipe[i]
  BY <1>1, <1>2 DEF PipeTyped
<1>4. \A n \in 1 .. Len(Pipe') : Terminator(Pipe'[n]) => n \in 1 .. Len(Pipe)
  BY <1>2, <1>3 DEF Terminator
<1> QED BY <1>3, <1>4, PipeExtends

\* A replayed event keeps its place as it goes from the bridge's hands to the wire.
LEMMA ReplayedSpares ==
    ASSUME TypeInv, TypeInv', InOrder, TerminatorsSpare, NoLoss', SendReplayed, link = "up"
    PROVE  TerminatorsSpare'
<1> DEFINE x == Head(outgoing)
           e == Stamped(x)
<1>1. Send(e) /\ outgoing' = Tail(outgoing) /\ UNCHANGED <<registry, contexts_>>
  BY DEF SendReplayed, publisher, daemon
<1>2. outgoing \in Seq(Response) /\ outgoing # << >>
  BY DEF SendReplayed, TypeInv, BridgeTyped
<1>3. /\ Len(outgoing') = Len(outgoing) - 1 /\ Len(outgoing) \in Nat /\ Len(outgoing) >= 1
      /\ x = outgoing[1] /\ x \in Response
      /\ \A i \in 1 .. Len(outgoing) - 1 : outgoing'[i] = outgoing[i + 1]
  BY <1>1, <1>2, TailFacts
<1>4. e.type = x.type /\ e.id = x.id /\ e \in Frame
  <2>1. x \in DriverEvent
    <3> HIDE DEF x
    <3> QED BY <1>3 DEF Response, DriverEvent, EventType
  <2> QED BY <1>3, <2>1, StampedFacts, FrameFacts
<1> HIDE DEF x, e
<1>5. wire' = Append(wire, e)
  BY <1>1, <1>4, SendAppends DEF TypeInv, NoLoss
<1>6. /\ Len(wire') = Len(wire) + 1 /\ Len(wire) \in Nat
      /\ \A i \in 1 .. Len(wire) : wire'[i] = wire[i]
      /\ wire'[Len(wire) + 1] = e
  BY <1>4, <1>5, AppendFacts DEF TypeInv, SocketTyped
<1>7. PipeTyped /\ PipeTyped'
  BY PipeFacts, PipeFactsNext
<1>8. Len(Pipe') = Len(Pipe) /\ Len(Pipe) \in Nat
  BY <1>3, <1>6, <1>7 DEF PipeTyped
<1>9. ASSUME NEW n \in 1 .. Len(Pipe)
      PROVE  Pipe'[n].type = Pipe[n].type /\ Pipe'[n].id = Pipe[n].id
  <2>1. CASE n <= Len(wire)
    <3>1. n \in 1 .. Len(wire) /\ n \in 1 .. Len(wire')
      BY <1>6, <2>1
    <3> QED BY <1>6, <1>7, <3>1 DEF PipeTyped
  <2>2. CASE n = Len(wire) + 1
    <3>1. Pipe'[n] = e
      <4>1. n \in 1 .. Len(wire')
        BY <1>6, <2>2
      <4> QED BY <1>6, <1>7, <2>2, <4>1 DEF PipeTyped
    <3>2. Pipe[n] = x
      <4>1. 1 \in 1 .. Len(outgoing)
        BY <1>3
      <4> QED BY <1>3, <1>7, <2>2, <4>1 DEF PipeTyped
    <3> QED BY <1>4, <3>1, <3>2
  <2>3. CASE n > Len(wire) + 1
    <3>1. /\ n - Len(wire) - 1 \in 1 .. Len(outgoing) - 1
          /\ n - Len(wire) \in 1 .. Len(outgoing)
          /\ Len(wire') + (n - Len(wire) - 1) = n /\ Len(wire) + (n - Len(wire)) = n
          /\ (n - Len(wire) - 1) + 1 = n - Len(wire)
      BY <1>3, <1>6, <1>7, <2>3 DEF PipeTyped
    <3>2. Pipe[n] = outgoing[n - Len(wire)]
      BY <1>7, <3>1 DEF PipeTyped
    <3>3. Pipe'[n] = outgoing'[n - Len(wire) - 1]
      BY <1>3, <1>7, <3>1 DEF PipeTyped
    <3> QED BY <1>3, <3>1, <3>2, <3>3
  <2> QED BY <1>6, <2>1, <2>2, <2>3
<1>10. [Next]_vars /\ ~DriverRestart
  <2>1. [Next]_vars
    BY NextCases DEF RunBridgeThread
  <2> QED BY <2>1, LossLasts
<1> QED BY <1>1, <1>8, <1>9, <1>10, PipeExtends

LEMMA PipeSame ==
    ASSUME TypeInv, InOrder, TerminatorsSpare, [Next]_vars, ~DriverRestart,
           link = "up", UNCHANGED <<wire, outgoing, registry>>
    PROVE  TerminatorsSpare'
<1>1. Pipe' = Pipe
  BY DEF Pipe
<1> QED BY <1>1, PipeExtends

LEMMA TerminatorsSpareStep ==
    ASSUME TypeInv, InOrder, ReplayNewer, TerminatorsSpare, [Next]_vars, NoLoss'
    PROVE  TerminatorsSpare'
<1>0. TypeInv' /\ ~DriverRestart
  BY TypeStep, LossLasts
<1>1. CASE link' # "up"
  BY <1>1 DEF TerminatorsSpare
<1>2. CASE Poll
  BY <1>0, <1>2, PollSpares
<1>3. CASE HandleRescan
  BY <1>0, <1>3, RescanSpares
<1>4. CASE SendReplayed /\ link' = "up"
  <2>1. link = "up"
    BY <1>4 DEF SendReplayed, CloseConnection
  <2> QED BY <1>0, <1>4, <2>1, ReplayedSpares
<1>5. CASE EnsureConnected
  <2> DEFINE e == Stamped(Event("DRIVER_HELLO", 0, FALSE))
  <2>1. wire' = <<e>> /\ UNCHANGED outgoing /\ outgoing = << >>
    BY <1>5 DEF EnsureConnected, TypeInv, BridgeTyped
  <2>2. e.type = "DRIVER_HELLO"
    BY AnswerFacts
  <2> HIDE DEF e
  <2>3. PipeTyped' /\ Len(outgoing') = 0 /\ Len(wire') = 1 /\ wire'[1] = e
    BY <1>0, <2>1, PipeFactsNext, EmptyFacts
  <2>4. Len(Pipe') = 1 /\ Pipe'[1] = e
    BY <2>3 DEF PipeTyped
  <2>5. \A k \in 1 .. Len(Pipe') : ~Terminator(Pipe'[k])
    BY <2>2, <2>4 DEF Terminator
  <2> QED BY <2>5 DEF TerminatorsSpare, Terminator
<1>6. CASE /\ link' = "up" /\ ~Poll
           /\ SendQueued \/ ReceiveSnapshot \/ \E c \in DOMAIN contexts_ : ReceiveCommit(c)
  <2>1. bridge = "idle" /\ link = "up" /\ UNCHANGED <<outgoing, registry>>
    BY <1>6 DEF SendQueued, Draining, ReceiveSnapshot, ReceiveCommit, Receives, thread, daemon
  <2>2. outgoing = << >>
    BY <2>1 DEF TypeInv, BridgeTyped
  <2>3. ~SendReplayed /\ ~EnsureConnected /\ ~DaemonRestart
    BY <1>6, <2>1 DEF SendReplayed, EnsureConnected, DaemonRestart
  <2>4. CASE UNCHANGED wire
    BY <1>0, <2>1, <2>4, PipeSame
  <2>5. CASE \E e \in Frame : wire' = Append(wire, e) /\ e.type # "RESCAN_RESPONSE"
    BY <1>0, <2>1, <2>2, <2>5, AppendSpares
  <2> QED BY <1>6, <2>3, <2>4, <2>5, WireStep
<1>7. CASE \/ Commands \/ SendSnapshotCommand \/ ReceiveRescan \/ UNCHANGED vars
           \/ \E t \in Thread : Stamp(t) \/ Enqueue(t)
  <2>1. UNCHANGED <<wire, outgoing, registry, link>>
    BY <1>7, CommandsFrame DEF SendSnapshotCommand, ReceiveRescan, vars, thread, daemon, Stamp,
         Enqueue
  <2> QED BY <1>0, <1>1, <2>1, PipeSame
<1>8. SendQueuedFails \/ PutBack \/ HangUp \/ DaemonRestart => link' # "up"
  BY DEF SendQueuedFails, PutBack, HangUp, DaemonRestart, CloseConnection, TypeInv, BridgeTyped
<1> QED BY <1>0, <1>1, <1>2, <1>3, <1>4, <1>5, <1>6, <1>7, <1>8, NextCases DEF RunBridgeThread

LEMMA CoverInit == Init => CoverInv
<1> SUFFICES ASSUME Init PROVE Undropped
  BY DEF CoverInv
<1>1. /\ contexts_ = << >> /\ DOMAIN contexts_ = {} /\ DOMAIN registry = {}
      /\ queue_ = << >> /\ outgoing = << >> /\ wire = << >> /\ link = "down"
      /\ highest_sequence_ = 0 /\ next_sequence_ = 1 /\ \A t \in Thread : made[t] = NoEvent
  BY DEF Init
<1>2. Flying = {}
  BY <1>1, EmptyFacts DEF Flying, Making
<1>3. InOrder
  BY <1>1, <1>2 DEF InOrder
<1>4. ReplayNewer
  BY <1>1, EmptyFacts DEF ReplayNewer
<1> QED BY <1>1, <1>3, <1>4 DEF Undropped, Covered, TerminatorsSpare

LEMMA CoverStep == TypeInv /\ CoverInv /\ [Next]_vars => CoverInv'
<1> SUFFICES ASSUME TypeInv, CoverInv, [Next]_vars, NoLoss' PROVE Undropped'
  BY DEF CoverInv
<1>1. InOrder /\ ReplayNewer /\ Covered /\ TerminatorsSpare
  BY LossLasts DEF CoverInv, Undropped
<1> QED BY <1>1, InOrderStep, ReplayNewerStep, CoveredStep, TerminatorsSpareStep DEF Undropped

LEMMA CoverImplied == TypeInv /\ CoverInv => NoContextLost
<1> SUFFICES ASSUME TypeInv, CoverInv, Quiet, NoLoss, NEW c \in DOMAIN contexts_
             PROVE  c \in DOMAIN registry
  BY DEF NoContextLost
<1>1. Flying = {}
  BY EmptyFacts DEF Quiet, Flying, Making
<1>2. link = "up" /\ ~rescan_requested_
  BY DEF Quiet
<1> QED BY <1>1, <1>2 DEF CoverInv, Undropped, Covered

\* Gaps, replays in any order, terminators that erase what was not replayed,
\* reconnections and restarted daemons never make the registry forget a live
\* context, whatever the number of contexts and threads and the size of the queue
\* and the sockets, as long as none of them overflows (RescanComplete, HandleRescan).
THEOREM NoContextLostCorrect == Spec => []NoContextLost
<1>1. Spec => []TypeInv
  BY TypeInit, TypeStep, PTL DEF Spec
<1>2. Spec => []CoverInv
  BY <1>1, CoverInit, CoverStep, PTL DEF Spec
<1> QED BY <1>1, <1>2, CoverImplied, PTL

-----------------------------------------------------------------------------
(* The view is wrong only where an event was overtaken *)

\* The numbered events in the order in which they will arrive, and those that are
\* not queued yet and will arrive later.
Back == IF bridge = "failed" THEN outgoing \o queue_ ELSE queue_

Line == wire \o Back

Tagged == {e \in Making : e.sequence # 0}

\* An event says of its context what is now the case.
Right(live, e) ==
    IF e.type = "CONTEXT_RELEASED" THEN e.id \notin DOMAIN live
    ELSE /\ e.type \notin {"TELEMETRY", "DRIVER_HELLO", "ANSWER"} /\ e.id \in DOMAIN live
         /\ e.type = "CONTEXT_ENABLED" => live[e.id]
         /\ e.type = "CONTEXT_DISABLED" => ~live[e.id]
         /\ e.type = "RESCAN_RESPONSE" => live[e.id] = e.enabled

\* An event e after w does not change what the registry learnt from w.
Beaten(e, w) ==
    \/ e.type = "TELEMETRY"
    \/ e.sequence < w.sequence /\ (w.type = "RESCAN_RESPONSE" \/ ~Introduces(e, e.id))

\* Event i of s has the last word on context c.
Leads(s, i, c) ==
    /\ s[i].id = c
    /\ \A j \in 1 .. i - 1 : s[j].id = c => s[j].sequence < s[i].sequence
    /\ \A j \in i + 1 .. Len(s) : s[j].id = c => Beaten(s[j], s[i])

KnownBefore(entries, c, n) == c \in DOMAIN entries => entries[c].last_sequence < n

\* How a context is, or will be, rightly known.  The last word is being published...
Pending(c) ==
    \E e \in Making :
        /\ e.id = c /\ e.type # "TELEMETRY"
        /\ e.sequence # 0 =>
            /\ KnownBefore(registry, c, e.sequence)
            /\ \A x \in Range(Line) : x.id = c => x.sequence < e.sequence

\* ...or is on its way...
OnItsWay(c) ==
    \E i \in 1 .. Len(Line) :
        /\ Leads(Line, i, c) /\ Right(contexts_, Line[i])
        /\ KnownBefore(registry, c, Line[i].sequence)
        /\ \A e \in Tagged : e.id = c => Beaten(e, Line[i])

\* ...or has arrived...
Settled(c) ==
    /\ c \in DOMAIN registry /\ Agrees(c)
    /\ \A e \in Range(Line) \cup Tagged :
        e.id = c => e.type = "TELEMETRY" \/ e.sequence <= registry[c].last_sequence

\* ...or a replay will say it before anything else...
ReplayDue(c) ==
    /\ c \in DOMAIN contexts_ /\ c \notin DOMAIN registry
    /\ \A e \in Range(wire) : ~Introduces(e, c)
    /\ \/ link # "up" \/ rescan_requested_
       \/ bridge = "replay" /\ \E e \in Range(outgoing) : e.id = c

\* ...or the registry will not hear of the context.
Silent(c) ==
    /\ c \notin DOMAIN registry
    /\ \A e \in Range(Line) \cup Tagged : ~Introduces(e, c)

Accounted(c) == Pending(c) \/ OnItsWay(c) \/ Settled(c) \/ ReplayDue(c) \/ Silent(c)

\* A context has one event in the making, and it says what is now the case.
MadeApart ==
    \A t, u \in Thread :
        made[t] # NoEvent /\ made[u] # NoEvent /\ made[t].id = made[u].id => t = u

MadeRight == \A e \in Making : e.type # "TELEMETRY" => Right(contexts_, e)

\* The link is lost only with the daemon.
LinkLost == link # "up" => DOMAIN registry = {}

InView ==
    /\ MadeApart /\ MadeRight /\ LinkLost
    /\ \A c \in Nat \ {0} : c \in overtaken \/ Accounted(c)

ViewInv == NoLoss => InView

\* The last word keeps its place when events of other contexts come between,
\* when an event it beats is appended, and when what is before it is dropped.
LEMMA LeadsInserted ==
    ASSUME NEW a \in Seq(Frame), NEW b \in Seq(Frame), NEW x \in Frame, NEW c,
           NEW i \in 1 .. Len(a \o b), Leads(a \o b, i, c), x.id # c
    PROVE  \E k \in 1 .. Len(Append(a, x) \o b) :
              /\ Leads(Append(a, x) \o b, k, c)
              /\ (Append(a, x) \o b)[k] = (a \o b)[i]
<1> DEFINE s == a \o b
           u == Append(a, x) \o b
<1>1. /\ s \in Seq(Frame) /\ Len(s) = Len(a) + Len(b) /\ Len(a) \in Nat /\ Len(b) \in Nat
      /\ \A j \in 1 .. Len(a) : s[j] = a[j]
      /\ \A j \in 1 .. Len(b) : s[Len(a) + j] = b[j]
  BY ConcatFacts
<1>2. /\ Append(a, x) \in Seq(Frame) /\ Len(Append(a, x)) = Len(a) + 1
      /\ \A j \in 1 .. Len(a) : Append(a, x)[j] = a[j]
      /\ Append(a, x)[Len(a) + 1] = x
  BY AppendFacts
<1>3. /\ u \in Seq(Frame) /\ Len(u) = Len(a) + 1 + Len(b)
      /\ \A j \in 1 .. Len(a) + 1 : u[j] = Append(a, x)[j]
      /\ \A j \in 1 .. Len(b) : u[Len(a) + 1 + j] = b[j]
  BY <1>2, ConcatFacts
<1> HIDE DEF s, u
<1>4. ASSUME NEW j \in 1 .. Len(u)
      PROVE  \/ j <= Len(a) /\ j \in 1 .. Len(s) /\ u[j] = s[j]
             \/ j = Len(a) + 1 /\ u[j] = x
             \/ j > Len(a) + 1 /\ j - 1 \in 1 .. Len(s) /\ u[j] = s[j - 1]
  <2>1. CASE j <= Len(a)
    <3>1. j \in 1 .. Len(a) /\ j \in 1 .. Len(a) + 1 /\ j \in 1 .. Len(s)
      BY <1>1, <2>1
    <3>2. u[j] = Append(a, x)[j]
      BY <1>3, <3>1
    <3>3. Append(a, x)[j] = a[j] /\ s[j] = a[j]
      BY <1>1, <1>2, <3>1
    <3> QED BY <2>1, <3>1, <3>2, <3>3
  <2>2. CASE j = Len(a) + 1
    BY <1>1, <1>2, <1>3, <2>2
  <2>3. CASE j > Len(a) + 1
    <3>1. j - (Len(a) + 1) \in 1 .. Len(b)
      BY <1>1, <1>3, <2>3
    <3>2. u[Len(a) + 1 + (j - (Len(a) + 1))] = b[j - (Len(a) + 1)]
      BY <1>3, <3>1
    <3>3. s[Len(a) + (j - (Len(a) + 1))] = b[j - (Len(a) + 1)]
      BY <1>1, <3>1
    <3>4. /\ Len(a) + 1 + (j - (Len(a) + 1)) = j /\ Len(a) + (j - (Len(a) + 1)) = j - 1
          /\ j - 1 \in 1 .. Len(s)
      BY <1>1, <1>3, <2>3
    <3> QED BY <2>3, <3>2, <3>3, <3>4
  <2>4. Len(a) \in Nat /\ j \in Int
    BY <1>1
  <2>5. j <= Len(a) \/ j = Len(a) + 1 \/ j > Len(a) + 1
    BY <2>4
  <2> QED BY <2>1, <2>2, <2>3, <2>5
<1>5. i \in 1 .. Len(s) /\ Leads(s, i, c)
  BY DEF s
<1>6. PICK n \in 1 .. Len(u) : u[n] = s[i] /\ n = IF i <= Len(a) THEN i ELSE i + 1
  <2>1. CASE i <= Len(a)
    <3>1. i \in 1 .. Len(u) /\ i # Len(a) + 1 /\ ~(i > Len(a) + 1)
      BY <1>1, <1>3, <1>5, <2>1
    <3> QED BY <1>4, <2>1, <3>1
  <2>2. CASE i > Len(a)
    <3>1. i + 1 \in 1 .. Len(u) /\ i + 1 > Len(a) + 1 /\ i + 1 - 1 = i /\ ~(i <= Len(a))
      BY <1>1, <1>3, <1>5, <2>2
    <3>2. u[i + 1] = s[i]
      BY <1>1, <1>4, <3>1
    <3> QED BY <3>1, <3>2
  <2> QED BY <1>1, <1>5, <2>1, <2>2
<1>7. ASSUME NEW j \in 1 .. n - 1, u[j].id = c PROVE u[j].sequence < u[n].sequence
  <2>1. j \in 1 .. Len(u)
    BY <1>3, <1>6
  <2>2. \E k \in 1 .. i - 1 : u[j] = s[k]
    <3>1. CASE j <= Len(a) /\ j \in 1 .. Len(s) /\ u[j] = s[j]
      <4>1. j \in 1 .. i - 1
        BY <1>1, <1>3, <1>5, <1>6, <3>1
      <4> QED BY <3>1, <4>1
    <3>2. CASE j > Len(a) + 1 /\ j - 1 \in 1 .. Len(s) /\ u[j] = s[j - 1]
      <4>1. j - 1 \in 1 .. i - 1
        BY <1>1, <1>3, <1>5, <1>6, <3>2
      <4> QED BY <3>2, <4>1
    <3> QED BY <1>4, <1>7, <2>1, <3>1, <3>2
  <2> QED BY <1>5, <1>6, <1>7, <2>2 DEF Leads
<1>8. ASSUME NEW j \in n + 1 .. Len(u), u[j].id = c PROVE Beaten(u[j], u[n])
  <2>1. j \in 1 .. Len(u)
    BY <1>1, <1>3, <1>5
  <2>2. \E k \in i + 1 .. Len(s) : u[j] = s[k]
    <3>1. CASE j <= Len(a) /\ j \in 1 .. Len(s) /\ u[j] = s[j]
      <4>1. j \in i + 1 .. Len(s)
        BY <1>1, <1>3, <1>5, <1>6, <3>1
      <4> QED BY <3>1, <4>1
    <3>2. CASE j > Len(a) + 1 /\ j - 1 \in 1 .. Len(s) /\ u[j] = s[j - 1]
      <4>1. j - 1 \in i + 1 .. Len(s)
        BY <1>1, <1>3, <1>5, <1>6, <3>2
      <4> QED BY <3>2, <4>1
    <3> QED BY <1>4, <1>8, <2>1, <3>1, <3>2
  <2> QED BY <1>5, <1>6, <1>8, <2>2 DEF Leads
<1>9. u[n].id = c
  BY <1>5, <1>6 DEF Leads
<1>10. Leads(u, n, c)
  BY <1>7, <1>8, <1>9 DEF Leads
<1> QED BY <1>6, <1>10 DEF s, u

LEMMA LeadsAppended ==
    ASSUME NEW s \in Seq(Frame), NEW x \in Frame, NEW c, NEW i \in 1 .. Len(s),
           Leads(s, i, c), x.id = c => Beaten(x, s[i])
    PROVE  /\ i \in 1 .. Len(Append(s, x)) /\ Append(s, x)[i] = s[i]
           /\ Leads(Append(s, x), i, c)
<1> DEFINE u == Append(s, x)
<1>1. /\ Len(u) = Len(s) + 1 /\ Len(s) \in Nat /\ u[Len(s) + 1] = x
      /\ \A j \in 1 .. Len(s) : u[j] = s[j]
  BY AppendFacts
<1> HIDE DEF u
<1>2. i \in 1 .. Len(u) /\ u[i] = s[i] /\ u[i].id = c
  BY <1>1 DEF Leads
<1>3. ASSUME NEW j \in 1 .. i - 1, u[j].id = c PROVE u[j].sequence < u[i].sequence
  <2>1. j \in 1 .. Len(s)
    BY <1>1
  <2> QED BY <1>1, <1>2, <1>3, <2>1 DEF Leads
<1>4. ASSUME NEW j \in i + 1 .. Len(u), u[j].id = c PROVE Beaten(u[j], u[i])
  <2>1. CASE j = Len(s) + 1
    BY <1>1, <1>2, <1>4, <2>1
  <2>2. CASE j # Len(s) + 1
    <3>1. j \in 1 .. Len(s) /\ j \in i + 1 .. Len(s)
      BY <1>1, <2>2
    <3> QED BY <1>1, <1>2, <1>4, <3>1 DEF Leads
  <2> QED BY <2>1, <2>2
<1> QED BY <1>2, <1>3, <1>4 DEF Leads, u

LEMMA LeadsDropped ==
    ASSUME NEW a \in Seq(Frame), NEW b \in Seq(Frame), NEW c,
           NEW i \in 1 .. Len(a \o b), Leads(a \o b, i, c)
    PROVE  \/ \E k \in 1 .. Len(b) :
                /\ Leads(b, k, c) /\ b[k] = (a \o b)[i]
                /\ \A x \in Range(a) : x.id = c => x.sequence < b[k].sequence
           \/ \E k \in 1 .. Len(a) : /\ a[k] = (a \o b)[i]
                                     /\ \A x \in Range(b) : x.id = c => Beaten(x, a[k])
<1> DEFINE s == a \o b
<1>1. /\ Len(s) = Len(a) + Len(b) /\ Len(a) \in Nat /\ Len(b) \in Nat
      /\ \A j \in 1 .. Len(a) : s[j] = a[j]
      /\ \A j \in 1 .. Len(b) : s[Len(a) + j] = b[j]
  BY ConcatFacts
<1>2. /\ i \in 1 .. Len(s) /\ s[i].id = c
      /\ \A j \in 1 .. i - 1 : s[j].id = c => s[j].sequence < s[i].sequence
      /\ \A j \in i + 1 .. Len(s) : s[j].id = c => Beaten(s[j], s[i])
  BY DEF Leads, s
<1> HIDE DEF s
<1>3. CASE i <= Len(a)
  <2>1. i \in 1 .. Len(a) /\ a[i] = s[i]
    BY <1>1, <1>2, <1>3
  <2>2. ASSUME NEW x \in Range(b), x.id = c PROVE Beaten(x, a[i])
    <3>1. PICK j \in 1 .. Len(b) : x = b[j]
      BY RangeFacts
    <3>2. Len(a) + j \in i + 1 .. Len(s)
      BY <1>1, <1>2, <1>3
    <3>3. s[Len(a) + j] = x
      BY <1>1, <3>1
    <3> QED BY <1>2, <2>1, <2>2, <3>2, <3>3
  <2> QED BY <2>1, <2>2 DEF s
<1>4. CASE i > Len(a)
  <2>1. PICK k \in 1 .. Len(b) : i = Len(a) + k
    <3>1. i - Len(a) \in 1 .. Len(b) /\ i = Len(a) + (i - Len(a))
      BY <1>1, <1>2, <1>4
    <3> QED BY <3>1
  <2>2. b[k] = s[i]
    BY <1>1, <2>1
  <2>3. \A j \in 1 .. k - 1 : b[j].id = c => b[j].sequence < b[k].sequence
    <3> SUFFICES ASSUME NEW j \in 1 .. k - 1, b[j].id = c PROVE b[j].sequence < b[k].sequence
      OBVIOUS
    <3>1. Len(a) + j \in 1 .. i - 1 /\ j \in 1 .. Len(b)
      BY <1>1, <2>1
    <3> QED BY <1>1, <1>2, <2>2, <3>1
  <2>4. \A j \in k + 1 .. Len(b) : b[j].id = c => Beaten(b[j], b[k])
    <3> SUFFICES ASSUME NEW j \in k + 1 .. Len(b), b[j].id = c PROVE Beaten(b[j], b[k])
      OBVIOUS
    <3>1. Len(a) + j \in i + 1 .. Len(s) /\ j \in 1 .. Len(b)
      BY <1>1, <2>1
    <3> QED BY <1>1, <1>2, <2>2, <3>1
  <2>5. \A x \in Range(a) : x.id = c => x.sequence < b[k].sequence
    <3> SUFFICES ASSUME NEW x \in Range(a), x.id = c PROVE x.sequence < b[k].sequence
      OBVIOUS
    <3>1. PICK j \in 1 .. Len(a) : x = a[j]
      BY RangeFacts
    <3>2. j \in 1 .. i - 1
      BY <1>1, <1>4, <2>1
    <3> QED BY <1>1, <1>2, <2>2, <3>1, <3>2
  <2> QED BY <1>2, <2>2, <2>3, <2>4, <2>5 DEF Leads, s
<1>5. i <= Len(a) \/ i > Len(a)
  BY <1>1, <1>2
<1> QED BY <1>3, <1>4, <1>5

\* What has the last word, before and after a step that does not touch c.
SameAt(c) ==
    /\ c \in DOMAIN contexts_' <=> c \in DOMAIN contexts_
    /\ c \in DOMAIN contexts_ => contexts_'[c] = contexts_[c]

Worded(c) == Pending(c) \/ OnItsWay(c) \/ Settled(c) \/ Silent(c)

LEMMA RightSame ==
    ASSUME NEW e, SameAt(e.id), Right(contexts_, e)
    PROVE  Right(contexts_', e)
BY DEF Right, SameAt

LEMMA LineTyped ==
    ASSUME TypeInv
    PROVE  /\ wire \in Seq(Frame) /\ Back \in Seq(Queued) /\ Back \in Seq(Frame)
           /\ Line \in Seq(Frame) /\ Range(Line) = Range(wire) \cup Range(Back)
           /\ Range(Line) \subseteq Flying /\ Tagged \subseteq Making /\ Making \subseteq Flying
<1>1. wire \in Seq(Frame) /\ queue_ \in Seq(Queued)
  BY DEF TypeInv, SocketTyped, BridgeTyped
<1>2. Back \in Seq(Queued) /\ Range(Back) \subseteq Range(outgoing) \cup Range(queue_)
  <2>1. CASE bridge = "failed"
    <3>1. outgoing \in Seq(Queued)
      BY <2>1 DEF TypeInv, BridgeTyped
    <3>2. outgoing \o queue_ \in Seq(Queued)
      BY <1>1, <3>1, ConcatFacts
    <3>3. Range(outgoing \o queue_) = Range(outgoing) \cup Range(queue_)
      BY <1>1, <3>1, ConcatRange
    <3> QED BY <2>1, <3>2, <3>3 DEF Back
  <2> QED BY <1>1, <2>1 DEF Back
<1>3. Back \in Seq(Frame)
  <2>1. Queued \subseteq Frame
    BY QueuedFacts
  <2> QED BY <1>2, <2>1
<1>4. Line \in Seq(Frame) /\ Range(Line) = Range(wire) \cup Range(Back)
  BY <1>1, <1>3, ConcatFacts, ConcatRange DEF Line
<1> QED BY <1>1, <1>2, <1>3, <1>4 DEF Flying, Tagged

LEMMA WordKept ==
    ASSUME TypeInv, NEW c, UNCHANGED registry, SameAt(c), Worded(c),
           \A e \in Making : e.id = c /\ e.type # "TELEMETRY" => e \in Making',
           \A e \in Tagged' : e.id = c => e \in Tagged \/ e.type = "TELEMETRY",
           \A i \in 1 .. Len(Line) : Leads(Line, i, c) =>
                \E k \in 1 .. Len(Line') : Leads(Line', k, c) /\ Line'[k] = Line[i],
           \A e \in Range(Line') : e.id = c =>
                \/ e \in Range(Line)
                \/ e.type = "TELEMETRY" /\ \A x \in Making : x.id = c => x.sequence = 0
    PROVE  Worded(c)'
<1>1. CASE Pending(c)
  <2>1. PICK e \in Making :
            /\ e.id = c /\ e.type # "TELEMETRY"
            /\ e.sequence # 0 =>
                /\ KnownBefore(registry, c, e.sequence)
                /\ \A x \in Range(Line) : x.id = c => x.sequence < e.sequence
    BY <1>1 DEF Pending
  <2>2. e \in Making'
    BY <2>1
  <2>3. e.sequence # 0 =>
            /\ KnownBefore(registry', c, e.sequence)
            /\ \A x \in Range(Line') : x.id = c => x.sequence < e.sequence
    BY <2>1
  <2> QED BY <2>1, <2>2, <2>3 DEF Pending, Worded
<1>2. CASE OnItsWay(c)
  <2>1. PICK i \in 1 .. Len(Line) :
            /\ Leads(Line, i, c) /\ Right(contexts_, Line[i])
            /\ KnownBefore(registry, c, Line[i].sequence)
            /\ \A e \in Tagged : e.id = c => Beaten(e, Line[i])
    BY <1>2 DEF OnItsWay
  <2>2. PICK k \in 1 .. Len(Line') : Leads(Line', k, c) /\ Line'[k] = Line[i]
    BY <2>1
  <2>3. Right(contexts_', Line'[k])
    <3>1. Line[i].id = c
      BY <2>1 DEF Leads
    <3> QED BY <2>1, <2>2, <3>1, RightSame
  <2>4. \A e \in Tagged' : e.id = c => Beaten(e, Line'[k])
    BY <2>1, <2>2 DEF Beaten
  <2>5. KnownBefore(registry', c, Line'[k].sequence)
    BY <2>1, <2>2
  <2> QED BY <2>2, <2>3, <2>4, <2>5 DEF OnItsWay, Worded
<1>3. CASE Settled(c)
  <2>1. Agrees(c)'
    BY <1>3 DEF Settled, Agrees, SameAt
  <2>2. \A e \in Range(Line') \cup Tagged' :
            e.id = c => e.type = "TELEMETRY" \/ e.sequence <= registry'[c].last_sequence
    BY <1>3 DEF Settled
  <2> QED BY <1>3, <2>1, <2>2 DEF Settled, Worded
<1>4. CASE Silent(c)
  <2>1. \A e \in Range(Line') \cup Tagged' : ~Introduces(e, c)
    BY <1>4 DEF Silent, Introduces
  <2> QED BY <1>4, <2>1 DEF Silent, Worded
<1> QED BY <1>1, <1>2, <1>3, <1>4 DEF Worded

\* A command of AudioFlinger makes one event, which says what it changed.
LEMMA CommandMakes ==
    ASSUME TypeInv, Commands
    PROVE  \E t \in Thread : \E e \in Lifecycle :
            /\ made[t] = NoEvent /\ made' = [made EXCEPT ![t] = e] /\ e.sequence = 0
            /\ \A u \in Thread : made[u] # NoEvent => made[u].id # e.id
            /\ \A c : c # e.id \/ e.type = "TELEMETRY" => SameAt(c)
            /\ e.type # "TELEMETRY" => Right(contexts_', e)
<1>0. /\ next_context_instance_id_ \in Nat \ {0} /\ contexts_ \in [DOMAIN contexts_ -> BOOLEAN]
      /\ DOMAIN contexts_ \subseteq 1 .. next_context_instance_id_ - 1
  BY DEF TypeInv, PublisherTyped
<1>1. PICK t \in Thread : \/ RegisterContext(t)
                          \/ \E c \in DOMAIN contexts_ :
                              \/ PublishConfigured(t, c) \/ PublishTelemetry(t, c)
                              \/ UnregisterContext(t, c)
                              \/ \E enabled \in BOOLEAN : PublishEnabled(t, c, enabled)
  BY DEF Commands
<1>2. ASSUME NEW type \in LifecycleType, NEW c \in Nat \ {0}, NEW b \in BOOLEAN
      PROVE  LET e == Event(type, c, b)
             IN  /\ e \in Lifecycle /\ e.type = type /\ e.id = c /\ e.enabled = b
                 /\ e.sequence = 0
  BY DEF Event, Lifecycle
<1>3. CASE RegisterContext(t)
  <2> DEFINE c == next_context_instance_id_
             e == Event("CONTEXT_CREATED", c, FALSE)
  <2>1. /\ Idle(t, c) /\ contexts_' = With(contexts_, c, FALSE)
        /\ made' = [made EXCEPT ![t] = e]
    BY <1>3 DEF RegisterContext, Made
  <2>2. e \in Lifecycle /\ e.type = "CONTEXT_CREATED" /\ e.id = c /\ e.sequence = 0
    <3>1. "CONTEXT_CREATED" \in LifecycleType /\ FALSE \in BOOLEAN
      BY DEF LifecycleType
    <3> QED BY <1>0, <1>2, <3>1, Zenon
  <2>3. /\ DOMAIN contexts_' = DOMAIN contexts_ \cup {c}
        /\ \A k \in DOMAIN contexts_ : k # c => contexts_'[k] = contexts_[k]
    <3>1. ASSUME NEW b, contexts_' = With(contexts_, c, b)
          PROVE  /\ DOMAIN contexts_' = DOMAIN contexts_ \cup {c}
                 /\ \A k \in DOMAIN contexts_ : k # c => contexts_'[k] = contexts_[k]
      BY <3>1 DEF With
    <3> QED BY <2>1, <3>1, Zenon
  <2> HIDE DEF e
  <2>4. Right(contexts_', e)
    BY <2>2, <2>3 DEF Right
  <2>5. \A k : k # e.id => SameAt(k)
    BY <2>2, <2>3 DEF SameAt
  <2> QED BY <2>1, <2>2, <2>4, <2>5 DEF Idle
<1>4. ASSUME NEW c \in DOMAIN contexts_, PublishConfigured(t, c) \/ PublishTelemetry(t, c)
      PROVE  \E e \in Lifecycle :
                /\ made[t] = NoEvent /\ made' = [made EXCEPT ![t] = e] /\ e.sequence = 0
                /\ \A u \in Thread : made[u] # NoEvent => made[u].id # e.id
                /\ \A k : k # e.id \/ e.type = "TELEMETRY" => SameAt(k)
                /\ e.type # "TELEMETRY" => Right(contexts_', e)
  <2>1. PICK type \in {"CONTEXT_CONFIGURED", "TELEMETRY"} :
            /\ made' = [made EXCEPT ![t] = Event(type, c, contexts_[c])]
            /\ Idle(t, c) /\ contexts_' = contexts_
    BY <1>4 DEF PublishConfigured, PublishTelemetry, Made
  <2> DEFINE e == Event(type, c, contexts_[c])
  <2>2. e \in Lifecycle /\ e.type = type /\ e.id = c /\ e.sequence = 0
    <3>1. type \in LifecycleType /\ c \in Nat \ {0} /\ contexts_[c] \in BOOLEAN
      BY <1>0 DEF LifecycleType
    <3> QED BY <1>2, <3>1
  <2> HIDE DEF e
  <2>3. e.type # "TELEMETRY" => Right(contexts_', e)
    BY <2>1, <2>2 DEF Right
  <2>4. \A k : SameAt(k)
    BY <2>1 DEF SameAt
  <2>5. made' = [made EXCEPT ![t] = e]
    BY <2>1 DEF e
  <2> QED BY <2>1, <2>2, <2>3, <2>4, <2>5 DEF Idle
<1>5. ASSUME NEW c \in DOMAIN contexts_, UnregisterContext(t, c)
      PROVE  \E e \in Lifecycle :
                /\ made[t] = NoEvent /\ made' = [made EXCEPT ![t] = e] /\ e.sequence = 0
                /\ \A u \in Thread : made[u] # NoEvent => made[u].id # e.id
                /\ \A k : k # e.id \/ e.type = "TELEMETRY" => SameAt(k)
                /\ e.type # "TELEMETRY" => Right(contexts_', e)
  <2> DEFINE e == Event("CONTEXT_RELEASED", c, FALSE)
  <2>1. /\ Idle(t, c) /\ contexts_' = Restrict(contexts_, DOMAIN contexts_ \ {c})
        /\ made' = [made EXCEPT ![t] = e]
    BY <1>5 DEF UnregisterContext, Made
  <2>2. e \in Lifecycle /\ e.type = "CONTEXT_RELEASED" /\ e.id = c /\ e.sequence = 0
    <3>1. "CONTEXT_RELEASED" \in LifecycleType /\ FALSE \in BOOLEAN /\ c \in Nat \ {0}
      BY <1>0 DEF LifecycleType
    <3> QED BY <1>2, <3>1, Zenon
  <2>3. /\ DOMAIN contexts_' = DOMAIN contexts_ \ {c}
        /\ \A k \in DOMAIN contexts_ : k # c => contexts_'[k] = contexts_[k]
    BY <2>1 DEF Restrict
  <2> HIDE DEF e
  <2>4. Right(contexts_', e)
    BY <2>2, <2>3 DEF Right
  <2>5. \A k : k # e.id => SameAt(k)
    BY <2>2, <2>3 DEF SameAt
  <2> QED BY <2>1, <2>2, <2>4, <2>5 DEF Idle
<1>6. ASSUME NEW c \in DOMAIN contexts_, NEW enabled \in BOOLEAN, PublishEnabled(t, c, enabled)
      PROVE  \E e \in Lifecycle :
                /\ made[t] = NoEvent /\ made' = [made EXCEPT ![t] = e] /\ e.sequence = 0
                /\ \A u \in Thread : made[u] # NoEvent => made[u].id # e.id
                /\ \A k : k # e.id \/ e.type = "TELEMETRY" => SameAt(k)
                /\ e.type # "TELEMETRY" => Right(contexts_', e)
  <2>1. PICK type \in {"CONTEXT_ENABLED", "CONTEXT_DISABLED"} :
            /\ made' = [made EXCEPT ![t] = Event(type, c, enabled)]
            /\ type = "CONTEXT_ENABLED" <=> enabled
    BY <1>6 DEF PublishEnabled, Made
  <2>2. Idle(t, c) /\ contexts_' = [contexts_ EXCEPT ![c] = enabled]
    BY <1>6 DEF PublishEnabled
  <2> DEFINE e == Event(type, c, enabled)
  <2>3. e \in Lifecycle /\ e.type = type /\ e.id = c /\ e.sequence = 0
    <3>1. type \in LifecycleType /\ c \in Nat \ {0}
      BY <1>0 DEF LifecycleType
    <3> QED BY <1>2, <3>1
  <2>4. /\ DOMAIN contexts_' = DOMAIN contexts_ /\ contexts_'[c] = enabled
        /\ \A k \in DOMAIN contexts_ : k # c => contexts_'[k] = contexts_[k]
    BY <1>0, <2>2
  <2> HIDE DEF e
  <2>5. Right(contexts_', e)
    BY <2>1, <2>3, <2>4 DEF Right
  <2>6. \A k : k # e.id => SameAt(k)
    BY <2>3, <2>4 DEF SameAt
  <2>7. made' = [made EXCEPT ![t] = e] /\ e.type # "TELEMETRY"
    BY <2>1, <2>3 DEF e
  <2> QED BY <2>2, <2>3, <2>5, <2>6, <2>7 DEF Idle
<1> QED BY <1>1, <1>3, <1>4, <1>5, <1>6

LEMMA LineSame ==
    ASSUME TypeInv, UNCHANGED <<wire, bridge, outgoing, queue_>>
    PROVE  Line' = Line
BY DEF Line, Back

\* A replay that is due stays due.
LEMMA DueKept ==
    ASSUME NEW c, ReplayDue(c), UNCHANGED registry, SameAt(c),
           \A e \in Range(wire') : Introduces(e, c) => e \in Range(wire),
           \/ link' # "up" \/ rescan_requested_'
           \/ bridge' = "replay" /\ \E e \in Range(outgoing') : e.id = c
    PROVE  ReplayDue(c)'
BY DEF ReplayDue, SameAt

LEMMA CommandsView ==
    ASSUME TypeInv, InView, Commands
    PROVE  InView'
<1>1. PICK t \in Thread : \E e \in Lifecycle :
            /\ made[t] = NoEvent /\ made' = [made EXCEPT ![t] = e] /\ e.sequence = 0
            /\ \A u \in Thread : made[u] # NoEvent => made[u].id # e.id
            /\ \A c : c # e.id \/ e.type = "TELEMETRY" => SameAt(c)
            /\ e.type # "TELEMETRY" => Right(contexts_', e)
  BY CommandMakes
<1>2. PICK e \in Lifecycle :
            /\ made[t] = NoEvent /\ made' = [made EXCEPT ![t] = e] /\ e.sequence = 0
            /\ \A u \in Thread : made[u] # NoEvent => made[u].id # e.id
            /\ \A c : c # e.id \/ e.type = "TELEMETRY" => SameAt(c)
            /\ e.type # "TELEMETRY" => Right(contexts_', e)
  BY <1>1
<1>3. /\ UNCHANGED <<wire, bridge, outgoing, queue_, registry, link, rescan_requested_, overtaken>>
      /\ Line' = Line
  <2>1. UNCHANGED <<wire, bridge, outgoing, queue_, registry, link, rescan_requested_, overtaken>>
    BY CommandsFrame DEF thread, daemon, history
  <2> QED BY <2>1, LineSame
<1>4. e # NoEvent
  BY DEF Lifecycle, DriverEvent, EventType
<1>5. \A u \in Thread : made'[u] = IF u = t THEN e ELSE made[u]
  BY <1>2 DEF TypeInv, PublisherTyped
<1>6. Making' = Making \cup {e} /\ Tagged' = Tagged
  <2>1. Making' = Making \cup {e}
    BY <1>2, <1>4, <1>5 DEF Making
  <2> QED BY <1>2, <2>1 DEF Tagged
<1>7. MadeApart'
  BY <1>2, <1>5 DEF InView, MadeApart
<1>8. MadeRight'
  <2> SUFFICES ASSUME NEW x \in Making', x.type # "TELEMETRY" PROVE Right(contexts_', x)
    BY DEF MadeRight
  <2>1. CASE x = e
    BY <1>2, <2>1
  <2>2. CASE x \in Making
    <3>1. x.id # e.id
      BY <1>2, <2>2 DEF Making
    <3>2. SameAt(x.id)
      BY <1>2, <3>1
    <3> QED BY <2>2, <3>2, RightSame DEF InView, MadeRight
  <2> QED BY <1>6, <2>1, <2>2
<1>9. LinkLost'
  BY <1>3 DEF InView, LinkLost
<1>10. ASSUME NEW c \in Nat \ {0}, c \notin overtaken PROVE Accounted(c)'
  <2>1. CASE c = e.id /\ e.type # "TELEMETRY"
    <3>1. e \in Making'
      BY <1>6
    <3> QED BY <1>2, <2>1, <3>1 DEF Pending, Accounted
  <2>2. CASE c # e.id \/ e.type = "TELEMETRY"
    <3>1. SameAt(c)
      BY <1>2, <2>2
    <3>2. Worded(c) => Worded(c)'
      BY <1>3, <1>6, <3>1, WordKept
    <3>3. ReplayDue(c) => ReplayDue(c)'
      BY <1>3, <3>1, DueKept DEF ReplayDue
    <3>4. Worded(c) \/ ReplayDue(c)
      BY <1>10 DEF InView, Accounted, Worded
    <3> QED BY <3>2, <3>3, <3>4 DEF Accounted, Worded
  <2> QED BY <2>1, <2>2
<1> QED BY <1>3, <1>7, <1>8, <1>9, <1>10 DEF InView

LEMMA StampView ==
    ASSUME TypeInv, InOrder, InView, NEW t \in Thread, Stamp(t)
    PROVE  InView'
<1> DEFINE d == made[t]
           e == Stamped(d)
<1>1. /\ d # NoEvent /\ d.sequence = 0 /\ made' = [made EXCEPT ![t] = e]
      /\ overtaken' = IF d.type = "TELEMETRY" THEN overtaken ELSE overtaken \ {d.id}
      /\ UNCHANGED <<contexts_, wire, bridge, outgoing, queue_, registry, link, rescan_requested_>>
  BY DEF Stamp, thread, daemon
<1>2. d \in Lifecycle /\ d \in DriverEvent /\ next_sequence_ \in Nat \ {0}
  BY <1>1 DEF TypeInv, PublisherTyped, BridgeTyped, Lifecycle, DriverEvent, EventType
<1>3. e.type = d.type /\ e.id = d.id /\ e.sequence = next_sequence_ /\ e \in DriverEvent
  <2>1. e \in DriverEvent
    BY <1>2 DEF Stamped, DriverEvent
  <2> QED BY <1>2, <2>1, StampedFacts
<1>4. e # NoEvent /\ e.enabled = d.enabled
  BY <1>2, <1>3 DEF Stamped, DriverEvent
<1>5. Line' = Line
  BY <1>1, LineSame
<1> HIDE DEF d, e
<1>6. \A u \in Thread : made'[u] = IF u = t THEN e ELSE made[u]
  BY <1>1 DEF TypeInv, PublisherTyped
<1>7. /\ d \in Making /\ e \in Making' /\ Making' \subseteq Making \cup {e}
      /\ \A x \in Making : x = d \/ x \in Making'
  BY <1>1, <1>4, <1>6 DEF Making, d
<1>8. Tagged' \subseteq Tagged \cup {e}
  BY <1>7 DEF Tagged
<1>9. \A c : SameAt(c)
  BY <1>1 DEF SameAt
<1>10. MadeApart'
  BY <1>1, <1>3, <1>6 DEF InView, MadeApart, d
<1>11. MadeRight'
  <2>1. d.type # "TELEMETRY" => Right(contexts_, d)
    BY <1>7 DEF InView, MadeRight
  <2>2. d.type # "TELEMETRY" => Right(contexts_, e)
    BY <1>3, <1>4, <2>1 DEF Right
  <2> QED BY <1>1, <1>3, <1>7, <2>2 DEF InView, MadeRight
<1>12. LinkLost'
  BY <1>1 DEF InView, LinkLost
<1>13. ASSUME NEW c \in Nat \ {0}, c \notin overtaken' PROVE Accounted(c)'
  <2>1. CASE c = d.id /\ d.type # "TELEMETRY"
    <3>1. KnownBefore(registry', c, e.sequence)
      BY <1>1, <1>2, <1>3 DEF KnownBefore, TypeInv, RegistryTyped, InOrder
    <3>2. \A x \in Range(Line') : x.id = c => x.sequence < e.sequence
      BY <1>3, <1>5, LineTyped DEF InOrder
    <3> QED BY <1>3, <1>7, <2>1, <3>1, <3>2 DEF Pending, Accounted
  <2>2. CASE c # d.id \/ d.type = "TELEMETRY"
    <3>1. c \notin overtaken
      BY <1>1, <1>13, <2>2
    <3>2. Worded(c) => Worded(c)'
      <4>1. \A x \in Making : x.id = c /\ x.type # "TELEMETRY" => x \in Making'
        BY <1>7, <2>2
      <4>2. \A x \in Tagged' : x.id = c => x \in Tagged \/ x.type = "TELEMETRY"
        BY <1>3, <1>8, <2>2
      <4> QED BY <1>1, <1>5, <1>9, <4>1, <4>2, WordKept
    <3>3. ReplayDue(c) => ReplayDue(c)'
      BY <1>1, <1>9, DueKept DEF ReplayDue
    <3>4. Worded(c) \/ ReplayDue(c)
      BY <3>1 DEF InView, Accounted, Worded
    <3> QED BY <3>2, <3>3, <3>4 DEF Accounted, Worded
  <2> QED BY <2>1, <2>2
<1> QED BY <1>10, <1>11, <1>12, <1>13 DEF InView

\* The event takes its place at the end of the line.
LEMMA EnqueueView ==
    ASSUME TypeInv, InView, NEW t \in Thread, Enqueue(t), NoLoss'
    PROVE  InView'
<1> DEFINE e == made[t]
<1>1. /\ e # NoEvent /\ e.sequence # 0 /\ made' = [made EXCEPT ![t] = NoEvent]
      /\ queue_' = Append(queue_, e)
      /\ UNCHANGED <<contexts_, wire, bridge, outgoing, registry, link, rescan_requested_, overtaken>>
  <2>1. dropped_events_' # 1
    BY DEF NoLoss
  <2> QED BY <2>1 DEF Enqueue, thread, daemon, history
<1>2. e \in Queued /\ e \in Frame
  BY <1>1, QueuedFacts
<1> HIDE DEF e
<1>3. Line' = Append(Line, e)
  <2>1. queue_ \in Seq(Queued) /\ wire \in Seq(Frame)
    BY DEF TypeInv, BridgeTyped, SocketTyped
  <2>2. Back' = Append(Back, e)
    <3>1. CASE bridge = "failed"
      <4>1. outgoing \in Seq(Queued)
        BY <3>1 DEF TypeInv, BridgeTyped
      <4>2. outgoing \o Append(queue_, e) = Append(outgoing \o queue_, e)
        BY <1>2, <2>1, <4>1
      <4> QED BY <1>1, <3>1, <4>2 DEF Back
    <3>2. CASE bridge # "failed"
      BY <1>1, <3>2 DEF Back
    <3> QED BY <3>1, <3>2
  <2>3. wire \o Append(Back, e) = Append(wire \o Back, e)
    BY <1>2, LineTyped
  <2> QED BY <1>1, <2>2, <2>3 DEF Line
<1>4. Line \in Seq(Frame) /\ Len(Line) \in Nat
  BY LineTyped
<1>5. /\ Len(Line') = Len(Line) + 1 /\ Range(Line') = Range(Line) \cup {e}
      /\ Line'[Len(Line) + 1] = e /\ \A j \in 1 .. Len(Line) : Line'[j] = Line[j]
  BY <1>2, <1>3, <1>4, AppendFacts
<1>6. \A u \in Thread : made'[u] = IF u = t THEN NoEvent ELSE made[u]
  BY <1>1 DEF TypeInv, PublisherTyped
<1>7. /\ e \in Making /\ e \in Tagged /\ Making' \subseteq Making
      /\ \A x \in Making : x = e \/ x \in Making'
      /\ \A x \in Making' : x.id # e.id
      /\ \A x \in Making : x.id = e.id => x = e
  <2>1. \A u \in Thread : u # t /\ made[u] # NoEvent => made[u].id # e.id
    BY <1>1 DEF InView, MadeApart, e
  <2> QED BY <1>1, <1>6, <2>1 DEF Making, Tagged, e
<1>8. Tagged' \subseteq Tagged
  BY <1>7 DEF Tagged
<1>9. \A c : SameAt(c)
  BY <1>1 DEF SameAt
<1>10. MadeApart'
  BY <1>6 DEF InView, MadeApart
<1>11. MadeRight' /\ LinkLost'
  BY <1>1, <1>7 DEF InView, MadeRight, LinkLost
<1>12. ASSUME NEW c, NEW i \in 1 .. Len(Line), Leads(Line, i, c), e.id = c => Beaten(e, Line[i])
       PROVE  i \in 1 .. Len(Line') /\ Leads(Line', i, c) /\ Line'[i] = Line[i]
  BY <1>2, <1>3, <1>4, <1>12, LeadsAppended
<1>13. ASSUME NEW c \in Nat \ {0}, c \notin overtaken PROVE Accounted(c)'
  <2>1. Worded(c) \/ ReplayDue(c)
    BY <1>13 DEF InView, Accounted, Worded
  <2>2. ReplayDue(c) => ReplayDue(c)'
    BY <1>1, <1>9, DueKept DEF ReplayDue
  <2>3. CASE c # e.id /\ Worded(c)
    <3>1. \A x \in Making : x.id = c /\ x.type # "TELEMETRY" => x \in Making'
      BY <1>7, <2>3
    <3>2. \A x \in Range(Line') : x.id = c => x \in Range(Line)
      BY <1>5, <2>3
    <3>3. Worded(c)'
      BY <1>1, <1>8, <1>9, <1>12, <2>3, <3>1, <3>2, WordKept
    <3> QED BY <3>3 DEF Accounted, Worded
  <2>4. CASE c = e.id /\ Pending(c)
    <3>1. /\ e.type # "TELEMETRY" /\ KnownBefore(registry, c, e.sequence)
          /\ \A x \in Range(Line) : x.id = c => x.sequence < e.sequence
      BY <1>1, <1>7, <2>4 DEF Pending
    <3>2. Leads(Line', Len(Line) + 1, c)
      <4>1. \A j \in 1 .. Len(Line) : Line'[j] \in Range(Line)
        BY <1>4, <1>5, RangeFacts
      <4>2. /\ Len(Line) + 1 - 1 = Len(Line)
            /\ \A j : j \notin Len(Line) + 1 + 1 .. Len(Line')
        BY <1>4, <1>5
      <4> QED BY <1>5, <2>4, <3>1, <4>1, <4>2 DEF Leads
    <3>3. Right(contexts_', e)
      BY <1>1, <1>7, <3>1 DEF InView, MadeRight
    <3>4. Len(Line) + 1 \in 1 .. Len(Line')
      BY <1>4, <1>5
    <3>5. \A x \in Tagged' : x.id # c
      BY <1>7, <2>4 DEF Tagged
    <3>6. OnItsWay(c)'
      BY <1>1, <1>5, <3>1, <3>2, <3>3, <3>4, <3>5 DEF OnItsWay
    <3> QED BY <3>6 DEF Accounted
  <2>5. CASE c = e.id /\ OnItsWay(c)
    <3>1. PICK i \in 1 .. Len(Line) :
              /\ Leads(Line, i, c) /\ Right(contexts_, Line[i])
              /\ KnownBefore(registry, c, Line[i].sequence)
              /\ \A x \in Tagged : x.id = c => Beaten(x, Line[i])
      BY <2>5 DEF OnItsWay
    <3>2. i \in 1 .. Len(Line') /\ Leads(Line', i, c) /\ Line'[i] = Line[i]
      BY <1>7, <1>12, <3>1
    <3>3. OnItsWay(c)'
      BY <1>1, <1>8, <3>1, <3>2 DEF OnItsWay
    <3> QED BY <3>3 DEF Accounted
  <2>6. CASE c = e.id /\ Settled(c)
    <3>1. Range(Line') \cup Tagged' \subseteq Range(Line) \cup Tagged
      BY <1>5, <1>7, <1>8
    <3>2. Settled(c)'
      BY <1>1, <2>6, <3>1 DEF Settled, Agrees
    <3> QED BY <3>2 DEF Accounted
  <2>7. CASE c = e.id /\ Silent(c)
    <3>1. Range(Line') \cup Tagged' \subseteq Range(Line) \cup Tagged
      BY <1>5, <1>7, <1>8
    <3>2. Silent(c)'
      BY <1>1, <2>7, <3>1 DEF Silent
    <3> QED BY <3>2 DEF Accounted
  <2> QED BY <2>1, <2>2, <2>3, <2>4, <2>5, <2>6, <2>7 DEF Worded, Accounted
<1> QED BY <1>1, <1>10, <1>11, <1>13 DEF InView

\* The steps of the bridge that neither send nor number an event of a context.
LEMMA PublisherSteady ==
    ASSUME UNCHANGED <<contexts_, made>>, MadeApart, MadeRight
    PROVE  /\ MadeApart' /\ MadeRight' /\ Making' = Making /\ Tagged' = Tagged
           /\ \A c : SameAt(c)
<1>1. Making' = Making
  BY MakingSame
<1>2. Tagged' = Tagged
  BY <1>1 DEF Tagged
<1>3. MadeApart'
  BY DEF MadeApart
<1>4. MadeRight'
  BY <1>1 DEF MadeRight
<1>5. \A c : SameAt(c)
  BY DEF SameAt
<1> QED BY <1>1, <1>2, <1>3, <1>4, <1>5

LEMMA SteadyView ==
    ASSUME TypeInv, InView, UNCHANGED <<contexts_, made, registry, overtaken>>, LinkLost',
           \A c \in Nat \ {0} : \A i \in 1 .. Len(Line) : Leads(Line, i, c) =>
                \E k \in 1 .. Len(Line') : Leads(Line', k, c) /\ Line'[k] = Line[i],
           \A e \in Range(Line') : e \in Range(Line) \/ e.id = 0,
           \A c \in Nat \ {0} : ReplayDue(c) => ReplayDue(c)'
    PROVE  InView'
<1>1. /\ MadeApart' /\ MadeRight' /\ Making' = Making /\ Tagged' = Tagged
      /\ \A c : SameAt(c)
  BY PublisherSteady DEF InView
<1>2. ASSUME NEW c \in Nat \ {0}, c \notin overtaken PROVE Accounted(c)'
  <2>1. Worded(c) \/ ReplayDue(c)
    BY <1>2 DEF InView, Accounted, Worded
  <2>2. \A e \in Range(Line') : e.id = c => e \in Range(Line)
    OBVIOUS
  <2>3. Worded(c) => Worded(c)'
    BY <1>1, <2>2, WordKept
  <2> QED BY <2>1, <2>3 DEF Accounted, Worded
<1> QED BY <1>1, <1>2 DEF InView

LEMMA SameLineView ==
    ASSUME TypeInv, InView, UNCHANGED <<contexts_, made, registry, overtaken>>, LinkLost',
           Line' = Line, \A c \in Nat \ {0} : ReplayDue(c) => ReplayDue(c)'
    PROVE  InView'
BY SteadyView

LEMMA HeadMoves ==
    ASSUME NEW S, NEW a \in Seq(S), NEW b \in Seq(S), b # << >>
    PROVE  Append(a, Head(b)) \o Tail(b) = a \o b /\ <<Head(b)>> \o Tail(b) = b
<1>1. /\ Tail(b) \in Seq(S) /\ Len(Tail(b)) = Len(b) - 1 /\ Len(b) \in Nat /\ Len(b) >= 1
      /\ Head(b) = b[1] /\ Head(b) \in S
      /\ \A i \in 1 .. Len(b) - 1 : Tail(b)[i] = b[i + 1]
  BY TailFacts
<1>2. ASSUME NEW p \in Seq(S), NEW q \in Seq(S), Len(p) = Len(q),
             \A i \in 1 .. Len(p) : p[i] = q[i]
      PROVE  p = q
  <2>1. DOMAIN p = 1 .. Len(p) /\ DOMAIN q = 1 .. Len(p)
    BY <1>2
  <2>2. p = [i \in 1 .. Len(p) |-> p[i]] /\ q = [i \in 1 .. Len(p) |-> q[i]]
    BY <1>2, <2>1
  <2> QED BY <1>2, <2>2
<1>3. ASSUME NEW s \in Seq(S) PROVE Append(s, Head(b)) \o Tail(b) = s \o b
  <2> DEFINE p == Append(s, Head(b)) \o Tail(b)
             q == s \o b
  <2>1. /\ Append(s, Head(b)) \in Seq(S) /\ Len(Append(s, Head(b))) = Len(s) + 1
        /\ Len(s) \in Nat /\ Append(s, Head(b))[Len(s) + 1] = Head(b)
        /\ \A i \in 1 .. Len(s) : Append(s, Head(b))[i] = s[i]
    BY <1>1, AppendFacts
  <2>2. /\ p \in Seq(S) /\ Len(p) = Len(s) + 1 + (Len(b) - 1)
        /\ \A i \in 1 .. Len(s) + 1 : p[i] = Append(s, Head(b))[i]
        /\ \A i \in 1 .. Len(b) - 1 : p[Len(s) + 1 + i] = Tail(b)[i]
    BY <1>1, <2>1, ConcatFacts
  <2>3. /\ q \in Seq(S) /\ Len(q) = Len(s) + Len(b)
        /\ \A i \in 1 .. Len(s) : q[i] = s[i]
        /\ \A i \in 1 .. Len(b) : q[Len(s) + i] = b[i]
    BY ConcatFacts
  <2> HIDE DEF p, q
  <2>4. Len(p) = Len(q)
    BY <1>1, <2>1, <2>2, <2>3
  <2>5. ASSUME NEW i \in 1 .. Len(p) PROVE p[i] = q[i]
    <3>1. CASE i <= Len(s)
      <4>1. i \in 1 .. Len(s) /\ i \in 1 .. Len(s) + 1
        BY <2>1, <3>1
      <4> QED BY <2>1, <2>2, <2>3, <4>1
    <3>2. CASE i = Len(s) + 1
      <4>1. i \in 1 .. Len(s) + 1 /\ 1 \in 1 .. Len(b)
        BY <1>1, <2>1, <3>2
      <4> QED BY <1>1, <2>1, <2>2, <2>3, <3>2, <4>1
    <3>3. CASE i > Len(s) + 1
      <4>1. PICK j \in 1 .. Len(b) - 1 : i = Len(s) + 1 + j
        <5>1. i - (Len(s) + 1) \in 1 .. Len(b) - 1 /\ i = Len(s) + 1 + (i - (Len(s) + 1))
          BY <1>1, <2>1, <2>2, <3>3
        <5> QED BY <5>1
      <4>2. j + 1 \in 1 .. Len(b) /\ i = Len(s) + (j + 1)
        BY <1>1, <2>1, <4>1
      <4>3. p[i] = Tail(b)[j] /\ Tail(b)[j] = b[j + 1] /\ q[i] = b[j + 1]
        BY <1>1, <2>2, <2>3, <4>1, <4>2
      <4> QED BY <4>3
    <3>4. i <= Len(s) \/ i = Len(s) + 1 \/ i > Len(s) + 1
      BY <2>1, <2>5
    <3> QED BY <3>1, <3>2, <3>3, <3>4
  <2>6. p = q
    BY <1>2, <2>2, <2>3, <2>4, <2>5
  <2> QED BY <2>6 DEF p, q
<1>4. <<Head(b)>> \o Tail(b) = b
  <2>1. /\ << >> \in Seq(S) /\ Append(<< >>, Head(b)) = <<Head(b)>> /\ << >> \o b = b
    BY <1>1
  <2> QED BY <1>3, <2>1
<1> QED BY <1>3, <1>4

\* Taking up a rescan, draining the queue and losing the connection leave the
\* line of events as it is.
LEMMA QuietStepsView ==
    ASSUME TypeInv, InView, NoLoss',
           \/ HandleRescan \/ SendQueued \/ SendQueuedFails \/ PutBack \/ ReceiveRescan
           \/ HangUp \/ SendSnapshotCommand \/ UNCHANGED vars
    PROVE  InView'
<1>0. UNCHANGED <<contexts_, made, registry, overtaken>> /\ \A c : SameAt(c)
  <2>1. UNCHANGED <<contexts_, made, registry, overtaken>>
    BY DEF HandleRescan, SendQueued, SendQueuedFails, PutBack, ReceiveRescan, HangUp,
         SendSnapshotCommand, vars, publisher, daemon, history
  <2> QED BY <2>1 DEF SameAt
<1>1. /\ wire \in Seq(Frame) /\ queue_ \in Seq(Queued) /\ queue_ \in Seq(Frame)
      /\ dropped_events_' # 1 /\ LinkLost
  <2>1. wire \in Seq(Frame) /\ queue_ \in Seq(Queued)
    BY DEF TypeInv, SocketTyped, BridgeTyped
  <2>2. Queued \subseteq Frame
    BY QueuedFacts
  <2> QED BY <2>1, <2>2 DEF NoLoss, InView
<1>2. CASE HandleRescan
  <2>1. /\ bridge = "idle" /\ bridge' = "replay" /\ UNCHANGED <<wire, queue_, link>>
        /\ \E ids \in SetToSeqs(DOMAIN contexts_) : outgoing' = Replay(ids)
    BY <1>2 DEF HandleRescan
  <2>2. \A c \in DOMAIN contexts_ : \E e \in Range(outgoing') : e.id = c
    <3>1. PICK ids \in SetToSeqs(DOMAIN contexts_) : outgoing' = Replay(ids)
      BY <2>1
    <3>2. /\ outgoing' \in Seq(Response)
          /\ \A c \in DOMAIN contexts_ :
                \E j \in 1 .. Len(outgoing') - 1 : outgoing'[j].id = c
      BY <3>1, ReplayFacts DEF TypeInv
    <3>3. Len(outgoing') \in Nat /\ \A j \in 1 .. Len(outgoing') : outgoing'[j] \in Range(outgoing')
      BY <3>2, RangeFacts
    <3> QED BY <3>2, <3>3
  <2>3. Line' = Line
    BY <2>1 DEF Line, Back
  <2>4. \A c \in Nat \ {0} : ReplayDue(c) => ReplayDue(c)'
    BY <1>0, <2>1, <2>2 DEF ReplayDue
  <2>5. LinkLost'
    BY <1>0, <1>1, <2>1 DEF LinkLost
  <2> QED BY <1>0, <2>3, <2>4, <2>5, SameLineView
<1>3. CASE SendQueued
  <2>1. /\ bridge = "idle" /\ ~rescan_requested_ /\ queue_ # << >> /\ link = "up"
        /\ queue_' = Tail(queue_) /\ Send(Head(queue_)) /\ UNCHANGED <<bridge, outgoing, link>>
    BY <1>3 DEF SendQueued, Draining, thread
  <2>2. wire' = Append(wire, Head(queue_))
    BY <1>1, <2>1 DEF Send
  <2>3. Line' = Line
    BY <1>1, <2>1, <2>2, HeadMoves DEF Line, Back
  <2>4. \A c \in Nat \ {0} : ReplayDue(c) => ReplayDue(c)'
    BY <2>1 DEF ReplayDue
  <2>5. LinkLost'
    BY <1>0, <1>1, <2>1 DEF LinkLost
  <2> QED BY <1>0, <2>3, <2>4, <2>5, SameLineView
<1>4. CASE SendQueuedFails
  <2>1. /\ bridge = "idle" /\ queue_ # << >> /\ link = "dead" /\ bridge' = "failed"
        /\ queue_' = Tail(queue_) /\ outgoing' = <<Head(queue_)>> /\ UNCHANGED <<wire, link>>
    BY <1>4 DEF SendQueuedFails, Draining
  <2>2. Back' = Back
    BY <1>1, <2>1, HeadMoves DEF Back
  <2>3. Line' = Line
    BY <2>1, <2>2 DEF Line
  <2>4. \A c \in Nat \ {0} : ReplayDue(c) => ReplayDue(c)'
    BY <1>0, <2>1 DEF ReplayDue
  <2>5. LinkLost'
    BY <1>0, <1>1, <2>1 DEF LinkLost
  <2> QED BY <1>0, <2>3, <2>4, <2>5, SameLineView
<1>5. CASE PutBack
  <2>1. /\ bridge = "failed" /\ bridge' = "idle" /\ link' = "down" /\ UNCHANGED wire
        /\ queue_' = outgoing \o queue_ /\ link = "dead"
    BY <1>1, <1>5 DEF PutBack, CloseConnection, TypeInv, BridgeTyped
  <2>2. Line' = Line
    BY <2>1 DEF Line, Back
  <2>3. \A c \in Nat \ {0} : ReplayDue(c) => ReplayDue(c)'
    BY <1>0, <2>1 DEF ReplayDue
  <2>4. LinkLost'
    BY <1>0, <1>1, <2>1 DEF LinkLost
  <2> QED BY <1>0, <2>2, <2>3, <2>4, SameLineView
<1>6. CASE ReceiveRescan
  <2>1. UNCHANGED <<wire, bridge, outgoing, queue_, link>> /\ rescan_requested_'
    BY <1>6 DEF ReceiveRescan, Receives
  <2>2. Line' = Line
    BY <2>1, LineSame
  <2>3. \A c \in Nat \ {0} : ReplayDue(c) => ReplayDue(c)'
    BY <1>0, <2>1 DEF ReplayDue
  <2>4. LinkLost'
    BY <1>0, <1>1, <2>1 DEF LinkLost
  <2> QED BY <1>0, <2>2, <2>3, <2>4, SameLineView
<1>7. CASE HangUp
  <2>1. /\ UNCHANGED <<wire, queue_>> /\ bridge = "idle" /\ bridge' = "idle"
        /\ link = "dead" /\ link' = "down"
    BY <1>7 DEF HangUp, CloseConnection
  <2>2. Line' = Line
    BY <2>1 DEF Line, Back
  <2>3. \A c \in Nat \ {0} : ReplayDue(c) => ReplayDue(c)'
    BY <1>0, <2>1 DEF ReplayDue
  <2>4. LinkLost'
    BY <1>0, <1>1, <2>1 DEF LinkLost
  <2> QED BY <1>0, <2>2, <2>3, <2>4, SameLineView
<1>8. CASE SendSnapshotCommand \/ UNCHANGED vars
  <2>1. UNCHANGED <<wire, bridge, outgoing, queue_, link, rescan_requested_>>
    BY <1>8 DEF SendSnapshotCommand, vars, thread
  <2>2. Line' = Line
    BY <2>1, LineSame
  <2>3. \A c \in Nat \ {0} : ReplayDue(c) => ReplayDue(c)'
    BY <1>0, <2>1 DEF ReplayDue
  <2>4. LinkLost'
    BY <1>0, <1>1, <2>1 DEF LinkLost
  <2> QED BY <1>0, <2>2, <2>3, <2>4, SameLineView
<1> QED BY <1>2, <1>3, <1>4, <1>5, <1>6, <1>7, <1>8

\* An event that the bridge sends past the queue comes between.
LEMMA SentPast ==
    ASSUME TypeInv, NEW x \in Frame, wire' = Append(wire, x), Back' = Back
    PROVE  /\ Range(Line') = Range(Line) \cup {x} /\ Range(wire') = Range(wire) \cup {x}
           /\ \A c : c # x.id => \A i \in 1 .. Len(Line) : Leads(Line, i, c) =>
                \E k \in 1 .. Len(Line') : Leads(Line', k, c) /\ Line'[k] = Line[i]
<1>1. /\ wire \in Seq(Frame) /\ Back \in Seq(Frame)
      /\ Range(Line) = Range(wire) \cup Range(Back)
  BY LineTyped
<1>2. Append(wire, x) \in Seq(Frame) /\ Range(Append(wire, x)) = Range(wire) \cup {x}
  BY <1>1, AppendFacts
<1>3. Line' = Append(wire, x) \o Back
  BY DEF Line
<1>4. Range(Line') = Range(Line) \cup {x}
  <2>0. \A a \in Seq(Frame) : Range(a \o Back) = Range(a) \cup Range(Back)
    BY <1>1, ConcatRange
  <2>1. Range(Append(wire, x) \o Back) = Range(Append(wire, x)) \cup Range(Back)
    BY <1>2, <2>0, Zenon
  <2>2. Range(Append(wire, x) \o Back) = Range(wire) \cup {x} \cup Range(Back)
    BY <1>2, <2>1, Zenon
  <2>3. Range(Line') = Range(wire) \cup {x} \cup Range(Back)
    BY <1>3, <2>2, Zenon
  <2> HIDE DEF Line
  <2> QED BY <1>1, <2>3
<1>5. ASSUME NEW c, c # x.id, NEW i \in 1 .. Len(Line), Leads(Line, i, c)
      PROVE  \E k \in 1 .. Len(Line') : Leads(Line', k, c) /\ Line'[k] = Line[i]
  <2>1. i \in 1 .. Len(wire \o Back) /\ Leads(wire \o Back, i, c)
    BY <1>5 DEF Line
  <2>2. \E k \in 1 .. Len(Append(wire, x) \o Back) :
            /\ Leads(Append(wire, x) \o Back, k, c)
            /\ (Append(wire, x) \o Back)[k] = (wire \o Back)[i]
    BY <1>1, <1>5, <2>1, LeadsInserted
  <2> QED BY <1>3, <2>2 DEF Line
<1>6. Range(wire') = Range(wire) \cup {x}
  BY <1>2
<1> QED BY <1>4, <1>5, <1>6

LEMMA GreetingsView ==
    ASSUME TypeInv, InOrder, InView, NoLoss', EnsureConnected \/ ReceiveSnapshot
    PROVE  InView'
<1>0. UNCHANGED <<contexts_, made, registry, overtaken, queue_>> /\ LinkLost
  BY DEF EnsureConnected, ReceiveSnapshot, publisher, daemon, history, InView
<1>1. ASSUME NEW x \in Frame, x.id = 0, wire' = Append(wire, x), Back' = Back, LinkLost',
             \A c \in Nat \ {0} : ReplayDue(c) =>
                link' # "up" \/ rescan_requested_'
      PROVE  InView'
  <2>1. /\ Range(Line') = Range(Line) \cup {x} /\ Range(wire') = Range(wire) \cup {x}
        /\ \A c : c # x.id => \A i \in 1 .. Len(Line) : Leads(Line, i, c) =>
                \E k \in 1 .. Len(Line') : Leads(Line', k, c) /\ Line'[k] = Line[i]
    BY <1>1, SentPast
  <2>2. \A c \in Nat \ {0} : \A i \in 1 .. Len(Line) : Leads(Line, i, c) =>
            \E k \in 1 .. Len(Line') : Leads(Line', k, c) /\ Line'[k] = Line[i]
    BY <1>1, <2>1
  <2>3. \A c \in Nat \ {0} : ReplayDue(c) => ReplayDue(c)'
    <3> SUFFICES ASSUME NEW c \in Nat \ {0}, ReplayDue(c) PROVE ReplayDue(c)'
      OBVIOUS
    <3>1. \A e \in Range(wire') : ~Introduces(e, c)
      BY <1>1, <2>1 DEF ReplayDue, Introduces
    <3> QED BY <1>0, <1>1, <3>1 DEF ReplayDue
  <2>4. \A e \in Range(Line') : e \in Range(Line) \/ e.id = 0
    BY <1>1, <2>1
  <2> QED BY <1>0, <1>1, <2>2, <2>3, <2>4, SteadyView
<1>2. CASE EnsureConnected
  <2> DEFINE x == Stamped(Event("DRIVER_HELLO", 0, FALSE))
  <2>1. /\ link = "down" /\ bridge' = "idle" /\ rescan_requested_' /\ wire' = <<x>>
        /\ UNCHANGED outgoing
    BY <1>2 DEF EnsureConnected
  <2>2. x \in Frame /\ x.id = 0
    BY FrameFacts, AnswerFacts
  <2> HIDE DEF x
  <2>3. wire = << >> /\ bridge = "idle"
    BY <2>1 DEF InOrder, TypeInv, BridgeTyped
  <2>4. wire' = Append(wire, x) /\ Back' = Back
    BY <1>0, <2>1, <2>3 DEF Back
  <2>5. LinkLost'
    BY <1>0, <2>1 DEF LinkLost
  <2> QED BY <1>1, <2>1, <2>2, <2>4, <2>5
<1>3. CASE ReceiveSnapshot
  <2> DEFINE x == Stamped(Event("ANSWER", 0, FALSE))
  <2>1. /\ bridge = "idle" /\ link = "up" /\ ~rescan_requested_
        /\ UNCHANGED <<bridge, outgoing, link>>
        /\ UNCHANGED wire \/ Send(x)
    BY <1>3 DEF ReceiveSnapshot, Receives
  <2>2. x \in Frame /\ x.id = 0
    BY FrameFacts, AnswerFacts
  <2> HIDE DEF x
  <2>3. \A c \in Nat \ {0} : ~ReplayDue(c)
    BY <2>1 DEF ReplayDue
  <2>4. LinkLost' /\ Back' = Back
    BY <1>0, <2>1 DEF LinkLost, Back
  <2>5. CASE UNCHANGED wire
    <3>1. Line' = Line
      BY <2>4, <2>5 DEF Line
    <3> QED BY <1>0, <2>3, <2>4, <3>1, SameLineView
  <2>6. CASE Send(x)
    <3>1. dropped_events_' = 0 /\ SocketTyped
      BY DEF NoLoss, TypeInv
    <3>2. wire' = Append(wire, x)
      BY <2>2, <2>6, <3>1, SendAppends
    <3> QED BY <1>1, <2>2, <2>3, <2>4, <3>2
  <2> QED BY <2>1, <2>5, <2>6
<1> QED BY <1>2, <1>3

\* The generations of a commit do not matter, unless they overtake an event.
LEMMA CommitView ==
    ASSUME TypeInv, InView, NoLoss', NEW d \in DOMAIN contexts_, ReceiveCommit(d)
    PROVE  InView'
<1> DEFINE x == [Event("ANSWER", 0, FALSE) EXCEPT !.sequence = next_sequence_ + 1]
           g == Stamped(Event("TELEMETRY", d, contexts_[d]))
<1>1. /\ bridge = "idle" /\ link = "up" /\ ~rescan_requested_ /\ queue_ = << >>
      /\ UNCHANGED <<contexts_, made, registry, bridge, outgoing, link>>
      /\ overtaken' = IF \E t \in Thread : made[t] # NoEvent /\ made[t].id = d
                                           /\ made[t].sequence # 0
                      THEN overtaken \cup {d} ELSE overtaken
  BY DEF ReceiveCommit, Receives, publisher, daemon
<1>2. wire' = Append(wire, x) /\ queue_' = Append(queue_, g)
  <2>1. dropped_events_' # 1
    BY DEF NoLoss
  <2> QED BY <2>1 DEF ReceiveCommit
<1>3. x \in Frame /\ x.id = 0
  BY FrameFacts DEF Event
<1>4. g.type = "TELEMETRY" /\ g.id = d /\ g \in Queued /\ g \in Frame /\ d \in Nat \ {0}
  <2>1. d \in Nat \ {0} /\ contexts_[d] \in BOOLEAN /\ next_sequence_ \in Nat \ {0}
    BY DEF TypeInv, PublisherTyped, BridgeTyped
  <2>2. g = [type |-> "TELEMETRY", id |-> d, enabled |-> contexts_[d],
             sequence |-> next_sequence_]
    BY DEF Stamped, Event
  <2> HIDE DEF g
  <2>3. g.type = "TELEMETRY" /\ g.id = d /\ g \in Queued
    BY <2>1, <2>2 DEF Queued, Lifecycle, LifecycleType
  <2> QED BY <2>1, <2>3, QueuedFacts
<1> HIDE DEF x, g
<1> DEFINE s == Append(wire, x)
<1>5. wire \in Seq(Frame) /\ s \in Seq(Frame) /\ Range(s) = Range(wire) \cup {x}
  BY <1>3, AppendFacts DEF TypeInv, SocketTyped
<1>6. Line = wire /\ Line' = Append(s, g)
  <2>1. Back = << >> /\ Back' = <<g>>
    BY <1>1, <1>2 DEF Back
  <2>2. wire \o << >> = wire /\ s \o <<g>> = Append(s, g)
    BY <1>4, <1>5
  <2>3. Line' = s \o <<g>>
    BY <1>2, <2>1 DEF Line
  <2> QED BY <2>1, <2>2, <2>3 DEF Line
<1> HIDE DEF s
<1>7. Range(Line') = Range(Line) \cup {x, g}
  <2>1. Range(Append(s, g)) = Range(s) \cup {g}
    BY <1>4, <1>5, AppendFacts
  <2> QED BY <1>5, <1>6, <2>1
<1>8. /\ MadeApart' /\ MadeRight' /\ Making' = Making /\ Tagged' = Tagged
      /\ \A c : SameAt(c)
  BY <1>1, PublisherSteady DEF InView
<1>9. LinkLost'
  BY <1>1 DEF InView, LinkLost
<1>10. ASSUME NEW c \in Nat \ {0}, c \notin overtaken' PROVE Accounted(c)'
  <2>1. c \notin overtaken /\ ~ReplayDue(c)
    BY <1>1, <1>10 DEF ReplayDue
  <2>2. Worded(c)
    BY <2>1 DEF InView, Accounted, Worded
  <2>3. c = d => \A e \in Making : e.id = c => e.sequence = 0
    BY <1>1, <1>10 DEF Making
  <2>4. ASSUME NEW i \in 1 .. Len(Line), Leads(Line, i, c)
        PROVE  \E k \in 1 .. Len(Line') : Leads(Line', k, c) /\ Line'[k] = Line[i]
    <3>1. i \in 1 .. Len(wire) /\ Leads(wire, i, c)
      BY <1>6, <2>4
    <3>2. i \in 1 .. Len(s) /\ s[i] = wire[i] /\ Leads(s, i, c)
      BY <1>3, <1>5, <1>10, <3>1, LeadsAppended DEF s
    <3>3. g.id = c => Beaten(g, s[i])
      BY <1>4 DEF Beaten
    <3>4. i \in 1 .. Len(Append(s, g)) /\ Append(s, g)[i] = s[i] /\ Leads(Append(s, g), i, c)
      BY <1>4, <1>5, <3>2, <3>3, LeadsAppended
    <3> QED BY <1>6, <3>2, <3>4
  <2>5. \A e \in Range(Line') : e.id = c =>
            \/ e \in Range(Line)
            \/ e.type = "TELEMETRY" /\ \A y \in Making : y.id = c => y.sequence = 0
    BY <1>3, <1>4, <1>7, <1>10, <2>3
  <2>6. Worded(c)'
    BY <1>1, <1>8, <2>2, <2>4, <2>5, WordKept
  <2> QED BY <2>6 DEF Accounted, Worded
<1> QED BY <1>8, <1>9, <1>10 DEF InView

\* A replayed event has the last word, since its number is the highest: that
\* word is right, or a thread is about to publish a later one, or it overtakes.
LEMMA ReplayedView ==
    ASSUME TypeInv, InOrder, InView, NoLoss', SendReplayed
    PROVE  InView'
<1> DEFINE h == Head(outgoing)
           r == Stamped(h)
<1>1. /\ bridge = "replay" /\ bridge' # "failed"
      /\ UNCHANGED <<contexts_, made, registry, queue_>>
      /\ overtaken' = IF h.id # 0 /\ Outdated(h)
                      THEN overtaken \cup {h.id} ELSE overtaken \ {h.id}
  BY DEF SendReplayed, CloseConnection, publisher, daemon
<1>2. \/ /\ link = "up" /\ Send(r) /\ outgoing' = Tail(outgoing)
         /\ bridge' = IF Len(outgoing) = 1 THEN "idle" ELSE "replay"
         /\ UNCHANGED <<rescan_requested_, link>>
      \/ link = "dead" /\ link' = "down" /\ UNCHANGED wire
  BY DEF SendReplayed, CloseConnection
<1>3. /\ outgoing \in Seq(Response) /\ outgoing # << >> /\ h \in Response
      /\ Len(Tail(outgoing)) = Len(outgoing) - 1 /\ Tail(outgoing) \in Seq(Response)
      /\ Range(outgoing) = {h} \cup Range(Tail(outgoing))
  <2>1. outgoing \in Seq(Response) /\ outgoing # << >>
    BY <1>1 DEF TypeInv, BridgeTyped
  <2> QED BY <2>1, TailFacts
<1>4. /\ r \in Frame /\ r.id = h.id /\ r.type = "RESCAN_RESPONSE"
      /\ r.enabled = h.enabled /\ r.sequence = next_sequence_
  <2>1. h = [type |-> "RESCAN_RESPONSE", id |-> h.id, enabled |-> h.enabled,
             sequence |-> h.sequence]
    BY <1>3 DEF Response
  <2>2. r = [type |-> "RESCAN_RESPONSE", id |-> h.id, enabled |-> h.enabled,
             sequence |-> next_sequence_]
    BY <2>1 DEF Stamped
  <2>3. r \in Frame
    BY <1>3, FrameFacts
  <2> HIDE DEF r
  <2> QED BY <2>2, <2>3
<1> HIDE DEF h, r
<1>5. /\ MadeApart' /\ MadeRight' /\ Making' = Making /\ Tagged' = Tagged
      /\ \A c : SameAt(c)
  BY <1>1, PublisherSteady DEF InView
<1>6. Back' = Back
  BY <1>1 DEF Back
<1>7. LinkLost'
  BY <1>1, <1>2 DEF InView, LinkLost
<1>8. ASSUME NEW c \in Nat \ {0}, c \notin overtaken', c = h.id
      PROVE  Pending(c)' \/ Right(contexts_, r)
  <2>1. ~Outdated(h)
    BY <1>1, <1>8
  <2>2. CASE h.id \in DOMAIN contexts_ /\ contexts_[h.id] = h.enabled
    BY <1>4, <2>2 DEF Right
  <2>3. CASE \E t \in Thread : /\ made[t] # NoEvent /\ made[t].id = h.id
                               /\ made[t].type # "TELEMETRY" /\ made[t].sequence = 0
    <3>1. PICK e \in Making : e.id = c /\ e.type # "TELEMETRY" /\ e.sequence = 0
      BY <1>8, <2>3 DEF Making
    <3>2. e \in Making'
      BY <1>5
    <3> QED BY <3>1, <3>2 DEF Pending
  <2> QED BY <2>1, <2>2, <2>3 DEF Outdated
<1>9. CASE /\ link = "up" /\ Send(r) /\ outgoing' = Tail(outgoing)
           /\ bridge' = IF Len(outgoing) = 1 THEN "idle" ELSE "replay"
           /\ UNCHANGED <<rescan_requested_, link>>
  <2>1. wire' = Append(wire, r)
    BY <1>4, <1>9, SendAppends DEF NoLoss, TypeInv
  <2>2. /\ Range(Line') = Range(Line) \cup {r} /\ Range(wire') = Range(wire) \cup {r}
        /\ \A c : c # r.id => \A i \in 1 .. Len(Line) : Leads(Line, i, c) =>
                \E k \in 1 .. Len(Line') : Leads(Line', k, c) /\ Line'[k] = Line[i]
    BY <1>4, <1>6, <2>1, SentPast
  <2>3. ASSUME NEW c \in Nat \ {0}, c \notin overtaken', c # h.id PROVE Accounted(c)'
    <3>1. c \notin overtaken
      BY <1>1, <2>3
    <3>2. Worded(c) \/ ReplayDue(c)
      BY <3>1 DEF InView, Accounted, Worded
    <3>3. \A e \in Range(Line') : e.id = c => e \in Range(Line)
      BY <1>4, <2>2, <2>3
    <3>4. \A i \in 1 .. Len(Line) : Leads(Line, i, c) =>
                \E k \in 1 .. Len(Line') : Leads(Line', k, c) /\ Line'[k] = Line[i]
      BY <1>4, <2>2, <2>3
    <3>5. Worded(c) => Worded(c)'
      BY <1>1, <1>5, <3>3, <3>4, WordKept
    <3>6. ReplayDue(c) => ReplayDue(c)'
      <4> SUFFICES ASSUME ReplayDue(c) PROVE ReplayDue(c)'
        OBVIOUS
      <4>1. \A e \in Range(wire') : Introduces(e, c) => e \in Range(wire)
        BY <1>4, <2>2, <2>3 DEF Introduces
      <4>2. rescan_requested_' \/ \E e \in Range(outgoing) : e.id = c
        BY <1>9 DEF ReplayDue
      <4>3. ASSUME NEW e \in Range(outgoing), e.id = c
            PROVE  bridge' = "replay" /\ \E y \in Range(outgoing') : y.id = c
        <5>1. e \in Range(Tail(outgoing))
          BY <1>3, <2>3, <4>3
        <5>2. Tail(outgoing) # << >>
          BY <5>1, EmptyFacts
        <5>3. Len(outgoing) # 1
          BY <1>3, <5>2
        <5> QED BY <1>9, <4>3, <5>1, <5>3
      <4> QED BY <1>1, <1>5, <4>1, <4>2, <4>3, DueKept
    <3> QED BY <3>2, <3>5, <3>6 DEF Accounted, Worded
  <2>4. ASSUME NEW c \in Nat \ {0}, c = h.id, Right(contexts_, r) PROVE OnItsWay(c)'
    <3>1. /\ wire \in Seq(Frame) /\ Back \in Seq(Frame) /\ Range(Line) \subseteq Flying
          /\ Tagged \subseteq Flying
      BY LineTyped
    <3>2. /\ Append(wire, r) \in Seq(Frame) /\ Len(Append(wire, r)) = Len(wire) + 1
          /\ Len(wire) \in Nat /\ Append(wire, r)[Len(wire) + 1] = r
      BY <1>4, <3>1, AppendFacts
    <3>3. Line' = Append(wire, r) \o Back
      BY <1>6, <2>1 DEF Line
    <3>4. /\ Line' \in Seq(Frame) /\ Len(Line') = Len(wire) + 1 + Len(Back) /\ Len(Back) \in Nat
          /\ \A i \in 1 .. Len(wire) + 1 : Line'[i] = Append(wire, r)[i]
          /\ \A i \in 1 .. Len(Back) : Line'[Len(wire) + 1 + i] = Back[i]
      BY <3>1, <3>2, <3>3, ConcatFacts
    <3>5. \A i \in 1 .. Len(wire) : Append(wire, r)[i] = wire[i]
      BY <1>4, <3>1, AppendFacts
    <3> DEFINE k == Len(wire) + 1
    <3>6. k \in 1 .. Len(Line') /\ Line'[k] = r
      BY <3>2, <3>4
    <3>7. \A y \in Flying : y.sequence < r.sequence
      BY <1>4 DEF InOrder
    <3>8. ASSUME NEW j \in 1 .. k - 1 PROVE Line'[j].sequence < r.sequence
      <4>1. j \in 1 .. Len(wire) /\ j \in 1 .. Len(wire) + 1
        BY <3>2
      <4>2. Line'[j] = wire[j]
        BY <3>4, <3>5, <4>1
      <4>3. wire[j] \in Flying
        BY <3>1, <4>1, RangeFacts DEF Flying
      <4> QED BY <3>7, <4>2, <4>3
    <3>9. ASSUME NEW j \in k + 1 .. Len(Line') PROVE Beaten(Line'[j], r)
      <4>1. j - (Len(wire) + 1) \in 1 .. Len(Back)
            /\ Len(wire) + 1 + (j - (Len(wire) + 1)) = j
        BY <3>2, <3>4
      <4>2. Line'[j] = Back[j - (Len(wire) + 1)]
        BY <3>4, <4>1
      <4>3. Line'[j] \in Range(Back)
        BY <3>1, <4>1, <4>2, RangeFacts
      <4>4. Line'[j] \in Flying
        BY <4>3, LineTyped
      <4> QED BY <1>4, <3>7, <4>4 DEF Beaten
    <3>10. KnownBefore(registry', c, r.sequence)
      BY <1>1, <1>4 DEF KnownBefore, TypeInv, RegistryTyped, BridgeTyped, InOrder
    <3>11. \A e \in Tagged' : Beaten(e, r)
      BY <1>4, <1>5, <3>1, <3>7 DEF Beaten
    <3>12. Leads(Line', k, c)
      BY <1>4, <2>4, <3>6, <3>8, <3>9 DEF Leads
    <3> HIDE DEF k
    <3> QED BY <1>1, <2>4, <3>6, <3>10, <3>11, <3>12 DEF OnItsWay
  <2>5. ASSUME NEW c \in Nat \ {0}, c \notin overtaken' PROVE Accounted(c)'
    BY <1>8, <2>3, <2>4, <2>5 DEF Accounted
  <2> QED BY <1>5, <1>7, <2>5 DEF InView
<1>10. CASE link = "dead" /\ link' = "down" /\ UNCHANGED wire
  <2>1. Line' = Line /\ wire' = << >> /\ DOMAIN registry = {}
    BY <1>6, <1>10 DEF Line, InOrder, InView, LinkLost
  <2>2. ASSUME NEW c \in Nat \ {0}, c \notin overtaken', c # h.id PROVE Accounted(c)'
    <3>1. c \notin overtaken
      BY <1>1, <2>2
    <3>2. Worded(c) \/ ReplayDue(c)
      BY <3>1 DEF InView, Accounted, Worded
    <3>3. Worded(c) => Worded(c)'
      BY <1>1, <1>5, <2>1, WordKept
    <3>4. ReplayDue(c) => ReplayDue(c)'
      BY <1>1, <1>5, <1>10, DueKept
    <3> QED BY <3>2, <3>3, <3>4 DEF Accounted, Worded
  <2>3. ASSUME NEW c \in Nat \ {0}, c = h.id, Right(contexts_, r) PROVE ReplayDue(c)'
    <3>1. c \in DOMAIN contexts_
      BY <1>4, <2>3 DEF Right
    <3>2. Range(wire') = {}
      BY <2>1, EmptyFacts
    <3> QED BY <1>1, <1>10, <2>1, <3>1, <3>2 DEF ReplayDue
  <2>4. ASSUME NEW c \in Nat \ {0}, c \notin overtaken' PROVE Accounted(c)'
    BY <1>8, <2>2, <2>3, <2>4 DEF Accounted
  <2> QED BY <1>5, <1>7, <2>4 DEF InView
<1> QED BY <1>2, <1>9, <1>10

\* A daemon that is replaced gets a replay of what is live, and what is not live
\* is not introduced to it: its release beats whatever is queued.
LEMMA RestartView ==
    ASSUME TypeInv, InView, DaemonRestart
    PROVE  InView'
<1>1. /\ UNCHANGED <<contexts_, made, queue_, bridge, outgoing, overtaken>>
      /\ registry' = << >> /\ wire' = << >> /\ link' # "up"
  BY DEF DaemonRestart, publisher, history
<1>2. DOMAIN registry' = {} /\ Range(wire') = {}
  BY <1>1, EmptyFacts
<1>3. /\ wire \in Seq(Frame) /\ Back \in Seq(Frame)
      /\ Range(Line) = Range(wire) \cup Range(Back)
  BY LineTyped
<1>4. Line' = Back
  <2>1. Back' = Back
    BY <1>1 DEF Back
  <2>2. << >> \o Back = Back
    BY <1>3
  <2> QED BY <1>1, <2>1, <2>2 DEF Line
<1>5. /\ MadeApart' /\ MadeRight' /\ Making' = Making /\ Tagged' = Tagged
      /\ \A c : SameAt(c)
  BY <1>1, PublisherSteady DEF InView
<1>6. LinkLost'
  BY <1>2 DEF LinkLost
<1>7. ASSUME NEW c \in Nat \ {0}, c \notin overtaken PROVE Accounted(c)'
  <2>1. CASE c \in DOMAIN contexts_
    <3>1. ReplayDue(c)'
      BY <1>1, <1>2, <2>1 DEF ReplayDue
    <3> QED BY <3>1 DEF Accounted
  <2>2. CASE c \notin DOMAIN contexts_ /\ Pending(c)
    <3>1. PICK e \in Making :
            /\ e.id = c /\ e.type # "TELEMETRY"
            /\ e.sequence # 0 =>
                /\ KnownBefore(registry, c, e.sequence)
                /\ \A x \in Range(Line) : x.id = c => x.sequence < e.sequence
      BY <2>2 DEF Pending
    <3>2. e.sequence # 0 =>
            /\ KnownBefore(registry', c, e.sequence)
            /\ \A x \in Range(Line') : x.id = c => x.sequence < e.sequence
      BY <1>2, <1>3, <1>4, <3>1 DEF KnownBefore
    <3>3. Pending(c)'
      BY <1>5, <3>1, <3>2 DEF Pending
    <3> QED BY <3>3 DEF Accounted
  <2>3. CASE c \notin DOMAIN contexts_ /\ OnItsWay(c)
    <3>1. PICK i \in 1 .. Len(Line) :
            /\ Leads(Line, i, c) /\ Right(contexts_, Line[i])
            /\ KnownBefore(registry, c, Line[i].sequence)
            /\ \A e \in Tagged : e.id = c => Beaten(e, Line[i])
      BY <2>3 DEF OnItsWay
    <3>2. \/ \E k \in 1 .. Len(Back) : Leads(Back, k, c) /\ Back[k] = Line[i]
          \/ \A x \in Range(Back) : x.id = c => Beaten(x, Line[i])
      <4>1. i \in 1 .. Len(wire \o Back) /\ Leads(wire \o Back, i, c)
        BY <3>1 DEF Line
      <4>2. \/ \E k \in 1 .. Len(Back) : Leads(Back, k, c) /\ Back[k] = (wire \o Back)[i]
            \/ \E k \in 1 .. Len(wire) :
                /\ wire[k] = (wire \o Back)[i]
                /\ \A x \in Range(Back) : x.id = c => Beaten(x, wire[k])
        BY <1>3, <4>1, LeadsDropped
      <4> QED BY <4>2 DEF Line
    <3>3. ASSUME NEW k \in 1 .. Len(Back), Leads(Back, k, c), Back[k] = Line[i]
          PROVE  OnItsWay(c)'
      <4>1. k \in 1 .. Len(Line') /\ Leads(Line', k, c) /\ Line'[k] = Line[i]
        BY <1>4, <3>3
      <4>2. KnownBefore(registry', c, Line'[k].sequence)
        BY <1>2 DEF KnownBefore
      <4> QED BY <1>1, <1>5, <3>1, <4>1, <4>2 DEF OnItsWay
    <3>4. ASSUME \A x \in Range(Back) : x.id = c => Beaten(x, Line[i])
          PROVE  Silent(c)'
      <4>1. Line[i].type = "CONTEXT_RELEASED"
        BY <2>3, <3>1 DEF Right, Leads
      <4>2. \A x \in Range(Line') \cup Tagged' : ~Introduces(x, c)
        BY <1>4, <1>5, <3>1, <3>4, <4>1 DEF Beaten, Introduces
      <4> QED BY <1>2, <4>2 DEF Silent
    <3> QED BY <3>2, <3>3, <3>4 DEF Accounted
  <2>4. CASE Silent(c)
    <3>1. Silent(c)'
      BY <1>2, <1>3, <1>4, <1>5, <2>4 DEF Silent
    <3> QED BY <3>1 DEF Accounted
  <2>5. Settled(c) \/ ReplayDue(c) => c \in DOMAIN contexts_
    BY DEF Settled, Agrees, ReplayDue
  <2> QED BY <1>7, <2>1, <2>2, <2>3, <2>4, <2>5 DEF InView, Accounted
<1> QED BY <1>1, <1>5, <1>6, <1>7 DEF InView

\* What the event that Poll reads does to the entry of a context.
LEMMA PollAt ==
    ASSUME TypeInv, Poll, NEW c \in Nat \ {0}
    PROVE  LET h == Head(wire) IN
           \/ /\ \/ h.id # c \/ h.type \in {"DRIVER_HELLO", "ANSWER"}
                 \/ c \notin DOMAIN registry /\ ~Introduces(h, c)
                 \/ c \in DOMAIN registry /\ h.sequence <= registry[c].last_sequence
              /\ c \in DOMAIN registry' =>
                    /\ c \in DOMAIN registry
                    /\ registry'[c].last_sequence = registry[c].last_sequence
                    /\ registry'[c].state = registry[c].state
              /\ h.id = c /\ c \in DOMAIN registry => c \in DOMAIN registry'
           \/ /\ h.id = c /\ (c \in DOMAIN registry \/ Introduces(h, c))
              /\ KnownBefore(registry, c, h.sequence)
              /\ \/ h.type = "CONTEXT_RELEASED" /\ c \notin DOMAIN registry'
                 \/ /\ h.type \notin {"CONTEXT_RELEASED", "DRIVER_HELLO", "ANSWER"}
                    /\ c \in DOMAIN registry' /\ registry'[c].last_sequence = h.sequence
                    /\ registry'[c].state = StateAfter(h)
<1> DEFINE h == Head(wire)
<1>1. /\ h \in Frame /\ h.sequence \in Nat /\ highest_sequence_ \in Nat
      /\ registry \in [DOMAIN registry -> Entry] /\ RegistryTyped
      /\ \A d \in DOMAIN registry : registry[d].last_sequence \in Nat
  <2>1. h \in Frame
    BY PollFacts
  <2> HIDE DEF h
  <2>2. h.sequence \in Nat
    BY <2>1 DEF Frame, DriverEvent
  <2>3. /\ highest_sequence_ \in Nat
        /\ registry \in [DOMAIN registry -> Entry] /\ RegistryTyped
    BY DEF TypeInv, RegistryTyped
  <2>4. \A d \in DOMAIN registry : registry[d].last_sequence \in Nat
    BY <2>3 DEF Entry
  <2> QED BY <2>1, <2>2, <2>3, <2>4
<1>2. Higher(h) \in Nat
  BY <1>1 DEF Higher
<1> HIDE DEF h
<1>3. CASE /\ Ignored(h) \/ (~Terminator(h) /\ Duplicate(h))
           /\ UNCHANGED <<daemon, commands, refused>>
  <2>1. UNCHANGED registry
    BY <1>3 DEF daemon
  <2>2. \/ h.id # c \/ h.type \in {"DRIVER_HELLO", "ANSWER"}
        \/ c \notin DOMAIN registry /\ ~Introduces(h, c)
        \/ c \in DOMAIN registry /\ h.sequence <= registry[c].last_sequence
    BY <1>3 DEF Ignored, Duplicate, Known, Introduces
  <2> QED BY <2>1, <2>2 DEF h
<1>4. CASE Terminator(h) /\ registry' = Reconciled(registry, Higher(h))
  <2>1. h.id # c
    BY <1>4 DEF Terminator
  <2>2. /\ DOMAIN registry' \subseteq DOMAIN registry
        /\ \A d \in DOMAIN registry' :
            /\ registry'[d].last_sequence = registry[d].last_sequence
            /\ registry'[d].state = registry[d].state
    BY <1>1, <1>2, <1>4, EntriesFacts
  <2> QED BY <2>1, <2>2 DEF h
<1>5. CASE /\ ~Ignored(h) /\ ~Terminator(h) /\ ~Duplicate(h)
           /\ registry' = MarkedStale(Observed(h), Higher(h)) \/ registry' = Observed(h)
  <2>1. /\ Observed(h) \in [DOMAIN Observed(h) -> Entry] /\ h.id \in Nat \ {0}
        /\ h.type = "CONTEXT_RELEASED" => DOMAIN Observed(h) = DOMAIN registry \ {h.id}
        /\ h.type # "CONTEXT_RELEASED" =>
            /\ DOMAIN Observed(h) = DOMAIN registry \cup {h.id}
            /\ Observed(h)[h.id].last_sequence = h.sequence
            /\ Observed(h)[h.id].state = StateAfter(h)
        /\ \A d \in DOMAIN registry \ {h.id} : Observed(h)[d] = registry[d]
    BY <1>1, <1>5, ObservedFacts
  <2>2. /\ DOMAIN registry' = DOMAIN Observed(h)
        /\ \A d \in DOMAIN registry' :
            /\ registry'[d].last_sequence = Observed(h)[d].last_sequence
            /\ registry'[d].state = Observed(h)[d].state
    BY <1>2, <1>5, <2>1, EntriesFacts
  <2>3. CASE h.id # c
    <3>1. c \in DOMAIN registry' => c \in DOMAIN registry \ {h.id}
      BY <2>1, <2>2, <2>3
    <3> QED BY <2>1, <2>2, <2>3, <3>1 DEF h
  <2>4. CASE h.id = c
    <3>1. /\ h.type \notin {"DRIVER_HELLO", "ANSWER"}
          /\ c \in DOMAIN registry \/ Introduces(h, c)
      BY <1>5, <2>4 DEF Ignored, Known, Introduces
    <3>2. KnownBefore(registry, c, h.sequence)
      BY <1>1, <1>5, <2>4 DEF KnownBefore, Duplicate, Known
    <3>3. CASE h.type = "CONTEXT_RELEASED"
      <4>1. c \notin DOMAIN registry'
        BY <2>1, <2>2, <2>4, <3>3
      <4> QED BY <2>4, <3>1, <3>2, <3>3, <4>1 DEF h
    <3>4. CASE h.type # "CONTEXT_RELEASED"
      <4>1. /\ c \in DOMAIN registry' /\ registry'[c].last_sequence = h.sequence
            /\ registry'[c].state = StateAfter(h)
        BY <2>1, <2>2, <2>4, <3>4
      <4> QED BY <2>4, <3>1, <3>2, <3>4, <4>1 DEF h
    <3> QED BY <3>3, <3>4
  <2> QED BY <2>3, <2>4
<1> QED BY <1>3, <1>4, <1>5, PollFacts DEF h

LEMMA PollLine ==
    ASSUME TypeInv, TypeInv', Poll
    PROVE  LET h == Head(wire) IN
           /\ Line = <<h>> \o Line' /\ <<h>> \in Seq(Frame) /\ Line' \in Seq(Frame)
           /\ Range(Line) = {h} \cup Range(Line') /\ Range(wire) = {h} \cup Range(wire')
<1> DEFINE h == Head(wire)
<1>1. /\ wire # << >> /\ wire' = Tail(wire) /\ h \in Frame
      /\ UNCHANGED <<queue_, bridge, outgoing>>
  BY PollFacts DEF thread
<1>2. wire \in Seq(Frame) /\ Back \in Seq(Frame) /\ Back' = Back
  BY <1>1, LineTyped DEF Back
<1>3. Tail(wire) \in Seq(Frame) /\ <<h>> \in Seq(Frame) /\ Range(wire) = {h} \cup Range(wire')
  BY <1>1, <1>2, TailFacts
<1>4. <<h>> \o Tail(wire) = wire
  BY <1>1, <1>2, HeadMoves
<1>5. Range(<<h>>) = {h}
  BY DEF Range
<1> HIDE DEF h
<1>6. (<<h>> \o Tail(wire)) \o Back = <<h>> \o (Tail(wire) \o Back)
  BY <1>2, <1>3, ConcatAssociative
<1>7. Line' = Tail(wire) \o Back /\ Line' \in Seq(Frame)
  BY <1>1, <1>2, <1>3, ConcatFacts DEF Line
<1>8. Line = <<h>> \o Line'
  BY <1>4, <1>6, <1>7 DEF Line
<1>9. \A s \in Seq(Frame) : Range(<<h>> \o s) = Range(<<h>>) \cup Range(s)
  BY <1>3, ConcatRange
<1>10. Range(Line) = {h} \cup Range(Line')
  BY <1>5, <1>7, <1>8, <1>9
<1> QED BY <1>3, <1>7, <1>8, <1>10 DEF h

\* The event that has the last word is still to come, or is being read.
LEMMA PollLeads ==
    ASSUME TypeInv, TypeInv', Poll, NEW c, NEW i \in 1 .. Len(Line), Leads(Line, i, c)
    PROVE  LET h == Head(wire) IN
           \/ \E k \in 1 .. Len(Line') :
                /\ Leads(Line', k, c) /\ Line'[k] = Line[i]
                /\ h.id = c => h.sequence < Line[i].sequence
           \/ h = Line[i] /\ \A x \in Range(Line') : x.id = c => Beaten(x, h)
<1> DEFINE h == Head(wire)
           a == <<h>>
<1>1. Line = a \o Line' /\ a \in Seq(Frame) /\ Line' \in Seq(Frame)
  BY PollLine
<1>2. Len(a) = 1 /\ a[1] = h /\ Range(a) = {h}
  BY DEF Range
<1> HIDE DEF h, a
<1>3. \A p, b \in Seq(Frame) : \A j \in 1 .. Len(p \o b) : Leads(p \o b, j, c) =>
          \/ \E k \in 1 .. Len(b) :
                /\ Leads(b, k, c) /\ b[k] = (p \o b)[j]
                /\ \A x \in Range(p) : x.id = c => x.sequence < b[k].sequence
          \/ \E k \in 1 .. Len(p) :
                p[k] = (p \o b)[j] /\ \A x \in Range(b) : x.id = c => Beaten(x, p[k])
  BY LeadsDropped
<1>4. \/ \E k \in 1 .. Len(Line') :
            /\ Leads(Line', k, c) /\ Line'[k] = Line[i]
            /\ \A x \in Range(a) : x.id = c => x.sequence < Line'[k].sequence
      \/ \E k \in 1 .. Len(a) :
            a[k] = Line[i] /\ \A x \in Range(Line') : x.id = c => Beaten(x, a[k])
  <2>1. i \in 1 .. Len(a \o Line') /\ Leads(a \o Line', i, c)
    BY <1>1
  <2>2. \/ \E k \in 1 .. Len(Line') :
              /\ Leads(Line', k, c) /\ Line'[k] = (a \o Line')[i]
              /\ \A x \in Range(a) : x.id = c => x.sequence < Line'[k].sequence
        \/ \E k \in 1 .. Len(a) :
              /\ a[k] = (a \o Line')[i]
              /\ \A x \in Range(Line') : x.id = c => Beaten(x, a[k])
    BY <1>1, <1>3, <2>1, Zenon
  <2> QED BY <1>1, <2>2, Zenon
<1>5. ASSUME NEW k \in 1 .. Len(a) PROVE a[k] = h
  BY <1>2, <1>5
<1> QED BY <1>2, <1>4, <1>5 DEF h

\* An event that is read and says what is the case leaves a right entry.
LEMMA AgreesAfter ==
    ASSUME NEW h, NEW c, h.id = c, Right(contexts_, h), h.type # "CONTEXT_RELEASED",
           h \in Frame, UNCHANGED contexts_, registry'[c].state = StateAfter(h)
    PROVE  Agrees(c)'
<1>1. /\ h.type \in {"CONTEXT_CREATED", "CONTEXT_CONFIGURED", "CONTEXT_ENABLED",
                     "CONTEXT_DISABLED", "RESCAN_RESPONSE"}
      /\ c \in DOMAIN contexts_
  BY DEF Right, Frame, DriverEvent, EventType, LifecycleType
<1>2. CASE h.type \in {"CONTEXT_CREATED", "CONTEXT_CONFIGURED"}
  <2>1. StateAfter(h) \in {"CREATED", "CONFIGURED"}
    BY <1>2 DEF StateAfter
  <2> QED BY <1>1, <2>1 DEF Agrees
<1>3. CASE h.type = "CONTEXT_ENABLED"
  <2>1. StateAfter(h) = "ACTIVE" /\ contexts_[c]
    BY <1>3 DEF StateAfter, Right
  <2> QED BY <1>1, <2>1 DEF Agrees
<1>4. CASE h.type = "CONTEXT_DISABLED"
  <2>1. StateAfter(h) = "INACTIVE" /\ ~contexts_[c]
    BY <1>4 DEF StateAfter, Right
  <2> QED BY <1>1, <2>1 DEF Agrees
<1>5. CASE h.type = "RESCAN_RESPONSE"
  <2>1. /\ StateAfter(h) = IF h.enabled THEN "ACTIVE" ELSE "INACTIVE"
        /\ contexts_[c] = h.enabled
    BY <1>5 DEF StateAfter, Right
  <2> QED BY <1>1, <2>1 DEF Agrees
<1> QED BY <1>1, <1>2, <1>3, <1>4, <1>5

\* Reading an event of another context.
LEMMA PollOther ==
    ASSUME TypeInv, TypeInv', InOrder, TerminatorsSpare, Poll, link = "up",
           NEW c \in Nat \ {0}, Accounted(c), c # Head(wire).id
    PROVE  Accounted(c)'
<1> DEFINE h == Head(wire)
<1>1. UNCHANGED <<contexts_, made, queue_, bridge, outgoing, link, rescan_requested_>>
  BY PollFacts DEF publisher, thread
<1>2. /\ Line = <<h>> \o Line' /\ <<h>> \in Seq(Frame) /\ Line' \in Seq(Frame)
      /\ Range(Line) = {h} \cup Range(Line') /\ Range(wire) = {h} \cup Range(wire')
  BY PollLine
<1>3. c \in DOMAIN registry' => /\ c \in DOMAIN registry
                                /\ registry'[c].last_sequence = registry[c].last_sequence
                                /\ registry'[c].state = registry[c].state
  BY PollAt
<1>4. Making' = Making /\ Tagged' = Tagged
  BY <1>1, MakingSame DEF Tagged
<1>5. c # h.id
  OBVIOUS
<1> HIDE DEF h
<1>6. CASE Pending(c)
  <2>1. PICK e \in Making :
            /\ e.id = c /\ e.type # "TELEMETRY"
            /\ e.sequence # 0 =>
                /\ KnownBefore(registry, c, e.sequence)
                /\ \A x \in Range(Line) : x.id = c => x.sequence < e.sequence
    BY <1>6 DEF Pending
  <2>2. e.sequence # 0 =>
            /\ KnownBefore(registry', c, e.sequence)
            /\ \A x \in Range(Line') : x.id = c => x.sequence < e.sequence
    BY <1>2, <1>3, <2>1 DEF KnownBefore
  <2>3. Pending(c)'
    BY <1>4, <2>1, <2>2 DEF Pending
  <2> QED BY <2>3 DEF Accounted
<1>7. CASE OnItsWay(c)
  <2>1. PICK i \in 1 .. Len(Line) :
            /\ Leads(Line, i, c) /\ Right(contexts_, Line[i])
            /\ KnownBefore(registry, c, Line[i].sequence)
            /\ \A e \in Tagged : e.id = c => Beaten(e, Line[i])
    BY <1>7 DEF OnItsWay
  <2>2. Line[i].id = c
    BY <2>1 DEF Leads
  <2>3. Line[i] # h
    BY <1>5, <2>2
  <2>4. PICK k \in 1 .. Len(Line') : Leads(Line', k, c) /\ Line'[k] = Line[i]
    BY <2>1, <2>3, PollLeads DEF h
  <2>5. KnownBefore(registry', c, Line'[k].sequence)
    BY <1>3, <2>1, <2>4 DEF KnownBefore
  <2>6. OnItsWay(c)'
    BY <1>1, <1>4, <2>1, <2>4, <2>5 DEF OnItsWay
  <2> QED BY <2>6 DEF Accounted
<1>8. CASE Settled(c)
  <2>1. c \in DOMAIN contexts_ /\ c \in DOMAIN registry
    BY <1>8 DEF Settled, Agrees
  <2>2. c \in DOMAIN registry'
    BY <2>1, PollKeeps
  <2>3. Agrees(c)'
    BY <1>1, <1>3, <1>8, <2>2 DEF Settled, Agrees
  <2>4. Settled(c)'
    BY <1>2, <1>3, <1>4, <1>8, <2>2, <2>3 DEF Settled
  <2> QED BY <2>4 DEF Accounted
<1>9. CASE ReplayDue(c)
  <2>1. ReplayDue(c)'
    BY <1>1, <1>2, <1>3, <1>9 DEF ReplayDue
  <2> QED BY <2>1 DEF Accounted
<1>10. CASE Silent(c)
  <2>1. Silent(c)'
    BY <1>2, <1>3, <1>4, <1>10 DEF Silent
  <2> QED BY <2>1 DEF Accounted
<1> QED BY <1>6, <1>7, <1>8, <1>9, <1>10 DEF Accounted

\* Reading an event of the context itself.
LEMMA PollOwn ==
    ASSUME TypeInv, TypeInv', Poll, NEW c \in Nat \ {0}, Accounted(c), c = Head(wire).id
    PROVE  Accounted(c)'
<1> DEFINE h == Head(wire)
           Kept == /\ c \in DOMAIN registry' <=> c \in DOMAIN registry
                   /\ c \in DOMAIN registry =>
                        /\ registry'[c].last_sequence = registry[c].last_sequence
                        /\ registry'[c].state = registry[c].state
           Taken == /\ c \in DOMAIN registry \/ Introduces(h, c)
                    /\ KnownBefore(registry, c, h.sequence)
           Entered == /\ h.type \notin {"CONTEXT_RELEASED", "DRIVER_HELLO", "ANSWER"}
                      /\ c \in DOMAIN registry' /\ registry'[c].last_sequence = h.sequence
                      /\ registry'[c].state = StateAfter(h)
<1>1. UNCHANGED <<contexts_, made, queue_, bridge, outgoing, link, rescan_requested_>>
  BY PollFacts DEF publisher, thread
<1>2. Range(Line) = {h} \cup Range(Line') /\ Range(wire) = {h} \cup Range(wire')
  BY PollLine
<1>3. h \in Frame /\ h.id = c /\ h.sequence \in Nat
  BY PollFacts DEF Frame, DriverEvent
<1>4. \/ /\ Kept
         /\ \/ h.type \in {"DRIVER_HELLO", "ANSWER"}
            \/ c \notin DOMAIN registry /\ ~Introduces(h, c)
            \/ c \in DOMAIN registry /\ h.sequence <= registry[c].last_sequence
      \/ Taken /\ h.type = "CONTEXT_RELEASED" /\ c \notin DOMAIN registry'
      \/ Taken /\ Entered
  BY PollAt
<1>5. Making' = Making /\ Tagged' = Tagged
  BY <1>1, MakingSame DEF Tagged
<1>6. /\ \A e \in Range(Line) \cup Range(Line') \cup Tagged : e.sequence \in Nat
      /\ c \in DOMAIN registry => registry[c].last_sequence \in Nat
  <2>1. \A e \in Frame \cup Lifecycle : e.sequence \in Nat
    BY DEF Frame, DriverEvent, Lifecycle
  <2>2. \A e \in Range(Line) : e \in Frame
    BY LineTyped, RangeFacts
  <2>3. \A e \in Tagged : e \in Lifecycle
    BY DEF Tagged, Making, TypeInv, PublisherTyped
  <2>4. c \in DOMAIN registry => registry[c].last_sequence \in Nat
    BY DEF TypeInv, RegistryTyped, Entry
  <2> QED BY <1>2, <2>1, <2>2, <2>3, <2>4
<1> HIDE DEF h
<1>7. ASSUME NEW n, KnownBefore(registry, c, n), h.sequence < n PROVE KnownBefore(registry', c, n)
  BY <1>4, <1>7 DEF KnownBefore
<1>8. CASE Pending(c)
  <2>1. PICK e \in Making :
            /\ e.id = c /\ e.type # "TELEMETRY"
            /\ e.sequence # 0 =>
                /\ KnownBefore(registry, c, e.sequence)
                /\ \A x \in Range(Line) : x.id = c => x.sequence < e.sequence
    BY <1>8 DEF Pending
  <2>2. e.sequence # 0 => h.sequence < e.sequence
    BY <1>2, <1>3, <2>1
  <2>3. e.sequence # 0 =>
            /\ KnownBefore(registry', c, e.sequence)
            /\ \A x \in Range(Line') : x.id = c => x.sequence < e.sequence
    BY <1>2, <1>7, <2>1, <2>2
  <2>4. Pending(c)'
    BY <1>5, <2>1, <2>3 DEF Pending
  <2> QED BY <2>4 DEF Accounted
<1>9. CASE OnItsWay(c)
  <2>1. PICK i \in 1 .. Len(Line) :
            /\ Leads(Line, i, c) /\ Right(contexts_, Line[i])
            /\ KnownBefore(registry, c, Line[i].sequence)
            /\ \A e \in Tagged : e.id = c => Beaten(e, Line[i])
    BY <1>9 DEF OnItsWay
  <2>2. \/ \E k \in 1 .. Len(Line') :
                /\ Leads(Line', k, c) /\ Line'[k] = Line[i]
                /\ h.sequence < Line[i].sequence
        \/ h = Line[i] /\ \A x \in Range(Line') : x.id = c => Beaten(x, h)
    BY <1>3, <2>1, PollLeads DEF h
  <2>3. ASSUME NEW k \in 1 .. Len(Line'), Leads(Line', k, c), Line'[k] = Line[i],
               h.sequence < Line[i].sequence
        PROVE  OnItsWay(c)'
    <3>1. KnownBefore(registry', c, Line'[k].sequence)
      BY <1>7, <2>1, <2>3
    <3> QED BY <1>1, <1>5, <2>1, <2>3, <3>1 DEF OnItsWay
  <2>4. ASSUME h = Line[i], \A x \in Range(Line') : x.id = c => Beaten(x, h)
        PROVE  Accounted(c)'
    <3>1. /\ h.type \notin {"TELEMETRY", "DRIVER_HELLO", "ANSWER"}
          /\ Right(contexts_, h) /\ KnownBefore(registry, c, h.sequence)
      BY <2>1, <2>4 DEF Right
    <3>2. \A e \in Range(Line') \cup Tagged' : e.id = c => Beaten(e, h)
      BY <1>5, <2>1, <2>4
    <3>3. CASE Kept
      <4>1. c \notin DOMAIN registry' /\ ~Introduces(h, c)
        BY <1>3, <1>4, <1>6, <3>1, <3>3 DEF KnownBefore, Introduces
      <4>2. \A e \in Range(Line') \cup Tagged' : ~Introduces(e, c)
        BY <1>3, <3>2, <4>1 DEF Beaten, Introduces
      <4>3. Silent(c)'
        BY <4>1, <4>2 DEF Silent
      <4> QED BY <4>3 DEF Accounted
    <3>4. CASE h.type = "CONTEXT_RELEASED" /\ c \notin DOMAIN registry'
      <4>1. \A e \in Range(Line') \cup Tagged' : ~Introduces(e, c)
        BY <3>2, <3>4 DEF Beaten, Introduces
      <4>2. Silent(c)'
        BY <3>4, <4>1 DEF Silent
      <4> QED BY <4>2 DEF Accounted
    <3>5. CASE Entered
      <4>1. Agrees(c)'
        BY <1>1, <1>3, <3>1, <3>5, AgreesAfter
      <4>2. \A e \in Range(Line') \cup Tagged' :
                e.id = c => e.type = "TELEMETRY" \/ e.sequence <= registry'[c].last_sequence
        BY <1>3, <1>5, <1>6, <3>2, <3>5 DEF Beaten
      <4>3. Settled(c)'
        BY <3>5, <4>1, <4>2 DEF Settled
      <4> QED BY <4>3 DEF Accounted
    <3> QED BY <1>4, <3>3, <3>4, <3>5
  <2> QED BY <2>2, <2>3, <2>4 DEF Accounted
<1>10. CASE Settled(c)
  <2>1. /\ c \in DOMAIN registry /\ Agrees(c)
        /\ h.type = "TELEMETRY" \/ h.sequence <= registry[c].last_sequence
        /\ \A e \in Range(Line') \cup Tagged' :
            e.id = c => e.type = "TELEMETRY" \/ e.sequence <= registry[c].last_sequence
    BY <1>2, <1>3, <1>5, <1>10 DEF Settled
  <2>2. CASE Kept
    <3>1. Agrees(c)'
      BY <1>1, <2>1, <2>2 DEF Agrees
    <3>2. Settled(c)'
      BY <2>1, <2>2, <3>1 DEF Settled
    <3> QED BY <3>2 DEF Accounted
  <2>3. CASE Taken /\ (h.type = "CONTEXT_RELEASED" \/ Entered)
    <3>1. h.sequence > registry[c].last_sequence
      BY <1>3, <1>6, <2>1, <2>3 DEF KnownBefore
    <3>2. h.type = "TELEMETRY" /\ Entered
      BY <1>3, <1>6, <2>1, <2>3, <3>1
    <3>3. registry'[c].state = registry[c].state
      BY <1>3, <3>2 DEF StateAfter
    <3>4. Agrees(c)'
      BY <1>1, <2>1, <3>3 DEF Agrees
    <3>5. \A e \in Range(Line') \cup Tagged' :
            e.id = c => e.type = "TELEMETRY" \/ e.sequence <= registry'[c].last_sequence
      BY <1>3, <1>5, <1>6, <2>1, <3>1, <3>2
    <3>6. Settled(c)'
      BY <3>2, <3>4, <3>5 DEF Settled
    <3> QED BY <3>6 DEF Accounted
  <2> QED BY <1>4, <2>2, <2>3
<1>11. CASE ReplayDue(c)
  <2>1. c \notin DOMAIN registry /\ ~Introduces(h, c)
    BY <1>2, <1>11 DEF ReplayDue
  <2>2. c \notin DOMAIN registry'
    BY <1>4, <2>1
  <2>3. ReplayDue(c)'
    BY <1>1, <1>2, <1>11, <2>2 DEF ReplayDue
  <2> QED BY <2>3 DEF Accounted
<1>12. CASE Silent(c)
  <2>1. c \notin DOMAIN registry /\ ~Introduces(h, c)
    BY <1>2, <1>12 DEF Silent
  <2>2. c \notin DOMAIN registry'
    BY <1>4, <2>1
  <2>3. Silent(c)'
    BY <1>2, <1>5, <1>12, <2>2 DEF Silent
  <2> QED BY <2>3 DEF Accounted
<1> QED BY <1>8, <1>9, <1>10, <1>11, <1>12 DEF Accounted

LEMMA PollView ==
    ASSUME TypeInv, TypeInv', InOrder, TerminatorsSpare, InView, Poll
    PROVE  InView'
<1>1. UNCHANGED <<contexts_, made, link, overtaken>>
  BY PollFacts DEF publisher, thread
<1>2. link = "up"
  BY PollFacts DEF InOrder
<1>3. MadeApart' /\ MadeRight'
  BY <1>1, PublisherSteady DEF InView
<1>4. LinkLost'
  BY <1>1, <1>2 DEF LinkLost
<1>5. ASSUME NEW c \in Nat \ {0}, c \notin overtaken PROVE Accounted(c)'
  <2>1. Accounted(c)
    BY <1>5 DEF InView
  <2> QED BY <1>2, <2>1, PollOther, PollOwn
<1> QED BY <1>1, <1>3, <1>4, <1>5 DEF InView

LEMMA ViewInit == Init => ViewInv
<1> SUFFICES ASSUME Init PROVE InView
  BY DEF ViewInv
<1>1. /\ DOMAIN contexts_ = {} /\ DOMAIN registry = {} /\ queue_ = << >> /\ wire = << >>
      /\ bridge = "idle" /\ \A t \in Thread : made[t] = NoEvent
  BY DEF Init
<1>2. Making = {} /\ Tagged = {}
  BY <1>1 DEF Making, Tagged
<1>3. Range(Line) = {}
  <2>1. Line = << >>
    BY <1>1 DEF Line, Back
  <2> QED BY <2>1, EmptyFacts
<1>4. \A c : Silent(c)
  BY <1>1, <1>2, <1>3 DEF Silent
<1>5. MadeApart /\ MadeRight /\ LinkLost
  BY <1>1, <1>2 DEF MadeApart, MadeRight, LinkLost
<1> QED BY <1>4, <1>5 DEF InView, Accounted

LEMMA ViewStep == TypeInv /\ CoverInv /\ ViewInv /\ [Next]_vars => ViewInv'
<1> SUFFICES ASSUME TypeInv, CoverInv, ViewInv, [Next]_vars, NoLoss' PROVE InView'
  BY DEF ViewInv
<1>1. NoLoss /\ ~DriverRestart /\ TypeInv'
  BY LossLasts, TypeStep
<1>2. InOrder /\ TerminatorsSpare /\ InView
  BY <1>1 DEF CoverInv, Undropped, ViewInv
<1>3. CASE Commands
  BY <1>2, <1>3, CommandsView
<1>4. CASE \E t \in Thread : Stamp(t) \/ Enqueue(t)
  BY <1>2, <1>4, StampView, EnqueueView
<1>5. CASE RunBridgeThread
  BY <1>2, <1>5, QuietStepsView, GreetingsView, CommitView, ReplayedView DEF RunBridgeThread
<1>6. CASE Poll
  BY <1>1, <1>2, <1>6, PollView
<1>7. CASE SendSnapshotCommand \/ UNCHANGED vars
  BY <1>2, <1>7, QuietStepsView
<1>8. CASE DaemonRestart
  BY <1>2, <1>8, RestartView
<1> QED BY <1>1, <1>3, <1>4, <1>5, <1>6, <1>7, <1>8, NextCases

LEMMA ViewImplied == TypeInv /\ ViewInv => WrongOnlyIfOvertaken
<1> SUFFICES ASSUME TypeInv, ViewInv, Quiet, NoLoss, NEW c \in DOMAIN registry, c \notin overtaken
             PROVE  Agrees(c)
  BY DEF WrongOnlyIfOvertaken
<1>1. c \in Nat \ {0} /\ InView
  BY DEF TypeInv, RegistryTyped, ViewInv
<1>2. Making = {} /\ link = "up" /\ ~rescan_requested_ /\ Range(outgoing) = {}
  BY EmptyFacts DEF Quiet, Making
<1>3. Len(Line) = 0
  <2>1. Line = << >>
    BY DEF Quiet, Line, Back
  <2> QED BY <2>1, EmptyFacts
<1>4. ~Pending(c) /\ ~OnItsWay(c) /\ ~ReplayDue(c) /\ ~Silent(c)
  BY <1>2, <1>3 DEF Pending, OnItsWay, ReplayDue, Silent
<1> QED BY <1>1, <1>4 DEF InView, Accounted, Settled

\* Once everything published has been read, the registry says something wrong about
\* a context, or still lists one that was released, only if the context's last event
\* was overtaken by a replayed event or by a commit's generations with a later
\* number: no interleaving of publishing threads, replays, reconnections, gaps and
\* restarted daemons has another way to mislead it as long as no buffer overflows
\* (Publish, HandleRescan, SessionRegistry::Apply).
THEOREM WrongOnlyIfOvertakenCorrect == Spec => []WrongOnlyIfOvertaken
<1>1. Spec => []TypeInv
  BY TypeInit, TypeStep, PTL DEF Spec
<1>2. Spec => []CoverInv
  BY <1>1, CoverInit, CoverStep, PTL DEF Spec
<1>3. Spec => []ViewInv
  BY <1>1, <1>2, ViewInit, ViewStep, PTL DEF Spec
<1> QED BY <1>1, <1>3, ViewImplied, PTL
=============================================================================
