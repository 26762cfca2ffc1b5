----------------------- MODULE OwnerSupervisionProofs -----------------------
(***************************************************************************)
(* For any spawn budget and any number of crashes, restarts and failures:  *)
(* unless an owner outlasts kHandshakeTimeout, or the daemon dies before   *)
(* it has published its owner, there is one owner at most; and OWNED names *)
(* the effect that the connected process really has.                       *)
(***************************************************************************)
EXTENDS OwnerSupervision, FiniteSetTheorems, SequenceTheorems, TLAPS

USE OwnerAssumption

Message == [type : {"OWNER_HELLO", "OWNED", "OWN_FAILED"}, effect_id : Nat]

Connection == [pid : Pid, up : Seq(Message), down : Seq({"OWN_SESSION"}), eof : BOOLEAN]

Supervisor ==
    [state_ : {"ABSENT", "STARTING", "OWNED", "FAILED"}, pid_ : Pid \cup {0},
     pid_is_ours_ : BOOLEAN, effect_id_ : Nat, spawn_attempts_ : 0 .. kMaxSpawnAttempts,
     arm_pending : BOOLEAN, backoff_pending : BOOLEAN,
     deadline : {"none", "armed", "expired"}, retry : {"due", "later"}]

Process == [at : {"none", "boot", "up", "dead"}, handle : Nat,
            dead : BOOLEAN, asked : BOOLEAN, busy : BOOLEAN]

\* A process that is tracked was spawned.
SupTyped ==
    /\ sup \in Supervisor
    /\ sup.pid_is_ours_ => sup.pid_ # 0
    /\ sup.pid_ # 0 => proc[sup.pid_].at # "none"

\* A connection is of a process that was spawned, and one that has ended is of a
\* dead one.
ConnectionsTyped ==
    /\ client \in Connection \cup {NoClient}
    /\ backlog \in Seq(Connection) /\ Len(backlog) <= Backlog
    /\ client # NoClient => proc[client.pid].at # "none"
    /\ client.eof => client.pid \notin Living
    /\ \A i \in 1 .. Len(backlog) :
            /\ proc[backlog[i].pid].at # "none"
            /\ backlog[i].eof => backlog[i].pid \notin Living

ProcTyped ==
    /\ proc \in [Pid -> Process] /\ effects \in Nat
    /\ \A p \in Pid : proc[p].handle <= effects

LoopTyped ==
    /\ phase \in {"down", "accept", "frames", "drive", "command", "write"}
    /\ published \in Pid \cup {0} /\ commanded \in BOOLEAN
    /\ faults \in 0 .. MaxFaults /\ surprises \in 0 .. MaxSurprises
    /\ phase = "down" => client = NoClient /\ backlog = <<>> /\ sup = NewSupervisor

TypeInv == SupTyped /\ ConnectionsTyped /\ ProcTyped /\ LoopTyped

\* No surprise so far: the living owner is the one the supervisor tracks, and the
\* only one with a connection; a deadline has expired only on one that is gone.
\* With the daemon down it is the one in daemon.state.
Tracked ==
    surprises = 0 /\ phase # "down" =>
        /\ Living \subseteq {sup.pid_}
        /\ client # NoClient => client.pid = sup.pid_ /\ backlog = <<>>
        /\ \A i \in 1 .. Len(backlog) : backlog[i].pid = sup.pid_
        /\ Len(backlog) <= 1
        /\ sup.state_ = "ABSENT" => sup.pid_ = 0
        /\ sup.state_ = "STARTING" /\ ~sup.arm_pending /\ sup.deadline # "armed" =>
                Living = {} /\ client = NoClient /\ backlog = <<>>

Recorded == surprises = 0 /\ phase = "down" => Living \subseteq {published}

\* What a process last told is what it has; OWNER_HELLO comes first.
Report(p) == IF proc[p].handle = 0 THEN OwnFailed ELSE Owned(proc[p].handle)

EndsWith(c, report) ==
    \A i \in 1 .. Len(c.up) :
        /\ c.up[i].type = "OWNER_HELLO" => i = 1
        /\ i = Len(c.up) /\ ~c.eof /\ c.up[i].type # "OWNER_HELLO" => c.up[i] = report

Truthful(c) == EndsWith(c, Report(c.pid))

Reported ==
    /\ Truthful(client)
    /\ \A i \in 1 .. Len(backlog) :
            /\ Truthful(backlog[i])
            /\ Len(backlog[i].up) >= 1 /\ backlog[i].up[1].type = "OWNER_HELLO"

\* OWNED is about the connection that is there, greeted before.
OwnedGreeted ==
    sup.state_ = "OWNED" =>
        /\ client # NoClient
        /\ \A i \in 1 .. Len(client.up) : client.up[i].type # "OWNER_HELLO"
        /\ client.up = <<>> /\ ~client.eof =>
                proc[client.pid].handle = sup.effect_id_

ToldInv == Reported /\ OwnedGreeted

-----------------------------------------------------------------------------
(* Lemmas about connections *)

LEMMA PidFacts == Pid \subseteq Nat \ {0}
BY DEF Pid

LEMMA NoClientFacts ==
    /\ NoClient.pid = 0 /\ NoClient.up = <<>> /\ Len(NoClient.up) = 0 /\ ~NoClient.eof
    /\ NoClient \notin Connection
    /\ \A c \in Connection : /\ c # NoClient /\ c.pid \in Pid /\ c.pid # 0
                             /\ c.up \in Seq(Message) /\ Len(c.up) \in Nat
                             /\ c.down \in Seq({"OWN_SESSION"}) /\ c.eof \in BOOLEAN
<1>1. NoClient.pid = 0 /\ NoClient.up = <<>> /\ Len(NoClient.up) = 0 /\ ~NoClient.eof
  BY DEF NoClient
<1>2. \A c \in Connection : /\ c.pid \in Pid /\ c.pid # 0
                            /\ c.up \in Seq(Message) /\ Len(c.up) \in Nat
                            /\ c.down \in Seq({"OWN_SESSION"}) /\ c.eof \in BOOLEAN
  BY PidFacts DEF Connection
<1>3. NoClient \notin Connection /\ \A c \in Connection : c # NoClient
  BY <1>1, <1>2
<1> QED BY <1>1, <1>2, <1>3

\* A sequence changed element by element.
LEMMA MappedSeq ==
    ASSUME NEW S, NEW s \in Seq(S), NEW t, t = [i \in DOMAIN s |-> t[i]],
           \A i \in 1 .. Len(s) : t[i] \in S
    PROVE  t \in Seq(S) /\ Len(t) = Len(s)
<1>1. Len(s) \in Nat /\ DOMAIN s = 1 .. Len(s)
  BY LenProperties
<1>2. t \in [1 .. Len(s) -> S]
  BY <1>1
<1>3. t \in Seq(S)
  BY <1>1, <1>2, SeqDef
<1>4. Len(t) \in Nat /\ DOMAIN t = 1 .. Len(t) /\ DOMAIN t = 1 .. Len(s)
  BY <1>1, <1>2, <1>3, LenProperties
<1> QED BY <1>1, <1>3, <1>4

LEMMA AppendFacts ==
    ASSUME NEW S, NEW s \in Seq(S), NEW e \in S
    PROVE  /\ Append(s, e) \in Seq(S) /\ Len(Append(s, e)) = Len(s) + 1
           /\ Len(s) \in Nat
           /\ \A i \in 1 .. Len(s) : Append(s, e)[i] = s[i]
           /\ Append(s, e)[Len(s) + 1] = e
OBVIOUS

LEMMA TailFacts ==
    ASSUME NEW S, NEW s \in Seq(S), s # <<>>
    PROVE  /\ Tail(s) \in Seq(S) /\ Len(Tail(s)) = Len(s) - 1
           /\ Len(s) \in Nat /\ Len(s) >= 1
           /\ Head(s) = s[1] /\ Head(s) \in S
           /\ \A i \in 1 .. Len(s) - 1 : Tail(s)[i] = s[i + 1]
OBVIOUS

BacklogTyped ==
    /\ client \in Connection \cup {NoClient}
    /\ backlog \in Seq(Connection)

\* A frame reaches the open connections of its sender.
LEMMA SendsFacts ==
    ASSUME BacklogTyped, NEW p \in Pid, NEW m \in Message, Sends(p, m)
    PROVE  /\ BacklogTyped'
           /\ client' = NoClient <=> client = NoClient
           /\ client'.pid = client.pid /\ (client'.eof <=> client.eof)
           /\ IF client.pid = p /\ ~client.eof
              THEN client'.up = Append(client.up, m) ELSE client' = client
           /\ Len(backlog') = Len(backlog)
           /\ \A i \in 1 .. Len(backlog) :
                /\ backlog'[i].pid = backlog[i].pid /\ (backlog'[i].eof <=> backlog[i].eof)
                /\ IF backlog[i].pid = p /\ ~backlog[i].eof
                   THEN backlog'[i].up = Append(backlog[i].up, m)
                   ELSE backlog'[i] = backlog[i]
<1> DEFINE Sent(c) == [c EXCEPT !.up = Append(@, m)]
<1>1. ASSUME NEW c \in Connection
      PROVE  /\ Sent(c) \in Connection /\ Sent(c).pid = c.pid
             /\ Sent(c).up = Append(c.up, m) /\ (Sent(c).eof <=> c.eof)
  <2>1. Append(c.up, m) \in Seq(Message)
    BY AppendFacts, NoClientFacts
  <2> QED BY <2>1 DEF Connection
<1>2. client' = IF client.pid = p /\ ~client.eof THEN Sent(client) ELSE client
  BY DEF Sends
<1>3. backlog' = [i \in DOMAIN backlog |->
                    IF backlog[i].pid = p /\ ~backlog[i].eof THEN Sent(backlog[i])
                    ELSE backlog[i]]
  BY DEF Sends
<1> HIDE DEF Sent
<1>4. client.pid = p => client \in Connection
  BY NoClientFacts, PidFacts DEF BacklogTyped
<1>5. /\ client' \in Connection \cup {NoClient}
      /\ client' = NoClient <=> client = NoClient
      /\ client'.pid = client.pid /\ (client'.eof <=> client.eof)
      /\ IF client.pid = p /\ ~client.eof
         THEN client'.up = Append(client.up, m) ELSE client' = client
  BY <1>1, <1>2, <1>4, NoClientFacts DEF BacklogTyped
<1>6. DOMAIN backlog = 1 .. Len(backlog) /\ \A i \in 1 .. Len(backlog) : backlog[i] \in Connection
  BY LenProperties, ElementOfSeq DEF BacklogTyped
<1>7. \A i \in 1 .. Len(backlog) :
        /\ backlog'[i] \in Connection
        /\ backlog'[i].pid = backlog[i].pid /\ (backlog'[i].eof <=> backlog[i].eof)
        /\ IF backlog[i].pid = p /\ ~backlog[i].eof
           THEN backlog'[i].up = Append(backlog[i].up, m)
           ELSE backlog'[i] = backlog[i]
  BY <1>1, <1>3, <1>6
<1>8. backlog' = [i \in DOMAIN backlog |-> backlog'[i]]
  BY <1>3
<1>9. backlog' \in Seq(Connection) /\ Len(backlog') = Len(backlog)
  BY <1>7, <1>8, MappedSeq DEF BacklogTyped
<1> QED BY <1>5, <1>7, <1>9 DEF BacklogTyped

\* The connections of a process end with it.
LEMMA HangsFacts ==
    ASSUME BacklogTyped, NEW p \in Pid, Hangs(p)
    PROVE  /\ BacklogTyped'
           /\ client' = NoClient <=> client = NoClient
           /\ client'.pid = client.pid /\ client'.up = client.up
           /\ client'.eof <=> client.eof \/ client.pid = p
           /\ Len(backlog') = Len(backlog)
           /\ \A i \in 1 .. Len(backlog) :
                /\ backlog'[i].pid = backlog[i].pid /\ backlog'[i].up = backlog[i].up
                /\ backlog'[i].eof <=> backlog[i].eof \/ backlog[i].pid = p
<1>1. \A c \in Connection : /\ Ends(c, p) \in Connection /\ Ends(c, p).pid = c.pid
                            /\ Ends(c, p).up = c.up
                            /\ Ends(c, p).eof <=> c.eof \/ c.pid = p
  BY DEF Connection, Ends
<1>2. client' = Ends(client, p) /\ backlog' = [i \in DOMAIN backlog |-> Ends(backlog[i], p)]
  BY DEF Hangs
<1>3. Ends(NoClient, p) = NoClient /\ NoClient.pid # p
  BY NoClientFacts, PidFacts DEF Ends
<1>4. /\ client' \in Connection \cup {NoClient}
      /\ client' = NoClient <=> client = NoClient
      /\ client'.pid = client.pid /\ client'.up = client.up
      /\ client'.eof <=> client.eof \/ client.pid = p
  BY <1>1, <1>2, <1>3, NoClientFacts DEF BacklogTyped
<1>5. DOMAIN backlog = 1 .. Len(backlog) /\ \A i \in 1 .. Len(backlog) : backlog[i] \in Connection
  BY LenProperties, ElementOfSeq DEF BacklogTyped
<1>6. \A i \in 1 .. Len(backlog) :
        /\ backlog'[i] \in Connection
        /\ backlog'[i].pid = backlog[i].pid /\ backlog'[i].up = backlog[i].up
        /\ backlog'[i].eof <=> backlog[i].eof \/ backlog[i].pid = p
  BY <1>1, <1>2, <1>5
<1>7. backlog' = [i \in DOMAIN backlog |-> backlog'[i]]
  BY <1>2
<1>8. backlog' \in Seq(Connection) /\ Len(backlog') = Len(backlog)
  BY <1>6, <1>7, MappedSeq DEF BacklogTyped
<1> QED BY <1>4, <1>6, <1>8 DEF BacklogTyped

-----------------------------------------------------------------------------
(* Types *)

\* A process never starts twice, and keeps its pid.
ProcGrows ==
    /\ ProcTyped'
    /\ \A q \in Pid : proc[q].at # "none" => proc'[q].at # "none"
    /\ \A q \in Pid : q \in Living' => q \in Living \/ proc[q].at = "none"

LEMMA ProcAt ==
    ASSUME ProcTyped, NEW p \in Pid, NEW a \in {"boot", "up", "dead"},
           proc' = [proc EXCEPT ![p].at = a], UNCHANGED effects,
           a \in {"boot", "up"} => proc[p].at \in {"none", "boot", "up"}
    PROVE  /\ ProcGrows
           /\ \A q \in Pid : proc'[q].handle = proc[q].handle
           /\ \A q \in Pid : q # p => proc'[q] = proc[q]
           /\ a = "dead" => Living' = Living \ {p}
           /\ a \in {"boot", "up"} => Living' = Living \cup {p}
<1>1. /\ proc' \in [Pid -> Process] /\ proc'[p].at = a
      /\ \A q \in Pid : proc'[q].handle = proc[q].handle
      /\ \A q \in Pid : q # p => proc'[q] = proc[q]
  BY DEF ProcTyped, Process
<1>2. ProcTyped'
  BY <1>1 DEF ProcTyped
<1>3. /\ a = "dead" => Living' = Living \ {p}
      /\ a \in {"boot", "up"} => Living' = Living \cup {p}
  BY <1>1 DEF Living
<1>4. \A q \in Pid : q \in Living' => q \in Living \/ proc[q].at = "none"
  BY <1>1 DEF Living
<1> QED BY <1>1, <1>2, <1>3, <1>4 DEF ProcGrows

LEMMA ProcHandle ==
    ASSUME ProcTyped, NEW p \in Pid, NEW h \in Nat,
           proc' = [proc EXCEPT ![p].handle = h, ![p].dead = FALSE, ![p].asked = TRUE,
                              ![p].busy = FALSE],
           effects' \in Nat, h <= effects', effects <= effects'
    PROVE  /\ ProcGrows /\ Living' = Living
           /\ \A q \in Pid : q # p => proc'[q] = proc[q]
           /\ proc'[p].at = proc[p].at /\ proc'[p].handle = h
<1>1. proc[p] \in Process
  BY DEF ProcTyped
<1>2. /\ proc' \in [Pid -> Process] /\ proc'[p].at = proc[p].at /\ proc'[p].handle = h
      /\ \A q \in Pid : q # p => proc'[q] = proc[q]
  <2> DEFINE r == [[[[proc[p] EXCEPT !.handle = h] EXCEPT !.dead = FALSE]
                        EXCEPT !.asked = TRUE] EXCEPT !.busy = FALSE]
  <2>1. r \in Process /\ r.at = proc[p].at /\ r.handle = h
    BY <1>1 DEF Process
  <2>2. proc' = [proc EXCEPT ![p] = r]
    BY DEF ProcTyped
  <2> HIDE DEF r
  <2>3. proc \in [Pid -> Process]
    BY DEF ProcTyped
  <2>4. proc'[p] = r /\ \A q \in Pid : q # p => proc'[q] = proc[q]
    BY <2>2, <2>3, Zenon
  <2>5. proc' \in [Pid -> Process]
    BY <2>1, <2>2, <2>3, Zenon
  <2> QED BY <2>1, <2>4, <2>5, Zenon
<1>3. \A q \in Pid : proc'[q].at = proc[q].at
  BY <1>2
<1>4. Living' = Living
  BY <1>3 DEF Living
<1>5. ProcTyped'
  <2>1. \A q \in Pid : proc[q].handle \in Nat /\ proc[q].handle <= effects /\ effects \in Nat
    BY DEF ProcTyped, Process
  <2>2. ASSUME NEW q \in Pid PROVE proc'[q].handle <= effects'
    BY <1>2, <2>1
  <2> QED BY <1>2, <2>2 DEF ProcTyped
<1> QED BY <1>2, <1>3, <1>4, <1>5 DEF ProcGrows

LEMMA ProcCreates ==
    ASSUME ProcTyped, NEW p \in Pid, Creates(p)
    PROVE  /\ ProcGrows /\ Living' = Living
           /\ \A q \in Pid : q # p => proc'[q] = proc[q]
           /\ proc'[p].at = proc[p].at /\ proc'[p].handle = effects + 1
<1>1. PICK h \in Nat : h = effects + 1 /\ effects \in Nat
  BY DEF ProcTyped
<1>2. proc' = [proc EXCEPT ![p].handle = h, ![p].dead = FALSE, ![p].asked = TRUE,
                         ![p].busy = FALSE]
  BY <1>1, Zenon DEF Creates
<1>3. effects' \in Nat /\ h <= effects' /\ effects <= effects'
  BY <1>1 DEF Creates
<1> QED BY <1>1, <1>2, <1>3, ProcHandle

LEMMA ProcCannotCreate ==
    ASSUME ProcTyped, NEW p \in Pid, CannotCreate(p)
    PROVE  /\ ProcGrows /\ Living' = Living
           /\ \A q \in Pid : q # p => proc'[q] = proc[q]
           /\ proc'[p].at = proc[p].at /\ proc'[p].handle = 0
<1>1. PICK h \in Nat : h = 0
  OBVIOUS
<1>2. proc' = [proc EXCEPT ![p].handle = h, ![p].dead = FALSE, ![p].asked = TRUE,
                         ![p].busy = FALSE]
  BY <1>1, Zenon DEF CannotCreate
<1>3. effects' \in Nat /\ h <= effects' /\ effects <= effects'
  BY <1>1 DEF CannotCreate, ProcTyped
<1> QED BY <1>1, <1>2, <1>3, ProcHandle

LEMMA ProcBusy ==
    ASSUME ProcTyped, NEW p \in Pid, NEW b \in BOOLEAN,
           proc' = [proc EXCEPT ![p].busy = b], UNCHANGED effects
    PROVE  /\ ProcGrows /\ Living' = Living
           /\ \A q \in Pid : proc'[q].handle = proc[q].handle /\ proc'[q].at = proc[q].at
<1>1. /\ proc' \in [Pid -> Process]
      /\ \A q \in Pid : proc'[q].handle = proc[q].handle /\ proc'[q].at = proc[q].at
  BY DEF ProcTyped, Process
<1> QED BY <1>1 DEF ProcTyped, ProcGrows, Living

LEMMA ProcRestart ==
    ASSUME ProcTyped, AudioserverRestart
    PROVE  /\ ProcGrows /\ Living' = Living
           /\ \A q \in Pid : proc'[q].handle = proc[q].handle /\ proc'[q].at = proc[q].at
<1>1. proc' = [p \in Pid |-> [proc[p] EXCEPT !.dead = proc[p].handle # 0]]
      /\ UNCHANGED effects
  BY DEF AudioserverRestart
<1>2. ASSUME NEW q \in Pid
      PROVE  /\ proc'[q] \in Process /\ proc'[q].handle = proc[q].handle
             /\ proc'[q].at = proc[q].at
  BY <1>1 DEF ProcTyped, Process
<1>3. proc' \in [Pid -> Process]
  BY <1>1, <1>2
<1> QED BY <1>1, <1>2, <1>3 DEF ProcTyped, ProcGrows, Living

LEMMA ProcKept ==
    ASSUME ProcTyped, UNCHANGED <<proc, effects>>
    PROVE  ProcGrows /\ Living' = Living
BY DEF ProcTyped, ProcGrows, Living

\* A connection of a process that was spawned, gone if it has ended.
Sound(c) ==
    /\ c.pid \in Pid /\ proc[c.pid].at # "none"
    /\ c.eof => c.pid \notin Living

LEMMA ConnectionsSound ==
    ASSUME BacklogTyped
    PROVE  ConnectionsTyped <=>
            /\ Len(backlog) <= Backlog
            /\ client # NoClient => Sound(client)
            /\ \A i \in 1 .. Len(backlog) : Sound(backlog[i])
<1>1. \A i \in 1 .. Len(backlog) : backlog[i] \in Connection
  BY ElementOfSeq DEF BacklogTyped
<1>2. client = NoClient \/ client \in Connection
  BY DEF BacklogTyped
<1> QED BY <1>1, <1>2, NoClientFacts DEF BacklogTyped, ConnectionsTyped, Sound

\* Connections stay sound while processes do not start again.
LEMMA SoundKept ==
    ASSUME ProcGrows, NEW c, Sound(c), NEW d, d.pid = c.pid,
           d.eof => c.eof \/ c.pid \notin Living'
    PROVE  d.pid \in Pid /\ proc'[d.pid].at # "none" /\ (d.eof => d.pid \notin Living')
<1>1. c.pid \in Pid /\ proc[c.pid].at # "none" /\ (c.eof => c.pid \notin Living)
  BY DEF Sound
<1>2. proc'[c.pid].at # "none" /\ (c.pid \in Living' => c.pid \in Living)
  BY <1>1 DEF ProcGrows
<1> QED BY <1>1, <1>2

\* Steps that keep every connection in its place.
LEMMA ConnectionsKept ==
    ASSUME BacklogTyped, BacklogTyped', ConnectionsTyped, ProcGrows,
           client' = NoClient \/ /\ client # NoClient /\ client'.pid = client.pid
                                 /\ client'.eof => client.eof \/ client.pid \notin Living',
           Len(backlog') = Len(backlog),
           \A i \in 1 .. Len(backlog) :
                /\ backlog'[i].pid = backlog[i].pid
                /\ backlog'[i].eof => backlog[i].eof \/ backlog[i].pid \notin Living'
    PROVE  ConnectionsTyped'
<1>1. /\ Len(backlog) <= Backlog
      /\ client # NoClient => Sound(client)
      /\ \A i \in 1 .. Len(backlog) : Sound(backlog[i])
  BY ConnectionsSound
<1>2. client' # NoClient => Sound(client)'
  <2> SUFFICES ASSUME client' # NoClient PROVE Sound(client)'
    OBVIOUS
  <2>1. Sound(client) /\ client'.pid = client.pid
        /\ (client'.eof => client.eof \/ client.pid \notin Living')
    BY <1>1
  <2>2. client'.pid \in Pid /\ proc'[client'.pid].at # "none"
        /\ (client'.eof => client'.pid \notin Living')
    BY <2>1, SoundKept
  <2> QED BY <2>2 DEF Sound
<1>3. ASSUME NEW i \in 1 .. Len(backlog') PROVE Sound(backlog[i])'
  <2>1. i \in 1 .. Len(backlog)
    OBVIOUS
  <2>2. Sound(backlog[i]) /\ backlog'[i].pid = backlog[i].pid
        /\ (backlog'[i].eof => backlog[i].eof \/ backlog[i].pid \notin Living')
    BY <1>1, <2>1
  <2>3. backlog'[i].pid \in Pid /\ proc'[backlog'[i].pid].at # "none"
        /\ (backlog'[i].eof => backlog'[i].pid \notin Living')
    BY <2>2, SoundKept
  <2> QED BY <2>3 DEF Sound
<1>4. Len(backlog') <= Backlog
  BY <1>1
<1>5. client' = NoClient => ~client'.eof
  BY NoClientFacts
<1> QED BY <1>2, <1>3, <1>4, <1>5 DEF ConnectionsTyped, Sound, BacklogTyped

LEMMA ArmedFacts ==
    ASSUME sup \in Supervisor
    PROVE  /\ Armed \in Supervisor
           /\ Armed.state_ = sup.state_ /\ Armed.pid_ = sup.pid_
           /\ (Armed.pid_is_ours_ <=> sup.pid_is_ours_) /\ ~Armed.arm_pending
           /\ Armed.spawn_attempts_ = sup.spawn_attempts_
           /\ Armed.deadline = IF sup.arm_pending THEN "armed" ELSE sup.deadline
BY DEF Armed, Supervisor

\* The three things Poll may do: give up a silent owner, spawn one, or wait.
GivesUp ==
    /\ sup.state_ = "STARTING" /\ ~sup.arm_pending /\ sup.deadline # "armed"
    /\ sup'.state_ = "ABSENT" /\ sup'.pid_ = 0 /\ ~sup'.pid_is_ours_
    /\ \/ UNCHANGED <<proc, client, backlog>>
       \/ /\ sup.pid_ \in Living /\ Hangs(sup.pid_)
          /\ proc' = [proc EXCEPT ![sup.pid_].at = "dead"]

Spawns(p) ==
    /\ sup.state_ = "ABSENT" /\ sup'.state_ = "STARTING"
    /\ sup'.pid_ = p /\ sup'.deadline = "armed"
    /\ proc[p].at = "none" /\ proc' = [proc EXCEPT ![p].at = "boot"]
    /\ UNCHANGED <<client, backlog>>

Waits ==
    /\ \/ sup'.state_ = sup.state_
       \/ sup.state_ = "ABSENT" /\ sup'.state_ = "FAILED"
    /\ sup'.pid_ = sup.pid_ /\ (sup'.pid_is_ours_ <=> sup.pid_is_ours_)
    /\ sup'.effect_id_ = sup.effect_id_
    /\ sup'.state_ = "STARTING" => sup'.deadline = "armed"
    /\ UNCHANGED <<proc, client, backlog>>

LEMMA SuperviseFacts ==
    ASSUME TypeInv, Supervise
    PROVE  /\ sup' \in Supervisor
           /\ faults' \in 0 .. MaxFaults
           /\ GivesUp \/ Waits \/ \E p \in Pid : Spawns(p)
<1>0. sup \in Supervisor /\ faults \in 0 .. MaxFaults /\ kMaxSpawnAttempts \in Nat \ {0}
  BY DEF TypeInv, SupTyped, LoopTyped
<1>1. PICK s \in Supervisor : s = Armed
  BY <1>0, ArmedFacts
<1>2. /\ s.state_ = sup.state_ /\ s.pid_ = sup.pid_ /\ (s.pid_is_ours_ <=> sup.pid_is_ours_)
      /\ ~s.arm_pending /\ s.spawn_attempts_ = sup.spawn_attempts_
      /\ s.deadline = IF sup.arm_pending THEN "armed" ELSE sup.deadline
      /\ s.effect_id_ = sup.effect_id_
  <2>1. Armed.effect_id_ = sup.effect_id_
    BY <1>0 DEF Armed, Supervisor
  <2> QED BY <1>0, <1>1, <2>1, ArmedFacts
<1>3. CASE Overdue(s) /\ Abandon(s) /\ UNCHANGED faults
  <2>1. sup' = [s EXCEPT !.effect_id_ = 0, !.pid_ = 0, !.pid_is_ours_ = FALSE,
                        !.state_ = "ABSENT", !.retry = "later"]
    BY <1>3 DEF Abandon
  <2>2. sup' \in Supervisor /\ sup'.state_ = "ABSENT" /\ sup'.pid_ = 0 /\ ~sup'.pid_is_ours_
    BY <2>1 DEF Supervisor
  <2>3. GivesUp
    BY <1>2, <1>3, <2>2 DEF Abandon, Overdue, GivesUp
  <2> QED BY <1>0, <1>3, <2>2, <2>3
<1>4. CASE SpawnDue(s) /\ Exhausted(s)
  <2>1. sup' = [s EXCEPT !.state_ = "FAILED"] /\ UNCHANGED <<proc, client, backlog, faults>>
    BY <1>4 DEF Exhausted
  <2>2. /\ sup' \in Supervisor /\ sup'.state_ = "FAILED" /\ sup'.pid_ = s.pid_
        /\ (sup'.pid_is_ours_ <=> s.pid_is_ours_) /\ sup'.effect_id_ = s.effect_id_
    BY <2>1 DEF Supervisor
  <2> QED BY <1>0, <1>2, <1>4, <2>1, <2>2 DEF SpawnDue, Waits
<1>5. CASE SpawnDue(s) /\ s.spawn_attempts_ < kMaxSpawnAttempts /\ SpawnFails(s)
  <2>0. s.spawn_attempts_ + 1 \in 0 .. kMaxSpawnAttempts
    BY <1>0, <1>5 DEF Supervisor
  <2>1. PICK state \in {"FAILED", "ABSENT"} :
            sup' = [s EXCEPT !.spawn_attempts_ = s.spawn_attempts_ + 1, !.retry = "later",
                             !.state_ = state]
    BY <1>5 DEF SpawnFails
  <2>2. /\ sup' \in Supervisor /\ sup'.state_ = state /\ sup'.pid_ = s.pid_
        /\ (sup'.pid_is_ours_ <=> s.pid_is_ours_) /\ sup'.effect_id_ = s.effect_id_
    BY <2>0, <2>1 DEF Supervisor
  <2>3. faults' \in 0 .. MaxFaults /\ UNCHANGED <<proc, client, backlog>>
    BY <1>0, <1>5 DEF SpawnFails, Fault
  <2> QED BY <1>0, <1>2, <1>5, <2>2, <2>3 DEF SpawnDue, Waits
<1>6. ASSUME SpawnDue(s), s.spawn_attempts_ < kMaxSpawnAttempts, NEW p \in Pid, Spawn(s, p)
      PROVE  sup' \in Supervisor /\ faults' \in 0 .. MaxFaults /\ Spawns(p)
  <2>0. s.spawn_attempts_ + 1 \in 0 .. kMaxSpawnAttempts
    BY <1>0, <1>6 DEF Supervisor
  <2>1. sup' = [s EXCEPT !.spawn_attempts_ = s.spawn_attempts_ + 1, !.pid_ = p,
                         !.pid_is_ours_ = TRUE, !.state_ = "STARTING", !.deadline = "armed"]
    BY <1>6 DEF Spawn
  <2>2. /\ sup' \in Supervisor /\ sup'.state_ = "STARTING" /\ sup'.pid_ = p
        /\ sup'.deadline = "armed"
    BY <2>0, <2>1 DEF Supervisor
  <2> QED BY <1>0, <1>2, <1>6, <2>2 DEF SpawnDue, Spawn, Spawns
<1>7. CASE ~Overdue(s) /\ sup' = s /\ UNCHANGED <<proc, client, backlog, faults>>
  BY <1>0, <1>2, <1>7 DEF Overdue, Waits
<1>8. s.spawn_attempts_ \in Nat /\ kMaxSpawnAttempts \in Nat
  BY <1>0 DEF Supervisor
<1> QED BY <1>1, <1>3, <1>4, <1>5, <1>6, <1>7, <1>8 DEF Supervise

LEMMA TypedBacklog ==
    ASSUME TypeInv
    PROVE  /\ BacklogTyped /\ ProcTyped /\ sup \in Supervisor
           /\ Len(backlog) \in Nat /\ Len(backlog) <= Backlog
           /\ \A i \in 1 .. Len(backlog) : backlog[i] \in Connection /\ Sound(backlog[i])
           /\ client # NoClient => client \in Connection /\ Sound(client)
<1>1. BacklogTyped /\ ConnectionsTyped /\ ProcTyped /\ sup \in Supervisor
  BY DEF TypeInv, ConnectionsTyped, BacklogTyped, SupTyped
<1>2. \A i \in 1 .. Len(backlog) : backlog[i] \in Connection
  BY <1>1, ElementOfSeq DEF BacklogTyped
<1>3. Len(backlog) \in Nat
  BY <1>1 DEF BacklogTyped
<1> QED BY <1>1, <1>2, <1>3, ConnectionsSound DEF BacklogTyped

\* Steps of the loop that only change the daemon's own variables.
LEMMA SupTypes ==
    ASSUME TypeInv, UNCHANGED <<proc, effects>>, NEW s \in Supervisor, sup' = s,
           s.pid_is_ours_ => s.pid_ # 0,
           s.pid_ \in {0, sup.pid_, client.pid}
    PROVE  SupTyped'
<1>1. s.pid_ \in Pid => proc[s.pid_].at # "none"
  BY TypedBacklog, NoClientFacts, PidFacts DEF TypeInv, SupTyped, Sound
<1>2. s.pid_ = 0 \/ s.pid_ \in Pid
  BY DEF Supervisor
<1> QED BY <1>1, <1>2 DEF SupTyped

LEMMA DisconnectedFacts ==
    ASSUME sup \in Supervisor
    PROVE  /\ OnDisconnected \in Supervisor /\ OnDisconnected.pid_ = 0
           /\ ~OnDisconnected.pid_is_ours_ /\ OnDisconnected.state_ = "ABSENT"
BY DEF OnDisconnected, Supervisor

LEMMA ConnectedFacts ==
    ASSUME sup \in Supervisor, NEW p \in Pid
    PROVE  /\ OnConnected(p) \in Supervisor /\ OnConnected(p).pid_ = p
           /\ sup.state_ = "OWNED" => OnConnected(p).state_ = "OWNED"
           /\ sup.state_ # "OWNED" =>
                OnConnected(p).state_ = "STARTING" /\ OnConnected(p).arm_pending
           /\ OnConnected(p).effect_id_ = sup.effect_id_
<1>1. OnConnected(p) \in Supervisor
  BY DEF OnConnected, Supervisor
<1> QED BY <1>1 DEF OnConnected, Supervisor

LEMMA OwnedFacts ==
    ASSUME sup \in Supervisor, NEW id \in Nat
    PROVE  /\ OnOwned(id) \in Supervisor /\ OnOwned(id).pid_ = sup.pid_
           /\ (OnOwned(id).pid_is_ours_ <=> sup.pid_is_ours_)
           /\ OnOwned(id).state_ = "OWNED" /\ OnOwned(id).effect_id_ = id
<1>1. 0 \in 0 .. kMaxSpawnAttempts
  OBVIOUS
<1>2. OnOwned(id) \in Supervisor
  BY <1>1 DEF OnOwned, Supervisor
<1> QED BY <1>2 DEF OnOwned, Supervisor

LEMMA FailedFacts ==
    ASSUME sup \in Supervisor
    PROVE  /\ OnOwnerFailed \in Supervisor /\ OnOwnerFailed.pid_ = sup.pid_
           /\ (OnOwnerFailed.pid_is_ours_ <=> sup.pid_is_ours_)
           /\ OnOwnerFailed.state_ = "FAILED"
BY DEF OnOwnerFailed, Supervisor

LEMMA NewFacts ==
    /\ NewSupervisor \in Supervisor /\ NewSupervisor.pid_ = 0
    /\ ~NewSupervisor.pid_is_ours_ /\ NewSupervisor.state_ = "ABSENT"
BY DEF NewSupervisor, Supervisor

\* The daemon takes the first connection that waits.
LEMMA AcceptTyped == TypeInv /\ AcceptPending => TypeInv'
<1> SUFFICES ASSUME TypeInv, AcceptPending PROVE TypeInv'
  OBVIOUS
<1>1. ProcGrows /\ ProcTyped' /\ Living' = Living /\ UNCHANGED <<proc, effects>>
  BY TypedBacklog, ProcKept DEF AcceptPending, ProcGrows
<1>2. SupTyped' /\ commanded' \in BOOLEAN
  <2>1. CASE sup' = OnDisconnected /\ commanded' = FALSE
    <3>1. SupTyped'
      BY <1>1, <2>1, TypedBacklog, DisconnectedFacts, SupTypes
    <3>2. commanded' \in BOOLEAN
      BY <2>1, Zenon
    <3> QED BY <3>1, <3>2
  <2>2. CASE UNCHANGED <<sup, commanded>>
    BY <1>1, <2>2 DEF TypeInv, SupTyped, LoopTyped
  <2> QED BY <2>1, <2>2 DEF AcceptPending
<1>3. ConnectionsTyped'
  <2>1. CASE backlog # <<>>
    <3>1. client' = Head(backlog) /\ backlog' = Tail(backlog)
      BY <2>1 DEF AcceptPending
    <3>2. /\ backlog' \in Seq(Connection) /\ Len(backlog') = Len(backlog) - 1
          /\ Len(backlog) >= 1 /\ Len(backlog) \in Nat /\ client' = backlog[1]
          /\ \A i \in 1 .. Len(backlog) - 1 : backlog'[i] = backlog[i + 1]
      BY <2>1, <3>1, TypedBacklog, TailFacts DEF BacklogTyped
    <3>3. \A i \in 1 .. Len(backlog') : i + 1 \in 1 .. Len(backlog) /\ backlog'[i] = backlog[i + 1]
      BY <3>2
    <3>4. 1 \in 1 .. Len(backlog) /\ Len(backlog') <= Backlog
      BY <3>2, TypedBacklog DEF Backlog
    <3>5. client' \in Connection /\ Sound(backlog[1])
      BY <3>2, <3>4, TypedBacklog
    <3>6. \A i \in 1 .. Len(backlog') : Sound(backlog[i + 1])
      BY <3>3, TypedBacklog
    <3> QED BY <1>1, <3>2, <3>3, <3>4, <3>5, <3>6 DEF ConnectionsTyped, Sound
  <2>2. CASE backlog = <<>>
    BY <1>1, <2>2 DEF AcceptPending, TypeInv, ConnectionsTyped
  <2> QED BY <2>1, <2>2
<1>4. LoopTyped'
  BY <1>2 DEF AcceptPending, TypeInv, LoopTyped
<1> QED BY <1>1, <1>2, <1>3, <1>4 DEF TypeInv

LEMMA FrameTyped == TypeInv /\ HandleFrame => TypeInv'
<1> SUFFICES ASSUME TypeInv, HandleFrame PROVE TypeInv'
  OBVIOUS
<1>1. ProcGrows /\ ProcTyped' /\ Living' = Living /\ UNCHANGED <<proc, effects>>
  BY TypedBacklog, ProcKept DEF HandleFrame, ProcGrows
<1>2. client \in Connection /\ client.up \in Seq(Message) /\ client.up # <<>>
  BY TypedBacklog, NoClientFacts DEF HandleFrame
<1>3. Head(client.up) \in Message /\ Tail(client.up) \in Seq(Message)
  BY <1>2, TailFacts
<1>4. SupTyped'
  <2>1. CASE sup' = OnConnected(client.pid)
    <3>1. client.pid \in Pid /\ client.pid # 0
      BY <1>2, NoClientFacts
    <3> QED BY <1>1, <2>1, <3>1, TypedBacklog, ConnectedFacts, SupTypes
  <2>2. CASE sup' = OnOwned(Head(client.up).effect_id)
    <3>1. Head(client.up).effect_id \in Nat
      BY <1>3 DEF Message
    <3>2. sup.pid_is_ours_ => sup.pid_ # 0
      BY DEF TypeInv, SupTyped
    <3> QED BY <1>1, <2>2, <3>1, <3>2, TypedBacklog, OwnedFacts, SupTypes
  <2>3. CASE sup' = OnOwnerFailed
    <3>1. sup.pid_is_ours_ => sup.pid_ # 0
      BY DEF TypeInv, SupTyped
    <3> QED BY <1>1, <2>3, <3>1, TypedBacklog, FailedFacts, SupTypes
  <2> QED BY <1>3, <2>1, <2>2, <2>3 DEF HandleFrame, Message
<1>5. /\ client' \in Connection /\ client'.pid = client.pid
      /\ (client'.eof <=> client.eof) /\ UNCHANGED backlog
  BY <1>2, <1>3 DEF HandleFrame, Connection
<1>6. ConnectionsTyped'
  <2>1. BacklogTyped /\ BacklogTyped' /\ client # NoClient /\ ConnectionsTyped
    BY <1>2, <1>5, TypedBacklog, NoClientFacts DEF BacklogTyped, TypeInv
  <2> QED BY <1>1, <1>5, <2>1, ConnectionsKept
<1>7. commanded' \in BOOLEAN
  <2>1. commanded' = FALSE \/ commanded' = commanded
    BY DEF HandleFrame
  <2>2. commanded \in BOOLEAN
    BY DEF TypeInv, LoopTyped
  <2> QED BY <2>1, <2>2, Zenon
<1>8. LoopTyped'
  BY <1>7 DEF HandleFrame, TypeInv, LoopTyped
<1> QED BY <1>1, <1>4, <1>6, <1>8 DEF TypeInv

LEMMA FaultTypes ==
    ASSUME TypeInv
    PROVE  /\ faults \in 0 .. MaxFaults /\ surprises \in 0 .. MaxSurprises
           /\ Fault => faults' \in 0 .. MaxFaults
           /\ Surprise => surprises' \in 0 .. MaxSurprises /\ surprises' # 0
BY DEF TypeInv, LoopTyped, Fault, Surprise

LEMMA DropTyped == TypeInv /\ DropClient => TypeInv'
<1> SUFFICES ASSUME TypeInv, DropClient PROVE TypeInv'
  OBVIOUS
<1>1. ProcGrows /\ ProcTyped' /\ Living' = Living /\ UNCHANGED <<proc, effects>>
  BY TypedBacklog, ProcKept DEF DropClient, ProcGrows
<1>2. SupTyped'
  BY <1>1, TypedBacklog, DisconnectedFacts, SupTypes DEF DropClient
<1>3. ConnectionsTyped'
  <2>1. BacklogTyped /\ BacklogTyped' /\ client' = NoClient /\ UNCHANGED backlog
        /\ ConnectionsTyped
    BY TypedBacklog DEF DropClient, BacklogTyped, TypeInv
  <2> QED BY <1>1, <2>1, ConnectionsKept
<1>4. commanded' \in BOOLEAN
  BY Zenon DEF DropClient
<1>5. LoopTyped'
  BY <1>4 DEF DropClient, TypeInv, LoopTyped
<1> QED BY <1>1, <1>2, <1>3, <1>5 DEF TypeInv

\* Steps that leave processes and connections alone.
LEMMA LoopStepTyped ==
    ASSUME TypeInv, UNCHANGED <<client, backlog, proc, effects>>, SupTyped', LoopTyped'
    PROVE  TypeInv'
BY DEF TypeInv, ConnectionsTyped, ProcTyped, Living

LEMMA NoFramesTyped == TypeInv /\ NoMoreFrames => TypeInv'
<1> SUFFICES ASSUME TypeInv, NoMoreFrames PROVE TypeInv'
  OBVIOUS
<1>1. SupTyped' /\ LoopTyped'
  BY DEF NoMoreFrames, TypeInv, SupTyped, LoopTyped
<1> QED BY <1>1, LoopStepTyped DEF NoMoreFrames

LEMMA WriteTyped == TypeInv /\ WriteStateFile => TypeInv'
<1> SUFFICES ASSUME TypeInv, WriteStateFile PROVE TypeInv'
  OBVIOUS
<1>1. SupTyped'
  BY DEF WriteStateFile, TypeInv, SupTyped
<1>2. sup.pid_ \in Pid \cup {0}
  BY DEF TypeInv, SupTyped, Supervisor
<1>3. LoopTyped'
  BY <1>2 DEF WriteStateFile, TypeInv, LoopTyped
<1> QED BY <1>1, <1>3, LoopStepTyped DEF WriteStateFile

LEMMA ExpireTyped == TypeInv /\ Expire => TypeInv'
<1> SUFFICES ASSUME TypeInv, Expire PROVE TypeInv'
  OBVIOUS
<1>1. UNCHANGED <<client, backlog, proc, effects>> /\ sup' = [sup EXCEPT !.deadline = "expired"]
  BY DEF Expire
<1>2. /\ sup' \in Supervisor /\ sup'.pid_ = sup.pid_
      /\ (sup'.pid_is_ours_ <=> sup.pid_is_ours_)
  BY <1>1 DEF TypeInv, SupTyped, Supervisor
<1>3. SupTyped'
  BY <1>1, <1>2 DEF TypeInv, SupTyped
<1>4. surprises' \in 0 .. MaxSurprises
  BY FaultTypes DEF Expire
<1>5. LoopTyped'
  BY <1>4 DEF Expire, TypeInv, LoopTyped
<1> QED BY <1>1, <1>3, <1>5, LoopStepTyped

LEMMA RetryTyped == TypeInv /\ RetryDue => TypeInv'
<1> SUFFICES ASSUME TypeInv, RetryDue PROVE TypeInv'
  OBVIOUS
<1>1. UNCHANGED <<client, backlog, proc, effects>> /\ sup' = [sup EXCEPT !.retry = "due"]
  BY DEF RetryDue
<1>2. /\ sup' \in Supervisor /\ sup'.pid_ = sup.pid_
      /\ (sup'.pid_is_ours_ <=> sup.pid_is_ours_)
  BY <1>1 DEF TypeInv, SupTyped, Supervisor
<1>3. SupTyped'
  BY <1>1, <1>2 DEF TypeInv, SupTyped
<1>4. LoopTyped'
  BY DEF RetryDue, TypeInv, LoopTyped
<1> QED BY <1>1, <1>3, <1>4, LoopStepTyped

LEMMA SeededFacts ==
    ASSUME TypeInv
    PROVE  /\ Seeded \in Supervisor /\ ~Seeded.pid_is_ours_
           /\ IF published \in Living
              THEN /\ Seeded.pid_ = published /\ Seeded.state_ = "STARTING"
                   /\ Seeded.arm_pending
              ELSE Seeded = NewSupervisor
<1>1. published \in Living => published \in Pid
  BY DEF Living
<1>3. CASE published \in Living
  <2>1. PICK s \in Supervisor : s = NewSupervisor
    BY NewFacts
  <2>2. ~s.pid_is_ours_ /\ published \in Pid
    BY <1>1, <1>3, <2>1, NewFacts
  <2>3. Seeded = [s EXCEPT !.pid_ = published, !.state_ = "STARTING", !.arm_pending = TRUE]
    BY <1>3, <2>1, Zenon DEF Seeded
  <2>4. Seeded \in Supervisor
    BY <2>2, <2>3 DEF Supervisor
  <2>5. /\ Seeded.pid_ = published /\ Seeded.state_ = "STARTING" /\ Seeded.arm_pending
        /\ Seeded.pid_is_ours_ <=> s.pid_is_ours_
    BY <2>3 DEF Supervisor
  <2> QED BY <1>3, <2>2, <2>4, <2>5, Zenon
<1>4. CASE published \notin Living
  BY <1>4, NewFacts DEF Seeded
<1> QED BY <1>3, <1>4

LEMMA StartTyped == TypeInv /\ Start => TypeInv'
<1> SUFFICES ASSUME TypeInv, Start PROVE TypeInv'
  OBVIOUS
<1>1. sup' = Seeded /\ UNCHANGED <<client, backlog, proc, effects>>
  BY DEF Start
<1>2. published \in Living => proc[published].at # "none"
  BY DEF Living
<1>3. SupTyped'
  BY <1>1, <1>2, SeededFacts, NewFacts DEF SupTyped
<1>4. LoopTyped'
  BY DEF Start, TypeInv, LoopTyped
<1> QED BY <1>1, <1>3, <1>4, LoopStepTyped

LEMMA KilledTyped == TypeInv /\ DaemonKilled => TypeInv'
<1> SUFFICES ASSUME TypeInv, DaemonKilled PROVE TypeInv'
  OBVIOUS
<1>1. ProcTyped' /\ SupTyped'
  BY NewFacts DEF DaemonKilled, TypeInv, ProcTyped, SupTyped
<1>2. ConnectionsTyped'
  BY NoClientFacts DEF DaemonKilled, ConnectionsTyped, Backlog
<1>3. commanded' \in BOOLEAN
  BY Zenon DEF DaemonKilled
<1>4. faults' \in 0 .. MaxFaults /\ surprises' \in 0 .. MaxSurprises
  BY FaultTypes DEF DaemonKilled
<1>5. LoopTyped'
  BY <1>3, <1>4 DEF DaemonKilled, TypeInv, LoopTyped
<1> QED BY <1>1, <1>2, <1>5 DEF TypeInv

LEMMA CommandTyped == TypeInv /\ Command => TypeInv'
<1> SUFFICES ASSUME TypeInv, Command PROVE TypeInv'
  OBVIOUS
<1>1. ProcGrows /\ ProcTyped' /\ Living' = Living /\ UNCHANGED <<proc, effects>>
  BY TypedBacklog, ProcKept DEF Command, ProcGrows
<1>2. SupTyped'
  BY <1>1 DEF Command, TypeInv, SupTyped
<1>3. CASE UNCHANGED <<client, commanded>>
  <2>1. LoopTyped' /\ UNCHANGED <<client, backlog, proc, effects>>
    BY <1>1, <1>3 DEF Command, TypeInv, LoopTyped
  <2> QED BY <1>2, <2>1, LoopStepTyped
<1>4. CASE /\ client.pid # 0 /\ commanded' = TRUE
           /\ client' = [client EXCEPT !.down = Append(@, "OWN_SESSION")]
  <2>1. client # NoClient /\ client \in Connection /\ UNCHANGED backlog
    BY <1>4, TypedBacklog, NoClientFacts DEF Command
  <2>2. Append(client.down, "OWN_SESSION") \in Seq({"OWN_SESSION"})
    BY <2>1, NoClientFacts, AppendFacts
  <2>3. /\ client' \in Connection /\ client'.pid = client.pid
        /\ (client'.eof <=> client.eof)
    BY <1>4, <2>1, <2>2 DEF Connection
  <2>4. BacklogTyped /\ BacklogTyped' /\ ConnectionsTyped
    BY <2>1, <2>3, TypedBacklog DEF BacklogTyped, TypeInv
  <2>5. ConnectionsTyped'
    BY <1>1, <2>1, <2>3, <2>4, ConnectionsKept
  <2>6. commanded' \in BOOLEAN
    BY <1>4, Zenon
  <2>7. LoopTyped'
    BY <2>6 DEF Command, TypeInv, LoopTyped
  <2> QED BY <1>1, <1>2, <2>5, <2>7 DEF TypeInv
<1> QED BY <1>3, <1>4 DEF Command

\* A step of an owner process, or of what happens to it.
LEMMA ProcessStepTyped ==
    ASSUME TypeInv, ProcGrows, UNCHANGED <<phase, sup, commanded, published>>,
           ConnectionsTyped',
           faults' \in 0 .. MaxFaults, surprises' \in 0 .. MaxSurprises,
           phase = "down" => client' = NoClient /\ backlog' = <<>>
    PROVE  TypeInv'
<1>1. SupTyped'
  <2>1. sup.pid_ \in Pid \cup {0}
    BY DEF TypeInv, SupTyped, Supervisor
  <2> QED BY <2>1 DEF TypeInv, SupTyped, ProcGrows
<1>2. LoopTyped'
  BY DEF TypeInv, LoopTyped
<1> QED BY <1>1, <1>2 DEF TypeInv, ProcGrows

LEMMA LinkedPhase ==
    ASSUME TypeInv, NEW p \in Pid, NEW m \in Message, Sends(p, m), ProcGrows
    PROVE  /\ ConnectionsTyped'
           /\ phase = "down" => client' = NoClient /\ backlog' = <<>>
<1>1. BacklogTyped /\ ConnectionsTyped /\ BacklogTyped'
  BY TypedBacklog, SendsFacts DEF TypeInv
<1>2. ConnectionsTyped'
  BY <1>1, SendsFacts, ConnectionsKept
<1>3. phase = "down" => client' = NoClient /\ backlog' = <<>>
  <2> SUFFICES ASSUME phase = "down" PROVE client' = NoClient /\ backlog' = <<>>
    OBVIOUS
  <2>1. client = NoClient /\ backlog = <<>>
    BY DEF TypeInv, LoopTyped
  <2>2. client' = NoClient /\ Len(backlog') = 0 /\ backlog' \in Seq(Connection)
    BY <1>1, <2>1, SendsFacts DEF BacklogTyped
  <2> QED BY <2>2
<1> QED BY <1>2, <1>3

LEMMA HangsTyped ==
    ASSUME TypeInv, NEW p \in Pid, Hangs(p), ProcGrows, p \notin Living'
    PROVE  /\ ConnectionsTyped'
           /\ phase = "down" => client' = NoClient /\ backlog' = <<>>
<1>1. BacklogTyped /\ ConnectionsTyped /\ BacklogTyped'
  BY TypedBacklog, HangsFacts DEF TypeInv
<1>2. ConnectionsTyped'
  BY <1>1, HangsFacts, ConnectionsKept
<1>3. phase = "down" => client' = NoClient /\ backlog' = <<>>
  <2> SUFFICES ASSUME phase = "down" PROVE client' = NoClient /\ backlog' = <<>>
    OBVIOUS
  <2>1. client = NoClient /\ backlog = <<>>
    BY DEF TypeInv, LoopTyped
  <2>2. client' = NoClient /\ Len(backlog') = 0 /\ backlog' \in Seq(Connection)
    BY <1>1, <2>1, HangsFacts DEF BacklogTyped
  <2> QED BY <2>2
<1> QED BY <1>2, <1>3

LEMMA SilentTyped ==
    ASSUME TypeInv, ProcGrows, UNCHANGED <<client, backlog, phase>>
    PROVE  /\ ConnectionsTyped'
           /\ phase = "down" => client' = NoClient /\ backlog' = <<>>
<1>1. BacklogTyped /\ ConnectionsTyped /\ BacklogTyped'
  BY TypedBacklog DEF TypeInv, BacklogTyped
<1>2. ConnectionsTyped'
  BY <1>1, ConnectionsKept
<1> QED BY <1>2 DEF TypeInv, LoopTyped

LEMMA PollTyped == TypeInv /\ PollSupervisor => TypeInv'
<1> SUFFICES ASSUME TypeInv, PollSupervisor PROVE TypeInv'
  OBVIOUS
<1>0. /\ sup' \in Supervisor /\ faults' \in 0 .. MaxFaults /\ phase = "drive" /\ phase' = "command"
      /\ UNCHANGED <<commanded, published, effects, surprises>>
      /\ GivesUp \/ Waits \/ \E p \in Pid : Spawns(p)
  BY SuperviseFacts DEF PollSupervisor
<1>1. LoopTyped'
  BY <1>0 DEF TypeInv, LoopTyped
<1>2. SUFFICES SupTyped' /\ ConnectionsTyped' /\ ProcTyped'
  BY <1>1 DEF TypeInv
<1>3. CASE GivesUp /\ UNCHANGED <<proc, client, backlog>>
  <2>1. ProcTyped' /\ ConnectionsTyped'
    BY <1>0, <1>3 DEF TypeInv, ProcTyped, ConnectionsTyped, Living
  <2>2. SupTyped'
    BY <1>0, <1>3 DEF GivesUp, SupTyped
  <2> QED BY <2>1, <2>2
<1>4. CASE /\ GivesUp /\ sup.pid_ \in Living /\ Hangs(sup.pid_)
           /\ proc' = [proc EXCEPT ![sup.pid_].at = "dead"]
  <2>1. PICK p \in Pid : p = sup.pid_
    BY <1>4 DEF Living
  <2>2. ProcGrows /\ Living' = Living \ {p}
    BY <1>0, <1>4, <2>1, TypedBacklog, ProcAt
  <2>3. ConnectionsTyped' /\ ProcTyped'
    BY <1>4, <2>1, <2>2, HangsTyped DEF ProcGrows
  <2>4. SupTyped'
    BY <1>0, <1>4 DEF GivesUp, SupTyped
  <2> QED BY <2>3, <2>4
<1>5. ASSUME NEW p \in Pid, Spawns(p) PROVE SupTyped' /\ ConnectionsTyped' /\ ProcTyped'
  <2>1. ProcGrows /\ Living' = Living \cup {p}
    BY <1>0, <1>5, TypedBacklog, ProcAt DEF Spawns
  <2>2. BacklogTyped /\ ConnectionsTyped /\ BacklogTyped'
    BY <1>5, TypedBacklog DEF TypeInv, BacklogTyped, Spawns
  <2>3. ConnectionsTyped'
    BY <1>5, <2>1, <2>2, ConnectionsKept DEF Spawns
  <2>4. p \in Living' /\ p # 0
    BY <2>1, PidFacts
  <2>5. SupTyped'
    BY <1>0, <1>5, <2>4 DEF SupTyped, Spawns, Living
  <2> QED BY <2>1, <2>3, <2>5 DEF ProcGrows
<1>6. CASE Waits
  <2>1. ProcTyped' /\ ConnectionsTyped'
    BY <1>0, <1>6 DEF Waits, TypeInv, ProcTyped, ConnectionsTyped, Living
  <2>2. SupTyped'
    BY <1>0, <1>6 DEF Waits, SupTyped, TypeInv
  <2> QED BY <2>1, <2>2
<1> QED BY <1>0, <1>3, <1>4, <1>5, <1>6 DEF GivesUp

LEMMA MessageFacts ==
    /\ \A id \in Nat : Owned(id) \in Message
    /\ OwnFailed \in Message
BY DEF Owned, OwnFailed, Message

LEMMA OpenLinkTyped ==
    ASSUME TypeInv, NEW p \in Pid, OpenLink(p)
    PROVE  /\ TypeInv' /\ Living' = Living
           /\ \A q \in Pid : proc'[q].handle = proc[q].handle
           /\ Len(backlog') = Len(backlog) + 1
           /\ \A i \in 1 .. Len(backlog) : backlog'[i] = backlog[i]
           /\ backlog'[Len(backlog) + 1].pid = p
           /\ backlog'[Len(backlog) + 1].up = <<[type |-> "OWNER_HELLO", effect_id |-> 0]>>
<1> DEFINE c == [pid |-> p, up |-> <<[type |-> "OWNER_HELLO", effect_id |-> 0]>>,
                 down |-> <<>>, eof |-> FALSE]
<1>1. proc' = [proc EXCEPT ![p].at = "up"] /\ UNCHANGED effects /\ p \in Living
      /\ phase # "down" /\ Len(backlog) < Backlog /\ backlog' = Append(backlog, c)
      /\ UNCHANGED <<phase, sup, client, commanded, published, faults, surprises>>
  BY DEF OpenLink
<1>2. /\ c \in Connection /\ c.pid = p /\ ~c.eof
      /\ c.up = <<[type |-> "OWNER_HELLO", effect_id |-> 0]>>
  BY DEF Connection, Message
<1> HIDE DEF c
<1>3. ProcGrows /\ Living' = Living /\ \A q \in Pid : proc'[q].handle = proc[q].handle
  <2>1. proc[p].at \in {"none", "boot", "up"}
    BY <1>1 DEF Living
  <2>2. /\ ProcGrows /\ Living' = Living \cup {p}
        /\ \A q \in Pid : proc'[q].handle = proc[q].handle
    BY <1>1, <2>1, TypedBacklog, ProcAt
  <2> QED BY <1>1, <2>2
<1>4. BacklogTyped /\ ConnectionsTyped /\ Len(backlog) \in Nat
  BY TypedBacklog DEF TypeInv
<1>5. /\ backlog' \in Seq(Connection) /\ Len(backlog') = Len(backlog) + 1
      /\ \A i \in 1 .. Len(backlog) : backlog'[i] = backlog[i]
      /\ backlog'[Len(backlog) + 1] = c
  BY <1>1, <1>2, <1>4, AppendFacts DEF BacklogTyped
<1>6. ConnectionsTyped'
  <2>1. BacklogTyped'
    BY <1>1, <1>4, <1>5 DEF BacklogTyped
  <2>2. \A i \in 1 .. Len(backlog) : Sound(backlog[i])
    BY TypedBacklog
  <2>3. ASSUME NEW i \in 1 .. Len(backlog')
        PROVE  /\ proc'[backlog'[i].pid].at # "none"
               /\ backlog'[i].eof => backlog'[i].pid \notin Living'
    <3>1. CASE i \in 1 .. Len(backlog)
      BY <1>3, <1>5, <2>2, <3>1 DEF Sound, ProcGrows
    <3>2. CASE i = Len(backlog) + 1
      BY <1>1, <1>2, <1>3, <1>5, <3>2 DEF ProcGrows, Living
    <3> QED BY <1>4, <1>5, <3>1, <3>2
  <2>4. client # NoClient => Sound(client)
    BY TypedBacklog
  <2>5. Len(backlog') <= Backlog
    BY <1>1, <1>4, <1>5 DEF Backlog
  <2> QED BY <1>1, <1>3, <2>1, <2>3, <2>4, <2>5, NoClientFacts
          DEF ConnectionsTyped, Sound, ProcGrows, BacklogTyped
<1>7. TypeInv'
  BY <1>1, <1>3, <1>6, FaultTypes, ProcessStepTyped
<1> QED BY <1>2, <1>3, <1>5, <1>7

LEMMA ReadTyped ==
    ASSUME TypeInv, NEW p \in Pid, ReadCommand(p)
    PROVE  /\ TypeInv' /\ Living' = Living
           /\ \A q \in Pid : proc'[q].handle = proc[q].handle
           /\ client # NoClient /\ client' # NoClient /\ client'.pid = client.pid
           /\ client'.up = client.up /\ (client'.eof <=> client.eof)
<1>1. /\ proc' = [proc EXCEPT ![p].busy = TRUE] /\ client.down # <<>> /\ client.pid = p
      /\ client' = [client EXCEPT !.down = Tail(@)] /\ ~client.eof
      /\ UNCHANGED <<phase, sup, backlog, commanded, published, effects, faults, surprises>>
  BY DEF ReadCommand
<1>2. client \in Connection /\ client # NoClient
  BY <1>1, TypedBacklog, NoClientFacts, PidFacts
<1>3. Tail(client.down) \in Seq({"OWN_SESSION"})
  BY <1>1, <1>2, NoClientFacts, TailFacts
<1>4. /\ client' \in Connection /\ client'.pid = client.pid
      /\ client'.up = client.up /\ (client'.eof <=> client.eof)
  BY <1>1, <1>2, <1>3 DEF Connection
<1>5. ProcGrows /\ Living' = Living /\ \A q \in Pid : proc'[q].handle = proc[q].handle
  <2>1. PICK b \in BOOLEAN : b = TRUE
    BY Zenon
  <2>2. proc' = [proc EXCEPT ![p].busy = b]
    BY <1>1, <2>1, Zenon
  <2> QED BY <1>1, <2>2, TypedBacklog, ProcBusy
<1>6. BacklogTyped /\ BacklogTyped' /\ ConnectionsTyped
  BY <1>1, <1>4, TypedBacklog DEF BacklogTyped, TypeInv
<1>7. ConnectionsTyped'
  BY <1>1, <1>2, <1>4, <1>5, <1>6, ConnectionsKept
<1>8. phase # "down"
  BY <1>2 DEF TypeInv, LoopTyped
<1>9. TypeInv'
  BY <1>1, <1>5, <1>7, <1>8, FaultTypes, ProcessStepTyped
<1> QED BY <1>2, <1>4, <1>5, <1>9, NoClientFacts

\* A process tells what it has, after it may have changed it.
Tells(p) ==
    /\ ProcGrows /\ Living' = Living
    /\ \A q \in Pid : q # p => proc'[q].handle = proc[q].handle
    /\ \E m \in Message :
            m.type # "OWNER_HELLO" /\ m = Report(p)' /\ Sends(p, m)
    /\ faults' \in 0 .. MaxFaults
    /\ UNCHANGED <<phase, sup, commanded, published, surprises>>

LEMMA CreatesTells ==
    ASSUME TypeInv, NEW p \in Pid, Creates(p), Sends(p, Owned(effects + 1)),
           UNCHANGED <<phase, sup, commanded, published, surprises>>
    PROVE  Tells(p)
<1>1. /\ ProcGrows /\ Living' = Living /\ proc'[p].handle = effects + 1
      /\ \A q \in Pid : q # p => proc'[q].handle = proc[q].handle
  BY TypedBacklog, ProcCreates
<1>2. faults' \in 0 .. MaxFaults
  BY FaultTypes DEF Creates
<1>3. PICK m \in Message : m = Owned(effects + 1) /\ m.type # "OWNER_HELLO"
  BY MessageFacts DEF TypeInv, ProcTyped, Owned
<1>4. effects + 1 # 0
  BY DEF TypeInv, ProcTyped
<1>5. m = Report(p)'
  BY <1>1, <1>3, <1>4 DEF Report, Owned
<1> QED BY <1>1, <1>2, <1>3, <1>5 DEF Tells

LEMMA CannotCreateTells ==
    ASSUME TypeInv, NEW p \in Pid, CannotCreate(p), Sends(p, OwnFailed),
           UNCHANGED <<phase, sup, commanded, published, surprises>>
    PROVE  Tells(p)
<1>1. /\ ProcGrows /\ Living' = Living /\ proc'[p].handle = 0
      /\ \A q \in Pid : q # p => proc'[q].handle = proc[q].handle
  BY TypedBacklog, ProcCannotCreate
<1>2. faults' \in 0 .. MaxFaults
  BY FaultTypes DEF CannotCreate
<1>3. PICK m \in Message : m = OwnFailed /\ m.type # "OWNER_HELLO"
  BY MessageFacts DEF OwnFailed
<1>4. m = Report(p)'
  BY <1>1, <1>3 DEF Report, OwnFailed
<1> QED BY <1>1, <1>2, <1>3, <1>4 DEF Tells

LEMMA TellsFacts ==
    ASSUME TypeInv, NEW p \in Pid, AnswerCommand(p) \/ Rebuilds(p) \/ CannotRebuild(p)
    PROVE  Tells(p)
<1>0. effects \in Nat /\ proc[p].handle \in Nat
  BY DEF TypeInv, ProcTyped, Process
<1>1. CASE /\ proc[p].handle # 0 /\ Sends(p, Owned(proc[p].handle))
           /\ proc' = [proc EXCEPT ![p].busy = FALSE]
           /\ UNCHANGED <<effects, faults>>
           /\ UNCHANGED <<phase, sup, commanded, published, surprises>>
  <2>1. PICK b \in BOOLEAN : b = FALSE
    BY Zenon
  <2>2. proc' = [proc EXCEPT ![p].busy = b] /\ UNCHANGED effects
    BY <1>1, <2>1, Zenon
  <2>3. ProcGrows /\ Living' = Living /\ \A q \in Pid : proc'[q].handle = proc[q].handle
    BY <2>2, TypedBacklog, ProcBusy
  <2>4. PICK m \in Message : m = Owned(proc[p].handle) /\ m.type # "OWNER_HELLO"
    BY <1>0, MessageFacts DEF Owned
  <2>5. m = Report(p)'
    BY <1>1, <2>3, <2>4 DEF Report, Owned
  <2> QED BY <1>1, <2>3, <2>4, <2>5, FaultTypes DEF Tells
<1>2. CASE /\ Creates(p) /\ Sends(p, Owned(effects + 1))
           /\ UNCHANGED <<phase, sup, commanded, published, surprises>>
  BY <1>2, CreatesTells
<1>3. CASE /\ CannotCreate(p) /\ Sends(p, OwnFailed)
           /\ UNCHANGED <<phase, sup, commanded, published, surprises>>
  BY <1>3, CannotCreateTells
<1> QED BY <1>1, <1>2, <1>3 DEF AnswerCommand, Rebuilds, CannotRebuild

LEMMA TellsTyped ==
    ASSUME TypeInv, NEW p \in Pid, Tells(p)
    PROVE  TypeInv'
<1>1. PICK m \in Message : Sends(p, m)
  BY DEF Tells
<1>2. ProcGrows
  BY DEF Tells
<1>3. ConnectionsTyped' /\ (phase = "down" => client' = NoClient /\ backlog' = <<>>)
  BY <1>1, <1>2, LinkedPhase
<1> QED BY <1>2, <1>3, FaultTypes, ProcessStepTyped DEF Tells

\* A process is gone, or what it holds is.
Loses(p) ==
    /\ ProcGrows /\ (Living' = Living \/ Living' = Living \ {p})
    /\ \A q \in Pid : proc'[q].handle = proc[q].handle
    /\ UNCHANGED <<client, backlog>> \/ (Hangs(p) /\ p \notin Living')
    /\ faults' \in 0 .. MaxFaults
    /\ UNCHANGED <<phase, sup, commanded, published, surprises>>

LEMMA LosesFacts ==
    ASSUME TypeInv, NEW p \in Pid,
           Exits(p) \/ AnswerIntoClosedLink(p) \/ OwnerCrash(p) \/ AudioserverRestart
    PROVE  Loses(p)
<1>1. CASE AudioserverRestart
  <2>1. ProcGrows /\ Living' = Living /\ \A q \in Pid : proc'[q].handle = proc[q].handle
    BY <1>1, TypedBacklog, ProcRestart
  <2> QED BY <1>1, <2>1, FaultTypes DEF AudioserverRestart, Loses, daemonVars
<1>2. CASE Exits(p) \/ AnswerIntoClosedLink(p) \/ OwnerCrash(p)
  <2>1. proc' = [proc EXCEPT ![p].at = "dead"] /\ UNCHANGED effects
    BY <1>2 DEF Exits, AnswerIntoClosedLink, OwnerCrash
  <2>2. /\ ProcGrows /\ Living' = Living \ {p}
        /\ \A q \in Pid : proc'[q].handle = proc[q].handle
    BY <2>1, TypedBacklog, ProcAt
  <2>3. faults' \in 0 .. MaxFaults
    BY <1>2, FaultTypes DEF Exits, AnswerIntoClosedLink, OwnerCrash
  <2>4. /\ UNCHANGED <<client, backlog>> \/ Hangs(p)
        /\ UNCHANGED <<phase, sup, commanded, published, surprises>>
    BY <1>2 DEF Exits, AnswerIntoClosedLink, OwnerCrash, daemonVars
  <2> QED BY <2>2, <2>3, <2>4 DEF Loses
<1> QED BY <1>1, <1>2

LEMMA LosesTyped ==
    ASSUME TypeInv, NEW p \in Pid, Loses(p)
    PROVE  TypeInv'
<1>1. ProcGrows /\ UNCHANGED phase
  BY DEF Loses
<1>2. ConnectionsTyped' /\ (phase = "down" => client' = NoClient /\ backlog' = <<>>)
  BY <1>1, HangsTyped, SilentTyped DEF Loses
<1> QED BY <1>1, <1>2, FaultTypes, ProcessStepTyped DEF Loses

LEMMA TypeInit == Init => TypeInv
<1> SUFFICES ASSUME Init PROVE TypeInv
  OBVIOUS
<1>1. NotStarted \in Process /\ NotStarted.at = "none" /\ NotStarted.handle = 0
  BY DEF NotStarted, Process
<1>2. ProcTyped
  BY <1>1 DEF Init, ProcTyped
<1>3. SupTyped
  BY NewFacts DEF Init, SupTyped
<1>4. ConnectionsTyped
  BY NoClientFacts DEF Init, ConnectionsTyped, Backlog
<1>5. commanded \in BOOLEAN
  BY Zenon DEF Init
<1>6. LoopTyped
  BY <1>5 DEF Init, LoopTyped
<1> QED BY <1>2, <1>3, <1>4, <1>6 DEF TypeInv

LEMMA TypeStep == TypeInv /\ [Next]_vars => TypeInv'
<1> SUFFICES ASSUME TypeInv, [Next]_vars PROVE TypeInv'
  OBVIOUS
<1>1. CASE DaemonLoop
  BY <1>1, AcceptTyped, FrameTyped, DropTyped, NoFramesTyped, PollTyped, CommandTyped,
     WriteTyped DEF DaemonLoop
<1>2. CASE Start \/ Expire \/ RetryDue \/ DaemonKilled
  BY <1>2, StartTyped, ExpireTyped, RetryTyped, KilledTyped
<1>3. ASSUME NEW p \in Pid, OwnerStep(p) PROVE TypeInv'
  BY <1>3, OpenLinkTyped, ReadTyped, TellsFacts, TellsTyped, LosesFacts, LosesTyped
     DEF OwnerStep
<1>4. CASE Environment
  <2>1. 1 \in Pid
    BY DEF Pid
  <2> QED BY <1>2, <1>4, <2>1, TellsFacts, TellsTyped, LosesFacts, LosesTyped DEF Environment
<1>5. CASE UNCHANGED vars
  BY <1>5 DEF vars, daemonVars, TypeInv, SupTyped, ConnectionsTyped, ProcTyped, LoopTyped, Living
<1> QED BY <1>1, <1>2, <1>3, <1>4, <1>5 DEF Next

\* Types of the supervisor, its connections and the owner processes; a process
\* the supervisor claims or tracks exists, and its spawns stay within the budget.
THEOREM TypeCorrect == Spec => []TypeOK
<1>1. TypeInv => TypeOK
  <2> SUFFICES ASSUME TypeInv PROVE TypeOK
    OBVIOUS
  <2>1. proc \in [Pid -> [at : {"none", "boot", "up", "dead"}, handle : 0 .. effects,
                          dead : BOOLEAN, asked : BOOLEAN, busy : BOOLEAN]]
    BY DEF TypeInv, ProcTyped, Process
  <2>2. client.pid \in Pid \cup {0} /\ Len(backlog) <= Backlog
    BY TypedBacklog, NoClientFacts
  <2>3. /\ sup.state_ \in {"ABSENT", "STARTING", "OWNED", "FAILED"}
        /\ sup.pid_ \in Pid \cup {0} /\ sup.spawn_attempts_ <= kMaxSpawnAttempts
    BY DEF TypeInv, SupTyped, Supervisor
  <2> QED BY <2>1, <2>2, <2>3 DEF TypeOK, TypeInv, SupTyped, LoopTyped
<1> QED BY <1>1, TypeInit, TypeStep, PTL DEF Spec

-----------------------------------------------------------------------------
(* One owner *)

LEMMA LivingPids == Living \subseteq Pid /\ 0 \notin Living
BY PidFacts DEF Living

LEMMA EmptyBacklog ==
    ASSUME TypeInv
    PROVE  /\ Len(backlog) \in Nat
           /\ backlog = <<>> <=> Len(backlog) = 0
           /\ backlog = <<>> <=> 1 \notin 1 .. Len(backlog)
BY TypedBacklog DEF BacklogTyped

\* Steps that bring no owner, no connection and no news to the supervisor.
LEMMA TrackedKept ==
    ASSUME TypeInv, TypeInv', Tracked, Recorded,
           phase = "down" <=> phase' = "down",
           phase = "down" => UNCHANGED published,
           sup'.pid_ = sup.pid_, sup'.state_ = sup.state_,
           sup'.arm_pending <=> sup.arm_pending, sup'.deadline = sup.deadline,
           Living' \subseteq Living, UNCHANGED surprises,
           client' = NoClient <=> client = NoClient, client'.pid = client.pid,
           Len(backlog') = Len(backlog),
           \A i \in 1 .. Len(backlog) : backlog'[i].pid = backlog[i].pid
    PROVE  Tracked' /\ Recorded'
<1>1. backlog' = <<>> <=> backlog = <<>>
  <2>1. (backlog' = <<>> <=> Len(backlog') = 0) /\ (backlog = <<>> <=> Len(backlog) = 0)
    BY TypedBacklog DEF BacklogTyped, TypeInv, ConnectionsTyped
  <2> QED BY <2>1
<1>2. Recorded'
  BY DEF Recorded
<1>3. Tracked'
  <2> SUFFICES ASSUME surprises = 0, phase # "down" PROVE
        /\ Living' \subseteq {sup'.pid_}
        /\ client' # NoClient => client'.pid = sup'.pid_ /\ backlog' = <<>>
        /\ \A i \in 1 .. Len(backlog') : backlog'[i].pid = sup'.pid_
        /\ Len(backlog') <= 1
        /\ sup'.state_ = "ABSENT" => sup'.pid_ = 0
        /\ sup'.state_ = "STARTING" /\ ~sup'.arm_pending /\ sup'.deadline # "armed" =>
                Living' = {} /\ client' = NoClient /\ backlog' = <<>>
    BY DEF Tracked
  <2> QED BY <1>1 DEF Tracked
<1> QED BY <1>2, <1>3

LEMMA AcceptTracked ==
    ASSUME TypeInv, Tracked, Recorded, AcceptPending
    PROVE  Tracked' /\ Recorded'
<1>1. Recorded' /\ phase # "down" /\ UNCHANGED surprises /\ Living' = Living
  BY DEF AcceptPending, Recorded, Living
<1>2. CASE backlog = <<>>
  BY <1>1, <1>2 DEF AcceptPending, Tracked
<1>3. CASE backlog # <<>> /\ surprises = 0
  <2>1. client = NoClient
    BY <1>1, <1>3 DEF Tracked
  <2>2. client' = Head(backlog) /\ backlog' = Tail(backlog) /\ UNCHANGED sup
    BY <1>3, <2>1 DEF AcceptPending
  <2>3. /\ backlog' \in Seq(Connection) /\ Len(backlog') = Len(backlog) - 1
        /\ Len(backlog) >= 1 /\ Len(backlog) \in Nat /\ client' = backlog[1]
    BY <1>3, <2>2, TypedBacklog, TailFacts DEF BacklogTyped
  <2>4. Len(backlog) = 1 /\ Len(backlog') = 0 /\ backlog' = <<>> /\ client'.pid = sup.pid_
    BY <1>1, <1>3, <2>3 DEF Tracked
  <2>5. ~(sup.state_ = "STARTING" /\ ~sup.arm_pending /\ sup.deadline # "armed")
    BY <1>1, <1>3 DEF Tracked
  <2>6. /\ Living \subseteq {sup.pid_}
        /\ sup.state_ = "ABSENT" => sup.pid_ = 0
    BY <1>1, <1>3 DEF Tracked
  <2>7. 1 .. Len(backlog') = {} /\ Len(backlog') <= 1
    BY <2>4
  <2> SUFFICES /\ Living' \subseteq {sup'.pid_}
               /\ client'.pid = sup'.pid_ /\ backlog' = <<>>
               /\ sup'.state_ = "ABSENT" => sup'.pid_ = 0
               /\ ~(sup'.state_ = "STARTING" /\ ~sup'.arm_pending /\ sup'.deadline # "armed")
    BY <1>1, <2>7 DEF Tracked
  <2> QED BY <1>1, <2>2, <2>4, <2>5, <2>6
<1>4. CASE surprises # 0
  BY <1>1, <1>4 DEF Tracked
<1> QED BY <1>2, <1>3, <1>4

\* The greeting comes from the owner that is tracked.
LEMMA FrameTracked ==
    ASSUME TypeInv, Tracked, Recorded, HandleFrame
    PROVE  Tracked' /\ Recorded'
<1>1. Recorded' /\ phase # "down" /\ UNCHANGED <<surprises, backlog>> /\ Living' = Living
  BY DEF HandleFrame, Recorded, Living
<1>2. SUFFICES ASSUME surprises = 0 PROVE Tracked'
  BY <1>1 DEF Tracked
<1>3. client \in Connection /\ client # NoClient /\ client.up \in Seq(Message) /\ client.up # <<>>
  BY TypedBacklog, NoClientFacts DEF HandleFrame
<1>4. Head(client.up) \in Message /\ Tail(client.up) \in Seq(Message)
  BY <1>3, TailFacts
<1>5. client' \in Connection /\ client'.pid = client.pid /\ client' # NoClient
  BY <1>3, <1>4, NoClientFacts DEF HandleFrame, Connection
<1>6. /\ Living \subseteq {sup.pid_} /\ client.pid = sup.pid_ /\ backlog = <<>>
      /\ sup.pid_ \in Pid /\ Len(backlog) = 0
  BY <1>1, <1>2, <1>3, NoClientFacts DEF Tracked
<1>7. /\ sup'.pid_ = sup.pid_ /\ sup'.state_ # "ABSENT"
      /\ sup'.state_ = "STARTING" => sup'.arm_pending
  <2>1. CASE sup' = OnConnected(client.pid)
    BY <1>6, <2>1, TypedBacklog, ConnectedFacts
  <2>2. CASE sup' = OnOwned(Head(client.up).effect_id)
    <3>1. Head(client.up).effect_id \in Nat
      BY <1>4 DEF Message
    <3> QED BY <2>2, <3>1, TypedBacklog, OwnedFacts
  <2>3. CASE sup' = OnOwnerFailed
    BY <2>3, TypedBacklog, FailedFacts
  <2> QED BY <1>4, <2>1, <2>2, <2>3 DEF HandleFrame, Message
<1>8. 1 .. Len(backlog') = {} /\ Len(backlog') <= 1
  BY <1>1, <1>6
<1> QED BY <1>1, <1>5, <1>6, <1>7, <1>8 DEF Tracked

\* A connection that has ended was the last owner's.
LEMMA DropTracked ==
    ASSUME TypeInv, Tracked, Recorded, DropClient
    PROVE  Tracked' /\ Recorded'
<1>1. /\ Recorded' /\ phase # "down" /\ UNCHANGED <<surprises, backlog>> /\ Living' = Living
      /\ client.eof /\ client' = NoClient /\ sup' = OnDisconnected
  BY DEF DropClient, Recorded, Living
<1>2. SUFFICES ASSUME surprises = 0 PROVE Tracked'
  BY <1>1 DEF Tracked
<1>3. client # NoClient /\ client.pid \notin Living
  BY <1>1, NoClientFacts DEF TypeInv, ConnectionsTyped
<1>4. Living = {} /\ backlog = <<>> /\ Len(backlog) = 0
  BY <1>1, <1>2, <1>3 DEF Tracked
<1>5. sup'.pid_ = 0 /\ sup'.state_ = "ABSENT"
  BY <1>1, TypedBacklog, DisconnectedFacts
<1> QED BY <1>1, <1>4, <1>5 DEF Tracked

\* An owner is spawned when there is none, and given up when it is gone.
LEMMA PollTracked ==
    ASSUME TypeInv, Tracked, Recorded, PollSupervisor
    PROVE  Tracked' /\ Recorded'
<1>1. /\ sup' \in Supervisor /\ phase # "down" /\ phase' # "down"
      /\ UNCHANGED <<surprises, effects>>
      /\ GivesUp \/ Waits \/ \E p \in Pid : Spawns(p)
  BY SuperviseFacts DEF PollSupervisor
<1>2. Recorded'
  BY <1>1 DEF Recorded
<1>3. SUFFICES ASSUME surprises = 0 PROVE Tracked'
  BY <1>1, <1>2 DEF Tracked
<1>4. CASE GivesUp
  <2>1. Living = {} /\ client = NoClient /\ backlog = <<>>
    BY <1>1, <1>3, <1>4 DEF GivesUp, Tracked
  <2>2. UNCHANGED <<proc, client, backlog>> /\ Living' = {}
    BY <1>4, <2>1 DEF GivesUp, Living
  <2>3. Len(backlog') = 0
    BY <2>1, <2>2
  <2> QED BY <1>4, <2>1, <2>2, <2>3 DEF GivesUp, Tracked
<1>5. CASE Waits
  <2>1. Living' = Living /\ UNCHANGED <<client, backlog>>
    BY <1>5 DEF Waits, Living
  <2> QED BY <1>1, <1>3, <1>5, <2>1 DEF Waits, Tracked
<1>6. ASSUME NEW p \in Pid, Spawns(p) PROVE Tracked'
  <2>1. sup.pid_ = 0 /\ Living = {} /\ client = NoClient
    BY <1>1, <1>3, <1>6, LivingPids, TypedBacklog, NoClientFacts DEF Tracked, Spawns
  <2>2. backlog = <<>> /\ Len(backlog) = 0
    <3>1. \A i \in 1 .. Len(backlog) : backlog[i].pid # 0 /\ backlog[i].pid = 0
      BY <1>1, <1>3, <2>1, TypedBacklog, NoClientFacts DEF Tracked
    <3> QED BY <3>1, EmptyBacklog
  <2>3. Living' = {p}
    BY <1>1, <1>6, <2>1, TypedBacklog, ProcAt DEF Spawns
  <2>4. /\ client' = NoClient /\ backlog' = <<>> /\ Len(backlog') = 0
        /\ sup'.pid_ = p /\ sup'.state_ = "STARTING" /\ sup'.deadline = "armed"
    BY <1>6, <2>1, <2>2 DEF Spawns
  <2> QED BY <2>3, <2>4 DEF Tracked
<1> QED BY <1>1, <1>4, <1>5, <1>6

LEMMA ExpireTracked ==
    ASSUME TypeInv, Tracked, Recorded, Expire
    PROVE  Tracked' /\ Recorded'
<1>1. /\ phase # "down" /\ UNCHANGED <<phase, client, backlog>> /\ Living' = Living
      /\ sup' = [sup EXCEPT !.deadline = "expired"] /\ sup.state_ = "STARTING"
  BY DEF Expire, Living
<1>2. sup'.pid_ = sup.pid_ /\ sup'.state_ = "STARTING"
  BY <1>1 DEF TypeInv, SupTyped, Supervisor
<1>3. Recorded'
  BY <1>1 DEF Recorded
<1>4. CASE Late
  BY <1>3, <1>4, FaultTypes DEF Expire, Tracked
<1>5. CASE ~Late /\ surprises = 0
  <2>1. DOMAIN backlog = 1 .. Len(backlog) /\ Len(backlog) \in Nat
    BY TypedBacklog, LenProperties DEF BacklogTyped
  <2>2. Living = {} /\ client = NoClient
    BY <1>1, <1>5 DEF Late, Tracked
  <2>3. \A i \in 1 .. Len(backlog) : backlog[i].pid = sup.pid_ /\ backlog[i].pid # sup.pid_
    BY <1>1, <1>5, <2>1 DEF Late, Tracked
  <2>4. backlog = <<>> /\ Len(backlog) = 0
    BY <2>3, EmptyBacklog
  <2> QED BY <1>1, <1>2, <1>3, <2>2, <2>4 DEF Tracked
<1>6. CASE ~Late /\ surprises # 0
  BY <1>3, <1>6 DEF Expire, Tracked
<1> QED BY <1>4, <1>5, <1>6

LEMMA StartTracked ==
    ASSUME TypeInv, Tracked, Recorded, Start
    PROVE  Tracked' /\ Recorded'
<1>1. /\ phase = "down" /\ phase' = "accept" /\ sup' = Seeded /\ Living' = Living
      /\ UNCHANGED <<client, backlog, surprises>>
  BY DEF Start, Living
<1>2. client = NoClient /\ backlog = <<>> /\ Len(backlog) = 0
  BY <1>1 DEF TypeInv, LoopTyped
<1>3. Recorded'
  BY <1>1 DEF Recorded
<1>4. SUFFICES ASSUME surprises = 0 PROVE Tracked'
  BY <1>1, <1>3 DEF Tracked
<1>5. Living \subseteq {published}
  BY <1>1, <1>4 DEF Recorded
<1>6. CASE published \in Living
  BY <1>1, <1>2, <1>5, <1>6, SeededFacts DEF Tracked
<1>7. CASE published \notin Living
  BY <1>1, <1>2, <1>5, <1>7, SeededFacts, NewFacts DEF Tracked
<1> QED BY <1>6, <1>7

LEMMA KilledTracked ==
    ASSUME TypeInv, Tracked, Recorded, DaemonKilled
    PROVE  Tracked' /\ Recorded'
<1>1. Tracked' /\ Living' = Living /\ UNCHANGED published
  BY DEF DaemonKilled, Tracked, Living
<1>2. CASE Unpublished
  BY <1>1, <1>2, FaultTypes DEF DaemonKilled, Recorded
<1>3. CASE ~Unpublished
  BY <1>1, <1>3 DEF Unpublished, Recorded
<1> QED BY <1>2, <1>3

\* An owner opens a link when it has none.
LEMMA OpenLinkTracked ==
    ASSUME TypeInv, Tracked, Recorded, NEW p \in Pid, OpenLink(p)
    PROVE  Tracked' /\ Recorded'
<1>1. /\ phase # "down" /\ UNCHANGED <<phase, sup, client, surprises>> /\ Living' = Living
      /\ p \in Living /\ ~Linked(p)
  BY OpenLinkTyped DEF OpenLink
<1>2. Recorded'
  BY <1>1 DEF Recorded
<1>3. SUFFICES ASSUME surprises = 0 PROVE Tracked'
  BY <1>1, <1>2 DEF Tracked
<1>4. p = sup.pid_
  BY <1>1, <1>3 DEF Tracked
<1>5. client = NoClient
  <2> SUFFICES ASSUME client # NoClient PROVE FALSE
    OBVIOUS
  <2>1. client.pid = p /\ (client.eof => p \notin Living)
    BY <1>1, <1>3, <1>4, TypedBacklog DEF Tracked, Sound
  <2> QED BY <1>1, <2>1 DEF Linked
<1>6. Len(backlog) = 0 /\ Len(backlog) \in Nat
  <2>1. DOMAIN backlog = 1 .. Len(backlog) /\ Len(backlog) \in Nat
    BY TypedBacklog, LenProperties DEF BacklogTyped
  <2>2. ASSUME NEW i \in 1 .. Len(backlog) PROVE FALSE
    <3>1. backlog[i].pid = p /\ (backlog[i].eof => p \notin Living)
      BY <1>1, <1>3, <1>4, TypedBacklog DEF Tracked, Sound
    <3> QED BY <1>1, <2>1, <3>1 DEF Linked
  <2> QED BY <2>1, <2>2
<1>7. Len(backlog') = 1 /\ backlog'[1].pid = p
  BY <1>6, OpenLinkTyped
<1>8. \A i \in 1 .. Len(backlog') : backlog'[i].pid = p
  BY <1>7
<1>9. /\ ~(sup.state_ = "STARTING" /\ ~sup.arm_pending /\ sup.deadline # "armed")
      /\ sup.state_ # "ABSENT" \/ sup.pid_ = 0
  BY <1>1, <1>3 DEF Tracked
<1> QED BY <1>1, <1>3, <1>4, <1>5, <1>7, <1>8, <1>9 DEF Tracked

LEMMA TrackedStep ==
    ASSUME TypeInv, TypeInv', Tracked, Recorded, [Next]_vars
    PROVE  Tracked' /\ Recorded'
<1>1. CASE AcceptPending \/ HandleFrame \/ DropClient \/ PollSupervisor
  BY <1>1, AcceptTracked, FrameTracked, DropTracked, PollTracked
<1>2. CASE NoMoreFrames \/ WriteStateFile
  BY <1>2, TrackedKept DEF NoMoreFrames, WriteStateFile, Living
<1>3. CASE Command
  <2>1. client.pid # 0 => client \in Connection
    BY TypedBacklog, NoClientFacts
  <2>2. client' = client \/ client.pid # 0
    BY <1>3 DEF Command
  <2>3. (client' = NoClient <=> client = NoClient) /\ client'.pid = client.pid
    BY <1>3, <2>1, <2>2, NoClientFacts DEF Command, Connection
  <2> QED BY <1>3, <2>3, TrackedKept DEF Command, Living
<1>4. CASE Start \/ Expire \/ DaemonKilled
  BY <1>4, StartTracked, ExpireTracked, KilledTracked
<1>5. CASE RetryDue
  <2>1. /\ sup'.pid_ = sup.pid_ /\ sup'.state_ = sup.state_
        /\ (sup'.arm_pending <=> sup.arm_pending) /\ sup'.deadline = sup.deadline
    BY <1>5 DEF RetryDue, TypeInv, SupTyped, Supervisor
  <2> QED BY <1>5, <2>1, TrackedKept DEF RetryDue, Living
<1>6. ASSUME NEW p \in Pid, OpenLink(p) PROVE Tracked' /\ Recorded'
  BY <1>6, OpenLinkTracked
<1>7. ASSUME NEW p \in Pid, ReadCommand(p) PROVE Tracked' /\ Recorded'
  <2>1. UNCHANGED <<phase, published, sup, backlog, surprises>>
    BY <1>7 DEF ReadCommand
  <2> QED BY <1>7, <2>1, ReadTyped, TrackedKept
<1>8. ASSUME NEW p \in Pid, Tells(p) PROVE Tracked' /\ Recorded'
  <2>1. PICK m \in Message : Sends(p, m)
    BY <1>8 DEF Tells
  <2>2. /\ client' = NoClient <=> client = NoClient
        /\ client'.pid = client.pid /\ Len(backlog') = Len(backlog)
        /\ \A i \in 1 .. Len(backlog) : backlog'[i].pid = backlog[i].pid
    BY <2>1, TypedBacklog, SendsFacts
  <2>3. UNCHANGED <<phase, published, sup, surprises>> /\ Living' = Living
    BY <1>8 DEF Tells
  <2> QED BY <2>2, <2>3, TrackedKept
<1>9. ASSUME NEW p \in Pid, Loses(p) PROVE Tracked' /\ Recorded'
  <2>1. /\ client' = NoClient <=> client = NoClient
        /\ client'.pid = client.pid /\ Len(backlog') = Len(backlog)
        /\ \A i \in 1 .. Len(backlog) : backlog'[i].pid = backlog[i].pid
    <3>1. CASE UNCHANGED <<client, backlog>>
      BY <3>1
    <3>2. CASE Hangs(p)
      BY <3>2, TypedBacklog, HangsFacts
    <3> QED BY <1>9, <3>1, <3>2 DEF Loses
  <2>2. UNCHANGED <<phase, published, sup, surprises>> /\ Living' \subseteq Living
    BY <1>9 DEF Loses
  <2> QED BY <2>1, <2>2, TrackedKept
<1>10. CASE UNCHANGED vars
  BY <1>10 DEF vars, daemonVars, Tracked, Recorded, Living
<1>11. 1 \in Pid
  BY DEF Pid
<1> QED BY <1>1, <1>2, <1>3, <1>4, <1>5, <1>6, <1>7, <1>8, <1>9, <1>10, <1>11,
        TellsFacts, LosesFacts DEF Next, DaemonLoop, OwnerStep, Environment

LEMMA TrackedInit == Init => Tracked /\ Recorded
<1> SUFFICES ASSUME Init PROVE Tracked /\ Recorded
  OBVIOUS
<1>1. Living = {}
  BY DEF Init, Living, NotStarted
<1>2. sup.pid_ = 0 /\ sup.state_ = "ABSENT"
  BY NewFacts DEF Init
<1> QED BY <1>1, <1>2 DEF Init, Tracked, Recorded

LEMMA AtMostOne == ASSUME NEW x, NEW S, S \subseteq {x} PROVE Cardinality(S) <= 1
<1>1. CASE S = {}
  BY <1>1, FS_EmptySet
<1>2. CASE S = {x}
  <2>1. Cardinality({x}) = 1
    BY FS_Singleton, Zenon
  <2> QED BY <1>2, <2>1
<1> QED BY <1>1, <1>2

\* However often the owner, the daemon and audioserver die, and whatever the order
\* of their steps: unless a handshake outlasts its deadline or the daemon is killed
\* before the state file names its owner, never do two owner processes live.
THEOREM SingleOwnerCorrect == Spec => []SingleOwner
<1>1. TypeInv /\ Tracked /\ Recorded => SingleOwner
  <2> SUFFICES ASSUME Tracked, Recorded, surprises = 0 PROVE Cardinality(Living) <= 1
    BY DEF SingleOwner
  <2>1. Living \subseteq {sup.pid_} \/ Living \subseteq {published}
    BY DEF Tracked, Recorded
  <2> QED BY <2>1, AtMostOne
<1>2. Init => TypeInv /\ Tracked /\ Recorded
  BY TypeInit, TrackedInit
<1>3. TypeInv /\ Tracked /\ Recorded /\ [Next]_vars => (TypeInv /\ Tracked /\ Recorded)'
  <2> SUFFICES ASSUME TypeInv, Tracked, Recorded, [Next]_vars
               PROVE  TypeInv' /\ Tracked' /\ Recorded'
    OBVIOUS
  <2>1. TypeInv'
    BY TypeStep
  <2> QED BY <2>1, TrackedStep
<1> QED BY <1>1, <1>2, <1>3, PTL DEF Spec

-----------------------------------------------------------------------------
(* OWNED is real *)

LEMMA EndsAppend ==
    ASSUME NEW c \in Connection, NEW d \in Connection, NEW m \in Message, NEW r,
           EndsWith(c, r), d.up = Append(c.up, m), m.type # "OWNER_HELLO"
    PROVE  EndsWith(d, m)
<1>1. /\ Len(c.up) \in Nat /\ Len(d.up) = Len(c.up) + 1 /\ d.up[Len(c.up) + 1] = m
      /\ \A i \in 1 .. Len(c.up) : d.up[i] = c.up[i]
  BY NoClientFacts, AppendFacts
<1>2. ASSUME NEW i \in 1 .. Len(d.up)
      PROVE  /\ d.up[i].type = "OWNER_HELLO" => i = 1
             /\ i = Len(d.up) /\ ~d.eof /\ d.up[i].type # "OWNER_HELLO" => d.up[i] = m
  <2>1. i \in 1 .. Len(c.up) \/ i = Len(c.up) + 1
    BY <1>1
  <2> QED BY <1>1, <2>1 DEF EndsWith
<1> QED BY <1>2 DEF EndsWith

LEMMA EndsTail ==
    ASSUME NEW c \in Connection, NEW d \in Connection, NEW r, EndsWith(c, r),
           c.up # <<>>, d.up = Tail(c.up), d.eof <=> c.eof
    PROVE  /\ EndsWith(d, r)
           /\ \A i \in 1 .. Len(d.up) : d.up[i].type # "OWNER_HELLO"
           /\ d.up = <<>> /\ ~d.eof /\ Head(c.up).type # "OWNER_HELLO" => Head(c.up) = r
<1>1. /\ Len(c.up) \in Nat /\ Len(c.up) >= 1 /\ Len(d.up) = Len(c.up) - 1 /\ Head(c.up) = c.up[1]
      /\ \A i \in 1 .. Len(c.up) - 1 : d.up[i] = c.up[i + 1]
  BY NoClientFacts, TailFacts
<1>2. ASSUME NEW i \in 1 .. Len(d.up)
      PROVE  /\ d.up[i].type # "OWNER_HELLO"
             /\ i = Len(d.up) /\ ~d.eof => d.up[i] = r
  <2>1. i + 1 \in 1 .. Len(c.up) /\ i + 1 # 1 /\ d.up[i] = c.up[i + 1]
        /\ (i = Len(d.up) => i + 1 = Len(c.up))
    BY <1>1
  <2> QED BY <2>1 DEF EndsWith
<1>3. d.up = <<>> => Len(c.up) = 1 /\ 1 \in 1 .. Len(c.up)
  <2>1. Len(d.up) = 0 => Len(c.up) = 1 /\ 1 \in 1 .. Len(c.up)
    BY <1>1
  <2>2. d.up = <<>> => Len(d.up) = 0
    BY EmptySeq
  <2> QED BY <2>1, <2>2, Zenon
<1>4. d.up = <<>> /\ ~d.eof /\ Head(c.up).type # "OWNER_HELLO" => Head(c.up) = r
  BY <1>1, <1>3 DEF EndsWith
<1> QED BY <1>2, <1>4 DEF EndsWith

LEMMA EndsKept ==
    ASSUME NEW c, NEW d, NEW r, NEW q, EndsWith(c, r), d.up = c.up,
           c.eof => d.eof, d.eof \/ q = r
    PROVE  EndsWith(d, q)
BY DEF EndsWith

LEMMA EndsEmpty == ASSUME NEW c, NEW r, c.up = <<>> PROVE EndsWith(c, r)
BY DEF EndsWith

\* Steps that send nothing and change no handle.
LEMMA ReportedKept ==
    ASSUME TypeInv, Reported, Len(backlog') = Len(backlog),
           \A q \in Pid : proc'[q].handle = proc[q].handle,
           client' = NoClient \/ /\ client # NoClient /\ client'.pid = client.pid
                                 /\ client'.up = client.up /\ (client.eof => client'.eof),
           \A i \in 1 .. Len(backlog) :
                /\ backlog'[i].pid = backlog[i].pid /\ backlog'[i].up = backlog[i].up
                /\ backlog[i].eof => backlog'[i].eof
    PROVE  Reported'
<1>1. ASSUME NEW q \in Pid PROVE Report(q)' = Report(q)
  BY <1>1 DEF Report, Owned, OwnFailed
<1>2. Truthful(client)'
  <2>1. CASE client' = NoClient
    BY <2>1, NoClientFacts, EndsEmpty DEF Truthful
  <2>2. CASE client' # NoClient
    <3>1. PICK p \in Pid : p = client.pid /\ p = client'.pid
      BY <2>2, TypedBacklog, NoClientFacts
    <3>2. EndsWith(client, Report(p))
      BY <3>1 DEF Reported, Truthful
    <3>3. EndsWith(client', Report(p)')
      BY <1>1, <2>2, <3>2, EndsKept
    <3> QED BY <3>1, <3>3 DEF Truthful, Report
  <2> QED BY <2>1, <2>2
<1>3. ASSUME NEW i \in 1 .. Len(backlog')
      PROVE  /\ Truthful(backlog[i])'
             /\ Len(backlog'[i].up) >= 1 /\ backlog'[i].up[1].type = "OWNER_HELLO"
  <2>1. PICK p \in Pid : p = backlog[i].pid /\ p = backlog'[i].pid
    BY TypedBacklog, NoClientFacts
  <2>2. EndsWith(backlog[i], Report(p))
    BY <2>1 DEF Reported, Truthful
  <2>3. EndsWith(backlog'[i], Report(p)')
    BY <1>1, <2>2, EndsKept
  <2>4. Truthful(backlog[i])'
    BY <2>1, <2>3 DEF Truthful, Report
  <2> QED BY <2>4 DEF Reported
<1> QED BY <1>2, <1>3 DEF Reported

LEMMA AcceptReported ==
    ASSUME TypeInv, Reported, AcceptPending
    PROVE  Reported'
<1>0. UNCHANGED proc
  BY DEF AcceptPending
<1>1. CASE backlog = <<>>
  <2>1. UNCHANGED <<client, backlog>>
    BY <1>1 DEF AcceptPending
  <2> QED BY <1>0, <2>1 DEF Reported, Truthful, Report
<1>2. CASE backlog # <<>>
  <2>1. client' = Head(backlog) /\ backlog' = Tail(backlog)
    BY <1>2 DEF AcceptPending
  <2>2. /\ backlog' \in Seq(Connection) /\ Len(backlog') = Len(backlog) - 1
        /\ Len(backlog) >= 1 /\ Len(backlog) \in Nat /\ client' = backlog[1]
        /\ \A i \in 1 .. Len(backlog) - 1 : backlog'[i] = backlog[i + 1]
    BY <1>2, <2>1, TypedBacklog, TailFacts DEF BacklogTyped
  <2>3. 1 \in 1 .. Len(backlog)
        /\ \A i \in 1 .. Len(backlog') : i + 1 \in 1 .. Len(backlog) /\ backlog'[i] = backlog[i + 1]
    BY <2>2
  <2>4. Truthful(client)'
    BY <1>0, <2>2, <2>3 DEF Reported, Truthful, Report
  <2>5. ASSUME NEW i \in 1 .. Len(backlog')
        PROVE  /\ Truthful(backlog[i])'
               /\ Len(backlog'[i].up) >= 1 /\ backlog'[i].up[1].type = "OWNER_HELLO"
    <3>1. i + 1 \in 1 .. Len(backlog) /\ backlog'[i] = backlog[i + 1]
      BY <2>3
    <3> QED BY <1>0, <3>1 DEF Reported, Truthful, Report
  <2> QED BY <2>4, <2>5 DEF Reported
<1> QED BY <1>1, <1>2

\* A frame is taken from the front.
LEMMA FrameFacts ==
    ASSUME TypeInv, HandleFrame
    PROVE  /\ client \in Connection /\ client' \in Connection
           /\ client'.pid = client.pid /\ client'.up = Tail(client.up)
           /\ (client'.eof <=> client.eof) /\ client.up # <<>>
           /\ Head(client.up) \in Message /\ Head(client.up) = client.up[1]
           /\ 1 \in 1 .. Len(client.up)
           /\ UNCHANGED <<backlog, proc>>
<1>1. client \in Connection /\ client.up \in Seq(Message) /\ client.up # <<>>
  BY TypedBacklog, NoClientFacts DEF HandleFrame
<1>2. /\ Head(client.up) \in Message /\ Tail(client.up) \in Seq(Message)
      /\ Head(client.up) = client.up[1] /\ 1 \in 1 .. Len(client.up)
  BY <1>1, TailFacts
<1> QED BY <1>1, <1>2 DEF HandleFrame, Connection

LEMMA FrameReported ==
    ASSUME TypeInv, Reported, HandleFrame
    PROVE  Reported'
<1>1. EndsWith(client, Report(client.pid))
  BY DEF Reported, Truthful
<1>2. EndsWith(client', Report(client.pid))
  BY <1>1, FrameFacts, EndsTail
<1>3. Truthful(client)'
  BY <1>2, FrameFacts DEF Truthful, Report
<1> QED BY <1>3, FrameFacts DEF Reported, Truthful, Report

LEMMA OpenLinkReported ==
    ASSUME TypeInv, Reported, NEW p \in Pid, OpenLink(p)
    PROVE  Reported'
<1>1. ASSUME NEW q \in Pid PROVE Report(q)' = Report(q)
  BY <1>1, OpenLinkTyped DEF Report, Owned, OwnFailed
<1>2. Truthful(client)'
  <2>1. UNCHANGED client
    BY DEF OpenLink
  <2>2. CASE client = NoClient
    BY <2>1, <2>2, NoClientFacts, EndsEmpty DEF Truthful
  <2>3. CASE client # NoClient
    <3>1. PICK q \in Pid : q = client.pid
      BY <2>3, TypedBacklog, NoClientFacts
    <3>2. EndsWith(client, Report(q)')
      BY <1>1, <3>1 DEF Reported, Truthful
    <3> QED BY <2>1, <3>1, <3>2 DEF Truthful, Report
  <2> QED BY <2>2, <2>3
<1>3. ASSUME NEW i \in 1 .. Len(backlog')
      PROVE  /\ Truthful(backlog[i])'
             /\ Len(backlog'[i].up) >= 1 /\ backlog'[i].up[1].type = "OWNER_HELLO"
  <2>0. Len(backlog) \in Nat /\ Len(backlog') = Len(backlog) + 1
    BY TypedBacklog, OpenLinkTyped
  <2>1. CASE i \in 1 .. Len(backlog)
    <3>1. backlog'[i] = backlog[i]
      BY <2>1, OpenLinkTyped
    <3>2. PICK q \in Pid : q = backlog[i].pid
      BY <2>1, TypedBacklog, NoClientFacts
    <3>3. EndsWith(backlog[i], Report(q)')
      BY <1>1, <2>1, <3>2 DEF Reported, Truthful
    <3>4. Truthful(backlog[i])'
      BY <3>1, <3>2, <3>3 DEF Truthful, Report
    <3> QED BY <2>1, <3>1, <3>4 DEF Reported
  <2>2. CASE i = Len(backlog) + 1
    <3>1. backlog'[i].up = <<[type |-> "OWNER_HELLO", effect_id |-> 0]>>
      BY <2>2, OpenLinkTyped
    <3>2. Len(backlog'[i].up) = 1 /\ backlog'[i].up[1].type = "OWNER_HELLO"
      BY <3>1
    <3>3. Truthful(backlog[i])'
      BY <3>2 DEF Truthful, EndsWith
    <3> QED BY <3>2, <3>3
  <2> QED BY <2>0, <2>1, <2>2
<1> QED BY <1>2, <1>3 DEF Reported

\* What a process tells goes on every connection it has.
LEMMA TellsReported ==
    ASSUME TypeInv, TypeInv', Reported, NEW p \in Pid, Tells(p)
    PROVE  Reported'
<1>1. PICK m \in Message : m.type # "OWNER_HELLO" /\ m = Report(p)' /\ Sends(p, m)
  BY DEF Tells
<1>2. ASSUME NEW q \in Pid, q # p PROVE Report(q)' = Report(q)
  BY <1>2 DEF Tells, Report, Owned, OwnFailed
<1>3. ASSUME NEW c \in Connection, NEW d \in Connection, Truthful(c),
             d.pid = c.pid, d.eof <=> c.eof,
             IF c.pid = p /\ ~c.eof THEN d.up = Append(c.up, m) ELSE d = c,
             NEW q \in Pid, q = d.pid
      PROVE  EndsWith(d, Report(q)')
  <2>1. EndsWith(c, Report(q))
    BY <1>3 DEF Truthful
  <2>2. CASE c.pid = p /\ ~c.eof
    BY <1>1, <1>3, <2>1, <2>2, EndsAppend
  <2>3. CASE c.pid = p /\ c.eof
    BY <1>3, <2>1, <2>3, EndsKept
  <2>4. CASE c.pid # p
    BY <1>2, <1>3, <2>1, <2>4
  <2> QED BY <2>2, <2>3, <2>4
<1>4. BacklogTyped /\ BacklogTyped'
  BY TypedBacklog DEF TypeInv, ConnectionsTyped, BacklogTyped
<1>5. Truthful(client)'
  <2>1. CASE client = NoClient
    <3>1. client' = NoClient
      BY <1>1, <1>4, <2>1, SendsFacts
    <3> QED BY <3>1, NoClientFacts, EndsEmpty DEF Truthful
  <2>2. CASE client # NoClient
    <3>1. client \in Connection /\ client' \in Connection /\ Truthful(client)
      BY <1>1, <1>4, <2>2, SendsFacts DEF BacklogTyped, Reported
    <3>2. PICK q \in Pid : q = client'.pid
      BY <3>1, NoClientFacts
    <3>3. EndsWith(client', Report(q)')
      BY <1>1, <1>3, <1>4, <3>1, <3>2, SendsFacts
    <3> QED BY <3>2, <3>3 DEF Truthful, Report
  <2> QED BY <2>1, <2>2
<1>6. ASSUME NEW i \in 1 .. Len(backlog')
      PROVE  /\ Truthful(backlog[i])'
             /\ Len(backlog'[i].up) >= 1 /\ backlog'[i].up[1].type = "OWNER_HELLO"
  <2>0. i \in 1 .. Len(backlog)
    BY <1>1, <1>4, SendsFacts
  <2>1. /\ backlog[i] \in Connection /\ backlog'[i] \in Connection /\ Truthful(backlog[i])
        /\ Len(backlog[i].up) >= 1 /\ backlog[i].up[1].type = "OWNER_HELLO"
    BY <1>4, <2>0, ElementOfSeq DEF BacklogTyped, Reported
  <2>2. PICK q \in Pid : q = backlog'[i].pid
    BY <2>1, NoClientFacts
  <2>3. /\ backlog'[i].pid = backlog[i].pid /\ (backlog'[i].eof <=> backlog[i].eof)
        /\ IF backlog[i].pid = p /\ ~backlog[i].eof
           THEN backlog'[i].up = Append(backlog[i].up, m)
           ELSE backlog'[i] = backlog[i]
    BY <1>1, <1>4, <2>0, SendsFacts
  <2>4. EndsWith(backlog'[i], Report(q)')
    BY <1>3, <2>1, <2>2, <2>3
  <2>5. Truthful(backlog[i])'
    BY <2>2, <2>4 DEF Truthful, Report
  <2>6. Len(backlog'[i].up) >= 1 /\ backlog'[i].up[1].type = "OWNER_HELLO"
    <3>1. /\ Len(Append(backlog[i].up, m)) >= 1
          /\ Append(backlog[i].up, m)[1] = backlog[i].up[1]
      <4>1. backlog[i].up \in Seq(Message) /\ Len(backlog[i].up) \in Nat
            /\ 1 \in 1 .. Len(backlog[i].up)
        BY <2>1, NoClientFacts
      <4> QED BY <4>1, AppendFacts
    <3> QED BY <2>1, <2>3, <3>1
  <2> QED BY <2>5, <2>6
<1> QED BY <1>5, <1>6 DEF Reported

\* Steps that leave OWNED, its effect and the connection as they are.
LEMMA GreetedKept ==
    ASSUME OwnedGreeted, sup'.state_ = sup.state_, sup'.effect_id_ = sup.effect_id_,
           client # NoClient => client' # NoClient,
           client'.pid = client.pid, client'.up = client.up, client.eof => client'.eof,
           proc'[client.pid].handle = proc[client.pid].handle
    PROVE  OwnedGreeted'
<1> SUFFICES ASSUME sup.state_ = "OWNED"
             PROVE  /\ client' # NoClient
                    /\ \A i \in 1 .. Len(client'.up) : client'.up[i].type # "OWNER_HELLO"
                    /\ client'.up = <<>> /\ ~client'.eof =>
                            proc'[client'.pid].handle = sup'.effect_id_
  BY DEF OwnedGreeted
<1> QED BY DEF OwnedGreeted

LEMMA NotOwned == ASSUME sup'.state_ # "OWNED" PROVE OwnedGreeted'
BY DEF OwnedGreeted

LEMMA FrameGreeted ==
    ASSUME TypeInv, Reported, OwnedGreeted, HandleFrame
    PROVE  OwnedGreeted'
<1> DEFINE message == Head(client.up)
<1>1. message \in Message /\ message = client.up[1] /\ sup \in Supervisor
  BY FrameFacts, TypedBacklog
<1>2. CASE message.type = "OWNER_HELLO"
  <2>1. sup' = OnConnected(client.pid) /\ sup.state_ # "OWNED"
    BY <1>1, <1>2, FrameFacts DEF HandleFrame, OwnedGreeted
  <2>2. client.pid \in Pid
    BY FrameFacts, NoClientFacts
  <2> QED BY <1>1, <2>1, <2>2, ConnectedFacts, NotOwned
<1>3. CASE message.type = "OWNED"
  <2>1. sup' = OnOwned(message.effect_id) /\ message.effect_id \in Nat
    BY <1>1, <1>3 DEF HandleFrame, Message
  <2>2. sup'.effect_id_ = message.effect_id
    BY <1>1, <2>1, OwnedFacts
  <2>3. EndsWith(client, Report(client.pid))
    BY DEF Reported, Truthful
  <2>4. /\ \A i \in 1 .. Len(client'.up) : client'.up[i].type # "OWNER_HELLO"
        /\ client'.up = <<>> /\ ~client'.eof => message = Report(client.pid)
    BY <1>3, <2>3, FrameFacts, EndsTail
  <2>5. message = Report(client.pid) => proc[client.pid].handle = message.effect_id
    BY <1>3 DEF Report, OwnFailed, Owned
  <2>6. client' # NoClient /\ client'.pid = client.pid /\ UNCHANGED proc
    BY FrameFacts, NoClientFacts
  <2> HIDE DEF message
  <2> QED BY <2>2, <2>4, <2>5, <2>6 DEF OwnedGreeted
<1>4. CASE message.type = "OWN_FAILED"
  <2>1. sup' = OnOwnerFailed
    BY <1>1, <1>4 DEF HandleFrame
  <2> QED BY <1>1, <2>1, FailedFacts, NotOwned
<1> QED BY <1>1, <1>2, <1>3, <1>4 DEF Message

LEMMA TellsGreeted ==
    ASSUME TypeInv, OwnedGreeted, NEW p \in Pid, Tells(p)
    PROVE  OwnedGreeted'
<1>1. PICK m \in Message : m.type # "OWNER_HELLO" /\ Sends(p, m)
  BY DEF Tells
<1>2. UNCHANGED sup /\ \A q \in Pid : q # p => proc'[q].handle = proc[q].handle
  BY DEF Tells
<1>3. SUFFICES ASSUME sup.state_ = "OWNED" PROVE OwnedGreeted'
  BY <1>2 DEF OwnedGreeted
<1>4. /\ client \in Connection /\ client # NoClient /\ client' # NoClient
      /\ client'.pid = client.pid /\ (client'.eof <=> client.eof)
      /\ IF client.pid = p /\ ~client.eof
         THEN client'.up = Append(client.up, m) ELSE client' = client
  BY <1>1, <1>3, TypedBacklog, SendsFacts DEF OwnedGreeted
<1>5. /\ client.up \in Seq(Message) /\ client.pid \in Pid /\ Len(client.up) \in Nat
      /\ \A i \in 1 .. Len(client.up) : client.up[i].type # "OWNER_HELLO"
  BY <1>3, <1>4, NoClientFacts DEF OwnedGreeted
<1>6. CASE client.pid = p /\ ~client.eof
  <2>1. /\ Len(client'.up) = Len(client.up) + 1 /\ client'.up[Len(client.up) + 1] = m
        /\ \A i \in 1 .. Len(client.up) : client'.up[i] = client.up[i]
    BY <1>4, <1>5, <1>6, AppendFacts
  <2>2. ASSUME NEW i \in 1 .. Len(client'.up) PROVE client'.up[i].type # "OWNER_HELLO"
    <3>1. i \in 1 .. Len(client.up) \/ i = Len(client.up) + 1
      BY <1>5, <2>1
    <3> QED BY <1>1, <1>5, <2>1, <3>1
  <2>3. Len(client'.up) # 0
    BY <1>5, <2>1
  <2>4. client'.up # <<>>
    BY <2>3, EmptySeq
  <2> QED BY <1>4, <2>2, <2>4 DEF OwnedGreeted
<1>7. CASE client.pid = p /\ client.eof
  BY <1>2, <1>4, <1>5, <1>7 DEF OwnedGreeted
<1>8. CASE client.pid # p
  <2>1. client' = client /\ proc'[client.pid].handle = proc[client.pid].handle
    BY <1>2, <1>4, <1>5, <1>8
  <2> QED BY <1>2, <2>1, GreetedKept
<1> QED BY <1>6, <1>7, <1>8

LEMMA LoopTold ==
    ASSUME TypeInv, ToldInv, DaemonLoop
    PROVE  ToldInv'
<1>0. sup \in Supervisor
  BY TypedBacklog
<1>1. CASE AcceptPending
  <2>1. CASE client # NoClient /\ backlog # <<>>
    BY <1>0, <1>1, <2>1, DisconnectedFacts, NotOwned, AcceptReported DEF AcceptPending, ToldInv
  <2>2. CASE client = NoClient
    <3>1. sup'.state_ # "OWNED"
      BY <1>1, <2>2 DEF AcceptPending, ToldInv, OwnedGreeted
    <3> QED BY <1>1, <3>1, NotOwned, AcceptReported DEF ToldInv
  <2>3. CASE backlog = <<>>
    BY <1>1, <2>3, GreetedKept, AcceptReported DEF AcceptPending, ToldInv
  <2> QED BY <2>1, <2>2, <2>3
<1>2. CASE HandleFrame
  BY <1>2, FrameReported, FrameGreeted DEF ToldInv
<1>3. CASE DropClient
  <2>1. sup'.state_ # "OWNED" /\ client' = NoClient /\ UNCHANGED <<backlog, proc>>
    BY <1>0, <1>3, DisconnectedFacts DEF DropClient
  <2> QED BY <2>1, NotOwned, ReportedKept DEF ToldInv
<1>4. CASE NoMoreFrames \/ WriteStateFile
  <2>1. UNCHANGED <<sup, client, backlog, proc>>
    BY <1>4 DEF NoMoreFrames, WriteStateFile
  <2> QED BY <2>1, GreetedKept, ReportedKept DEF ToldInv
<1>5. CASE Command
  <2>1. UNCHANGED <<sup, backlog, proc>>
    BY <1>5 DEF Command
  <2>2. CASE UNCHANGED client
    BY <2>1, <2>2, GreetedKept, ReportedKept DEF ToldInv
  <2>3. CASE client.pid # 0 /\ client' = [client EXCEPT !.down = Append(@, "OWN_SESSION")]
    <3>1. client \in Connection /\ client # NoClient
      BY <2>3, TypedBacklog, NoClientFacts
    <3>2. client'.pid = client.pid /\ client'.up = client.up /\ (client'.eof <=> client.eof)
      BY <2>3, <3>1 DEF Connection
    <3>3. client' # NoClient
      BY <2>3, <3>2, NoClientFacts
    <3> QED BY <2>1, <3>1, <3>2, <3>3, GreetedKept, ReportedKept DEF ToldInv
  <2> QED BY <1>5, <2>2, <2>3 DEF Command
<1>6. CASE PollSupervisor
  <2>1. (GivesUp \/ Waits \/ \E p \in Pid : Spawns(p)) /\ UNCHANGED effects
    BY <1>6, SuperviseFacts DEF PollSupervisor
  <2>2. CASE GivesUp /\ UNCHANGED <<proc, client, backlog>>
    BY <2>2, NotOwned, ReportedKept DEF GivesUp, ToldInv
  <2>3. CASE /\ GivesUp /\ sup.pid_ \in Living /\ Hangs(sup.pid_)
             /\ proc' = [proc EXCEPT ![sup.pid_].at = "dead"]
    <3>1. PICK p \in Pid : p = sup.pid_
      BY <2>3 DEF Living
    <3>2. \A q \in Pid : proc'[q].handle = proc[q].handle
      BY <2>1, <2>3, <3>1, TypedBacklog, ProcAt
    <3>3. /\ client' = NoClient <=> client = NoClient
          /\ client'.pid = client.pid /\ client'.up = client.up
          /\ client'.eof <=> client.eof \/ client.pid = p
          /\ Len(backlog') = Len(backlog)
          /\ \A i \in 1 .. Len(backlog) :
               /\ backlog'[i].pid = backlog[i].pid /\ backlog'[i].up = backlog[i].up
               /\ backlog'[i].eof <=> backlog[i].eof \/ backlog[i].pid = p
      BY <2>3, <3>1, TypedBacklog, HangsFacts
    <3>4. Reported'
      BY <3>2, <3>3, ReportedKept DEF ToldInv
    <3> QED BY <2>3, <3>4, NotOwned DEF GivesUp, ToldInv
  <2>4. CASE Waits
    <3>1. CASE sup'.state_ = sup.state_
      BY <2>4, <3>1, GreetedKept, ReportedKept DEF Waits, ToldInv
    <3>2. CASE sup'.state_ = "FAILED"
      BY <2>4, <3>2, NotOwned, ReportedKept DEF Waits, ToldInv
    <3> QED BY <2>4, <3>1, <3>2 DEF Waits
  <2>5. ASSUME NEW p \in Pid, Spawns(p) PROVE ToldInv'
    <3>1. \A q \in Pid : proc'[q].handle = proc[q].handle
      BY <2>1, <2>5, TypedBacklog, ProcAt DEF Spawns
    <3> QED BY <2>5, <3>1, NotOwned, ReportedKept DEF Spawns, ToldInv
  <2> QED BY <2>1, <2>2, <2>3, <2>4, <2>5 DEF GivesUp
<1> QED BY <1>1, <1>2, <1>3, <1>4, <1>5, <1>6 DEF DaemonLoop

LEMMA LosesTold ==
    ASSUME TypeInv, ToldInv, NEW p \in Pid, Loses(p)
    PROVE  ToldInv'
<1>1. UNCHANGED sup /\ \A q \in Pid : proc'[q].handle = proc[q].handle
  BY DEF Loses
<1>2. /\ client' = NoClient <=> client = NoClient
      /\ client'.pid = client.pid /\ client'.up = client.up /\ (client.eof => client'.eof)
      /\ Len(backlog') = Len(backlog)
      /\ \A i \in 1 .. Len(backlog) :
           /\ backlog'[i].pid = backlog[i].pid /\ backlog'[i].up = backlog[i].up
           /\ backlog[i].eof => backlog'[i].eof
  <2>1. CASE UNCHANGED <<client, backlog>>
    BY <2>1
  <2>2. CASE Hangs(p)
    BY <2>2, TypedBacklog, HangsFacts
  <2> QED BY <2>1, <2>2 DEF Loses
<1>3. Reported'
  BY <1>1, <1>2, ReportedKept DEF ToldInv
<1>4. OwnedGreeted'
  <2>1. CASE client = NoClient
    BY <1>1, <2>1, NotOwned DEF ToldInv, OwnedGreeted
  <2>2. CASE client # NoClient
    <3>1. client.pid \in Pid
      BY <2>2, TypedBacklog, NoClientFacts
    <3> QED BY <1>1, <1>2, <2>2, <3>1, GreetedKept DEF ToldInv
  <2> QED BY <2>1, <2>2
<1> QED BY <1>3, <1>4 DEF ToldInv

LEMMA ToldStep ==
    ASSUME TypeInv, TypeInv', ToldInv, [Next]_vars
    PROVE  ToldInv'
<1>0. sup \in Supervisor
  BY TypedBacklog
<1>1. CASE DaemonLoop
  BY <1>1, LoopTold
<1>2. CASE Start
  <2>1. sup'.state_ # "OWNED" /\ UNCHANGED <<client, backlog, proc>>
    BY <1>2, SeededFacts, NewFacts DEF Start
  <2> QED BY <2>1, NotOwned, ReportedKept DEF ToldInv
<1>3. CASE Expire \/ RetryDue
  <2>1. sup' = [sup EXCEPT !.deadline = "expired"] \/ sup' = [sup EXCEPT !.retry = "due"]
    BY <1>3 DEF Expire, RetryDue
  <2>2. sup'.state_ = sup.state_ /\ sup'.effect_id_ = sup.effect_id_
    BY <1>0, <2>1 DEF Supervisor
  <2>3. UNCHANGED <<client, backlog, proc>>
    BY <1>3 DEF Expire, RetryDue
  <2> QED BY <2>2, <2>3, GreetedKept, ReportedKept DEF ToldInv
<1>4. CASE DaemonKilled
  <2>1. client' = NoClient /\ backlog' = <<>> /\ sup'.state_ # "OWNED"
    BY <1>4, NewFacts DEF DaemonKilled
  <2>2. Reported'
    BY <2>1, NoClientFacts, EndsEmpty DEF Reported, Truthful
  <2> QED BY <2>1, <2>2, NotOwned DEF ToldInv
<1>5. ASSUME NEW p \in Pid, OpenLink(p) PROVE ToldInv'
  <2>1. UNCHANGED <<sup, client>> /\ \A q \in Pid : proc'[q].handle = proc[q].handle
    BY <1>5, OpenLinkTyped DEF OpenLink
  <2>2. OwnedGreeted'
    <3>1. CASE client = NoClient
      BY <2>1, <3>1, NotOwned DEF ToldInv, OwnedGreeted
    <3>2. CASE client # NoClient
      <4>1. client.pid \in Pid
        BY <3>2, TypedBacklog, NoClientFacts
      <4> QED BY <2>1, <4>1, GreetedKept DEF ToldInv
    <3> QED BY <3>1, <3>2
  <2> QED BY <1>5, <2>2, OpenLinkReported DEF ToldInv
<1>6. ASSUME NEW p \in Pid, ReadCommand(p) PROVE ToldInv'
  <2>1. UNCHANGED <<sup, backlog>>
    BY <1>6 DEF ReadCommand
  <2>2. client.pid \in Pid
    BY <1>6 DEF ReadCommand
  <2> QED BY <1>6, <2>1, <2>2, ReadTyped, GreetedKept, ReportedKept DEF ToldInv
<1>7. ASSUME NEW p \in Pid, Tells(p) PROVE ToldInv'
  BY <1>7, TellsReported, TellsGreeted DEF ToldInv
<1>8. ASSUME NEW p \in Pid, Loses(p) PROVE ToldInv'
  BY <1>8, LosesTold
<1>9. CASE UNCHANGED vars
  BY <1>9, GreetedKept, ReportedKept DEF vars, daemonVars, ToldInv
<1>10. 1 \in Pid
  BY DEF Pid
<1> QED BY <1>1, <1>2, <1>3, <1>4, <1>5, <1>6, <1>7, <1>8, <1>9, <1>10,
        TellsFacts, LosesFacts DEF Next, OwnerStep, Environment

LEMMA ToldInit == Init => ToldInv
<1> SUFFICES ASSUME Init PROVE ToldInv
  OBVIOUS
<1>1. client = NoClient /\ backlog = <<>> /\ sup.state_ # "OWNED"
  BY NewFacts DEF Init
<1>2. Reported
  BY <1>1, NoClientFacts, EndsEmpty DEF Reported, Truthful
<1> QED BY <1>1, <1>2 DEF ToldInv, OwnedGreeted

\* Whenever the daemon has read the frames sent so far and says OWNED, the process
\* behind the open connection has the effect with that id, through reconnects,
\* rebuilt handles and restarts of the daemon; and without a surprise that process
\* is the one the supervisor tracks and publishes.
THEOREM OwnedIsRealCorrect == Spec => []OwnedIsReal
<1> DEFINE Inv == TypeInv /\ Tracked /\ Recorded /\ ToldInv
<1>1. Inv => OwnedIsReal
  <2> SUFFICES ASSUME TypeInv, Tracked, ToldInv, sup.state_ = "OWNED"
               PROVE  /\ client.up = <<>> /\ ~client.eof
                            => client.pid # 0 /\ proc[client.pid].handle = sup.effect_id_
                      /\ surprises = 0 => sup.pid_ = client.pid
    BY DEF OwnedIsReal
  <2>1. client # NoClient /\ client.pid # 0
    BY TypedBacklog, NoClientFacts DEF ToldInv, OwnedGreeted
  <2>2. phase # "down"
    BY <2>1 DEF TypeInv, LoopTyped
  <2> QED BY <2>1, <2>2 DEF ToldInv, OwnedGreeted, Tracked
<1>2. Init => Inv
  BY TypeInit, TrackedInit, ToldInit
<1>3. Inv /\ [Next]_vars => Inv'
  <2> SUFFICES ASSUME TypeInv, Tracked, Recorded, ToldInv, [Next]_vars
               PROVE  TypeInv' /\ Tracked' /\ Recorded' /\ ToldInv'
    OBVIOUS
  <2>1. TypeInv'
    BY TypeStep
  <2> QED BY <2>1, TrackedStep, ToldStep
<1> QED BY <1>1, <1>2, <1>3, PTL DEF Spec
=============================================================================
