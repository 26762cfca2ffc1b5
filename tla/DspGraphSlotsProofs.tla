------------------------ MODULE DspGraphSlotsProofs ------------------------
(***************************************************************************)
(* For any sample rates, any fade length and any number of preparations:   *)
(* the bridge never rebuilds a graph the audio thread may run, what it     *)
(* rebuilt is always installed, and the active graph only gets newer.      *)
(***************************************************************************)
EXTENDS DspGraphSlots, TLAPS

USE SlotsAssumption

\* While the bridge rebuilds a graph the packed word is the one it loaded:
\* pending and previous are empty, so no step of Process changes it.
BridgeHolds ==
    /\ b_pc \in {"prepare", "exchange"} =>
            target \in Graph /\ state_ = ExpectedWord
    /\ b_pc = "load" => state_.active # None /\ state_.pending = None

\* Only the audio thread, or a command while it is idle, changes the active and
\* the previous graph, so its local copies stay those of the packed word.
LocalsCurrent ==
    /\ a_pc # "idle" => active_graph # None /\ active_graph = state_.active
    /\ a_pc \in {"render", "release"} => previous_graph = state_.previous
    /\ a_pc \notin {"render", "release"} => previous_graph = None
    /\ a_pc = "idle" => active_graph = None
    /\ PreviousNotNull

\* A graph on its way in is newer than the one it will replace.
PendingNewer ==
    /\ state_.pending # None =>
            graphs_[state_.pending].generation > graphs_[state_.active].generation
    /\ b_pc = "prepare" =>
            graph_generation_ + 1 > graphs_[1 - target].generation
    /\ b_pc = "exchange" =>
            graphs_[target].generation > graphs_[1 - target].generation

IInv == TypeOK /\ BridgeHolds /\ LocalsCurrent /\ PendingNewer

\* A context without a graph satisfies the invariant.
LEMMA InitInvariant == Init => IInv
<1> SUFFICES ASSUME Init PROVE IInv
  OBVIOUS
<1>1. TypeOK
  <2>1. graphs_ \in [Graph -> [generation : Nat, rate : SampleRate,
                               fade : 0 .. FadeBlocks]]
    BY DEF Init
  <2>2. config_rate \in SampleRate
    BY <2>1 DEF Init, Graph
  <2> QED BY <2>1, <2>2 DEF Init, TypeOK, RolesDistinct, Pack, Graph, None, DisableReason
<1>2. BridgeHolds /\ LocalsCurrent /\ PendingNewer
  BY DEF Init, Pack, BridgeHolds, LocalsCurrent, PendingNewer,
         PreviousNotNull
<1> QED BY <1>1, <1>2 DEF IInv

\* ResetGraphs changes no generation, frees the previous graph and leaves the
\* other two roles as they are.
LEMMA ResetEffect ==
    ASSUME TypeOK, ResetGraphs
    PROVE  /\ graphs_' \in [Graph -> [generation : Nat, rate : SampleRate,
                                      fade : 0 .. FadeBlocks]]
           /\ \A g \in Graph : graphs_'[g].generation = graphs_[g].generation
           /\ state_' = [state_ EXCEPT !.previous = None]
<1>1. state_' = [state_ EXCEPT !.previous = None]
  BY DEF ResetGraphs, ReleasePrevious
<1>2. ASSUME NEW g \in Graph
      PROVE  /\ graphs_'[g] \in [generation : Nat, rate : SampleRate,
                                  fade : 0 .. FadeBlocks]
             /\ graphs_'[g].generation = graphs_[g].generation
  <2>1. graphs_[g] \in [generation : Nat, rate : SampleRate, fade : 0 .. FadeBlocks]
    BY DEF TypeOK
  <2>2. graphs_'[g] = [graphs_[g] EXCEPT !.fade = 0] \/ graphs_'[g] = graphs_[g]
    BY DEF ResetGraphs
  <2> QED BY <2>1, <2>2
<1>3. graphs_' = [g \in Graph |-> graphs_'[g]]
  BY DEF ResetGraphs
<1> QED BY <1>1, <1>2, <1>3

\* Each command of AudioFlinger preserves the invariant.
LEMMA CommandInvariant == IInv /\ Command => IInv'
<1> SUFFICES ASSUME IInv, Command PROVE IInv'
  OBVIOUS
<1> USE DEF IInv, RolesDistinct, BridgeHolds, LocalsCurrent, PendingNewer,
            PreviousNotNull, ExpectedWord, TypeOK, Graph, None, Pack, CommandRuns, context, bridge, audio
<1>1. CASE SetConfigInvalid
  BY <1>1 DEF SetConfigInvalid, DisableReason
<1>2. ASSUME NEW r \in SampleRate, SetConfig(r) PROVE IInv'
  BY <1>2 DEF SetConfig, RetractPending, MayPreparePending, Prepared, PreparationFails,
              DisableReason
<1>3. CASE Reset
  <2>1. ResetGraphs
    BY <1>3 DEF Reset
  <2>2. TypeOK'
    BY <1>3, <2>1, ResetEffect DEF Reset
  <2>3. /\ state_'.active = state_.active /\ state_'.pending = state_.pending
        /\ state_'.previous = None
        /\ state_' \in [active : Graph \cup {None}, pending : Graph \cup {None},
                       previous : Graph \cup {None}]
    BY <2>1, ResetEffect
  <2> QED BY <1>3, <2>1, <2>2, <2>3, ResetEffect DEF Reset
<1>4. CASE Enable
  <2>1. ResetGraphs
    BY <1>4 DEF Enable
  <2>2. TypeOK'
    BY <1>4, <2>1, ResetEffect DEF Enable
  <2>3. /\ state_'.active = state_.active /\ state_'.pending = state_.pending
        /\ state_'.previous = None
        /\ state_' \in [active : Graph \cup {None}, pending : Graph \cup {None},
                       previous : Graph \cup {None}]
    BY <2>1, ResetEffect
  <2> QED BY <1>4, <2>1, <2>2, <2>3, ResetEffect DEF Enable
<1>5. CASE Disable
  <2>1. enable_' \in BOOLEAN
    BY <1>5 DEF Disable
  <2> QED BY <1>5, <2>1, SMTT(20) DEF Disable
<1> QED BY <1>1, <1>2, <1>3, <1>4, <1>5 DEF Command

\* Each access of CommitDaemonSnapshot preserves the invariant.
LEMMA BridgeInvariant == IInv /\ Bridge => IInv'
<1> SUFFICES ASSUME IInv, Bridge PROVE IInv'
  OBVIOUS
<1> USE DEF IInv, RolesDistinct, BridgeHolds, LocalsCurrent, PendingNewer,
            PreviousNotNull, ExpectedWord, TypeOK, Graph, None, Pack, context, audio
<1>1. CASE BridgeRetract
  BY <1>1 DEF BridgeRetract, RetractPending
<1>2. CASE BridgeLoad
  BY <1>2 DEF BridgeLoad, MayPreparePending
<1>3. CASE BridgePrepared
  BY <1>3 DEF BridgePrepared, Prepared
<1>4. CASE BridgePrepareFails
  BY <1>4 DEF BridgePrepareFails, PreparationFails, Prepared
<1>5. CASE BridgeExchange
  BY <1>5 DEF BridgeExchange
<1> QED BY <1>1, <1>2, <1>3, <1>4, <1>5 DEF Bridge

\* Each access of Process preserves the invariant.
LEMMA ProcessInvariant == IInv /\ Process => IInv'
<1> SUFFICES ASSUME IInv, Process PROVE IInv'
  OBVIOUS
<1> USE DEF IInv, RolesDistinct, BridgeHolds, LocalsCurrent, PendingNewer,
            PreviousNotNull, ExpectedWord, TypeOK, Graph, None, Pack, context, bridge
<1>1. CASE ProcessBegin
  BY <1>1 DEF ProcessBegin, ConsumePending
<1>2. CASE ProcessSwapped
  BY <1>2 DEF ProcessSwapped, StartDryToWet, ReleasePrevious
<1>3. CASE ProcessParams
  BY <1>3 DEF ProcessParams
<1>4. CASE ProcessRefused
  BY <1>4 DEF ProcessRefused, DisableReason
<1>5. CASE ProcessLoadPrevious
  BY <1>5 DEF ProcessLoadPrevious
<1>6. CASE ProcessRender
  BY <1>6 DEF ProcessRender
<1>7. CASE ProcessEnd
  BY <1>7 DEF ProcessEnd, ReleasePrevious, DisableReason
<1>8. CASE ProcessApply
  BY <1>8 DEF ProcessApply
<1>9. CASE ProcessPause
  BY <1>9 DEF ProcessPause, StartDryToWet, ReleasePrevious
<1> QED BY <1>1, <1>2, <1>3, <1>4, <1>5, <1>6, <1>7, <1>8, <1>9 DEF Process

\* A step that changes nothing preserves the invariant.
LEMMA StutterInvariant == IInv /\ UNCHANGED vars => IInv'
BY DEF IInv, RolesDistinct, BridgeHolds, LocalsCurrent, PendingNewer, ExpectedWord,
       PreviousNotNull, TypeOK, vars, context, bridge, audio

\* The inductive invariant of the slots.
THEOREM InvariantCorrect == Spec => []IInv
<1>1. IInv /\ [Next]_vars => IInv'
  BY CommandInvariant, BridgeInvariant, ProcessInvariant, StutterInvariant DEF Next
<1> QED BY <1>1, InitInvariant, PTL DEF Spec

\* The packed word, the graphs and the locals of both threads are well formed in
\* every state; active, pending and previous never coincide.
THEOREM TypeCorrect == Spec => []TypeOK
<1>1. IInv => TypeOK
  BY DEF IInv
<1> QED BY <1>1, InvariantCorrect, PTL

\* The graph PreparePending rebuilds on the bridge thread is neither one the
\* audio thread holds nor one it can obtain.
THEOREM RebuildExclusiveCorrect == Spec => []RebuildExclusive
<1>1. IInv => RebuildExclusive
  BY DEF IInv, TypeOK, BridgeHolds, LocalsCurrent, RebuildExclusive, InUse,
         ExpectedWord, Pack, Graph, None
<1> QED BY <1>1, InvariantCorrect, PTL

\* PreparePending's final compare-and-exchange never fails.
THEOREM ExchangeCorrect == Spec => []ExchangeSucceeds
<1>1. IInv => ExchangeSucceeds
  BY DEF IInv, BridgeHolds, ExchangeSucceeds
<1> QED BY <1>1, InvariantCorrect, PTL

\* Process never dereferences a previous graph that is gone.
THEOREM PreviousNotNullCorrect == Spec => []PreviousNotNull
<1>1. IInv => PreviousNotNull
  BY DEF IInv, LocalsCurrent
<1> QED BY <1>1, InvariantCorrect, PTL

\* The active graph is only ever replaced by one prepared later.
THEOREM ActiveAdvancesCorrect == Spec => ActiveAdvances
<1> DEFINE Advances ==
        state_.active # None /\ state_'.active # state_.active =>
            /\ state_'.active # None
            /\ graphs_'[state_'.active].generation
                    > graphs_[state_.active].generation
<1>1. IInv /\ Command => Advances
  BY DEF IInv, TypeOK, Command, SetConfigInvalid, SetConfig, Reset, Enable, Disable,
         ResetGraphs, ReleasePrevious, RetractPending, Pack
<1>2. IInv /\ Bridge => Advances
  BY DEF IInv, TypeOK, BridgeHolds, Bridge, BridgeRetract, BridgeLoad, BridgePrepared,
         BridgePrepareFails, BridgeExchange, RetractPending, ExpectedWord, Pack
<1>3. IInv /\ Process => Advances
  <2> SUFFICES ASSUME IInv, Process PROVE Advances
    OBVIOUS
  <2>1. CASE ProcessBegin
    BY <2>1 DEF IInv, TypeOK, PendingNewer, ProcessBegin, ConsumePending, Pack
  <2>2. CASE ~ProcessBegin
    BY <2>2 DEF IInv, TypeOK, Process, ProcessSwapped, ProcessParams, ProcessApply,
       ProcessPause, ProcessRefused, ProcessLoadPrevious, ProcessRender, ProcessEnd, ReleasePrevious
  <2> QED BY <2>1, <2>2
<1>4. IInv /\ [Next]_vars => [Advances]_vars
  BY <1>1, <1>2, <1>3 DEF Next
<1> QED BY <1>4, InvariantCorrect, PTL DEF Spec, ActiveAdvances
=============================================================================
