-------------------------- MODULE IemGraphsProofs --------------------------
(***************************************************************************)
(* For any structures, sample rates, fade length and any number of graphs  *)
(* prepared: a rebuild is never of a graph in use, and what will sound is  *)
(* what was asked for.                                                     *)
(***************************************************************************)
EXTENDS IemGraphs, TLAPS

USE IemAssumption

\* The context of IemContext, which TypeOK leaves to the code's declarations.
ContextTyped ==
    /\ desired \in [structure : Structure, resources : 0 .. MaxResources, enable : BOOLEAN]
    /\ host_sample_rate_ \in SampleRate /\ graph_generation_ \in 0 .. MaxGeneration
    /\ structural_dirty_ \in BOOLEAN /\ prepared_ \in BOOLEAN
    /\ forgotten \in BOOLEAN /\ rate_lost \in BOOLEAN
    /\ swapped \in [changed : BOOLEAN, rate : BOOLEAN]
    /\ ~prepared_ => state_ = EmptyWord

\* Only the audio thread, or a command while it is idle, changes the active graph;
\* the previous graph of its block is that of the word until the word forgets it.
LocalsCurrent ==
    /\ a_pc # "idle" => prepared_
    /\ active_graph = IF a_pc \in {"idle", "consume"} THEN None ELSE state_.active
    /\ previous_graph # None => a_pc \in {"render", "release"}
    /\ previous_graph # None => previous_graph = state_.previous \/ forgotten
    /\ PreviousNotNull

\* TryPrepareDesiredGraph runs only on what is dirty, and once it has cancelled the
\* pending graph nobody stages another: the word it loaded can only lose its
\* previous graph.
RebuildHolds ==
    /\ c_pc # "idle" => prepared_ /\ structural_dirty_
    /\ c_pc \in {"match_active", "load", "build", "exchange"} => state_.pending = None
    /\ c_pc \in {"build", "exchange"} =>
            /\ target \in Graph /\ target \notin {expected.active, expected.previous}
            /\ state_.active = expected.active /\ expected.pending = None
            /\ state_.previous \in {expected.previous, None}
            /\ graph_generation_ < MaxGeneration

Fits(g) ==
    /\ graphs_[g].structure = desired.structure
    /\ graphs_[g].resources = desired.resources

\* The graph that was rebuilt, and the one that will sound next.
Reflected ==
    /\ c_pc = "exchange" => Fits(target) /\ graphs_[target].rate = host_sample_rate_
    /\ prepared_ /\ ~structural_dirty_ => Fits(Upcoming)
    /\ prepared_ => graphs_[Upcoming].rate = host_sample_rate_ \/ rate_lost

IInv == TypeOK /\ ContextTyped /\ LocalsCurrent /\ RebuildHolds /\ Reflected

-----------------------------------------------------------------------------

\* With three graphs there is always one that is neither active nor previous.
LEMMA FreeGraphIsFree ==
    ASSUME NEW word \in Word
    PROVE  FreeGraph(word) \in Graph \ {word.active, word.previous}
<1> DEFINE Free(g) == g \notin {word.active, word.previous}
<1>1. word.active \in {0, 1, 2, 3} /\ word.previous \in {0, 1, 2, 3}
  BY DEF Word, Graph, None
<1>2. \E g \in Graph : Free(g) /\ \A h \in Graph : h < g => ~Free(h)
  <2>1. CASE Free(0)
    BY <2>1 DEF Graph
  <2>2. CASE ~Free(0) /\ Free(1)
    BY <2>2 DEF Graph
  <2>3. CASE ~Free(0) /\ ~Free(1)
    <3>1. Free(2)
      BY <1>1, <2>3
    <3> QED BY <2>3, <3>1 DEF Graph
  <2> QED BY <2>1, <2>2, <2>3
<1> QED BY <1>2 DEF FreeGraph

\* A new context satisfies the invariant ...
LEMMA InitInvariant == Init => IInv
<1> SUFFICES ASSUME Init PROVE IInv
  OBVIOUS
<1>1. Default \in Structure /\ DefaultRate \in SampleRate
  BY DEF Default, DefaultRate
<1>2. TypeOK
  BY <1>1 DEF Init, NewGraphs, TypeOK, Word, EmptyWord, Graph, None
<1>3. ContextTyped
  <2>1. /\ structural_dirty_ \in BOOLEAN /\ prepared_ \in BOOLEAN
        /\ forgotten \in BOOLEAN /\ rate_lost \in BOOLEAN
    BY Zenon DEF Init
  <2> QED BY <1>1, <2>1 DEF Init, NewDesired, ContextTyped, NoSwap
<1>4. LocalsCurrent /\ RebuildHolds /\ Reflected
  BY DEF Init, LocalsCurrent, PreviousNotNull, RebuildHolds, Reflected, None,
         EmptyWord
<1> QED BY <1>2, <1>3, <1>4 DEF IInv

\* ... and so does the context of a restarted audioserver.
LEMMA RestartInvariant == Restarted => IInv'
<1> SUFFICES ASSUME Restarted PROVE IInv'
  OBVIOUS
<1>1. Default \in Structure /\ DefaultRate \in SampleRate
  BY DEF Default, DefaultRate
<1>2. ~prepared_' /\ state_' = EmptyWord
  BY DEF Restarted
<1>3. TypeOK'
  BY <1>1, <1>2 DEF Restarted, NewGraphs, TypeOK, Word, EmptyWord, Graph, None
<1>4. ContextTyped'
  <2>1. /\ structural_dirty_' \in BOOLEAN /\ prepared_' \in BOOLEAN
        /\ forgotten' \in BOOLEAN /\ rate_lost' \in BOOLEAN
    BY Zenon DEF Restarted
  <2> QED BY <1>1, <1>2, <2>1 DEF Restarted, NewDesired, ContextTyped, NoSwap
<1>5. LocalsCurrent' /\ RebuildHolds' /\ Reflected'
  BY <1>2 DEF Restarted, LocalsCurrent, PreviousNotNull, RebuildHolds, Reflected, None,
              EmptyWord
<1> QED BY <1>3, <1>4, <1>5 DEF IInv

GraphSet == [Graph -> [structure : Structure, resources : 0 .. MaxResources,
                       rate : SampleRate, fade : 0 .. FadeBlocks]]

\* Fading changes nothing the invariant looks at.
SameGraphs ==
    /\ graphs_' \in GraphSet
    /\ \A g \in Graph : /\ graphs_'[g].structure = graphs_[g].structure
                        /\ graphs_'[g].resources = graphs_[g].resources
                        /\ graphs_'[g].rate = graphs_[g].rate

\* A reset frees the previous graph and only touches fades.
LEMMA ResetEffect ==
    ASSUME TypeOK, ResetGraphs
    PROVE  state_' = [state_ EXCEPT !.previous = None] /\ SameGraphs
<1>1. PICK wet \in BOOLEAN :
        graphs_' = [g \in Graph |->
            IF g \notin {state_.active, state_.pending, state_.previous} THEN graphs_[g]
            ELSE [graphs_[g] EXCEPT !.fade = IF g = state_.active /\ wet
                                             THEN FadeBlocks ELSE 0]]
  BY DEF ResetGraphs
<1>2. ASSUME NEW g \in Graph
      PROVE  /\ graphs_'[g] \in [structure : Structure, resources : 0 .. MaxResources,
                                 rate : SampleRate, fade : 0 .. FadeBlocks]
             /\ graphs_'[g].structure = graphs_[g].structure
             /\ graphs_'[g].resources = graphs_[g].resources
             /\ graphs_'[g].rate = graphs_[g].rate
  <2>1. graphs_[g] \in [structure : Structure, resources : 0 .. MaxResources,
                        rate : SampleRate, fade : 0 .. FadeBlocks]
    BY DEF TypeOK
  <2>2. \/ graphs_'[g] = graphs_[g]
        \/ graphs_'[g] = [graphs_[g] EXCEPT !.fade = 0]
        \/ graphs_'[g] = [graphs_[g] EXCEPT !.fade = FadeBlocks]
    BY <1>1
  <2> QED BY <2>1, <2>2
<1>3. SameGraphs
  BY <1>1, <1>2 DEF SameGraphs, GraphSet
<1> QED BY <1>3 DEF ResetGraphs

\* Dispatching a parameter.
LEMMA DispatchInvariant == IInv /\ Dispatch => IInv'
<1> SUFFICES ASSUME IInv, Dispatch PROVE IInv'
  OBVIOUS
<1> USE DEF IInv, LocalsCurrent, PreviousNotNull, RebuildHolds, Reflected, Fits,
            Upcoming, audio, history, control
<1>1. ASSUME NEW s \in Structure, NEW e \in BOOLEAN,
             DispatchUpdated([desired EXCEPT !.structure = s, !.enable = e])
      PROVE  IInv'
  <2> DEFINE d == [desired EXCEPT !.structure = s, !.enable = e]
  <2>1. d \in [structure : Structure, resources : 0 .. MaxResources, enable : BOOLEAN]
        /\ d.resources = desired.resources
    BY DEF ContextTyped
  <2>2. TypeOK' /\ ContextTyped'
    BY <1>1, <2>1 DEF DispatchUpdated, TypeOK, ContextTyped
  <2> QED BY <1>1, <2>1, <2>2 DEF DispatchUpdated
<1>2. CASE DispatchInvalid
  BY <1>2 DEF DispatchInvalid, TypeOK, ContextTyped
<1>3. CASE DispatchResourceReset
  <2>1. TypeOK' /\ ContextTyped'
    BY <1>3 DEF DispatchResourceReset, TypeOK, ContextTyped
  <2> QED BY <1>3, <2>1 DEF DispatchResourceReset
<1> QED BY <1>1, <1>2, <1>3 DEF Dispatch

\* Each step of TryPrepareDesiredGraph and PreparePending.
LEMMA ControlInvariant == IInv /\ Control => IInv'
<1> SUFFICES ASSUME IInv, Control PROVE IInv'
  OBVIOUS
<1> USE DEF IInv, LocalsCurrent, PreviousNotNull, RebuildHolds, Reflected, Fits,
            Upcoming, audio, history, control, context, Graph, None, Word, EmptyWord
<1>1. CASE MatchPending
  <2>1. structural_dirty_' \in BOOLEAN
    BY <1>1, Zenon DEF MatchPending, Prepared, ContextTyped
  <2>2. TypeOK'
    BY <1>1 DEF MatchPending, Prepared, TypeOK
  <2>3. UNCHANGED <<desired, host_sample_rate_, graph_generation_, prepared_, forgotten,
                    rate_lost, swapped, state_>>
    BY <1>1 DEF MatchPending
  <2>4. ContextTyped'
    BY <2>1, <2>3 DEF ContextTyped
  <2> QED BY <1>1, <2>2, <2>4 DEF MatchPending, Prepared, MatchesDesired
<1>2. CASE CancelPending
  <2>1. TypeOK' /\ ContextTyped'
    BY <1>2 DEF CancelPending, TypeOK, ContextTyped
  <2>2. state_' = [state_ EXCEPT !.pending = 3]
    BY <1>2 DEF CancelPending
  <2> QED BY <1>2, <2>1, <2>2 DEF CancelPending, TypeOK
<1>3. CASE MatchActive
  <2>1. structural_dirty_' \in BOOLEAN
    BY <1>3, Zenon DEF MatchActive, Prepared, ContextTyped
  <2>2. TypeOK'
    BY <1>3 DEF MatchActive, Prepared, TypeOK
  <2>3. UNCHANGED <<desired, host_sample_rate_, graph_generation_, prepared_, forgotten,
                    rate_lost, swapped, state_>>
    BY <1>3 DEF MatchActive
  <2>4. ContextTyped'
    BY <2>1, <2>3 DEF ContextTyped
  <2> QED BY <1>3, <2>2, <2>4 DEF MatchActive, Prepared, MatchesDesired
<1>4. CASE Load
  <2>1. FreeGraph(state_) \in Graph \ {state_.active, state_.previous}
    BY FreeGraphIsFree DEF TypeOK
  <2>2. TypeOK' /\ ContextTyped'
    BY <1>4, <2>1 DEF Load, TypeOK, ContextTyped
  <2> QED BY <1>4, <2>1, <2>2 DEF Load
<1>5. CASE Build
  <2>1. NewGraph(host_sample_rate_) \in
            [structure : Structure, resources : 0 .. MaxResources,
             rate : SampleRate, fade : 0 .. FadeBlocks]
    BY DEF NewGraph, ContextTyped
  <2>2. TypeOK' /\ ContextTyped'
    BY <1>5, <2>1 DEF Build, TypeOK, ContextTyped
  <2>3. target # state_.active /\ state_.pending = None
    BY <1>5 DEF Build
  <2> QED BY <1>5, <2>1, <2>2, <2>3 DEF Build, NewGraph, TypeOK
<1>6. CASE BuildFails
  <2>1. TypeOK' /\ ContextTyped'
    BY <1>6 DEF BuildFails, Failed, TypeOK, ContextTyped
  <2> QED BY <1>6, <2>1 DEF BuildFails, Failed
<1>7. CASE Exchange
  <2>1. structural_dirty_' \in BOOLEAN /\ rate_lost' \in BOOLEAN
    BY <1>7, Zenon DEF Exchange, StagedOver, Prepared
  <2>2. /\ state_' = [active |-> state_.active, pending |-> target, previous |-> 3]
        /\ target \in Graph /\ target # state_.active /\ target' = 3 /\ prepared_
        /\ state_.pending = 3 /\ state_.previous = expected.previous
    BY <1>7 DEF Exchange, StagedOver
  <2>3. TypeOK'
    <3>1. /\ result' = "SUCCESS" /\ c_pc' = "idle" /\ expected' = EmptyWord
          /\ UNCHANGED <<graphs_, a_pc, active_graph, previous_graph, prepared_>>
      BY <1>7, Zenon DEF Exchange, StagedOver, Prepared
    <3> QED BY <2>2, <3>1 DEF TypeOK
  <2>4. graph_generation_' \in 0 .. MaxGeneration /\ forgotten' \in BOOLEAN
    BY <1>7 DEF Exchange, StagedOver, Forgets, ContextTyped
  <2>5. UNCHANGED <<desired, host_sample_rate_, prepared_, swapped>>
    BY <1>7 DEF Exchange, StagedOver
  <2>6. ContextTyped'
    BY <2>1, <2>2, <2>4, <2>5 DEF ContextTyped
  <2>7. LocalsCurrent' /\ RebuildHolds'
    <3>1. c_pc' = "idle" /\ forgotten' = (forgotten \/ (a_pc # "idle" /\ state_.previous # 3))
          /\ UNCHANGED <<a_pc, active_graph, previous_graph, prepared_>>
      BY <1>7 DEF Exchange, StagedOver, Prepared, Forgets
    <3> QED BY <2>2, <3>1
  <2>8. Reflected'
    <3>1. /\ c_pc = "exchange" /\ c_pc' = "idle"
          /\ UNCHANGED <<graphs_, desired, host_sample_rate_, prepared_>>
      BY <1>7 DEF Exchange, StagedOver, Prepared
    <3> QED BY <2>2, <3>1
  <2> QED BY <2>3, <2>6, <2>7, <2>8
<1>8. CASE ExchangeFails
  <2>1. TypeOK' /\ ContextTyped'
    BY <1>8 DEF ExchangeFails, Failed, TypeOK, ContextTyped
  <2> QED BY <1>8, <2>1 DEF ExchangeFails, Failed
<1> QED BY <1>1, <1>2, <1>3, <1>4, <1>5, <1>6, <1>7, <1>8 DEF Control

\* Each step of Process.
LEMMA ProcessInvariant == IInv /\ Process => IInv'
<1> SUFFICES ASSUME IInv, Process PROVE IInv'
  OBVIOUS
<1> USE DEF IInv, LocalsCurrent, PreviousNotNull, RebuildHolds, Reflected, Fits,
            Upcoming, audio, history, control, context, Graph, None, Word, EmptyWord
<1>1. CASE Begin
  <2>1. /\ state_' = state_ \/ state_' = [state_ EXCEPT !.previous = 3]
        /\ SameGraphs
    BY <1>1, ResetEffect DEF Begin, SameGraphs, GraphSet, TypeOK
  <2>2. TypeOK' /\ ContextTyped'
    <3>1. forgotten' \in BOOLEAN
      BY <1>1, Zenon DEF Begin
    <3>2. TypeOK'
      BY <1>1, <2>1 DEF Begin, TypeOK, SameGraphs, GraphSet
    <3>3. UNCHANGED <<desired, host_sample_rate_, graph_generation_, structural_dirty_,
                      prepared_, rate_lost, swapped>>
      BY <1>1 DEF Begin
    <3>4. prepared_
      BY <1>1 DEF Begin
    <3> QED BY <3>1, <3>2, <3>3, <3>4 DEF ContextTyped
  <2> QED BY <1>1, <2>1, <2>2 DEF Begin, SameGraphs, TypeOK
<1>2. CASE ConsumePending
  <2>1. TypeOK' /\ ContextTyped'
    <3>1. UNCHANGED <<desired, host_sample_rate_, graph_generation_, structural_dirty_,
                      prepared_, forgotten, rate_lost>> /\ prepared_
      BY <1>2 DEF ConsumePending
    <3>2. swapped' \in [changed : BOOLEAN, rate : BOOLEAN]
      <4> DEFINE rate == graphs_[state_.active].rate # graphs_[state_.pending].rate
      <4>1. swapped' = NoSwap \/ swapped' = [changed |-> TRUE, rate |-> rate]
        BY <1>2 DEF ConsumePending
      <4>2. NoSwap \in [changed : BOOLEAN, rate : BOOLEAN]
        BY DEF NoSwap
      <4>3. \A b \in BOOLEAN : [changed |-> TRUE, rate |-> b] \in [changed : BOOLEAN, rate : BOOLEAN]
        OBVIOUS
      <4>4. rate \in BOOLEAN
        BY Zenon
      <4> HIDE DEF rate
      <4> QED BY <4>1, <4>2, <4>3, <4>4, Zenon
    <3>3. TypeOK'
      <4>1. /\ a_pc' = "swapped"
            /\ UNCHANGED <<graphs_, expected, result, c_pc, target, previous_graph>>
        BY <1>2 DEF ConsumePending
      <4>2. CASE state_.pending = None
        <5>1. active_graph' = state_.active /\ state_' = state_
          BY <1>2, <4>2 DEF ConsumePending
        <5> QED BY <3>1, <4>1, <5>1 DEF TypeOK
      <4>3. CASE state_.pending # None
        <5>1. /\ active_graph' = state_.pending
              /\ state_' = [active |-> state_.pending, pending |-> 3,
                            previous |-> state_.active]
          BY <1>2, <4>3 DEF ConsumePending
        <5> QED BY <3>1, <4>1, <4>3, <5>1 DEF TypeOK
      <4> QED BY <4>2, <4>3
    <3> QED BY <3>1, <3>2, <3>3 DEF ContextTyped
  <2> QED BY <1>2, <2>1 DEF ConsumePending, TypeOK
<1>3. CASE StartTransition
  <2>1. /\ state_' = state_ \/ state_' = [state_ EXCEPT !.previous = 3]
        /\ SameGraphs
    BY <1>3 DEF StartTransition, SameGraphs, GraphSet, TypeOK
  <2>2. TypeOK' /\ ContextTyped'
    BY <1>3, <2>1 DEF StartTransition, NoSwap, TypeOK, ContextTyped, SameGraphs, GraphSet
  <2> QED BY <1>3, <2>1, <2>2 DEF StartTransition, SameGraphs, TypeOK
<1>4. CASE LoadPrevious
  <2>1. TypeOK' /\ ContextTyped'
    BY <1>4 DEF LoadPrevious, TypeOK, ContextTyped
  <2> QED BY <1>4, <2>1 DEF LoadPrevious
<1>5. CASE Render
  <2>1. SameGraphs
    BY <1>5 DEF Render, SameGraphs, GraphSet, TypeOK
  <2>2. TypeOK' /\ ContextTyped'
    BY <1>5, <2>1 DEF Render, TypeOK, ContextTyped, SameGraphs, GraphSet
  <2> QED BY <1>5, <2>1, <2>2 DEF Render, SameGraphs, TypeOK
<1>6. CASE RenderFails
  <2>1. SameGraphs /\ state_' = [state_ EXCEPT !.previous = 3]
    BY <1>6 DEF RenderFails, SameGraphs, GraphSet, TypeOK
  <2>2. TypeOK' /\ ContextTyped'
    BY <1>6, <2>1 DEF RenderFails, TypeOK, ContextTyped, SameGraphs, GraphSet
  <2> QED BY <1>6, <2>1, <2>2 DEF RenderFails, SameGraphs, TypeOK
<1>7. CASE End
  <2>1. state_' = state_ \/ state_' = [state_ EXCEPT !.previous = 3]
    BY <1>7 DEF End
  <2>2. TypeOK' /\ ContextTyped'
    BY <1>7, <2>1 DEF End, TypeOK, ContextTyped
  <2> QED BY <1>7, <2>1, <2>2 DEF End, TypeOK
<1>8. CASE CheckPrevious
  <2>1. TypeOK' /\ ContextTyped'
    BY <1>8 DEF CheckPrevious, TypeOK, ContextTyped
  <2> QED BY <1>8, <2>1 DEF CheckPrevious
<1>9. CASE ApplyPrevious
  <2>1. CASE state_.previous = None
    BY <1>9, <2>1, RestartInvariant DEF ApplyPrevious
  <2>2. CASE state_.previous # None
    <3>1. TypeOK' /\ ContextTyped'
      BY <1>9, <2>2 DEF ApplyPrevious, TypeOK, ContextTyped
    <3> QED BY <1>9, <2>2, <3>1 DEF ApplyPrevious
  <2> QED BY <2>1, <2>2
<1> QED BY <1>1, <1>2, <1>3, <1>4, <1>5, <1>6, <1>7, <1>8, <1>9 DEF Process

\* SET_CONFIG and RESET.
LEMMA CommandInvariant ==
    ASSUME IInv, Reset \/ \E rate \in SampleRate : Prepare(rate)
    PROVE  IInv'
<1> USE DEF IInv, LocalsCurrent, PreviousNotNull, RebuildHolds, Reflected, Fits,
            Upcoming, audio, history, control, context, Graph, None, Word, EmptyWord
<1>1. CASE Reset
  <2>1. /\ state_' = [state_ EXCEPT !.previous = 3]
        /\ SameGraphs
    BY <1>1, ResetEffect DEF Reset
  <2>2. TypeOK' /\ ContextTyped'
    BY <1>1, <2>1 DEF Reset, Forgets, TypeOK, ContextTyped, SameGraphs, GraphSet
  <2> QED BY <1>1, <2>1, <2>2 DEF Reset, Forgets, SameGraphs, TypeOK
<1>2. ASSUME NEW rate \in SampleRate, Prepare(rate) PROVE IInv'
  <2> DEFINE g == IF state_.active = None THEN 0 ELSE FreeGraph(state_)
  <2>1. g \in Graph \ {state_.active, state_.previous}
    BY FreeGraphIsFree DEF TypeOK, ContextTyped
  <2>2. PICK f \in 0 .. FadeBlocks :
            graphs_' = [graphs_ EXCEPT ![g] = [NewGraph(rate) EXCEPT !.fade = f]]
    <3>1. (IF state_.active = None /\ desired.enable THEN FadeBlocks ELSE 0)
            \in 0 .. FadeBlocks
      BY DEF ContextTyped
    <3> QED BY <1>2, <3>1, Zenon DEF Prepare
  <2>3. [NewGraph(rate) EXCEPT !.fade = f] =
            [structure |-> desired.structure, resources |-> desired.resources,
             rate |-> rate, fade |-> f]
    BY DEF NewGraph
  <2>4. state_' = IF state_.active = None THEN [EmptyWord EXCEPT !.active = g]
                  ELSE [active |-> state_.active, pending |-> g, previous |-> None]
    BY <1>2 DEF Prepare
  <2>5. TypeOK' /\ ContextTyped'
    <3>1. structural_dirty_' \in BOOLEAN /\ prepared_' \in BOOLEAN /\ rate_lost' \in BOOLEAN
      BY <1>2, Zenon DEF Prepare
    <3>2. graphs_' \in GraphSet
      BY <2>1, <2>2, <2>3 DEF TypeOK, ContextTyped, GraphSet
    <3>3. TypeOK'
      BY <1>2, <2>1, <2>4, <3>2 DEF Prepare, Quiet, TypeOK, GraphSet
    <3>4. UNCHANGED <<desired, forgotten, swapped>> /\ prepared_'
      BY <1>2 DEF Prepare
    <3>5. graph_generation_' \in 0 .. MaxGeneration /\ host_sample_rate_' \in SampleRate
      BY <1>2 DEF Prepare, ContextTyped
    <3> QED BY <3>1, <3>3, <3>4, <3>5 DEF ContextTyped
  <2> QED BY <1>2, <2>1, <2>2, <2>3, <2>4, <2>5 DEF Prepare, Quiet, TypeOK
<1> QED BY <1>1, <1>2

LEMMA StutterInvariant == IInv /\ UNCHANGED vars => IInv'
BY DEF IInv, TypeOK, ContextTyped, LocalsCurrent, PreviousNotNull, RebuildHolds, Reflected,
       Fits, Upcoming, vars, context, control, audio, history

\* The inductive invariant of the graphs.
THEOREM InvariantCorrect == Spec => []IInv
<1>1. IInv /\ [Next]_vars => IInv'
  BY DispatchInvariant, ControlInvariant, ProcessInvariant, CommandInvariant,
     StutterInvariant DEF Next
<1> QED BY <1>1, InitInvariant, PTL DEF Spec

\* The packed word, the graphs and the locals are well formed, and the roles of
\* the word never coincide.
THEOREM TypeCorrect == Spec => []TypeOK
<1>1. IInv => TypeOK
  BY DEF IInv
<1> QED BY <1>1, InvariantCorrect, PTL

\* PreparePending rebuilds no graph that the word names or the running block
\* renders, except a previous graph the control thread made the word forget.
THEOREM RebuildExclusiveCorrect == Spec => []RebuildExclusive
<1>1. IInv => RebuildExclusive
  BY DEF IInv, TypeOK, LocalsCurrent, RebuildHolds, RebuildExclusive, Graph, None
<1> QED BY <1>1, InvariantCorrect, PTL

\* Process dereferences no previous graph that is gone, except one the control
\* thread made the word forget since the check.
THEOREM PreviousNotNullCorrect == Spec => []PreviousNotNull
<1>1. IInv => PreviousNotNull
  BY DEF IInv, LocalsCurrent
<1> QED BY <1>1, InvariantCorrect, PTL

\* When nothing is marked dirty the graph that sounds next is the one asked for.
THEOREM DesiredReflectedCorrect == Spec => []DesiredReflected
<1>1. IInv => DesiredReflected
  BY DEF IInv, TypeOK, Reflected, Fits, DesiredReflected, MatchesDesired, Upcoming
<1> QED BY <1>1, InvariantCorrect, PTL
=============================================================================
