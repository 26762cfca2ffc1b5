------------------------------ MODULE IemGraphs ------------------------------
(***************************************************************************)
(* The three IEM graphs of a ViperContext: IemGraphSlots' packed word and  *)
(* IemContext, which rebuilds a graph when a structural parameter or the   *)
(* resources change.  The actors are those of DspGraphSlots:               *)
(*   - the audio thread in IemContext::Process, which takes no lock;       *)
(*   - one control thread at a time, under control_mutex_, dispatching     *)
(*     parameters while Process runs (the bridge's CommitDaemonSnapshot;   *)
(*     SET_PARAM is the case in which no block runs meanwhile);            *)
(*   - AudioFlinger's SET_CONFIG and RESET, never during Process.          *)
(* ConsumePending, CancelPending and ReleasePrevious are compare-and-swap  *)
(* loops, each one step: the successful exchange.                          *)
(*                                                                         *)
(* Dynamic parameters go through IemParameterMailbox (the algorithm of     *)
(* ParameterMailbox) and are not modelled; `enable` is, as it gates the    *)
(* rebuilding.  Whether a swap is faded depends on the graphs' own enable  *)
(* flags: either may happen.                                               *)
(***************************************************************************)
EXTENDS Naturals

CONSTANTS
    Structure,          \* combinations of the structural parameters
    SampleRate,
    FadeBlocks,         \* blocks a transition lasts
    MaxGeneration,      \* bound: graphs prepared
    MaxResources        \* bound: resource resets

ASSUME IemAssumption ==
    /\ Structure # {} /\ SampleRate # {}
    /\ FadeBlocks \in Nat \ {0} /\ MaxGeneration \in Nat /\ MaxResources \in Nat

Graph == 0 .. 2
None == 3               \* kNone

VARIABLES
    state_,             \* the packed word
    graphs_,            \* what each graph was prepared for, blocks left to fade
    desired,            \* parameter_snapshot_ and resources_ of IemContext
    host_sample_rate_, graph_generation_, structural_dirty_, prepared_,
    result,             \* last_preparation_result_
    c_pc, expected, target,
                        \* control thread: TryPrepareDesiredGraph and its locals
    a_pc, active_graph, previous_graph, swapped,
                        \* audio thread: Process and its locals
    forgotten,          \* the control thread dropped the block's previous graph
    rate_lost           \* a graph for a new rate was cancelled

context == <<desired, host_sample_rate_, graph_generation_, structural_dirty_,
             prepared_, result>>
control == <<c_pc, expected, target>>
audio == <<a_pc, active_graph, previous_graph, swapped>>
history == <<forgotten, rate_lost>>
vars == <<state_, graphs_, context, control, audio, history>>

Word == [active : Graph \cup {None}, pending : Graph \cup {None},
         previous : Graph \cup {None}]
EmptyWord == [active |-> None, pending |-> None, previous |-> None]

\* The parameters' defaults; before prepared_ nothing reads the rest.
Default == CHOOSE s \in Structure : TRUE
DefaultRate == CHOOSE r \in SampleRate : TRUE
NoSwap == [changed |-> FALSE, rate |-> FALSE]

NewGraphs == [g \in Graph |-> [structure |-> Default, resources |-> 0,
                              rate |-> DefaultRate, fade |-> 0]]
NewDesired == [structure |-> Default, resources |-> 0, enable |-> FALSE]

Init ==
    /\ state_ = EmptyWord /\ graphs_ = NewGraphs /\ desired = NewDesired
    /\ host_sample_rate_ = DefaultRate
    /\ graph_generation_ = 0 /\ structural_dirty_ = FALSE /\ prepared_ = FALSE
    /\ result = "NONE"
    /\ c_pc = "idle" /\ expected = EmptyWord /\ target = None
    /\ a_pc = "idle" /\ active_graph = None /\ previous_graph = None
    /\ swapped = NoSwap /\ forgotten = FALSE /\ rate_lost = FALSE

\* audioserver died and has made a new context (external).
Restarted ==
    /\ state_' = EmptyWord /\ graphs_' = NewGraphs /\ desired' = NewDesired
    /\ host_sample_rate_' = DefaultRate
    /\ graph_generation_' = 0 /\ structural_dirty_' = FALSE /\ prepared_' = FALSE
    /\ result' = "NONE"
    /\ c_pc' = "idle" /\ expected' = EmptyWord /\ target' = None
    /\ a_pc' = "idle" /\ active_graph' = None /\ previous_graph' = None
    /\ swapped' = NoSwap /\ forgotten' = FALSE /\ rate_lost' = FALSE

-----------------------------------------------------------------------------
(* The control thread *)

MatchesDesired(g) ==
    /\ g # None
    /\ graphs_[g].structure = desired.structure
    /\ graphs_[g].resources = desired.resources

DispatchUpdatedOnce(d) ==
    /\ c_pc = "idle" /\ desired' = d /\ d.resources = desired.resources
    /\ LET change == d.structure # desired.structure
       IN  /\ structural_dirty_' = (structural_dirty_ \/ change)
           /\ c_pc' = IF change /\ d.enable /\ prepared_ THEN "match_pending" ELSE "idle"
           /\ result' = IF change /\ ~d.enable THEN "DEFERRED" ELSE result
    /\ UNCHANGED <<state_, graphs_, host_sample_rate_, graph_generation_, prepared_,
                   expected, target, audio, history>>

\* DispatchRawParam of a parameter that is stored: structural, enable, or
\* dynamic (d = desired), which retries what is still dirty.
DispatchUpdated(d) ==
    /\ c_pc = "idle" /\ desired' = d /\ d.resources = desired.resources
    /\ LET change == d.structure # desired.structure
           try == d.enable /\ structural_dirty_'
       IN  /\ structural_dirty_' = (structural_dirty_ \/ change)
           /\ c_pc' = IF try /\ prepared_ THEN "match_pending" ELSE "idle"
           /\ result' = IF change /\ ~try THEN "DEFERRED" ELSE result
    /\ UNCHANGED <<state_, graphs_, host_sample_rate_, graph_generation_, prepared_,
                   expected, target, audio, history>>

DispatchInvalid ==
    /\ c_pc = "idle" /\ result' = "INVALID_PARAMETER"
    /\ UNCHANGED <<state_, graphs_, desired, host_sample_rate_, graph_generation_,
                   structural_dirty_, prepared_, control, audio, history>>

\* kParamIemResourceReset.
DispatchResourceReset ==
    /\ c_pc = "idle" /\ desired.resources < MaxResources
    /\ desired' = [desired EXCEPT !.resources = @ + 1]
    /\ structural_dirty_' = TRUE
    /\ IF prepared_ /\ desired.enable
       THEN c_pc' = "match_pending" /\ UNCHANGED result
       ELSE result' = "DEFERRED" /\ UNCHANGED c_pc
    /\ UNCHANGED <<state_, graphs_, host_sample_rate_, graph_generation_, prepared_,
                   expected, target, audio, history>>

Prepared ==
    structural_dirty_' = FALSE /\ result' = "SUCCESS" /\ c_pc' = "idle"

MatchEither ==
    /\ c_pc = "match_pending"
    /\ IF MatchesDesired(state_.pending) \/ MatchesDesired(state_.active) THEN Prepared
       ELSE c_pc' = "cancel" /\ UNCHANGED <<structural_dirty_, result>>
    /\ UNCHANGED <<state_, graphs_, desired, host_sample_rate_, graph_generation_,
                   prepared_, expected, target, audio, history>>

MatchPending ==
    /\ c_pc = "match_pending"
    /\ IF MatchesDesired(state_.pending) THEN Prepared
       ELSE c_pc' = "cancel" /\ UNCHANGED <<structural_dirty_, result>>
    /\ UNCHANGED <<state_, graphs_, desired, host_sample_rate_, graph_generation_,
                   prepared_, expected, target, audio, history>>

CancelClearsWord ==
    /\ c_pc = "cancel" /\ c_pc' = "match_active"
    /\ state_' = [EmptyWord EXCEPT !.active = state_.active]
    /\ UNCHANGED <<graphs_, context, expected, target, audio, history>>

\* The superseded graph is dropped, if the audio thread has not taken it.
CancelPending ==
    /\ c_pc = "cancel" /\ c_pc' = "match_active"
    /\ state_' = [state_ EXCEPT !.pending = None]
    /\ rate_lost' = (rate_lost \/ (state_.pending # None
                        /\ graphs_[state_.active].rate # host_sample_rate_))
    /\ UNCHANGED <<graphs_, context, expected, target, audio, forgotten>>

MatchActive ==
    /\ c_pc = "match_active"
    /\ IF MatchesDesired(state_.active) THEN Prepared
       ELSE c_pc' = "load" /\ UNCHANGED <<structural_dirty_, result>>
    /\ UNCHANGED <<state_, graphs_, desired, host_sample_rate_, graph_generation_,
                   prepared_, expected, target, audio, history>>

LeastOtherThanActive(word) ==
    CHOOSE g \in Graph : g # word.active /\ \A h \in Graph : h < g => h = word.active

\* The first graph that is neither active nor previous.
FreeGraph(word) ==
    CHOOSE g \in Graph : /\ g \notin {word.active, word.previous}
                         /\ \A h \in Graph : h < g => h \in {word.active, word.previous}

\* PreparePending looks at the word.  (Its test of the generation never refuses:
\* generations only grow.)
Load ==
    /\ c_pc = "load" /\ graph_generation_ < MaxGeneration
    /\ IF state_.pending = None
       THEN /\ c_pc' = "build" /\ expected' = state_ /\ target' = FreeGraph(state_)
            /\ UNCHANGED result
       ELSE /\ c_pc' = "idle" /\ result' = "FAILED" /\ UNCHANGED <<expected, target>>
    /\ UNCHANGED <<state_, graphs_, desired, host_sample_rate_, graph_generation_,
                   structural_dirty_, prepared_, audio, history>>

NewGraph(rate) ==
    [structure |-> desired.structure, resources |-> desired.resources,
     rate |-> rate, fade |-> 0]

\* It rebuilds the graph, which takes long ...
Build ==
    /\ c_pc = "build" /\ c_pc' = "exchange"
    /\ graphs_' = [graphs_ EXCEPT ![target] = NewGraph(host_sample_rate_)]
    /\ UNCHANGED <<state_, context, expected, target, audio, history>>

Failed ==
    result' = "FAILED" /\ c_pc' = "idle" /\ target' = None /\ expected' = EmptyWord

BuildFails ==
    /\ c_pc = "build" /\ Failed
    /\ UNCHANGED <<state_, graphs_, desired, host_sample_rate_, graph_generation_,
                   structural_dirty_, prepared_, audio, history>>

\* The block that is running has a previous graph the word loses.
Forgets(word) ==
    forgotten' = (forgotten \/ (a_pc # "idle" /\ word.previous # None))

StagedOver(previous) ==
    /\ c_pc = "exchange" /\ state_ = expected
    /\ state_' = [active |-> expected.active, pending |-> target, previous |-> previous]
    /\ graph_generation_' = graph_generation_ + 1
    /\ target' = None /\ expected' = EmptyWord /\ rate_lost' = FALSE
    /\ Forgets(expected) /\ Prepared
    /\ UNCHANGED <<graphs_, desired, host_sample_rate_, prepared_, audio>>

ExchangeKeepsPrevious == StagedOver(expected.previous)

\* ... and stages it, dropping the previous one, unless the word has changed.
Exchange == StagedOver(None)

ExchangeFails ==
    /\ c_pc = "exchange" /\ state_ # expected /\ Failed
    /\ UNCHANGED <<state_, graphs_, desired, host_sample_rate_, graph_generation_,
                   structural_dirty_, prepared_, audio, history>>

Control ==
    \/ MatchPending \/ CancelPending \/ MatchActive \/ Load \/ Build \/ BuildFails
    \/ Exchange \/ ExchangeFails

Dispatch ==
    \/ \E s \in Structure, e \in BOOLEAN :
            DispatchUpdated([desired EXCEPT !.structure = s, !.enable = e])
    \/ DispatchInvalid \/ DispatchResourceReset

-----------------------------------------------------------------------------
(* AudioFlinger's commands *)

Quiet == c_pc = "idle" /\ a_pc = "idle"

\* IemContext::Prepare, from SET_CONFIG.
Prepare(rate) ==
    /\ Quiet /\ graph_generation_ < MaxGeneration /\ state_.pending = None
    /\ LET g == IF state_.active = None THEN 0 ELSE FreeGraph(state_)
       IN  /\ graphs_' = [graphs_ EXCEPT ![g] =
                    [NewGraph(rate) EXCEPT
                        !.fade = IF state_.active = None /\ desired.enable
                                 THEN FadeBlocks ELSE 0]]
           /\ state_' = IF state_.active = None
                        THEN [EmptyWord EXCEPT !.active = g]
                        ELSE [active |-> state_.active, pending |-> g, previous |-> None]
    /\ host_sample_rate_' = rate /\ graph_generation_' = graph_generation_ + 1
    /\ structural_dirty_' = FALSE /\ prepared_' = TRUE /\ result' = "SUCCESS"
    /\ rate_lost' = FALSE
    /\ UNCHANGED <<desired, control, audio, forgotten>>

\* IemContext::Reset.
ResetGraphs ==
    /\ state_' = [state_ EXCEPT !.previous = None]
    /\ \E wet \in BOOLEAN :
        graphs_' = [g \in Graph |->
            IF g \notin {state_.active, state_.pending, state_.previous} THEN graphs_[g]
            ELSE [graphs_[g] EXCEPT !.fade = IF g = state_.active /\ wet
                                             THEN FadeBlocks ELSE 0]]

\* From RESET, or from a snapshot's kCommandResetIemRuntime during a block.
Reset ==
    /\ c_pc = "idle" /\ state_.active # None /\ ResetGraphs /\ Forgets(state_)
    /\ UNCHANGED <<context, control, audio, rate_lost>>

-----------------------------------------------------------------------------
(* The audio thread: Process *)

\* A block begins; after a gap the graphs are reset first.
Begin ==
    /\ a_pc = "idle" /\ prepared_
    /\ a_pc' = "consume" /\ forgotten' = FALSE
    /\ ResetGraphs \/ UNCHANGED <<state_, graphs_>>
    /\ UNCHANGED <<context, control, active_graph, previous_graph, swapped, rate_lost>>

ConsumePending ==
    /\ a_pc = "consume" /\ a_pc' = "swapped"
    /\ IF state_.pending = None
       THEN /\ active_graph' = state_.active
            /\ swapped' = NoSwap
            /\ UNCHANGED state_
       ELSE /\ active_graph' = state_.pending
            /\ swapped' = [changed |-> TRUE,
                           rate |-> graphs_[state_.active].rate # graphs_[state_.pending].rate]
            /\ state_' = [active |-> state_.pending, pending |-> None,
                          previous |-> state_.active]
    /\ UNCHANGED <<graphs_, context, control, previous_graph, history>>

\* A swap is faded, or the previous graph let go at once.
StartTransition ==
    /\ a_pc = "swapped" /\ a_pc' = "params"
    /\ \E faded \in IF swapped.changed THEN BOOLEAN ELSE {FALSE} :
        /\ graphs_' = IF faded THEN [graphs_ EXCEPT ![active_graph].fade = FadeBlocks]
                      ELSE graphs_
        /\ state_' = IF swapped.changed /\ (swapped.rate \/ ~faded)
                     THEN [state_ EXCEPT !.previous = None] ELSE state_
    /\ swapped' = NoSwap
    /\ UNCHANGED <<context, control, active_graph, previous_graph, history>>

\* New parameters are applied to the active graph, and to the previous one if
\* Previous() is not null ...
CheckPrevious ==
    /\ a_pc = "params"
    /\ a_pc' \in IF state_.previous = None THEN {"previous"} ELSE {"apply", "previous"}
    /\ UNCHANGED <<state_, graphs_, context, control, active_graph, previous_graph,
                   swapped, history>>

\* ... where Previous() is called again, and dereferenced; if it is null by then,
\* audioserver dies.
ApplyPrevious ==
    /\ a_pc = "apply"
    /\ IF state_.previous # None
       THEN /\ a_pc' = "previous"
            /\ UNCHANGED <<state_, graphs_, context, control, active_graph,
                           previous_graph, swapped, history>>
       ELSE Restarted

\* Previous() is called a third time, for the rest of the block.
LoadPrevious ==
    /\ a_pc = "previous" /\ a_pc' = "render"
    /\ previous_graph' = state_.previous
    /\ UNCHANGED <<state_, graphs_, context, control, active_graph, swapped, history>>

\* Without a previous graph the fade advances only if the engine is enabled.
Render ==
    /\ a_pc = "render" /\ a_pc' = "release"
    /\ \/ graphs_' = [graphs_ EXCEPT ![active_graph].fade = IF @ = 0 THEN 0 ELSE @ - 1]
       \/ previous_graph = None /\ UNCHANGED graphs_
    /\ UNCHANGED <<state_, context, control, active_graph, previous_graph, swapped, history>>

\* Either graph rejects the block: it passes dry and the previous graph goes.
RenderFails ==
    /\ a_pc = "render" /\ a_pc' = "idle"
    /\ state_' = [state_ EXCEPT !.previous = None]
    /\ active_graph' = None /\ previous_graph' = None
    /\ \E g \in {active_graph, previous_graph} \ {None} :
        graphs_' = [graphs_ EXCEPT ![g].fade = 0]
    /\ UNCHANGED <<context, control, swapped, history>>

End ==
    /\ a_pc = "release" /\ a_pc' = "idle"
    /\ state_' = IF previous_graph # None /\ graphs_[active_graph].fade = 0
                 THEN [state_ EXCEPT !.previous = None] ELSE state_
    /\ active_graph' = None /\ previous_graph' = None
    /\ UNCHANGED <<graphs_, context, control, swapped, history>>

Process ==
    \/ Begin \/ ConsumePending \/ StartTransition
    \/ CheckPrevious \/ ApplyPrevious \/ LoadPrevious
    \/ Render \/ RenderFails \/ End

Next ==
    \/ Process \/ Control \/ Dispatch \/ Reset
    \/ \E rate \in SampleRate : Prepare(rate)

\* The bridge thread runs, and blocks keep coming.
Spec == Init /\ [][Next]_vars /\ WF_vars(Control) /\ WF_vars(Process)

-----------------------------------------------------------------------------
(* Properties *)

\* Types; the roles of the packed word never coincide, and a graph is active as
\* soon as the context is prepared (IemGraphSlots).
TypeOK ==
    /\ state_ \in Word /\ expected \in Word
    /\ graphs_ \in [Graph -> [structure : Structure, resources : 0 .. MaxResources, 
                              rate : SampleRate, fade : 0 .. FadeBlocks]]
    /\ result \in {"NONE", "SUCCESS", "DEFERRED", "FAILED", "INVALID_PARAMETER"}
    /\ c_pc \in {"idle", "match_pending", "cancel", "match_active", "load", "build", "exchange"}
    /\ a_pc \in {"idle", "consume", "swapped", "params", "apply", "previous", "render",
                 "release"}
    /\ {target, active_graph, previous_graph} \subseteq Graph \cup {None}
    /\ prepared_ <=> state_.active # None
    /\ state_.active # None => state_.active \notin {state_.pending, state_.previous}
    /\ state_.pending # None => state_.previous = None

\* The graph being rebuilt is not one the audio thread runs.  The word is all the
\* control thread knows of the running block, so the previous graph a block renders
\* is safe only until the control thread makes the word forget it: by staging a
\* graph it later cancels, or by a runtime reset
\* (IemGraphSlots::PreparePending, IemContext::Reset).
RebuildExclusive ==
    c_pc \in {"build", "exchange"} =>
        /\ target \notin {active_graph, state_.active, state_.previous, state_.pending}
        /\ target # previous_graph \/ forgotten

\* The previous graph Process has just found is still there when it dereferences
\* it, unless the control thread made the word forget it in between
\* (IemContext::Process loads Previous() twice; PreparePending's exchange and
\* IemContext::Reset write previous = none).
PreviousNotNull == a_pc = "apply" => state_.previous # None \/ forgotten

Upcoming == IF state_.pending # None THEN state_.pending ELSE state_.active

\* When nothing is marked dirty, the graph that will sound next has the structure
\* and the resources last asked for, however parameter changes, SET_CONFIG and
\* blocks interleave; and it has the host's sample rate, unless a graph for a new
\* rate was cancelled (TryPrepareDesiredGraph, whose matches_desired does not
\* compare rates).
DesiredReflected ==
    c_pc = "idle" /\ prepared_ /\ desired.enable /\ ~structural_dirty_ =>
        /\ MatchesDesired(Upcoming)
        /\ graphs_[Upcoming].rate = host_sample_rate_ \/ rate_lost

\* While blocks are processed and IEM is enabled, the structure and resources asked
\* for end up in the active graph, a change made while disabled or unprepared
\* included; or last_preparation_result_ says that a rebuild failed, until an
\* invalid parameter overwrites it.
ChangeTakesEffect ==
    desired.enable /\ prepared_ ~>
        \/ ~desired.enable \/ MatchesDesired(state_.active)
        \/ result \in {"FAILED", "INVALID_PARAMETER"}
        \/ graph_generation_ = MaxGeneration
=============================================================================
