--------------------------- MODULE DspGraphSlots ---------------------------
(***************************************************************************)
(* The two DSP graphs of a ViperContext and the packed atomic word that    *)
(* says which is active, pending or previous.  Three threads meet here:    *)
(*   - the audio thread in ViperContext::Process, which takes no lock;     *)
(*   - the daemon bridge thread, committing a snapshot under               *)
(*     control_mutex_ while Process runs (CommitDaemonSnapshot);           *)
(*   - AudioFlinger's command thread (SET_CONFIG, RESET, ENABLE, DISABLE), *)
(*     under control_mutex_ and, as AudioFlinger holds the effect's lock   *)
(*     over a command and over process(), never during Process (external). *)
(* A command is therefore one step; the bridge's commit and Process are    *)
(* split at every access to the atomic word.  RetractPending,              *)
(* ConsumePending and ReleasePrevious are compare-and-swap loops: each is  *)
(* one step, the successful exchange.                                      *)
(***************************************************************************)
EXTENDS Integers

CONSTANTS SampleRate,       \* supported sample rates
          FadeBlocks,       \* blocks a crossfade lasts
          MaxGeneration     \* bound on the graphs prepared

ASSUME SlotsAssumption == /\ SampleRate # {}
                          /\ FadeBlocks \in Nat \ {0}
                          /\ MaxGeneration \in Nat

Graph == {0, 1}
None == 3                   \* kNone
DisableReason == {"NONE", "UNKNOWN", "INVALID_CONFIG", "INVALID_FRAME_COUNT",
                  "INVALID_FORMAT"}

VARIABLES
    state_,             \* the packed word: active, pending and previous index
    graphs_,            \* per graph: generation, sample rate, blocks left to fade
    graph_generation_, config_rate, enable_, disable_reason_, has_processed_,
    b_pc, target,       \* bridge thread: progress of CommitDaemonSnapshot
    a_pc, active_graph, previous_graph, rate_changed
                        \* audio thread: progress and locals of Process

context == <<graph_generation_, config_rate, enable_, disable_reason_,
             has_processed_>>
bridge == <<b_pc, target>>
audio == <<a_pc, active_graph, previous_graph, rate_changed>>
vars == <<state_, graphs_, context, bridge, audio>>

Pack(a, p, v) == [active |-> a, pending |-> p, previous |-> v]

Init ==
    /\ state_ = Pack(None, None, None)
    /\ graphs_ \in [Graph -> {[generation |-> 0, rate |-> r, fade |-> 0] :
                                r \in SampleRate}]
    /\ graphs_[0] = graphs_[1]
    /\ graph_generation_ = 0
    /\ config_rate = graphs_[0].rate
    /\ enable_ = FALSE
    /\ disable_reason_ = "NONE"
    /\ has_processed_ = FALSE
    /\ b_pc = "idle" /\ target = None
    /\ a_pc = "idle" /\ active_graph = None /\ previous_graph = None
    /\ rate_changed = FALSE

-----------------------------------------------------------------------------
(* DspGraphSlots, on a value s of the packed word *)

RetractAll(s) == Pack(s.active, None, None)

RetractPending(s) == [s EXCEPT !.pending = None]

ConsumePendingLeavesPending(s) ==
    IF s.pending = None THEN s ELSE Pack(s.pending, s.pending, s.active)

ConsumePending(s) ==
    IF s.pending = None THEN s ELSE Pack(s.pending, None, s.active)

ReleaseActive(s) ==
    IF s.previous = None THEN s ELSE Pack(s.previous, s.pending, None)

ReleasePrevious(s) == [s EXCEPT !.previous = None]

MayPreparePendingAnytime(s) == s.active # None /\ s.pending = None

\* PreparePending's guard; config.generation is graph_generation_ + 1.
MayPreparePending(s) ==
    /\ s.active # None
    /\ s.pending = None
    /\ s.previous = None
    /\ graph_generation_ + 1 > graphs_[s.active].generation

\* DspGraph::Prepare ends with a crossfade that is not running.
Prepared(r) == [generation |-> graph_generation_ + 1, rate |-> r, fade |-> 0]

\* A preparation fails before DspGraph::Prepare, or after it, when the resources are
\* refused: the graph, which has no role, is then overwritten.
PreparationFails(g, r) ==
    graphs_' \in {graphs_, [graphs_ EXCEPT ![g] = Prepared(r)]}

StartDryToWet(g) == [graphs_ EXCEPT ![g].fade = FadeBlocks]

-----------------------------------------------------------------------------
(* AudioFlinger commands *)

CommandRuns == a_pc = "idle" /\ b_pc = "idle"

\* A configuration that is refused is kept in config_ all the same.  INVALID_CONFIG
\* stands for the reasons HandleSetConfig gives.
SetConfigInvalid ==
    /\ CommandRuns
    /\ config_rate' \in SampleRate
    /\ disable_reason_' = "INVALID_CONFIG"
    /\ UNCHANGED <<state_, graphs_, graph_generation_, enable_,
                   has_processed_, bridge, audio>>

\* HandleSetConfig retracts, then prepares slot 0 or the inactive slot.
SetConfig(r) ==
    /\ CommandRuns
    /\ graph_generation_ < MaxGeneration
    /\ config_rate' = r
    /\ LET s == RetractPending(state_) IN
       \/ /\ s.active = None                          \* PrepareInitial
          /\ s.previous = None
          /\ state_' = Pack(0, None, None)
          /\ graphs_' = [graphs_ EXCEPT ![0] = [Prepared(r) EXCEPT
                                                  !.fade = FadeBlocks]]
          /\ graph_generation_' = graph_generation_ + 1
          /\ disable_reason_' = "NONE"
       \/ /\ MayPreparePending(s)
          /\ state_' = Pack(s.active, 1 - s.active, None)
          /\ graphs_' = [graphs_ EXCEPT ![1 - s.active] = Prepared(r)]
          /\ graph_generation_' = graph_generation_ + 1
          /\ disable_reason_' = "NONE"
       \/ /\ s.active # None /\ ~MayPreparePending(s)
          /\ state_' = s
          /\ disable_reason_' = "UNKNOWN"
          /\ UNCHANGED <<graphs_, graph_generation_>>
       \/ /\ s.active = None \/ MayPreparePending(s)
          /\ PreparationFails(IF s.active = None THEN 0 ELSE 1 - s.active, r)
          /\ state_' = s
          /\ disable_reason_' = "UNKNOWN"
          /\ UNCHANGED graph_generation_
    /\ UNCHANGED <<enable_, has_processed_, bridge, audio>>

\* ResetGraphs stops every crossfade and gives the previous graph back.
ResetGraphs ==
    /\ graphs_' = [g \in Graph |->
                     IF g \in {state_.active, state_.pending, state_.previous}
                     THEN [graphs_[g] EXCEPT !.fade = 0] ELSE graphs_[g]]
    /\ state_' = ReleasePrevious(state_)

Reset ==
    /\ CommandRuns
    /\ ResetGraphs
    /\ UNCHANGED <<context, bridge, audio>>

Enable ==
    /\ CommandRuns
    /\ ResetGraphs
    /\ enable_' = TRUE
    /\ has_processed_' = FALSE
    /\ UNCHANGED <<graph_generation_, config_rate, disable_reason_,
                   bridge, audio>>

Disable ==
    /\ CommandRuns
    /\ enable_' = FALSE
    /\ UNCHANGED <<state_, graphs_, graph_generation_, config_rate,
                   disable_reason_, has_processed_, bridge, audio>>

-----------------------------------------------------------------------------
(* CommitDaemonSnapshot, on the bridge thread *)

\* Bypassed, or not configured, the snapshot is refused before anything is
\* touched: no step.
BridgeRetract ==
    /\ b_pc = "idle"
    /\ disable_reason_ = "NONE" /\ state_.active # None
    /\ graph_generation_ < MaxGeneration
    /\ state_' = RetractPending(state_)
    /\ b_pc' = "load"
    /\ UNCHANGED <<graphs_, context, target, audio>>

\* PreparePending loads the word and either gives up or starts rebuilding the
\* inactive graph, which is a long write into graphs_[target].
BridgeLoad ==
    /\ b_pc = "load"
    /\ \/ /\ MayPreparePending(state_)
          /\ target' = 1 - state_.active
          /\ b_pc' = "prepare"
       \/ /\ ~MayPreparePending(state_)
          /\ b_pc' = "idle"
          /\ UNCHANGED target
    /\ UNCHANGED <<state_, graphs_, context, audio>>

BridgePrepared ==
    /\ b_pc = "prepare"
    /\ graphs_' = [graphs_ EXCEPT ![target] = Prepared(config_rate)]
    /\ b_pc' = "exchange"
    /\ UNCHANGED <<state_, context, target, audio>>

BridgePrepareFails ==
    /\ b_pc = "prepare"
    /\ PreparationFails(target, config_rate)
    /\ b_pc' = "idle" /\ target' = None
    /\ UNCHANGED <<state_, context, audio>>

\* The word PreparePending loaded, which the exchange expects to find again.
ExpectedWord == Pack(1 - target, None, None)

BridgeExchange ==
    /\ b_pc = "exchange"
    /\ b_pc' = "idle" /\ target' = None
    /\ \/ /\ state_ = ExpectedWord
          /\ state_' = Pack(1 - target, target, None)
          /\ graph_generation_' = graph_generation_ + 1
          /\ enable_' \in BOOLEAN                \* snapshot.master_enabled
       \/ /\ state_ # ExpectedWord
          /\ UNCHANGED <<state_, graph_generation_, enable_>>
    /\ UNCHANGED <<graphs_, config_rate, disable_reason_, has_processed_,
                   audio>>

-----------------------------------------------------------------------------
(* Process *)

ProcessBegin ==
    /\ a_pc = "idle"
    /\ disable_reason_ = "NONE" /\ enable_
    /\ LET s == ConsumePending(state_)
           changed == state_.pending # None
       IN /\ state_' = s
          /\ active_graph' = s.active
          /\ rate_changed' = (changed /\ s.previous # None
                              /\ graphs_[s.previous].rate # graphs_[s.active].rate)
          /\ a_pc' = IF s.active = None THEN "idle"
                     ELSE IF changed THEN "swapped" ELSE "params"
    /\ UNCHANGED <<graphs_, context, previous_graph, bridge>>

\* A new graph starts its crossfade; across sample rates there is nothing to
\* fade from.
ProcessSwapped ==
    /\ a_pc = "swapped"
    /\ graphs_' = StartDryToWet(active_graph)
    /\ state_' = IF rate_changed THEN ReleasePrevious(state_) ELSE state_
    /\ a_pc' = "params"
    /\ UNCHANGED <<context, active_graph, previous_graph, rate_changed, bridge>>

\* The mailbox's parameters, if new, are applied to the active graph, and to the
\* previous one if Previous() is not null ...
ProcessParams ==
    /\ a_pc = "params"
    /\ a_pc' \in IF state_.previous = None THEN {"pause"} ELSE {"apply", "pause"}
    /\ UNCHANGED <<state_, graphs_, context, active_graph, previous_graph,
                   rate_changed, bridge>>

\* ... where Previous() is called again, and dereferenced.
ProcessApply ==
    /\ a_pc = "apply" /\ a_pc' = "pause"
    /\ UNCHANGED <<state_, graphs_, context, active_graph, previous_graph,
                   rate_changed, bridge>>

\* After a pause, or on the first block, the graphs restart.
ProcessPause ==
    /\ a_pc = "pause"
    /\ \/ /\ has_processed_
          /\ UNCHANGED <<graphs_, state_>>
       \/ /\ graphs_' = StartDryToWet(active_graph)
          /\ state_' = ReleasePrevious(state_)
    /\ has_processed_' = TRUE
    /\ a_pc' = "frames"
    /\ UNCHANGED <<graph_generation_, config_rate, enable_, disable_reason_,
                   active_graph, previous_graph, rate_changed,
                   bridge>>

\* The early returns: an oversized block, PCM that does not decode, a graph
\* that rejects the block.
ProcessRefused ==
    /\ \/ /\ a_pc = "frames"
          /\ disable_reason_' \in {"INVALID_FRAME_COUNT", "INVALID_FORMAT"}
       \/ a_pc = "render" /\ disable_reason_' = "INVALID_FRAME_COUNT"
    /\ a_pc' = "idle" /\ active_graph' = None /\ previous_graph' = None
    /\ UNCHANGED <<state_, graphs_, graph_generation_, config_rate, enable_,
                   has_processed_, rate_changed, bridge>>

ProcessLoadPrevious ==
    /\ a_pc = "frames"
    /\ previous_graph' = state_.previous
    /\ a_pc' = "render"
    /\ UNCHANGED <<state_, graphs_, context, active_graph, rate_changed, bridge>>

\* Both graphs render and are mixed; the fade advances by one block.
ProcessRender ==
    /\ a_pc = "render"
    /\ graphs_' = [graphs_ EXCEPT ![active_graph].fade = IF @ = 0 THEN 0 ELSE @ - 1]
    /\ a_pc' = "release"
    /\ UNCHANGED <<state_, context, active_graph, previous_graph, rate_changed,
                   bridge>>

ProcessEndNeverReleases ==
    /\ a_pc = "release"
    /\ a_pc' = "idle" /\ active_graph' = None /\ previous_graph' = None
    /\ UNCHANGED <<state_, graphs_, context, rate_changed, bridge>>

\* The last step may still find that the output does not encode.
ProcessEnd ==
    /\ a_pc = "release"
    /\ state_' = IF previous_graph # None /\ graphs_[active_graph].fade = 0
                 THEN ReleasePrevious(state_) ELSE state_
    /\ disable_reason_' \in {disable_reason_, "INVALID_FORMAT"}
    /\ a_pc' = "idle" /\ active_graph' = None /\ previous_graph' = None
    /\ UNCHANGED <<graphs_, graph_generation_, config_rate, enable_,
                   has_processed_, rate_changed, bridge>>

Process == \/ ProcessBegin \/ ProcessSwapped \/ ProcessParams
           \/ ProcessApply \/ ProcessPause \/ ProcessRefused \/ ProcessLoadPrevious \/ ProcessRender
           \/ ProcessEnd

Command == \/ SetConfigInvalid
           \/ \E r \in SampleRate : SetConfig(r)
           \/ Reset \/ Enable \/ Disable

Bridge == \/ BridgeRetract \/ BridgeLoad \/ BridgePrepared
          \/ BridgePrepareFails \/ BridgeExchange

Next == Process \/ Command \/ Bridge

Spec == Init /\ [][Next]_vars

\* AudioFlinger keeps calling process() on an enabled effect.
FairSpec == Spec /\ WF_vars(Process)

-----------------------------------------------------------------------------
\* A pending graph has an active one behind it and roles never coincide
\* (DspGraphSlots.h: RetractPending "Cannot strand the audio thread").
RolesDistinct ==
    /\ state_.pending # None => state_.active # None
    /\ state_.previous # None => state_.active # None
    /\ state_.active # None =>
           state_.active \notin {state_.pending, state_.previous}
    /\ state_.pending # None => state_.previous = None

\* The packed word names graphs that exist, in roles that do not coincide, and a fade
\* never runs past its end (DspGraphSlots.h, GraphCrossfade::Apply).
TypeOK ==
    /\ state_ \in [active : Graph \cup {None}, pending : Graph \cup {None},
                   previous : Graph \cup {None}]
    /\ graphs_ \in [Graph -> [generation : Nat, rate : SampleRate,
                              fade : 0 .. FadeBlocks]]
    /\ graph_generation_ \in Nat
    /\ config_rate \in SampleRate
    /\ enable_ \in BOOLEAN /\ has_processed_ \in BOOLEAN
    /\ disable_reason_ \in DisableReason
    /\ b_pc \in {"idle", "load", "prepare", "exchange"}
    /\ target \in Graph \cup {None}
    /\ a_pc \in {"idle", "swapped", "params", "apply", "pause", "frames", "render", "release"}
    /\ active_graph \in Graph \cup {None}
    /\ previous_graph \in Graph \cup {None}
    /\ rate_changed \in BOOLEAN
    /\ RolesDistinct

\* What the audio thread may be executing in, now or before its next look at
\* the packed word.
InUse == {active_graph, previous_graph, state_.active, state_.previous} \ {None}

\* The bridge thread never rebuilds a graph the audio thread may be running.
RebuildExclusive == b_pc \in {"prepare", "exchange"} => target \notin InUse

\* A graph the bridge rebuilt is always installed: no step of the audio thread
\* makes PreparePending's exchange fail, so a snapshot is refused only by its
\* guards, its configuration or its resources.
ExchangeSucceeds == b_pc = "exchange" => state_ = ExpectedWord

\* The previous graph Process has just found is still there when it dereferences
\* it: nobody else gives it back during a block, neither a retraction nor a commit
\* (ViperContext::Process, which calls Previous() twice).
PreviousNotNull == a_pc = "apply" => state_.previous # None

\* The sound never goes back to an older graph: whatever interleaving of
\* commits, retractions and blocks, a graph only becomes active if it was
\* prepared later than the one it replaces.
ActiveAdvances ==
    [][ state_.active # None /\ state_'.active # state_.active =>
            /\ state_'.active # None
            /\ graphs_'[state_'.active].generation
                    > graphs_[state_.active].generation ]_vars

\* While blocks keep coming the crossfade ends and the previous graph's slot
\* becomes free again, so that the next SET_CONFIG or commit finds one.
PreviousReleased ==
    state_.previous # None ~>
        state_.previous = None \/ ~enable_ \/ disable_reason_ # "NONE"
=============================================================================
