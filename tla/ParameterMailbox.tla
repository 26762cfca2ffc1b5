-------------------------- MODULE ParameterMailbox --------------------------
(***************************************************************************)
(* ParameterMailbox (and IemParameterMailbox, the same algorithm on        *)
(* another payload): one writer, the control thread that holds             *)
(* control_mutex_, hands parameter sets to one reader, the audio thread in *)
(* Process(), through three slots and two atomic indices.  Every access to *)
(* shared memory is a step of its own.  A parameter set is two words, the  *)
(* least that can be torn; publication number g writes g to both.          *)
(*                                                                         *)
(* Spec executes each thread in program order.  WeakSpec adds what the     *)
(* C++ memory model also allows: a release store followed by an acquire    *)
(* load of another object is not ordered, so ConsumeLatest's second load   *)
(* of published_index_ may overtake its store to reading_index_.  On       *)
(* armeabi-v7a (str; ldr; dmb) it can; arm64-v8a's stlr/ldar keep order.   *)
(***************************************************************************)
EXTENDS Integers

CONSTANT MaxGeneration      \* bound on the number of Publish calls

ASSUME MailboxAssumption == MaxGeneration \in Nat

Slot == 0 .. 2
NotReading == -1

VARIABLES
    published_index_, reading_index_, slots_, next_generation_,
    w_pc, target,                       \* Publish: next access, chosen slot
    r_pc, r_index, r_fresh, r_generation, r_first, r_second,
                                        \* ConsumeLatest: next access, locals
    last_generation                     \* applied_parameter_generation_

writer == <<w_pc, target>>
reader == <<r_pc, r_index, r_fresh, r_generation, r_first, r_second,
            last_generation>>
shared == <<published_index_, reading_index_, slots_, next_generation_>>
vars == <<shared, writer, reader>>

Init ==
    /\ published_index_ = 0
    /\ reading_index_ = NotReading
    /\ slots_ = [i \in Slot |-> [first |-> 0, second |-> 0, generation |-> 0]]
    /\ next_generation_ = 0
    /\ w_pc = "idle" /\ target = 0
    /\ r_pc = "idle" /\ r_index = 0 /\ r_fresh = FALSE
    /\ r_generation = 0 /\ r_first = 0 /\ r_second = 0
    /\ last_generation = 0

-----------------------------------------------------------------------------
(* Publish *)

\* Only Publish stores published_index_, so loading it is not a step.
PublishBegin ==
    /\ w_pc = "idle" /\ next_generation_ < MaxGeneration
    /\ w_pc' = "pick"
    /\ UNCHANGED <<shared, target, reader>>

FreeOfPublished(i) == i # published_index_

\* while (target == published || target == reading) ++target
FreeSlot(i) == i # published_index_ /\ i # reading_index_

PickTarget ==
    /\ w_pc = "pick"
    /\ target' = CHOOSE i \in Slot :
                    FreeSlot(i) /\ \A j \in Slot : FreeSlot(j) => i <= j
    /\ w_pc' = "first"
    /\ UNCHANGED <<shared, reader>>

WriteFirst ==
    /\ w_pc = "first"
    /\ slots_' = [slots_ EXCEPT ![target].first = next_generation_ + 1]
    /\ w_pc' = "second"
    /\ UNCHANGED <<published_index_, reading_index_, next_generation_, target,
                   reader>>

WriteSecond ==
    /\ w_pc = "second"
    /\ slots_' = [slots_ EXCEPT ![target].second = next_generation_ + 1]
    /\ w_pc' = "generation"
    /\ UNCHANGED <<published_index_, reading_index_, next_generation_, target,
                   reader>>

WriteGeneration ==
    /\ w_pc = "generation"
    /\ next_generation_' = next_generation_ + 1
    /\ slots_' = [slots_ EXCEPT ![target].generation = next_generation_']
    /\ w_pc' = "store"
    /\ UNCHANGED <<published_index_, reading_index_, target, reader>>

StorePublished ==
    /\ w_pc = "store"
    /\ published_index_' = target
    /\ w_pc' = "idle"
    /\ UNCHANGED <<reading_index_, slots_, next_generation_, target, reader>>

Publish == \/ PublishBegin \/ PickTarget \/ WriteFirst \/ WriteSecond
           \/ WriteGeneration \/ StorePublished

-----------------------------------------------------------------------------
(* ConsumeLatest *)

LoadPublishedFromReading ==
    /\ r_pc = "idle"
    /\ r_index' = reading_index_
    /\ r_pc' = "announce"
    /\ UNCHANGED <<shared, writer, r_fresh, r_generation, r_first, r_second,
                   last_generation>>

LoadPublished ==
    /\ r_pc = "idle"
    /\ r_index' = published_index_
    /\ r_pc' = "announce"
    /\ UNCHANGED <<shared, writer, r_fresh, r_generation, r_first, r_second,
                   last_generation>>

StoreReading ==
    /\ r_pc = "announce"
    /\ reading_index_' = r_index
    /\ r_pc' = "recheck"
    /\ UNCHANGED <<published_index_, slots_, next_generation_, writer, r_index,
                   r_fresh, r_generation, r_first, r_second, last_generation>>

RecheckSkipped ==
    /\ r_pc = "recheck"
    /\ r_pc' = "generation"
    /\ UNCHANGED <<shared, writer, r_index, r_fresh, r_generation, r_first,
                   r_second, last_generation>>

Recheck ==
    /\ r_pc = "recheck"
    /\ r_pc' = IF published_index_ = r_index THEN "generation" ELSE "retry"
    /\ UNCHANGED <<shared, writer, r_index, r_fresh, r_generation, r_first,
                   r_second, last_generation>>

Retry ==
    /\ r_pc = "retry"
    /\ reading_index_' = NotReading
    /\ r_pc' = "idle"               \* continue: the next iteration
    /\ UNCHANGED <<published_index_, slots_, next_generation_, writer, r_index,
                   r_fresh, r_generation, r_first, r_second, last_generation>>

ReadGenerationOffByOne ==
    /\ r_pc = "generation"
    /\ r_generation' = slots_[r_index].generation
    /\ r_pc' = IF r_generation' <= last_generation + 1 THEN "reject" ELSE "copy"
    /\ UNCHANGED <<shared, writer, r_index, r_fresh, r_first, r_second,
                   last_generation>>

ReadGeneration ==
    /\ r_pc = "generation"
    /\ r_generation' = slots_[r_index].generation
    /\ r_pc' = IF r_generation' <= last_generation THEN "reject" ELSE "copy"
    /\ UNCHANGED <<shared, writer, r_index, r_fresh, r_first, r_second,
                   last_generation>>

Reject ==
    /\ r_pc = "reject"
    /\ reading_index_' = NotReading
    /\ r_pc' = "idle"
    /\ UNCHANGED <<published_index_, slots_, next_generation_, writer, r_index,
                   r_fresh, r_generation, r_first, r_second, last_generation>>

CopyFirst ==
    /\ r_pc = "copy"
    /\ r_first' = slots_[r_index].first
    /\ r_pc' = "copy2"
    /\ UNCHANGED <<shared, writer, r_index, r_fresh, r_generation, r_second,
                   last_generation>>

CopySecond ==
    /\ r_pc = "copy2"
    /\ r_second' = slots_[r_index].second
    /\ r_pc' = "return"
    /\ UNCHANGED <<shared, writer, r_index, r_fresh, r_generation, r_first,
                   last_generation>>

Return ==
    /\ r_pc = "return"
    /\ reading_index_' = NotReading
    /\ last_generation' = r_generation
    /\ r_pc' = "idle"
    /\ UNCHANGED <<published_index_, slots_, next_generation_, writer, r_index,
                   r_fresh, r_generation, r_first, r_second>>

ConsumeLatest == \/ LoadPublished \/ StoreReading \/ Recheck \/ Retry
                 \/ ReadGeneration \/ Reject \/ CopyFirst \/ CopySecond
                 \/ Return

Next == Publish \/ ConsumeLatest

Spec == Init /\ [][Next]_vars

\* A Publish call that has begun runs to its end, and AudioFlinger keeps
\* calling Process(), which calls ConsumeLatest once per block.
FairSpec == Spec /\ WF_vars(ConsumeLatest)
                 /\ WF_vars(w_pc # "idle" /\ Publish)

-----------------------------------------------------------------------------
(* The reordered ConsumeLatest *)

\* The second load overtakes the store of reading_index_.
RecheckEarly ==
    /\ r_pc = "announce"
    /\ r_fresh' = (published_index_ = r_index)
    /\ r_pc' = "late"
    /\ UNCHANGED <<shared, writer, r_index, r_generation, r_first, r_second,
                   last_generation>>

StoreReadingLate ==
    /\ r_pc = "late"
    /\ reading_index_' = r_index
    /\ r_pc' = IF r_fresh THEN "generation" ELSE "retry"
    /\ UNCHANGED <<published_index_, slots_, next_generation_, writer, r_index,
                   r_fresh, r_generation, r_first, r_second, last_generation>>

WeakSpec == Init /\ [][Next \/ RecheckEarly \/ StoreReadingLate]_vars

-----------------------------------------------------------------------------
\* Indices name one of the three slots, and the reader's locals are what it
\* loaded (ParameterMailbox.h).
TypeOK ==
    /\ published_index_ \in Slot
    /\ reading_index_ \in Slot \cup {NotReading}
    /\ slots_ \in [Slot -> [first : Nat, second : Nat, generation : Nat]]
    /\ next_generation_ \in Nat
    /\ w_pc \in {"idle", "pick", "first", "second", "generation", "store"}
    /\ target \in Slot
    /\ r_pc \in {"idle", "announce", "recheck", "late", "retry", "generation",
                 "reject", "copy", "copy2", "return"}
    /\ r_index \in Slot
    /\ r_fresh \in BOOLEAN
    /\ r_generation \in Nat /\ r_first \in Nat /\ r_second \in Nat
    /\ last_generation \in Nat

Writing == w_pc \in {"first", "second", "generation", "store"}
Reading == r_pc \in {"generation", "reject", "copy", "copy2", "return"}

\* The writer never holds the slot the audio thread is copying from.
SlotExclusive == Reading /\ Writing => target # r_index

\* The parameter set ConsumeLatest returns is exactly one published set and
\* the generation it reports is that set's: nothing torn, nothing mixed
\* (ParameterMailboxTest: "reader never observes a torn POD snapshot").
NoTornRead ==
    r_pc = "return" => r_first = r_generation /\ r_second = r_generation

PublishedGeneration == slots_[published_index_].generation

\* The generation the reader is committed to returning, or returned last.
TakenGeneration ==
    IF r_pc \in {"copy", "copy2", "return"} THEN r_generation
    ELSE IF r_pc = "generation" /\ slots_[r_index].generation > last_generation
         THEN slots_[r_index].generation
    ELSE last_generation

Register == INSTANCE LatestValue WITH latest <- PublishedGeneration,
                                      taken <- TakenGeneration

\* The mailbox implements a register that hands out the latest publication,
\* never an older one again: the successful recheck is where it is taken.
ImplementsLatestValue == Register!Spec

\* Whatever is published is eventually applied by the audio thread, or
\* superseded by something newer that is: the retry loop of ConsumeLatest
\* does not starve once the control thread pauses, and the last set before
\* silence is not lost.
EventuallyTaken ==
    \A g \in 1 .. MaxGeneration :
        PublishedGeneration >= g ~> last_generation >= g
=============================================================================
