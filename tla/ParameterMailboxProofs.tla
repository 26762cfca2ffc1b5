----------------------- MODULE ParameterMailboxProofs -----------------------
(***************************************************************************)
(* The mailbox never lets the audio thread read a torn parameter set, for  *)
(* any number of publications, and implements LatestValue.                 *)
(***************************************************************************)
EXTENDS ParameterMailbox, TLAPS

USE MailboxAssumption

\* A slot holds one whole publication.
Whole(i) == /\ slots_[i].first = slots_[i].generation
            /\ slots_[i].second = slots_[i].generation

\* The writer is past choosing a slot: it is never the published one.
TargetUnpublished == Writing => target # published_index_

\* Once rechecked, the reader's claim is visible and protects its slot.
ClaimVisible == Reading \/ r_pc = "recheck" => reading_index_ = r_index

\* Every slot but the one being written holds one whole publication.
OthersWhole == \A i \in Slot : Whole(i) \/ (Writing /\ i = target)

\* The slot being written, once its three fields are, is whole again.
StoredWhole == w_pc = "store" => Whole(target)

\* How far the copy in progress got.
WriteProgress ==
    /\ w_pc \in {"second", "generation"} =>
            slots_[target].first = next_generation_ + 1
    /\ w_pc = "generation" => slots_[target].second = next_generation_ + 1
    /\ w_pc = "store" => slots_[target].generation = next_generation_
    /\ PublishedGeneration =
            (IF w_pc = "store" THEN next_generation_ - 1 ELSE next_generation_)

ReadProgress ==
    /\ r_pc \in {"reject", "copy", "copy2", "return"} =>
            r_generation = slots_[r_index].generation
    /\ r_pc \in {"copy2", "return"} => r_first = slots_[r_index].first
    /\ r_pc = "return" => r_second = slots_[r_index].second

\* The program order of Spec never takes the reordered path.
NotLate == r_pc # "late"

IInv == /\ TypeOK /\ TargetUnpublished /\ ClaimVisible /\ SlotExclusive
        /\ OthersWhole /\ StoredWhole /\ WriteProgress /\ ReadProgress /\ NotLate

USE DEF Slot, NotReading

\* With three slots there is always one that is neither published nor read.
LEMMA FreeSlotExists ==
    ASSUME TypeOK
    PROVE  \E i \in Slot : FreeSlot(i) /\ \A j \in Slot : FreeSlot(j) => i <= j
<1>1. published_index_ \in {0, 1, 2} /\ reading_index_ \in {-1, 0, 1, 2}
  BY DEF TypeOK
<1>2. CASE FreeSlot(0)
  BY <1>2
<1>3. CASE ~FreeSlot(0) /\ FreeSlot(1)
  BY <1>3
<1>4. CASE ~FreeSlot(0) /\ ~FreeSlot(1)
  <2>1. FreeSlot(2)
    BY <1>1, <1>4 DEF FreeSlot
  <2> QED BY <2>1, <1>4
<1> QED BY <1>2, <1>3, <1>4

\* Publish picks a slot that is free.
LEMMA PickIsFree ==
    ASSUME TypeOK, PickTarget
    PROVE  target' \in Slot /\ FreeSlot(target')
BY FreeSlotExists DEF PickTarget

\* The initial state satisfies the invariant: three whole empty slots.
LEMMA InitInvariant == Init => IInv
<1> SUFFICES ASSUME Init PROVE IInv
  OBVIOUS
<1>1. TypeOK
  <2>1. slots_ \in [Slot -> [first : Nat, second : Nat, generation : Nat]]
    BY DEF Init
  <2>2. /\ published_index_ \in Slot /\ target \in Slot /\ r_index \in Slot
        /\ reading_index_ \in Slot \cup {NotReading}
        /\ next_generation_ \in Nat /\ last_generation \in Nat
        /\ r_generation \in Nat /\ r_first \in Nat /\ r_second \in Nat
    BY DEF Init
  <2>3. /\ w_pc \in {"idle", "pick", "first", "second", "generation", "store"}
        /\ r_pc \in {"idle", "announce", "recheck", "late", "retry", "generation",
                     "reject", "copy", "copy2", "return"}
        /\ r_fresh \in BOOLEAN
    BY DEF Init
  <2> QED BY <2>1, <2>2, <2>3 DEF TypeOK
<1>2. OthersWhole /\ StoredWhole /\ WriteProgress
  BY DEF Init, OthersWhole, StoredWhole, WriteProgress, Whole, PublishedGeneration
<1>3. TargetUnpublished /\ ClaimVisible /\ SlotExclusive /\ ReadProgress /\ NotLate
  BY DEF Init, TargetUnpublished, ClaimVisible, SlotExclusive, ReadProgress, NotLate,
         Writing, Reading
<1> QED BY <1>1, <1>2, <1>3 DEF IInv

\* Each access of the writer preserves the invariant.
LEMMA PublishInvariant == IInv /\ Publish => IInv'
<1> SUFFICES ASSUME IInv, Publish PROVE IInv'
  OBVIOUS
<1> USE DEF IInv, TypeOK, TargetUnpublished, ClaimVisible, SlotExclusive,
            OthersWhole, StoredWhole, WriteProgress, ReadProgress, NotLate, Whole,
            Writing, Reading, PublishedGeneration, shared, reader
<1>1. CASE PublishBegin
  BY <1>1 DEF PublishBegin
<1>2. CASE PickTarget
  BY <1>2, PickIsFree DEF PickTarget, FreeSlot
<1>3. CASE WriteFirst
  BY <1>3 DEF WriteFirst
<1>4. CASE WriteSecond
  BY <1>4 DEF WriteSecond
<1>5. CASE WriteGeneration
  BY <1>5 DEF WriteGeneration
<1>6. CASE StorePublished
  BY <1>6 DEF StorePublished
<1> QED BY <1>1, <1>2, <1>3, <1>4, <1>5, <1>6 DEF Publish

\* Each access of the reader preserves the invariant.
LEMMA ConsumeInvariant == IInv /\ ConsumeLatest => IInv'
<1> SUFFICES ASSUME IInv, ConsumeLatest PROVE IInv'
  OBVIOUS
<1> USE DEF IInv, TypeOK, TargetUnpublished, ClaimVisible, SlotExclusive,
            OthersWhole, StoredWhole, WriteProgress, ReadProgress, NotLate, Whole,
            Writing, Reading, PublishedGeneration, shared, writer
<1>1. CASE LoadPublished
  BY <1>1 DEF LoadPublished
<1>2. CASE StoreReading
  BY <1>2 DEF StoreReading
<1>3. CASE Recheck
  <2>1. CASE published_index_ = r_index
    <3>1. r_pc = "recheck" /\ r_pc' = "generation"
          /\ UNCHANGED <<shared, writer, r_index, r_fresh, r_generation, r_first,
                         r_second, last_generation>>
      BY <1>3, <2>1 DEF Recheck
    <3>2. TypeOK'
      BY <3>1
    <3>3. ReadProgress' /\ NotLate' /\ WriteProgress' /\ StoredWhole' /\ OthersWhole'
          /\ TargetUnpublished'
      BY <3>1
    <3>4. ClaimVisible' /\ SlotExclusive'
      BY <3>1, <2>1
    <3> QED BY <3>2, <3>3, <3>4
  <2>2. CASE published_index_ # r_index
    BY <1>3, <2>2 DEF Recheck
  <2> QED BY <2>1, <2>2
<1>4. CASE Retry
  BY <1>4 DEF Retry
<1>5. CASE ReadGeneration
  BY <1>5 DEF ReadGeneration
<1>6. CASE Reject
  BY <1>6 DEF Reject
<1>7. CASE CopyFirst
  BY <1>7 DEF CopyFirst
<1>8. CASE CopySecond
  BY <1>8 DEF CopySecond
<1>9. CASE Return
  BY <1>9 DEF Return
<1> QED BY <1>1, <1>2, <1>3, <1>4, <1>5, <1>6, <1>7, <1>8, <1>9 DEF ConsumeLatest

\* The inductive invariant of the mailbox.
THEOREM InvariantCorrect == Spec => []IInv
<1>1. IInv /\ [Next]_vars => IInv'
  <2>1. IInv /\ UNCHANGED vars => IInv'
    BY DEF IInv, TypeOK, TargetUnpublished, ClaimVisible, SlotExclusive,
           OthersWhole, StoredWhole, WriteProgress, ReadProgress, NotLate, Whole,
           Writing, Reading, PublishedGeneration, vars, shared, writer, reader
  <2> QED BY <2>1, PublishInvariant, ConsumeInvariant DEF Next
<1> QED BY <1>1, InitInvariant, PTL DEF Spec

\* Indices, generations and both program counters are well formed in every state.
THEOREM TypeCorrect == Spec => []TypeOK
<1>1. IInv => TypeOK
  BY DEF IInv
<1> QED BY <1>1, InvariantCorrect, PTL

\* Every set ConsumeLatest returns is one published set, whole.
THEOREM NoTornReadCorrect == Spec => []NoTornRead
<1>1. IInv => NoTornRead
  BY DEF IInv, TypeOK, NoTornRead, ReadProgress, OthersWhole, Whole, SlotExclusive,
         Reading
<1> QED BY <1>1, InvariantCorrect, PTL

\* The writer and the reader never hold the same slot.
THEOREM SlotExclusiveCorrect == Spec => []SlotExclusive
<1>1. IInv => SlotExclusive
  BY DEF IInv
<1> QED BY <1>1, InvariantCorrect, PTL

-----------------------------------------------------------------------------
\* A step of the writer publishes the next generation or is invisible.
LEMMA PublishRefines ==
    ASSUME IInv, Publish
    PROVE  Register!Publish \/ UNCHANGED <<PublishedGeneration, TakenGeneration>>
<1> USE DEF PublishedGeneration, TakenGeneration, shared, reader
<1>1. CASE PublishBegin
  BY <1>1 DEF PublishBegin
<1>2. CASE PickTarget
  BY <1>2 DEF PickTarget
<1>3. CASE WriteFirst \/ WriteSecond \/ WriteGeneration
  <2>1. Writing /\ target # published_index_
    BY <1>3 DEF WriteFirst, WriteSecond, WriteGeneration, Writing, IInv,
                TargetUnpublished
  <2>2. r_pc = "generation" => target # r_index
    BY <2>1 DEF IInv, SlotExclusive, Reading
  <2>3. \A i \in Slot : i # target => slots_'[i] = slots_[i]
    BY <1>3 DEF WriteFirst, WriteSecond, WriteGeneration, IInv, TypeOK
  <2>4. UNCHANGED reader /\ UNCHANGED published_index_
    BY <1>3 DEF WriteFirst, WriteSecond, WriteGeneration
  <2> QED BY <2>1, <2>2, <2>3, <2>4 DEF IInv, TypeOK
<1>4. CASE StorePublished
  <2>1. /\ published_index_' = target
        /\ UNCHANGED <<slots_, reader>>
        /\ slots_[target].generation = next_generation_
        /\ slots_[published_index_].generation = next_generation_ - 1
    BY <1>4 DEF StorePublished, IInv, WriteProgress
  <2>2. PublishedGeneration' = PublishedGeneration + 1
    BY <2>1 DEF IInv, TypeOK
  <2>3. UNCHANGED TakenGeneration
    BY <2>1
  <2> QED BY <2>2, <2>3 DEF Register!Publish
<1> QED BY <1>1, <1>2, <1>3, <1>4 DEF Publish

\* A step of the reader takes the latest generation or is invisible.
LEMMA ConsumeRefines ==
    ASSUME IInv, ConsumeLatest
    PROVE  Register!Take \/ UNCHANGED <<PublishedGeneration, TakenGeneration>>
<1>1. UNCHANGED PublishedGeneration
  BY DEF ConsumeLatest, LoadPublished, StoreReading, Recheck, Retry, ReadGeneration,
         Reject, CopyFirst, CopySecond, Return, PublishedGeneration, shared
<1>2. CASE Recheck /\ published_index_ = r_index
                  /\ slots_[r_index].generation > last_generation
  <2>1. TakenGeneration = last_generation
    BY <1>2 DEF Recheck, TakenGeneration
  <2>2. TakenGeneration' = slots_[r_index].generation
    BY <1>2 DEF Recheck, TakenGeneration, shared
  <2> QED BY <1>1, <1>2, <2>1, <2>2 DEF Register!Take, PublishedGeneration
<1>3. CASE Recheck /\ ~(published_index_ = r_index
                        /\ slots_[r_index].generation > last_generation)
  BY <1>1, <1>3 DEF Recheck, TakenGeneration, shared
<1>4. CASE LoadPublished \/ StoreReading \/ Retry \/ CopyFirst \/ CopySecond
  BY <1>1, <1>4 DEF LoadPublished, StoreReading, Retry, CopyFirst, CopySecond,
                    TakenGeneration, shared
<1>5. CASE ReadGeneration
  BY <1>1, <1>5 DEF ReadGeneration, TakenGeneration, shared, IInv, TypeOK
<1>6. CASE Reject \/ Return
  BY <1>1, <1>6 DEF Reject, Return, TakenGeneration
<1> QED BY <1>2, <1>3, <1>4, <1>5, <1>6 DEF ConsumeLatest

\* The mailbox implements a register that hands out the latest publication.
THEOREM Refinement == Spec => ImplementsLatestValue
<1>1. Init => Register!Init
  BY DEF Init, Register!Init, PublishedGeneration, TakenGeneration
<1>2. IInv /\ [Next]_vars
      => [Register!Publish \/ Register!Take]_<<PublishedGeneration, TakenGeneration>>
  <2>1. UNCHANGED vars => UNCHANGED <<PublishedGeneration, TakenGeneration>>
    BY DEF vars, shared, reader, PublishedGeneration, TakenGeneration
  <2> QED BY <2>1, PublishRefines, ConsumeRefines DEF Next
<1> QED BY <1>1, <1>2, InvariantCorrect, PTL DEF Spec, ImplementsLatestValue,
                                                Register!Spec
=============================================================================
