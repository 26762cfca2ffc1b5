----------------------------- MODULE LatestValue -----------------------------
(***************************************************************************)
(* What a parameter mailbox promises: the reader takes, in one step, the   *)
(* latest generation published so far, so intermediate ones may be         *)
(* skipped but none is repeated, invented or taken out of order.           *)
(***************************************************************************)
EXTENDS Naturals

VARIABLES latest, taken

Init == latest = 0 /\ taken = 0

Publish == latest' = latest + 1 /\ UNCHANGED taken

Take == latest > taken /\ taken' = latest /\ UNCHANGED latest

Spec == Init /\ [][Publish \/ Take]_<<latest, taken>>
=============================================================================
