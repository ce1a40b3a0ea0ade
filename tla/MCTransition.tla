----------------------------- MODULE MCTransition -----------------------------
(***************************************************************************)
(* A report imported into a store beside an ordinary claim, and an expiry  *)
(* that makes the store one the tool refuses.                              *)
(***************************************************************************)
EXTENDS Transition, SampleRequests

MovedRequests == {M1, O1, Imported, X1}
=============================================================================
