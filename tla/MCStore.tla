------------------------------- MODULE MCStore -------------------------------
(***************************************************************************)
(* A small instance of Store: submissions contending for one scope and for *)
(* the same targets, and a second subject that nobody else writes about.   *)
(***************************************************************************)
EXTENDS Store, SampleRequests

ContendingRequests == {M1, M1Altered, M2, O1, O1Reminted, O2, C2, C3, R2, X1}
=============================================================================
