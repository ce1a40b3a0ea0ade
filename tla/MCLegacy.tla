------------------------------- MODULE MCLegacy -------------------------------
(***************************************************************************)
(* Submissions to projector 0: to one belief observations that arrive late *)
(* or at the same instant and corrections before and after it, one with an *)
(* origin that is not worked, one to a second belief, and one event of     *)
(* another generation.                                                     *)
(***************************************************************************)
EXTENDS LegacyStore, TLC

Sub(type, occurred, belief, value) ==
  [kind |-> "legacy", type |-> type, actor |-> "a", occurred |-> occurred,
   belief |-> belief, value |-> value, origin |-> "observed"]

Observed(occurred, belief, value) == Sub("observation_recorded", occurred, belief, value)
Corrected(occurred, belief, value) == Sub("correction_appended", occurred, belief, value)

LegacySubmissions ==
  {Observed(1, "b1", "v1"), Observed(0, "b1", "v0"), Observed(1, "b1", "v4"),
   Corrected(0, "b1", "v2"), Corrected(1, "b1", "v1"), Corrected(2, "b1", "v3"),
   [Observed(2, "b1", "v5") EXCEPT !.origin = "user_stated"],
   Observed(0, "b2", "v6"),
   [Sub("entity_mention_recorded", 0, "none", "none") EXCEPT !.kind = "stage two"]}

IdSymmetry == Permutations(EventIds)
=============================================================================
