--------------------------- MODULE MCLegacySessions ---------------------------
(***************************************************************************)
(* Callers of projector 0: one observation, the same submission made as a  *)
(* correction, and a correction that is backdated once either of the       *)
(* others is in the log.                                                   *)
(***************************************************************************)
EXTENDS LegacySessions

CONSTANTS observes, mistakes, backdates

Says(type, occurred, value) ==
  [kind |-> "legacy", type |-> type, actor |-> "a", occurred |-> occurred,
   belief |-> "b1", value |-> value, origin |-> "observed"]

Callers ==
  [p \in {observes, mistakes, backdates} |->
     CASE p = observes  -> Says("observation_recorded", 1, "v1")
       [] p = mistakes  -> Says("correction_appended", 1, "v1")
       [] p = backdates -> Says("correction_appended", 0, "v0")]

CallerSessions == DOMAIN Callers
Said == {Callers[p] : p \in CallerSessions} \cup
        {[Says("entity_mention_recorded", 0, "none") EXCEPT !.kind = "stage two", !.belief = "none"]}
=============================================================================
