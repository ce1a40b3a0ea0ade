----------------------------- MODULE SampleRequests -----------------------------
(***************************************************************************)
(* The requests the model-checked instances submit, named for their kind:  *)
(* Mention, Observation, Correction, Replacement, eXpiry.                  *)
(***************************************************************************)
EXTENDS Naturals, Sequences

NoBody == [mention |-> "none", subject |-> "none", claims |-> <<>>,
           targets |-> {}, belief |-> "none", basis |-> "none"]

Mention(id, m, s) ==
  [id |-> id, type |-> "entity_mention_recorded", occurred |-> 0, actor |-> "a",
   refs |-> {{s}}, report |-> {}, body |-> [NoBody EXCEPT !.mention = m, !.subject = s]]

Claim(m, s, b, c) ==
  [mention |-> m, subject |-> s, property |-> "p", belief |-> b, candidate |-> c, value |-> c]

Observation(id, occurred, claims) ==
  [id |-> id, type |-> "observation_recorded", occurred |-> occurred, actor |-> "a",
   refs |-> {}, report |-> {}, body |-> [NoBody EXCEPT !.claims = claims]]

Correction(id, occurred, claim, targets) ==
  [id |-> id, type |-> "correction_appended", occurred |-> occurred, actor |-> "a",
   refs |-> {}, report |-> {}, body |-> [NoBody EXCEPT !.claims = <<claim>>, !.targets = targets, !.basis = "stated_error"]]

Replacement(id, occurred, claim, targets) ==
  [id |-> id, type |-> "candidate_replaced", occurred |-> occurred, actor |-> "a",
   refs |-> {}, report |-> {}, body |-> [NoBody EXCEPT !.claims = <<claim>>, !.targets = targets, !.basis = "stated"]]

Expiry(id, occurred, b, targets) ==
  [id |-> id, type |-> "candidate_expired", occurred |-> occurred, actor |-> "a",
   refs |-> {}, report |-> {}, body |-> [NoBody EXCEPT !.belief = b, !.targets = targets, !.basis = "stated"]]

M1 == Mention("e1", "m1", "s1")
O1 == Observation("e2", 1, <<Claim("m1", "s1", "b1", "c1")>>)
\* Competes with O1 for the scope (s1, p).
O2 == Observation("e3", 0, <<Claim("m1", "s1", "b2", "c2")>>)
\* O1 submitted again under a new event id, and M1 with other semantic contents.
O1Reminted == [O1 EXCEPT !.id = "e9"]
M1Altered  == [M1 EXCEPT !.refs = {}]
O3 == Observation("e4", 0, <<Claim("m1", "s1", "b1", "c3")>>)
\* Backdated with respect to O1: no projector accepts it.
C2 == Correction("e14", 0, Claim("m1", "s1", "b1", "c10"), {"c1"})
\* The same made later: it may end c1.
C3 == Correction("e15", 1, Claim("m1", "s1", "b1", "c11"), {"c1"})
R1 == Replacement("e6", 1, Claim("m1", "s1", "b1", "c5"), {"c1", "c3"})
X1 == Expiry("e7", 1, "b1", {"c1"})

\* A second subject, so that a record of the first can be fresh while the log
\* has moved on, and an event that writes two beliefs at once.
M2 == Mention("e8", "m2", "s2")
O4 == Observation("e10", 1, <<Claim("m1", "s1", "b1", "c6"),
                              [Claim("m2", "s2", "b3", "c7") EXCEPT !.property = "q"]>>)

\* An imported observation: transitions refuse to end its candidate.
Imported == [Observation("e11", 0, <<Claim("m1", "s1", "b1", "c8")>>) EXCEPT !.report = {"p1"}]
R2 == Replacement("e13", 1, Claim("m1", "s1", "b1", "c9"), {"c1"})
X2 == Expiry("e12", 1, "b1", {"c8"})
=============================================================================
