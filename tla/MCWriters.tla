------------------------------- MODULE MCWriters -------------------------------
(***************************************************************************)
(* Two sets of sessions.  Contending: two submit a mention under the same  *)
(* identity, one the observation that rests on it, one recovers.  Forward: *)
(* an expiry enters the log under projector 3, and a session and a         *)
(* recovery of projectors 2 and 1 then meet an event they do not know.     *)
(***************************************************************************)
EXTENDS Writers, SampleRequests

CONSTANTS mentions, conflicts, observes, expires, follows, recovers

Submit(r, v, asOf) == [kind |-> "submit", request |-> r, version |-> v, asOf |-> asOf]
Recover(v, t) == [kind |-> "rebuild", version |-> v, asOf |-> {t}]

\* A caller's explicit cutoff may lie before the tip: it can be refused as behind.
Contending ==
  [p \in {mentions, conflicts, observes, recovers} |->
     CASE p = mentions  -> Submit(M1, "2", {})
       [] p = conflicts -> Submit(M1Altered, "2", {0})
       [] p = observes  -> Submit(O1, "2", {})
       [] p = recovers  -> Recover("2", 1)]

Forward ==
  [p \in {mentions, observes, expires, follows, recovers} |->
     CASE p = mentions -> Submit(M1, "3", {})
       [] p = observes -> Submit(O1, "3", {})
       [] p = expires  -> Submit(X1, "3", {})
       [] p = follows  -> Submit(O3, "2", {})
       [] p = recovers -> Recover("1", 1)]

ContendingSessions == DOMAIN Contending
ForwardSessions == DOMAIN Forward

WriterRequests == {M1, M1Altered, O1, O3, X1}
=============================================================================
