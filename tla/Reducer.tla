------------------------------- MODULE Reducer -------------------------------
(***************************************************************************)
(* The pure stage-two reduction: what one log event does to a snapshot.    *)
(*                                                                         *)
(* A snapshot is the set of record tables a stage-two projector keeps.     *)
(* Each table is a function from the identifiers it holds to their rows.   *)
(* An event is reduced to a delta (the rows it writes, one sub-table per   *)
(* table) or it is refused; refusing changes nothing.  Projectors 1 and 2  *)
(* know mentions and observations; projector 3 adds the three transitions  *)
(* that end live claim candidates.                                         *)
(*                                                                         *)
(* A request is the part of an event its submitter owns:                   *)
(*   id, type, occurred, actor : event_id, event_type, occurred_at, actor  *)
(*   refs : {} when entity_refs is omitted, {S} when it lists the set S    *)
(*   report : {} or {p}: the report it was imported from, part of source   *)
(*   body : the payload, a record of                                       *)
(*     mention, subject         (mentions)                                 *)
(*     claims                   (observations: a sequence; a correction or *)
(*                               replacement carries exactly one)          *)
(*     targets, belief, basis   (transitions; belief only for expiry)      *)
(* A claim is [mention, subject, property, belief, candidate, value].      *)
(*                                                                         *)
(* Left out because no property here tells them apart: the wording of      *)
(* text fields, verifiability and origin labels, the JSON shape checks on  *)
(* well-formed requests, projected_as_of (excluded from every lineage      *)
(* hash), and the dependency check of transition_dependencies, which only  *)
(* refuses records (restrictions, predecessors) that no code path writes.  *)
(***************************************************************************)
EXTENDS Tables, Integers, Sequences

Versions == {"1", "2", "3"}

Transitions == {"correction_appended", "candidate_replaced", "candidate_expired"}

\* The live_status a transition gives its targets, and the name of the ending
\* relation it records.
StatusOf  == [correction_appended |-> "corrected",
              candidate_replaced  |-> "replaced",
              candidate_expired   |-> "expired"]
RelationOf == [correction_appended |-> "corrected_by",
               candidate_replaced  |-> "replaced_by",
               candidate_expired   |-> "expired_at"]

\* projected_mentions and projected_entity_links are written together, one row
\* per mention, and are kept here as the one table links.  events holds the
\* dependency rows, relations projector 3's candidate_relations.
EmptySnapshot ==
  [entities |-> NoRows, links |-> NoRows, beliefs |-> NoRows,
   candidates |-> NoRows, events |-> NoRows, relations |-> NoRows]

\* A payload has exactly the fields that _fields is given for its type: a mention carries no claims, and
\* only a transition names targets.
WellFormed(r) ==
  /\ r.body.claims \in Seq({r.body.claims[i] : i \in DOMAIN r.body.claims})
  /\ r.type = "entity_mention_recorded" => r.body.claims = <<>>
  /\ r.type \notin Transitions => r.body.targets = {}

-----------------------------------------------------------------------------
(***************************************************************************)
(* Admission.                                                              *)
(***************************************************************************)
ScopeOf(c) == <<c.subject, c.property>>

\* Beliefs that are current for a (subject, property) pair.  No handler ever
\* makes a belief historical, so every materialized belief is current.
CurrentBeliefs(s, scope) == {b \in DOMAIN s.beliefs : ScopeOf(s.beliefs[b]) = scope}

RefsMatch(r, subjects) == \A refs \in r.refs : refs = subjects

AdmitsMention(s, r) ==
  /\ r.type = "entity_mention_recorded"
  /\ r.body.mention \notin DOMAIN s.links
  /\ r.body.subject \notin DOMAIN s.entities
  /\ RefsMatch(r, {r.body.subject})

\* Mutant of AdmitsClaim: a claim may name a new belief for a scope that has one.
AdmitsClaimAnyBelief(s, c) ==
  /\ c.subject \in DOMAIN s.entities
  /\ c.mention \in DOMAIN s.links
  /\ s.links[c.mention].subject = c.subject
  /\ c.candidate \notin DOMAIN s.candidates
  /\ c.belief \in DOMAIN s.beliefs => ScopeOf(s.beliefs[c.belief]) = ScopeOf(c)

\* One claim against the snapshot before the event: its mention is recorded and
\* linked to its subject, its candidate is new, and it names the current belief
\* of its scope if there is one, otherwise a belief of that scope or a new one.
AdmitsClaim(s, c) ==
  /\ c.subject \in DOMAIN s.entities
  /\ c.mention \in DOMAIN s.links
  /\ s.links[c.mention].subject = c.subject
  /\ c.candidate \notin DOMAIN s.candidates
  /\ CurrentBeliefs(s, ScopeOf(c)) \subseteq {c.belief}
  /\ c.belief \in DOMAIN s.beliefs => ScopeOf(s.beliefs[c.belief]) = ScopeOf(c)

\* The claims of one event together: candidates distinct, and within the event
\* one belief per scope and one scope per belief.
AdmitsClaims(s, claims) ==
  /\ claims # <<>>
  /\ \A i \in DOMAIN claims : AdmitsClaim(s, claims[i])
  /\ \A i, j \in DOMAIN claims :
       /\ claims[i].candidate = claims[j].candidate => i = j
       /\ claims[i].belief = claims[j].belief <=> ScopeOf(claims[i]) = ScopeOf(claims[j])

AdmitsObservation(s, r) ==
  /\ r.type = "observation_recorded"
  /\ AdmitsClaims(s, r.body.claims)
  /\ RefsMatch(r, {r.body.claims[i].subject : i \in DOMAIN r.body.claims})

\* The belief a transition is about: its claim's, or the one an expiry names.
TransitionBelief(r) ==
  IF r.type = "candidate_expired" THEN r.body.belief ELSE r.body.claims[1].belief

\* Mutant of AdmitsTarget: the target may already have ended.
AdmitsTargetEnded(s, r, t) ==
  /\ t \in DOMAIN s.candidates
  /\ s.candidates[t].claim.belief = TransitionBelief(r)

\* Mutant of AdmitsTarget: the target may have been recorded from a report.
AdmitsTargetReported(s, r, t) ==
  /\ t \in DOMAIN s.candidates
  /\ s.candidates[t].status = "live"
  /\ s.candidates[t].claim.belief = TransitionBelief(r)
  /\ r.type = "correction_appended" =>
       r.occurred >= s.events[s.candidates[t].event].occurred

\* A target must be live and of that belief, and not recorded from a report.  A
\* correction may not have occurred before the event that recorded the target did.
AdmitsTarget(s, r, t) ==
  /\ t \in DOMAIN s.candidates
  /\ s.candidates[t].status = "live"
  /\ s.candidates[t].claim.belief = TransitionBelief(r)
  /\ s.events[s.candidates[t].event].report = {}
  /\ r.type = "correction_appended" =>
       r.occurred >= s.events[s.candidates[t].event].occurred

AdmitsTransition(s, r) ==
  /\ r.type \in Transitions
  /\ r.body.basis = (IF r.type = "correction_appended" THEN "stated_error" ELSE "stated")
  /\ r.body.targets # {}
  /\ TransitionBelief(r) \in DOMAIN s.beliefs
  /\ \A t \in r.body.targets : AdmitsTarget(s, r, t)
  /\ IF r.type = "candidate_expired"
     THEN r.body.claims = <<>>
     ELSE Len(r.body.claims) = 1 /\ AdmitsClaims(s, r.body.claims)
  /\ RefsMatch(r, {s.beliefs[TransitionBelief(r)].subject})

\* What projector v accepts on snapshot s.  A reused event identity refuses.
Admits(v, s, r) ==
  /\ r.id \notin DOMAIN s.events
  /\ \/ AdmitsMention(s, r)
     \/ AdmitsObservation(s, r)
     \/ v = "3" /\ AdmitsTransition(s, r)

-----------------------------------------------------------------------------
(***************************************************************************)
(* The delta of an admitted event: its request r, recorded_at and the log  *)
(* position pos it is reduced at.                                          *)
(***************************************************************************)
NoDelta(r) == [EmptySnapshot EXCEPT !.events = Row(r.id, r)]

MentionDelta(r) ==
  LET b == r.body IN
  [NoDelta(r) EXCEPT
     !.entities = Row(b.subject, [mention |-> b.mention, event |-> r.id]),
     !.links    = Row(b.mention, [subject |-> b.subject, event |-> r.id])]

\* Only projector 3 records a live_status; under 1 and 2 it is always "live".
NewCandidate(c, r, recorded) ==
  [claim |-> c, event |-> r.id, recorded |-> recorded,
   status |-> "live", superseding |-> {}]

NewBelief(c) ==
  [subject |-> c.subject, property |-> c.property, candidates |-> NoRows,
   identity |-> {}, dependencies |-> {}, lineage |-> <<>>]

\* The rows of the candidates that the claims selected by `which` create.
CandidateRows(claims, which, r, recorded) ==
  [id \in {claims[i].candidate : i \in which} |->
     NewCandidate(claims[CHOOSE i \in which : claims[i].candidate = id], r, recorded)]

\* Belief b after the event: its own copy of the new candidates, the identity
\* records and events they rest on, and one more version in its lineage (the
\* view_version_hash chains the producing event to the previous version).
BeliefWithClaims(s, r, recorded, b) ==
  LET claims == r.body.claims
      mine   == {i \in DOMAIN claims : claims[i].belief = b}
      prior  == IF b \in DOMAIN s.beliefs THEN s.beliefs[b]
                ELSE NewBelief(claims[CHOOSE i \in mine : TRUE])
  IN  [prior EXCEPT
         !.candidates   = Upsert(CandidateRows(claims, mine, r, recorded), @),
         !.identity     = @ \cup {claims[i].mention : i \in mine},
         !.dependencies = @ \cup {r.id} \cup {s.links[claims[i].mention].event : i \in mine},
         !.lineage      = Append(@, r.id)]

ClaimsDelta(s, r, recorded) ==
  LET claims == r.body.claims IN
  [NoDelta(r) EXCEPT
     !.candidates = CandidateRows(claims, DOMAIN claims, r, recorded),
     !.beliefs    = [b \in {claims[i].belief : i \in DOMAIN claims} |-> BeliefWithClaims(s, r, recorded, b)]]

\* A transition adds its claim (if it carries one) and ends its targets, in the
\* candidate table, in the belief's own copy, and as one relation per target.
TransitionDelta(s, r, recorded, pos) ==
  LET b       == TransitionBelief(r)
      claimed == IF r.body.claims = <<>>
                 THEN [NoDelta(r) EXCEPT
                         !.beliefs = Row(b, [s.beliefs[b] EXCEPT
                                               !.dependencies = @ \cup {r.id},
                                               !.lineage      = Append(@, r.id)])]
                 ELSE ClaimsDelta(s, r, recorded)
      ended   == [t \in r.body.targets |->
                    [s.candidates[t] EXCEPT !.status = StatusOf[r.type],
                                            !.superseding = {r.id}]]
  IN  [claimed EXCEPT
         !.candidates = Upsert(ended, @),
         !.beliefs    = [claimed.beliefs EXCEPT ![b].candidates = Upsert(ended, @)],
         !.relations  = [t \in r.body.targets |->
                           [event |-> r.id, relation |-> RelationOf[r.type], position |-> pos]]]

Delta(s, r, recorded, pos) ==
  CASE r.type = "entity_mention_recorded" -> MentionDelta(r)
    [] r.type = "observation_recorded"    -> ClaimsDelta(s, r, recorded)
    [] OTHER                              -> TransitionDelta(s, r, recorded, pos)

\* Publication upserts every row of the delta; rows it does not name stay.
Publish(s, d) == [table \in DOMAIN s |-> Upsert(d[table], s[table])]

\* A log entry e applied to the tables s.
Apply(s, e, pos) == Publish(s, Delta(s, e.req, e.recorded, pos))

\* Replaying the entries of l on the tables start: ReplayOf(l, start)[n] is the
\* snapshot after the first n of them.
ReplayOf(l, start) ==
  LET at[n \in 0..Len(l)] == IF n = 0 THEN start ELSE Apply(at[n-1], l[n], n)
  IN  at

\* The tables the entries of l determine.
TablesOf(l) == ReplayOf(l, EmptySnapshot)[Len(l)]

\* The subjects and beliefs an accepted event is relevant to: what append-side
\* freshness is kept for.
SubjectsTouched(d) == DOMAIN d.entities \cup {d.beliefs[b].subject : b \in DOMAIN d.beliefs}
=============================================================================
