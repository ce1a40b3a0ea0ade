------------------------------- MODULE AuditRows -------------------------------
(***************************************************************************)
(* What scripts/verify_store.py computes from the raw rows of a store: it  *)
(* checks the log by itself, reassembles one projector's records claim by  *)
(* claim without the shipped reducer, and compares.  All of it is a pure   *)
(* function of the rows.                                                   *)
(*                                                                         *)
(* The rows d are a record of                                              *)
(*   events    : a sequence of rows [position, req, recorded, prev, hash,  *)
(*               key]; position is the rowid, req holds the payload the    *)
(*               envelope commits to, hash does not include key            *)
(*   payloads  : a sequence of rows [event, body]                          *)
(*   progress  : per projector its checkpoint {[position, event]}, or {}   *)
(*   view      : per projector its record tables                           *)
(*   latest, subjectOf : per projector its freshness rows, by event id     *)
(*                                                                         *)
(* An audit has failures (the names of the checks that failed), unchecked  *)
(* (what it says it could not decide) and pending (the log positions       *)
(* committed but unpublished).  Left out of unchecked is what it says of   *)
(* every store: that projected_as_of is not compared, and of projector 1   *)
(* that it has neither nodes nor retained lineage.                         *)
(* The JSON shape checks and projector 0 are left out; the node rows of    *)
(* projectors 2 and 3 are module TreeAudit's.                              *)
(***************************************************************************)
EXTENDS Reducer, SequencesExt

\* Names of the failing ones of a set of named checks.
Failing(checks) == {c.name : c \in {k \in checks : ~k.holds}}
Check(name, holds) == [name |-> name, holds |-> holds]

-----------------------------------------------------------------------------
(***************************************************************************)
(* The log.                                                                *)
(***************************************************************************)
PayloadRows(d, id) == {i \in DOMAIN d.payloads : d.payloads[i].event = id}

\* {} when the payload of an event cannot be read, otherwise its contents.
Payload(d, id) ==
  IF Cardinality(PayloadRows(d, id)) # 1 THEN {}
  ELSE {d.payloads[i].body : i \in PayloadRows(d, id)}

\* Every row against its predecessor, its commitments and its one payload row.
LogFailures(d) ==
  LET row == d.events IN
  (UNION {Failing({
    Check("event_schema", \A j \in 1..(i-1) : row[j].req.id # row[i].req.id /\ row[j].key # row[i].key),
    Check("envelope_hash", row[i].hash = Append(row[i].prev, [req |-> row[i].req, recorded |-> row[i].recorded])),
    Check("chain", row[i].prev = (IF i = 1 THEN <<>> ELSE row[i-1].hash)),
    Check("recorded_at", i > 1 => row[i].recorded >= row[i-1].recorded),
    Check("payload_hash", Payload(d, row[i].req.id) = {row[i].req.body}),
    Check("idempotency_key", \A body \in Payload(d, row[i].req.id) :
                                row[i].key = <<row[i].req.actor, row[i].req.occurred, body>>)})
    : i \in DOMAIN row})
  \cup Failing({Check("payload_hash", {p.event : p \in ToSet(d.payloads)} \subseteq {e.req.id : e \in ToSet(row)})})

\* The entries that are read on: the envelope with the contents found, or {}.
ReadLog(d) ==
  [i \in DOMAIN d.events |->
     [position |-> d.events[i].position, recorded |-> d.events[i].recorded, req |-> d.events[i].req,
      contents |-> {[d.events[i].req EXCEPT !.body = b] : b \in Payload(d, d.events[i].req.id)}]]

-----------------------------------------------------------------------------
(***************************************************************************)
(* Independent reconstruction: records assembled from recorded claims.     *)
(***************************************************************************)
\* Mentions are constitutive: each brings a new mention and a new entity.
ReplaysMention(s, r) ==
  /\ r.body.mention \notin DOMAIN s.links
  /\ r.body.subject \notin DOMAIN s.entities

WithMention(s, r) ==
  [s EXCEPT !.entities = Upsert(Row(r.body.subject, [mention |-> r.body.mention, event |-> r.id]), @),
            !.links    = Upsert(Row(r.body.mention, [subject |-> r.body.subject, event |-> r.id]), @),
            !.events   = Upsert(Row(r.id, r), @)]

\* A claim against the records so far, those of earlier claims of the same
\* event included; the belief of a scope is looked up by subject and property.
ReplaysClaim(s, c) ==
  /\ c.candidate \notin DOMAIN s.candidates
  /\ c.mention \in DOMAIN s.links
  /\ s.links[c.mention].subject = c.subject
  /\ c.subject \in DOMAIN s.entities
  /\ \A b \in DOMAIN s.beliefs :
       b = c.belief <=> <<s.beliefs[b].subject, s.beliefs[b].property>> = <<c.subject, c.property>>

\* The claim's candidate, and its belief with what the candidate rests on: the
\* identity it was observed under, this event, and the one that linked the mention.
WithClaim(s, r, recorded, c) ==
  LET candidate == [claim |-> c, event |-> r.id, recorded |-> recorded, status |-> "live", superseding |-> {}]
      before == IF c.belief \in DOMAIN s.beliefs THEN s.beliefs[c.belief]
                ELSE [subject |-> c.subject, property |-> c.property, candidates |-> NoRows,
                      identity |-> {}, dependencies |-> {}, lineage |-> <<>>]
  IN  [s EXCEPT
         !.candidates = Upsert(Row(c.candidate, candidate), @),
         !.beliefs = Upsert(Row(c.belief,
           [before EXCEPT !.candidates = Upsert(Row(c.candidate, candidate), @),
                          !.identity = @ \cup {c.mention},
                          !.dependencies = @ \cup {r.id, s.links[c.mention].event}]), @)]

\* The records after one more claim; {} when it, or one before it, was refused.
RecordsWithClaim(before, r, recorded, c) ==
  {WithClaim(t, r, recorded, c) : t \in {t \in before : ReplaysClaim(t, c)}}

\* Claim by claim: RecordsByClaim(s, r, recorded)[n] is {} when one of the first n claims
\* was refused, otherwise the one resulting set of records.
RecordsByClaim(s, r, recorded) ==
  LET after[n \in 0..Len(r.body.claims)] ==
        IF n = 0 THEN {s} ELSE RecordsWithClaim(after[n-1], r, recorded, r.body.claims[n])
  IN  after

ReplayClaims(s, r, recorded) == RecordsByClaim(s, r, recorded)[Len(r.body.claims)]

\* One more version of the beliefs the event touched.
NextVersion(row, r) == [row EXCEPT !.lineage = Append(@, r.id)]

NextVersions(s, touched, r) ==
  [s EXCEPT !.beliefs = [b \in DOMAIN @ |-> IF b \in touched THEN NextVersion(@[b], r) ELSE @[b]]]

\* The validation of a transition: its claim or none, its basis, one existing belief, its subject as the
\* reference, live unreported targets of it, and no correction backdated.
ReplaysTransition(s, r) ==
  LET b == TransitionBelief(r) IN
  /\ Len(r.body.claims) = (IF r.type = "candidate_expired" THEN 0 ELSE 1)
  /\ r.body.basis = [correction_appended |-> "stated_error", candidate_replaced |-> "stated",
                     candidate_expired |-> "stated"][r.type]
  /\ r.body.targets # {}
  /\ b \in DOMAIN s.beliefs
  /\ \A c \in ToSet(r.body.claims) : <<c.subject, c.property>> = <<s.beliefs[b].subject, s.beliefs[b].property>>
  /\ r.refs \subseteq {{s.beliefs[b].subject}}
  /\ \A t \in r.body.targets :
       /\ t \in DOMAIN s.candidates
       /\ s.candidates[t].status = "live"
       /\ s.candidates[t].claim.belief = b
       /\ s.events[s.candidates[t].event].report = {}
       /\ r.type = "correction_appended" => r.occurred >= s.events[s.candidates[t].event].occurred

\* The belief's own collection, and its dependence on the event.
WithEnded(row, ended, r) == [row EXCEPT !.candidates = Upsert(ended, @), !.dependencies = @ \cup {r.id}]

\* The targets end in the candidate records and in the belief's own collection,
\* one relation each.
WithEndings(s, r, position) ==
  LET ended == [t \in r.body.targets |-> [s.candidates[t] EXCEPT !.status = StatusOf[r.type], !.superseding = {r.id}]]
  IN  [s EXCEPT !.candidates = Upsert(ended, @),
                !.beliefs[TransitionBelief(r)] = WithEnded(@, ended, r),
                !.relations = Upsert([t \in r.body.targets |-> [event |-> r.id, relation |-> RelationOf[r.type],
                                                                position |-> position]], @)]

\* The records that the claims of an entry are replayed on, none when one of its own checks fails.
Starts(s, r, position) ==
  LET dependent == [s EXCEPT !.events = Upsert(Row(r.id, r), @)]
  IN  CASE r.type = "entity_mention_recorded" -> {t \in {WithMention(s, r)} : ReplaysMention(s, r)}
        [] r.type = "observation_recorded"    -> {t \in {dependent} : r.body.claims # <<>>}
        [] OTHER -> IF ReplaysTransition(s, r) THEN {WithEndings(dependent, r, position)} ELSE {}

\* The beliefs that get one more version.
Versioned(r) ==
  {c.belief : c \in ToSet(r.body.claims)} \cup {TransitionBelief(r) : type \in {r.type} \cap Transitions}

\* The records after one entry, or {} when the entry is invalid.
ReplayEntry(s, r, recorded, position) ==
  IF r.id \in DOMAIN s.events THEN {}
  ELSE {NextVersions(t, Versioned(r), r) :
          t \in UNION {ReplayClaims(start, r, recorded) : start \in Starts(s, r, position)}}

\* What is known before the first entry.
NothingReplayed ==
  [complete |-> TRUE, records |-> EmptySnapshot, published |-> EmptySnapshot, failures |-> {}, unchecked |-> {}]

\* One more entry: it ends the replay when it is invalid (a failure), or when this
\* projector has no semantics for it (unchecked).
ReplayedWith(v, position, acc, e) ==
  IF ~acc.complete THEN acc
  ELSE IF v # "3" /\ e.req.type \in Transitions
  THEN [acc EXCEPT !.complete = FALSE, !.unchecked = {"coverage"}]
  ELSE LET after == UNION {ReplayEntry(acc.records, r, e.recorded, e.position) : r \in e.contents}
       IN  IF after = {}
           THEN [acc EXCEPT !.complete = FALSE, !.failures = {"coverage"}]
           ELSE LET s == CHOOSE t \in after : TRUE
                IN  [acc EXCEPT !.records = s, !.published = IF e.position = position THEN s ELSE @]

\* Entry by entry: the records so far and those at the published position.
Replayed(v, entries, position) ==
  LET after[n \in 0..Len(entries)] ==
        IF n = 0 THEN NothingReplayed ELSE ReplayedWith(v, position, after[n-1], entries[n])
  IN  after

Reconstruction(v, entries, position) == Replayed(v, entries, position)[Len(entries)]

-----------------------------------------------------------------------------
(***************************************************************************)
(* Append-side freshness, rebuilt from the whole log.                      *)
(***************************************************************************)
\* The subjects an entry is the latest event of, given the beliefs known so far.
Concerned(owners, r) ==
  CASE r.type = "entity_mention_recorded" -> {r.body.subject}
    [] r.type = "observation_recorded"    -> {c.subject : c \in ToSet(r.body.claims)}
    [] OTHER                              -> {owners[TransitionBelief(r)]}

IndexedWith(acc, e) ==
  LET r == CHOOSE r \in e.contents : TRUE
      claimed == IF r.type = "observation_recorded" THEN ToSet(r.body.claims) ELSE {}
  IN  [latest |-> Upsert([s \in Concerned(acc.owners, r) |-> r.id], acc.latest),
       owners |-> Upsert([b \in {c.belief : c \in claimed} |->
                            (CHOOSE c \in claimed : c.belief = b).subject], acc.owners)]

\* Entry by entry: the latest event of each subject, and the subject of each belief.
IndexesAt(entries) ==
  LET after[n \in 0..Len(entries)] ==
        IF n = 0 THEN [latest |-> NoRows, owners |-> NoRows] ELSE IndexedWith(after[n-1], entries[n])
  IN  after

Indexes(entries) == IndexesAt(entries)[Len(entries)]

\* The index can be rebuilt: every payload is there, transitions only occur under
\* projector 3, and each has its claim or
\* belief, one that some earlier entry names.
Indexable(v, entries) ==
  \A i \in DOMAIN entries :
    /\ entries[i].contents # {}
    /\ \A r \in entries[i].contents : r.type \in Transitions =>
         /\ v = "3"
         /\ Len(r.body.claims) = (IF r.type = "candidate_expired" THEN 0 ELSE 1)
         /\ \E j \in 1..(i-1) : \E q \in entries[j].contents :
              /\ q.type = "observation_recorded"
              /\ TransitionBelief(r) \in {c.belief : c \in ToSet(q.body.claims)}

\* The projectors whose freshness rows must be there.
Indexed(v, d) == {"1", "2"} \cup (IF v = "3" \/ d.latest["3"] # NoRows THEN {"3"} ELSE {})

FreshnessHolds(v, d, entries) ==
  LET rebuilt == Indexes(entries)
      expected(index) == [w \in Versions |-> IF w \in Indexed(v, d) THEN index ELSE NoRows]
  IN  d.latest = expected(rebuilt.latest) /\ d.subjectOf = expected(rebuilt.owners)

-----------------------------------------------------------------------------
(***************************************************************************)
(* The audit.                                                              *)
(***************************************************************************)
\* The record kinds compared, candidate relations apart.
Kinds == {"entities", "links", "beliefs", "candidates", "events"}

\* The event references of the projected records.
References(s) ==
  DOMAIN s.events
    \cup {s.entities[x].event : x \in DOMAIN s.entities}
    \cup {s.links[x].event : x \in DOMAIN s.links}
    \cup (UNION {{s.candidates[x].event} \cup s.candidates[x].superseding : x \in DOMAIN s.candidates})
    \cup (UNION {s.beliefs[x].dependencies : x \in DOMAIN s.beliefs})

\* Mutant of RelationsAgree: the ending rows are not compared.
RelationsUncompared(v, expected, s) ==
  v = "3" => \A c \in DOMAIN s.candidates :
    s.candidates[c].superseding =
      (IF c \in DOMAIN expected.relations THEN {expected.relations[c].event} ELSE {})

\* Projector 3's relation rows are the endings the log records, and so are the
\* statuses of the candidates.
RelationsAgree(v, expected, s) ==
  v = "3" =>
    /\ s.relations = expected.relations
    /\ \A c \in DOMAIN s.candidates :
         IF c \notin DOMAIN expected.relations
         THEN s.candidates[c].status = "live" /\ s.candidates[c].superseding = {}
         ELSE /\ s.candidates[c].status
                   = StatusOf[CHOOSE t \in Transitions : RelationOf[t] = expected.relations[c].relation]
              /\ s.candidates[c].superseding = {expected.relations[c].event}

\* verify_connection for projector v on the disk d.
Audit(v, d) ==
  LET entries  == ReadLog(d)
      s        == d.view[v]
      ids      == {e.req.id : e \in ToSet(entries)}
      claimed  == d.progress[v]
      prefix   == IF claimed = {} THEN \A t \in Kinds : s[t] = NoRows
                  ELSE \A p \in claimed : \E e \in ToSet(entries) : e.position = p.position /\ e.req.id = p.event
      position == IF claimed = {} \/ ~prefix THEN 0 ELSE (CHOOSE p \in claimed : TRUE).position
      missing  == {e \in ToSet(entries) : e.req.id \notin DOMAIN s.events}
      replayed == Reconstruction(v, entries, position)
      indexed  == Indexable(v, entries)
      compared == replayed.complete /\ prefix
  IN  [failures |-> LogFailures(d) \cup replayed.failures
         \cup Failing({
           Check("freshness", indexed => FreshnessHolds(v, d, entries)),
           Check("coverage", /\ prefix
                             /\ References(s) \subseteq ids
                             /\ \A e \in missing : e.position > position
                             /\ compared => \A t \in Kinds : s[t] = replayed.published[t]),
           Check("relations", compared => RelationsAgree(v, replayed.published, s))}),
       unchecked |-> replayed.unchecked
         \cup (IF indexed THEN {} ELSE {"freshness"})
         \cup (IF prefix THEN {} ELSE {"coverage"}),
       pending |-> IF prefix THEN {e.position : e \in {x \in missing : x.position > position}} ELSE {}]
=============================================================================
