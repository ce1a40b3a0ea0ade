-------------------------------- MODULE Store --------------------------------
(***************************************************************************)
(* The store: Layer A (the append-only event log), the materialized view   *)
(* and progress of each stage-two projector, and the append-side freshness *)
(* indexes.  Every action is one SQLite transaction of storage.py; who     *)
(* runs it, and in which order, is the business of module Writers.  A      *)
(* transaction that raises is rolled back and is no step at all.           *)
(*                                                                         *)
(* Hashes are modelled injectively: the event_hash of an entry is the      *)
(* sequence of everything hashed up to and including it, so two chains     *)
(* have the same tip hash exactly when they are the same chain.            *)
(***************************************************************************)
EXTENDS Reducer

CONSTANTS
  Requests,    \* the semantic requests that may ever be submitted
  MaxClock,    \* bound: wall-clock readings range over 0..MaxClock
  Threshold    \* the writer's clock-skew threshold

ASSUME ClockAssumption == MaxClock \in Nat /\ Threshold \in Nat
ASSUME RequestAssumption == \A r \in Requests : WellFormed(r)

VARIABLES
  log,         \* events and payloads: entries [req, recorded, prev]
  view,        \* per projector: its published record tables
  progress,    \* per projector: derived_progress, the log position it shows
  latest,      \* identity_event_index: subject -> position of its latest event
  subjectOf,   \* belief_event_index: belief -> subject
  clock        \* the wall clock; it may move in either direction

vars == <<log, view, progress, latest, subjectOf, clock>>

Clock == 0..MaxClock
Stamped == [req : Requests, recorded : Clock]
Entries == [req : Requests, recorded : Clock, prev : Seq(Stamped)]

-----------------------------------------------------------------------------
(***************************************************************************)
(* The log and its reference replay.                                       *)
(***************************************************************************)
\* The idempotency key covers actor, occurred_at and payload, nothing else.
Key(r) == <<r.actor, r.occurred, r.body>>

\* Two requests the store may not both hold.
Conflicts(q, r) == q.id = r.id \/ Key(q) = Key(r)

Stamp(e) == [req |-> e.req, recorded |-> e.recorded]

EventHash(e) == Append(e.prev, Stamp(e))

TipHash == IF log = <<>> THEN <<>> ELSE EventHash(log[Len(log)])

\* Rows the store already holds under the request's identity or its key.
Retained(r) == {i \in DOMAIN log : Conflicts(log[i].req, r)}

\* Replay[n] is the snapshot a replay from genesis reaches after n events.
Replay == ReplayOf(log, EmptySnapshot)

-----------------------------------------------------------------------------
Init ==
  /\ log = <<>>
  /\ view = [v \in Versions |-> EmptySnapshot]
  /\ progress = [v \in Versions |-> 0]
  /\ latest = [v \in Versions |-> NoRows]
  /\ subjectOf = [v \in Versions |-> NoRows]
  /\ clock \in Clock

\* Projector 3's freshness rows appear only once it is selected: they start as
\* a copy of projector 2's, and from then on every append maintains them.
ForwardActive == latest["3"] # NoRows

\* Mutant of Activated: projector 3's rows start out empty.
ActivatedEmpty(index) == index

Activated(index) ==
  IF ForwardActive THEN index ELSE [index EXCEPT !["3"] = index["2"]]

ActivateForward(v) ==
  IF v = "3"
  THEN /\ latest' = Activated(latest)
       /\ subjectOf' = Activated(subjectOf)
  ELSE UNCHANGED <<latest, subjectOf>>

-----------------------------------------------------------------------------
(***************************************************************************)
(* Append.                                                                 *)
(***************************************************************************)
\* Mutant of Appendable: the projector need not have caught up with the tip.
AppendableBehind(v, e) ==
  /\ Retained(e.req) = {}
  /\ log # <<>> => e.recorded >= log[Len(log)].recorded
  /\ e.prev = TipHash
  /\ Admits(v, view[v], e.req)

\* Mutant of Appendable: recorded_at is not compared with the tip's.
AppendableAnyTime(v, e) ==
  /\ Retained(e.req) = {}
  /\ progress[v] = Len(log)
  /\ e.prev = TipHash
  /\ Admits(v, view[v], e.req)

\* The locked checks of _append_stage_two_locked on a complete pair e.
Appendable(v, e) ==
  /\ Retained(e.req) = {}
  /\ log # <<>> => e.recorded >= log[Len(log)].recorded
  /\ progress[v] = Len(log)
  /\ e.prev = TipHash
  /\ Admits(v, view[v], e.req)

\* Mutant of NextPosition: positions counted from zero.
PositionFromZero == Len(log)

\* The rowid of the event inserted next.
NextPosition == Len(log) + 1

\* Insert the event and, in the same transaction, its freshness rows: for the
\* frozen projectors always, for projector 3 when selected or already active.
Insert(v, e) ==
  LET d       == Delta(view[v], e.req, e.recorded, NextPosition)
      forward == v = "3" \/ ForwardActive
      kept(w) == w # "3" \/ forward
      seen    == IF forward THEN Activated(latest) ELSE latest
      owned   == IF forward THEN Activated(subjectOf) ELSE subjectOf
  IN  /\ log' = Append(log, e)
      /\ latest' = [w \in Versions |->
           IF kept(w) THEN Upsert([s \in SubjectsTouched(d) |-> NextPosition], seen[w])
                      ELSE seen[w]]
      /\ subjectOf' = [w \in Versions |->
           IF kept(w) THEN Upsert(owned[w], [b \in DOMAIN d.beliefs |-> d.beliefs[b].subject])
                      ELSE owned[w]]
      /\ UNCHANGED <<view, progress>>

\* recorded_at is the clock reading, or the tip's when the clock is behind it.
AssignedStamp == IF log # <<>> /\ log[Len(log)].recorded > clock
                 THEN log[Len(log)].recorded ELSE clock

Assign(r) == [req |-> r, recorded |-> AssignedStamp, prev |-> TipHash]

\* The ordinary writer path.  The clock is sampled twice, before assignment and
\* before the insert, and may have moved in between (clock').
AppendSubmission(v, r) ==
  /\ log # <<>> => log[Len(log)].recorded - clock <= Threshold
  /\ clock' \in Clock
  /\ AssignedStamp - clock' <= Threshold
  /\ Appendable(v, Assign(r))
  /\ Insert(v, Assign(r))

\* The low-level path: the caller built the pair itself, against the tip after
\* the first `n` events and with any recorded_at.
SafeAppend(v, r, n, t) ==
  LET e == [req |-> r, recorded |-> t,
            prev |-> IF n = 0 THEN <<>> ELSE EventHash(log[n])]
  IN  /\ Appendable(v, e)
      /\ Insert(v, e)
      /\ UNCHANGED clock

-----------------------------------------------------------------------------
(***************************************************************************)
(* Publication and recovery.                                               *)
(***************************************************************************)
\* Mutant of PublishNext: the event is published without being reduced anew.
PublishUnchecked(v, asOf) ==
  LET pos == progress[v] + 1 IN
  /\ progress[v] < Len(log)
  /\ log[pos].recorded <= asOf
  /\ view' = [view EXCEPT ![v] = Apply(@, log[pos], pos)]
  /\ progress' = [progress EXCEPT ![v] = pos]
  /\ ActivateForward(v)
  /\ UNCHANGED <<log, clock>>

\* One transaction of materialize_pending: publish the next pending event.
PublishNext(v, asOf) ==
  LET pos == progress[v] + 1 IN
  /\ progress[v] < Len(log)
  /\ log[pos].recorded <= asOf
  /\ Admits(v, view[v], log[pos].req)
  /\ view' = [view EXCEPT ![v] = Apply(@, log[pos], pos)]
  /\ progress' = [progress EXCEPT ![v] = pos]
  /\ ActivateForward(v)
  /\ UNCHANGED <<log, clock>>

\* The last transaction of materialize_pending: nothing is pending at the cutoff.
PublishNothing(v, asOf) ==
  /\ progress[v] < Len(log) => log[progress[v] + 1].recorded > asOf
  /\ ActivateForward(v)
  /\ UNCHANGED <<log, view, progress, clock>>

\* Mutant of Deleted: the relation table is forgotten.
DeletedRecords(s) == [table \in DOMAIN s |-> IF table = "relations" THEN s[table] ELSE NoRows]

\* DELETE FROM each of the projector's tables.
Deleted(s) == [table \in DOMAIN s |-> NoRows]

\* Recovery in one transaction: delete this projector's rows and replay the log
\* from genesis up to the cutoff.  Any refused event rolls all of it back.
RebuildProjection(v, asOf) ==
  \E n \in 0..Len(log) :
    LET at == ReplayOf(log, Deleted(view[v])) IN
    /\ \A i \in 1..n : log[i].recorded <= asOf
    /\ n < Len(log) => log[n+1].recorded > asOf
    /\ \A i \in 1..n : Admits(v, at[i-1], log[i].req)
    /\ view' = [view EXCEPT ![v] = at[n]]
    /\ progress' = [progress EXCEPT ![v] = n]
    /\ ActivateForward(v)
    /\ UNCHANGED <<log, clock>>

\* The environment: the machine's clock runs, or is set back.
ClockMoves ==
  /\ clock' \in Clock
  /\ UNCHANGED <<log, view, progress, latest, subjectOf>>

-----------------------------------------------------------------------------
OrdinaryNext ==
  \/ \E v \in Versions, r \in Requests : AppendSubmission(v, r)
  \/ \E v \in Versions, asOf \in Clock : PublishNext(v, asOf)
  \/ \E v \in Versions, asOf \in Clock : PublishNothing(v, asOf)
  \/ \E v \in Versions, asOf \in Clock : RebuildProjection(v, asOf)
  \/ ClockMoves

Next ==
  \/ OrdinaryNext
  \/ \E v \in Versions, r \in Requests, n \in 0..Len(log), t \in Clock : SafeAppend(v, r, n, t)

Spec == Init /\ [][Next]_vars

OrdinarySpec == Init /\ [][OrdinaryNext]_vars
-----------------------------------------------------------------------------
(***************************************************************************)
(* What readers are told: the freshness label of read_belief_status and    *)
(* read_identity_status.                                                   *)
(***************************************************************************)
\* applied: the projector's position (0 when it has none); relevant: {} or {p},
\* the position of the latest relevant append; present: the record was found.
IsStale(applied, relevant, present) ==
  \/ present /\ applied = 0
  \/ \E p \in relevant : ~present \/ p > applied

LatestFor(v, subjects) == {latest[v][s] : s \in subjects \cap DOMAIN latest[v]}

\* The subject of a belief comes from its row, else from the append-side index.
SubjectsOfBelief(v, b) ==
  IF b \in DOMAIN view[v].beliefs THEN {view[v].beliefs[b].subject}
  ELSE {subjectOf[v][x] : x \in {b} \cap DOMAIN subjectOf[v]}

BeliefStale(v, b) ==
  IsStale(progress[v], LatestFor(v, SubjectsOfBelief(v, b)), b \in DOMAIN view[v].beliefs)

EntityStale(v, s) ==
  IsStale(progress[v], LatestFor(v, {s}), s \in DOMAIN view[v].entities)

\* An absent mention has no known subject, so the whole log is relevant to it.
MentionStale(v, m) ==
  IF m \in DOMAIN view[v].links
  THEN IsStale(progress[v], LatestFor(v, {view[v].links[m].subject}), TRUE)
  ELSE IsStale(progress[v], IF log = <<>> THEN {} ELSE {Len(log)}, progress[v] > 0)

-----------------------------------------------------------------------------
(***************************************************************************)
(* Properties.                                                             *)
(***************************************************************************)
\* Every variable keeps its shape: the log holds requests, no projector shows
\* more of the log than there is, and freshness rows point into the log.
TypeOK ==
  /\ log \in Seq(Entries)
  /\ DOMAIN view = Versions
  /\ progress \in [Versions -> 0..Len(log)]
  /\ DOMAIN latest = Versions
  /\ \A v \in Versions : \A s \in DOMAIN latest[v] : latest[v][s] \in 1..Len(log)
  /\ DOMAIN subjectOf = Versions
  /\ clock \in Clock

\* The stored log always passes verified_log: each entry names its predecessor's
\* hash, recorded_at never goes back, and no identity or idempotency key occurs
\* twice - whatever the clock does and whoever built the pair.
LogVerifies ==
  \A i \in 1..Len(log) :
    /\ log[i].prev = (IF i = 1 THEN <<>> ELSE EventHash(log[i-1]))
    /\ i > 1 => log[i].recorded >= log[i-1].recorded
    /\ \A j \in 1..(i-1) : ~Conflicts(log[j].req, log[i].req)

\* What a projector shows is exactly the replay of the prefix its progress names:
\* incremental publication, interrupted and resumed at any event, and recovery by
\* full replay cannot be told apart.
ViewIsReplay == \A v \in Versions : view[v] = Replay[progress[v]]

\* Nothing is committed that a later replay would refuse: every projector that
\* knows the event types up to i accepts event i on the replayed prefix before
\* it, whichever projector admitted it and on whatever materialization.
Replayable ==
  \A v \in Versions, i \in 1..Len(log) :
    (v = "3" \/ \A j \in 1..i : log[j].req.type \notin Transitions)
      => Admits(v, Replay[i-1], log[i].req)

IsMention(r) == r.type = "entity_mention_recorded"

\* The beliefs an event writes to.
BeliefsTouched(r) ==
  {r.body.claims[i].belief : i \in DOMAIN r.body.claims} \cup (IF r.type = "candidate_expired" THEN {r.body.belief} ELSE {})

\* Whatever an event past the applied position writes is labelled stale: its
\* beliefs and its entity, for every projector whose freshness rows are kept
\* (projector 3 once active), and its mention even before that.  So a record read
\* without the label, or absent without it, is current.
FreshMeansCurrent ==
  \A v \in Versions :
    LET unapplied == {log[i].req : i \in (progress[v]+1)..Len(log)} IN
    /\ (v = "3" => ForwardActive) =>
         /\ \A r \in unapplied : \A b \in BeliefsTouched(r) : BeliefStale(v, b)
         /\ \A r \in unapplied : IsMention(r) => EntityStale(v, r.body.subject)
    /\ \A r \in unapplied : IsMention(r) => MentionStale(v, r.body.mention)

\* Projector 3's three records of an ending always agree, so the detail reads
\* never refuse: a candidate is ended exactly when one published event targets
\* it, the relation table names that event, and the belief's copy equals the row.
EndingsAgree ==
  LET s == view["3"]
      Enders(c) == {i \in 1..progress["3"] : c \in log[i].req.body.targets}
  IN  /\ \A c \in DOMAIN s.candidates :
           /\ s.beliefs[s.candidates[c].claim.belief].candidates[c] = s.candidates[c]
           /\ IF s.candidates[c].status = "live"
              THEN s.candidates[c].superseding = {} /\ Enders(c) = {} /\ c \notin DOMAIN s.relations
              ELSE \E i \in Enders(c) :
                     /\ Enders(c) = {i}
                     /\ s.candidates[c].superseding = {log[i].req.id}
                     /\ s.candidates[c].status = StatusOf[log[i].req.type]
                     /\ s.relations[c] = [event |-> log[i].req.id, position |-> i,
                                          relation |-> RelationOf[log[i].req.type]]
      /\ DOMAIN s.relations \subseteq DOMAIN s.candidates

\* Each (subject, property) has at most one belief in every view, and a
\* candidate is held by exactly the belief its claim names.
OneBeliefPerScope ==
  \A v \in Versions : LET s == view[v] IN
    /\ \A b1, b2 \in DOMAIN s.beliefs : ScopeOf(s.beliefs[b1]) = ScopeOf(s.beliefs[b2]) => b1 = b2
    /\ \A b \in DOMAIN s.beliefs, c \in DOMAIN s.candidates :
         c \in DOMAIN s.beliefs[b].candidates <=> s.candidates[c].claim.belief = b

\* The store implements the ledger: every transaction, of whichever caller, is
\* one acceptance, one projector showing another prefix, or nothing at all.
Abstract == INSTANCE Ledger WITH
  Times  <- Clock,
  ledger <- [i \in DOMAIN log |-> Stamp(log[i])],
  shown  <- progress,
  tables <- view

ImplementsLedger == Abstract!Spec
=============================================================================
