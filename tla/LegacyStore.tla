----------------------------- MODULE LegacyStore -----------------------------
(***************************************************************************)
(* Projector 0: the append path, value fold, publication and freshness of  *)
(* the legacy generation of beliefs, one row per belief with one value.    *)
(*                                                                         *)
(* A submission s is [kind, type, actor, occurred, belief, value, origin]; *)
(* kind is "legacy", or "stage two" for the events of projectors 1 to 3,   *)
(* which share the log, and of which nothing is modelled here but that     *)
(* their projectors take no legacy event and projector 0 takes none of     *)
(* theirs.  Event hashes chain over the log, so the position of an entry   *)
(* stands for its hash; opposing_events is never written and is left out.  *)
(***************************************************************************)
EXTENDS Tables, Integers, Sequences

CONSTANTS
  Submissions,
  EventIds,    \* event identities callers may mint
  MaxClock,    \* bound: clock readings range over 0..MaxClock
  Threshold    \* the writer's clock-skew threshold

ASSUME LegacyClockAssumption == MaxClock \in Nat /\ Threshold \in Nat

\* Instants are ordered; an event of another generation has no belief, and the filler
\* in its place is no belief's identifier.
ASSUME SubmissionAssumption ==
  /\ \A s \in Submissions : s.occurred \in Int
  /\ \A s, t \in Submissions : s.kind = "legacy" /\ t.kind # "legacy" => s.belief # t.belief

VARIABLES
  log,        \* entries [id, sub, recorded]
  view,       \* resolved_beliefs: belief -> row
  applied,    \* derived_progress of projector 0; 0 when it has none
  latest,     \* entity_event_index: belief -> position of its latest event
  others,     \* derived_progress of a stage-two projector
  clock

legacyVars == <<log, view, applied, latest, others, clock>>

Clock == 0..MaxClock

ValueSetting == {"observation_recorded", "correction_appended"}

-----------------------------------------------------------------------------
(***************************************************************************)
(* The fold.                                                               *)
(***************************************************************************)
\* Projector 0 folds only the value-setting types of its own payload form.
Foldable(s) == s.kind = "legacy" /\ s.type \in ValueSetting

\* A correction dated before the value it would correct.
Backdated(beliefs, s) ==
  /\ s.type = "correction_appended"
  /\ s.belief \in DOMAIN beliefs
  /\ s.occurred < beliefs[s.belief].occurred

\* Mutant of ArrivesLate: the guard is forgotten, the last event in the log wins.
ArrivesLateNever(beliefs, s) == FALSE

\* The value-recency guard: the event is older than the value the belief shows.
ArrivesLate(beliefs, s) ==
  /\ s.belief \in DOMAIN beliefs
  /\ s.occurred < beliefs[s.belief].occurred

FoldRefuses(beliefs, s) ==
  \/ ~Foldable(s)
  \/ Backdated(beliefs, s)
  \/ ~ArrivesLate(beliefs, s) /\ s.origin # "observed"

NoHead == [value |-> "none", occurred |-> 0, basis |-> "none",
           supporting |-> <<>>, superseding |-> <<>>, lineage |-> <<>>]

\* Entry e, at log position pos, folded into the beliefs: it always joins the
\* provenance and the hash lineage of its belief, and sets the value unless late.
Fold(beliefs, e, pos) ==
  LET b     == e.sub.belief
      prior == IF b \in DOMAIN beliefs THEN beliefs[b] ELSE NoHead
      noted == [prior EXCEPT
                  !.supporting  = Append(@, e.id),
                  !.superseding = IF e.sub.type = "correction_appended" THEN Append(@, e.id) ELSE @,
                  !.lineage     = Append(@, pos)]
      head  == [noted EXCEPT !.value    = e.sub.value,
                             !.occurred = e.sub.occurred,
                             !.basis    = e.sub.type]
  IN  Upsert(Row(b, IF ArrivesLate(beliefs, e.sub) THEN noted ELSE head), beliefs)

\* project: the fold of the entries l; Projected(l)[n] is the view after n.
Projected(l) ==
  LET at[n \in 0..Len(l)] == IF n = 0 THEN NoRows ELSE Fold(at[n-1], l[n], n)
  IN  at

-----------------------------------------------------------------------------
(***************************************************************************)
(* Append.                                                                 *)
(***************************************************************************)
\* The event type is not part of the idempotency key.
LegacyKey(s) == <<s.actor, s.occurred, s.belief, s.value>>

Recorded(id, s) == {i \in DOMAIN log : log[i].id = id \/ LegacyKey(log[i].sub) = LegacyKey(s)}

\* find_recorded_event: the entry retained under the submission's key.
RetainedEntry(s) == {i \in DOMAIN log : LegacyKey(log[i].sub) = LegacyKey(s)}

Tip == log[Len(log)]

\* Mutant of Inserted: the index row of a belief is written once and never moved.
InsertedOnce(id, s, t) ==
  /\ log' = Append(log, [id |-> id, sub |-> s, recorded |-> t])
  /\ latest' = Upsert(latest, Row(s.belief, Len(log) + 1))
  /\ UNCHANGED <<view, applied, others>>

\* The event, its payload and its belief's index row, in one transaction.
Inserted(id, s, t) ==
  /\ log' = Append(log, [id |-> id, sub |-> s, recorded |-> t])
  /\ latest' = Upsert(Row(s.belief, Len(log) + 1), latest)
  /\ UNCHANGED <<view, applied, others>>

\* The locked checks both append paths share.
LockedChecks(id, s, t) ==
  /\ Recorded(id, s) = {}
  /\ Foldable(s)
  /\ s.origin = "observed"
  /\ log # <<>> => t >= Tip.recorded

LegacyStamp == IF log # <<>> /\ Tip.recorded > clock THEN Tip.recorded ELSE clock

\* Mutant of CaughtUp: whatever the view shows is good enough to judge on.
CaughtUpUnchecked == TRUE

CaughtUp == applied = Len(log)

\* Mutant of AppendLegacy: nothing is judged on the view.
AppendLegacyUnjudged(id, s) ==
  /\ log # <<>> => Tip.recorded - clock <= Threshold
  /\ clock' \in Clock
  /\ LegacyStamp - clock' <= Threshold
  /\ CaughtUp
  /\ LockedChecks(id, s, LegacyStamp)
  /\ Inserted(id, s, LegacyStamp)

\* append_submission under projector 0: the ordinary path.  The view it judges
\* a correction on must be that of the whole log.
AppendLegacy(id, s) ==
  /\ log # <<>> => Tip.recorded - clock <= Threshold
  /\ clock' \in Clock
  /\ LegacyStamp - clock' <= Threshold
  /\ CaughtUp
  /\ ~Backdated(view, s)
  /\ LockedChecks(id, s, LegacyStamp)
  /\ Inserted(id, s, LegacyStamp)

\* safe_append_event under projector 0: a complete pair, built by its caller.  It
\* looks at no derived state.
SafeAppendLegacy(id, s, t) ==
  /\ LockedChecks(id, s, t)
  /\ Inserted(id, s, t)
  /\ UNCHANGED clock

\* An ordinary append under a stage-two projector, of which only its own check of
\* progress matters here.
AppendStageTwo(id, s) ==
  /\ log # <<>> => Tip.recorded - clock <= Threshold
  /\ clock' \in Clock
  /\ LegacyStamp - clock' <= Threshold
  /\ Recorded(id, s) = {}
  /\ s.kind = "stage two"
  /\ others = Len(log)
  /\ log' = Append(log, [id |-> id, sub |-> s, recorded |-> LegacyStamp])
  /\ UNCHANGED <<view, applied, latest, others>>

-----------------------------------------------------------------------------
(***************************************************************************)
(* Publication.                                                            *)
(***************************************************************************)
\* Rows of an older store for which no progress was ever recorded.
Unproven == applied = 0 /\ view # NoRows

\* One transaction of materialize_pending under projector 0.
PublishLegacy(asOf) ==
  /\ ~Unproven
  /\ applied < Len(log)
  /\ log[applied + 1].recorded <= asOf
  /\ ~FoldRefuses(view, log[applied + 1].sub)
  /\ view' = Fold(view, log[applied + 1], applied + 1)
  /\ applied' = applied + 1
  /\ UNCHANGED <<log, latest, others, clock>>

\* materialize_pending of the stage-two projector: it takes none of our events.
PublishStageTwo(asOf) ==
  /\ others < Len(log)
  /\ log[others + 1].recorded <= asOf
  /\ log[others + 1].sub.kind = "stage two"
  /\ others' = others + 1
  /\ UNCHANGED <<log, view, applied, latest, clock>>

LegacyClockMoves ==
  /\ clock' \in Clock
  /\ UNCHANGED <<log, view, applied, latest, others>>

\* What an earlier revision may have left as the only event.
LeftBehind(s) ==
  \/ s.kind = "stage two"
  \/ Foldable(s) /\ s.type = "observation_recorded" /\ s.origin = "observed"

\* A new store, or one that an earlier revision left with an event, with or
\* without the row it folds to, and with no recorded progress.
LegacyInit ==
  /\ log \in {<<>>} \cup
       {<<[id |-> id, sub |-> s, recorded |-> 0]>> : id \in EventIds, s \in {x \in Submissions : LeftBehind(x)}}
  /\ LET ours == \E i \in DOMAIN log : Foldable(log[i].sub) IN
     /\ latest = IF ours THEN Row(log[1].sub.belief, 1) ELSE NoRows
     /\ view \in {NoRows} \cup (IF ours THEN {Projected(log)[1]} ELSE {})
  /\ applied = 0
  /\ others = 0
  /\ clock \in Clock

LegacyNext ==
  \/ \E id \in EventIds, s \in Submissions : AppendLegacy(id, s)
  \/ \E id \in EventIds, s \in Submissions : AppendStageTwo(id, s)
  \/ \E id \in EventIds, s \in Submissions, t \in Clock : SafeAppendLegacy(id, s, t)
  \/ \E asOf \in Clock : PublishLegacy(asOf)
  \/ \E asOf \in Clock : PublishStageTwo(asOf)
  \/ LegacyClockMoves

LegacySpec == LegacyInit /\ [][LegacyNext]_legacyVars
-----------------------------------------------------------------------------
(***************************************************************************)
(* What readers are told.                                                  *)
(***************************************************************************)
\* The label of _read_legacy_belief_status on belief b.
LegacyLabel(b) ==
  LET present == b \in DOMAIN view IN
  IF present /\ applied = 0 THEN "unknown"
  ELSE IF b \in DOMAIN latest /\ (~present \/ latest[b] > applied) THEN "stale"
  ELSE "fresh"

\* The label of read_projection_status on the whole of projector 0.
LegacyLogLabel ==
  IF Unproven THEN "unknown"
  ELSE IF log # <<>> /\ Len(log) > applied THEN "stale" ELSE "fresh"

-----------------------------------------------------------------------------
(***************************************************************************)
(* Properties.                                                             *)
(***************************************************************************)
\* Ascending(S)[n]: the positions in S among the first n, oldest first.
Ascending(S) ==
  LET at[n \in 0..Len(log)] ==
        IF n = 0 THEN <<>> ELSE IF n \in S THEN Append(at[n-1], n) ELSE at[n-1]
  IN  at

\* The events of belief b, and the corrections among them.
EventsOf(b) == {i \in DOMAIN log : log[i].sub.belief = b}
CorrectionsOf(b) == {i \in EventsOf(b) : log[i].sub.type = "correction_appended"}

Ids(positions) == [i \in DOMAIN positions |-> log[positions[i]].id]

\* Event i sets the head among the events ps: nothing in ps occurred later, and
\* of those that occurred at the same instant it is the last in the log.
IsHead(i, ps) ==
  \A k \in DOMAIN ps :
    \/ log[ps[k]].sub.occurred < log[i].sub.occurred
    \/ log[ps[k]].sub.occurred = log[i].sub.occurred /\ ps[k] <= i

\* Each belief shows the value of the event that occurred last, wherever in the
\* log it arrived, with all of its events as support and all of its corrections
\* as superseding: the value of a belief does not depend on the order in which
\* its events were recorded, except between events of one instant.
HeadIsLatest ==
  ~Unproven =>
    /\ DOMAIN view = {log[i].sub.belief : i \in 1..applied}
    /\ \A b \in DOMAIN view :
         LET ps == Ascending(EventsOf(b))[applied] IN
         /\ \E k \in DOMAIN ps :
              /\ IsHead(ps[k], ps)
              /\ view[b].value = log[ps[k]].sub.value
              /\ view[b].occurred = log[ps[k]].sub.occurred
              /\ view[b].basis = log[ps[k]].sub.type
         /\ view[b].lineage = ps
         /\ view[b].supporting = Ids(ps)
         /\ view[b].superseding = Ids(Ascending(CorrectionsOf(b))[applied])

\* The log l can be replayed from genesis: the fold refuses no entry at its place.
Folds(l) == \A i \in DOMAIN l : ~FoldRefuses(Projected(l)[i-1], l[i].sub)

\* An ordinary append never ends the replay of a log: what it commits after a log
\* that folds is folded too, in particular it is no backdated correction, however
\* publication, other writers and the low-level append were interleaved.
EveryLogFolds ==
  [][(\E id \in EventIds, s \in Submissions : AppendLegacy(id, s)) /\ Folds(log) => Folds(log')]_legacyVars

Unmixed(l) == \A i, j \in DOMAIN l : l[i].sub.kind = l[j].sub.kind

\* The ordinary appends never mix the two generations in one log: whichever was
\* first, the other's projector can never catch up, and so never append.
OneGeneration ==
  [][(\E id \in EventIds, s \in Submissions : AppendLegacy(id, s) \/ AppendStageTwo(id, s)) /\ Unmixed(log)
       => Unmixed(log')]_legacyVars

\* A belief read as fresh is what the whole log says of it; the whole projector
\* read as fresh shows the whole log.
LegacyFreshIsCurrent ==
  /\ \A b \in {s.belief : s \in {x \in Submissions : Foldable(x)}} :
       LegacyLabel(b) = "fresh" =>
          /\ b \in DOMAIN view <=> b \in DOMAIN Projected(log)[Len(log)]
          /\ b \in DOMAIN view => view[b] = Projected(log)[Len(log)][b]
  /\ LegacyLogLabel = "fresh" => view = Projected(log)[Len(log)]
=============================================================================
