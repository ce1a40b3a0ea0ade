---------------------------- MODULE LegacySessions ----------------------------
(***************************************************************************)
(* The callers of projector 0: record_observation and record_correction.   *)
(* A session opens the store, publishes what is pending, looks up whether  *)
(* its submission is already retained, prepares the request under the      *)
(* retained or a fresh event id, appends, publishes again and reads its    *)
(* belief back.  The caller keeps the raw submission, not the request, so  *)
(* a process that died leaves no event id behind and the retry has to find *)
(* it in the log.  A value of `at` stands between any two transactions.    *)
(***************************************************************************)
EXTENDS LegacyStore

CONSTANTS Sessions, SubmissionOf, MaxCrashes

\* record_observation and record_correction write payloads of the legacy form only.
ASSUME CallerAssumption ==
  \A p \in Sessions : SubmissionOf[p] \in Submissions /\ SubmissionOf[p].kind = "legacy"

VARIABLES
  at,       \* where each session is
  owner,    \* the set of sessions that hold the writer lock
  asOf,     \* the as_of of its current publication
  eventId,  \* the event id of its prepared request, as a set
  row,      \* the belief row it returned, as a set
  crashes

sessionVars == <<at, owner, asOf, eventId, row, crashes>>
allVars == <<legacyVars, sessionVars>>

Mine(p) == SubmissionOf[p]

RecordInit ==
  /\ LegacyInit
  /\ at = [p \in Sessions |-> "idle"]
  /\ owner = {}
  /\ asOf = [p \in Sessions |-> 0]
  /\ eventId = [p \in Sessions |-> {}]
  /\ row = [p \in Sessions |-> {}]
  /\ crashes = 0

Goes(p, from, to) == at[p] = from /\ at' = [at EXCEPT ![p] = to]

\* The connection is closed and the prepared request forgotten.
Closes(p, from, to) ==
  /\ Goes(p, from, to)
  /\ owner' = {}
  /\ eventId' = [eventId EXCEPT ![p] = {}]

Open(p) ==
  /\ Goes(p, "idle", "opened")
  /\ owner = {}
  /\ owner' = {p}
  /\ UNCHANGED <<legacyVars, asOf, eventId, row, crashes>>

\* Mutant of LiveAsOf: the clock alone.
ClockAlone == clock

LiveAsOf == IF log # <<>> /\ Tip.recorded > clock THEN Tip.recorded ELSE clock

SampleClock(p) ==
  /\ Goes(p, "opened", "draining") \/ Goes(p, "committed", "publishing")
  /\ asOf' = [asOf EXCEPT ![p] = LiveAsOf]
  /\ UNCHANGED <<legacyVars, owner, eventId, row, crashes>>

PublishEach(p) ==
  /\ at[p] \in {"draining", "publishing"}
  /\ PublishLegacy(asOf[p])
  /\ UNCHANGED sessionVars

Pending(p) == applied < Len(log) /\ log[applied + 1].recorded <= asOf[p]

NothingPending(p) ==
  /\ Goes(p, "draining", "preparing") \/ Goes(p, "publishing", "published")
  /\ ~Unproven
  /\ ~Pending(p)
  /\ UNCHANGED <<legacyVars, owner, asOf, eventId, row, crashes>>

\* Rows without a checkpoint, or an event the fold refuses: publication raises.
CannotPublish(p) ==
  /\ Closes(p, "draining", "refused") \/ Closes(p, "publishing", "refused")
  /\ Unproven \/ (Pending(p) /\ FoldRefuses(view, log[applied + 1].sub))
  /\ UNCHANGED <<legacyVars, asOf, row, crashes>>

\* An id that was minted and then lost with its process is as good as fresh.
FreshIds == EventIds \ {log[i].id : i \in DOMAIN log}

\* Mutant of IdFor: every request gets an id of its own.
IdForFresh(s) == FreshIds

\* The event id the request is prepared under: that of the retained entry with
\* the same key, or a fresh one.
IdFor(s) ==
  IF RetainedEntry(s) = {} THEN FreshIds ELSE {log[i].id : i \in RetainedEntry(s)}

Prepare(p) ==
  /\ Goes(p, "preparing", "appending")
  /\ \E id \in IdFor(Mine(p)) :
       eventId' = [eventId EXCEPT ![p] = {id}]
  /\ UNCHANGED <<legacyVars, owner, asOf, row, crashes>>

CommitNew(p) ==
  /\ Goes(p, "appending", "committed")
  /\ \E id \in eventId[p] : AppendLegacy(id, Mine(p))
  /\ UNCHANGED <<owner, asOf, eventId, row, crashes>>

\* The one row found holds exactly this request.
SameRow(id, s) == \E i \in DOMAIN log : Recorded(id, s) = {i} /\ log[i].id = id /\ log[i].sub = s

CommitRetried(p) ==
  /\ Goes(p, "appending", "committed")
  /\ \E id \in eventId[p] : SameRow(id, Mine(p))
  /\ UNCHANGED <<legacyVars, owner, asOf, eventId, row, crashes>>

\* The row found holds another request; or, with the clock in order, the view is
\* behind the tip, the correction is backdated or a locked check fails.
AppendRaises(p) ==
  LET s == Mine(p) IN
  /\ Closes(p, "appending", "refused")
  /\ \E id \in eventId[p] :
       \/ Recorded(id, s) # {} /\ ~SameRow(id, s)
       \/ /\ Recorded(id, s) = {}
          /\ LegacyStamp - clock <= Threshold
          /\ ~CaughtUp \/ Backdated(view, s) \/ ~LockedChecks(id, s, LegacyStamp)
  /\ UNCHANGED <<legacyVars, asOf, row, crashes>>

\* ClockSkewError at the first or the second sample; the caller tries again.
ClockSkewed(p) ==
  /\ Closes(p, "appending", "idle")
  /\ \A id \in eventId[p] : Recorded(id, Mine(p)) = {}
  /\ clock' \in Clock
  /\ LegacyStamp - clock > Threshold \/ LegacyStamp - clock' > Threshold
  /\ UNCHANGED <<log, view, applied, latest, others, asOf, row, crashes>>

ReadBelief(p) ==
  /\ Closes(p, "published", "returned")
  /\ row' = [row EXCEPT ![p] = {view[b] : b \in {Mine(p).belief} \cap DOMAIN view}]
  /\ UNCHANGED <<legacyVars, asOf, crashes>>

\* Mutant of Dies: the lock is left to a process that is gone.
DiesHolding(p) ==
  /\ owner = {p}
  /\ crashes < MaxCrashes
  /\ crashes' = crashes + 1
  /\ at' = [at EXCEPT ![p] = "idle"]
  /\ eventId' = [eventId EXCEPT ![p] = {}]
  /\ UNCHANGED <<legacyVars, owner, asOf, row>>

\* The process dies: the lock goes with it, and so does the prepared request.
Dies(p) ==
  /\ owner = {p}
  /\ crashes < MaxCrashes
  /\ crashes' = crashes + 1
  /\ owner' = {}
  /\ at' = [at EXCEPT ![p] = "idle"]
  /\ eventId' = [eventId EXCEPT ![p] = {}]
  /\ UNCHANGED <<legacyVars, asOf, row>>

RecordStep(p) ==
  \/ Open(p) \/ SampleClock(p) \/ PublishEach(p) \/ NothingPending(p) \/ CannotPublish(p)
  \/ Prepare(p) \/ CommitNew(p) \/ CommitRetried(p) \/ AppendRaises(p) \/ ClockSkewed(p)
  \/ ReadBelief(p)

RecordNext ==
  \/ \E p \in Sessions : RecordStep(p) \/ Dies(p)
  \/ LegacyClockMoves /\ UNCHANGED sessionVars

\* The processes are fair, the clock and crashes are not.
RecordSpec ==
  RecordInit /\ [][RecordNext]_allVars /\ \A p \in Sessions : WF_allVars(RecordStep(p))

-----------------------------------------------------------------------------
(***************************************************************************)
(* Properties.                                                             *)
(***************************************************************************)
\* What a session returns already counts its own event, even when the clock was
\* set back behind the tip or an earlier attempt had appended the event.
ReturnsOwnEvent ==
  \A p \in Sessions : at[p] = "returned" =>
    \E r \in row[p], i \in DOMAIN log :
      log[i].sub = Mine(p) /\ \E k \in DOMAIN r.supporting : r.supporting[k] = log[i].id

\* A submission that is in the log is never refused to its caller: whoever died
\* after committing it, the retry finds the retained id and is answered.  The one
\* exception is a store inherited with rows and no checkpoint, which refuses every
\* caller before it looks anything up, the one whose event it holds included.
CommittedIsAnswered ==
  \A p \in Sessions :
    at[p] = "refused" /\ ~Unproven => \A i \in DOMAIN log : log[i].sub # Mine(p)

\* Every caller is answered or refused once the clock is right for good.
EveryRecordEnds ==
  <>[](clock = MaxClock) => \A p \in Sessions : <>(at[p] \in {"returned", "refused"})
=============================================================================
