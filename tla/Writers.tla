-------------------------------- MODULE Writers --------------------------------
(***************************************************************************)
(* Sessions: the processes that own the store one at a time and drive its  *)
(* transactions in the order of skeleton._record_stage_two and             *)
(* ingestion.submit (open, publish what is pending, append, publish again, *)
(* read back, close) or of a recovery (open, rebuild, close).              *)
(*                                                                         *)
(* Each step is one SQLite transaction or one clock reading; a process may *)
(* die between any two, its lock dies with it, and its caller submits the  *)
(* same retained request again.  Module Store says what a transaction      *)
(* does; this one says who runs it, when, and what the caller is told.     *)
(***************************************************************************)
EXTENDS Store

CONSTANTS
  Sessions,    \* the processes
  JobOf,       \* session -> [kind, request, version, asOf], what it is run for
  MaxCrashes   \* bound: how many processes may die

\* asOf is {} for a live session, which reads the clock itself, and {t} for one
\* whose caller supplied the cutoff t.  A recovery carries no request.
Jobs ==
  [kind : {"submit"}, request : Requests, version : Versions, asOf : {{}} \cup {{t} : t \in Clock}]
  \cup [kind : {"rebuild"}, version : Versions, asOf : {{t} : t \in Clock}]

ASSUME JobAssumption == JobOf \in [Sessions -> Jobs] /\ MaxCrashes \in Nat

VARIABLES
  owner,       \* {} or {p}: the session holding the operating system's lock
  pc,          \* where each session is
  cutoff,      \* the as_of of a session's current materialize_pending call
  answers,     \* history: every log position a session was given for its request
  crashes      \* how many processes have died

sessionVars == <<owner, pc, cutoff, answers, crashes>>
allVars == <<log, view, progress, latest, subjectOf, clock, owner, pc, cutoff, answers, crashes>>

Places == {"idle", "open", "draining", "appending", "committed", "publishing",
           "answered", "done", "failed"}

Version(p) == JobOf[p].version
Request(p) == JobOf[p].request
Live(p) == JobOf[p].asOf = {}

SessionInit ==
  /\ Init
  /\ owner = {}
  /\ pc = [p \in Sessions |-> "idle"]
  /\ cutoff = [p \in Sessions |-> 0]
  /\ answers = [p \in Sessions |-> {}]
  /\ crashes = 0

GoTo(p, place) == pc' = [pc EXCEPT ![p] = place]

\* Closing the connection releases the lock, whichever way the session ends.
End(p, place) ==
  /\ GoTo(p, place)
  /\ owner' = {}
  /\ UNCHANGED <<cutoff, answers, crashes>>

-----------------------------------------------------------------------------
\* Mutant of Acquire: the lock is taken without looking whether it is held.
AcquireHeld(p) ==
  /\ pc[p] = "idle"
  /\ owner' = {p}
  /\ GoTo(p, "open")
  /\ UNCHANGED <<vars, cutoff, answers, crashes>>

\* init_db takes the lock or raises WriterBusyError; the caller tries again.
Acquire(p) ==
  /\ pc[p] = "idle"
  /\ owner = {}
  /\ owner' = {p}
  /\ GoTo(p, "open")
  /\ UNCHANGED <<vars, cutoff, answers, crashes>>

\* Mutant of LiveAsOf: the clock alone.
ClockAlone == clock

\* The clock, but never before the tip, which a clock set back would hide.
LiveAsOf == IF log # <<>> /\ log[Len(log)].recorded > clock
            THEN log[Len(log)].recorded ELSE clock

\* Mutant of ChooseCutoff: one as_of serves both calls.
ChooseCutoffOnce(p) ==
  /\ JobOf[p].kind = "submit"
  /\ \/ pc[p] = "committed" /\ GoTo(p, "publishing") /\ UNCHANGED cutoff
     \/ /\ pc[p] = "open" /\ GoTo(p, "draining")
        /\ IF Live(p)
           THEN cutoff' = [cutoff EXCEPT ![p] = LiveAsOf]
           ELSE \E t \in JobOf[p].asOf : cutoff' = [cutoff EXCEPT ![p] = t]
  /\ UNCHANGED <<vars, owner, answers, crashes>>

\* The as_of of the materialize_pending call before, or after, the append.
ChooseCutoff(p) ==
  /\ JobOf[p].kind = "submit"
  /\ \/ pc[p] = "open"      /\ GoTo(p, "draining")
     \/ pc[p] = "committed" /\ GoTo(p, "publishing")
  /\ IF Live(p)
     THEN cutoff' = [cutoff EXCEPT ![p] = LiveAsOf]
     ELSE \E t \in JobOf[p].asOf : cutoff' = [cutoff EXCEPT ![p] = t]
  /\ UNCHANGED <<vars, owner, answers, crashes>>

Publishing(p) == pc[p] \in {"draining", "publishing"}

PublishOne(p) ==
  /\ Publishing(p)
  /\ PublishNext(Version(p), cutoff[p])
  /\ UNCHANGED sessionVars

PublishDone(p) ==
  /\ \/ pc[p] = "draining"   /\ GoTo(p, "appending")
     \/ pc[p] = "publishing" /\ GoTo(p, "answered")
  /\ PublishNothing(Version(p), cutoff[p])
  /\ UNCHANGED <<owner, cutoff, answers, crashes>>

\* Mutant of PublishRefused: an event the projector refuses is passed over.
PublishSkips(p) ==
  LET v == Version(p)  next == log[progress[v] + 1] IN
  /\ Publishing(p)
  /\ progress[v] < Len(log)
  /\ next.recorded <= cutoff[p]
  /\ ~Admits(v, view[v], next.req)
  /\ progress' = [progress EXCEPT ![v] = @ + 1]
  /\ UNCHANGED <<log, view, latest, subjectOf, clock, sessionVars>>

\* The next pending event is one the projector refuses: the session raises.
PublishRefused(p) ==
  LET v == Version(p)  next == log[progress[v] + 1] IN
  /\ Publishing(p)
  /\ progress[v] < Len(log)
  /\ next.recorded <= cutoff[p]
  /\ ~Admits(v, view[v], next.req)
  /\ End(p, "failed")
  /\ UNCHANGED vars

-----------------------------------------------------------------------------
Answer(p, i) ==
  /\ answers' = [answers EXCEPT ![p] = @ \cup {i}]
  /\ GoTo(p, "committed")
  /\ UNCHANGED <<owner, cutoff, crashes>>

AppendNew(p) ==
  /\ pc[p] = "appending"
  /\ AppendSubmission(Version(p), Request(p))
  /\ Answer(p, Len(log) + 1)

\* Mutant of OwnRow: a retry is recognised by its identity or key alone.
OwnRowByKey(r, i) == Retained(r) = {i}

\* A row is the request's own when it is alone and semantically the same.
OwnRow(r, i) == Retained(r) = {i} /\ log[i].req = r

AppendRetried(p) ==
  /\ pc[p] = "appending"
  /\ \E i \in Retained(Request(p)) : OwnRow(Request(p), i) /\ Answer(p, i)
  /\ UNCHANGED vars

\* Another request holds the identity or key; or, with the clock in order, the
\* projector is behind the tip or refuses the event.
AppendRefused(p) ==
  LET r == Request(p) IN
  /\ pc[p] = "appending"
  /\ \/ Retained(r) # {} /\ ~\E i \in Retained(r) : OwnRow(r, i)
     \/ /\ Retained(r) = {}
        /\ AssignedStamp - clock <= Threshold
        /\ ~Appendable(Version(p), Assign(r))
  /\ End(p, "failed")
  /\ UNCHANGED vars

\* ClockSkewError at the first or the second sample; the caller tries again.
AppendSkewed(p) ==
  /\ pc[p] = "appending"
  /\ Retained(Request(p)) = {}
  /\ clock' \in Clock
  /\ \/ AssignedStamp - clock > Threshold
     \/ Appendable(Version(p), Assign(Request(p))) /\ AssignedStamp - clock' > Threshold
  /\ End(p, "idle")
  /\ UNCHANGED <<log, view, progress, latest, subjectOf>>

\* The record is read back and the connection closed.
ReadBack(p) ==
  /\ pc[p] = "answered"
  /\ End(p, "done")
  /\ UNCHANGED vars

-----------------------------------------------------------------------------
Rebuild(p) ==
  /\ JobOf[p].kind = "rebuild"
  /\ pc[p] = "open"
  /\ \E t \in JobOf[p].asOf : RebuildProjection(Version(p), t)
  /\ End(p, "done")

RebuildRefused(p) ==
  /\ JobOf[p].kind = "rebuild"
  /\ pc[p] = "open"
  /\ \E t \in JobOf[p].asOf, i \in DOMAIN log :
       /\ \A j \in 1..i : log[j].recorded <= t
       /\ ~Admits(Version(p), ReplayOf(log, Deleted(view[Version(p)]))[i-1], log[i].req)
  /\ End(p, "failed")
  /\ UNCHANGED vars

\* Mutant of Crash: the lockfile itself is the lock.
CrashKeepsLock(p) ==
  /\ owner = {p}
  /\ crashes < MaxCrashes
  /\ crashes' = crashes + 1
  /\ GoTo(p, "idle")
  /\ UNCHANGED <<vars, owner, cutoff, answers>>

\* The process dies; what it had not committed is gone, and so is its lock.
Crash(p) ==
  /\ owner = {p}
  /\ crashes < MaxCrashes
  /\ crashes' = crashes + 1
  /\ owner' = {}
  /\ GoTo(p, "idle")
  /\ UNCHANGED <<vars, cutoff, answers>>

SessionStep(p) ==
  \/ Acquire(p) \/ ChooseCutoff(p)
  \/ PublishOne(p) \/ PublishDone(p) \/ PublishRefused(p)
  \/ AppendNew(p) \/ AppendRetried(p) \/ AppendRefused(p) \/ AppendSkewed(p)
  \/ ReadBack(p) \/ Rebuild(p) \/ RebuildRefused(p)

SessionNext ==
  \/ \E p \in Sessions : SessionStep(p) \/ Crash(p)
  \/ ClockMoves /\ UNCHANGED sessionVars

\* A process that can take a step is eventually scheduled, and a caller told
\* that the store is busy tries again; the clock and crashes are not fair.
SessionSpec ==
  SessionInit /\ [][SessionNext]_allVars /\ \A p \in Sessions : WF_allVars(SessionStep(p))

-----------------------------------------------------------------------------
Working == Places \ {"idle", "done", "failed"}

\* Sessions are somewhere, exactly the working one owns the store, and what it
\* was answered lies in the log.
SessionTypeOK ==
  /\ pc \in [Sessions -> Places]
  /\ owner = {p \in Sessions : pc[p] \in Working}
  /\ \A p, q \in owner : p = q
  /\ cutoff \in [Sessions -> Clock]
  /\ answers \in [Sessions -> SUBSET (1..Len(log))]
  /\ crashes \in 0..MaxCrashes

\* When a live session reaches its append its projector shows the whole log: it
\* is never told ProjectionBehindError, whatever the clock did since the tip was
\* recorded, and whatever was left unpublished by a session that died.
AppendsAtTip ==
  \A p \in Sessions :
    pc[p] = "appending" /\ Live(p) => progress[Version(p)] = Len(log)

\* A live session that reads back finds its own event published, even when the
\* clock was set back behind the recorded_at it was assigned.
ReadsOwnWrite ==
  \A p \in Sessions : pc[p] = "answered" /\ Live(p) =>
    /\ answers[p] # {}
    /\ \A i \in answers[p] : i <= progress[Version(p)]

\* Every attempt to submit a retained request - before, during and after crashes,
\* by whichever session - is answered with the one entry that holds exactly that
\* request, or not answered at all.
OneAnswerPerRequest ==
  \A p, q \in Sessions : \A i \in answers[p], j \in answers[q] :
    /\ log[i].req = Request(p)
    /\ i = j <=> Request(p) = Request(q)

\* If the clock is eventually right for good, every session ends: its request is
\* answered or refused, however many processes died holding the lock and however
\* often the clock was wrong before.
EverySessionEnds ==
  <>[](clock = MaxClock) => \A p \in Sessions : <>(pc[p] \in {"done", "failed"})
=============================================================================
