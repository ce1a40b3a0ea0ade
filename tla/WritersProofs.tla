----------------------------- MODULE WritersProofs -----------------------------
(***************************************************************************)
(* Theorems about the sessions, for every set of sessions and jobs, every  *)
(* clock bound and threshold and any number of crashes.  First the lock:   *)
(* one session works at a time, and every step of the composed system is a *)
(* transaction of Store, so what is proved of the store carries over.      *)
(* Then, session by session, what the working one knows of the store.      *)
(***************************************************************************)
EXTENDS Writers, StoreProofs

-----------------------------------------------------------------------------
(***************************************************************************)
(* The store under the sessions.                                           *)
(***************************************************************************)
Submitting == {"draining", "appending", "committed", "publishing", "answered"}

\* Only a session that carries a request is ever on the way to answer one.
SubmittersSubmit == \A p \in Sessions : pc[p] \in Submitting => JobOf[p].kind = "submit"

LEMMA JobType ==
  ASSUME NEW p \in Sessions
  PROVE  /\ Version(p) \in Versions
         /\ JobOf[p].asOf \in {{}} \cup {{t} : t \in Clock}
         /\ JobOf[p].kind = "submit" => Request(p) \in Requests
<1>1. JobOf[p] \in Jobs
  BY JobAssumption
<1>2. QED
  BY <1>1 DEF Jobs, Version, Request

\* A cutoff the caller supplied is a time.
LEMMA CutoffType ==
  ASSUME NEW p \in Sessions, NEW t \in JobOf[p].asOf
  PROVE  t \in Clock
BY JobType

LEMMA LiveAsOfType ==
  ASSUME TypeOK
  PROVE  LiveAsOf \in Clock
<1>1. log # <<>> => log[Len(log)] \in Entries
  BY DEF TypeOK
<1>2. QED
  BY <1>1 DEF LiveAsOf, TypeOK, Entries

\* A step of the composed system is a transaction of the ordinary write path,
\* the clock moving, or no step of the store.
LEMMA StoreStep ==
  ASSUME SessionTypeOK, SubmittersSubmit, [SessionNext]_allVars
  PROVE  [OrdinaryNext]_vars
<1>1. ASSUME NEW p \in Sessions, PublishOne(p) PROVE OrdinaryNext
  <2>1. cutoff[p] \in Clock /\ Version(p) \in Versions
    BY JobType DEF SessionTypeOK
  <2>2. QED
    BY <1>1, <2>1 DEF PublishOne, OrdinaryNext
<1>2. ASSUME NEW p \in Sessions, PublishDone(p) PROVE OrdinaryNext
  <2>1. cutoff[p] \in Clock /\ Version(p) \in Versions
    BY JobType DEF SessionTypeOK
  <2>2. QED
    BY <1>2, <2>1 DEF PublishDone, OrdinaryNext
<1>3. ASSUME NEW p \in Sessions, AppendNew(p) PROVE OrdinaryNext
  <2>1. Request(p) \in Requests /\ Version(p) \in Versions
    BY <1>3, JobType DEF AppendNew, SubmittersSubmit, Submitting
  <2>2. QED
    BY <1>3, <2>1 DEF AppendNew, OrdinaryNext
<1>4. ASSUME NEW p \in Sessions, AppendSkewed(p) PROVE OrdinaryNext
  BY <1>4 DEF AppendSkewed, OrdinaryNext, ClockMoves
<1>5. ASSUME NEW p \in Sessions, Rebuild(p) PROVE OrdinaryNext
  <2>1. PICK t \in JobOf[p].asOf : RebuildProjection(Version(p), t)
    BY <1>5 DEF Rebuild
  <2>2. QED
    BY <2>1, JobType, CutoffType DEF OrdinaryNext
<1>6. ASSUME NEW p \in Sessions,
             \/ Acquire(p) \/ ChooseCutoff(p) \/ PublishRefused(p) \/ AppendRetried(p)
             \/ AppendRefused(p) \/ ReadBack(p) \/ RebuildRefused(p) \/ Crash(p)
      PROVE  UNCHANGED vars
  BY <1>6 DEF Acquire, ChooseCutoff, PublishRefused, AppendRetried, AppendRefused, ReadBack,
              RebuildRefused, Crash
<1>7. CASE ClockMoves
  BY <1>7 DEF OrdinaryNext
<1>8. CASE UNCHANGED allVars
  BY <1>8 DEF allVars, vars
<1>9. QED
  BY <1>1, <1>2, <1>3, <1>4, <1>5, <1>6, <1>7, <1>8 DEF SessionNext, SessionStep

-----------------------------------------------------------------------------
(***************************************************************************)
(* The lock.                                                               *)
(***************************************************************************)
\* A session's turn: it works, or finds nobody working; afterwards it owns the
\* store exactly if it is still working.
Turn(p, place) ==
  /\ pc[p] \in Working \/ owner = {}
  /\ pc' = [pc EXCEPT ![p] = place]
  /\ owner' = IF place \in Working THEN {p} ELSE {}

LEMMA WorkerOwns ==
  ASSUME SessionTypeOK, NEW p \in Sessions, pc[p] \in Working
  PROVE  owner = {p}
BY DEF SessionTypeOK

LEMMA Turns ==
  ASSUME SessionTypeOK, NEW p \in Sessions, SessionStep(p) \/ Crash(p)
  PROVE  \E place \in Places : Turn(p, place)
<1>1. CASE Acquire(p)
  BY <1>1 DEF Acquire, GoTo, Turn, Working, Places
<1>2. CASE ChooseCutoff(p)
  <2>1. pc[p] \in Working
    BY <1>2 DEF ChooseCutoff, Working, Places
  <2>2. QED
    BY <1>2, <2>1, WorkerOwns DEF ChooseCutoff, GoTo, Turn, Working, Places
<1>3. CASE PublishOne(p)
  <2>1. pc[p] \in Working /\ pc' = pc /\ owner' = owner
    BY <1>3 DEF PublishOne, Publishing, Working, Places, sessionVars
  <2>2. pc' = [pc EXCEPT ![p] = pc[p]] /\ pc[p] \in Places
    BY <2>1 DEF SessionTypeOK
  <2>3. QED
    BY <2>1, <2>2, WorkerOwns DEF Turn
<1>4. CASE PublishDone(p)
  <2>1. pc[p] \in Working
    BY <1>4 DEF PublishDone, Working, Places
  <2>2. QED
    BY <1>4, <2>1, WorkerOwns DEF PublishDone, GoTo, Turn, Working, Places
<1>5. CASE PublishRefused(p)
  BY <1>5 DEF PublishRefused, Publishing, End, GoTo, Turn, Working, Places
<1>6. CASE AppendNew(p)
  <2>1. pc[p] \in Working
    BY <1>6 DEF AppendNew, Working, Places
  <2>2. QED
    BY <1>6, <2>1, WorkerOwns DEF AppendNew, Answer, GoTo, Turn, Working, Places
<1>7. CASE AppendRetried(p)
  <2>1. pc[p] \in Working
    BY <1>7 DEF AppendRetried, Working, Places
  <2>2. QED
    BY <1>7, <2>1, WorkerOwns DEF AppendRetried, Answer, GoTo, Turn, Working, Places
<1>8. CASE AppendRefused(p)
  BY <1>8 DEF AppendRefused, End, GoTo, Turn, Working, Places
<1>9. CASE AppendSkewed(p)
  BY <1>9 DEF AppendSkewed, End, GoTo, Turn, Working, Places
<1>10. CASE ReadBack(p)
  BY <1>10 DEF ReadBack, End, GoTo, Turn, Working, Places
<1>11. CASE Rebuild(p)
  BY <1>11 DEF Rebuild, End, GoTo, Turn, Working, Places
<1>12. CASE RebuildRefused(p)
  BY <1>12 DEF RebuildRefused, End, GoTo, Turn, Working, Places
<1>13. CASE Crash(p)
  <2>1. pc[p] \in Working
    BY <1>13 DEF Crash, SessionTypeOK
  <2>2. QED
    BY <1>13, <2>1 DEF Crash, GoTo, Turn, Working, Places
<1>14. QED
  BY <1>1, <1>2, <1>3, <1>4, <1>5, <1>6, <1>7, <1>8, <1>9, <1>10, <1>11, <1>12, <1>13
     DEF SessionStep

\* While one session takes its turn no other works, before or after.
LEMMA OthersIdle ==
  ASSUME SessionTypeOK, NEW p \in Sessions, NEW place \in Places, Turn(p, place),
         NEW q \in Sessions, q # p
  PROVE  pc[q] \notin Working /\ pc'[q] = pc[q]
BY DEF SessionTypeOK, Turn

LEMMA LockNext ==
  ASSUME SessionTypeOK, NEW p \in Sessions, NEW place \in Places, Turn(p, place)
  PROVE  /\ pc' \in [Sessions -> Places]
         /\ owner' = {q \in Sessions : pc'[q] \in Working}
         /\ \A q, r \in owner' : q = r
<1>1. pc' \in [Sessions -> Places] /\ pc'[p] = place
  BY DEF SessionTypeOK, Turn
<1>2. \A q \in Sessions : pc'[q] \in Working <=> q = p /\ place \in Working
  BY <1>1, OthersIdle
<1>3. QED
  BY <1>1, <1>2 DEF Turn

\* Cutoffs are times, answers lie in the log, and no more crashes happen than may.
LEMMA HistoryNext ==
  ASSUME TypeOK, TypeOK', SessionTypeOK, NEW p \in Sessions, SessionStep(p) \/ Crash(p),
         Len(log) <= Len(log')
  PROVE  /\ cutoff' \in [Sessions -> Clock]
         /\ answers' \in [Sessions -> SUBSET (1..Len(log'))]
         /\ crashes' \in 0..MaxCrashes
<1>1. Len(log) \in Nat /\ Len(log') \in Nat
  BY DEF TypeOK
<1>2. answers \in [Sessions -> SUBSET (1..Len(log'))]
  BY <1>1 DEF SessionTypeOK
<1>3. cutoff \in [Sessions -> Clock] /\ crashes \in 0..MaxCrashes
  BY DEF SessionTypeOK
<1>4. CASE ChooseCutoff(p)
  <2>1. UNCHANGED <<answers, crashes>>
    BY <1>4 DEF ChooseCutoff
  <2>2. cutoff' \in [Sessions -> Clock]
    BY <1>3, <1>4, LiveAsOfType, CutoffType DEF ChooseCutoff
  <2>3. QED
    BY <1>2, <1>3, <2>1, <2>2
<1>5. ASSUME NEW i \in 1..Len(log'), Answer(p, i)
      PROVE  /\ answers' \in [Sessions -> SUBSET (1..Len(log'))]
             /\ UNCHANGED <<cutoff, crashes>>
  BY <1>2, <1>5 DEF Answer
<1>6. CASE AppendNew(p)
  <2>1. Answer(p, Len(log) + 1) /\ log' = Append(log, Assign(Request(p)))
    BY <1>6 DEF AppendNew, AppendSubmission, Insert
  <2>2. Len(log) + 1 \in 1..Len(log')
    BY <1>1, <2>1 DEF TypeOK
  <2>3. QED
    BY <1>3, <1>5, <2>1, <2>2
<1>7. CASE AppendRetried(p)
  <2>1. PICK i \in Retained(Request(p)) : Answer(p, i)
    BY <1>7 DEF AppendRetried
  <2>2. i \in 1..Len(log')
    BY <1>1, <2>1 DEF Retained, TypeOK
  <2>3. QED
    BY <1>3, <1>5, <2>1, <2>2
<1>8. CASE Crash(p)
  <2>1. UNCHANGED <<cutoff, answers>> /\ crashes' \in 0..MaxCrashes
    BY <1>3, <1>8, JobAssumption DEF Crash
  <2>2. QED
    BY <1>2, <1>3, <2>1
<1>9. CASE \/ Acquire(p) \/ PublishOne(p) \/ PublishDone(p) \/ PublishRefused(p)
           \/ AppendRefused(p) \/ AppendSkewed(p) \/ ReadBack(p) \/ Rebuild(p)
           \/ RebuildRefused(p)
  <2>1. UNCHANGED <<cutoff, answers, crashes>>
    BY <1>9 DEF Acquire, PublishOne, PublishDone, PublishRefused, AppendRefused, AppendSkewed,
                ReadBack, Rebuild, RebuildRefused, End, sessionVars
  <2>2. QED
    BY <1>2, <1>3, <2>1
<1>10. QED
  BY <1>4, <1>6, <1>7, <1>8, <1>9 DEF SessionStep

\* What is retained stays where it is, whatever the step.
LEMMA LogKeeps ==
  ASSUME TypeOK, [OrdinaryNext]_vars
  PROVE  /\ Len(log) \in Nat /\ Len(log') \in Nat /\ Len(log) <= Len(log')
         /\ \A i \in 1..Len(log) : log'[i] = log[i]
<1>1. [Next]_vars
  BY DEF Next
<1>2. Len(log) \in Nat
  BY DEF TypeOK
<1>3. ASSUME NEW v \in Versions, NEW e \in Entries, AppendStep(v, e)
      PROVE  Len(log') = Len(log) + 1 /\ \A i \in 1..Len(log) : log'[i] = log[i]
  BY <1>3, AppendKeeps
<1>4. ASSUME log' = log
      PROVE  Len(log') = Len(log) /\ \A i \in 1..Len(log) : log'[i] = log[i]
  BY <1>4
<1>5. \/ Len(log') = Len(log) + 1 /\ \A i \in 1..Len(log) : log'[i] = log[i]
      \/ Len(log') = Len(log) /\ \A i \in 1..Len(log) : log'[i] = log[i]
  BY <1>1, <1>3, <1>4, StepKinds DEF AdvanceStep, RecoverStep, ShowStep
<1>6. QED
  BY <1>2, <1>5

-----------------------------------------------------------------------------
(***************************************************************************)
(* What the working session knows.                                         *)
(***************************************************************************)
\* The cutoff of a live session is not before the tip, from the reading of the
\* clock to the end of the publication it is for.
CutoffCoversTip(p) ==
  Publishing(p) /\ Live(p) /\ log # <<>> => log[Len(log)].recorded <= cutoff[p]

\* At its append, and again when it reads back, its projector shows the whole log.
ShowsTip(p) ==
  pc[p] \in {"appending", "answered"} /\ Live(p) => progress[Version(p)] = Len(log)

\* Past its append it has an answer; every answer is an entry of its own request.
HasAnswer(p) == pc[p] \in {"committed", "publishing", "answered"} => answers[p] # {}
AnswersOwn(p) == \A i \in answers[p] : log[i].req = Request(p)

Knows(p) ==
  /\ pc[p] \in Submitting => JobOf[p].kind = "submit"
  /\ CutoffCoversTip(p)
  /\ ShowsTip(p)
  /\ HasAnswer(p)
  /\ AnswersOwn(p)

SessionInv ==
  /\ TypeOK
  /\ LogVerifies
  /\ SessionTypeOK
  /\ \A p \in Sessions : Knows(p)

\* A session that is not working knows only what it was answered, and keeps that
\* whatever another does.
LEMMA Bystander ==
  ASSUME NEW q \in Sessions, pc'[q] \notin Working, answers'[q] = answers[q],
         answers[q] \subseteq 1..Len(log), Knows(q),
         \A i \in 1..Len(log) : log'[i] = log[i]
  PROVE  Knows(q)'
<1>1. pc'[q] \notin Submitting /\ pc'[q] \notin {"appending", "answered"} /\ ~Publishing(q)'
  BY DEF Working, Submitting, Publishing, Places
<1>2. pc'[q] \notin {"committed", "publishing", "answered"}
  BY <1>1 DEF Submitting
<1>3. AnswersOwn(q)'
  BY DEF Knows, AnswersOwn
<1>4. QED
  BY <1>1, <1>2, <1>3 DEF Knows, CutoffCoversTip, ShowsTip, HasAnswer

\* The clock reading of a live session covers the tip.
LEMMA LiveAsOfCovers ==
  ASSUME TypeOK, log # <<>>
  PROVE  log[Len(log)].recorded <= LiveAsOf
<1>1. log[Len(log)] \in Entries
  BY DEF TypeOK
<1>2. log[Len(log)].recorded \in Nat /\ clock \in Nat
  BY <1>1, EntryTime, ClockAssumption DEF TypeOK, Clock
<1>3. QED
  BY <1>2 DEF LiveAsOf

\* Publication that ends with nothing pending, at a cutoff that covers the tip,
\* leaves the projector showing the whole log.
LEMMA NothingPendingAtTip ==
  ASSUME TypeOK, LogVerifies, NEW v \in Versions, NEW asOf \in Clock, PublishNothing(v, asOf),
         log # <<>> => log[Len(log)].recorded <= asOf
  PROVE  progress[v] = Len(log)
<1>1. progress[v] \in 0..Len(log) /\ Len(log) \in Nat
  BY DEF TypeOK
<1>2. SUFFICES ASSUME progress[v] < Len(log) PROVE FALSE
  BY <1>1
<1>3. progress[v] + 1 \in 1..Len(log) /\ log # <<>> /\ Len(log) \in 1..Len(log)
  BY <1>1, <1>2
<1>4. log[progress[v] + 1].recorded <= log[Len(log)].recorded
  BY <1>3, StampsOrdered
<1>5. log[progress[v] + 1].recorded > asOf /\ log[Len(log)].recorded <= asOf
  BY <1>2, <1>3 DEF PublishNothing
<1>6. log[progress[v] + 1] \in Entries /\ log[Len(log)] \in Entries
  BY <1>3 DEF TypeOK
<1>7. log[progress[v] + 1].recorded \in Nat /\ log[Len(log)].recorded \in Nat /\ asOf \in Nat
  BY <1>6, EntryTime, ClockAssumption DEF Clock
<1>8. QED
  BY <1>4, <1>5, <1>7

\* An answer given at the append: the session has it and the log holds it.
LEMMA AnswerKnows ==
  ASSUME SessionInv, NEW p \in Sessions, pc[p] = "appending", NEW i, Answer(p, i),
         log'[i].req = Request(p), \A k \in 1..Len(log) : log'[k] = log[k]
  PROVE  Knows(p)'
<1>1. pc'[p] = "committed" /\ answers'[p] = answers[p] \cup {i}
  BY DEF SessionInv, SessionTypeOK, Answer, GoTo
<1>2. JobOf[p].kind = "submit" /\ answers[p] \subseteq 1..Len(log) /\ AnswersOwn(p)
  BY DEF SessionInv, SessionTypeOK, Knows, Submitting
<1>3. AnswersOwn(p)'
  BY <1>1, <1>2 DEF AnswersOwn
<1>4. QED
  BY <1>1, <1>2, <1>3 DEF Knows, CutoffCoversTip, Publishing, ShowsTip, HasAnswer

\* A session keeps what it was answered when it moves on without an append.
LEMMA AnswersKept ==
  ASSUME NEW p, AnswersOwn(p), answers' = answers, log' = log
  PROVE  AnswersOwn(p)'
BY DEF AnswersOwn

\* A session that ends its turn, whichever way, keeps its answers and nothing else.
LEMMA EndKnows ==
  ASSUME SessionInv, NEW p \in Sessions, pc'[p] \notin Working, UNCHANGED <<log, answers>>
  PROVE  Knows(p)'
BY Bystander DEF SessionInv, SessionTypeOK

LEMMA CutoffKnows ==
  ASSUME SessionInv, NEW p \in Sessions, ChooseCutoff(p)
  PROVE  Knows(p)'
<1>1. /\ JobOf[p].kind = "submit" /\ UNCHANGED <<vars, answers>>
      /\ \/ pc[p] = "open" /\ pc'[p] = "draining"
         \/ pc[p] = "committed" /\ pc'[p] = "publishing"
  BY DEF ChooseCutoff, GoTo, SessionInv, SessionTypeOK
<1>2. HasAnswer(p) /\ AnswersOwn(p) /\ TypeOK
  BY DEF SessionInv, Knows
<1>3. CutoffCoversTip(p)'
  <2>1. SUFFICES ASSUME Live(p), log # <<>> PROVE log[Len(log)].recorded <= cutoff'[p]
    BY <1>1 DEF CutoffCoversTip, Live, vars
  <2>2. cutoff'[p] = LiveAsOf
    BY <2>1 DEF ChooseCutoff, SessionInv, SessionTypeOK
  <2>3. QED
    BY <1>2, <2>1, <2>2, LiveAsOfCovers
<1>4. AnswersOwn(p)'
  BY <1>1, <1>2, AnswersKept DEF vars
<1>5. QED
  BY <1>1, <1>2, <1>3, <1>4 DEF Knows, ShowsTip, HasAnswer

LEMMA PublishOneKnows ==
  ASSUME SessionInv, NEW p \in Sessions, PublishOne(p)
  PROVE  Knows(p)'
<1>1. Knows(p) /\ pc[p] \in {"draining", "publishing"}
  BY DEF SessionInv, PublishOne, Publishing
<1>2. UNCHANGED <<log, pc, cutoff, answers>>
  BY DEF PublishOne, PublishNext, sessionVars
<1>3. AnswersOwn(p)' /\ CutoffCoversTip(p)'
  BY <1>1, <1>2 DEF Knows, AnswersOwn, CutoffCoversTip, Publishing, Live
<1>4. QED
  BY <1>1, <1>2, <1>3 DEF Knows, ShowsTip, HasAnswer

LEMMA PublishDoneKnows ==
  ASSUME SessionInv, NEW p \in Sessions, PublishDone(p)
  PROVE  Knows(p)'
<1>1. Knows(p) /\ TypeOK /\ LogVerifies /\ cutoff[p] \in Clock
  BY DEF SessionInv, SessionTypeOK
<1>2. /\ UNCHANGED <<log, view, progress, cutoff, answers>>
      /\ PublishNothing(Version(p), cutoff[p])
      /\ \/ pc[p] = "draining" /\ pc'[p] = "appending"
         \/ pc[p] = "publishing" /\ pc'[p] = "answered"
  BY DEF PublishDone, PublishNothing, GoTo, SessionInv, SessionTypeOK
<1>3. ShowsTip(p)'
  <2>1. SUFFICES ASSUME Live(p) PROVE progress[Version(p)] = Len(log)
    BY <1>2 DEF ShowsTip, Live
  <2>2. log # <<>> => log[Len(log)].recorded <= cutoff[p]
    BY <1>1, <1>2, <2>1 DEF Knows, CutoffCoversTip, Publishing
  <2>3. QED
    BY <1>1, <1>2, <2>2, JobType, NothingPendingAtTip
<1>4. AnswersOwn(p)'
  BY <1>1, <1>2, AnswersKept DEF Knows
<1>5. JobOf[p].kind = "submit" /\ (pc'[p] = "answered" => answers'[p] # {})
  BY <1>1, <1>2 DEF Knows, Submitting, HasAnswer
<1>6. QED
  BY <1>2, <1>3, <1>4, <1>5 DEF Knows, CutoffCoversTip, Publishing, HasAnswer

LEMMA AppendKnows ==
  ASSUME SessionInv, NEW p \in Sessions, AppendNew(p) \/ AppendRetried(p)
  PROVE  Knows(p)'
<1>1. TypeOK /\ Len(log) \in Nat /\ DOMAIN log = 1..Len(log)
  BY DEF SessionInv, TypeOK
<1>2. CASE AppendNew(p)
  <2>1. /\ pc[p] = "appending" /\ Answer(p, Len(log) + 1)
        /\ log' = Append(log, Assign(Request(p)))
    BY <1>2 DEF AppendNew, AppendSubmission, Insert
  <2>2. /\ log'[Len(log) + 1] = Assign(Request(p))
        /\ \A k \in 1..Len(log) : log'[k] = log[k]
    BY <1>1, <2>1 DEF TypeOK
  <2>3. log'[Len(log) + 1].req = Request(p)
    BY <2>2 DEF Assign
  <2>4. QED
    BY <2>1, <2>2, <2>3, AnswerKnows
<1>3. CASE AppendRetried(p)
  <2>1. PICK i \in Retained(Request(p)) : OwnRow(Request(p), i) /\ Answer(p, i)
    BY <1>3 DEF AppendRetried
  <2>2. log' = log /\ pc[p] = "appending" /\ log[i].req = Request(p)
    BY <1>3, <2>1 DEF AppendRetried, OwnRow, vars
  <2>3. QED
    BY <2>1, <2>2, AnswerKnows
<1>4. QED
  BY <1>2, <1>3

LEMMA AcquireKnows ==
  ASSUME SessionInv, NEW p \in Sessions, Acquire(p)
  PROVE  Knows(p)'
<1>1. pc'[p] = "open" /\ UNCHANGED <<log, answers>>
  BY DEF Acquire, GoTo, vars, SessionInv, SessionTypeOK
<1>2. AnswersOwn(p)'
  BY <1>1, AnswersKept DEF SessionInv, Knows
<1>3. QED
  BY <1>1, <1>2 DEF Knows, Submitting, CutoffCoversTip, Publishing, ShowsTip, HasAnswer

LEMMA EndingKnows ==
  ASSUME SessionInv, NEW p \in Sessions,
         \/ PublishRefused(p) \/ AppendRefused(p) \/ AppendSkewed(p) \/ ReadBack(p)
         \/ Rebuild(p) \/ RebuildRefused(p) \/ Crash(p)
  PROVE  Knows(p)'
<1>1. UNCHANGED <<log, answers>>
  BY DEF PublishRefused, AppendRefused, AppendSkewed, ReadBack, Rebuild, RebuildProjection,
         RebuildRefused, Crash, End, vars
<1>2. \E place \in {"idle", "done", "failed"} : pc' = [pc EXCEPT ![p] = place]
  BY DEF PublishRefused, AppendRefused, AppendSkewed, ReadBack, Rebuild, RebuildRefused,
         Crash, End, GoTo
<1>3. pc'[p] \notin Working
  BY <1>2 DEF SessionInv, SessionTypeOK, Working
<1>4. QED
  BY <1>1, <1>3, EndKnows

-----------------------------------------------------------------------------
LEMMA SessionInvInit == SessionInit => SessionInv
<1>1. SUFFICES ASSUME SessionInit PROVE SessionInv
  OBVIOUS
<1>2. TypeOK /\ LogVerifies /\ Len(log) \in Nat /\ 0 \in Clock
  <2>1. TypeOK /\ log = <<>>
    BY <1>1, TypeInit DEF SessionInit, Init
  <2>2. QED
    BY <2>1, ClockAssumption DEF LogVerifies, TypeOK, Clock
<1>3. SessionTypeOK
  BY <1>1, <1>2, JobAssumption DEF SessionInit, SessionTypeOK, Places, Working
<1>4. \A p \in Sessions : Knows(p)
  BY <1>1 DEF SessionInit, Knows, Submitting, CutoffCoversTip, Publishing, ShowsTip, HasAnswer,
             AnswersOwn
<1>5. QED
  BY <1>2, <1>3, <1>4 DEF SessionInv

LEMMA SessionStoreStep ==
  ASSUME SessionInv, [SessionNext]_allVars
  PROVE  [OrdinaryNext]_vars
BY StoreStep DEF SessionInv, Knows, SubmittersSubmit

LEMMA SessionInvNext == SessionInv /\ [SessionNext]_allVars => SessionInv'
<1>1. SUFFICES ASSUME SessionInv, [SessionNext]_allVars PROVE SessionInv'
  OBVIOUS
<1>2. [OrdinaryNext]_vars /\ [Next]_vars
  BY <1>1, SessionStoreStep DEF Next
<1>3. TypeOK' /\ LogVerifies'
  BY <1>1, <1>2, TypeNext, LogVerifiesNext DEF SessionInv
<1>4. /\ Len(log) \in Nat /\ Len(log') \in Nat /\ Len(log) <= Len(log')
      /\ \A i \in 1..Len(log) : log'[i] = log[i]
  BY <1>1, <1>2, LogKeeps DEF SessionInv
<1>5. ASSUME NEW p \in Sessions, SessionStep(p) \/ Crash(p)
      PROVE  SessionTypeOK' /\ \A q \in Sessions : Knows(q)'
  <2>1. PICK place \in Places : Turn(p, place)
    BY <1>1, <1>5, Turns DEF SessionInv
  <2>2. SessionTypeOK'
    BY <1>1, <1>3, <1>4, <1>5, <2>1, LockNext, HistoryNext DEF SessionInv, SessionTypeOK
  <2>3. ASSUME NEW q \in Sessions, q # p PROVE Knows(q)'
    <3>1. pc'[q] \notin Working
      BY <1>1, <2>1, <2>3, OthersIdle DEF SessionInv
    <3>2. answers'[q] = answers[q]
      BY <1>1, <1>5, <2>3 DEF SessionInv, SessionTypeOK, SessionStep, Acquire, ChooseCutoff,
           PublishOne, PublishDone, PublishRefused, AppendNew, AppendRetried, AppendRefused,
           AppendSkewed, ReadBack, Rebuild, RebuildRefused, Crash, End, Answer, sessionVars
    <3>3. QED
      BY <1>1, <1>4, <3>1, <3>2, Bystander DEF SessionInv, SessionTypeOK
  <2>4. Knows(p)'
    BY <1>1, <1>5, AcquireKnows, CutoffKnows, PublishOneKnows, PublishDoneKnows, AppendKnows,
       EndingKnows DEF SessionStep
  <2>5. QED
    BY <2>2, <2>3, <2>4
<1>6. ASSUME UNCHANGED sessionVars, UNCHANGED <<log, view, progress>>
      PROVE  SessionTypeOK' /\ \A q \in Sessions : Knows(q)'
  BY <1>1, <1>6 DEF sessionVars, SessionInv, SessionTypeOK, Knows, CutoffCoversTip, Publishing,
     Live, ShowsTip, HasAnswer, AnswersOwn
<1>7. CASE ClockMoves /\ UNCHANGED sessionVars
  BY <1>3, <1>6, <1>7 DEF ClockMoves, SessionInv
<1>8. CASE UNCHANGED allVars
  BY <1>3, <1>6, <1>8 DEF allVars, sessionVars, SessionInv
<1>9. QED
  BY <1>1, <1>3, <1>5, <1>7, <1>8 DEF SessionNext, SessionInv

LEMMA SessionsKeepInv == SessionSpec => []SessionInv
BY SessionInvInit, SessionInvNext, PTL DEF SessionSpec

\* One session works at a time and owns the store while it does: SessionTypeOK.
THEOREM SessionTypeCorrect == SessionSpec => []SessionTypeOK
<1>1. SessionInv => SessionTypeOK
  BY DEF SessionInv
<1>2. QED
  BY <1>1, SessionsKeepInv, PTL

\* The sessions, their retries and their crashes only ever run transactions of
\* the store, so that they too implement the ledger: ImplementsLedger.
THEOREM SessionsImplementLedger == SessionSpec => ImplementsLedger
<1>1. SessionInit => Init
  BY DEF SessionInit
<1>2. SessionInv /\ [SessionNext]_allVars => [Next]_vars
  BY SessionStoreStep DEF Next
<1>3. SessionSpec => Spec
  BY <1>1, <1>2, SessionsKeepInv, PTL DEF SessionSpec, Spec
<1>4. QED
  BY <1>3, StoreImplementsLedger

\* A live session reaches its append with its projector at the tip of the log,
\* whatever the clock did and whatever a dead session left: AppendsAtTip.
THEOREM LiveSessionsAppendAtTip == SessionSpec => []AppendsAtTip
<1>1. SessionInv => AppendsAtTip
  BY DEF SessionInv, Knows, ShowsTip, AppendsAtTip
<1>2. QED
  BY <1>1, SessionsKeepInv, PTL

\* A live session that reads back finds its own event published: ReadsOwnWrite.
THEOREM LiveSessionsReadOwnWrite == SessionSpec => []ReadsOwnWrite
<1>1. SessionInv => ReadsOwnWrite
  <2>1. SUFFICES ASSUME SessionInv, NEW p \in Sessions, pc[p] = "answered", Live(p)
                 PROVE  answers[p] # {} /\ \A i \in answers[p] : i <= progress[Version(p)]
    BY DEF ReadsOwnWrite
  <2>2. answers[p] # {} /\ progress[Version(p)] = Len(log)
    BY <2>1 DEF SessionInv, Knows, HasAnswer, ShowsTip
  <2>3. answers[p] \subseteq 1..Len(log)
    BY <2>1 DEF SessionInv, SessionTypeOK
  <2>4. QED
    BY <2>1, <2>2, <2>3 DEF SessionInv, TypeOK
<1>2. QED
  BY <1>1, SessionsKeepInv, PTL

\* However often a retained request is submitted, and by whichever sessions, it
\* is answered with the one entry that holds it: OneAnswerPerRequest.
THEOREM RetriesGetOneAnswer == SessionSpec => []OneAnswerPerRequest
<1>1. SessionInv => OneAnswerPerRequest
  <2>1. SUFFICES ASSUME SessionInv, NEW p \in Sessions, NEW q \in Sessions,
                        NEW i \in answers[p], NEW j \in answers[q]
                 PROVE  log[i].req = Request(p) /\ (i = j <=> Request(p) = Request(q))
    BY DEF OneAnswerPerRequest
  <2>2. log[i].req = Request(p) /\ log[j].req = Request(q)
    BY <2>1 DEF SessionInv, Knows, AnswersOwn
  <2>3. i \in 1..Len(log) /\ j \in 1..Len(log) /\ Len(log) \in Nat
    BY <2>1 DEF SessionInv, SessionTypeOK, TypeOK
  <2>4. ASSUME NEW k \in 1..Len(log), NEW m \in 1..Len(log), k < m
        PROVE  log[k].req # log[m].req
    <3>1. k \in 1..(m-1)
      BY <2>3, <2>4
    <3>2. ~Conflicts(log[k].req, log[m].req)
      BY <2>1, <3>1 DEF SessionInv, LogVerifies
    <3>3. QED
      BY <3>2 DEF Conflicts
  <2>5. i = j \/ i < j \/ j < i
    BY <2>3
  <2>6. QED
    BY <2>2, <2>3, <2>4, <2>5
<1>2. QED
  BY <1>1, SessionsKeepInv, PTL
=============================================================================
