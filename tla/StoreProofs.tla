------------------------------ MODULE StoreProofs ------------------------------
(***************************************************************************)
(* Theorems about Store for every set of requests, every clock bound and   *)
(* every threshold.  The first of them hold whatever the reducer accepts:  *)
(* Admits, Delta, Upsert and Publish stay opaque but for the few facts     *)
(* proved about them here.  Then come the records the store shows: the     *)
(* beliefs and candidates of a view, the endings of projector 3, and the   *)
(* freshness of what is read.  A view is the replay of admitted entries,   *)
(* so what the reducer keeps true of the tables (module ReducerProofs)     *)
(* holds of every view.                                                    *)
(***************************************************************************)
EXTENDS Store, ReducerProofs

-----------------------------------------------------------------------------
(***************************************************************************)
(* Types, and the log as a chain.                                          *)
(***************************************************************************)
\* A table of log positions.
Positions(index, n) == \A k \in DOMAIN index : index[k] \in 1..n

LEMMA UpsertPositions ==
  ASSUME NEW rows, NEW table, NEW n \in Nat, Positions(rows, n), Positions(table, n)
  PROVE  Positions(Upsert(rows, table), n)
BY DEF Upsert, Positions

LEMMA ActivatedType ==
  ASSUME NEW index, DOMAIN index = Versions
  PROVE  /\ DOMAIN Activated(index) = Versions
         /\ \A v \in Versions : Activated(index)[v] \in {index[v], index["2"]}
BY DEF Activated, Versions

\* Activation keeps every freshness row pointing into the log.
LEMMA ActivateForwardType ==
  ASSUME TypeOK, NEW v, ActivateForward(v), log' = log
  PROVE  /\ DOMAIN latest' = Versions
         /\ \A w \in Versions : \A s \in DOMAIN latest'[w] : latest'[w][s] \in 1..Len(log')
         /\ DOMAIN subjectOf' = Versions
<1>1. CASE v = "3"
  <2>1. latest' = Activated(latest) /\ subjectOf' = Activated(subjectOf)
    BY <1>1 DEF ActivateForward
  <2>2. "2" \in Versions
    BY DEF Versions
  <2>3. QED
    BY <2>1, <2>2, ActivatedType DEF TypeOK
<1>2. CASE v # "3"
  BY <1>2 DEF ActivateForward, TypeOK
<1>3. QED
  BY <1>1, <1>2

LEMMA TipHashType ==
  ASSUME TypeOK
  PROVE  TipHash \in Seq(Stamped)
<1>1. CASE log = <<>>
  BY <1>1 DEF TipHash
<1>2. CASE log # <<>>
  <2>1. log[Len(log)] \in Entries
    BY <1>2 DEF TypeOK
  <2>2. QED
    BY <1>2, <2>1 DEF TipHash, EventHash, Stamp, Entries, Stamped
<1>3. QED
  BY <1>1, <1>2

LEMMA AssignType ==
  ASSUME TypeOK, NEW r \in Requests
  PROVE  Assign(r) \in Entries
<1>1. AssignedStamp \in Clock
  <2>1. log # <<>> => log[Len(log)] \in Entries
    BY DEF TypeOK
  <2>2. QED
    BY <2>1 DEF AssignedStamp, TypeOK, Entries
<1>2. QED
  BY <1>1, TipHashType DEF Assign, Entries

\* Whatever is appended, in whichever way, is a typed entry.
LEMMA InsertType ==
  ASSUME TypeOK, NEW v \in Versions, NEW e \in Entries, Insert(v, e), clock' \in Clock
  PROVE  TypeOK'
<1> DEFINE d       == Delta(view[v], e.req, e.recorded, NextPosition)
           forward == v = "3" \/ ForwardActive
           kept(w) == w # "3" \/ forward
           seen    == IF forward THEN Activated(latest) ELSE latest
           owned   == IF forward THEN Activated(subjectOf) ELSE subjectOf
           touched == [s \in SubjectsTouched(d) |-> NextPosition]
<1>1. /\ log' = Append(log, e)
      /\ latest' = [w \in Versions |-> IF kept(w) THEN Upsert(touched, seen[w]) ELSE seen[w]]
      /\ subjectOf' = [w \in Versions |->
           IF kept(w) THEN Upsert(owned[w], [b \in DOMAIN d.beliefs |-> d.beliefs[b].subject])
                      ELSE owned[w]]
      /\ UNCHANGED <<view, progress>>
  BY DEF Insert
<1>2. log' \in Seq(Entries) /\ Len(log') = Len(log) + 1 /\ Len(log) \in Nat
  BY <1>1 DEF TypeOK
<1>3. Positions(touched, Len(log'))
  BY <1>2 DEF Positions, NextPosition
<1>4. \A w \in Versions : Positions(seen[w], Len(log'))
  <2>1. "2" \in Versions
    BY DEF Versions
  <2>2. \A w \in Versions : Positions(latest[w], Len(log'))
    BY <1>2 DEF TypeOK, Positions
  <2>3. QED
    BY <2>1, <2>2, ActivatedType DEF TypeOK
<1>5. \A w \in Versions : Positions(latest'[w], Len(log'))
  <2> HIDE DEF touched, seen, kept
  <2> QED BY <1>1, <1>2, <1>3, <1>4, UpsertPositions
<1>6. progress' \in [Versions -> 0..Len(log')]
  BY <1>1, <1>2 DEF TypeOK
<1>7. QED
  BY <1>1, <1>2, <1>5, <1>6 DEF TypeOK, Positions

\* Publication and recovery keep the types: the projector's own progress moves
\* within the log, the log and the clock stay.
LEMMA ShowType ==
  ASSUME TypeOK, NEW v \in Versions, NEW n \in 0..Len(log), NEW t, ActivateForward(v),
         view' = [view EXCEPT ![v] = t], progress' = [progress EXCEPT ![v] = n],
         UNCHANGED <<log, clock>>
  PROVE  TypeOK'
<1>1. DOMAIN view' = Versions /\ progress' \in [Versions -> 0..Len(log')]
  BY DEF TypeOK
<1>2. QED
  BY <1>1, ActivateForwardType DEF TypeOK

LEMMA TypeInit == Init => TypeOK
<1>1. SUFFICES ASSUME Init PROVE TypeOK
  OBVIOUS
<1>2. log \in Seq(Entries) /\ Len(log) = 0
  BY <1>1 DEF Init
<1>3. \A v \in Versions : DOMAIN latest[v] = {}
  BY <1>1 DEF Init, NoRows
<1>4. QED
  BY <1>1, <1>2, <1>3 DEF Init, TypeOK

LEMMA TypeNext == TypeOK /\ [Next]_vars => TypeOK'
<1>1. SUFFICES ASSUME TypeOK, [Next]_vars PROVE TypeOK'
  OBVIOUS
<1>2. Len(log) \in Nat
  BY <1>1 DEF TypeOK
<1>3. ASSUME NEW v \in Versions, NEW r \in Requests, AppendSubmission(v, r) PROVE TypeOK'
  BY <1>1, <1>3, AssignType, InsertType DEF AppendSubmission
<1>4. ASSUME NEW v \in Versions, NEW asOf \in Clock, PublishNext(v, asOf) PROVE TypeOK'
  <2>1. progress[v] + 1 \in 0..Len(log)
    BY <1>1, <1>2, <1>4 DEF PublishNext, TypeOK
  <2>2. QED
    BY <1>1, <1>4, <2>1, ShowType DEF PublishNext
<1>5. ASSUME NEW v \in Versions, NEW asOf \in Clock, PublishNothing(v, asOf) PROVE TypeOK'
  <2>1. UNCHANGED <<log, view, progress, clock>> /\ ActivateForward(v)
    BY <1>5 DEF PublishNothing
  <2>2. QED
    BY <1>1, <2>1, ActivateForwardType DEF TypeOK
<1>6. ASSUME NEW v \in Versions, NEW asOf \in Clock, RebuildProjection(v, asOf) PROVE TypeOK'
  <2>1. PICK n \in 0..Len(log) :
          /\ view' = [view EXCEPT ![v] = ReplayOf(log, Deleted(view[v]))[n]]
          /\ progress' = [progress EXCEPT ![v] = n]
          /\ ActivateForward(v)
          /\ UNCHANGED <<log, clock>>
    BY <1>6 DEF RebuildProjection
  <2>2. QED
    BY <1>1, <2>1, ShowType
<1>7. CASE ClockMoves
  BY <1>1, <1>7 DEF ClockMoves, TypeOK
<1>8. ASSUME NEW v \in Versions, NEW r \in Requests, NEW n \in 0..Len(log), NEW t \in Clock,
             SafeAppend(v, r, n, t)
      PROVE  TypeOK'
  <2> DEFINE prev == IF n = 0 THEN <<>> ELSE EventHash(log[n])
             e    == [req |-> r, recorded |-> t, prev |-> prev]
  <2>1. prev \in Seq(Stamped)
    <3>1. CASE n = 0
      BY <3>1
    <3>2. CASE n # 0
      <4>1. log[n] \in Entries
        BY <1>1, <3>2 DEF TypeOK
      <4>2. QED
        BY <3>2, <4>1 DEF EventHash, Stamp, Entries, Stamped
    <3>3. QED
      BY <3>1, <3>2
  <2>2. e \in Entries
    BY <2>1 DEF Entries
  <2>3. Insert(v, e) /\ clock' \in Clock
    BY <1>1, <1>8 DEF SafeAppend, TypeOK
  <2>4. QED
    <3> HIDE DEF e
    <3> QED BY <1>1, <2>2, <2>3, InsertType
<1>9. CASE UNCHANGED vars
  BY <1>1, <1>9 DEF vars, TypeOK
<1>10. QED
  BY <1>1, <1>3, <1>4, <1>5, <1>6, <1>7, <1>8, <1>9 DEF Next, OrdinaryNext

\* Every variable keeps its shape, whoever runs the transactions: TypeOK.
THEOREM TypeCorrect == Spec => []TypeOK
BY TypeInit, TypeNext, PTL DEF Spec

-----------------------------------------------------------------------------
(***************************************************************************)
(* The kinds of step: every transaction appends one checked entry, or makes *)
(* one projector show another prefix, or leaves log and views alone.       *)
(***************************************************************************)
AppendStep(v, e) == Appendable(v, e) /\ Insert(v, e)

\* Projector v comes to show the first n events as the tables t.
ShowStep(v, n, t) ==
  /\ view' = [view EXCEPT ![v] = t]
  /\ progress' = [progress EXCEPT ![v] = n]
  /\ UNCHANGED log

AdvanceStep(v) ==
  LET pos == progress[v] + 1 IN
  /\ progress[v] < Len(log)
  /\ Admits(v, view[v], log[pos].req)
  /\ ShowStep(v, pos, Apply(view[v], log[pos], pos))

RecoverStep(v, n) ==
  LET at == ReplayOf(log, Deleted(view[v])) IN
  /\ \A i \in 1..n : Admits(v, at[i-1], log[i].req)
  /\ ShowStep(v, n, at[n])

LEMMA StepKinds ==
  ASSUME TypeOK, [Next]_vars
  PROVE  \/ \E v \in Versions, e \in Entries : AppendStep(v, e)
         \/ \E v \in Versions : AdvanceStep(v)
         \/ \E v \in Versions, n \in 0..Len(log) : RecoverStep(v, n)
         \/ UNCHANGED <<log, view, progress>>
<1>1. ASSUME NEW v \in Versions, NEW r \in Requests, AppendSubmission(v, r)
      PROVE  \E e \in Entries : AppendStep(v, e)
  BY <1>1, AssignType DEF AppendSubmission, AppendStep
<1>2. ASSUME NEW v \in Versions, NEW asOf \in Clock, PublishNext(v, asOf)
      PROVE  AdvanceStep(v)
  BY <1>2 DEF PublishNext, AdvanceStep, ShowStep
<1>3. ASSUME NEW v \in Versions, NEW asOf \in Clock, PublishNothing(v, asOf)
      PROVE  UNCHANGED <<log, view, progress>>
  BY <1>3 DEF PublishNothing
<1>4. ASSUME NEW v \in Versions, NEW asOf \in Clock, RebuildProjection(v, asOf)
      PROVE  \E n \in 0..Len(log) : RecoverStep(v, n)
  BY <1>4 DEF RebuildProjection, RecoverStep, ShowStep
<1>5. ASSUME NEW v \in Versions, NEW r \in Requests, NEW n \in 0..Len(log), NEW t \in Clock,
             SafeAppend(v, r, n, t)
      PROVE  \E e \in Entries : AppendStep(v, e)
  <2> DEFINE e == [req |-> r, recorded |-> t,
                   prev |-> IF n = 0 THEN <<>> ELSE EventHash(log[n])]
  <2>1. Appendable(v, e) /\ Insert(v, e)
    BY <1>5 DEF SafeAppend
  <2>2. e.prev = TipHash
    BY <2>1 DEF Appendable
  <2>3. e \in Entries
    BY <2>2, TipHashType DEF Entries
  <2>4. QED
    BY <2>1, <2>3 DEF AppendStep
<1>6. CASE ClockMoves
  BY <1>6 DEF ClockMoves
<1>7. CASE UNCHANGED vars
  BY <1>7 DEF vars
<1>8. QED
  BY <1>1, <1>2, <1>3, <1>4, <1>5, <1>6, <1>7 DEF Next, OrdinaryNext

\* An append leaves every earlier entry where it is.
LEMMA AppendKeeps ==
  ASSUME TypeOK, NEW v, NEW e \in Entries, AppendStep(v, e)
  PROVE  /\ log \in Seq(Entries) /\ Len(log) \in Nat
         /\ log' \in Seq(Entries) /\ Len(log') = Len(log) + 1
         /\ \A i \in 1..Len(log) : log'[i] = log[i]
         /\ log'[Len(log) + 1] = e
         /\ UNCHANGED <<view, progress>>
BY DEF AppendStep, Insert, TypeOK

-----------------------------------------------------------------------------
LEMMA LogVerifiesAppend ==
  ASSUME TypeOK, LogVerifies, NEW v, NEW e \in Entries, AppendStep(v, e)
  PROVE  LogVerifies'
<1>1. /\ Len(log) \in Nat /\ Len(log') = Len(log) + 1
      /\ \A i \in 1..Len(log) : log'[i] = log[i]
      /\ log'[Len(log) + 1] = e
  BY AppendKeeps
<1>2. /\ Retained(e.req) = {}
      /\ log # <<>> => e.recorded >= log[Len(log)].recorded
      /\ e.prev = TipHash
  BY DEF AppendStep, Appendable
<1>3. DOMAIN log = 1..Len(log) /\ (log = <<>> <=> Len(log) = 0)
  BY DEF TypeOK
<1>4. \A j \in 1..Len(log) : ~Conflicts(log[j].req, e.req)
  BY <1>2, <1>3 DEF Retained
<1>5. SUFFICES ASSUME NEW i \in 1..Len(log')
               PROVE  /\ log'[i].prev = (IF i = 1 THEN <<>> ELSE EventHash(log'[i-1]))
                      /\ i > 1 => log'[i].recorded >= log'[i-1].recorded
                      /\ \A j \in 1..(i-1) : ~Conflicts(log'[j].req, log'[i].req)
  BY DEF LogVerifies
<1>6. CASE i \in 1..Len(log)
  <2>1. log'[i] = log[i] /\ (i > 1 => log'[i-1] = log[i-1])
    BY <1>1, <1>6
  <2>2. \A j \in 1..(i-1) : log'[j] = log[j]
    BY <1>1, <1>6
  <2>3. /\ log[i].prev = (IF i = 1 THEN <<>> ELSE EventHash(log[i-1]))
        /\ i > 1 => log[i].recorded >= log[i-1].recorded
        /\ \A j \in 1..(i-1) : ~Conflicts(log[j].req, log[i].req)
    BY <1>6 DEF LogVerifies
  <2>4. i = 1 \/ i > 1
    BY <1>1, <1>6
  <2>5. log'[i].prev = (IF i = 1 THEN <<>> ELSE EventHash(log'[i-1]))
    BY <2>1, <2>3, <2>4
  <2>6. QED
    BY <2>1, <2>2, <2>3, <2>5
<1>7. CASE i = Len(log) + 1
  <2>1. log'[i].prev = (IF i = 1 THEN <<>> ELSE EventHash(log'[i-1]))
    BY <1>1, <1>2, <1>3, <1>7 DEF TipHash
  <2>2. i > 1 => log'[i].recorded >= log'[i-1].recorded
    BY <1>1, <1>2, <1>3, <1>7
  <2>3. \A j \in 1..(i-1) : ~Conflicts(log'[j].req, log'[i].req)
    BY <1>1, <1>4, <1>7
  <2>4. QED
    BY <2>1, <2>2, <2>3
<1>8. QED
  BY <1>1, <1>5, <1>6, <1>7

LEMMA LogVerifiesNext == TypeOK /\ LogVerifies /\ [Next]_vars => LogVerifies'
<1>1. SUFFICES ASSUME TypeOK, LogVerifies, [Next]_vars, log' # log PROVE LogVerifies'
  BY DEF LogVerifies
<1>2. \E v \in Versions, e \in Entries : AppendStep(v, e)
  BY <1>1, StepKinds DEF AdvanceStep, RecoverStep, ShowStep
<1>3. QED
  BY <1>1, <1>2, LogVerifiesAppend

\* The log always passes verified_log, through both append paths and whatever
\* the clock does: LogVerifies.
THEOREM LogAlwaysVerifies == Spec => []LogVerifies
<1>1. Init => LogVerifies
  BY DEF Init, LogVerifies
<1>2. QED
  BY <1>1, TypeInit, TypeNext, LogVerifiesNext, PTL DEF Spec

-----------------------------------------------------------------------------
(***************************************************************************)
(* Views are replays.                                                      *)
(***************************************************************************)
\* The events a projector shows are events it admitted, each on the replay of
\* those before it.
ShownAdmitted ==
  \A v \in Versions : \A i \in 1..progress[v] : Admits(v, Replay[i-1], log[i].req)

ReplayInv == TypeOK /\ ViewIsReplay /\ ShownAdmitted

LEMMA AppendKeepsReplay ==
  ASSUME TypeOK, NEW v, NEW e \in Entries, AppendStep(v, e), NEW n \in 0..Len(log)
  PROVE  Replay'[n] = Replay[n]
<1>1. /\ Len(log) \in Nat /\ Len(log') = Len(log) + 1
      /\ \A i \in 1..Len(log) : log'[i] = log[i]
  BY AppendKeeps
<1>2. ReplayOf(log', EmptySnapshot)[n] = ReplayOf(log, EmptySnapshot)[n]
  <2>1. \A i \in 1..n : \A s, pos : Apply(s, log'[i], pos) = Apply(s, log[i], pos)
    BY <1>1
  <2>2. Len(log') \in Nat /\ n \in Nat /\ n <= Len(log') /\ n <= Len(log)
    BY <1>1
  <2>3. QED
    BY <1>1, <2>1, <2>2, ReplayPrefix
<1>3. QED
  BY <1>2 DEF Replay

\* The rows a recovery starts from are those of an empty store.
LEMMA DeletedIsEmpty ==
  ASSUME TypeOK, ViewIsReplay, NEW v \in Versions
  PROVE  Deleted(view[v]) = EmptySnapshot
<1>1. progress[v] \in 0..Len(log) /\ Len(log) \in Nat
  BY DEF TypeOK
<1>2. DOMAIN view[v] = DOMAIN EmptySnapshot
  BY <1>1, ReplayDomain DEF ViewIsReplay, Replay
<1>3. EmptySnapshot = [table \in DOMAIN EmptySnapshot |-> NoRows]
  BY DEF EmptySnapshot
<1>4. QED
  BY <1>2, <1>3 DEF Deleted

LEMMA ReplayInvAppend ==
  ASSUME ReplayInv, NEW v \in Versions, NEW e \in Entries, AppendStep(v, e)
  PROVE  ViewIsReplay' /\ ShownAdmitted'
<1>1. /\ Len(log) \in Nat
      /\ \A i \in 1..Len(log) : log'[i] = log[i]
      /\ view' = view /\ progress' = progress
  BY AppendKeeps DEF ReplayInv
<1>2. \A n \in 0..Len(log) : Replay'[n] = Replay[n]
  BY AppendKeepsReplay DEF ReplayInv
<1>3. \A w \in Versions : progress[w] \in 0..Len(log)
  BY DEF ReplayInv, TypeOK
<1>4. ViewIsReplay'
  BY <1>1, <1>2, <1>3 DEF ReplayInv, ViewIsReplay
<1>5. ShownAdmitted'
  <2>1. SUFFICES ASSUME NEW w \in Versions, NEW i \in 1..progress'[w]
                 PROVE  Admits(w, Replay'[i-1], log'[i].req)
    BY DEF ShownAdmitted
  <2>2. i \in 1..Len(log) /\ i - 1 \in 0..Len(log) /\ i \in 1..progress[w]
    BY <1>1, <1>3
  <2>3. Admits(w, Replay[i-1], log[i].req)
    BY <2>2 DEF ReplayInv, ShownAdmitted
  <2>4. QED
    BY <1>1, <1>2, <2>2, <2>3
<1>6. QED
  BY <1>4, <1>5

\* One projector showing another replayed prefix keeps the others as they are.
LEMMA ReplayInvShow ==
  ASSUME ReplayInv, NEW v \in Versions, NEW n \in 0..Len(log),
         ShowStep(v, n, Replay[n]),
         \A i \in 1..n : Admits(v, Replay[i-1], log[i].req)
  PROVE  ViewIsReplay' /\ ShownAdmitted'
<1>1. Replay' = Replay /\ log' = log
  BY DEF ShowStep, Replay
<1>2. \A w \in Versions :
        /\ view'[w] = IF w = v THEN Replay[n] ELSE view[w]
        /\ progress'[w] = IF w = v THEN n ELSE progress[w]
  BY DEF ShowStep, ReplayInv, TypeOK
<1>3. QED
  BY <1>1, <1>2 DEF ReplayInv, ViewIsReplay, ShownAdmitted

LEMMA AdvanceShows ==
  ASSUME ReplayInv, NEW v \in Versions, AdvanceStep(v)
  PROVE  \E n \in 0..Len(log) :
           /\ ShowStep(v, n, Replay[n])
           /\ \A i \in 1..n : Admits(v, Replay[i-1], log[i].req)
<1> DEFINE pos == progress[v] + 1
<1>1. progress[v] \in 0..Len(log) /\ Len(log) \in Nat /\ progress[v] < Len(log)
  BY DEF ReplayInv, TypeOK, AdvanceStep
<1>2. pos \in 1..Len(log) /\ pos - 1 = progress[v]
  BY <1>1
<1>3. view[v] = Replay[pos-1]
  BY <1>2 DEF ReplayInv, ViewIsReplay
<1>4. Replay[pos] = Apply(Replay[pos-1], log[pos], pos)
  BY <1>1, <1>2, ReplaySteps DEF Replay
<1>5. ShowStep(v, pos, Replay[pos]) /\ Admits(v, Replay[pos-1], log[pos].req)
  BY <1>3, <1>4 DEF AdvanceStep
<1>6. \A i \in 1..pos : Admits(v, Replay[i-1], log[i].req)
  <2>1. ASSUME NEW i \in 1..pos PROVE i \in 1..progress[v] \/ i = pos
    BY <1>1
  <2>2. QED
    BY <1>5, <2>1 DEF ReplayInv, ShownAdmitted
<1>7. QED
  BY <1>2, <1>5, <1>6

LEMMA RecoverShows ==
  ASSUME ReplayInv, NEW v \in Versions, NEW n \in 0..Len(log), RecoverStep(v, n)
  PROVE  /\ ShowStep(v, n, Replay[n])
         /\ \A i \in 1..n : Admits(v, Replay[i-1], log[i].req)
BY DeletedIsEmpty DEF ReplayInv, RecoverStep, Replay

LEMMA ReplayInvNext == ReplayInv /\ [Next]_vars => ReplayInv'
<1>1. SUFFICES ASSUME ReplayInv, [Next]_vars PROVE ReplayInv'
  OBVIOUS
<1>2. TypeOK /\ TypeOK'
  BY <1>1, TypeNext DEF ReplayInv
<1>3. ASSUME NEW v \in Versions, NEW e \in Entries, AppendStep(v, e)
      PROVE  ReplayInv'
  BY <1>1, <1>2, <1>3, ReplayInvAppend DEF ReplayInv
<1>4. ASSUME NEW v \in Versions, AdvanceStep(v) PROVE ReplayInv'
  BY <1>1, <1>2, <1>4, AdvanceShows, ReplayInvShow DEF ReplayInv
<1>5. ASSUME NEW v \in Versions, NEW n \in 0..Len(log), RecoverStep(v, n) PROVE ReplayInv'
  BY <1>1, <1>2, <1>5, RecoverShows, ReplayInvShow DEF ReplayInv
<1>6. CASE UNCHANGED <<log, view, progress>>
  BY <1>1, <1>2, <1>6 DEF ReplayInv, ViewIsReplay, ShownAdmitted, Replay
<1>7. QED
  BY <1>1, <1>2, <1>3, <1>4, <1>5, <1>6, StepKinds

LEMMA ReplayInvInit == Init => ReplayInv
<1>1. SUFFICES ASSUME Init PROVE ReplayInv
  OBVIOUS
<1>2. TypeOK
  BY <1>1, TypeInit
<1>3. Replay[0] = EmptySnapshot
  BY <1>2, ReplaySteps DEF Replay, TypeOK
<1>4. QED
  BY <1>1, <1>2, <1>3 DEF Init, ReplayInv, ViewIsReplay, ShownAdmitted

\* Incremental publication, however interrupted, and recovery show the same
\* thing: the replay of the prefix that progress names.
THEOREM ViewsAreReplays == Spec => []ViewIsReplay
<1>1. ReplayInv => ViewIsReplay
  BY DEF ReplayInv
<1>2. QED
  BY <1>1, ReplayInvInit, ReplayInvNext, PTL DEF Spec

-----------------------------------------------------------------------------
(***************************************************************************)
(* What was committed can be replayed.                                     *)
(***************************************************************************)
\* Projectors differ only in the transitions: on the same tables, what one
\* admits any other that knows the event type admits.
LEMMA AdmissionAgrees ==
  ASSUME NEW v, NEW w, NEW s, NEW r, Admits(v, s, r), w = "3" \/ r.type \notin Transitions
  PROVE  Admits(w, s, r)
BY DEF Admits, AdmitsTransition

LEMMA ReplayableAppend ==
  ASSUME ReplayInv, Replayable, NEW v \in Versions, NEW e \in Entries, AppendStep(v, e)
  PROVE  Replayable'
<1>1. /\ Len(log) \in Nat /\ Len(log') = Len(log) + 1
      /\ \A i \in 1..Len(log) : log'[i] = log[i]
      /\ log'[Len(log) + 1] = e
  BY AppendKeeps DEF ReplayInv
<1>2. \A n \in 0..Len(log) : Replay'[n] = Replay[n]
  BY AppendKeepsReplay DEF ReplayInv
<1>3. SUFFICES ASSUME NEW w \in Versions, NEW i \in 1..Len(log'),
                      w = "3" \/ \A j \in 1..i : log'[j].req.type \notin Transitions
               PROVE  Admits(w, Replay'[i-1], log'[i].req)
  BY DEF Replayable
<1>4. CASE i \in 1..Len(log)
  <2>1. i - 1 \in 0..Len(log) /\ \A j \in 1..i : log'[j] = log[j]
    BY <1>1, <1>4
  <2>2. w = "3" \/ \A j \in 1..i : log[j].req.type \notin Transitions
    BY <1>3, <2>1
  <2>3. Admits(w, Replay[i-1], log[i].req)
    BY <1>4, <2>2 DEF Replayable
  <2>4. QED
    BY <1>1, <1>2, <1>4, <2>1, <2>3
<1>5. CASE i = Len(log) + 1
  <2>1. Admits(v, view[v], e.req) /\ progress[v] = Len(log)
    BY DEF AppendStep, Appendable
  <2>2. view[v] = Replay[i-1]
    BY <1>1, <1>5, <2>1 DEF ReplayInv, ViewIsReplay
  <2>3. i - 1 \in 0..Len(log) /\ log'[i] = e /\ i \in 1..i
    BY <1>1, <1>5
  <2>4. w = "3" \/ e.req.type \notin Transitions
    BY <1>3, <2>3
  <2>5. Admits(w, Replay[i-1], e.req)
    BY <2>1, <2>2, <2>4, AdmissionAgrees
  <2>6. QED
    BY <1>2, <2>3, <2>5
<1>6. QED
  BY <1>1, <1>4, <1>5

LEMMA ReplayableNext == ReplayInv /\ Replayable /\ [Next]_vars => Replayable'
<1>1. SUFFICES ASSUME ReplayInv, Replayable, [Next]_vars PROVE Replayable'
  OBVIOUS
<1>2. CASE log' = log
  BY <1>1, <1>2 DEF Replayable, Replay
<1>3. CASE log' # log
  <2>1. \E v \in Versions, e \in Entries : AppendStep(v, e)
    BY <1>1, <1>3, StepKinds DEF ReplayInv, AdvanceStep, RecoverStep, ShowStep
  <2>2. QED
    BY <1>1, <2>1, ReplayableAppend
<1>4. QED
  BY <1>2, <1>3

\* No event is ever committed that a later replay would refuse: the check against
\* a caught-up view stands for the check against the whole log.
THEOREM CommittedIsReplayable == Spec => []Replayable
<1>1. Init => Replayable
  BY DEF Init, Replayable
<1>2. QED
  BY <1>1, ReplayInvInit, ReplayInvNext, ReplayableNext, PTL DEF Spec

-----------------------------------------------------------------------------
(***************************************************************************)
(* The store implements the ledger.                                        *)
(***************************************************************************)
Shadow == [i \in DOMAIN log |-> Stamp(log[i])]

\* A replay does not look at the predecessor hashes.
LEMMA StampReplays ==
  ASSUME NEW s, NEW e, NEW pos
  PROVE  Apply(s, Stamp(e), pos) = Apply(s, e, pos)
BY DEF Apply, Stamp

LEMMA ShadowSeq ==
  ASSUME TypeOK
  PROVE  /\ Shadow \in Seq(Stamped) /\ Len(Shadow) = Len(log) /\ Len(log) \in Nat
         /\ DOMAIN Shadow = 1..Len(log)
         /\ \A i \in 1..Len(log) : Shadow[i] = Stamp(log[i])
<1>1. Len(log) \in Nat /\ DOMAIN log = 1..Len(log) /\ \A i \in 1..Len(log) : log[i] \in Entries
  BY DEF TypeOK
<1>2. \A e \in Entries : Stamp(e) \in Stamped
  BY DEF Entries, Stamp, Stamped
<1>3. Shadow = [i \in 1..Len(log) |-> Stamp(log[i])]
  BY <1>1 DEF Shadow
<1>4. Shadow \in [1..Len(log) -> Stamped]
  BY <1>1, <1>2, <1>3
<1>5. Shadow \in Seq(Stamped) /\ Len(Shadow) = Len(log)
  BY <1>1, <1>4
<1>6. QED
  BY <1>1, <1>3, <1>5

\* The tables a prefix of the ledger determines are those a replay reaches.
LEMMA PrefixTables ==
  ASSUME TypeOK, NEW n \in 0..Len(log)
  PROVE  TablesOf(SubSeq(Shadow, 1, n)) = Replay[n]
<1> DEFINE p == SubSeq(Shadow, 1, n)
<1>1. /\ Shadow \in Seq(Stamped) /\ Len(Shadow) = Len(log) /\ Len(log) \in Nat
      /\ \A i \in 1..Len(log) : Shadow[i] = Stamp(log[i])
  BY ShadowSeq
<1>2. Len(p) = n /\ \A i \in 1..n : p[i] = Stamp(log[i])
  BY <1>1
<1> HIDE DEF p
<1>3. \A i \in 1..n : \A s, pos : Apply(s, p[i], pos) = Apply(s, log[i], pos)
  BY <1>2, StampReplays
<1>4. ReplayOf(p, EmptySnapshot)[n] = ReplayOf(log, EmptySnapshot)[n]
  <2>1. n \in Nat /\ Len(p) = n /\ Len(log) \in Nat /\ n <= Len(log)
    BY <1>1, <1>2
  <2>2. Len(p) \in Nat /\ n <= Len(p)
    BY <2>1
  <2>3. \A i \in 1..n : \A s, pos : Apply(s, p[i], pos) = Apply(s, log[i], pos)
    BY <1>3
  <2>4. QED
    BY ONLY <2>1, <2>2, <2>3, ReplayPrefix
<1>5. QED
  BY <1>2, <1>4 DEF TablesOf, Replay, p

LEMMA LedgerInit == Init => Abstract!Init
<1>1. SUFFICES ASSUME Init PROVE Abstract!Init
  OBVIOUS
<1>2. Len(<<>>) = 0
  OBVIOUS
<1>3. TablesOf(<<>>) = EmptySnapshot
  BY <1>2, ReplaySteps DEF TablesOf
<1>4. Shadow = <<>>
  BY <1>1 DEF Init, Shadow
<1>5. QED
  BY <1>1, <1>3, <1>4 DEF Init, Shadow, Abstract!Init

LEMMA EntryTime ==
  ASSUME NEW e \in Entries
  PROVE  e.recorded \in Nat
<1>1. e.recorded \in Clock
  BY DEF Entries
<1>2. QED
  BY <1>1, ClockAssumption DEF Clock

\* The last stamp is the latest one.
LEMMA StampsOrdered ==
  ASSUME TypeOK, LogVerifies, NEW i \in 1..Len(log)
  PROVE  log[i].recorded <= log[Len(log)].recorded
<1> DEFINE n   == Len(log)
           Bad == {k \in 0..(n-1) : ~(log[n-k].recorded <= log[n].recorded)}
<1>1. n \in Nat /\ \A j \in 1..n : log[j].recorded \in Nat
  <2>1. n \in Nat /\ \A j \in 1..n : log[j] \in Entries
    BY DEF TypeOK
  <2>2. QED
    BY <2>1, EntryTime
<1> HIDE DEF n
<1>2. SUFFICES ASSUME Bad # {} PROVE FALSE
  <2>1. n - i \in 0..(n-1) /\ n - (n - i) = i
    BY <1>1 DEF n
  <2>2. QED
    BY <2>1 DEF n
<1>3. Bad \in SUBSET Nat
  BY <1>1
<1>4. PICK m \in Bad : \A k \in Bad : ~(k < m)
  <2> HIDE DEF Bad
  <2> QED BY <1>2, <1>3, Least
<1>5. m # 0 /\ n \in 1..n
  BY <1>1, <1>4
<1>6. m - 1 \in 0..(n-1) /\ n - (m - 1) = (n - m) + 1 /\ (n - m) + 1 \in 1..n /\ n - m \in 1..n
  BY <1>1, <1>5
<1>7. log[(n-m)+1].recorded <= log[n].recorded
  BY <1>4, <1>6
<1>8. log[n-m].recorded <= log[(n-m)+1].recorded
  <2>1. (n-m)+1 > 1 /\ ((n-m)+1) - 1 = n-m
    BY <1>1, <1>6
  <2>2. log[(n-m)+1].recorded >= log[n-m].recorded
    BY <1>6, <2>1 DEF LogVerifies, n
  <2>3. QED
    BY <1>1, <1>6, <2>2
<1>9. log[n-m].recorded <= log[n].recorded
  <2>1. /\ log[n-m].recorded \in Nat /\ log[(n-m)+1].recorded \in Nat
        /\ log[n].recorded \in Nat
    BY <1>1, <1>5, <1>6
  <2>2. QED
    BY <1>7, <1>8, <2>1
<1>10. QED
  BY <1>4, <1>9

LEMMA AppendAccepts ==
  ASSUME ReplayInv, LogVerifies, NEW v \in Versions, NEW e \in Entries, AppendStep(v, e)
  PROVE  Abstract!Accept(v, e.req, e.recorded)
<1>1. /\ Shadow \in Seq(Stamped) /\ Len(Shadow) = Len(log) /\ Len(log) \in Nat
      /\ DOMAIN Shadow = 1..Len(log)
      /\ \A i \in 1..Len(log) : Shadow[i] = Stamp(log[i])
  BY ShadowSeq DEF ReplayInv
<1>2. /\ Retained(e.req) = {}
      /\ log # <<>> => e.recorded >= log[Len(log)].recorded
      /\ progress[v] = Len(log)
      /\ Admits(v, view[v], e.req)
  BY DEF AppendStep, Appendable
<1>3. /\ log' = Append(log, e) /\ log \in Seq(Entries)
      /\ UNCHANGED <<view, progress>>
  BY DEF AppendStep, Insert, ReplayInv, TypeOK
<1>4. progress[v] = Len(Shadow)
  BY <1>1, <1>2
<1>5. \A i \in DOMAIN Shadow : ~Conflicts(Shadow[i].req, e.req)
  BY <1>1, <1>2, <1>3 DEF Retained, Stamp
<1>6. ASSUME NEW i \in DOMAIN Shadow PROVE Shadow[i].recorded <= e.recorded
  <2>1. i \in 1..Len(log) /\ Shadow[i].recorded = log[i].recorded /\ log # <<>>
    BY <1>1, <1>3 DEF Stamp
  <2>2. log[i].recorded <= log[Len(log)].recorded
    BY <2>1, StampsOrdered DEF ReplayInv
  <2>3. /\ log[i].recorded \in Int /\ log[Len(log)].recorded \in Int /\ e.recorded \in Int
    <3>1. log[i] \in Entries /\ log[Len(log)] \in Entries
      BY <1>3, <2>1
    <3>2. QED
      BY <3>1, EntryTime
  <2>4. QED
    BY <1>2, <2>1, <2>2, <2>3
<1>7. Admits(v, TablesOf(Shadow), e.req)
  <2>1. Shadow = SubSeq(Shadow, 1, Len(log))
    BY <1>1
  <2>2. TablesOf(Shadow) = Replay[Len(log)]
    <3>1. Len(log) \in 0..Len(log) /\ TypeOK
      BY <1>1 DEF ReplayInv
    <3>2. TablesOf(SubSeq(Shadow, 1, Len(log))) = Replay[Len(log)]
      BY <3>1, PrefixTables
    <3>3. QED
      BY <2>1, <3>2
  <2>3. QED
    BY <1>2, <2>2 DEF ReplayInv, ViewIsReplay
<1>8. Shadow' = Append(Shadow, [req |-> e.req, recorded |-> e.recorded])
  <2>1. Shadow' = [i \in DOMAIN log' |-> Stamp(log'[i])]
    BY DEF Shadow
  <2>2. DOMAIN log' = 1..(Len(log)+1) /\ log'[Len(log)+1] = e
        /\ \A i \in 1..Len(log) : log'[i] = log[i]
    BY <1>1, <1>3
  <2> DEFINE s == Append(Shadow, Stamp(e))
  <2>3. DOMAIN s = 1..(Len(log)+1) /\ s[Len(log)+1] = Stamp(e)
        /\ \A i \in 1..Len(log) : s[i] = Stamp(log[i])
    BY <1>1
  <2>4. s = [i \in 1..(Len(log)+1) |-> s[i]]
    <3>1. Stamp(e) \in Stamped
      BY DEF Entries, Stamp, Stamped
    <3>2. s \in Seq(Stamped) /\ Len(s) = Len(log) + 1
      BY <1>1, <3>1
    <3> HIDE DEF s
    <3>3. s \in [1..(Len(log)+1) -> Stamped]
      BY <3>2
    <3> QED BY <3>3
  <2>5. \A i \in 1..(Len(log)+1) : Stamp(log'[i]) = s[i]
    <3> HIDE DEF s
    <3>1. \A i \in 1..(Len(log)+1) : i \in 1..Len(log) \/ i = Len(log)+1
      BY <1>1
    <3> QED BY <2>2, <2>3, <3>1
  <2>6. Shadow' = s
    <3> HIDE DEF s
    <3> QED BY <2>1, <2>2, <2>4, <2>5
  <2>7. QED
    BY <2>6 DEF Stamp
<1>9. QED
  BY <1>3, <1>4, <1>5, <1>6, <1>7, <1>8 DEF Abstract!Accept, Shadow

LEMMA ShowShows ==
  ASSUME ReplayInv, NEW v \in Versions, NEW n \in 0..Len(log),
         ShowStep(v, n, Replay[n]),
         \A i \in 1..n : Admits(v, Replay[i-1], log[i].req)
  PROVE  Abstract!Show(v, n)
<1>1. /\ Len(log) \in Nat /\ TypeOK
      /\ \A i \in 1..Len(log) : Shadow[i] = Stamp(log[i])
  BY ShadowSeq DEF ReplayInv
<1>2. \A i \in 0..Len(log) : TablesOf(SubSeq(Shadow, 1, i)) = Replay[i]
  BY <1>1, PrefixTables
<1>3. ASSUME NEW i \in 1..n
      PROVE  Admits(v, TablesOf(SubSeq(Shadow, 1, i-1)), Shadow[i].req)
  <2>1. i - 1 \in 0..Len(log) /\ i \in 1..Len(log)
    BY <1>1
  <2>2. Shadow[i].req = log[i].req
    <3>1. Shadow[i] = Stamp(log[i])
      BY <1>1, <2>1
    <3>2. QED
      BY <3>1 DEF Stamp
  <2>3. QED
    BY <1>2, <2>1, <2>2
<1>4. /\ view' = [view EXCEPT ![v] = TablesOf(SubSeq(Shadow, 1, n))]
      /\ progress' = [progress EXCEPT ![v] = n]
      /\ Shadow' = Shadow
  BY <1>2 DEF ShowStep, Shadow
<1>5. QED
  BY <1>3, <1>4 DEF Abstract!Show, Abstract!Prefix, Shadow

LEMMA LedgerNext ==
  ReplayInv /\ LogVerifies /\ [Next]_vars => [Abstract!Next]_<<Shadow, progress, view>>
<1>1. SUFFICES ASSUME ReplayInv, LogVerifies, [Next]_vars
               PROVE  [Abstract!Next]_<<Shadow, progress, view>>
  OBVIOUS
<1>2. TypeOK /\ Len(Shadow) = Len(log)
  BY <1>1, ShadowSeq DEF ReplayInv
<1>3. ASSUME NEW v \in Versions, NEW e \in Entries, AppendStep(v, e)
      PROVE  Abstract!Next
  <2>1. Abstract!Accept(v, e.req, e.recorded)
    BY <1>1, <1>3, AppendAccepts
  <2>2. e.req \in Requests /\ e.recorded \in Clock
    BY DEF Entries
  <2>3. QED
    BY <2>1, <2>2 DEF Abstract!Next
<1>4. ASSUME NEW v \in Versions, NEW n \in 0..Len(log), ShowStep(v, n, Replay[n]),
             \A i \in 1..n : Admits(v, Replay[i-1], log[i].req)
      PROVE  Abstract!Next
  <2>1. Abstract!Show(v, n)
    BY <1>1, <1>4, ShowShows
  <2>2. QED
    BY <1>2, <2>1 DEF Abstract!Next, Shadow
<1>5. ASSUME NEW v \in Versions, AdvanceStep(v) PROVE Abstract!Next
  BY <1>1, <1>4, <1>5, AdvanceShows
<1>6. ASSUME NEW v \in Versions, NEW n \in 0..Len(log), RecoverStep(v, n) PROVE Abstract!Next
  BY <1>1, <1>4, <1>6, RecoverShows
<1>7. CASE UNCHANGED <<log, view, progress>>
  BY <1>7 DEF Shadow
<1>8. QED
  BY <1>1, <1>2, <1>3, <1>5, <1>6, <1>7, StepKinds

\* The store implements the ledger: each of its transactions is one acceptance,
\* one projector showing another prefix, or nothing at all.
THEOREM StoreImplementsLedger == Spec => ImplementsLedger
<1>1. Spec => []ReplayInv
  BY ReplayInvInit, ReplayInvNext, PTL DEF Spec
<1>2. QED
  BY <1>1, LogAlwaysVerifies, LedgerInit, LedgerNext, PTL
     DEF Spec, ImplementsLedger, Abstract!Spec, Shadow

-----------------------------------------------------------------------------
(***************************************************************************)
(* The tables of a view.                                                   *)
(***************************************************************************)
LEMMA LogWellFormed ==
  ASSUME TypeOK, NEW i \in 1..Len(log)
  PROVE  WellFormed(log[i].req)
<1>1. log[i] \in Entries
  BY DEF TypeOK
<1>2. QED
  BY <1>1, RequestAssumption DEF Entries

\* What a projector shows are tables its entries keep consistent.
LEMMA ViewHolds ==
  ASSUME ReplayInv, NEW v \in Versions
  PROVE  Consistent(view[v]) /\ EndingsHold(view[v], log, progress[v])
<1>1. Len(log) \in Nat /\ progress[v] \in 0..Len(log)
  BY DEF ReplayInv, TypeOK
<1>2. AdmittedUpTo(log, progress[v])
  <2>1. SUFFICES ASSUME NEW i \in 1..progress[v]
                 PROVE  /\ WellFormed(log[i].req)
                        /\ \E w : Admits(w, ReplayOf(log, EmptySnapshot)[i-1], log[i].req)
    BY DEF AdmittedUpTo
  <2>2. WellFormed(log[i].req)
    BY <1>1, LogWellFormed DEF ReplayInv
  <2>3. Admits(v, ReplayOf(log, EmptySnapshot)[i-1], log[i].req)
    BY DEF ReplayInv, ShownAdmitted, Replay
  <2>4. QED
    BY <2>2, <2>3
<1>3. view[v] = ReplayOf(log, EmptySnapshot)[progress[v]]
  BY DEF ReplayInv, ViewIsReplay, Replay
<1>4. QED
  BY <1>1, <1>2, <1>3, ReplayedTables

\* Each (subject, property) has at most one belief in every view, and a candidate is
\* held by exactly the belief its claim names: OneBeliefPerScope.
THEOREM BeliefsHaveScopes == Spec => []OneBeliefPerScope
<1>1. ReplayInv => OneBeliefPerScope
  <2>1. SUFFICES ASSUME ReplayInv, NEW v \in Versions
                 PROVE  LET s == view[v] IN
                        /\ \A b1, b2 \in DOMAIN s.beliefs :
                             ScopeOf(s.beliefs[b1]) = ScopeOf(s.beliefs[b2]) => b1 = b2
                        /\ \A b \in DOMAIN s.beliefs, c \in DOMAIN s.candidates :
                             c \in DOMAIN s.beliefs[b].candidates <=> s.candidates[c].claim.belief = b
    BY DEF OneBeliefPerScope
  <2>2. Consistent(view[v])
    BY <2>1, ViewHolds
  <2>3. QED
    BY <2>2 DEF Consistent, OneBelief, CopiesAgree
<1>2. QED
  BY <1>1, ReplayInvInit, ReplayInvNext, PTL DEF Spec

\* Projector 3's three records of an ending - the candidate's row, its belief's copy
\* and the relation - name the one published event that targets it: EndingsAgree.
THEOREM EndingsAlwaysAgree == Spec => []EndingsAgree
<1>1. ReplayInv => EndingsAgree
  <2> DEFINE s == view["3"]
             n == progress["3"]
             Enders(c) == {i \in 1..n : c \in log[i].req.body.targets}
  <2>1. SUFFICES ASSUME ReplayInv PROVE EndingsAgree
    OBVIOUS
  <2>2. Consistent(s) /\ EndingsHold(s, log, n)
    BY <2>1, ViewHolds DEF Versions
  <2> HIDE DEF s, n
  <2>3. ASSUME NEW c \in DOMAIN s.candidates
        PROVE  s.beliefs[s.candidates[c].claim.belief].candidates[c] = s.candidates[c]
    <3> DEFINE b == s.candidates[c].claim.belief
    <3>1. b \in DOMAIN s.beliefs
      BY <2>2 DEF Consistent, CandidatesPlaced
    <3>2. c \in DOMAIN s.beliefs[b].candidates
      BY <2>2, <3>1 DEF Consistent, CopiesAgree
    <3>3. QED
      BY <2>2, <3>1, <3>2 DEF Consistent, CopiesAgree
  <2>4. ASSUME NEW c \in DOMAIN s.candidates, s.candidates[c].status = "live"
        PROVE  s.candidates[c].superseding = {} /\ Enders(c) = {} /\ c \notin DOMAIN s.relations
    BY <2>2, <2>4 DEF EndingsHold, Targets
  <2>5. ASSUME NEW c \in DOMAIN s.candidates, s.candidates[c].status # "live"
        PROVE  \E i \in Enders(c) :
                 /\ Enders(c) = {i}
                 /\ s.candidates[c].superseding = {log[i].req.id}
                 /\ s.candidates[c].status = StatusOf[log[i].req.type]
                 /\ s.relations[c] = [event |-> log[i].req.id, position |-> i,
                                      relation |-> RelationOf[log[i].req.type]]
    <3>1. PICK i \in 1..n :
            /\ c \in log[i].req.body.targets
            /\ \A j \in 1..n : c \in log[j].req.body.targets => j = i
            /\ s.candidates[c].superseding = {log[i].req.id}
            /\ s.candidates[c].status = StatusOf[log[i].req.type]
            /\ s.relations[c] = [event |-> log[i].req.id, relation |-> RelationOf[log[i].req.type],
                                 position |-> i]
      BY <2>2, <2>5 DEF EndingsHold, Targets
    <3>2. i \in Enders(c) /\ Enders(c) = {i}
      BY <3>1
    <3>3. QED
      BY <3>1, <3>2
  <2>6. DOMAIN s.relations \subseteq DOMAIN s.candidates
    BY <2>2 DEF EndingsHold
  <2>7. QED
    BY <2>3, <2>4, <2>5, <2>6 DEF EndingsAgree, s, n
<1>2. QED
  BY <1>1, ReplayInvInit, ReplayInvNext, PTL DEF Spec

-----------------------------------------------------------------------------
(***************************************************************************)
(* Freshness of reads.  A projector's freshness rows are kept by every     *)
(* append, projector 3's from the moment it is active.                     *)
(***************************************************************************)
Kept(w) == w # "3" \/ ForwardActive

\* The freshness rows L and S are those of the first n entries of l: S owns each belief
\* they determine, and what an entry writes about is known to have changed no
\* earlier than that entry.
IndexCurrent(l, L, S, n) ==
  LET tables == ReplayOf(l, EmptySnapshot)[n] IN
  /\ \A b : b \in DOMAIN S <=> b \in DOMAIN tables.beliefs
  /\ \A b \in DOMAIN S : S[b] = tables.beliefs[b].subject
  /\ \A i \in 1..n :
       /\ \A b \in BeliefsTouched(l[i].req) : b \in DOMAIN S /\ S[b] \in DOMAIN L /\ L[S[b]] >= i
       /\ IsMention(l[i].req) =>
            l[i].req.body.subject \in DOMAIN L /\ L[l[i].req.body.subject] >= i

FreshRows == \A w \in Versions : Kept(w) => IndexCurrent(log, latest[w], subjectOf[w], Len(log))

FreshInv == ReplayInv /\ Replayable /\ FreshRows

LEMMA LogAdmitted ==
  ASSUME TypeOK, Replayable, NEW n \in 0..Len(log)
  PROVE  AdmittedUpTo(log, n)
<1>1. Len(log) \in Nat
  BY DEF TypeOK
<1>2. SUFFICES ASSUME NEW i \in 1..n
               PROVE  /\ WellFormed(log[i].req)
                      /\ \E w : Admits(w, ReplayOf(log, EmptySnapshot)[i-1], log[i].req)
  BY DEF AdmittedUpTo
<1>3. i \in 1..Len(log) /\ "3" \in Versions
  BY <1>1 DEF Versions
<1>4. Admits("3", ReplayOf(log, EmptySnapshot)[i-1], log[i].req)
  BY <1>3 DEF Replayable, Replay
<1>5. QED
  BY <1>3, <1>4, LogWellFormed

\* The rows of the first n entries, upserted with what entry n+1 writes about, are the
\* rows of the first n+1.
LEMMA IndexGrows ==
  ASSUME NEW l, Len(l) \in Nat, NEW n \in Nat, n + 1 \in 1..Len(l), AdmittedUpTo(l, n+1),
         NEW L, NEW S, IndexCurrent(l, L, S, n), Positions(L, n)
  PROVE  LET d == Delta(ReplayOf(l, EmptySnapshot)[n], l[n+1].req, l[n+1].recorded, n+1) IN
         IndexCurrent(l, Upsert([s \in SubjectsTouched(d) |-> n+1], L),
                      Upsert(S, [b \in DOMAIN d.beliefs |-> d.beliefs[b].subject]), n+1)
<1> DEFINE R     == ReplayOf(l, EmptySnapshot)
           r     == l[n+1].req
           d     == Delta(R[n], l[n+1].req, l[n+1].recorded, n+1)
           now   == [s \in SubjectsTouched(d) |-> n+1]
           owned == [b \in DOMAIN d.beliefs |-> d.beliefs[b].subject]
           L2    == Upsert(now, L)
           S2    == Upsert(S, owned)
<1>1. WellFormed(r) /\ Consistent(R[n]) /\ \E v : Admits(v, R[n], r)
  <2>1. n \in 0..Len(l) /\ n + 1 \in 1..(n+1) /\ (n+1) - 1 = n
    OBVIOUS
  <2>2. AdmittedUpTo(l, n) /\ WellFormed(r) /\ \E v : Admits(v, R[n], r)
    BY <2>1 DEF AdmittedUpTo
  <2>3. QED
    BY <2>1, <2>2, ReplayedTables
<1>2. /\ BeliefRowsHold(R[n], d, r)
      /\ r.type = "entity_mention_recorded" => r.body.subject \in DOMAIN d.entities
  BY <1>1, AdmittedWrites
<1>3. /\ \A b : b \in DOMAIN R[n+1].beliefs <=> b \in DOMAIN d.beliefs \/ b \in DOMAIN R[n].beliefs
      /\ \A b \in DOMAIN d.beliefs : R[n+1].beliefs[b] = d.beliefs[b]
      /\ \A b \in DOMAIN R[n].beliefs : b \notin DOMAIN d.beliefs => R[n+1].beliefs[b] = R[n].beliefs[b]
  <2>1. R[n+1] = Apply(R[n], l[n+1], n+1)
    BY ReplaySteps
  <2>2. QED
    BY <1>1, <2>1, AppliedBeliefs
<1>4. /\ \A s \in DOMAIN d.entities : s \in SubjectsTouched(d)
      /\ \A b \in DOMAIN d.beliefs : d.beliefs[b].subject \in SubjectsTouched(d)
  <2> HIDE DEF d
  <2> QED BY DEF SubjectsTouched
<1>5. /\ \A s : s \in DOMAIN now <=> s \in SubjectsTouched(d)
      /\ \A s \in SubjectsTouched(d) : now[s] = n+1
      /\ \A b : b \in DOMAIN owned <=> b \in DOMAIN d.beliefs
      /\ \A b \in DOMAIN d.beliefs : owned[b] = d.beliefs[b].subject
  <2> HIDE DEF d
  <2> QED OBVIOUS
<1> HIDE DEF d, now, owned, L2, S2, r, R
<1>6. /\ \A s : s \in DOMAIN L2 <=> s \in SubjectsTouched(d) \/ s \in DOMAIN L
      /\ \A s \in SubjectsTouched(d) : L2[s] = n+1
      /\ \A s \in DOMAIN L : s \notin SubjectsTouched(d) => L2[s] = L[s]
  BY <1>5, UpsertRows DEF L2
<1>7. /\ \A b : b \in DOMAIN S2 <=> b \in DOMAIN d.beliefs \/ b \in DOMAIN S
      /\ \A b \in DOMAIN S : S2[b] = S[b]
      /\ \A b \in DOMAIN d.beliefs : b \notin DOMAIN S => S2[b] = d.beliefs[b].subject
  BY <1>5, UpsertRows DEF S2
<1>8. \A b \in DOMAIN d.beliefs : b \in DOMAIN S => S[b] = d.beliefs[b].subject
  BY <1>2 DEF IndexCurrent, BeliefRowsHold, R
<1>9. \A b \in DOMAIN d.beliefs : S2[b] = d.beliefs[b].subject
  BY <1>7, <1>8
<1>10. /\ \A b : b \in DOMAIN S2 <=> b \in DOMAIN R[n+1].beliefs
       /\ \A b \in DOMAIN S2 : S2[b] = R[n+1].beliefs[b].subject
  BY <1>3, <1>7, <1>9 DEF IndexCurrent, R
<1>11. ASSUME NEW i \in 1..n, NEW s \in DOMAIN L, L[s] >= i
       PROVE  s \in DOMAIN L2 /\ L2[s] >= i
  <2>1. L[s] \in 1..n
    BY DEF Positions
  <2>2. QED
    BY <1>6, <1>11, <2>1
<1>12. ASSUME NEW i \in 1..n
       PROVE  /\ \A b \in BeliefsTouched(l[i].req) :
                   b \in DOMAIN S2 /\ S2[b] \in DOMAIN L2 /\ L2[S2[b]] >= i
              /\ IsMention(l[i].req) =>
                   l[i].req.body.subject \in DOMAIN L2 /\ L2[l[i].req.body.subject] >= i
  BY <1>7, <1>11 DEF IndexCurrent
<1>13. /\ \A b \in BeliefsTouched(r) : b \in DOMAIN S2 /\ S2[b] \in DOMAIN L2 /\ L2[S2[b]] >= n+1
       /\ IsMention(r) => r.body.subject \in DOMAIN L2 /\ L2[r.body.subject] >= n+1
  <2>1. \A b \in BeliefsTouched(r) : b \in DOMAIN d.beliefs
    BY <1>2 DEF BeliefsTouched, BeliefRowsHold, BeliefsOf
  <2>2. n + 1 >= n + 1
    OBVIOUS
  <2>3. \A b \in BeliefsTouched(r) : S2[b] \in SubjectsTouched(d) /\ b \in DOMAIN S2
    BY <1>4, <1>7, <1>9, <2>1
  <2>4. IsMention(r) => r.body.subject \in SubjectsTouched(d)
    BY <1>2, <1>4 DEF IsMention
  <2>5. QED
    BY <1>6, <2>2, <2>3, <2>4
<1>14. \A i \in 1..(n+1) : i \in 1..n \/ i = n+1
  OBVIOUS
<1>15. IndexCurrent(l, L2, S2, n+1)
  BY <1>10, <1>12, <1>13, <1>14 DEF IndexCurrent, r, R
<1>16. QED
  BY <1>15 DEF L2, S2, now, owned, d, R

\* What the rows of the first n entries are does not depend on later ones.
LEMMA IndexPrefix ==
  ASSUME NEW l, Len(l) \in Nat, NEW k, Len(k) \in Nat, NEW n \in Nat, n <= Len(l), n <= Len(k),
         \A i \in 1..n : k[i] = l[i], NEW L, NEW S, IndexCurrent(l, L, S, n)
  PROVE  IndexCurrent(k, L, S, n)
<1>1. ReplayOf(k, EmptySnapshot)[n] = ReplayOf(l, EmptySnapshot)[n]
  BY ReplayPrefix
<1>2. QED
  BY <1>1 DEF IndexCurrent

LEMMA AppendAdmitted ==
  ASSUME FreshInv, NEW v \in Versions, NEW e \in Entries, AppendStep(v, e)
  PROVE  /\ AdmittedUpTo(log', Len(log) + 1)
         /\ ReplayOf(log', EmptySnapshot)[Len(log)] = view[v]
<1>1. /\ Len(log) \in Nat /\ Len(log') = Len(log) + 1
      /\ \A i \in 1..Len(log) : log'[i] = log[i]
      /\ log'[Len(log) + 1] = e
  BY AppendKeeps DEF FreshInv, ReplayInv
<1>2. \A n \in 0..Len(log) : Replay'[n] = Replay[n]
  BY AppendKeepsReplay DEF FreshInv, ReplayInv
<1>3. AdmittedUpTo(log, Len(log))
  BY <1>1, LogAdmitted DEF FreshInv, ReplayInv
<1>4. view[v] = Replay[Len(log)] /\ Admits(v, view[v], e.req)
  BY DEF AppendStep, Appendable, FreshInv, ReplayInv, ViewIsReplay
<1>5. WellFormed(e.req)
  BY RequestAssumption DEF Entries
<1>6. ReplayOf(log', EmptySnapshot)[Len(log)] = view[v]
  BY <1>1, <1>2, <1>4 DEF Replay
<1>7. ASSUME NEW i \in 1..Len(log)
      PROVE  /\ WellFormed(log'[i].req)
             /\ \E w : Admits(w, ReplayOf(log', EmptySnapshot)[i-1], log'[i].req)
  <2>1. i - 1 \in 0..Len(log)
    BY <1>1
  <2>2. ReplayOf(log', EmptySnapshot)[i-1] = ReplayOf(log, EmptySnapshot)[i-1]
    BY <1>2, <2>1 DEF Replay
  <2>3. QED
    BY <1>1, <1>3, <2>2 DEF AdmittedUpTo
<1>8. /\ WellFormed(log'[Len(log)+1].req)
      /\ \E w : Admits(w, ReplayOf(log', EmptySnapshot)[(Len(log)+1)-1], log'[Len(log)+1].req)
  <2>1. (Len(log)+1)-1 = Len(log)
    BY <1>1
  <2>2. QED
    BY <1>1, <1>4, <1>5, <1>6, <2>1
<1>9. \A i \in 1..(Len(log)+1) : i \in 1..Len(log) \/ i = Len(log)+1
  BY <1>1
<1>10. QED
  BY <1>6, <1>7, <1>8, <1>9 DEF AdmittedUpTo

\* An append updates the rows it keeps from rows that were current: projector 3's from
\* its own or, when the append activates it, from projector 2's.
\* The rows of projector w after an append of projector v: those of a projector x
\* whose rows were kept, with what the delta d touches.
AppendedTo(w, d) ==
  \E x \in Versions :
    /\ Kept(x)
    /\ latest'[w] = Upsert([s \in SubjectsTouched(d) |-> NextPosition], latest[x])
    /\ subjectOf'[w] = Upsert(subjectOf[x], [b \in DOMAIN d.beliefs |-> d.beliefs[b].subject])

\* An append of projector v maintains the rows of projector w.
Maintained(v, w) == w # "3" \/ v = "3" \/ ForwardActive

\* What an append does to the freshness rows.
LEMMA RowsAppended ==
  ASSUME TypeOK, NEW v \in Versions, NEW e \in Entries, AppendStep(v, e), NEW w \in Versions
  PROVE  /\ Maintained(v, w) => AppendedTo(w, Delta(view[v], e.req, e.recorded, NextPosition))
         /\ ~Maintained(v, w) => latest'[w] = latest[w] /\ subjectOf'[w] = subjectOf[w]
<1> DEFINE d       == Delta(view[v], e.req, e.recorded, NextPosition)
           forward == v = "3" \/ ForwardActive
           kept(x) == x # "3" \/ forward
           seen    == IF forward THEN Activated(latest) ELSE latest
           owned   == IF forward THEN Activated(subjectOf) ELSE subjectOf
           now     == [s \in SubjectsTouched(d) |-> NextPosition]
           owning  == [b \in DOMAIN d.beliefs |-> d.beliefs[b].subject]
<1>1. /\ latest' = [x \in Versions |-> IF kept(x) THEN Upsert(now, seen[x]) ELSE seen[x]]
      /\ subjectOf' = [x \in Versions |-> IF kept(x) THEN Upsert(owned[x], owning) ELSE owned[x]]
  BY DEF AppendStep, Insert
<1>2. kept(w) <=> Maintained(v, w)
  BY DEF Maintained
<1>3. "2" \in Versions /\ "3" \in Versions
  BY DEF Versions
<1>4. ASSUME kept(w)
      PROVE  \E x \in Versions : Kept(x) /\ seen[w] = latest[x] /\ owned[w] = subjectOf[x]
  <2>1. CASE Kept(w)
    <3>1. seen[w] = latest[w] /\ owned[w] = subjectOf[w]
      BY <1>3, <2>1 DEF Kept, Activated, TypeOK
    <3>2. QED
      BY <2>1, <3>1
  <2>2. CASE ~Kept(w)
    <3>1. w = "3" /\ ~ForwardActive /\ forward
      BY <1>4, <2>2 DEF Kept
    <3>2. seen["3"] = latest["2"] /\ owned["3"] = subjectOf["2"]
      BY <1>3, <3>1 DEF Activated, TypeOK
    <3>3. QED
      BY <1>3, <3>1, <3>2 DEF Kept
  <2>3. QED
    BY <2>1, <2>2
<1>5. ASSUME kept(w) PROVE AppendedTo(w, d)
  <2>1. PICK x \in Versions : Kept(x) /\ seen[w] = latest[x] /\ owned[w] = subjectOf[x]
    BY <1>4, <1>5
  <2>2. latest'[w] = Upsert(now, latest[x]) /\ subjectOf'[w] = Upsert(subjectOf[x], owning)
    <3> HIDE DEF now, owning, kept, seen, owned
    <3> QED BY <1>1, <1>5, <2>1
  <2>3. QED
    BY <2>1, <2>2 DEF AppendedTo
<1>6. ASSUME ~kept(w) PROVE latest'[w] = latest[w] /\ subjectOf'[w] = subjectOf[w]
  <2>1. ~forward
    BY <1>6
  <2>2. seen = latest /\ owned = subjectOf
    BY <2>1
  <2> HIDE DEF kept, seen, owned, now, owning
  <2>3. QED
    BY <1>1, <1>6, <2>2
<1>7. QED
  BY <1>2, <1>5, <1>6

\* An append keeps the rows current.
LEMMA FreshAppend ==
  ASSUME FreshInv, NEW v \in Versions, NEW e \in Entries, AppendStep(v, e)
  PROVE  FreshRows'
<1> DEFINE n == Len(log)
           d == Delta(view[v], e.req, e.recorded, NextPosition)
<1>1. /\ n \in Nat /\ Len(log') = n + 1
      /\ \A i \in 1..n : log'[i] = log[i]
      /\ log'[n+1] = e
  BY AppendKeeps DEF FreshInv, ReplayInv
<1>2. TypeOK /\ NextPosition = n + 1 /\ n + 1 \in 1..Len(log') /\ Len(log') \in Nat
  BY <1>1 DEF FreshInv, ReplayInv, NextPosition
<1>3. ASSUME NEW w \in Versions, Maintained(v, w)
      PROVE  IndexCurrent(log', latest'[w], subjectOf'[w], Len(log'))
  <2>1. AppendedTo(w, d)
    BY <1>2, <1>3, RowsAppended
  <2>2. PICK x \in Versions :
          /\ Kept(x)
          /\ latest'[w] = Upsert([s \in SubjectsTouched(d) |-> n+1], latest[x])
          /\ subjectOf'[w] = Upsert(subjectOf[x], [b \in DOMAIN d.beliefs |-> d.beliefs[b].subject])
    BY <1>2, <2>1 DEF AppendedTo
  <2>3. IndexCurrent(log', latest[x], subjectOf[x], n)
    BY <1>1, <2>2, IndexPrefix DEF FreshInv, FreshRows
  <2>4. Positions(latest[x], n)
    BY <1>2 DEF TypeOK, Positions
  <2>5. AdmittedUpTo(log', n+1) /\ ReplayOf(log', EmptySnapshot)[n] = view[v]
    BY AppendAdmitted
  <2>6. d = Delta(ReplayOf(log', EmptySnapshot)[n], log'[n+1].req, log'[n+1].recorded, n+1)
    BY <1>1, <1>2, <2>5
  <2>7. IndexCurrent(log', Upsert([s \in SubjectsTouched(d) |-> n+1], latest[x]),
                     Upsert(subjectOf[x], [b \in DOMAIN d.beliefs |-> d.beliefs[b].subject]), n+1)
    <3> HIDE DEF n, d
    <3> QED BY <1>1, <1>2, <2>3, <2>4, <2>5, <2>6, IndexGrows
  <2>8. QED
    BY <1>1, <2>2, <2>7
<1>4. ASSUME NEW w \in Versions, Kept(w)' PROVE Maintained(v, w)
  <2>1. SUFFICES ASSUME ~Maintained(v, w) PROVE FALSE
    OBVIOUS
  <2>2. w = "3" /\ latest'["3"] = latest["3"] /\ ~ForwardActive
    BY <1>2, <2>1, RowsAppended DEF Maintained
  <2>3. QED
    BY <1>4, <2>2 DEF Kept, ForwardActive
<1>5. QED
  BY <1>3, <1>4 DEF FreshRows

\* Everything else may activate projector 3, with a copy of projector 2's rows.
LEMMA FreshActivate ==
  ASSUME TypeOK, FreshRows, log' = log, NEW v, ActivateForward(v)
  PROVE  FreshRows'
<1>1. "2" \in Versions /\ "3" \in Versions
  BY DEF Versions
<1>2. CASE v = "3" /\ ~ForwardActive
  <2>1. /\ latest' = [latest EXCEPT !["3"] = latest["2"]]
        /\ subjectOf' = [subjectOf EXCEPT !["3"] = subjectOf["2"]]
    BY <1>2 DEF ActivateForward, Activated
  <2>2. \A w \in Versions :
          /\ latest'[w] = IF w = "3" THEN latest["2"] ELSE latest[w]
          /\ subjectOf'[w] = IF w = "3" THEN subjectOf["2"] ELSE subjectOf[w]
    BY <2>1 DEF TypeOK
  <2>3. Kept("2")
    BY DEF Kept
  <2>4. \A w \in Versions : w # "3" => Kept(w)
    BY DEF Kept
  <2>5. QED
    BY <1>1, <2>2, <2>3, <2>4 DEF FreshRows
<1>3. CASE ~(v = "3" /\ ~ForwardActive)
  <2>1. latest' = latest /\ subjectOf' = subjectOf
    BY <1>3 DEF ActivateForward, Activated
  <2>2. QED
    BY <2>1 DEF FreshRows, Kept, ForwardActive
<1>4. QED
  BY <1>2, <1>3

\* What a step does to the freshness rows.
LEMMA RowSteps ==
  ASSUME TypeOK, [Next]_vars
  PROVE  \/ \E v \in Versions, e \in Entries : AppendStep(v, e)
         \/ log' = log /\ \E v : ActivateForward(v)
         \/ log' = log /\ UNCHANGED <<latest, subjectOf>>
<1>1. ASSUME NEW v \in Versions, NEW r \in Requests, AppendSubmission(v, r)
      PROVE  \E e \in Entries : AppendStep(v, e)
  BY <1>1, AssignType DEF AppendSubmission, AppendStep
<1>2. ASSUME NEW v \in Versions, NEW r \in Requests, NEW n \in 0..Len(log), NEW t \in Clock,
             SafeAppend(v, r, n, t)
      PROVE  log' # log
  <2>1. \E e : Insert(v, e)
    BY <1>2 DEF SafeAppend
  <2>2. QED
    BY <2>1 DEF Insert, TypeOK
<1>3. ASSUME NEW v \in Versions, NEW asOf \in Clock,
             PublishNext(v, asOf) \/ PublishNothing(v, asOf) \/ RebuildProjection(v, asOf)
      PROVE  log' = log /\ ActivateForward(v)
  BY <1>3 DEF PublishNext, PublishNothing, RebuildProjection
<1>4. CASE ClockMoves
  BY <1>4 DEF ClockMoves
<1>5. CASE UNCHANGED vars
  BY <1>5 DEF vars
<1>6. CASE log' # log
  BY <1>6, StepKinds DEF AdvanceStep, RecoverStep, ShowStep
<1>7. CASE log' = log
  BY <1>1, <1>2, <1>3, <1>4, <1>5, <1>7 DEF Next, OrdinaryNext
<1>8. QED
  BY <1>6, <1>7

LEMMA FreshNext == FreshInv /\ [Next]_vars => FreshInv'
<1>1. SUFFICES ASSUME FreshInv, [Next]_vars PROVE FreshInv'
  OBVIOUS
<1>2. ReplayInv' /\ Replayable' /\ TypeOK
  BY <1>1, ReplayInvNext, ReplayableNext DEF FreshInv, ReplayInv
<1>3. FreshRows'
  <2>1. CASE \E v \in Versions, e \in Entries : AppendStep(v, e)
    BY <1>1, <2>1, FreshAppend
  <2>2. CASE log' = log /\ \E v : ActivateForward(v)
    BY <1>1, <1>2, <2>2, FreshActivate DEF FreshInv
  <2>3. CASE log' = log /\ UNCHANGED <<latest, subjectOf>>
    BY <1>1, <2>3 DEF FreshInv, FreshRows, Kept, ForwardActive
  <2>4. QED
    BY <1>1, <1>2, <2>1, <2>2, <2>3, RowSteps
<1>4. QED
  BY <1>2, <1>3 DEF FreshInv

LEMMA FreshInit == Init => FreshInv
<1>1. SUFFICES ASSUME Init PROVE FreshInv
  OBVIOUS
<1>2. ReplayInv /\ Replayable
  BY <1>1, ReplayInvInit DEF Init, Replayable
<1>3. Len(log) = 0 /\ Len(log) \in Nat
  BY <1>1 DEF Init
<1>4. ReplayOf(log, EmptySnapshot)[0] = EmptySnapshot
  BY <1>3, ReplaySteps
<1>5. \A b : b \notin DOMAIN EmptySnapshot.beliefs /\ b \notin DOMAIN NoRows
  BY DEF EmptySnapshot, NoRows
<1>6. ASSUME NEW w \in Versions PROVE IndexCurrent(log, latest[w], subjectOf[w], Len(log))
  <2>1. latest[w] = NoRows /\ subjectOf[w] = NoRows
    BY <1>1 DEF Init
  <2>2. QED
    BY <1>3, <1>4, <1>5, <2>1 DEF IndexCurrent
<1>7. QED
  BY <1>2, <1>6 DEF FreshInv, FreshRows

\* What a view shows is in every longer replay, about the same subject.
LEMMA ViewExtends ==
  ASSUME FreshInv, NEW v \in Versions, NEW n \in progress[v]..Len(log)
  PROVE  Extends(view[v], Replay[n])
<1>1. /\ Len(log) \in Nat /\ progress[v] \in 0..Len(log) /\ TypeOK
      /\ view[v] = Replay[progress[v]]
  BY DEF FreshInv, ReplayInv, TypeOK, ViewIsReplay
<1>2. n \in 0..Len(log) /\ progress[v] \in 0..n
  BY <1>1
<1>3. AdmittedUpTo(log, n)
  BY <1>1, <1>2, LogAdmitted DEF FreshInv
<1>4. QED
  BY <1>1, <1>2, <1>3, ReplayExtends DEF Replay

\* Whatever an event a projector has not applied writes is labelled stale: its beliefs,
\* its entity and its mention.  A record read without the label, or absent without it,
\* is current: FreshMeansCurrent.
THEOREM FreshReadsAreCurrent == Spec => []FreshMeansCurrent
<1>1. FreshInv => FreshMeansCurrent
  <2>1. SUFFICES ASSUME FreshInv, NEW v \in Versions, NEW i \in (progress[v]+1)..Len(log)
                 PROVE  /\ Kept(v) =>
                             /\ \A b \in BeliefsTouched(log[i].req) : BeliefStale(v, b)
                             /\ IsMention(log[i].req) => EntityStale(v, log[i].req.body.subject)
                        /\ IsMention(log[i].req) => MentionStale(v, log[i].req.body.mention)
    BY DEF FreshMeansCurrent, Kept
  <2>2. /\ Len(log) \in Nat /\ progress[v] \in 0..Len(log) /\ TypeOK
        /\ i \in 1..Len(log) /\ i > progress[v] /\ i - 1 \in progress[v]..Len(log)
        /\ Len(log) > progress[v] /\ Len(log) \in progress[v]..Len(log) /\ log # <<>>
    BY <2>1 DEF FreshInv, ReplayInv, TypeOK
  <2>3. ASSUME Kept(v), NEW s \in DOMAIN latest[v], latest[v][s] >= i
        PROVE  latest[v][s] > progress[v]
    <3>1. latest[v][s] \in 1..Len(log)
      BY <2>2 DEF TypeOK
    <3>2. QED
      BY <2>2, <2>3, <3>1
  <2>4. ASSUME Kept(v)
        PROVE  IndexCurrent(log, latest[v], subjectOf[v], Len(log))
    BY <2>1, <2>4 DEF FreshInv, FreshRows
  <2>5. ASSUME Kept(v), NEW b \in BeliefsTouched(log[i].req) PROVE BeliefStale(v, b)
    <3> DEFINE s == subjectOf[v][b]
    <3>1. b \in DOMAIN subjectOf[v] /\ s \in DOMAIN latest[v] /\ latest[v][s] > progress[v]
      BY <2>2, <2>3, <2>4, <2>5 DEF IndexCurrent
    <3>2. s \in SubjectsOfBelief(v, b)
      <4>1. CASE b \in DOMAIN view[v].beliefs
        <5>1. Replay[Len(log)].beliefs[b].subject = view[v].beliefs[b].subject
          BY <2>1, <2>2, <4>1, ViewExtends DEF Extends
        <5>2. s = Replay[Len(log)].beliefs[b].subject
          BY <2>4, <2>5, <3>1 DEF IndexCurrent, Replay
        <5>3. QED
          BY <4>1, <5>1, <5>2 DEF SubjectsOfBelief
      <4>2. CASE b \notin DOMAIN view[v].beliefs
        BY <3>1, <4>2 DEF SubjectsOfBelief
      <4>3. QED
        BY <4>1, <4>2
    <3> HIDE DEF s
    <3>3. latest[v][s] \in LatestFor(v, SubjectsOfBelief(v, b))
      BY <3>1, <3>2 DEF LatestFor
    <3>4. QED
      BY <3>1, <3>3 DEF BeliefStale, IsStale
  <2>6. ASSUME Kept(v), IsMention(log[i].req) PROVE EntityStale(v, log[i].req.body.subject)
    <3> DEFINE s == log[i].req.body.subject
    <3>1. s \in DOMAIN latest[v] /\ latest[v][s] > progress[v]
      BY <2>2, <2>3, <2>4, <2>6 DEF IndexCurrent
    <3>2. latest[v][s] \in LatestFor(v, {s})
      BY <3>1 DEF LatestFor
    <3>3. QED
      BY <3>1, <3>2 DEF EntityStale, IsStale
  <2>7. ASSUME IsMention(log[i].req) PROVE MentionStale(v, log[i].req.body.mention)
    <3> DEFINE m == log[i].req.body.mention
    <3>1. m \notin DOMAIN Replay[i-1].links
      <4>1. Admits("3", Replay[i-1], log[i].req) /\ WellFormed(log[i].req)
        BY <2>1, <2>2, LogWellFormed DEF FreshInv, Replayable, Versions
      <4>2. i - 1 \in 0..Len(log)
        BY <2>2
      <4>3. Consistent(Replay[i-1])
        <5>1. AdmittedUpTo(log, i-1)
          BY <2>1, <2>2, <4>2, LogAdmitted DEF FreshInv
        <5>2. QED
          BY <2>2, <4>2, <5>1, ReplayedTables DEF Replay
      <4>4. QED
        BY <2>7, <4>1, <4>3, AdmittedWrites DEF IsMention
    <3>2. m \notin DOMAIN view[v].links
      BY <2>1, <2>2, <3>1, ViewExtends DEF Extends
    <3>3. MentionStale(v, m) <=> IsStale(progress[v], {Len(log)}, progress[v] > 0)
      BY <2>2, <3>2 DEF MentionStale
    <3>4. QED
      BY <2>2, <3>3 DEF IsStale
  <2>8. QED
    BY <2>5, <2>6, <2>7
<1>2. QED
  BY <1>1, FreshInit, FreshNext, PTL DEF Spec
===============================================================================
