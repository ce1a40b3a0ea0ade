------------------------------ MODULE LegacyProofs ------------------------------
(***************************************************************************)
(* Theorems about projector 0 and its callers, for every set of            *)
(* submissions and of event identities, every clock bound and threshold,   *)
(* and any number of sessions and crashes.  First what the fold shows of   *)
(* any log; then that a view is the fold of what was applied; last, by the *)
(* writer lock, what a caller is told of its own submission.               *)
(***************************************************************************)
EXTENDS LegacySessions, TLAPS, WellFoundedInduction

-----------------------------------------------------------------------------
(***************************************************************************)
(* Folding a sequence of entries.  Induction is by least counterexample.   *)
(***************************************************************************)
LEMMA Least ==
  ASSUME NEW T \in SUBSET Nat, T # {}
  PROVE  \E m \in T : \A k \in T : ~(k < m)
<1>1. \E m \in T : \A k \in T : ~(<<k, m>> \in OpToRel(<, Nat))
  BY NatLessThanWellFounded, WFMin, Zenon
<1>2. QED
  BY <1>1 DEF OpToRel

IsFold(f, l, start, n) ==
  f = [i \in 0..n |-> IF i = 0 THEN start ELSE Fold(f[i-1], l[i], i)]

LEMMA FoldExists ==
  ASSUME NEW l, NEW start, NEW n \in Nat
  PROVE  \E f : IsFold(f, l, start, n)
<1> DEFINE Bad == {k \in Nat : ~\E f : IsFold(f, l, start, k)}
<1>1. SUFFICES ASSUME Bad # {} PROVE FALSE
  OBVIOUS
<1>2. Bad \in SUBSET Nat
  OBVIOUS
<1>3. PICK m \in Bad : \A k \in Bad : ~(k < m)
  <2> HIDE DEF Bad
  <2> QED BY <1>1, <1>2, Least
<1>4. m # 0
  <2> DEFINE f == [i \in 0..0 |-> start]
  <2>1. IsFold(f, l, start, 0)
    BY DEF IsFold
  <2> QED BY <2>1
<1>5. m - 1 \in Nat /\ m - 1 \notin Bad
  BY <1>3, <1>4
<1>6. PICK f : IsFold(f, l, start, m - 1)
  BY <1>5
<1> DEFINE g == [i \in 0..m |-> IF i = 0 THEN start ELSE Fold(f[i-1], l[i], i)]
<1>7. ASSUME NEW i \in 0..m, i # 0 PROVE g[i-1] = f[i-1]
  BY <1>4, <1>6, <1>7 DEF IsFold
<1>8. IsFold(g, l, start, m)
  BY <1>7 DEF IsFold
<1>9. QED
  BY <1>8

LEMMA FoldSteps ==
  ASSUME NEW l, Len(l) \in Nat
  PROVE  /\ Projected(l)[0] = NoRows
         /\ \A i \in 1..Len(l) : Projected(l)[i] = Fold(Projected(l)[i-1], l[i], i)
<1> DEFINE none == NoRows
           P    == Projected(l)
<1>1. P = CHOOSE f : IsFold(f, l, none, Len(l))
  BY DEF Projected, IsFold
<1> HIDE DEF none, P
<1>2. IsFold(P, l, none, Len(l))
  BY <1>1, FoldExists
<1>3. /\ P[0] = none
      /\ \A i \in 1..Len(l) : P[i] = Fold(P[i-1], l[i], i)
  BY <1>2 DEF IsFold
<1>4. QED
  BY <1>3 DEF none, P

\* What a fold shows after n entries depends on those n alone.
LEMMA FoldPrefix ==
  ASSUME NEW l, Len(l) \in Nat, NEW k, Len(k) \in Nat, NEW n \in Nat,
         n <= Len(l), n <= Len(k), \A i \in 1..n : l[i] = k[i]
  PROVE  Projected(l)[n] = Projected(k)[n]
<1> DEFINE L == Projected(l)
           K == Projected(k)
           Bad == {i \in 0..n : L[i] # K[i]}
<1>1. /\ L[0] = NoRows
      /\ \A i \in 1..n : L[i] = Fold(L[i-1], l[i], i)
  BY FoldSteps
<1>2. /\ K[0] = NoRows
      /\ \A i \in 1..n : K[i] = Fold(K[i-1], k[i], i)
  BY FoldSteps
<1> HIDE DEF L, K
<1>3. SUFFICES ASSUME Bad # {} PROVE FALSE
  BY DEF L, K
<1>4. Bad \in SUBSET Nat
  OBVIOUS
<1>5. PICK m \in Bad : \A j \in Bad : ~(j < m)
  <2> HIDE DEF Bad
  <2> QED BY <1>3, <1>4, Least
<1>6. m \in 1..n
  BY <1>1, <1>2
<1>7. L[m-1] = K[m-1]
  BY <1>5, <1>6
<1>8. /\ L[m] = Fold(L[m-1], l[m], m)
      /\ K[m] = Fold(K[m-1], k[m], m)
      /\ l[m] = k[m]
  BY <1>1, <1>2, <1>6
<1>9. QED
  BY <1>7, <1>8

\* One entry folded in: the other beliefs keep their rows, its own gets the entry in
\* its provenance, and the value when the entry is not late.
LEMMA FoldRow ==
  ASSUME NEW beliefs, NEW e, NEW pos,
         \A b \in DOMAIN beliefs : DOMAIN beliefs[b] = DOMAIN NoHead
  PROVE  LET b     == e.sub.belief
             prior == IF b \in DOMAIN beliefs THEN beliefs[b] ELSE NoHead
             held   == Fold(beliefs, e, pos)[b]
         IN  /\ \A x : x \in DOMAIN Fold(beliefs, e, pos) <=> x = b \/ x \in DOMAIN beliefs
             /\ \A x \in DOMAIN beliefs : x # b => Fold(beliefs, e, pos)[x] = beliefs[x]
             /\ DOMAIN held = DOMAIN NoHead
             /\ held.supporting = Append(prior.supporting, e.id)
             /\ held.superseding = IF e.sub.type = "correction_appended"
                                  THEN Append(prior.superseding, e.id) ELSE prior.superseding
             /\ held.lineage = Append(prior.lineage, pos)
             /\ ArrivesLate(beliefs, e.sub) =>
                  held.value = prior.value /\ held.occurred = prior.occurred /\ held.basis = prior.basis
             /\ ~ArrivesLate(beliefs, e.sub) =>
                  held.value = e.sub.value /\ held.occurred = e.sub.occurred /\ held.basis = e.sub.type
<1> DEFINE b     == e.sub.belief
           prior == IF b \in DOMAIN beliefs THEN beliefs[b] ELSE NoHead
           sup   == Append(prior.supporting, e.id)
           corr  == IF e.sub.type = "correction_appended" THEN Append(prior.superseding, e.id)
                    ELSE prior.superseding
           lin   == Append(prior.lineage, pos)
           noted == [prior EXCEPT !.supporting = sup, !.superseding = corr, !.lineage = lin]
           head  == [noted EXCEPT !.value = e.sub.value, !.occurred = e.sub.occurred,
                                  !.basis = e.sub.type]
           held   == IF ArrivesLate(beliefs, e.sub) THEN noted ELSE head
<1>1. Fold(beliefs, e, pos) = Upsert(Row(b, held), beliefs)
  BY DEF Fold
<1>2. DOMAIN prior = {"value", "occurred", "basis", "supporting", "superseding", "lineage"}
  <2>1. DOMAIN NoHead = {"value", "occurred", "basis", "supporting", "superseding", "lineage"}
    BY DEF NoHead
  <2>2. QED
    BY <2>1
<1> HIDE DEF prior
<1> HIDE DEF sup, corr, lin
<1>3. /\ DOMAIN noted = DOMAIN prior
      /\ noted.supporting = sup /\ noted.superseding = corr /\ noted.lineage = lin
      /\ noted.value = prior.value /\ noted.occurred = prior.occurred /\ noted.basis = prior.basis
  BY <1>2
<1> HIDE DEF noted
<1>4. /\ DOMAIN head = DOMAIN prior
      /\ head.supporting = sup /\ head.superseding = corr /\ head.lineage = lin
      /\ head.value = e.sub.value /\ head.occurred = e.sub.occurred /\ head.basis = e.sub.type
  BY <1>2, <1>3
<1>5. DOMAIN NoHead = DOMAIN prior
  BY <1>2 DEF NoHead
<1> HIDE DEF head
<1>6. /\ DOMAIN held = DOMAIN NoHead
      /\ held.supporting = sup /\ held.superseding = corr /\ held.lineage = lin
      /\ ArrivesLate(beliefs, e.sub) =>
           held.value = prior.value /\ held.occurred = prior.occurred /\ held.basis = prior.basis
      /\ ~ArrivesLate(beliefs, e.sub) =>
           held.value = e.sub.value /\ held.occurred = e.sub.occurred /\ held.basis = e.sub.type
  BY <1>3, <1>4, <1>5
<1> HIDE DEF held
<1>7. /\ \A x : x \in DOMAIN Fold(beliefs, e, pos) <=> x = b \/ x \in DOMAIN beliefs
      /\ \A x \in DOMAIN beliefs : x # b => Fold(beliefs, e, pos)[x] = beliefs[x]
      /\ Fold(beliefs, e, pos)[b] = held
  <2> HIDE DEF b
  <2> QED BY <1>1 DEF Upsert, Row
<1>8. QED
  BY <1>6, <1>7 DEF sup, corr, lin, prior

-----------------------------------------------------------------------------
(***************************************************************************)
(* What the fold shows.                                                    *)
(***************************************************************************)
\* The beliefs are those of the first n entries, and each shows the value of the
\* latest of its entries, of two at one instant the one later in the log.
HeadsHold(l, n) ==
  LET P == Projected(l)[n] IN
  /\ \A b : b \in DOMAIN P <=> \E i \in 1..n : l[i].sub.belief = b
  /\ \A b \in DOMAIN P :
       /\ DOMAIN P[b] = DOMAIN NoHead
       /\ \E i \in 1..n :
            /\ l[i].sub.belief = b
            /\ P[b].value = l[i].sub.value
            /\ P[b].occurred = l[i].sub.occurred
            /\ P[b].basis = l[i].sub.type
            /\ \A j \in 1..n : l[j].sub.belief = b =>
                 \/ l[j].sub.occurred < l[i].sub.occurred
                 \/ l[j].sub.occurred = l[i].sub.occurred /\ j <= i

LEMMA HeadsHoldStep ==
  ASSUME NEW l, Len(l) \in Nat, \A i \in 1..Len(l) : l[i].sub.occurred \in Int,
         NEW n \in Nat, n + 1 <= Len(l), HeadsHold(l, n)
  PROVE  HeadsHold(l, n+1)
<1> DEFINE P == Projected(l)[n]
           Q == Projected(l)[n+1]
           e == l[n+1]
           b == e.sub.belief
<1>1. n + 1 \in 1..Len(l) /\ \A i \in 1..(n+1) : i \in 1..n \/ i = n+1
  OBVIOUS
<1>2. Q = Fold(P, e, n+1)
  <2>1. (n+1)-1 = n
    OBVIOUS
  <2>2. QED
    BY <1>1, <2>1, FoldSteps
<1>3. \A x \in DOMAIN P : DOMAIN P[x] = DOMAIN NoHead
  BY DEF HeadsHold
<1> HIDE DEF P, Q
<1>4. /\ \A x : x \in DOMAIN Q <=> x = b \/ x \in DOMAIN P
      /\ \A x \in DOMAIN P : x # b => Q[x] = P[x]
      /\ DOMAIN Q[b] = DOMAIN NoHead
      /\ ArrivesLate(P, e.sub) =>
           Q[b].value = P[b].value /\ Q[b].occurred = P[b].occurred /\ Q[b].basis = P[b].basis
      /\ ~ArrivesLate(P, e.sub) =>
           Q[b].value = e.sub.value /\ Q[b].occurred = e.sub.occurred /\ Q[b].basis = e.sub.type
  BY <1>2, <1>3, FoldRow DEF ArrivesLate
<1> DEFINE Heads(i, x, held, m) ==
             /\ l[i].sub.belief = x
             /\ held.value = l[i].sub.value
             /\ held.occurred = l[i].sub.occurred
             /\ held.basis = l[i].sub.type
             /\ \A j \in 1..m : l[j].sub.belief = x =>
                  \/ l[j].sub.occurred < l[i].sub.occurred
                  \/ l[j].sub.occurred = l[i].sub.occurred /\ j <= i
<1>5. /\ \A x : x \in DOMAIN P <=> \E i \in 1..n : l[i].sub.belief = x
      /\ \A x \in DOMAIN P : \E i \in 1..n : Heads(i, x, P[x], n)
  BY DEF HeadsHold, P
<1>6. ASSUME NEW x \in DOMAIN P, x # b PROVE \E i \in 1..(n+1) : Heads(i, x, Q[x], n+1)
  <2>1. PICK i \in 1..n : Heads(i, x, P[x], n)
    BY <1>5
  <2>2. Heads(i, x, Q[x], n+1)
    BY <1>1, <1>4, <1>6, <2>1
  <2>3. QED
    BY <2>2
<1>7. \E i \in 1..(n+1) : Heads(i, b, Q[b], n+1)
  <2>1. CASE ArrivesLate(P, e.sub)
    <3>1. b \in DOMAIN P /\ e.sub.occurred < P[b].occurred
      BY <2>1 DEF ArrivesLate
    <3>2. PICK i \in 1..n : Heads(i, b, P[b], n)
      BY <1>5, <3>1
    <3>3. Heads(i, b, Q[b], n+1)
      BY <1>1, <1>4, <2>1, <3>1, <3>2
    <3>4. i \in 1..(n+1)
      OBVIOUS
    <3> HIDE DEF Heads, b
    <3>5. QED
      BY <3>3, <3>4, Zenon
  <2>2. CASE ~ArrivesLate(P, e.sub)
    <3>1. ASSUME NEW j \in 1..n, l[j].sub.belief = b
          PROVE  l[j].sub.occurred < e.sub.occurred \/ l[j].sub.occurred = e.sub.occurred
      <4>1. b \in DOMAIN P
        BY <1>5, <3>1
      <4>2. PICK i \in 1..n : Heads(i, b, P[b], n)
        BY <1>5, <4>1
      <4>3. ~(e.sub.occurred < l[i].sub.occurred)
        BY <2>2, <4>1, <4>2 DEF ArrivesLate
      <4>4. /\ l[i].sub.occurred \in Int /\ l[j].sub.occurred \in Int /\ e.sub.occurred \in Int
            /\ l[j].sub.occurred < l[i].sub.occurred \/ l[j].sub.occurred = l[i].sub.occurred
        BY <1>1, <3>1, <4>2
      <4> HIDE DEF e, b, Heads
      <4>5. QED
        BY <4>3, <4>4
    <3>2. \A j \in 1..n : j <= n+1
      OBVIOUS
    <3>3. Heads(n+1, b, Q[b], n+1)
      BY <1>1, <1>4, <2>2, <3>1, <3>2
    <3>4. n+1 \in 1..(n+1)
      OBVIOUS
    <3> HIDE DEF Heads, b
    <3>5. QED
      BY <3>3, <3>4, Zenon
  <2>3. QED
    BY <2>1, <2>2
<1>8. \A x : x \in DOMAIN Q <=> \E i \in 1..(n+1) : l[i].sub.belief = x
  BY <1>1, <1>4, <1>5
<1>9. \A x \in DOMAIN Q : DOMAIN Q[x] = DOMAIN NoHead /\ \E i \in 1..(n+1) : Heads(i, x, Q[x], n+1)
  BY <1>3, <1>4, <1>6, <1>7
<1>10. QED
  BY <1>8, <1>9 DEF HeadsHold, Q

LEMMA FoldShows ==
  ASSUME NEW l, Len(l) \in Nat, \A i \in 1..Len(l) : l[i].sub.occurred \in Int,
         NEW n \in 0..Len(l)
  PROVE  HeadsHold(l, n)
<1> DEFINE Bad == {k \in 0..Len(l) : ~HeadsHold(l, k)}
<1>1. SUFFICES ASSUME Bad # {} PROVE FALSE
  OBVIOUS
<1>2. Bad \in SUBSET Nat
  OBVIOUS
<1>3. PICK m \in Bad : \A k \in Bad : ~(k < m)
  <2> HIDE DEF Bad
  <2> QED BY <1>1, <1>2, Least
<1>4. HeadsHold(l, 0)
  <2>1. \A b : b \notin DOMAIN NoRows
    BY DEF NoRows
  <2>2. QED
    BY <2>1, FoldSteps DEF HeadsHold
<1>5. m # 0
  BY <1>4
<1>6. m - 1 \in Nat /\ m - 1 < m /\ m - 1 \in 0..Len(l) /\ (m-1)+1 = m /\ m <= Len(l)
  BY <1>5
<1>7. HeadsHold(l, m-1)
  BY <1>3, <1>6
<1>8. HeadsHold(l, (m-1)+1)
  BY <1>6, <1>7, HeadsHoldStep
<1>9. QED
  BY <1>6, <1>8

-----------------------------------------------------------------------------
(***************************************************************************)
(* Provenance: the events of a belief, oldest first.                       *)
(***************************************************************************)
Extended(ps, S, i) == IF i \in S THEN Append(ps, i) ELSE ps

IsListing(f, S, start, n) ==
  f = [i \in 0..n |-> IF i = 0 THEN start ELSE Extended(f[i-1], S, i)]

LEMMA ListingExists ==
  ASSUME NEW S, NEW start, NEW n \in Nat
  PROVE  \E f : IsListing(f, S, start, n)
<1> DEFINE Bad == {k \in Nat : ~\E f : IsListing(f, S, start, k)}
<1>1. SUFFICES ASSUME Bad # {} PROVE FALSE
  OBVIOUS
<1>2. Bad \in SUBSET Nat
  OBVIOUS
<1>3. PICK m \in Bad : \A k \in Bad : ~(k < m)
  <2> HIDE DEF Bad
  <2> QED BY <1>1, <1>2, Least
<1>4. m # 0
  <2> DEFINE f == [i \in 0..0 |-> start]
  <2>1. IsListing(f, S, start, 0)
    BY DEF IsListing
  <2> QED BY <2>1
<1>5. m - 1 \in Nat /\ m - 1 \notin Bad
  BY <1>3, <1>4
<1>6. PICK f : IsListing(f, S, start, m - 1)
  BY <1>5
<1> DEFINE g == [i \in 0..m |-> IF i = 0 THEN start ELSE Extended(f[i-1], S, i)]
<1>7. ASSUME NEW i \in 0..m, i # 0 PROVE g[i-1] = f[i-1]
  BY <1>4, <1>6, <1>7 DEF IsListing
<1>8. IsListing(g, S, start, m)
  BY <1>7 DEF IsListing
<1>9. QED
  BY <1>8

LEMMA AscendingSteps ==
  ASSUME NEW S, Len(log) \in Nat
  PROVE  /\ Ascending(S)[0] = <<>>
         /\ \A i \in 1..Len(log) :
              Ascending(S)[i] = IF i \in S THEN Append(Ascending(S)[i-1], i) ELSE Ascending(S)[i-1]
<1> DEFINE none == <<>>
           A    == Ascending(S)
<1>1. A = CHOOSE f : IsListing(f, S, none, Len(log))
  BY DEF Ascending, IsListing, Extended
<1> HIDE DEF none, A
<1>2. IsListing(A, S, none, Len(log))
  BY <1>1, ListingExists
<1>3. /\ A[0] = none
      /\ \A i \in 1..Len(log) : A[i] = Extended(A[i-1], S, i)
  BY <1>2 DEF IsListing
<1>4. QED
  BY <1>3 DEF none, A, Extended

\* A listing holds the members of the set and nothing else.
Lists(ps, S, n) ==
  /\ ps \in Seq(Nat)
  /\ \A k \in DOMAIN ps : ps[k] \in S /\ ps[k] \in 1..n
  /\ \A i \in 1..n : i \in S => \E k \in DOMAIN ps : ps[k] = i

LEMMA AscendingLists ==
  ASSUME NEW S, Len(log) \in Nat, NEW n \in 0..Len(log)
  PROVE  Lists(Ascending(S)[n], S, n)
<1> DEFINE A   == Ascending(S)
           Bad == {k \in 0..Len(log) : ~Lists(A[k], S, k)}
<1>1. /\ A[0] = <<>>
      /\ \A i \in 1..Len(log) : A[i] = IF i \in S THEN Append(A[i-1], i) ELSE A[i-1]
  BY AscendingSteps
<1> HIDE DEF A
<1>2. SUFFICES ASSUME Bad # {} PROVE FALSE
  BY DEF A
<1>3. Bad \in SUBSET Nat
  OBVIOUS
<1>4. PICK m \in Bad : \A k \in Bad : ~(k < m)
  <2> HIDE DEF Bad
  <2> QED BY <1>2, <1>3, Least
<1>5. Lists(A[0], S, 0)
  BY <1>1 DEF Lists
<1>6. m # 0
  BY <1>5
<1>7. m - 1 \in 0..Len(log) /\ m - 1 < m /\ m \in 1..Len(log) /\ m \in Nat
      /\ \A i \in 1..m : i \in 1..(m-1) \/ i = m
  BY <1>6
<1>8. Lists(A[m-1], S, m-1)
  BY <1>4, <1>7
<1>9. Lists(A[m], S, m)
  <2> DEFINE ps == A[m-1]
  <2>1. /\ ps \in Seq(Nat)
        /\ \A k \in DOMAIN ps : ps[k] \in S /\ ps[k] \in 1..(m-1)
        /\ \A i \in 1..(m-1) : i \in S => \E k \in DOMAIN ps : ps[k] = i
    BY <1>8 DEF Lists
  <2>2. A[m] = IF m \in S THEN Append(ps, m) ELSE ps
    BY <1>1, <1>7
  <2> HIDE DEF ps
  <2>3. CASE m \notin S
    <3>1. A[m] = ps
      BY <2>2, <2>3
    <3>2. ASSUME NEW k \in DOMAIN ps PROVE ps[k] \in S /\ ps[k] \in 1..m
      BY <1>7, <2>1
    <3>3. ASSUME NEW i \in 1..m, i \in S PROVE \E k \in DOMAIN ps : ps[k] = i
      <4>1. i \in 1..(m-1)
        BY <1>7, <2>3, <3>3
      <4>2. QED
        BY <2>1, <3>3, <4>1
    <3>4. Lists(ps, S, m)
      BY ONLY <2>1, <3>2, <3>3 DEF Lists
    <3>5. QED
      BY <3>1, <3>4
  <2>4. CASE m \in S
    <3> DEFINE qs == Append(ps, m)
    <3>1. /\ qs \in Seq(Nat) /\ DOMAIN qs = 1..(Len(ps)+1) /\ Len(ps) \in Nat
          /\ DOMAIN ps = 1..Len(ps)
          /\ qs[Len(ps)+1] = m
          /\ \A k \in DOMAIN ps : qs[k] = ps[k]
      BY <1>7, <2>1
    <3> HIDE DEF qs
    <3>2. \A k \in DOMAIN qs : k \in DOMAIN ps \/ k = Len(ps)+1
      BY <3>1
    <3>3. ASSUME NEW k \in DOMAIN qs PROVE qs[k] \in S /\ qs[k] \in 1..m
      <4>1. CASE k \in DOMAIN ps
        <5>1. qs[k] = ps[k] /\ ps[k] \in S /\ ps[k] \in 1..(m-1)
          BY <2>1, <3>1, <4>1
        <5>2. QED
          BY <1>7, <5>1
      <4>2. CASE k = Len(ps)+1
        BY <1>7, <2>4, <3>1, <4>2
      <4>3. QED
        BY <3>2, <4>1, <4>2
    <3>4. \A i \in 1..m : i \in S => \E k \in DOMAIN qs : qs[k] = i
      <4>1. ASSUME NEW i \in 1..(m-1), i \in S PROVE \E k \in DOMAIN qs : qs[k] = i
        <5>1. PICK k \in DOMAIN ps : ps[k] = i
          BY <2>1, <4>1
        <5>2. k \in DOMAIN qs /\ qs[k] = i
          BY <3>1, <5>1
        <5>3. QED
          BY <5>2
      <4>2. \E k \in DOMAIN qs : qs[k] = m
        <5>1. Len(ps)+1 \in DOMAIN qs
          BY <3>1
        <5>2. QED
          BY <3>1, <5>1
      <4>3. QED
        BY <1>7, <4>1, <4>2
    <3>5. Lists(qs, S, m)
      BY <3>1, <3>3, <3>4 DEF Lists
    <3>6. QED
      BY <2>2, <2>4, <3>5 DEF qs
  <2>5. QED
    BY <2>3, <2>4
<1>10. QED
  BY <1>9

-----------------------------------------------------------------------------
(***************************************************************************)
(* The inductive invariant.                                                *)
(***************************************************************************)
Entries == [id : EventIds, sub : Submissions, recorded : Clock]

LegacyTypes ==
  /\ log \in Seq(Entries)
  /\ clock \in Clock
  /\ applied \in 0..Len(log)
  /\ others \in 0..Len(log)

\* Each projector has applied events of its own generation only.
Generations ==
  /\ \A i \in 1..Len(log) : Foldable(log[i].sub) \/ log[i].sub.kind = "stage two"
  /\ \A i \in 1..applied : Foldable(log[i].sub)
  /\ \A i \in 1..others : log[i].sub.kind = "stage two"

\* Rows of an older store without progress come with their event; any other view is
\* the fold of what was applied.
ViewIsFold ==
  /\ Unproven => Len(log) # 0
  /\ ~Unproven => view = Projected(log)[applied]

\* No event of a belief is later in the log than its index row says.
IndexAhead ==
  \A i \in 1..Len(log) : Foldable(log[i].sub) =>
     log[i].sub.belief \in DOMAIN latest /\ latest[log[i].sub.belief] \in i..Len(log)

InOrder == \A i, j \in 1..Len(log) : i <= j => log[i].recorded <= log[j].recorded

NoTwins ==
  \A i, j \in 1..Len(log) : i # j =>
     log[i].id # log[j].id /\ LegacyKey(log[i].sub) # LegacyKey(log[j].sub)

LegacyInv == LegacyTypes /\ Generations /\ ViewIsFold /\ IndexAhead /\ InOrder /\ NoTwins

LEMMA LogFacts ==
  ASSUME LegacyTypes
  PROVE  /\ Len(log) \in Nat
         /\ \A i : i \in DOMAIN log <=> i \in 1..Len(log)
         /\ \A i \in 1..Len(log) : log[i] \in Entries
         /\ log # <<>> <=> Len(log) # 0
BY DEF LegacyTypes

LEMMA AppendFacts ==
  ASSUME LegacyTypes, NEW e \in Entries, log' = Append(log, e)
  PROVE  /\ log' \in Seq(Entries)
         /\ Len(log') = Len(log) + 1
         /\ \A i \in 1..Len(log) : log'[i] = log[i]
         /\ log'[Len(log) + 1] = e
BY DEF LegacyTypes

\* An index up to n + 1 is one up to n or n + 1 itself.
LEMMA UpToNext ==
  ASSUME NEW n \in Nat
  PROVE  /\ \A i \in 1..(n+1) : i \in 1..n \/ i = n+1
         /\ \A i \in 1..n : i \in 1..(n+1) /\ i <= n /\ ~(n+1 <= i) /\ i # n+1
         /\ n+1 \in 1..(n+1)
OBVIOUS

LEMMA UpsertOne ==
  ASSUME NEW k, NEW v, NEW rows
  PROVE  /\ \A x : x \in DOMAIN Upsert(Row(k, v), rows) <=> x = k \/ x \in DOMAIN rows
         /\ Upsert(Row(k, v), rows)[k] = v
         /\ \A x \in DOMAIN rows : x # k => Upsert(Row(k, v), rows)[x] = rows[x]
BY DEF Upsert, Row

LEMMA AppendKeepsInv ==
  ASSUME LegacyInv, NEW e \in Entries, log' = Append(log, e), clock' \in Clock,
         UNCHANGED <<view, applied, others>>,
         Recorded(e.id, e.sub) = {},
         Len(log) # 0 => Tip.recorded <= e.recorded,
         Foldable(e.sub) \/ e.sub.kind = "stage two",
         IF Foldable(e.sub) THEN latest' = Upsert(Row(e.sub.belief, Len(log) + 1), latest)
         ELSE latest' = latest
  PROVE  LegacyInv'
<1> DEFINE n == Len(log)
           b == e.sub.belief
<1>1. LegacyTypes /\ n \in Nat /\ log' \in Seq(Entries)
  BY LogFacts, AppendFacts DEF LegacyInv
<1>2. /\ Len(log') = n + 1
      /\ \A i \in 1..n : log'[i] = log[i]
      /\ log'[n+1] = e
  BY <1>1, AppendFacts
<1>3. applied \in 0..n /\ others \in 0..n /\ applied' = applied /\ others' = others
  BY DEF LegacyInv, LegacyTypes
<1>4. n \in Nat /\ Len(log') = n + 1
  BY <1>1, <1>2
<1>5. Unproven' <=> Unproven
  BY DEF Unproven
<1> HIDE DEF n
<1>6. /\ \A i \in 1..(n+1) : i \in 1..n \/ i = n+1
      /\ \A i \in 1..n : i \in 1..(n+1) /\ i <= n /\ ~(n+1 <= i) /\ i # n+1
      /\ n+1 \in 1..(n+1)
  BY <1>4, UpToNext
<1>7. LegacyTypes'
  <2>1. applied' \in 0..Len(log') /\ others' \in 0..Len(log')
    BY ONLY <1>4, <1>3
  <2>2. QED
    BY <1>1, <2>1 DEF LegacyTypes
<1>8. Generations'
  <2>1. (\A i \in 1..applied : i \in 1..n) /\ (\A i \in 1..others : i \in 1..n)
    BY ONLY <1>4, <1>3
  <2>2. Generations /\ n = Len(log)
    BY DEF LegacyInv, n
  <2>3. \A i \in 1..(n+1) : Foldable(log'[i].sub) \/ log'[i].sub.kind = "stage two"
    BY <1>2, <1>6, <2>2 DEF Generations
  <2>4. \A i \in 1..applied : Foldable(log'[i].sub)
    BY <1>2, <2>1, <2>2 DEF Generations
  <2>5. \A i \in 1..others : log'[i].sub.kind = "stage two"
    BY <1>2, <2>1, <2>2 DEF Generations
  <2>6. QED
    BY <1>2, <1>3, <2>3, <2>4, <2>5 DEF Generations
<1>9. ViewIsFold'
  <2>1. \A i \in 1..applied : i \in 1..n
    BY ONLY <1>4, <1>3
  <2>2. \A i \in 1..applied : log'[i] = log[i]
    BY <1>2, <2>1
  <2>3. /\ Len(log) \in Nat /\ Len(log') \in Nat /\ applied \in Nat
        /\ applied <= Len(log) /\ applied <= Len(log') /\ Len(log') # 0
    BY ONLY <1>4, <1>3 DEF n
  <2>4. Projected(log')[applied] = Projected(log)[applied]
    BY <2>2, <2>3, FoldPrefix
  <2>5. QED
    BY <1>3, <1>5, <2>3, <2>4 DEF LegacyInv, ViewIsFold
<1>10. IndexAhead'
  <2>1. ASSUME NEW i \in 1..n, Foldable(log[i].sub)
        PROVE  log[i].sub.belief \in DOMAIN latest' /\ latest'[log[i].sub.belief] \in i..(n+1)
    <3>1. log[i].sub.belief \in DOMAIN latest /\ latest[log[i].sub.belief] \in i..n
      BY <2>1 DEF LegacyInv, IndexAhead, n
    <3>2. (\A k \in i..n : k \in i..(n+1)) /\ n+1 \in i..(n+1)
      BY ONLY <1>4
    <3>3. CASE latest' = latest
      BY <3>1, <3>2, <3>3
    <3>4. CASE latest' = Upsert(Row(b, n + 1), latest)
      <4> HIDE DEF b
      <4> QED BY ONLY <1>4, <3>1, <3>2, <3>4, UpsertOne
    <3>5. QED
      BY <3>3, <3>4 DEF n
  <2>2. ASSUME Foldable(e.sub)
        PROVE  b \in DOMAIN latest' /\ latest'[b] \in (n+1)..(n+1)
    <3>1. n+1 \in (n+1)..(n+1)
      BY ONLY <1>4
    <3>2. latest' = Upsert(Row(b, n + 1), latest)
      BY <2>2 DEF n
    <3> HIDE DEF b
    <3>3. QED
      BY ONLY <3>1, <3>2, UpsertOne
  <2>3. \A i \in 1..(n+1) : Foldable(log'[i].sub) =>
          log'[i].sub.belief \in DOMAIN latest' /\ latest'[log'[i].sub.belief] \in i..(n+1)
    BY <1>2, <1>6, <2>1, <2>2
  <2>4. QED
    BY <1>2, <2>3 DEF IndexAhead
<1>11. InOrder'
  <2>1. ASSUME NEW i \in 1..n PROVE log[i].recorded <= e.recorded
    <3>1. n \in 1..n /\ i <= n /\ n # 0
      BY ONLY <1>4
    <3>2. log[i].recorded <= log[n].recorded /\ log[n].recorded <= e.recorded
      BY <3>1 DEF LegacyInv, InOrder, Tip, n
    <3>3. log[i] \in Entries /\ log[n] \in Entries /\ e \in Entries
      BY <1>1, <3>1, LogFacts DEF n
    <3>4. log[i].recorded \in Clock /\ log[n].recorded \in Clock /\ e.recorded \in Clock
      BY ONLY <3>3 DEF Entries
    <3>5. QED
      BY ONLY <3>2, <3>4, LegacyClockAssumption DEF Clock
  <2>2. e.recorded <= e.recorded
    <3>1. e.recorded \in Clock
      BY DEF Entries
    <3>2. QED
      BY ONLY <3>1, LegacyClockAssumption DEF Clock
  <2>3. \A i, j \in 1..n : i <= j => log[i].recorded <= log[j].recorded
    BY DEF LegacyInv, InOrder, n
  <2>4. \A i, j \in 1..(n+1) : i <= j => log'[i].recorded <= log'[j].recorded
    BY <1>2, <1>6, <2>1, <2>2, <2>3
  <2>5. QED
    BY <1>2, <2>4 DEF InOrder
<1>12. NoTwins'
  <2>1. \A i \in 1..n : log[i].id # e.id /\ LegacyKey(log[i].sub) # LegacyKey(e.sub)
    BY <1>1, LogFacts DEF Recorded, n
  <2>2. \A i, j \in 1..n : i # j =>
          log[i].id # log[j].id /\ LegacyKey(log[i].sub) # LegacyKey(log[j].sub)
    BY DEF LegacyInv, NoTwins, n
  <2>3. \A i, j \in 1..(n+1) : i # j =>
          log'[i].id # log'[j].id /\ LegacyKey(log'[i].sub) # LegacyKey(log'[j].sub)
    <3>1. TAKE i, j \in 1..(n+1)
    <3>2. CASE i \in 1..n /\ j \in 1..n
      BY <1>2, <2>2, <3>2
    <3>3. CASE i \in 1..n /\ j = n+1
      BY <1>2, <2>1, <3>3
    <3>4. CASE i = n+1 /\ j \in 1..n
      BY <1>2, <2>1, <3>4
    <3>5. QED
      BY <1>6, <3>2, <3>3, <3>4
  <2>4. QED
    BY <1>2, <2>3 DEF NoTwins
<1>13. QED
  BY <1>7, <1>8, <1>9, <1>10, <1>11, <1>12 DEF LegacyInv

LEMMA StampTypes ==
  ASSUME LegacyInv
  PROVE  /\ LegacyStamp \in Clock
         /\ Len(log) # 0 => Tip.recorded \in Clock /\ Tip.recorded <= LegacyStamp
<1>1. LegacyTypes /\ clock \in Clock
  BY DEF LegacyInv, LegacyTypes
<1>2. CASE log = <<>>
  BY <1>1, <1>2, LogFacts DEF LegacyStamp
<1>3. CASE log # <<>>
  <2>1. Len(log) \in 1..Len(log)
    BY <1>1, <1>3, LogFacts
  <2>2. Tip \in Entries
    BY <1>1, <2>1, LogFacts DEF Tip
  <2>3. Tip.recorded \in Clock
    BY <2>2 DEF Entries
  <2>4. QED
    BY <1>1, <1>3, <2>3, LegacyClockAssumption DEF LegacyStamp, Clock
<1>4. QED
  BY <1>2, <1>3

LEMMA AppendLegacyKeepsInv ==
  ASSUME LegacyInv, NEW id \in EventIds, NEW s \in Submissions, AppendLegacy(id, s)
  PROVE  LegacyInv'
<1> DEFINE e == [id |-> id, sub |-> s, recorded |-> LegacyStamp]
<1>1. e \in Entries /\ e.id = id /\ e.sub = s /\ e.recorded = LegacyStamp
  BY StampTypes DEF Entries
<1>2. /\ log' = Append(log, e) /\ clock' \in Clock /\ UNCHANGED <<view, applied, others>>
      /\ Recorded(id, s) = {} /\ Foldable(s)
      /\ latest' = Upsert(Row(s.belief, Len(log) + 1), latest)
  BY DEF AppendLegacy, LockedChecks, Inserted
<1> HIDE DEF e
<1>3. Len(log) # 0 => Tip.recorded <= e.recorded
  BY <1>1, StampTypes
<1>4. QED
  BY <1>1, <1>2, <1>3, AppendKeepsInv

LEMMA SafeAppendKeepsInv ==
  ASSUME LegacyInv, NEW id \in EventIds, NEW s \in Submissions, NEW t \in Clock,
         SafeAppendLegacy(id, s, t)
  PROVE  LegacyInv'
<1> DEFINE e == [id |-> id, sub |-> s, recorded |-> t]
<1>1. e \in Entries /\ e.id = id /\ e.sub = s /\ e.recorded = t
  BY DEF Entries
<1>2. /\ log' = Append(log, e) /\ UNCHANGED <<view, applied, others, clock>>
      /\ Recorded(id, s) = {} /\ Foldable(s)
      /\ latest' = Upsert(Row(s.belief, Len(log) + 1), latest)
      /\ log # <<>> => t >= Tip.recorded
  BY DEF SafeAppendLegacy, LockedChecks, Inserted
<1> HIDE DEF e
<1>3. Len(log) # 0 => Tip.recorded <= e.recorded
  BY <1>1, <1>2, StampTypes, LogFacts, LegacyClockAssumption DEF Clock, LegacyInv
<1>4. clock' \in Clock
  BY <1>2 DEF LegacyInv, LegacyTypes
<1>5. QED
  BY <1>1, <1>2, <1>3, <1>4, AppendKeepsInv

LEMMA AppendStageTwoKeepsInv ==
  ASSUME LegacyInv, NEW id \in EventIds, NEW s \in Submissions, AppendStageTwo(id, s)
  PROVE  LegacyInv'
<1> DEFINE e == [id |-> id, sub |-> s, recorded |-> LegacyStamp]
<1>1. e \in Entries /\ e.id = id /\ e.sub = s /\ e.recorded = LegacyStamp
  BY StampTypes DEF Entries
<1>2. /\ log' = Append(log, e) /\ clock' \in Clock /\ UNCHANGED <<view, applied, latest, others>>
      /\ Recorded(id, s) = {} /\ s.kind = "stage two"
  BY DEF AppendStageTwo
<1>3. ~Foldable(s)
  BY <1>2 DEF Foldable
<1> HIDE DEF e
<1>4. Len(log) # 0 => Tip.recorded <= e.recorded
  BY <1>1, StampTypes
<1>5. QED
  BY <1>1, <1>2, <1>3, <1>4, AppendKeepsInv

LEMMA PublishLegacyKeepsInv ==
  ASSUME LegacyInv, NEW t \in Clock, PublishLegacy(t)
  PROVE  LegacyInv'
<1>1. LegacyTypes /\ Len(log) \in Nat /\ applied \in 0..Len(log)
  BY LogFacts DEF LegacyInv, LegacyTypes
<1>2. /\ applied < Len(log) /\ ~Unproven
      /\ view' = Fold(view, log[applied+1], applied+1) /\ applied' = applied + 1
      /\ UNCHANGED <<log, latest, others, clock>>
  BY DEF PublishLegacy
<1>3. Foldable(log[applied+1].sub)
  BY DEF PublishLegacy, FoldRefuses
<1>4. /\ applied' \in 0..Len(log) /\ applied' # 0
      /\ \A i \in 1..applied' : i \in 1..applied \/ i = applied + 1
      /\ applied + 1 \in 1..Len(log) /\ (applied + 1) - 1 = applied
  BY <1>1, <1>2
<1>5. LegacyTypes'
  BY <1>1, <1>2, <1>4 DEF LegacyTypes
<1>6. Generations'
  <2>1. \A i \in 1..applied' : Foldable(log[i].sub)
    BY <1>3, <1>4 DEF LegacyInv, Generations
  <2>2. QED
    BY <1>2, <2>1 DEF LegacyInv, Generations
<1>7. ViewIsFold'
  <2>1. view = Projected(log)[applied]
    BY <1>2 DEF LegacyInv, ViewIsFold
  <2>2. view' = Projected(log)[applied']
    BY <1>1, <1>2, <1>4, <2>1, FoldSteps
  <2>3. ~Unproven'
    BY <1>4 DEF Unproven
  <2>4. QED
    BY <1>2, <2>2, <2>3 DEF ViewIsFold
<1>8. IndexAhead' /\ InOrder' /\ NoTwins'
  BY <1>2 DEF LegacyInv, IndexAhead, InOrder, NoTwins
<1>9. QED
  BY <1>5, <1>6, <1>7, <1>8 DEF LegacyInv

LEMMA PublishStageTwoKeepsInv ==
  ASSUME LegacyInv, NEW t \in Clock, PublishStageTwo(t)
  PROVE  LegacyInv'
<1>1. LegacyTypes /\ Len(log) \in Nat /\ others \in 0..Len(log)
  BY LogFacts DEF LegacyInv, LegacyTypes
<1>2. /\ others < Len(log) /\ log[others+1].sub.kind = "stage two" /\ others' = others + 1
      /\ UNCHANGED <<log, view, applied, latest, clock>>
  BY DEF PublishStageTwo
<1>3. /\ others' \in 0..Len(log)
      /\ \A i \in 1..others' : i \in 1..others \/ i = others + 1
  <2>1. others < Len(log) /\ others' = others + 1
    BY <1>2
  <2>2. QED
    BY <1>1, <2>1
<1>4. LegacyTypes'
  BY <1>1, <1>2, <1>3 DEF LegacyTypes
<1>5. Generations'
  <2>1. \A i \in 1..others' : log[i].sub.kind = "stage two"
    BY <1>2, <1>3 DEF LegacyInv, Generations
  <2>2. QED
    BY <1>2, <2>1 DEF LegacyInv, Generations
<1>6. ViewIsFold'
  BY <1>2 DEF LegacyInv, ViewIsFold, Unproven
<1>7. IndexAhead' /\ InOrder' /\ NoTwins'
  BY <1>2 DEF LegacyInv, IndexAhead, InOrder, NoTwins
<1>8. QED
  BY <1>4, <1>5, <1>6, <1>7 DEF LegacyInv

LEMMA QuietKeepsInv ==
  ASSUME LegacyInv, clock' \in Clock, UNCHANGED <<log, view, applied, latest, others>>
  PROVE  LegacyInv'
<1>1. LegacyTypes' /\ Generations' /\ ViewIsFold'
  BY DEF LegacyInv, LegacyTypes, Generations, ViewIsFold, Unproven
<1>2. IndexAhead' /\ InOrder' /\ NoTwins'
  BY DEF LegacyInv, IndexAhead, InOrder, NoTwins
<1>3. QED
  BY <1>1, <1>2 DEF LegacyInv

LEMMA LegacyStepKeepsInv ==
  ASSUME LegacyInv, [LegacyNext]_legacyVars
  PROVE  LegacyInv'
<1>1. CASE UNCHANGED legacyVars
  <2>1. clock' \in Clock /\ UNCHANGED <<log, view, applied, latest, others>>
    BY <1>1 DEF legacyVars, LegacyInv, LegacyTypes
  <2>2. QED
    BY <2>1, QuietKeepsInv
<1>2. CASE LegacyClockMoves
  BY <1>2, QuietKeepsInv DEF LegacyClockMoves
<1>3. QED
  BY <1>1, <1>2, AppendLegacyKeepsInv, AppendStageTwoKeepsInv, SafeAppendKeepsInv,
     PublishLegacyKeepsInv, PublishStageTwoKeepsInv DEF LegacyNext

LEMMA LegacyInitInv ==
  ASSUME LegacyInit
  PROVE  LegacyInv
<1> DEFINE ours == \E i \in DOMAIN log : Foldable(log[i].sub)
<1>1. /\ applied = 0 /\ others = 0 /\ clock \in Clock
      /\ latest = IF ours THEN Row(log[1].sub.belief, 1) ELSE NoRows
      /\ view = NoRows \/ ours
  BY DEF LegacyInit
<1>2. CASE log = <<>>
  <2>1. log \in Seq(Entries) /\ Len(log) = 0 /\ ~ours /\ 0 \in 0..0 /\ \A i \in 1..0 : FALSE
    BY <1>2
  <2> HIDE DEF ours
  <2>2. ~Unproven /\ view = NoRows
    BY <1>1, <2>1 DEF Unproven
  <2>3. view = Projected(log)[applied]
    BY <1>1, <2>1, <2>2, FoldSteps
  <2>4. QED
    BY <1>1, <2>1, <2>2, <2>3
       DEF LegacyInv, LegacyTypes, Generations, ViewIsFold, IndexAhead, InOrder, NoTwins
<1>3. CASE log # <<>>
  <2>1. PICK id \in EventIds, s \in Submissions :
          LeftBehind(s) /\ log = <<[id |-> id, sub |-> s, recorded |-> 0]>>
    BY <1>3 DEF LegacyInit
  <2> DEFINE e == [id |-> id, sub |-> s, recorded |-> 0]
  <2>2. e \in Entries /\ e.sub = s
    BY LegacyClockAssumption DEF Entries, Clock
  <2>3. e.recorded <= e.recorded
    BY <2>2 DEF Entries, Clock
  <2>4. log = <<e>>
    BY <2>1
  <2> HIDE DEF e
  <2>5. /\ log \in Seq(Entries) /\ Len(log) = 1 /\ 1 \in DOMAIN log /\ log[1] = e
    BY <2>2, <2>4
  <2>6. 0 \in 0..1 /\ (\A i \in 1..0 : FALSE) /\ (\A i \in 1..1 : i = 1) /\ 1 \in 1..1
    OBVIOUS
  <2>7. Foldable(s) \/ s.kind = "stage two"
    BY <2>1 DEF LeftBehind
  <2>8. Foldable(s) => s.belief \in DOMAIN latest /\ latest[s.belief] = 1
    BY <1>1, <2>2, <2>5 DEF Row
  <2>9. ~Unproven => view = Projected(log)[applied]
    <3>1. Projected(log)[0] = NoRows
      BY <2>5, FoldSteps
    <3>2. QED
      BY <1>1, <3>1 DEF Unproven
  <2>10. QED
    <3>1. LegacyTypes /\ Generations /\ ViewIsFold
      BY <1>1, <2>2, <2>5, <2>6, <2>7, <2>9 DEF LegacyTypes, Generations, ViewIsFold
    <3>2. IndexAhead /\ InOrder /\ NoTwins
      BY <2>2, <2>3, <2>5, <2>6, <2>8 DEF IndexAhead, InOrder, NoTwins
    <3>3. QED
      BY <3>1, <3>2 DEF LegacyInv
<1>4. QED
  BY <1>2, <1>3

\* Nothing a writer or a projector does leads out of the invariant.
THEOREM LegacyIndInv == LegacySpec => []LegacyInv
<1>1. LegacyInit => LegacyInv
  BY LegacyInitInv
<1>2. LegacyInv /\ [LegacyNext]_legacyVars => LegacyInv'
  BY LegacyStepKeepsInv
<1>3. QED
  BY <1>1, <1>2, PTL DEF LegacySpec

-----------------------------------------------------------------------------
(***************************************************************************)
(* What an append may not do.                                              *)
(***************************************************************************)
LEMMA AppendLegacyFolds ==
  ASSUME LegacyInv, NEW id \in EventIds, NEW s \in Submissions, AppendLegacy(id, s), Folds(log)
  PROVE  Folds(log')
<1> DEFINE n == Len(log)
           e == [id |-> id, sub |-> s, recorded |-> LegacyStamp]
<1>1. LegacyTypes /\ n \in Nat /\ applied = n
  BY LogFacts DEF LegacyInv, AppendLegacy, CaughtUp
<1>2. e \in Entries /\ e.sub = s
  BY StampTypes DEF Entries
<1>3. log' = Append(log, e)
  BY DEF AppendLegacy, Inserted
<1>4. ~FoldRefuses(view, s)
  BY DEF AppendLegacy, LockedChecks, FoldRefuses
<1> HIDE DEF e
<1>5. /\ log' \in Seq(Entries)
      /\ Len(log') = n + 1
      /\ \A i \in 1..n : log'[i] = log[i]
      /\ log'[n+1] = e
  BY <1>1, <1>2, <1>3, AppendFacts
<1>6. /\ \A i : i \in DOMAIN log' <=> i \in 1..(n+1)
      /\ \A i : i \in DOMAIN log <=> i \in 1..n
  BY <1>1, <1>5, LogFacts
<1>7. view = Projected(log)[n]
  <2>1. ~(Len(log) # 0 /\ applied = 0)
    BY <1>1
  <2>2. QED
    BY <1>1, <2>1 DEF LegacyInv, ViewIsFold, Unproven
<1>8. ASSUME NEW k \in 0..n PROVE Projected(log')[k] = Projected(log)[k]
  <2>1. n \in Nat /\ Len(log') = n + 1
    BY <1>1, <1>5
  <2>2. /\ k \in Nat /\ n \in Nat /\ Len(log') \in Nat /\ k <= n /\ k <= Len(log')
        /\ \A i \in 1..k : i \in 1..n
    BY ONLY <1>8, <2>1
  <2>3. \A i \in 1..k : log'[i] = log[i]
    BY ONLY <1>5, <2>2
  <2>4. QED
    BY ONLY <2>2, <2>3, FoldPrefix
<1> HIDE DEF n
<1>9. ASSUME NEW i \in 1..(n+1) PROVE ~FoldRefuses(Projected(log')[i-1], log'[i].sub)
  <2>1. i \in 1..n \/ i = n + 1
    BY ONLY <1>1, <1>9
  <2>2. CASE i \in 1..n
    <3>1. i - 1 \in 0..n
      BY ONLY <1>1, <2>2
    <3>2. Projected(log')[i-1] = Projected(log)[i-1] /\ log'[i] = log[i]
      BY ONLY <1>5, <1>8, <2>2, <3>1
    <3>3. QED
      BY <1>6, <2>2, <3>2 DEF Folds
  <2>3. CASE i = n + 1
    <3>1. i - 1 = n /\ n \in 0..n
      BY ONLY <1>1, <2>3
    <3>2. QED
      BY ONLY <1>2, <1>4, <1>5, <1>7, <1>8, <2>3, <3>1
  <2>4. QED
    BY ONLY <2>1, <2>2, <2>3
<1>10. QED
  BY ONLY <1>6, <1>9 DEF Folds

\* EveryLogFolds of the run: to a log that folds, an ordinary append commits nothing that
\* a replay from genesis would refuse, though what it judges a correction on is the
\* published view.  The low-level append judges on no view, and none is claimed of it.
THEOREM AppendsFold == LegacySpec => EveryLogFolds
<1>1. LegacyInv /\ [LegacyNext]_legacyVars =>
        [(\E id \in EventIds, s \in Submissions : AppendLegacy(id, s)) /\ Folds(log) => Folds(log')]_legacyVars
  BY AppendLegacyFolds
<1>2. QED
  BY <1>1, LegacyIndInv, PTL DEF LegacySpec, EveryLogFolds

LEMMA AppendUnmixed ==
  ASSUME LegacyInv, NEW id \in EventIds, NEW s \in Submissions, Unmixed(log),
         AppendLegacy(id, s) \/ AppendStageTwo(id, s)
  PROVE  Unmixed(log')
<1> DEFINE n == Len(log)
           e == [id |-> id, sub |-> s, recorded |-> LegacyStamp]
<1>1. LegacyTypes /\ n \in Nat
  BY LogFacts DEF LegacyInv
<1>2. e \in Entries /\ e.sub = s
  BY StampTypes DEF Entries
<1>3. log' = Append(log, e)
  BY DEF AppendLegacy, Inserted, AppendStageTwo
<1> HIDE DEF e
<1>4. \A i \in 1..n : log[i].sub.kind = s.kind
  <2>1. CASE AppendLegacy(id, s)
    <3>1. applied = n /\ Foldable(s)
      BY <2>1 DEF AppendLegacy, CaughtUp, LockedChecks
    <3>2. QED
      BY ONLY <3>1, LegacyInv DEF LegacyInv, Generations, Foldable
  <2>2. CASE AppendStageTwo(id, s)
    <3>1. others = n /\ s.kind = "stage two"
      BY <2>2 DEF AppendStageTwo
    <3>2. QED
      BY ONLY <3>1, LegacyInv DEF LegacyInv, Generations
  <2>3. QED
    BY <2>1, <2>2
<1>5. /\ log' \in Seq(Entries)
      /\ Len(log') = n + 1
      /\ \A i \in 1..n : log'[i] = log[i]
      /\ log'[n+1] = e
  BY <1>1, <1>2, <1>3, AppendFacts
<1>6. \A i : i \in DOMAIN log' <=> i \in 1..(n+1)
  BY <1>1, <1>5
<1> HIDE DEF n
<1>7. \A i \in 1..(n+1) : i \in 1..n \/ i = n + 1
  BY ONLY <1>1
<1>8. \A i \in 1..(n+1) : log'[i].sub.kind = s.kind
  BY ONLY <1>2, <1>4, <1>5, <1>7
<1>9. QED
  BY ONLY <1>6, <1>8 DEF Unmixed

\* OneGeneration of the run: the two generations' ordinary appends, each of which looks at
\* its own projector's progress only, never add to a log of the other.  The low-level
\* append looks at no progress, and none is claimed of it.
THEOREM AppendsNeverMix == LegacySpec => OneGeneration
<1>1. LegacyInv /\ [LegacyNext]_legacyVars =>
        [(\E id \in EventIds, s \in Submissions : AppendLegacy(id, s) \/ AppendStageTwo(id, s)) /\ Unmixed(log)
           => Unmixed(log')]_legacyVars
  BY AppendUnmixed
<1>2. QED
  BY <1>1, LegacyIndInv, PTL DEF LegacySpec, OneGeneration

-----------------------------------------------------------------------------
(***************************************************************************)
(* What readers are told.                                                  *)
(***************************************************************************)
LEMMA OccurredTypes ==
  ASSUME LegacyTypes
  PROVE  \A i \in 1..Len(log) : log[i].sub \in Submissions /\ log[i].sub.occurred \in Int
<1>1. \A i \in 1..Len(log) : log[i].sub \in Submissions
  BY LogFacts DEF Entries
<1>2. QED
  BY <1>1, SubmissionAssumption

\* A row stays as it is while no event of its belief is folded in.
LEMMA RowKept ==
  ASSUME LegacyTypes, NEW b, NEW n \in 0..Len(log), NEW m \in n..Len(log),
         \A i \in 1..Len(log) : log[i].sub.belief = b => i <= n
  PROVE  /\ b \in DOMAIN Projected(log)[n] <=> b \in DOMAIN Projected(log)[m]
         /\ b \in DOMAIN Projected(log)[n] => Projected(log)[m][b] = Projected(log)[n][b]
<1> DEFINE P == Projected(log)
           Same(k) == /\ b \in DOMAIN P[n] <=> b \in DOMAIN P[k]
                      /\ b \in DOMAIN P[n] => P[k][b] = P[n][b]
           Bad == {k \in n..Len(log) : ~Same(k)}
<1>1. Len(log) \in Nat /\ n \in Nat /\ \A k \in n..Len(log) : k \in Nat
  BY LogFacts
<1>2. SUFFICES ASSUME Bad # {} PROVE FALSE
  OBVIOUS
<1>3. Bad \in SUBSET Nat
  BY ONLY <1>1
<1>4. PICK k \in Bad : \A j \in Bad : ~(j < k)
  <2> HIDE DEF Bad
  <2> QED BY <1>2, <1>3, Least
<1>5. k \in n..Len(log) /\ ~Same(k) /\ k # n
  OBVIOUS
<1>6. /\ k \in 1..Len(log) /\ k-1 \in 0..Len(log) /\ k-1 \in n..Len(log) /\ k-1 < k /\ ~(k <= n)
  BY ONLY <1>1, <1>5
<1>7. Same(k-1)
  BY <1>4, <1>6
<1>8. P[k] = Fold(P[k-1], log[k], k)
  BY <1>1, <1>6, FoldSteps
<1>9. log[k].sub.belief # b
  BY <1>6
<1>10. HeadsHold(log, k-1)
  BY <1>1, <1>6, OccurredTypes, FoldShows
<1>11. \A x \in DOMAIN P[k-1] : DOMAIN P[k-1][x] = DOMAIN NoHead
  BY <1>10 DEF HeadsHold
<1> HIDE DEF P
<1>12. /\ b \in DOMAIN P[k] <=> b \in DOMAIN P[k-1]
       /\ b \in DOMAIN P[k-1] => P[k][b] = P[k-1][b]
  BY <1>8, <1>9, <1>11, FoldRow
<1>13. QED
  BY ONLY <1>5, <1>7, <1>12

LEMMA InvFreshIsCurrent ==
  ASSUME LegacyInv
  PROVE  LegacyFreshIsCurrent
<1> DEFINE P == Projected(log)
           n == Len(log)
<1>1. LegacyTypes /\ n \in Nat /\ applied \in 0..n
  BY LogFacts DEF LegacyInv, LegacyTypes
<1>2. ASSUME NEW x \in Submissions, Foldable(x), NEW b, b = x.belief, LegacyLabel(b) = "fresh"
      PROVE  /\ b \in DOMAIN view <=> b \in DOMAIN P[n]
             /\ b \in DOMAIN view => view[b] = P[n][b]
  <2>1. /\ b \in DOMAIN view => applied # 0
        /\ b \in DOMAIN latest => b \in DOMAIN view /\ ~(latest[b] > applied)
    BY <1>2 DEF LegacyLabel
  <2>2. ASSUME NEW i \in 1..n, log[i].sub.belief = b
        PROVE  i <= applied /\ b \in DOMAIN view
    <3>1. Foldable(log[i].sub) \/ log[i].sub.kind = "stage two"
      BY DEF LegacyInv, Generations
    <3>2. log[i].sub \in Submissions
      BY <1>1, OccurredTypes
    <3>3. Foldable(log[i].sub)
      BY <1>2, <2>2, <3>1, <3>2, SubmissionAssumption DEF Foldable
    <3>4. b \in DOMAIN latest /\ latest[b] \in i..n
      BY <2>2, <3>3 DEF LegacyInv, IndexAhead
    <3>5. b \in DOMAIN view /\ ~(latest[b] > applied)
      BY <2>1, <3>4
    <3>6. QED
      BY ONLY <1>1, <2>2, <3>4, <3>5
  <2>3. HeadsHold(log, n)
    <3>1. n \in 0..n
      BY <1>1
    <3>2. QED
      BY <1>1, <3>1, OccurredTypes, FoldShows
  <2>4. b \in DOMAIN P[n] <=> \E i \in 1..n : log[i].sub.belief = b
    BY <2>3 DEF HeadsHold
  <2>5. CASE Unproven
    <3>1. b \notin DOMAIN view
      BY <2>1, <2>5 DEF Unproven
    <3>2. QED
      BY <2>2, <2>4, <3>1
  <2>6. CASE ~Unproven
    <3>1. view = P[applied]
      BY <2>6 DEF LegacyInv, ViewIsFold
    <3>2. n \in applied..n
      BY ONLY <1>1
    <3>3. QED
      BY <1>1, <2>2, <3>1, <3>2, RowKept
  <2>7. QED
    BY <2>5, <2>6
<1>3. ASSUME LegacyLogLabel = "fresh" PROVE view = P[n]
  <2>1. ~Unproven /\ (log = <<>> \/ ~(n > applied))
    BY <1>3 DEF LegacyLogLabel
  <2>2. n = 0 \/ ~(n > applied)
    BY <1>1, <2>1, LogFacts
  <2>3. applied = n
    BY ONLY <1>1, <2>2
  <2>4. QED
    BY <2>1, <2>3 DEF LegacyInv, ViewIsFold
<1>4. QED
  BY <1>2, <1>3 DEF LegacyFreshIsCurrent

\* LegacyFreshIsCurrent of the run: a belief read as fresh is what the whole log says of
\* it, though the label looks at one index row and at the progress only.
THEOREM LegacyFreshReads == LegacySpec => []LegacyFreshIsCurrent
BY LegacyIndInv, InvFreshIsCurrent, PTL

-----------------------------------------------------------------------------
(***************************************************************************)
(* The provenance a row carries.                                           *)
(***************************************************************************)
LEMMA IdsOfNone == Ids(<<>>) = <<>>
BY DEF Ids

LEMMA IdsOfAppend ==
  ASSUME LegacyTypes, NEW ps \in Seq(Nat), \A k \in DOMAIN ps : ps[k] \in 1..Len(log),
         NEW i \in 1..Len(log)
  PROVE  Ids(Append(ps, i)) = Append(Ids(ps), log[i].id)
<1> DEFINE qs == Append(ps, i)
           m  == Len(ps)
           is == Ids(ps)
<1>1. /\ m \in Nat /\ qs \in Seq(Nat) /\ Len(qs) = m + 1 /\ qs[m+1] = i
      /\ \A k \in 1..m : qs[k] = ps[k]
      /\ \A k : k \in DOMAIN ps <=> k \in 1..m
  BY LogFacts
<1>2. is \in Seq(EventIds) /\ Len(is) = m /\ \A k \in 1..m : is[k] = log[ps[k]].id
  <2>1. is = [k \in 1..m |-> log[ps[k]].id]
    BY DEF Ids
  <2>2. \A k \in 1..m : log[ps[k]].id \in EventIds
    BY <1>1, LogFacts DEF Entries
  <2> HIDE DEF is, m
  <2>3. QED
    BY ONLY <1>1, <2>1, <2>2
<1>3. log[i].id \in EventIds
  BY LogFacts DEF Entries
<1> DEFINE js == Append(is, log[i].id)
           ks == Ids(qs)
<1>4. js = [k \in 1..(m+1) |-> IF k = m+1 THEN log[i].id ELSE log[ps[k]].id]
  <2> HIDE DEF is, m
  <2>1. /\ js \in Seq(EventIds) /\ Len(js) = m + 1 /\ js[m+1] = log[i].id
        /\ \A k \in 1..m : js[k] = log[ps[k]].id
    BY ONLY <1>1, <1>2, <1>3
  <2> HIDE DEF js
  <2>2. js = [k \in 1..(m+1) |-> js[k]]
    BY ONLY <1>1, <2>1
  <2>3. \A k \in 1..(m+1) : k \in 1..m \/ k = m + 1
    BY ONLY <1>1
  <2>4. QED
    BY ONLY <1>1, <2>1, <2>2, <2>3
<1>5. ks = [k \in 1..(m+1) |-> IF k = m+1 THEN log[i].id ELSE log[ps[k]].id]
  <2> HIDE DEF qs, m
  <2>1. DOMAIN qs = 1..(m+1)
    BY ONLY <1>1
  <2>2. \A k \in 1..(m+1) : k \in 1..m \/ k = m + 1
    BY ONLY <1>1
  <2>3. ks = [k \in 1..(m+1) |-> log[qs[k]].id]
    BY ONLY <2>1 DEF Ids
  <2>4. QED
    BY ONLY <1>1, <2>2, <2>3
<1>6. QED
  BY ONLY <1>4, <1>5

\* Row r of belief b carries the events of b among the first n.
Carries(r, b, n) ==
  /\ r.lineage = Ascending(EventsOf(b))[n]
  /\ r.supporting = Ids(Ascending(EventsOf(b))[n])
  /\ r.superseding = Ids(Ascending(CorrectionsOf(b))[n])

RowOrNone(b, n) == IF b \in DOMAIN Projected(log)[n] THEN Projected(log)[n][b] ELSE NoHead

LEMMA CarriesStep ==
  ASSUME LegacyTypes, NEW b, NEW k \in 1..Len(log), Carries(RowOrNone(b, k-1), b, k-1)
  PROVE  Carries(RowOrNone(b, k), b, k)
<1> DEFINE P == Projected(log)[k-1]
           Q == Projected(log)[k]
           e == log[k]
           E == EventsOf(b)
           C == CorrectionsOf(b)
<1>1. Len(log) \in Nat /\ k-1 \in 0..Len(log) /\ k \in DOMAIN log
  BY LogFacts
<1>2. Q = Fold(P, e, k)
  BY <1>1, FoldSteps
<1>3. HeadsHold(log, k-1)
  BY <1>1, OccurredTypes, FoldShows
<1>4. \A x \in DOMAIN P : DOMAIN P[x] = DOMAIN NoHead
  BY <1>3 DEF HeadsHold
<1>5. Lists(Ascending(E)[k-1], E, k-1) /\ Lists(Ascending(C)[k-1], C, k-1)
  BY <1>1, AscendingLists
<1>6. \A i \in 1..(k-1) : i \in 1..Len(log)
  BY <1>1
<1>7. /\ Ascending(E)[k] = IF k \in E THEN Append(Ascending(E)[k-1], k) ELSE Ascending(E)[k-1]
      /\ Ascending(C)[k] = IF k \in C THEN Append(Ascending(C)[k-1], k) ELSE Ascending(C)[k-1]
  BY <1>1, AscendingSteps
<1>8. /\ k \in E <=> e.sub.belief = b
      /\ k \in C <=> e.sub.belief = b /\ e.sub.type = "correction_appended"
  BY <1>1 DEF EventsOf, CorrectionsOf
<1> DEFINE ps == Ascending(E)[k-1]
           cs == Ascending(C)[k-1]
<1>9. /\ Ids(Append(ps, k)) = Append(Ids(ps), e.id)
      /\ Ids(Append(cs, k)) = Append(Ids(cs), e.id)
  <2>1. /\ ps \in Seq(Nat) /\ \A j \in DOMAIN ps : ps[j] \in 1..Len(log)
        /\ cs \in Seq(Nat) /\ \A j \in DOMAIN cs : cs[j] \in 1..Len(log)
    BY <1>5, <1>6 DEF Lists
  <2>2. QED
    BY <2>1, IdsOfAppend
<1> DEFINE prior == IF b \in DOMAIN P THEN P[b] ELSE NoHead
<1>10. /\ prior.lineage = ps
       /\ prior.supporting = Ids(ps)
       /\ prior.superseding = Ids(cs)
  BY DEF Carries, RowOrNone
<1>11. /\ Carries(RowOrNone(b, k), b, k) <=>
            /\ RowOrNone(b, k).lineage = Ascending(E)[k]
            /\ RowOrNone(b, k).supporting = Ids(Ascending(E)[k])
            /\ RowOrNone(b, k).superseding = Ids(Ascending(C)[k])
       /\ RowOrNone(b, k) = IF b \in DOMAIN Q THEN Q[b] ELSE NoHead
  BY DEF Carries, RowOrNone
<1> HIDE DEF P, Q, E, C
<1>12. CASE e.sub.belief # b
  <2>1. /\ b \in DOMAIN Q <=> b \in DOMAIN P
        /\ b \in DOMAIN P => Q[b] = P[b]
    BY <1>2, <1>4, <1>12, FoldRow
  <2>2. RowOrNone(b, k) = prior
    BY <1>11, <2>1
  <2> HIDE DEF prior
  <2>3. QED
    BY ONLY <1>7, <1>8, <1>10, <1>11, <1>12, <2>2
<1>13. CASE e.sub.belief = b
  <2>1. /\ b \in DOMAIN Q
        /\ Q[b].supporting = Append(prior.supporting, e.id)
        /\ Q[b].superseding = IF e.sub.type = "correction_appended"
                              THEN Append(prior.superseding, e.id) ELSE prior.superseding
        /\ Q[b].lineage = Append(prior.lineage, k)
    <3> DEFINE x   == e.sub.belief
               was == IF x \in DOMAIN P THEN P[x] ELSE NoHead
               F   == Fold(P, e, k)
    <3> HIDE DEF e
    <3>1. /\ \A y : y \in DOMAIN F <=> y = x \/ y \in DOMAIN P
          /\ F[x].supporting = Append(was.supporting, e.id)
          /\ F[x].superseding = IF e.sub.type = "correction_appended"
                                THEN Append(was.superseding, e.id) ELSE was.superseding
          /\ F[x].lineage = Append(was.lineage, k)
      BY ONLY <1>4, FoldRow
    <3>2. x = b /\ was = prior /\ F = Q
      BY ONLY <1>2, <1>13
    <3> HIDE DEF F, x, was, prior
    <3>3. QED
      BY ONLY <3>1, <3>2
  <2>2. RowOrNone(b, k) = Q[b]
    BY <1>11, <2>1
  <2> HIDE DEF prior, ps, cs
  <2>3. Ascending(E)[k] = Append(ps, k)
    BY ONLY <1>7, <1>8, <1>13 DEF ps
  <2>4. Ascending(C)[k] = IF e.sub.type = "correction_appended" THEN Append(cs, k) ELSE cs
    BY ONLY <1>7, <1>8, <1>13 DEF cs
  <2>5. QED
    BY ONLY <1>9, <1>10, <1>11, <2>1, <2>2, <2>3, <2>4
<1>14. QED
  BY <1>12, <1>13

LEMMA AllCarry ==
  ASSUME LegacyTypes, NEW b, NEW n \in 0..Len(log)
  PROVE  Carries(RowOrNone(b, n), b, n)
<1> DEFINE Holds(k) == Carries(RowOrNone(b, k), b, k)
           Bad == {k \in 0..Len(log) : ~Holds(k)}
<1>1. Len(log) \in Nat
  BY LogFacts
<1>2. SUFFICES ASSUME Bad # {} PROVE FALSE
  OBVIOUS
<1>3. Bad \in SUBSET Nat
  BY ONLY <1>1
<1>4. PICK k \in Bad : \A j \in Bad : ~(j < k)
  <2> HIDE DEF Bad
  <2> QED BY <1>2, <1>3, Least
<1>5. Holds(0)
  <2>1. /\ Ascending(EventsOf(b))[0] = <<>>
        /\ Ascending(CorrectionsOf(b))[0] = <<>>
    BY <1>1, AscendingSteps
  <2>2. Projected(log)[0] = NoRows /\ b \notin DOMAIN NoRows
    BY <1>1, FoldSteps DEF NoRows
  <2>3. RowOrNone(b, 0) = NoHead
    BY ONLY <2>2 DEF RowOrNone
  <2>4. NoHead.lineage = <<>> /\ NoHead.supporting = <<>> /\ NoHead.superseding = <<>>
    BY DEF NoHead
  <2>5. QED
    BY ONLY <2>1, <2>3, <2>4, IdsOfNone DEF Carries
<1>6. k \in 0..Len(log) /\ ~Holds(k)
  OBVIOUS
<1>7. k # 0
  BY <1>5, <1>6
<1>8. k-1 \in 0..Len(log) /\ k-1 < k /\ k \in 1..Len(log)
  BY ONLY <1>1, <1>6, <1>7
<1>9. Holds(k-1)
  BY <1>4, <1>8
<1>10. Holds(k)
  BY <1>8, <1>9, CarriesStep
<1>11. QED
  BY <1>6, <1>10

LEMMA InvHeadIsLatest ==
  ASSUME LegacyInv
  PROVE  HeadIsLatest
<1> DEFINE n == applied
<1>1. LegacyTypes /\ Len(log) \in Nat /\ n \in 0..Len(log)
  BY LogFacts DEF LegacyInv, LegacyTypes
<1>2. SUFFICES ASSUME ~Unproven
      PROVE  /\ DOMAIN view = {log[i].sub.belief : i \in 1..n}
             /\ \A b \in DOMAIN view :
                  LET ps == Ascending(EventsOf(b))[n] IN
                  /\ \E k \in DOMAIN ps :
                       /\ IsHead(ps[k], ps)
                       /\ view[b].value = log[ps[k]].sub.value
                       /\ view[b].occurred = log[ps[k]].sub.occurred
                       /\ view[b].basis = log[ps[k]].sub.type
                  /\ Carries(view[b], b, n)
  BY DEF HeadIsLatest, Carries
<1>3. view = Projected(log)[n]
  BY <1>2 DEF LegacyInv, ViewIsFold
<1>4. HeadsHold(log, n)
  BY <1>1, OccurredTypes, FoldShows
<1>5. \A b : b \in DOMAIN view <=> \E i \in 1..n : log[i].sub.belief = b
  BY <1>3, <1>4 DEF HeadsHold
<1>6. ASSUME NEW b \in DOMAIN view PROVE Carries(view[b], b, n)
  <2>1. Carries(RowOrNone(b, n), b, n)
    BY <1>1, AllCarry
  <2>2. RowOrNone(b, n) = view[b]
    BY <1>3, <1>6 DEF RowOrNone
  <2>3. QED
    BY ONLY <2>1, <2>2
<1>7. ASSUME NEW b \in DOMAIN view, NEW ps, ps = Ascending(EventsOf(b))[n]
      PROVE  \E k \in DOMAIN ps :
                /\ IsHead(ps[k], ps)
                /\ view[b].value = log[ps[k]].sub.value
                /\ view[b].occurred = log[ps[k]].sub.occurred
                /\ view[b].basis = log[ps[k]].sub.type
  <2>1. PICK i \in 1..n :
          /\ log[i].sub.belief = b
          /\ view[b].value = log[i].sub.value
          /\ view[b].occurred = log[i].sub.occurred
          /\ view[b].basis = log[i].sub.type
          /\ \A j \in 1..n : log[j].sub.belief = b =>
               \/ log[j].sub.occurred < log[i].sub.occurred
               \/ log[j].sub.occurred = log[i].sub.occurred /\ j <= i
    BY <1>3, <1>4 DEF HeadsHold
  <2>2. Lists(ps, EventsOf(b), n)
    BY <1>1, <1>7, AscendingLists
  <2>3. i \in 1..Len(log)
    BY <1>1
  <2>4. i \in EventsOf(b)
    BY <1>1, <2>1, <2>3, LogFacts DEF EventsOf
  <2>5. PICK k \in DOMAIN ps : ps[k] = i
    BY <2>2, <2>4 DEF Lists
  <2>6. ASSUME NEW j \in DOMAIN ps PROVE ps[j] \in 1..n /\ log[ps[j]].sub.belief = b
    BY <2>2 DEF Lists, EventsOf
  <2>7. IsHead(i, ps)
    BY ONLY <2>1, <2>6 DEF IsHead
  <2>8. QED
    BY ONLY <2>1, <2>5, <2>7
<1>8. DOMAIN view = {log[i].sub.belief : i \in 1..n}
  BY <1>5
<1>9. QED
  BY <1>6, <1>7, <1>8

\* HeadIsLatest of the run: each belief shows the event that occurred last, whatever the
\* order in which its events arrived, with all of its events as provenance.
THEOREM LatestEventShows == LegacySpec => []HeadIsLatest
BY LegacyIndInv, InvHeadIsLatest, PTL

-----------------------------------------------------------------------------
(***************************************************************************)
(* Callers.  Between two steps of the session that holds the lock nobody   *)
(* appends or publishes, so what it saw still holds; what a session was    *)
(* told before stays true by what the log can still become.                *)
(***************************************************************************)
Working == {"opened", "draining", "preparing", "appending", "committed", "publishing", "published"}

SessionTypes ==
  /\ at \in [Sessions -> Working \cup {"idle", "returned", "refused"}]
  /\ asOf \in [Sessions -> Clock]
  /\ eventId \in [Sessions -> SUBSET EventIds]
  /\ row = [p \in Sessions |-> row[p]]

CoversTip(p) == Len(log) # 0 => Tip.recorded <= asOf[p]

InLog(s) == \E i \in 1..Len(log) : log[i].sub = s

\* What is left to publish, at most one event, will be published.
NothingRefused ==
  \/ CaughtUp
  \/ applied + 1 = Len(log) /\ ~FoldRefuses(view, Tip.sub)

Supports(r, s) ==
  \E i \in 1..Len(log) : log[i].sub = s /\ \E k \in DOMAIN r.supporting : r.supporting[k] = log[i].id

\* A stage-two event of an earlier revision is all there is: projector 0 never gets past it.
Blocked == Len(log) = 1 /\ applied = 0 /\ log[1].sub.kind = "stage two"

KeyTaken(s) == \E i \in 1..Len(log) : LegacyKey(log[i].sub) = LegacyKey(s)

\* A correction of something the log says happened after it.
TooLate(s) ==
  /\ s.type = "correction_appended"
  /\ \E i \in 1..Len(log) : log[i].sub.belief = s.belief /\ s.occurred < log[i].sub.occurred

\* No caller will ever get this submission into the log.
Doomed(s) ==
  /\ ~InLog(s)
  /\ Blocked \/ KeyTaken(s) \/ TooLate(s) \/ ~Foldable(s) \/ s.origin # "observed"

WhereItIs(p) ==
  /\ at[p] \in Working => owner = {p}
  /\ at[p] \in {"draining", "publishing"} => CoversTip(p)
  /\ at[p] \in {"preparing", "appending", "published"} => CaughtUp
  /\ at[p] \in {"preparing", "appending", "committed", "publishing", "published"} => ~Unproven
  /\ at[p] = "appending" => eventId[p] \subseteq IdFor(Mine(p))
  /\ at[p] \in {"committed", "publishing", "published"} => InLog(Mine(p))
  /\ at[p] \in {"committed", "publishing"} => NothingRefused
  /\ at[p] = "returned" => \E r \in row[p] : Supports(r, Mine(p))
  /\ at[p] = "refused" /\ ~Unproven => Doomed(Mine(p))

LogInv == LegacyInv /\ (Folds(log) \/ Blocked)

RecordInv == LogInv /\ SessionTypes /\ \A p \in Sessions : WhereItIs(p)

\* What a session's step may do to the store.
Rest == clock' \in Clock /\ UNCHANGED <<log, view, applied, latest, others>>

StoreStep ==
  \/ Rest
  \/ \E t \in Clock : PublishLegacy(t)
  \/ \E id \in EventIds, s \in Submissions : AppendLegacy(id, s)

LEMMA CaughtUpView ==
  ASSUME LegacyInv, CaughtUp
  PROVE  ~Unproven /\ view = Projected(log)[Len(log)]
<1>1. ~(Len(log) # 0 /\ applied = 0)
  BY DEF CaughtUp
<1>2. QED
  BY <1>1 DEF LegacyInv, ViewIsFold, Unproven, CaughtUp

LEMMA StepUnproven ==
  ASSUME LegacyInv, StoreStep
  PROVE  Unproven' <=> Unproven
<1>1. CASE UNCHANGED <<view, applied>>
  BY <1>1 DEF Unproven
<1>2. ASSUME NEW t \in Clock, PublishLegacy(t) PROVE ~Unproven /\ ~Unproven'
  <2>1. applied \in Nat
    BY LogFacts DEF LegacyInv, LegacyTypes
  <2>2. applied' = applied + 1 /\ ~Unproven
    BY <1>2 DEF PublishLegacy
  <2>3. applied' # 0
    BY <2>1, <2>2
  <2>4. QED
    BY <2>2, <2>3 DEF Unproven
<1>3. QED
  BY <1>1, <1>2 DEF StoreStep, Rest, AppendLegacy, Inserted

LEMMA StepInv ==
  ASSUME LegacyInv, StoreStep
  PROVE  LegacyInv'
BY QuietKeepsInv, AppendLegacyKeepsInv, PublishLegacyKeepsInv DEF StoreStep, Rest

\* The log only grows.
LEMMA StepGrows ==
  ASSUME LegacyInv, StoreStep
  PROVE  \A i \in 1..Len(log) : i \in 1..Len(log') /\ log'[i] = log[i]
<1>1. CASE UNCHANGED log
  BY <1>1
<1>2. ASSUME NEW id \in EventIds, NEW s \in Submissions, AppendLegacy(id, s)
      PROVE  \A i \in 1..Len(log) : i \in 1..Len(log') /\ log'[i] = log[i]
  <2> DEFINE e == [id |-> id, sub |-> s, recorded |-> LegacyStamp]
  <2>1. e \in Entries
    BY StampTypes DEF Entries
  <2>2. log' = Append(log, e)
    BY <1>2 DEF AppendLegacy, Inserted
  <2> HIDE DEF e
  <2>3. /\ Len(log) \in Nat
        /\ Len(log') = Len(log) + 1
        /\ \A i \in 1..Len(log) : log'[i] = log[i]
    BY <2>1, <2>2, LogFacts, AppendFacts DEF LegacyInv
  <2>4. QED
    BY ONLY <2>3
<1>3. QED
  BY <1>1, <1>2 DEF StoreStep, Rest, PublishLegacy

\* An append under the lock: the new entry, and what was checked of it.
LEMMA AppendOf ==
  ASSUME LegacyInv, NEW id \in EventIds, NEW s \in Submissions, AppendLegacy(id, s)
  PROVE  /\ Len(log) \in Nat /\ Len(log') = Len(log) + 1
         /\ \A i \in 1..Len(log) : log'[i] = log[i]
         /\ log'[Len(log) + 1].sub = s
         /\ ~Unproven /\ CaughtUp /\ view = Projected(log)[Len(log)]
         /\ ~FoldRefuses(view, s) /\ Foldable(s) /\ s.origin = "observed"
         /\ \A i \in 1..Len(log) : LegacyKey(log[i].sub) # LegacyKey(s)
         /\ view' = view /\ applied' = applied
<1> DEFINE e == [id |-> id, sub |-> s, recorded |-> LegacyStamp]
<1>1. e \in Entries /\ e.sub = s /\ LegacyTypes
  BY StampTypes DEF Entries, LegacyInv
<1>2. log' = Append(log, e) /\ view' = view /\ applied' = applied
  BY DEF AppendLegacy, Inserted
<1>3. /\ CaughtUp /\ Foldable(s) /\ s.origin = "observed" /\ Recorded(id, s) = {}
      /\ ~FoldRefuses(view, s)
  BY DEF AppendLegacy, LockedChecks, FoldRefuses
<1> HIDE DEF e
<1>4. /\ Len(log) \in Nat
      /\ Len(log') = Len(log) + 1
      /\ \A i \in 1..Len(log) : log'[i] = log[i]
      /\ log'[Len(log) + 1] = e
  BY <1>1, <1>2, LogFacts, AppendFacts
<1>5. \A i \in 1..Len(log) : LegacyKey(log[i].sub) # LegacyKey(s)
  BY <1>1, <1>3, LogFacts DEF Recorded
<1>6. ~Unproven /\ view = Projected(log)[Len(log)]
  BY <1>3, CaughtUpView
<1>7. QED
  BY ONLY <1>1, <1>2, <1>3, <1>4, <1>5, <1>6

LEMMA BlockedIsBehind ==
  ASSUME LegacyInv, Blocked
  PROVE  ~CaughtUp
<1>1. applied \in Int /\ Len(log) \in Int
  BY LogFacts DEF LegacyInv, LegacyTypes
<1>2. applied = 0 /\ Len(log) = 1
  BY DEF Blocked
<1>3. applied # Len(log)
  BY ONLY <1>1, <1>2
<1>4. QED
  BY <1>3 DEF CaughtUp

LEMMA BlockedStays ==
  ASSUME LegacyInv, StoreStep, Blocked
  PROVE  Blocked'
<1>1. CASE Rest
  BY <1>1 DEF Rest, Blocked
<1>2. ASSUME NEW t \in Clock, PublishLegacy(t) PROVE FALSE
  <2>1. ~FoldRefuses(view, log[applied+1].sub)
    BY <1>2 DEF PublishLegacy
  <2>2. applied = 0 /\ log[1].sub.kind = "stage two"
    BY DEF Blocked
  <2>3. log[applied+1].sub.kind = "legacy"
    BY ONLY <2>1 DEF FoldRefuses, Foldable
  <2>4. applied + 1 = 1
    <3>1. applied = 0
      BY <2>2
    <3>2. QED
      BY ONLY <3>1
  <2>5. QED
    BY ONLY <2>2, <2>3, <2>4
<1>3. ASSUME NEW id \in EventIds, NEW s \in Submissions, AppendLegacy(id, s) PROVE FALSE
  BY <1>3, BlockedIsBehind DEF AppendLegacy
<1>4. QED
  BY <1>1, <1>2, <1>3 DEF StoreStep

LEMMA StepLogInv ==
  ASSUME LogInv, StoreStep
  PROVE  LogInv'
<1>1. LegacyInv'
  BY StepInv DEF LogInv
<1>2. CASE Blocked
  BY <1>1, <1>2, BlockedStays DEF LogInv
<1>3. CASE Folds(log)
  <2>1. Folds(log')
    BY <1>3, AppendLegacyFolds DEF LogInv, StoreStep, Rest, PublishLegacy
  <2>2. QED
    BY <1>1, <2>1 DEF LogInv
<1>4. QED
  BY <1>2, <1>3 DEF LogInv

LEMMA TooLateIsBackdated ==
  ASSUME LegacyInv, CaughtUp, NEW s \in Submissions, TooLate(s)
  PROVE  Backdated(view, s)
<1>1. view = Projected(log)[Len(log)]
  BY CaughtUpView
<1>2. LegacyTypes /\ Len(log) \in Nat /\ Len(log) \in 0..Len(log)
  BY LogFacts DEF LegacyInv
<1>3. HeadsHold(log, Len(log))
  BY <1>2, OccurredTypes, FoldShows
<1>4. PICK i \in 1..Len(log) : log[i].sub.belief = s.belief /\ s.occurred < log[i].sub.occurred
  BY DEF TooLate
<1>5. s.belief \in DOMAIN view
  BY <1>1, <1>3, <1>4 DEF HeadsHold
<1>6. PICK h \in 1..Len(log) :
        /\ view[s.belief].occurred = log[h].sub.occurred
        /\ \A j \in 1..Len(log) : log[j].sub.belief = s.belief =>
             \/ log[j].sub.occurred < log[h].sub.occurred
             \/ log[j].sub.occurred = log[h].sub.occurred /\ j <= h
  BY <1>1, <1>3, <1>5 DEF HeadsHold
<1>7. log[i].sub.occurred \in Int /\ log[h].sub.occurred \in Int /\ s.occurred \in Int
  BY <1>2, OccurredTypes, SubmissionAssumption
<1>8. log[i].sub.occurred < log[h].sub.occurred \/ log[i].sub.occurred = log[h].sub.occurred
  BY <1>4, <1>6
<1>9. s.occurred < view[s.belief].occurred
  BY ONLY <1>4, <1>6, <1>7, <1>8
<1>10. QED
  BY <1>5, <1>9 DEF Backdated, TooLate

LEMMA DoomedStays ==
  ASSUME LegacyInv, StoreStep, NEW s \in Submissions, Doomed(s)
  PROVE  Doomed(s)'
<1>1. \A i \in 1..Len(log) : i \in 1..Len(log') /\ log'[i] = log[i]
  BY StepGrows
<1>2. CASE Blocked
  <2>1. Blocked'
    BY <1>2, BlockedStays
  <2>2. log' = log
    <3>1. Rest \/ (\E t \in Clock : PublishLegacy(t)) => log' = log
      BY DEF Rest, PublishLegacy
    <3>2. ASSUME NEW id \in EventIds, NEW x \in Submissions, AppendLegacy(id, x) PROVE FALSE
      BY <1>2, <3>2, BlockedIsBehind DEF AppendLegacy
    <3>3. QED
      BY <3>1, <3>2 DEF StoreStep
  <2>3. QED
    BY <2>1, <2>2 DEF Doomed, InLog
<1>3. CASE KeyTaken(s) \/ TooLate(s) \/ ~Foldable(s) \/ s.origin # "observed"
  <2>1. KeyTaken(s)' \/ TooLate(s)' \/ ~Foldable(s) \/ s.origin # "observed"
    BY <1>1, <1>3 DEF KeyTaken, TooLate
  <2>2. ~InLog(s)'
    <3>1. CASE UNCHANGED log
      BY <3>1 DEF Doomed, InLog
    <3>2. ASSUME NEW id \in EventIds, NEW x \in Submissions, AppendLegacy(id, x) PROVE ~InLog(s)'
      <4>1. x # s
        <5>1. \A i \in 1..Len(log) : LegacyKey(log[i].sub) # LegacyKey(x)
          BY <3>2, AppendOf
        <5>2. Foldable(x) /\ x.origin = "observed" /\ CaughtUp /\ ~Backdated(view, x)
          BY <3>2, AppendOf DEF FoldRefuses
        <5>3. SUFFICES ASSUME x = s PROVE FALSE
          OBVIOUS
        <5>4. ~KeyTaken(s) /\ Foldable(s) /\ s.origin = "observed"
          BY <5>1, <5>2, <5>3 DEF KeyTaken
        <5>5. ~TooLate(s)
          BY <5>2, <5>3, TooLateIsBackdated
        <5>6. QED
          BY <1>3, <5>4, <5>5
      <4>2. /\ Len(log) \in Nat /\ Len(log') = Len(log) + 1
            /\ \A i \in 1..Len(log) : log'[i] = log[i]
            /\ log'[Len(log) + 1].sub = x
        BY <3>2, AppendOf
      <4>3. \A i \in 1..Len(log') : i \in 1..Len(log) \/ i = Len(log) + 1
        BY ONLY <4>2
      <4>4. \A i \in 1..Len(log) : log[i].sub # s
        BY DEF Doomed, InLog
      <4>5. QED
        BY ONLY <4>1, <4>2, <4>3, <4>4 DEF InLog
    <3>3. QED
      BY <3>1, <3>2 DEF StoreStep, Rest, PublishLegacy
  <2>3. QED
    BY <2>1, <2>2 DEF Doomed
<1>4. QED
  BY <1>2, <1>3 DEF Doomed

LEMMA SupportsStays ==
  ASSUME LegacyInv, StoreStep, NEW r, NEW s, Supports(r, s)
  PROVE  Supports(r, s)'
<1>1. \A i \in 1..Len(log) : i \in 1..Len(log') /\ log'[i] = log[i]
  BY StepGrows
<1>2. QED
  BY <1>1 DEF Supports

-----------------------------------------------------------------------------
(***************************************************************************)
(* One step of a session.  The others are not working, so what is said of  *)
(* them is about their answers only.                                       *)
(***************************************************************************)
OnlyMoves(p) ==
  /\ owner \subseteq {p}
  /\ \A q \in Sessions : q # p => at'[q] = at[q] /\ row'[q] = row[q]

LEMMA OthersKeep ==
  ASSUME RecordInv, StoreStep, NEW p \in Sessions, OnlyMoves(p), NEW q \in Sessions, q # p
  PROVE  WhereItIs(q)'
<1>1. LegacyInv /\ WhereItIs(q) /\ Mine(q) \in Submissions
  BY CallerAssumption DEF RecordInv, LogInv, Mine
<1>2. at[q] \notin Working
  BY <1>1 DEF WhereItIs, OnlyMoves
<1>3. at'[q] = at[q] /\ row'[q] = row[q]
  BY DEF OnlyMoves
<1>4. at'[q] \notin Working /\ at'[q] \notin
        {"draining", "preparing", "appending", "committed", "publishing", "published"}
  BY <1>2, <1>3 DEF Working
<1>5. at'[q] = "returned" => \E r \in row'[q] : Supports(r, Mine(q))'
  BY <1>1, <1>3, SupportsStays DEF WhereItIs
<1>6. at'[q] = "refused" /\ ~Unproven' => Doomed(Mine(q))'
  BY <1>1, <1>3, StepUnproven, DoomedStays DEF WhereItIs
<1>7. QED
  BY ONLY <1>4, <1>5, <1>6 DEF WhereItIs, Mine

\* A step of p preserves the invariant when p's own part holds after it.
LEMMA StepFrame ==
  ASSUME RecordInv, StoreStep, NEW p \in Sessions, OnlyMoves(p), SessionTypes', WhereItIs(p)'
  PROVE  RecordInv'
<1>1. LogInv'
  BY StepLogInv DEF RecordInv
<1>2. \A q \in Sessions : WhereItIs(q)'
  BY OthersKeep
<1>3. QED
  BY ONLY <1>1, <1>2, SessionTypes' DEF RecordInv

Places == Working \cup {"idle", "returned", "refused"}

\* A session moves on with its lock and its store as they are.
LEMMA GoesFrame ==
  ASSUME SessionTypes, NEW p \in Sessions, NEW from, NEW to \in Places, Goes(p, from, to)
  PROVE  /\ at[p] = from /\ at'[p] = to
         /\ at' \in [Sessions -> Places]
         /\ \A q \in Sessions : q # p => at'[q] = at[q]
BY DEF Goes, SessionTypes, Places

LEMMA HoldsLock ==
  ASSUME RecordInv, NEW p \in Sessions, at[p] \in Working
  PROVE  owner = {p}
BY DEF RecordInv, WhereItIs

\* The steps that leave the store alone.
LEMMA Untouched ==
  ASSUME RecordInv, UNCHANGED legacyVars
  PROVE  /\ StoreStep /\ (Unproven' <=> Unproven) /\ (CaughtUp' <=> CaughtUp)
         /\ NothingRefused' <=> NothingRefused
         /\ \A s : (InLog(s)' <=> InLog(s)) /\ IdFor(s)' = IdFor(s)
<1>1. /\ clock' \in Clock /\ clock' = clock
      /\ UNCHANGED <<log, view, applied, latest, others>>
  BY DEF RecordInv, LogInv, LegacyInv, LegacyTypes, legacyVars
<1>2. StoreStep
  BY <1>1 DEF StoreStep, Rest
<1>3. (Unproven' <=> Unproven) /\ (CaughtUp' <=> CaughtUp)
  BY <1>1 DEF Unproven, CaughtUp
<1>4. NothingRefused' <=> NothingRefused
  BY <1>1, <1>3 DEF NothingRefused, Tip
<1>5. \A s : (InLog(s)' <=> InLog(s)) /\ IdFor(s)' = IdFor(s)
  BY <1>1 DEF InLog, IdFor, RetainedEntry, FreshIds
<1>6. QED
  BY <1>2, <1>3, <1>4, <1>5

LEMMA OpenKeeps ==
  ASSUME RecordInv, NEW p \in Sessions, Open(p)
  PROVE  RecordInv'
<1>1. SessionTypes /\ "opened" \in Places
  BY DEF RecordInv, Places, Working
<1>2. Goes(p, "idle", "opened") /\ owner = {} /\ owner' = {p} /\ UNCHANGED <<legacyVars, asOf, eventId, row>>
  BY DEF Open
<1>3. /\ at[p] = "idle" /\ at'[p] = "opened" /\ at' \in [Sessions -> Places]
      /\ \A q \in Sessions : q # p => at'[q] = at[q]
  BY <1>1, <1>2, GoesFrame
<1>4. OnlyMoves(p)
  BY <1>2, <1>3 DEF OnlyMoves
<1>5. SessionTypes'
  BY <1>1, <1>2, <1>3 DEF SessionTypes, Places
<1>6. WhereItIs(p)'
  BY <1>2, <1>3 DEF WhereItIs
<1>7. QED
  BY <1>2, <1>4, <1>5, <1>6, Untouched, StepFrame

LEMMA LiveAsOfCovers ==
  ASSUME LegacyInv
  PROVE  LiveAsOf \in Clock /\ (Len(log) # 0 => Tip.recorded <= LiveAsOf)
<1>1. LiveAsOf = LegacyStamp
  BY DEF LiveAsOf, LegacyStamp
<1>2. QED
  BY <1>1, StampTypes

LEMMA SampleClockKeeps ==
  ASSUME RecordInv, NEW p \in Sessions, SampleClock(p)
  PROVE  RecordInv'
<1>1. SessionTypes /\ LegacyInv /\ WhereItIs(p)
  BY DEF RecordInv, LogInv
<1>2. PICK from, to :
        /\ <<from, to>> \in {<<"opened", "draining">>, <<"committed", "publishing">>}
        /\ Goes(p, from, to)
  BY DEF SampleClock
<1>3. to \in Places /\ from \in Working
  BY <1>2 DEF Places, Working
<1>4. /\ at[p] = from /\ at'[p] = to /\ at' \in [Sessions -> Places]
      /\ \A q \in Sessions : q # p => at'[q] = at[q]
  BY <1>1, <1>2, <1>3, GoesFrame
<1>5. /\ asOf' = [asOf EXCEPT ![p] = LiveAsOf]
      /\ UNCHANGED <<legacyVars, owner, eventId, row>>
  BY DEF SampleClock
<1>6. owner = {p}
  BY <1>3, <1>4, HoldsLock
<1>7. SessionTypes' /\ asOf'[p] = LiveAsOf
  BY <1>1, <1>4, <1>5, LiveAsOfCovers DEF SessionTypes, Places
<1>8. CoversTip(p)'
  <2>1. log' = log
    BY <1>5 DEF legacyVars
  <2>2. QED
    BY <1>1, <1>7, <2>1, LiveAsOfCovers DEF CoversTip, Tip
<1>9. /\ Unproven' <=> Unproven
      /\ NothingRefused' <=> NothingRefused
      /\ InLog(Mine(p))' <=> InLog(Mine(p))
  BY <1>5, Untouched DEF Mine
<1>10. WhereItIs(p)'
  <2>1. CASE from = "opened" /\ to = "draining"
    BY ONLY <1>4, <1>5, <1>6, <1>8, <2>1 DEF WhereItIs
  <2>2. CASE from = "committed" /\ to = "publishing"
    <3>1. ~Unproven /\ InLog(Mine(p)) /\ NothingRefused
      BY <1>1, <1>4, <2>2 DEF WhereItIs
    <3>2. QED
      BY ONLY <1>4, <1>5, <1>6, <1>8, <1>9, <2>2, <3>1 DEF WhereItIs, Mine
  <2>3. QED
    BY <1>2, <2>1, <2>2
<1>11. OnlyMoves(p)
  BY <1>4, <1>5, <1>6 DEF OnlyMoves
<1>12. QED
  BY <1>5, <1>7, <1>10, <1>11, Untouched, StepFrame

LEMMA PublishEachKeeps ==
  ASSUME RecordInv, NEW p \in Sessions, PublishEach(p)
  PROVE  RecordInv'
<1>1. SessionTypes /\ LegacyInv /\ WhereItIs(p) /\ LegacyTypes
  BY DEF RecordInv, LogInv, LegacyInv
<1>2. /\ at[p] \in {"draining", "publishing"} /\ PublishLegacy(asOf[p])
      /\ UNCHANGED <<at, owner, asOf, eventId, row>>
  BY DEF PublishEach, sessionVars
<1>3. at[p] \in Working /\ asOf[p] \in Clock
  BY <1>1, <1>2 DEF Working, SessionTypes
<1>4. owner = {p}
  BY <1>3, HoldsLock
<1>5. StoreStep
  BY <1>2, <1>3 DEF StoreStep
<1>6. /\ ~Unproven /\ applied < Len(log) /\ applied' = applied + 1 /\ log' = log
  BY <1>2 DEF PublishLegacy
<1>7. ~Unproven'
  BY <1>1, <1>5, <1>6, StepUnproven
<1>8. CoversTip(p)'
  BY <1>1, <1>2, <1>6 DEF WhereItIs, CoversTip, Tip
<1>9. NothingRefused => CaughtUp'
  <2>1. applied \in Int /\ Len(log) \in Int
    BY <1>1, LogFacts DEF LegacyTypes
  <2>2. applied < Len(log) /\ applied' = applied + 1
    BY <1>6
  <2>3. applied # Len(log) /\ (applied + 1 = Len(log) => applied' = Len(log))
    BY ONLY <2>1, <2>2
  <2>4. QED
    BY <1>6, <2>3 DEF NothingRefused, CaughtUp
<1>10. InLog(Mine(p)) => InLog(Mine(p))'
  BY <1>6 DEF InLog, Mine
<1>11. WhereItIs(p)'
  <2>1. CASE at[p] = "draining"
    BY ONLY <1>2, <1>4, <1>8, <2>1 DEF WhereItIs
  <2>2. CASE at[p] = "publishing"
    <3>1. InLog(Mine(p)) /\ NothingRefused
      BY <1>1, <2>2 DEF WhereItIs
    <3>2. at'[p] = "publishing" /\ owner' = {p} /\ InLog(Mine(p))' /\ NothingRefused'
      BY <1>2, <1>4, <1>9, <1>10, <2>2, <3>1 DEF NothingRefused
    <3>3. QED
      BY ONLY <1>7, <1>8, <3>2 DEF WhereItIs, Mine
  <2>3. QED
    BY <1>2, <2>1, <2>2
<1>12. OnlyMoves(p) /\ SessionTypes'
  BY <1>1, <1>2, <1>4 DEF OnlyMoves, SessionTypes
<1>13. QED
  BY <1>5, <1>11, <1>12, StepFrame

\* A publication that covers the tip and has nothing pending is caught up.
LEMMA NothingPendingCaughtUp ==
  ASSUME LegacyInv, NEW p \in Sessions, asOf[p] \in Clock, CoversTip(p), ~Pending(p)
  PROVE  CaughtUp
<1>1. LegacyTypes /\ Len(log) \in Nat /\ applied \in 0..Len(log)
  BY LogFacts DEF LegacyInv, LegacyTypes
<1>2. SUFFICES ASSUME applied < Len(log) PROVE FALSE
  BY <1>1 DEF CaughtUp
<1>3. applied + 1 \in 1..Len(log) /\ Len(log) \in 1..Len(log) /\ applied + 1 <= Len(log) /\ Len(log) # 0
  BY ONLY <1>1, <1>2
<1>4. log[applied+1].recorded <= Tip.recorded
  BY <1>3 DEF LegacyInv, InOrder, Tip
<1>5. Tip.recorded <= asOf[p]
  BY <1>3 DEF CoversTip
<1>6. log[applied+1] \in Entries /\ Tip \in Entries
  BY <1>1, <1>3, LogFacts DEF Tip
<1>7. log[applied+1].recorded \in Clock /\ Tip.recorded \in Clock
  BY ONLY <1>6 DEF Entries
<1>8. ~(log[applied+1].recorded <= asOf[p])
  BY <1>2 DEF Pending
<1>9. QED
  BY ONLY <1>4, <1>5, <1>7, <1>8, asOf[p] \in Clock, LegacyClockAssumption DEF Clock

LEMMA NothingPendingKeeps ==
  ASSUME RecordInv, NEW p \in Sessions, NothingPending(p)
  PROVE  RecordInv'
<1>1. SessionTypes /\ LegacyInv /\ WhereItIs(p)
  BY DEF RecordInv, LogInv
<1>2. PICK from, to :
        /\ <<from, to>> \in {<<"draining", "preparing">>, <<"publishing", "published">>}
        /\ Goes(p, from, to)
  BY DEF NothingPending
<1>3. to \in Places /\ from \in Working
  BY <1>2 DEF Places, Working
<1>4. /\ at[p] = from /\ at'[p] = to /\ at' \in [Sessions -> Places]
      /\ \A q \in Sessions : q # p => at'[q] = at[q]
  BY <1>1, <1>2, <1>3, GoesFrame
<1>5. ~Unproven /\ ~Pending(p) /\ UNCHANGED <<legacyVars, owner, asOf, eventId, row>>
  BY DEF NothingPending
<1>6. owner = {p}
  BY <1>3, <1>4, HoldsLock
<1>7. CaughtUp
  <2>1. CoversTip(p) /\ asOf[p] \in Clock
    BY <1>1, <1>2, <1>4 DEF WhereItIs, SessionTypes
  <2>2. QED
    BY <1>1, <1>5, <2>1, NothingPendingCaughtUp
<1>8. /\ ~Unproven' /\ CaughtUp'
      /\ InLog(Mine(p))' <=> InLog(Mine(p))
  BY <1>5, <1>7, Untouched DEF Mine
<1>9. WhereItIs(p)'
  <2>1. CASE from = "draining" /\ to = "preparing"
    BY ONLY <1>4, <1>5, <1>6, <1>8, <2>1 DEF WhereItIs
  <2>2. CASE from = "publishing" /\ to = "published"
    <3>1. InLog(Mine(p))
      BY <1>1, <1>4, <2>2 DEF WhereItIs
    <3>2. QED
      BY ONLY <1>4, <1>5, <1>6, <1>8, <2>2, <3>1 DEF WhereItIs, Mine
  <2>3. QED
    BY <1>2, <2>1, <2>2
<1>10. OnlyMoves(p) /\ SessionTypes'
  BY <1>1, <1>4, <1>5, <1>6 DEF OnlyMoves, SessionTypes, Places
<1>11. QED
  BY <1>5, <1>9, <1>10, Untouched, StepFrame

\* The steps that close the connection.
LEMMA ClosesFrame ==
  ASSUME SessionTypes, NEW p \in Sessions, NEW from, NEW to \in Places, Closes(p, from, to)
  PROVE  /\ at[p] = from /\ at'[p] = to /\ owner' = {}
         /\ at' \in [Sessions -> Places] /\ eventId' \in [Sessions -> SUBSET EventIds]
         /\ \A q \in Sessions : q # p => at'[q] = at[q]
<1>1. Goes(p, from, to) /\ owner' = {} /\ eventId' = [eventId EXCEPT ![p] = {}]
  BY DEF Closes
<1>2. eventId' \in [Sessions -> SUBSET EventIds]
  BY <1>1 DEF SessionTypes
<1>3. QED
  BY <1>1, <1>2, GoesFrame

LEMMA RefusedKeeps ==
  ASSUME RecordInv, NEW p \in Sessions, NEW from \in Working, Closes(p, from, "refused"),
         UNCHANGED <<legacyVars, asOf, row>>, ~Unproven => Doomed(Mine(p))
  PROVE  RecordInv'
<1>1. SessionTypes /\ "refused" \in Places /\ LegacyInv
  BY DEF RecordInv, LogInv, Places
<1>2. /\ at[p] = from /\ at'[p] = "refused" /\ owner' = {}
      /\ at' \in [Sessions -> Places] /\ eventId' \in [Sessions -> SUBSET EventIds]
      /\ \A q \in Sessions : q # p => at'[q] = at[q]
  BY <1>1, ClosesFrame
<1>3. owner = {p}
  BY <1>2, HoldsLock
<1>4. OnlyMoves(p)
  BY <1>2, <1>3 DEF OnlyMoves
<1>5. SessionTypes'
  BY <1>1, <1>2 DEF SessionTypes, Places
<1>6. StoreStep
  BY Untouched
<1>7. ~Unproven' => Doomed(Mine(p))'
  <2>1. Mine(p) \in Submissions
    BY CallerAssumption DEF Mine
  <2>2. QED
    BY <1>1, <1>6, <2>1, StepUnproven, DoomedStays
<1>8. WhereItIs(p)'
  BY ONLY <1>2, <1>7 DEF WhereItIs, Mine, Working
<1>9. QED
  BY <1>4, <1>5, <1>6, <1>8, StepFrame

LEMMA CannotPublishKeeps ==
  ASSUME RecordInv, NEW p \in Sessions, CannotPublish(p)
  PROVE  RecordInv'
<1>1. LegacyInv /\ WhereItIs(p) /\ (Folds(log) \/ Blocked) /\ LegacyTypes
  BY DEF RecordInv, LogInv, LegacyInv
<1>2. PICK from \in {"draining", "publishing"} : Closes(p, from, "refused")
  BY DEF CannotPublish
<1>3. from \in Working /\ at[p] = from /\ UNCHANGED <<legacyVars, asOf, row>>
  BY <1>2 DEF Working, Closes, Goes, CannotPublish
<1>4. ASSUME ~Unproven PROVE Doomed(Mine(p))
  <2>1. applied < Len(log) /\ FoldRefuses(view, log[applied+1].sub)
    BY <1>4 DEF CannotPublish, Pending
  <2>2. Len(log) \in Nat /\ applied \in 0..Len(log)
    BY <1>1, LogFacts DEF LegacyTypes
  <2>3. applied + 1 \in 1..Len(log) /\ (applied + 1) - 1 = applied
    BY <2>1, <2>2
  <2>4. ~Folds(log)
    <3>1. view = Projected(log)[applied]
      BY <1>1, <1>4 DEF LegacyInv, ViewIsFold
    <3>2. applied + 1 \in DOMAIN log
      BY <1>1, <2>3, LogFacts
    <3>3. QED
      BY <2>1, <2>3, <3>1, <3>2 DEF Folds
  <2>5. Blocked
    BY <1>1, <2>4
  <2>6. ~InLog(Mine(p))
    <3>1. Len(log) = 1 /\ log[1].sub.kind = "stage two"
      BY <2>5 DEF Blocked
    <3>2. \A i \in 1..1 : i = 1
      OBVIOUS
    <3>3. Mine(p).kind = "legacy"
      BY CallerAssumption DEF Mine
    <3>4. QED
      BY ONLY <3>1, <3>2, <3>3 DEF InLog
  <2>7. QED
    BY <2>5, <2>6 DEF Doomed
<1>5. QED
  BY <1>2, <1>3, <1>4, RefusedKeeps

LEMMA PrepareKeeps ==
  ASSUME RecordInv, NEW p \in Sessions, Prepare(p)
  PROVE  RecordInv'
<1>1. SessionTypes /\ WhereItIs(p) /\ LegacyTypes /\ "appending" \in Places /\ "preparing" \in Working
  BY DEF RecordInv, LogInv, LegacyInv, Places, Working
<1>2. /\ at[p] = "preparing" /\ at'[p] = "appending" /\ at' \in [Sessions -> Places]
      /\ \A q \in Sessions : q # p => at'[q] = at[q]
  BY <1>1, GoesFrame DEF Prepare
<1>3. PICK id \in IdFor(Mine(p)) : eventId' = [eventId EXCEPT ![p] = {id}]
  BY DEF Prepare
<1>4. UNCHANGED <<legacyVars, owner, asOf, row>>
  BY DEF Prepare
<1>5. owner = {p}
  BY <1>1, <1>2, HoldsLock
<1>6. id \in EventIds
  BY <1>1, <1>3, LogFacts DEF IdFor, FreshIds, RetainedEntry, Entries
<1>7. SessionTypes' /\ eventId'[p] = {id}
  BY <1>1, <1>2, <1>3, <1>4, <1>6 DEF SessionTypes, Places
<1>8. CaughtUp' /\ ~Unproven' /\ IdFor(Mine(p))' = IdFor(Mine(p))
  <2>1. CaughtUp /\ ~Unproven
    BY <1>1, <1>2 DEF WhereItIs
  <2>2. QED
    BY <1>4, <2>1, Untouched DEF Mine
<1>9. eventId'[p] \subseteq IdFor(Mine(p))'
  BY <1>3, <1>7, <1>8
<1>10. WhereItIs(p)'
  BY ONLY <1>2, <1>4, <1>5, <1>8, <1>9 DEF WhereItIs, Mine
<1>11. OnlyMoves(p)
  BY <1>2, <1>4, <1>5 DEF OnlyMoves
<1>12. QED
  BY <1>4, <1>7, <1>10, <1>11, Untouched, StepFrame

LEMMA CommitNewKeeps ==
  ASSUME RecordInv, NEW p \in Sessions, CommitNew(p)
  PROVE  RecordInv'
<1> DEFINE s == Mine(p)
<1>1. SessionTypes /\ LegacyInv /\ "committed" \in Places /\ "appending" \in Working
  BY DEF RecordInv, LogInv, Places, Working
<1>2. /\ at[p] = "appending" /\ at'[p] = "committed" /\ at' \in [Sessions -> Places]
      /\ \A q \in Sessions : q # p => at'[q] = at[q]
  BY <1>1, GoesFrame DEF CommitNew
<1>3. UNCHANGED <<owner, asOf, eventId, row>>
  BY DEF CommitNew
<1>4. PICK id \in eventId[p] : AppendLegacy(id, s)
  BY DEF CommitNew
<1>5. id \in EventIds /\ s \in Submissions
  BY <1>1, CallerAssumption DEF SessionTypes, Mine
<1>6. StoreStep
  BY <1>4, <1>5 DEF StoreStep
<1>7. owner = {p}
  BY <1>1, <1>2, HoldsLock
<1>8. /\ Len(log) \in Nat /\ Len(log') = Len(log) + 1
      /\ log'[Len(log) + 1].sub = s
      /\ ~Unproven /\ applied = Len(log) /\ ~FoldRefuses(view, s)
      /\ view' = view /\ applied' = applied
  BY <1>1, <1>4, <1>5, AppendOf DEF CaughtUp
<1>9. ~Unproven'
  BY <1>1, <1>6, <1>8, StepUnproven
<1>10. NothingRefused'
  BY <1>8 DEF NothingRefused, Tip
<1>11. InLog(s)'
  <2>1. Len(log) + 1 \in 1..(Len(log) + 1)
    BY <1>8
  <2>2. QED
    BY <1>8, <2>1 DEF InLog, Mine
<1>12. WhereItIs(p)'
  BY ONLY <1>2, <1>3, <1>7, <1>9, <1>10, <1>11 DEF WhereItIs, Mine
<1>13. OnlyMoves(p) /\ SessionTypes'
  BY <1>1, <1>2, <1>3, <1>7 DEF OnlyMoves, SessionTypes, Places
<1>14. QED
  BY <1>6, <1>12, <1>13, StepFrame

LEMMA CommitRetriedKeeps ==
  ASSUME RecordInv, NEW p \in Sessions, CommitRetried(p)
  PROVE  RecordInv'
<1>1. SessionTypes /\ WhereItIs(p) /\ LegacyTypes /\ "committed" \in Places /\ "appending" \in Working
  BY DEF RecordInv, LogInv, LegacyInv, Places, Working
<1>2. /\ at[p] = "appending" /\ at'[p] = "committed" /\ at' \in [Sessions -> Places]
      /\ \A q \in Sessions : q # p => at'[q] = at[q]
  BY <1>1, GoesFrame DEF CommitRetried
<1>3. UNCHANGED <<legacyVars, owner, asOf, eventId, row>>
  BY DEF CommitRetried
<1>4. PICK i \in DOMAIN log : log[i].sub = Mine(p)
  BY DEF CommitRetried, SameRow
<1>5. InLog(Mine(p)) /\ CaughtUp /\ ~Unproven
  BY <1>1, <1>2, <1>4, LogFacts DEF InLog, WhereItIs
<1>6. owner = {p}
  BY <1>1, <1>2, HoldsLock
<1>7. InLog(Mine(p))' /\ ~Unproven' /\ NothingRefused'
  BY <1>3, <1>5, Untouched DEF Mine, NothingRefused
<1>8. WhereItIs(p)'
  BY ONLY <1>2, <1>3, <1>6, <1>7 DEF WhereItIs, Mine
<1>9. OnlyMoves(p) /\ SessionTypes'
  BY <1>1, <1>2, <1>3, <1>6 DEF OnlyMoves, SessionTypes, Places
<1>10. QED
  BY <1>3, <1>8, <1>9, Untouched, StepFrame

LEMMA AppendRaisesKeeps ==
  ASSUME RecordInv, NEW p \in Sessions, AppendRaises(p)
  PROVE  RecordInv'
<1> DEFINE s == Mine(p)
<1>1. WhereItIs(p) /\ LegacyInv /\ LegacyTypes /\ s \in Submissions
  BY CallerAssumption DEF RecordInv, LogInv, LegacyInv, Mine
<1>2. "appending" \in Working /\ Closes(p, "appending", "refused") /\ UNCHANGED <<legacyVars, asOf, row>>
  BY DEF AppendRaises, Working
<1>3. CaughtUp /\ eventId[p] \subseteq IdFor(s)
  BY <1>1, <1>2 DEF WhereItIs, Closes, Goes
<1>4. PICK id \in eventId[p] :
        \/ Recorded(id, s) # {} /\ ~SameRow(id, s)
        \/ Recorded(id, s) = {} /\ (Backdated(view, s) \/ ~LockedChecks(id, s, LegacyStamp))
  BY <1>3 DEF AppendRaises
<1>5. CASE Recorded(id, s) # {} /\ ~SameRow(id, s)
  <2>1. RetainedEntry(s) # {}
    <3>1. SUFFICES ASSUME RetainedEntry(s) = {} PROVE FALSE
      OBVIOUS
    <3>2. id \in FreshIds
      BY <1>3, <3>1 DEF IdFor
    <3>3. Recorded(id, s) = {}
      BY <3>1, <3>2 DEF Recorded, RetainedEntry, FreshIds
    <3>4. QED
      BY <1>5, <3>3
  <2>2. PICK i \in DOMAIN log : LegacyKey(log[i].sub) = LegacyKey(s)
    BY <2>1 DEF RetainedEntry
  <2>3. i \in 1..Len(log)
    BY <1>1, LogFacts
  <2>4. \A j \in 1..Len(log) : j # i => log[j].id # log[i].id /\ LegacyKey(log[j].sub) # LegacyKey(s)
    BY <1>1, <2>2, <2>3 DEF LegacyInv, NoTwins
  <2>5. \A j \in DOMAIN log : j \in 1..Len(log)
    BY <1>1, LogFacts
  <2>6. id = log[i].id
    BY <1>3, <2>1, <2>2, <2>4, <2>5 DEF IdFor, RetainedEntry
  <2>7. Recorded(id, s) = {i}
    BY <2>2, <2>4, <2>5, <2>6 DEF Recorded
  <2>8. log[i].sub # s
    BY <1>5, <2>6, <2>7 DEF SameRow
  <2>9. ~InLog(s)
    BY <2>4, <2>8 DEF InLog
  <2>10. KeyTaken(s)
    BY <2>2, <2>3 DEF KeyTaken
  <2>11. QED
    BY <1>2, <2>9, <2>10, RefusedKeeps DEF Doomed
<1>6. CASE Recorded(id, s) = {} /\ (Backdated(view, s) \/ ~LockedChecks(id, s, LegacyStamp))
  <2>1. ~InLog(s)
    BY <1>1, <1>6, LogFacts DEF InLog, Recorded
  <2>2. ASSUME Backdated(view, s) PROVE TooLate(s)
    <3>1. view = Projected(log)[Len(log)] /\ Len(log) \in 0..Len(log)
      BY <1>1, <1>3, CaughtUpView, LogFacts
    <3>2. HeadsHold(log, Len(log))
      BY <1>1, <3>1, LogFacts, OccurredTypes, FoldShows
    <3>3. s.belief \in DOMAIN view /\ s.occurred < view[s.belief].occurred
          /\ s.type = "correction_appended"
      BY <2>2 DEF Backdated
    <3>4. \E i \in 1..Len(log) :
            log[i].sub.belief = s.belief /\ view[s.belief].occurred = log[i].sub.occurred
      BY <3>1, <3>2, <3>3 DEF HeadsHold
    <3>5. QED
      BY <3>3, <3>4 DEF TooLate
  <2>3. ASSUME ~LockedChecks(id, s, LegacyStamp) PROVE ~Foldable(s) \/ s.origin # "observed"
    <3>1. log # <<>> => LegacyStamp >= Tip.recorded
      BY <1>1, StampTypes, LogFacts, LegacyClockAssumption DEF Clock
    <3>2. QED
      BY <1>6, <2>3, <3>1 DEF LockedChecks
  <2>4. Doomed(s)
    BY <1>6, <2>1, <2>2, <2>3 DEF Doomed
  <2>5. QED
    BY <1>2, <2>4, RefusedKeeps
<1>7. QED
  BY <1>4, <1>5, <1>6

LEMMA ClockSkewedKeeps ==
  ASSUME RecordInv, NEW p \in Sessions, ClockSkewed(p)
  PROVE  RecordInv'
<1>1. SessionTypes /\ "idle" \in Places /\ "appending" \in Working
  BY DEF RecordInv, Places, Working
<1>2. /\ at[p] = "appending" /\ at'[p] = "idle" /\ owner' = {}
      /\ at' \in [Sessions -> Places] /\ eventId' \in [Sessions -> SUBSET EventIds]
      /\ \A q \in Sessions : q # p => at'[q] = at[q]
  BY <1>1, ClosesFrame DEF ClockSkewed
<1>3. clock' \in Clock /\ UNCHANGED <<log, view, applied, latest, others, asOf, row>>
  BY DEF ClockSkewed
<1>4. StoreStep
  BY <1>3 DEF StoreStep, Rest
<1>5. owner = {p}
  BY <1>1, <1>2, HoldsLock
<1>6. OnlyMoves(p) /\ SessionTypes'
  BY <1>1, <1>2, <1>3, <1>5 DEF OnlyMoves, SessionTypes, Places
<1>7. WhereItIs(p)'
  BY ONLY <1>2 DEF WhereItIs, Working
<1>8. QED
  BY <1>4, <1>6, <1>7, StepFrame

\* The belief of a published event is there to be read, with the event in its support.
LEMMA PublishedIsRead ==
  ASSUME LegacyInv, CaughtUp, NEW s, InLog(s)
  PROVE  s.belief \in DOMAIN view /\ Supports(view[s.belief], s)
<1>1. ~Unproven /\ view = Projected(log)[Len(log)] /\ LegacyTypes /\ applied = Len(log)
  BY CaughtUpView DEF LegacyInv, CaughtUp
<1>2. PICK i \in 1..Len(log) : log[i].sub = s
  BY DEF InLog
<1> DEFINE b  == s.belief
           ps == Ascending(EventsOf(b))[applied]
<1>3. b \in DOMAIN view /\ view[b].supporting = Ids(ps)
  <2>1. HeadIsLatest
    BY InvHeadIsLatest
  <2>2. DOMAIN view = {log[j].sub.belief : j \in 1..applied}
    BY <1>1, <2>1 DEF HeadIsLatest
  <2>3. b \in DOMAIN view
    BY <1>1, <1>2, <2>2
  <2>4. QED
    BY <1>1, <2>1, <2>3 DEF HeadIsLatest
<1>4. i \in EventsOf(b)
  BY <1>1, <1>2, LogFacts DEF EventsOf
<1>5. Lists(ps, EventsOf(b), Len(log))
  <2>1. Len(log) \in Nat /\ applied \in 0..Len(log)
    BY <1>1, LogFacts
  <2>2. QED
    BY <1>1, <2>1, AscendingLists
<1>6. PICK k \in DOMAIN ps : ps[k] = i
  BY <1>4, <1>5 DEF Lists
<1>7. k \in DOMAIN view[b].supporting /\ view[b].supporting[k] = log[i].id
  BY <1>3, <1>6 DEF Ids
<1>8. QED
  BY <1>2, <1>3, <1>7 DEF Supports

LEMMA ReadBeliefKeeps ==
  ASSUME RecordInv, NEW p \in Sessions, ReadBelief(p)
  PROVE  RecordInv'
<1>1. SessionTypes /\ WhereItIs(p) /\ LegacyInv /\ "returned" \in Places /\ "published" \in Working
  BY DEF RecordInv, LogInv, Places, Working
<1>2. /\ at[p] = "published" /\ at'[p] = "returned" /\ owner' = {}
      /\ at' \in [Sessions -> Places] /\ eventId' \in [Sessions -> SUBSET EventIds]
      /\ \A q \in Sessions : q # p => at'[q] = at[q]
  BY <1>1, ClosesFrame DEF ReadBelief
<1>3. /\ row' = [row EXCEPT ![p] = {view[b] : b \in {Mine(p).belief} \cap DOMAIN view}]
      /\ UNCHANGED <<legacyVars, asOf>>
  BY DEF ReadBelief
<1>4. owner = {p}
  BY <1>1, <1>2, HoldsLock
<1>5. StoreStep
  BY <1>3, Untouched
<1>6. /\ row' = [q \in Sessions |-> row'[q]]
      /\ row'[p] = {view[b] : b \in {Mine(p).belief} \cap DOMAIN view}
      /\ \A q \in Sessions : q # p => row'[q] = row[q]
  BY <1>1, <1>3 DEF SessionTypes
<1>7. Mine(p).belief \in DOMAIN view /\ Supports(view[Mine(p).belief], Mine(p))
  BY <1>1, <1>2, PublishedIsRead DEF WhereItIs
<1>8. view[Mine(p).belief] \in row'[p] /\ Supports(view[Mine(p).belief], Mine(p))'
  <2>1. view[Mine(p).belief] \in row'[p]
    BY <1>6, <1>7
  <2>2. log' = log /\ view' = view
    BY <1>3 DEF legacyVars
  <2>3. QED
    BY <1>7, <2>1, <2>2 DEF Supports, Mine
<1>9. WhereItIs(p)'
  <2>1. \E r \in row'[p] : Supports(r, Mine(p))'
    BY <1>1, <1>5, <1>7, <1>8, SupportsStays
  <2>2. QED
    BY ONLY <1>2, <2>1 DEF WhereItIs, Working, Mine
<1>10. OnlyMoves(p) /\ SessionTypes'
  BY <1>1, <1>2, <1>3, <1>4, <1>6 DEF OnlyMoves, SessionTypes, Places
<1>11. QED
  BY <1>5, <1>9, <1>10, StepFrame

LEMMA DiesKeeps ==
  ASSUME RecordInv, NEW p \in Sessions, Dies(p)
  PROVE  RecordInv'
<1>1. SessionTypes /\ "idle" \in Places
  BY DEF RecordInv, Places
<1>2. /\ owner = {p} /\ owner' = {} /\ UNCHANGED <<legacyVars, asOf, row>>
      /\ at' = [at EXCEPT ![p] = "idle"]
      /\ eventId' = [eventId EXCEPT ![p] = {}]
  BY DEF Dies
<1>3. /\ at'[p] = "idle" /\ at' \in [Sessions -> Places] /\ eventId' \in [Sessions -> SUBSET EventIds]
      /\ \A q \in Sessions : q # p => at'[q] = at[q]
  BY <1>1, <1>2 DEF SessionTypes, Places
<1>4. OnlyMoves(p) /\ SessionTypes'
  BY <1>1, <1>2, <1>3 DEF OnlyMoves, SessionTypes, Places
<1>5. WhereItIs(p)'
  BY ONLY <1>3 DEF WhereItIs, Working
<1>6. QED
  BY <1>2, <1>4, <1>5, Untouched, StepFrame

LEMMA ClockKeeps ==
  ASSUME RecordInv, Rest, UNCHANGED sessionVars
  PROVE  RecordInv'
<1>1. StoreStep
  BY DEF StoreStep
<1>2. LogInv'
  BY <1>1, StepLogInv DEF RecordInv
<1>3. UNCHANGED <<log, view, applied, latest, others, at, owner, asOf, eventId, row>>
  BY DEF Rest, sessionVars
<1>4. SessionTypes'
  BY <1>3 DEF RecordInv, SessionTypes
<1>5. ASSUME NEW p \in Sessions PROVE WhereItIs(p)'
  <2>1. WhereItIs(p)
    BY DEF RecordInv
  <2>2. /\ (Unproven' <=> Unproven) /\ (CaughtUp' <=> CaughtUp) /\ (NothingRefused' <=> NothingRefused)
        /\ (CoversTip(p)' <=> CoversTip(p)) /\ (InLog(Mine(p))' <=> InLog(Mine(p)))
        /\ IdFor(Mine(p))' = IdFor(Mine(p)) /\ (Doomed(Mine(p))' <=> Doomed(Mine(p)))
    BY <1>3 DEF Unproven, CaughtUp, NothingRefused, CoversTip, Tip, InLog, Mine, IdFor,
                RetainedEntry, FreshIds, Doomed, Blocked, KeyTaken, TooLate
  <2>3. \A r : Supports(r, Mine(p))' <=> Supports(r, Mine(p))
    BY <1>3 DEF Supports, Mine
  <2>4. QED
    BY ONLY <1>3, <2>1, <2>2, <2>3 DEF WhereItIs, Mine
<1>6. QED
  BY <1>2, <1>4, <1>5 DEF RecordInv

LEMMA RecordStepKeeps ==
  ASSUME RecordInv, [RecordNext]_allVars
  PROVE  RecordInv'
<1>1. CASE UNCHANGED allVars
  <2>1. Rest /\ UNCHANGED sessionVars
    BY <1>1 DEF allVars, legacyVars, Rest, RecordInv, LogInv, LegacyInv, LegacyTypes
  <2>2. QED
    BY <2>1, ClockKeeps
<1>2. CASE LegacyClockMoves /\ UNCHANGED sessionVars
  BY <1>2, ClockKeeps DEF LegacyClockMoves, Rest
<1>3. ASSUME NEW p \in Sessions, RecordStep(p) PROVE RecordInv'
  BY <1>3, OpenKeeps, SampleClockKeeps, PublishEachKeeps, NothingPendingKeeps, CannotPublishKeeps,
     PrepareKeeps, CommitNewKeeps, CommitRetriedKeeps, AppendRaisesKeeps, ClockSkewedKeeps,
     ReadBeliefKeeps DEF RecordStep
<1>4. ASSUME NEW p \in Sessions, Dies(p) PROVE RecordInv'
  BY <1>4, DiesKeeps
<1>5. QED
  BY <1>1, <1>2, <1>3, <1>4 DEF RecordNext

LEMMA RecordInitInv ==
  ASSUME RecordInit
  PROVE  RecordInv
<1>1. LegacyInv /\ LegacyTypes
  BY LegacyInitInv DEF RecordInit, LegacyInv
<1>2. Folds(log) \/ Blocked
  <2>1. CASE log = <<>>
    <3>1. DOMAIN log = {}
      BY <2>1
    <3>2. QED
      BY <3>1 DEF Folds
  <2>2. CASE log # <<>>
    <3>1. PICK id \in EventIds, s \in Submissions :
            LeftBehind(s) /\ log = <<[id |-> id, sub |-> s, recorded |-> 0]>>
      BY <2>2 DEF RecordInit, LegacyInit
    <3>2. Len(log) = 1 /\ log[1].sub = s /\ \A i \in DOMAIN log : i = 1
      BY <3>1
    <3>3. CASE s.kind = "stage two"
      BY <3>2, <3>3 DEF Blocked, RecordInit, LegacyInit
    <3>4. CASE Foldable(s) /\ s.type = "observation_recorded" /\ s.origin = "observed"
      <4>1. ~FoldRefuses(NoRows, s)
        <5>1. "observation_recorded" # "correction_appended"
          OBVIOUS
        <5>2. ~Backdated(NoRows, s)
          BY <3>4, <5>1 DEF Backdated
        <5>3. QED
          BY <3>4, <5>2 DEF FoldRefuses
      <4>2. Projected(log)[1-1] = NoRows
        <5>1. Len(log) \in Nat /\ 1-1 = 0
          BY <1>1, LogFacts
        <5>2. QED
          BY <5>1, FoldSteps
      <4>3. \A i \in DOMAIN log : ~FoldRefuses(Projected(log)[i-1], log[i].sub)
        BY ONLY <3>2, <4>1, <4>2
      <4>4. QED
        BY ONLY <4>3 DEF Folds
    <3>5. QED
      BY <3>1, <3>3, <3>4 DEF LeftBehind
  <2>3. QED
    BY <2>1, <2>2
<1>3. /\ at = [p \in Sessions |-> "idle"] /\ asOf = [p \in Sessions |-> 0]
      /\ eventId = [p \in Sessions |-> {}] /\ row = [p \in Sessions |-> {}]
  BY DEF RecordInit
<1>4. SessionTypes
  <2>1. 0 \in Clock
    BY LegacyClockAssumption DEF Clock
  <2>2. QED
    BY <1>3, <2>1 DEF SessionTypes
<1>5. \A p \in Sessions : WhereItIs(p)
  BY ONLY <1>3 DEF WhereItIs, Working
<1>6. QED
  BY <1>1, <1>2, <1>4, <1>5 DEF RecordInv, LogInv

\* Whatever callers do, retry or die of, they stay in the invariant.
THEOREM RecordIndInv == RecordSpec => []RecordInv
<1>1. RecordInit => RecordInv
  BY RecordInitInv
<1>2. RecordInv /\ [RecordNext]_allVars => RecordInv'
  BY RecordStepKeeps
<1>3. QED
  BY <1>1, <1>2, PTL DEF RecordSpec

LEMMA InvAnswers ==
  ASSUME RecordInv
  PROVE  ReturnsOwnEvent /\ CommittedIsAnswered
<1>1. LegacyTypes
  BY DEF RecordInv, LogInv, LegacyInv
<1>2. ASSUME NEW p \in Sessions, at[p] = "returned"
      PROVE  \E r \in row[p], i \in DOMAIN log :
               log[i].sub = Mine(p) /\ \E k \in DOMAIN r.supporting : r.supporting[k] = log[i].id
  <2>1. PICK r \in row[p] : Supports(r, Mine(p))
    BY <1>2 DEF RecordInv, WhereItIs
  <2>2. \A i \in 1..Len(log) : i \in DOMAIN log
    BY <1>1, LogFacts
  <2>3. QED
    BY <2>1, <2>2 DEF Supports
<1>3. ASSUME NEW p \in Sessions, at[p] = "refused", ~Unproven
      PROVE  \A i \in DOMAIN log : log[i].sub # Mine(p)
  <2>1. ~InLog(Mine(p))
    BY <1>3 DEF RecordInv, WhereItIs, Doomed
  <2>2. \A i \in DOMAIN log : i \in 1..Len(log)
    BY <1>1, LogFacts
  <2>3. QED
    BY <2>1, <2>2 DEF InLog
<1>4. QED
  BY <1>2, <1>3 DEF ReturnsOwnEvent, CommittedIsAnswered

\* ReturnsOwnEvent of the run: the row a caller returns counts its own event, whatever
\* the clock was set to and whoever appended the event in the end.
THEOREM CallersSeeTheirEvent == RecordSpec => []ReturnsOwnEvent
BY RecordIndInv, InvAnswers, PTL

\* CommittedIsAnswered of the run: a caller is refused only what is not in the log, nor
\* will ever be, even when a process died after committing it; except in a store that was
\* inherited with rows and no checkpoint, which refuses every caller.
THEOREM RefusalsAreFinal == RecordSpec => []CommittedIsAnswered
BY RecordIndInv, InvAnswers, PTL
=============================================================================
