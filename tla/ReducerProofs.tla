----------------------------- MODULE ReducerProofs -----------------------------
(***************************************************************************)
(* Lemmas about the reducer's operators: what a replay is, what the tables *)
(* hold after an admitted event, and what stays true of the tables however *)
(* many admitted events are replayed.                                      *)
(***************************************************************************)
EXTENDS Reducer, TLAPS, WellFoundedInduction

-----------------------------------------------------------------------------
(***************************************************************************)
(* Replaying a sequence of entries.  Induction is by least counterexample. *)
(***************************************************************************)
LEMMA Least ==
  ASSUME NEW T \in SUBSET Nat, T # {}
  PROVE  \E m \in T : \A k \in T : ~(k < m)
<1>1. \E m \in T : \A k \in T : ~(<<k, m>> \in OpToRel(<, Nat))
  BY NatLessThanWellFounded, WFMin, Zenon
<1>2. QED
  BY <1>1 DEF OpToRel

IsRun(f, l, start, n) ==
  f = [i \in 0..n |-> IF i = 0 THEN start ELSE Apply(f[i-1], l[i], i)]

LEMMA RunExists ==
  ASSUME NEW l, NEW start, NEW n \in Nat
  PROVE  \E f : IsRun(f, l, start, n)
<1> DEFINE Bad == {k \in Nat : ~\E f : IsRun(f, l, start, k)}
<1>1. SUFFICES ASSUME Bad # {} PROVE FALSE
  OBVIOUS
<1>2. Bad \in SUBSET Nat
  OBVIOUS
<1>3. PICK m \in Bad : \A k \in Bad : ~(k < m)
  <2> HIDE DEF Bad
  <2> QED BY <1>1, <1>2, Least
<1>4. m # 0
  <2> DEFINE f == [i \in 0..0 |-> start]
  <2>1. IsRun(f, l, start, 0)
    BY DEF IsRun
  <2> QED BY <2>1
<1>5. m - 1 \in Nat /\ m - 1 \notin Bad
  BY <1>3, <1>4
<1>6. PICK f : IsRun(f, l, start, m - 1)
  BY <1>5
<1> DEFINE g == [i \in 0..m |-> IF i = 0 THEN start ELSE Apply(f[i-1], l[i], i)]
<1>7. ASSUME NEW i \in 0..m, i # 0 PROVE g[i-1] = f[i-1]
  BY <1>4, <1>6, <1>7 DEF IsRun
<1>8. IsRun(g, l, start, m)
  BY <1>7 DEF IsRun
<1>9. QED
  BY <1>8

LEMMA ReplayIsRun ==
  ASSUME NEW l, Len(l) \in Nat, NEW start
  PROVE  IsRun(ReplayOf(l, start), l, start, Len(l))
BY RunExists DEF ReplayOf, IsRun

LEMMA ReplaySteps ==
  ASSUME NEW l, Len(l) \in Nat, NEW start
  PROVE  /\ ReplayOf(l, start)[0] = start
         /\ \A i \in 1..Len(l) :
              ReplayOf(l, start)[i] = Apply(ReplayOf(l, start)[i-1], l[i], i)
BY ReplayIsRun DEF IsRun

\* What a replay reaches after n entries depends on those n alone.
LEMMA ReplayPrefix ==
  ASSUME NEW l, Len(l) \in Nat, NEW k, Len(k) \in Nat, NEW start, NEW n \in Nat,
         n <= Len(l), n <= Len(k),
         \A i \in 1..n : \A s, pos : Apply(s, l[i], pos) = Apply(s, k[i], pos)
  PROVE  ReplayOf(l, start)[n] = ReplayOf(k, start)[n]
<1> DEFINE L == ReplayOf(l, start)
           K == ReplayOf(k, start)
           Bad == {i \in 0..n : L[i] # K[i]}
<1>1. /\ L[0] = start
      /\ \A i \in 1..n : L[i] = Apply(L[i-1], l[i], i)
  BY ReplaySteps
<1>2. /\ K[0] = start
      /\ \A i \in 1..n : K[i] = Apply(K[i-1], k[i], i)
  BY ReplaySteps
<1> HIDE DEF L, K
<1>3. SUFFICES ASSUME Bad # {} PROVE FALSE
  BY DEF L, K
<1>4. Bad \in SUBSET Nat
  OBVIOUS
<1>5. PICK m \in Bad : \A j \in Bad : ~(j < m)
  <2> HIDE DEF Bad
  <2> QED BY <1>3, <1>4, Least
<1>6. m \in 1..n
  BY <1>1, <1>2
<1>7. L[m-1] = K[m-1]
  BY <1>5, <1>6
<1>8. /\ L[m] = Apply(L[m-1], l[m], m)
      /\ K[m] = Apply(K[m-1], k[m], m)
      /\ \A s, pos : Apply(s, l[m], pos) = Apply(s, k[m], pos)
  BY <1>1, <1>2, <1>6
<1>9. L[m] = K[m]
  BY <1>7, <1>8
<1>10. QED
  BY <1>9

\* Publication keeps the tables of a snapshot.
LEMMA ReplayDomain ==
  ASSUME NEW l, Len(l) \in Nat, NEW start, NEW n \in 0..Len(l)
  PROVE  DOMAIN ReplayOf(l, start)[n] = DOMAIN start
<1> DEFINE L == ReplayOf(l, start)
           Bad == {i \in 0..Len(l) : DOMAIN L[i] # DOMAIN start}
<1>1. /\ L[0] = start
      /\ \A i \in 1..Len(l) : L[i] = Apply(L[i-1], l[i], i)
  BY ReplaySteps
<1> HIDE DEF L
<1>2. SUFFICES ASSUME Bad # {} PROVE FALSE
  BY DEF L
<1>3. Bad \in SUBSET Nat
  OBVIOUS
<1>4. PICK m \in Bad : \A j \in Bad : ~(j < m)
  <2> HIDE DEF Bad
  <2> QED BY <1>2, <1>3, Least
<1>5. m \in 1..Len(l)
  BY <1>1
<1>6. DOMAIN L[m-1] = DOMAIN start
  BY <1>4, <1>5
<1>7. L[m] = Apply(L[m-1], l[m], m)
  BY <1>1, <1>5
<1>8. DOMAIN L[m] = DOMAIN L[m-1]
  BY <1>7 DEF Apply, Publish
<1>9. QED
  BY <1>6, <1>8

-----------------------------------------------------------------------------
(***************************************************************************)
(* Tables.                                                                 *)
(***************************************************************************)
TableNames == {"entities", "links", "beliefs", "candidates", "events", "relations"}

LEMMA UpsertRows ==
  ASSUME NEW rows, NEW table
  PROVE  /\ \A k : k \in DOMAIN Upsert(rows, table) <=> k \in DOMAIN rows \/ k \in DOMAIN table
         /\ \A k \in DOMAIN rows : Upsert(rows, table)[k] = rows[k]
         /\ \A k \in DOMAIN table : k \notin DOMAIN rows => Upsert(rows, table)[k] = table[k]
BY DEF Upsert

\* A table the delta has no rows for is not changed.
LEMMA UpsertNothing ==
  ASSUME NEW table
  PROVE  /\ DOMAIN Upsert(NoRows, table) = DOMAIN table
         /\ \A k \in DOMAIN table : Upsert(NoRows, table)[k] = table[k]
<1>1. \A k : k \notin DOMAIN NoRows
  BY DEF NoRows
<1>2. QED
  BY <1>1, UpsertRows

LEMMA PublishRows ==
  ASSUME NEW s, NEW d, DOMAIN s = TableNames
  PROVE  /\ DOMAIN Publish(s, d) = TableNames
         /\ Publish(s, d).entities   = Upsert(d.entities, s.entities)
         /\ Publish(s, d).links      = Upsert(d.links, s.links)
         /\ Publish(s, d).beliefs    = Upsert(d.beliefs, s.beliefs)
         /\ Publish(s, d).candidates = Upsert(d.candidates, s.candidates)
         /\ Publish(s, d).relations  = Upsert(d.relations, s.relations)
BY DEF Publish, TableNames

-----------------------------------------------------------------------------
(***************************************************************************)
(* What an admitted event writes.                                          *)
(***************************************************************************)
BeliefFields == {"subject", "property", "candidates", "identity", "dependencies", "lineage"}
CandidateFields == {"claim", "event", "recorded", "status", "superseding"}

\* The beliefs and candidates a list of claims names.
BeliefsOf(claims) == {claims[i].belief : i \in DOMAIN claims}
CandidatesOf(claims) == {claims[i].candidate : i \in DOMAIN claims}

LEMMA CandidateRowsHold ==
  ASSUME NEW claims, NEW which, NEW r, NEW recorded,
         \A i, j \in which : claims[i].candidate = claims[j].candidate => i = j
  PROVE  /\ \A c : c \in DOMAIN CandidateRows(claims, which, r, recorded)
                <=> \E i \in which : c = claims[i].candidate
         /\ \A i \in which :
              CandidateRows(claims, which, r, recorded)[claims[i].candidate]
                = NewCandidate(claims[i], r, recorded)
<1>1. ASSUME NEW i \in which
      PROVE  (CHOOSE k \in which : claims[k].candidate = claims[i].candidate) = i
  OBVIOUS
<1>2. QED
  BY <1>1 DEF CandidateRows

LEMMA NewCandidateFields ==
  ASSUME NEW c, NEW r, NEW recorded
  PROVE  /\ DOMAIN NewCandidate(c, r, recorded) = CandidateFields
         /\ NewCandidate(c, r, recorded).claim = c
         /\ NewCandidate(c, r, recorded).status = "live"
         /\ NewCandidate(c, r, recorded).superseding = {}
BY DEF NewCandidate, CandidateFields

\* The row of belief b after the claims of r: same scope, and its own copy holds
\* the new candidates beside those it had.
LEMMA BeliefRow ==
  ASSUME NEW s, NEW r, NEW recorded, NEW b \in BeliefsOf(r.body.claims),
         AdmitsClaims(s, r.body.claims),
         b \in DOMAIN s.beliefs => DOMAIN s.beliefs[b] = BeliefFields
  PROVE  LET claims == r.body.claims
             row    == BeliefWithClaims(s, r, recorded, b)
             added  == {claims[i].candidate : i \in {j \in DOMAIN claims : claims[j].belief = b}}
             had    == IF b \in DOMAIN s.beliefs THEN DOMAIN s.beliefs[b].candidates ELSE {}
         IN  /\ DOMAIN row = BeliefFields
             /\ \A i \in DOMAIN claims : claims[i].belief = b => ScopeOf(row) = ScopeOf(claims[i])
             /\ b \in DOMAIN s.beliefs => /\ row.subject = s.beliefs[b].subject
                                         /\ row.property = s.beliefs[b].property
             /\ \A c : c \in DOMAIN row.candidates <=> c \in added \/ c \in had
             /\ \A i \in DOMAIN claims : claims[i].belief = b =>
                  row.candidates[claims[i].candidate] = NewCandidate(claims[i], r, recorded)
             /\ \A c \in had : c \notin added => row.candidates[c] = s.beliefs[b].candidates[c]
<1> DEFINE claims == r.body.claims
           row    == BeliefWithClaims(s, r, recorded, b)
           mine   == {j \in DOMAIN claims : claims[j].belief = b}
           added  == {claims[i].candidate : i \in mine}
           had    == IF b \in DOMAIN s.beliefs THEN DOMAIN s.beliefs[b].candidates ELSE {}
           rows   == CandidateRows(claims, mine, r, recorded)
           prior  == IF b \in DOMAIN s.beliefs THEN s.beliefs[b]
                     ELSE NewBelief(claims[CHOOSE i \in mine : TRUE])
<1>1. (CHOOSE i \in mine : TRUE) \in mine
  BY DEF BeliefsOf
<1>2. DOMAIN prior = BeliefFields /\ \A c : c \in DOMAIN prior.candidates <=> c \in had
  BY DEF NewBelief, BeliefFields, NoRows
<1>3. /\ \A c : c \in DOMAIN rows <=> c \in added
      /\ \A i \in mine : rows[claims[i].candidate] = NewCandidate(claims[i], r, recorded)
  <2>1. \A i, j \in mine : claims[i].candidate = claims[j].candidate => i = j
    BY DEF AdmitsClaims
  <2>2. \A c : c \in added <=> \E i \in mine : c = claims[i].candidate
    OBVIOUS
  <2> HIDE DEF mine, claims, added
  <2> QED BY <2>1, <2>2, CandidateRowsHold
<1>4. /\ DOMAIN row = DOMAIN prior
      /\ row.subject = prior.subject
      /\ row.property = prior.property
      /\ row.candidates = Upsert(rows, prior.candidates)
  <2>1. {"subject", "property", "candidates", "identity", "dependencies", "lineage"} = DOMAIN prior
    BY <1>2 DEF BeliefFields
  <2> HIDE DEF prior, rows, mine
  <2>2. row = [prior EXCEPT
         !.candidates   = Upsert(rows, @),
         !.identity     = @ \cup {claims[i].mention : i \in mine},
         !.dependencies = @ \cup {r.id} \cup {s.links[claims[i].mention].event : i \in mine},
         !.lineage      = Append(@, r.id)]
    BY DEF BeliefWithClaims, prior, rows, mine
  <2> HIDE DEF row
  <2> QED BY <2>1, <2>2
<1>5. \A i \in mine : ScopeOf(prior) = ScopeOf(claims[i])
  <2>1. CASE b \in DOMAIN s.beliefs
    BY <2>1 DEF AdmitsClaims, AdmitsClaim
  <2>2. CASE b \notin DOMAIN s.beliefs
    <3> DEFINE k == CHOOSE i \in mine : TRUE
    <3>1. ScopeOf(prior) = ScopeOf(claims[k])
      BY <2>2 DEF NewBelief, ScopeOf
    <3>2. \A i \in mine : ScopeOf(claims[i]) = ScopeOf(claims[k])
      <4> HIDE DEF k
      <4> QED BY <1>1 DEF AdmitsClaims, k
    <3> QED BY <3>1, <3>2
  <2>3. QED
    BY <2>1, <2>2
<1>6. ScopeOf(row) = ScopeOf(prior)
  BY <1>4 DEF ScopeOf
<1>7. /\ \A c : c \in DOMAIN row.candidates <=> c \in added \/ c \in had
      /\ \A c \in added : row.candidates[c] = rows[c]
      /\ \A c \in had : c \notin added => row.candidates[c] = prior.candidates[c]
  <2> HIDE DEF prior, rows, mine, had, added, row
  <2> QED BY <1>2, <1>3, <1>4, UpsertRows
<1>8. /\ \A i \in mine : row.candidates[claims[i].candidate] = NewCandidate(claims[i], r, recorded)
      /\ \A c \in had : c \notin added => row.candidates[c] = s.beliefs[b].candidates[c]
  <2>1. \A i \in mine : claims[i].candidate \in added
    OBVIOUS
  <2>2. \A c \in had : prior.candidates[c] = s.beliefs[b].candidates[c]
    OBVIOUS
  <2> HIDE DEF prior, rows, mine, had, added, row
  <2> QED BY <1>3, <1>7, <2>1, <2>2
<1>9. \A i \in DOMAIN claims : claims[i].belief = b => i \in mine
  OBVIOUS
<1>10. b \in DOMAIN s.beliefs => prior = s.beliefs[b]
  OBVIOUS
<1>11. QED
  <2> HIDE DEF prior, rows, row
  <2> QED BY <1>2, <1>4, <1>5, <1>6, <1>7, <1>8, <1>9, <1>10 DEF row

\* The tables t are those of s with the claims of request r recorded.
ClaimsRecorded(s, t, r, recorded) ==
  LET claims == r.body.claims IN
  /\ DOMAIN t = TableNames
  /\ \A c : c \in DOMAIN t.candidates <=> c \in CandidatesOf(claims) \/ c \in DOMAIN s.candidates
  /\ \A i \in DOMAIN claims :
       t.candidates[claims[i].candidate] = NewCandidate(claims[i], r, recorded)
  /\ \A c \in DOMAIN s.candidates : c \notin CandidatesOf(claims) => t.candidates[c] = s.candidates[c]
  /\ \A b : b \in DOMAIN t.beliefs <=> b \in BeliefsOf(claims) \/ b \in DOMAIN s.beliefs
  /\ \A b \in BeliefsOf(claims) : t.beliefs[b] = BeliefWithClaims(s, r, recorded, b)
  /\ \A b \in DOMAIN s.beliefs : b \notin BeliefsOf(claims) => t.beliefs[b] = s.beliefs[b]

LEMMA ClaimsRows ==
  ASSUME NEW s, NEW r, NEW recorded
  PROVE  /\ ClaimsDelta(s, r, recorded).entities = NoRows
         /\ ClaimsDelta(s, r, recorded).links = NoRows
         /\ ClaimsDelta(s, r, recorded).relations = NoRows
         /\ ClaimsDelta(s, r, recorded).candidates
              = CandidateRows(r.body.claims, DOMAIN r.body.claims, r, recorded)
         /\ ClaimsDelta(s, r, recorded).beliefs
              = [b \in BeliefsOf(r.body.claims) |-> BeliefWithClaims(s, r, recorded, b)]
<1> DEFINE rows    == CandidateRows(r.body.claims, DOMAIN r.body.claims, r, recorded)
           beliefs == [b \in BeliefsOf(r.body.claims) |-> BeliefWithClaims(s, r, recorded, b)]
           event   == Row(r.id, r)
<1>1. NoDelta(r) = [entities |-> NoRows, links |-> NoRows, beliefs |-> NoRows,
                    candidates |-> NoRows, events |-> event, relations |-> NoRows]
  BY DEF NoDelta, EmptySnapshot
<1>2. ClaimsDelta(s, r, recorded) = [NoDelta(r) EXCEPT !.candidates = rows, !.beliefs = beliefs]
  BY DEF ClaimsDelta, BeliefsOf
<1> HIDE DEF rows, beliefs, event
<1>3. QED
  BY <1>1, <1>2 DEF rows, beliefs

\* Claims introduce no subject and end nothing.
LEMMA ClaimsRowsElsewhere ==
  ASSUME NEW s, NEW r, NEW recorded
  PROVE  /\ ClaimsDelta(s, r, recorded).entities = NoRows
         /\ ClaimsDelta(s, r, recorded).links = NoRows
         /\ ClaimsDelta(s, r, recorded).relations = NoRows
<1>1. /\ ClaimsDelta(s, r, recorded).entities = NoRows
      /\ ClaimsDelta(s, r, recorded).links = NoRows
      /\ ClaimsDelta(s, r, recorded).relations = NoRows
      /\ ClaimsDelta(s, r, recorded).candidates
           = CandidateRows(r.body.claims, DOMAIN r.body.claims, r, recorded)
      /\ ClaimsDelta(s, r, recorded).beliefs
           = [b \in BeliefsOf(r.body.claims) |-> BeliefWithClaims(s, r, recorded, b)]
  BY ClaimsRows
<1>2. QED
  BY <1>1

LEMMA ClaimsLeaveTables ==
  ASSUME NEW s, NEW r, NEW recorded, DOMAIN s = TableNames
  PROVE  /\ Publish(s, ClaimsDelta(s, r, recorded)).relations = Upsert(NoRows, s.relations)
         /\ Publish(s, ClaimsDelta(s, r, recorded)).links = Upsert(NoRows, s.links)
<1> DEFINE d == ClaimsDelta(s, r, recorded)
<1>1. d.relations = NoRows /\ d.links = NoRows
  BY ClaimsRowsElsewhere
<1> HIDE DEF d
<1>2. /\ Publish(s, d).relations = Upsert(d.relations, s.relations)
      /\ Publish(s, d).links = Upsert(d.links, s.links)
  BY PublishRows
<1>3. QED
  BY <1>1, <1>2 DEF d

LEMMA ClaimsAreRecorded ==
  ASSUME NEW s, NEW r, NEW recorded, DOMAIN s = TableNames, AdmitsClaims(s, r.body.claims)
  PROVE  ClaimsRecorded(s, Publish(s, ClaimsDelta(s, r, recorded)), r, recorded)
<1> DEFINE claims == r.body.claims
           d      == ClaimsDelta(s, r, recorded)
           t      == Publish(s, d)
           rows   == CandidateRows(claims, DOMAIN claims, r, recorded)
           beliefs == [b \in BeliefsOf(claims) |-> BeliefWithClaims(s, r, recorded, b)]
<1>1. d.candidates = rows /\ d.beliefs = beliefs
  BY ClaimsRows
<1>2. /\ DOMAIN t = TableNames
      /\ t.candidates = Upsert(rows, s.candidates)
      /\ t.beliefs = Upsert(beliefs, s.beliefs)
  <2> HIDE DEF d, rows, beliefs
  <2> QED BY <1>1, PublishRows
<1>3. /\ \A c : c \in DOMAIN rows <=> c \in CandidatesOf(claims)
      /\ \A i \in DOMAIN claims : rows[claims[i].candidate] = NewCandidate(claims[i], r, recorded)
  <2>1. \A i, j \in DOMAIN claims : claims[i].candidate = claims[j].candidate => i = j
    BY DEF AdmitsClaims
  <2> HIDE DEF claims
  <2> QED BY <2>1, CandidateRowsHold DEF CandidatesOf
<1>4. \A i \in DOMAIN claims : claims[i].candidate \in CandidatesOf(claims)
  BY DEF CandidatesOf
<1> HIDE DEF t, d, rows, beliefs, claims
<1>5. /\ \A c : c \in DOMAIN t.candidates <=> c \in CandidatesOf(claims) \/ c \in DOMAIN s.candidates
      /\ \A i \in DOMAIN claims :
           t.candidates[claims[i].candidate] = NewCandidate(claims[i], r, recorded)
      /\ \A c \in DOMAIN s.candidates : c \notin CandidatesOf(claims) => t.candidates[c] = s.candidates[c]
  BY <1>2, <1>3, <1>4, UpsertRows
<1>6. /\ \A b : b \in DOMAIN t.beliefs <=> b \in BeliefsOf(claims) \/ b \in DOMAIN s.beliefs
      /\ \A b \in BeliefsOf(claims) : t.beliefs[b] = BeliefWithClaims(s, r, recorded, b)
      /\ \A b \in DOMAIN s.beliefs : b \notin BeliefsOf(claims) => t.beliefs[b] = s.beliefs[b]
  <2>1. /\ \A b : b \in DOMAIN beliefs <=> b \in BeliefsOf(claims)
        /\ \A b \in BeliefsOf(claims) : beliefs[b] = BeliefWithClaims(s, r, recorded, b)
    BY DEF beliefs
  <2>2. QED
    BY <1>2, <2>1, UpsertRows
<1>7. QED
  BY <1>2, <1>5, <1>6 DEF ClaimsRecorded, t, d, claims

-----------------------------------------------------------------------------
(***************************************************************************)
(* What stays true of the tables.                                          *)
(***************************************************************************)
\* No two beliefs share a scope.
OneBelief(s) ==
  \A b1, b2 \in DOMAIN s.beliefs : ScopeOf(s.beliefs[b1]) = ScopeOf(s.beliefs[b2]) => b1 = b2

\* A candidate is of a belief that exists and of its scope.
CandidatesPlaced(s) ==
  \A c \in DOMAIN s.candidates :
    LET row == s.candidates[c] IN
    /\ DOMAIN row = CandidateFields
    /\ row.claim.belief \in DOMAIN s.beliefs
    /\ ScopeOf(row.claim) = ScopeOf(s.beliefs[row.claim.belief])

\* A belief's own copy of its candidates is what the candidate table holds of them.
CopiesAgree(s) ==
  \A b \in DOMAIN s.beliefs :
    /\ \A c : c \in DOMAIN s.beliefs[b].candidates
              <=> c \in DOMAIN s.candidates /\ s.candidates[c].claim.belief = b
    /\ \A c \in DOMAIN s.beliefs[b].candidates : s.beliefs[b].candidates[c] = s.candidates[c]

Consistent(s) ==
  /\ DOMAIN s = TableNames
  /\ \A b \in DOMAIN s.beliefs : DOMAIN s.beliefs[b] = BeliefFields
  /\ OneBelief(s)
  /\ CandidatesPlaced(s)
  /\ CopiesAgree(s)

LEMMA EmptyConsistent == Consistent(EmptySnapshot)
<1>1. DOMAIN EmptySnapshot.beliefs = {} /\ DOMAIN EmptySnapshot.candidates = {}
  BY DEF EmptySnapshot, NoRows
<1>2. DOMAIN EmptySnapshot = TableNames
  BY DEF EmptySnapshot, TableNames
<1>3. QED
  BY <1>1, <1>2 DEF Consistent, OneBelief, CandidatesPlaced, CopiesAgree

\* Recording admitted claims keeps the tables consistent: a claim names the belief
\* of its scope if there is one, and its candidate is new.
LEMMA ClaimsKeepConsistent ==
  ASSUME NEW s, NEW t, NEW r, NEW recorded, Consistent(s), AdmitsClaims(s, r.body.claims),
         ClaimsRecorded(s, t, r, recorded)
  PROVE  Consistent(t)
<1> DEFINE claims == r.body.claims
<1>1. /\ DOMAIN t = TableNames
      /\ \A c : c \in DOMAIN t.candidates <=> c \in CandidatesOf(claims) \/ c \in DOMAIN s.candidates
      /\ \A i \in DOMAIN claims :
           t.candidates[claims[i].candidate] = NewCandidate(claims[i], r, recorded)
      /\ \A c \in DOMAIN s.candidates : c \notin CandidatesOf(claims) => t.candidates[c] = s.candidates[c]
      /\ \A b : b \in DOMAIN t.beliefs <=> b \in BeliefsOf(claims) \/ b \in DOMAIN s.beliefs
      /\ \A b \in DOMAIN s.beliefs : b \notin BeliefsOf(claims) => t.beliefs[b] = s.beliefs[b]
  BY DEF ClaimsRecorded
<1>2. \A i \in DOMAIN claims : claims[i].candidate \notin DOMAIN s.candidates
  BY DEF AdmitsClaims, AdmitsClaim
<1>3. ASSUME NEW i \in DOMAIN claims
      PROVE  LET b   == claims[i].belief
                 row == t.beliefs[b]
             IN  /\ b \in DOMAIN t.beliefs /\ DOMAIN row = BeliefFields
                 /\ ScopeOf(row) = ScopeOf(claims[i])
  BY <1>1, BeliefRow DEF Consistent, BeliefsOf, ClaimsRecorded
<1>4. \A b \in DOMAIN t.beliefs :
        \/ \E i \in DOMAIN claims : b = claims[i].belief
        \/ b \in DOMAIN s.beliefs /\ b \notin BeliefsOf(claims) /\ t.beliefs[b] = s.beliefs[b]
  BY <1>1 DEF BeliefsOf
<1>5. \A b \in DOMAIN t.beliefs : DOMAIN t.beliefs[b] = BeliefFields
  BY <1>3, <1>4 DEF Consistent
<1>6. \A b \in DOMAIN s.beliefs : b \in DOMAIN t.beliefs /\ ScopeOf(t.beliefs[b]) = ScopeOf(s.beliefs[b])
  <2>1. ASSUME NEW b \in DOMAIN s.beliefs PROVE ScopeOf(t.beliefs[b]) = ScopeOf(s.beliefs[b])
    <3>1. CASE b \in BeliefsOf(claims)
      <4>1. PICK i \in DOMAIN claims : b = claims[i].belief
        BY <3>1 DEF BeliefsOf
      <4>2. ScopeOf(s.beliefs[b]) = ScopeOf(claims[i])
        BY <4>1 DEF AdmitsClaims, AdmitsClaim
      <4>3. QED
        BY <1>3, <4>1, <4>2
    <3>2. QED
      BY <1>1, <3>1
  <2>2. QED
    BY <1>1, <2>1
<1>7. OneBelief(t)
  <2>1. SUFFICES ASSUME NEW b1 \in DOMAIN t.beliefs, NEW b2 \in DOMAIN t.beliefs,
                        ScopeOf(t.beliefs[b1]) = ScopeOf(t.beliefs[b2])
                 PROVE  b1 = b2
    BY DEF OneBelief
  <2>2. ASSUME NEW i \in DOMAIN claims, NEW b \in DOMAIN s.beliefs,
               ScopeOf(s.beliefs[b]) = ScopeOf(claims[i])
        PROVE  b = claims[i].belief
    BY <2>2 DEF AdmitsClaims, AdmitsClaim, CurrentBeliefs
  <2>3. CASE b1 \in DOMAIN s.beliefs /\ b2 \in DOMAIN s.beliefs
    BY <1>6, <2>1, <2>3 DEF Consistent, OneBelief
  <2>4. ASSUME NEW i \in DOMAIN claims, b1 = claims[i].belief, b2 \in DOMAIN s.beliefs PROVE b1 = b2
    BY <1>3, <1>6, <2>1, <2>2, <2>4
  <2>5. ASSUME NEW i \in DOMAIN claims, b2 = claims[i].belief, b1 \in DOMAIN s.beliefs PROVE b1 = b2
    BY <1>3, <1>6, <2>1, <2>2, <2>5
  <2>6. ASSUME NEW i \in DOMAIN claims, NEW j \in DOMAIN claims,
               b1 = claims[i].belief, b2 = claims[j].belief
        PROVE  b1 = b2
    <3>1. ScopeOf(claims[i]) = ScopeOf(claims[j])
      BY <1>3, <2>1, <2>6
    <3>2. QED
      BY <2>6, <3>1 DEF AdmitsClaims
  <2>7. QED
    BY <1>4, <2>3, <2>4, <2>5, <2>6
<1>8. CandidatesPlaced(t)
  <2>1. SUFFICES ASSUME NEW c \in DOMAIN t.candidates
                 PROVE  LET row == t.candidates[c] IN
                        /\ DOMAIN row = CandidateFields
                        /\ row.claim.belief \in DOMAIN t.beliefs
                        /\ ScopeOf(row.claim) = ScopeOf(t.beliefs[row.claim.belief])
    BY DEF CandidatesPlaced
  <2>2. ASSUME NEW i \in DOMAIN claims, c = claims[i].candidate
        PROVE  LET row == t.candidates[c] IN
               /\ DOMAIN row = CandidateFields
               /\ row.claim.belief \in DOMAIN t.beliefs
               /\ ScopeOf(row.claim) = ScopeOf(t.beliefs[row.claim.belief])
    <3>1. t.candidates[c] = NewCandidate(claims[i], r, recorded)
      BY <1>1, <2>2
    <3>2. QED
      BY <1>3, <3>1, NewCandidateFields
  <2>3. CASE c \in DOMAIN s.candidates /\ c \notin CandidatesOf(claims)
    BY <1>1, <1>6, <2>3 DEF Consistent, CandidatesPlaced
  <2>4. QED
    BY <1>1, <2>2, <2>3 DEF CandidatesOf
<1>9. CopiesAgree(t)
  <2>1. \A c : c \in DOMAIN t.candidates <=>
          (\E i \in DOMAIN claims : c = claims[i].candidate) \/ c \in DOMAIN s.candidates
    BY <1>1 DEF CandidatesOf
  <2>2. /\ \A i \in DOMAIN claims : t.candidates[claims[i].candidate].claim = claims[i]
        /\ \A c \in DOMAIN s.candidates : t.candidates[c] = s.candidates[c]
    <3>1. \A c \in DOMAIN s.candidates : c \notin CandidatesOf(claims)
      BY <1>2 DEF CandidatesOf
    <3>2. QED
      BY <1>1, <3>1, NewCandidateFields
  <2>3. ASSUME NEW b \in DOMAIN s.beliefs, b \notin BeliefsOf(claims)
        PROVE  /\ \A c : c \in DOMAIN t.beliefs[b].candidates
                         <=> c \in DOMAIN t.candidates /\ t.candidates[c].claim.belief = b
               /\ \A c \in DOMAIN t.beliefs[b].candidates : t.beliefs[b].candidates[c] = t.candidates[c]
    <3>1. \A i \in DOMAIN claims : claims[i].belief # b
      BY <2>3 DEF BeliefsOf
    <3>2. t.beliefs[b] = s.beliefs[b]
      BY <1>1, <2>3
    <3>3. QED
      BY <2>1, <2>2, <3>1, <3>2 DEF Consistent, CopiesAgree
  <2>4. ASSUME NEW b \in BeliefsOf(claims)
        PROVE  /\ \A c : c \in DOMAIN t.beliefs[b].candidates
                         <=> c \in DOMAIN t.candidates /\ t.candidates[c].claim.belief = b
               /\ \A c \in DOMAIN t.beliefs[b].candidates : t.beliefs[b].candidates[c] = t.candidates[c]
    <3> DEFINE added == {claims[i].candidate : i \in {j \in DOMAIN claims : claims[j].belief = b}}
               had   == IF b \in DOMAIN s.beliefs THEN DOMAIN s.beliefs[b].candidates ELSE {}
               copy  == t.beliefs[b].candidates
    <3>1. /\ \A c : c \in DOMAIN copy <=> c \in added \/ c \in had
          /\ \A i \in DOMAIN claims : claims[i].belief = b =>
               copy[claims[i].candidate] = NewCandidate(claims[i], r, recorded)
          /\ \A c \in had : c \notin added => copy[c] = s.beliefs[b].candidates[c]
      <4>1. t.beliefs[b] = BeliefWithClaims(s, r, recorded, b)
        BY DEF ClaimsRecorded
      <4>2. b \in DOMAIN s.beliefs => DOMAIN s.beliefs[b] = BeliefFields
        BY DEF Consistent
      <4>3. QED
        BY <4>1, <4>2, BeliefRow
    <3>2. \A c : c \in had <=> c \in DOMAIN s.candidates /\ s.candidates[c].claim.belief = b
      BY DEF Consistent, CopiesAgree, CandidatesPlaced
    <3>3. \A c \in had : c \notin added /\ s.beliefs[b].candidates[c] = s.candidates[c]
      <4>1. \A c \in had : c \notin added
        BY <1>2, <3>2
      <4>2. \A c \in had : s.beliefs[b].candidates[c] = s.candidates[c]
        BY DEF Consistent, CopiesAgree
      <4>3. QED
        BY <4>1, <4>2
    <3>4. \A c : c \in added <=> \E i \in DOMAIN claims : claims[i].belief = b /\ c = claims[i].candidate
      OBVIOUS
    <3> HIDE DEF added, had, copy, claims
    <3>5. \A c : c \in DOMAIN copy <=> c \in DOMAIN t.candidates /\ t.candidates[c].claim.belief = b
      BY <2>1, <2>2, <3>1, <3>2, <3>4
    <3>6. \A c \in added : copy[c] = t.candidates[c]
      BY <1>1, <3>1, <3>4
    <3>7. \A c \in had : copy[c] = t.candidates[c]
      BY <2>2, <3>1, <3>2, <3>3
    <3>8. QED
      BY <3>1, <3>5, <3>6, <3>7 DEF copy
  <2>5. QED
    BY <1>1, <2>3, <2>4 DEF CopiesAgree
<1>10. QED
  BY <1>1, <1>5, <1>7, <1>8, <1>9 DEF Consistent

-----------------------------------------------------------------------------
(***************************************************************************)
(* A transition is taken apart: it first records its claim, or for an      *)
(* expiry only marks its belief, and then ends its targets.                *)
(***************************************************************************)
ExpiryDelta(s, r) ==
  LET b == TransitionBelief(r) IN
  [NoDelta(r) EXCEPT !.beliefs = Row(b, [s.beliefs[b] EXCEPT !.dependencies = @ \cup {r.id},
                                                             !.lineage      = Append(@, r.id)])]

Claimed(s, r, recorded) ==
  IF r.body.claims = <<>> THEN ExpiryDelta(s, r) ELSE ClaimsDelta(s, r, recorded)

EndedRows(s, r) ==
  [c \in r.body.targets |->
     [s.candidates[c] EXCEPT !.status = StatusOf[r.type], !.superseding = {r.id}]]

EndingRelations(r, pos) ==
  [c \in r.body.targets |-> [event |-> r.id, relation |-> RelationOf[r.type], position |-> pos]]

LEMMA ExpiryRows ==
  ASSUME NEW s, NEW r, DOMAIN s.beliefs[TransitionBelief(r)] = BeliefFields
  PROVE  LET b == TransitionBelief(r)
             d == ExpiryDelta(s, r)
         IN  /\ DOMAIN d = TableNames
             /\ d.entities = NoRows /\ d.links = NoRows /\ d.relations = NoRows
             /\ d.candidates = NoRows
             /\ DOMAIN d.beliefs = {b}
             /\ DOMAIN d.beliefs[b] = BeliefFields
             /\ d.beliefs[b].subject = s.beliefs[b].subject
             /\ d.beliefs[b].property = s.beliefs[b].property
             /\ d.beliefs[b].candidates = s.beliefs[b].candidates
<1> DEFINE b     == TransitionBelief(r)
           new   == [s.beliefs[b] EXCEPT !.dependencies = @ \cup {r.id}, !.lineage = Append(@, r.id)]
           event == Row(r.id, r)
           rows  == Row(b, new)
<1>1. NoDelta(r) = [entities |-> NoRows, links |-> NoRows, beliefs |-> NoRows,
                    candidates |-> NoRows, events |-> event, relations |-> NoRows]
  BY DEF NoDelta, EmptySnapshot
<1>2. /\ DOMAIN new = BeliefFields
      /\ new.subject = s.beliefs[b].subject
      /\ new.property = s.beliefs[b].property
      /\ new.candidates = s.beliefs[b].candidates
  <2> DEFINE old == s.beliefs[b]
             deps == old.dependencies \cup {r.id}
             line == Append(old.lineage, r.id)
  <2>1. DOMAIN old = BeliefFields /\ new = [old EXCEPT !.dependencies = deps, !.lineage = line]
    OBVIOUS
  <2> HIDE DEF old, deps, line, new
  <2>2. QED
    BY <2>1 DEF BeliefFields, old
<1>3. ExpiryDelta(s, r) = [NoDelta(r) EXCEPT !.beliefs = rows]
  BY DEF ExpiryDelta
<1>4. DOMAIN rows = {b} /\ rows[b] = new
  BY DEF Row
<1> HIDE DEF rows, event, new
<1>5. /\ DOMAIN ExpiryDelta(s, r) = TableNames
      /\ ExpiryDelta(s, r).entities = NoRows /\ ExpiryDelta(s, r).links = NoRows
      /\ ExpiryDelta(s, r).relations = NoRows /\ ExpiryDelta(s, r).candidates = NoRows
      /\ ExpiryDelta(s, r).beliefs = rows
  BY <1>1, <1>3 DEF TableNames
<1>6. QED
  BY <1>2, <1>4, <1>5

LEMMA ClaimsTables ==
  ASSUME NEW s, NEW r, NEW recorded
  PROVE  DOMAIN ClaimsDelta(s, r, recorded) = TableNames
<1>1. DOMAIN NoDelta(r) = TableNames
  BY DEF NoDelta, EmptySnapshot, TableNames
<1>2. QED
  BY <1>1 DEF ClaimsDelta

\* A transition's claims are none or one, and name its belief.
LEMMA TransitionClaims ==
  ASSUME NEW s, NEW r, WellFormed(r), AdmitsTransition(s, r)
  PROVE  /\ r.body.claims = <<>> <=> r.type = "candidate_expired"
         /\ r.body.claims # <<>> => /\ AdmitsClaims(s, r.body.claims)
                                   /\ BeliefsOf(r.body.claims) = {TransitionBelief(r)}
<1>1. CASE r.type = "candidate_expired"
  BY <1>1 DEF AdmitsTransition
<1>2. CASE r.type # "candidate_expired"
  <2>1. /\ Len(r.body.claims) = 1 /\ AdmitsClaims(s, r.body.claims)
        /\ TransitionBelief(r) = r.body.claims[1].belief
    BY <1>2 DEF AdmitsTransition, TransitionBelief
  <2>2. DOMAIN r.body.claims = {1}
    BY <2>1 DEF WellFormed
  <2>3. QED
    BY <1>2, <2>1, <2>2 DEF BeliefsOf, AdmitsClaims
<1>3. QED
  BY <1>1, <1>2

\* Before it ends its targets a transition leaves the tables consistent, with every
\* candidate it found.
LEMMA ClaimedConsistent ==
  ASSUME NEW s, NEW r, NEW recorded, Consistent(s), WellFormed(r), AdmitsTransition(s, r)
  PROVE  LET d == Claimed(s, r, recorded)
             u == Publish(s, d)
         IN  /\ DOMAIN d = TableNames
             /\ d.entities = NoRows /\ d.links = NoRows /\ d.relations = NoRows
             /\ DOMAIN d.beliefs = {TransitionBelief(r)}
             /\ \A c \in DOMAIN s.candidates : c \notin DOMAIN d.candidates
             /\ \A c : c \in DOMAIN d.candidates <=> c \in CandidatesOf(r.body.claims)
             /\ \A i \in DOMAIN r.body.claims :
                  d.candidates[r.body.claims[i].candidate] = NewCandidate(r.body.claims[i], r, recorded)
             /\ Consistent(u)
<1> DEFINE b == TransitionBelief(r)
           d == Claimed(s, r, recorded)
           u == Publish(s, d)
<1>1. b \in DOMAIN s.beliefs /\ DOMAIN s.beliefs[b] = BeliefFields /\ DOMAIN s = TableNames
  BY DEF AdmitsTransition, Consistent
<1>2. CASE r.body.claims = <<>>
  <2>1. d = ExpiryDelta(s, r)
    BY <1>2 DEF Claimed
  <2>2. /\ DOMAIN d = TableNames
        /\ d.entities = NoRows /\ d.links = NoRows /\ d.relations = NoRows
        /\ d.candidates = NoRows
        /\ DOMAIN d.beliefs = {b}
        /\ DOMAIN d.beliefs[b] = BeliefFields
        /\ d.beliefs[b].subject = s.beliefs[b].subject
        /\ d.beliefs[b].property = s.beliefs[b].property
        /\ d.beliefs[b].candidates = s.beliefs[b].candidates
    BY <1>1, <2>1, ExpiryRows
  <2> HIDE DEF d, b
  <2>3. /\ DOMAIN u = TableNames
        /\ u.candidates = Upsert(NoRows, s.candidates)
        /\ u.beliefs = Upsert(d.beliefs, s.beliefs)
    BY <1>1, <2>2, PublishRows
  <2> HIDE DEF u
  <2>4. /\ \A c : c \in DOMAIN u.candidates <=> c \in DOMAIN s.candidates
        /\ \A c \in DOMAIN s.candidates : u.candidates[c] = s.candidates[c]
    BY <2>3, UpsertNothing
  <2>5. /\ \A x : x \in DOMAIN u.beliefs <=> x \in DOMAIN s.beliefs
        /\ \A x \in DOMAIN s.beliefs :
             /\ DOMAIN u.beliefs[x] = BeliefFields
             /\ ScopeOf(u.beliefs[x]) = ScopeOf(s.beliefs[x])
             /\ u.beliefs[x].candidates = s.beliefs[x].candidates
    <3>1. /\ \A x : x \in DOMAIN u.beliefs <=> x \in DOMAIN s.beliefs
          /\ u.beliefs[b] = d.beliefs[b]
          /\ \A x \in DOMAIN s.beliefs : x # b => u.beliefs[x] = s.beliefs[x]
      BY <1>1, <2>2, <2>3, UpsertRows
    <3>2. \A x \in DOMAIN s.beliefs : DOMAIN s.beliefs[x] = BeliefFields
      BY DEF Consistent
    <3>3. QED
      BY <2>2, <3>1, <3>2 DEF ScopeOf
  <2>6. Consistent(u)
    <3>1. OneBelief(u)
      BY <2>5 DEF Consistent, OneBelief
    <3>2. CandidatesPlaced(u)
      BY <2>4, <2>5 DEF Consistent, CandidatesPlaced
    <3>3. CopiesAgree(u)
      BY <2>4, <2>5 DEF Consistent, CopiesAgree
    <3>4. QED
      BY <2>3, <2>5, <3>1, <3>2, <3>3 DEF Consistent
  <2>7. (\A c : c \notin DOMAIN d.candidates) /\ \A c : c \notin CandidatesOf(r.body.claims)
    BY <1>2, <2>2 DEF NoRows, CandidatesOf
  <2>8. \A i \in DOMAIN r.body.claims : FALSE
    BY <1>2
  <2>9. QED
    BY <2>2, <2>6, <2>7, <2>8 DEF d, u, b
<1>3. CASE r.body.claims # <<>>
  <2> DEFINE cd      == ClaimsDelta(s, r, recorded)
             rows    == CandidateRows(r.body.claims, DOMAIN r.body.claims, r, recorded)
             beliefs == [x \in BeliefsOf(r.body.claims) |-> BeliefWithClaims(s, r, recorded, x)]
  <2>1. d = cd
    BY <1>3 DEF Claimed
  <2>2. AdmitsClaims(s, r.body.claims) /\ BeliefsOf(r.body.claims) = {b}
    BY <1>3, TransitionClaims
  <2>3. Consistent(u)
    BY <1>1, <2>1, <2>2, ClaimsAreRecorded, ClaimsKeepConsistent
  <2>4. /\ \A c : c \in DOMAIN d.candidates <=> c \in CandidatesOf(r.body.claims)
        /\ \A i \in DOMAIN r.body.claims :
             d.candidates[r.body.claims[i].candidate] = NewCandidate(r.body.claims[i], r, recorded)
    <3>1. d.candidates = rows
      <4>1. cd.candidates = rows /\ cd.beliefs = beliefs
        BY ClaimsRows
      <4> HIDE DEF d, cd, rows
      <4>2. QED
        BY <2>1, <4>1
    <3>2. \A i, j \in DOMAIN r.body.claims :
            r.body.claims[i].candidate = r.body.claims[j].candidate => i = j
      BY <2>2 DEF AdmitsClaims
    <3> DEFINE claims == r.body.claims
    <3> HIDE DEF claims, d
    <3>3. QED
      BY <3>1, <3>2, CandidateRowsHold DEF CandidatesOf
  <2>5. \A c \in DOMAIN s.candidates : c \notin DOMAIN d.candidates
    BY <2>2, <2>4 DEF CandidatesOf, AdmitsClaims, AdmitsClaim
  <2>6. /\ DOMAIN d = TableNames
        /\ d.entities = NoRows /\ d.links = NoRows /\ d.relations = NoRows
        /\ DOMAIN d.beliefs = {b}
    <3>1. /\ DOMAIN cd = TableNames
          /\ cd.entities = NoRows /\ cd.links = NoRows /\ cd.relations = NoRows
          /\ cd.beliefs = beliefs
      BY ClaimsRows, ClaimsTables
    <3>2. DOMAIN beliefs = BeliefsOf(r.body.claims)
      OBVIOUS
    <3> HIDE DEF d, cd, beliefs
    <3>3. QED
      BY <2>1, <2>2, <3>1, <3>2
  <2>7. QED
    BY <2>3, <2>4, <2>5, <2>6
<1>4. QED
  BY <1>2, <1>3

\* The tables t are those of u with the targets of r ended: in the candidate table,
\* in the copy of their belief b, and in the table of relations, which was that of s.
TargetsEnded(s, u, t, b, r, pos) ==
  /\ DOMAIN t = TableNames
  /\ \A c : c \in DOMAIN t.candidates <=> c \in DOMAIN u.candidates
  /\ \A c \in DOMAIN u.candidates :
       /\ DOMAIN t.candidates[c] = DOMAIN u.candidates[c]
       /\ t.candidates[c].claim = u.candidates[c].claim
       /\ c \notin r.body.targets => t.candidates[c] = u.candidates[c]
       /\ c \in r.body.targets => /\ t.candidates[c].status = StatusOf[r.type]
                                 /\ t.candidates[c].superseding = {r.id}
  /\ \A x : x \in DOMAIN t.beliefs <=> x \in DOMAIN u.beliefs
  /\ \A x \in DOMAIN u.beliefs : x # b => t.beliefs[x] = u.beliefs[x]
  /\ DOMAIN t.beliefs[b] = DOMAIN u.beliefs[b]
  /\ ScopeOf(t.beliefs[b]) = ScopeOf(u.beliefs[b])
  /\ \A c : c \in DOMAIN t.beliefs[b].candidates
           <=> c \in r.body.targets \/ c \in DOMAIN u.beliefs[b].candidates
  /\ \A c \in DOMAIN u.beliefs[b].candidates :
       c \notin r.body.targets => t.beliefs[b].candidates[c] = u.beliefs[b].candidates[c]
  /\ \A c \in r.body.targets : t.beliefs[b].candidates[c] = t.candidates[c]
  /\ \A c : c \in DOMAIN t.relations <=> c \in r.body.targets \/ c \in DOMAIN s.relations
  /\ \A c \in r.body.targets :
       t.relations[c] = [event |-> r.id, relation |-> RelationOf[r.type], position |-> pos]
  /\ \A c \in DOMAIN s.relations : c \notin r.body.targets => t.relations[c] = s.relations[c]

LEMMA TransitionRows ==
  ASSUME NEW s, NEW r, NEW recorded, NEW pos, DOMAIN Claimed(s, r, recorded) = TableNames
  PROVE  LET b == TransitionBelief(r)
             d == Claimed(s, r, recorded)
             e == TransitionDelta(s, r, recorded, pos)
         IN  /\ e.entities = d.entities /\ e.links = d.links
             /\ e.candidates = Upsert(EndedRows(s, r), d.candidates)
             /\ e.beliefs = [d.beliefs EXCEPT ![b].candidates = Upsert(EndedRows(s, r), @)]
             /\ e.relations = EndingRelations(r, pos)
<1> DEFINE b     == TransitionBelief(r)
           d     == Claimed(s, r, recorded)
           ended == EndedRows(s, r)
           beliefs == [d.beliefs EXCEPT ![b].candidates = Upsert(ended, @)]
           rels  == EndingRelations(r, pos)
           cands == Upsert(ended, d.candidates)
<1>1. TransitionDelta(s, r, recorded, pos)
        = [d EXCEPT !.candidates = cands, !.beliefs = beliefs, !.relations = rels]
  BY DEF TransitionDelta, Claimed, ExpiryDelta, EndedRows, EndingRelations
<1>2. DOMAIN d = TableNames
  OBVIOUS
<1> HIDE DEF d, beliefs, rels, cands
<1>3. /\ TransitionDelta(s, r, recorded, pos).entities = d.entities
      /\ TransitionDelta(s, r, recorded, pos).links = d.links
      /\ TransitionDelta(s, r, recorded, pos).candidates = cands
      /\ TransitionDelta(s, r, recorded, pos).beliefs = beliefs
      /\ TransitionDelta(s, r, recorded, pos).relations = rels
  BY <1>1, <1>2 DEF TableNames
<1>4. QED
  BY <1>3 DEF d, beliefs, rels, cands

LEMMA TransitionEndsTargets ==
  ASSUME NEW s, NEW r, NEW recorded, NEW pos,
         Consistent(s), WellFormed(r), AdmitsTransition(s, r)
  PROVE  TargetsEnded(s, Publish(s, Claimed(s, r, recorded)),
                      Publish(s, TransitionDelta(s, r, recorded, pos)),
                      TransitionBelief(r), r, pos)
<1> DEFINE b     == TransitionBelief(r)
           d     == Claimed(s, r, recorded)
           u     == Publish(s, d)
           e     == TransitionDelta(s, r, recorded, pos)
           t     == Publish(s, e)
           ended == EndedRows(s, r)
           rels  == EndingRelations(r, pos)
<1>1. /\ DOMAIN d = TableNames /\ DOMAIN d.beliefs = {b}
      /\ \A c \in DOMAIN s.candidates : c \notin DOMAIN d.candidates
      /\ Consistent(u)
  BY ClaimedConsistent
<1>2. /\ \A c \in r.body.targets : c \in DOMAIN s.candidates
      /\ DOMAIN s = TableNames
      /\ \A c \in DOMAIN s.candidates : DOMAIN s.candidates[c] = CandidateFields
  BY DEF AdmitsTransition, AdmitsTarget, Consistent, CandidatesPlaced
<1>3. /\ e.candidates = Upsert(ended, d.candidates)
      /\ e.beliefs = [d.beliefs EXCEPT ![b].candidates = Upsert(ended, @)]
      /\ e.relations = rels
  BY <1>1, TransitionRows
<1>4. /\ DOMAIN ended = r.body.targets
      /\ \A c \in r.body.targets : /\ DOMAIN ended[c] = DOMAIN s.candidates[c]
                                  /\ ended[c].claim = s.candidates[c].claim
                                  /\ ended[c].status = StatusOf[r.type]
                                  /\ ended[c].superseding = {r.id}
  <2>1. ASSUME NEW old, DOMAIN old = CandidateFields, NEW st, NEW ev
        PROVE  LET new == [old EXCEPT !.status = st, !.superseding = ev] IN
               /\ DOMAIN new = DOMAIN old /\ new.claim = old.claim
               /\ new.status = st /\ new.superseding = ev
    BY <2>1 DEF CandidateFields
  <2> DEFINE new(c) == [s.candidates[c] EXCEPT !.status = StatusOf[r.type], !.superseding = {r.id}]
  <2>2. \A c \in r.body.targets : /\ DOMAIN new(c) = DOMAIN s.candidates[c]
                                  /\ new(c).claim = s.candidates[c].claim
                                  /\ new(c).status = StatusOf[r.type]
                                  /\ new(c).superseding = {r.id}
    BY <1>2, <2>1
  <2>3. ended = [c \in r.body.targets |-> new(c)]
    BY DEF EndedRows
  <2> HIDE DEF new, ended
  <2>4. QED
    BY <2>2, <2>3
<1>5. /\ DOMAIN rels = r.body.targets
      /\ \A c \in r.body.targets :
           rels[c] = [event |-> r.id, relation |-> RelationOf[r.type], position |-> pos]
  BY DEF EndingRelations
<1> HIDE DEF d, e, ended, rels, b
<1>6. /\ DOMAIN t = TableNames
      /\ t.candidates = Upsert(e.candidates, s.candidates)
      /\ t.beliefs = Upsert(e.beliefs, s.beliefs)
      /\ t.relations = Upsert(e.relations, s.relations)
      /\ u.candidates = Upsert(d.candidates, s.candidates)
      /\ u.beliefs = Upsert(d.beliefs, s.beliefs)
  BY <1>2, PublishRows
<1> HIDE DEF u, t
<1>7. /\ \A c : c \in DOMAIN u.candidates <=> c \in DOMAIN d.candidates \/ c \in DOMAIN s.candidates
      /\ \A c \in DOMAIN d.candidates : u.candidates[c] = d.candidates[c]
      /\ \A c \in DOMAIN s.candidates : u.candidates[c] = s.candidates[c]
  BY <1>1, <1>6, UpsertRows
<1>8. /\ \A c : c \in DOMAIN t.candidates <=>
            c \in r.body.targets \/ c \in DOMAIN d.candidates \/ c \in DOMAIN s.candidates
      /\ \A c \in r.body.targets : t.candidates[c] = ended[c]
      /\ \A c \in DOMAIN d.candidates : c \notin r.body.targets => t.candidates[c] = d.candidates[c]
      /\ \A c \in DOMAIN s.candidates :
           c \notin r.body.targets => t.candidates[c] = s.candidates[c]
  <2>1. /\ \A c : c \in DOMAIN e.candidates <=> c \in r.body.targets \/ c \in DOMAIN d.candidates
        /\ \A c \in r.body.targets : e.candidates[c] = ended[c]
        /\ \A c \in DOMAIN d.candidates : c \notin r.body.targets => e.candidates[c] = d.candidates[c]
    BY <1>3, <1>4, UpsertRows
  <2>2. QED
    BY <1>1, <1>6, <2>1, UpsertRows
<1>9. /\ \A c : c \in DOMAIN t.candidates <=> c \in DOMAIN u.candidates
      /\ \A c \in DOMAIN u.candidates :
           /\ DOMAIN t.candidates[c] = DOMAIN u.candidates[c]
           /\ t.candidates[c].claim = u.candidates[c].claim
           /\ c \notin r.body.targets => t.candidates[c] = u.candidates[c]
           /\ c \in r.body.targets => /\ t.candidates[c].status = StatusOf[r.type]
                                     /\ t.candidates[c].superseding = {r.id}
  <2>1. \A c : c \in DOMAIN t.candidates <=> c \in DOMAIN u.candidates
    BY <1>2, <1>7, <1>8
  <2>2. \A c \in DOMAIN u.candidates : c \notin r.body.targets => t.candidates[c] = u.candidates[c]
    BY <1>7, <1>8
  <2>3. \A c \in r.body.targets : u.candidates[c] = s.candidates[c] /\ t.candidates[c] = ended[c]
    BY <1>2, <1>7, <1>8
  <2>4. QED
    BY <1>4, <2>1, <2>2, <2>3
<1>10. /\ \A c : c \in DOMAIN t.relations <=> c \in r.body.targets \/ c \in DOMAIN s.relations
       /\ \A c \in r.body.targets :
            t.relations[c] = [event |-> r.id, relation |-> RelationOf[r.type], position |-> pos]
       /\ \A c \in DOMAIN s.relations : c \notin r.body.targets => t.relations[c] = s.relations[c]
  BY <1>3, <1>5, <1>6, UpsertRows
<1>11. /\ \A x : x \in DOMAIN u.beliefs <=> x = b \/ x \in DOMAIN s.beliefs
       /\ u.beliefs[b] = d.beliefs[b]
       /\ \A x \in DOMAIN s.beliefs : x # b => u.beliefs[x] = s.beliefs[x]
  BY <1>1, <1>6, UpsertRows
<1>12. /\ \A x : x \in DOMAIN t.beliefs <=> x = b \/ x \in DOMAIN s.beliefs
       /\ t.beliefs[b] = [d.beliefs[b] EXCEPT !.candidates = Upsert(ended, @)]
       /\ \A x \in DOMAIN s.beliefs : x # b => t.beliefs[x] = s.beliefs[x]
  <2>1. /\ DOMAIN e.beliefs = {b}
        /\ e.beliefs[b] = [d.beliefs[b] EXCEPT !.candidates = Upsert(ended, @)]
    BY <1>1, <1>3
  <2>2. QED
    BY <1>6, <2>1, UpsertRows
<1>13. DOMAIN u.beliefs[b] = BeliefFields
  BY <1>1, <1>11 DEF Consistent
<1>14. /\ DOMAIN t.beliefs[b] = DOMAIN u.beliefs[b]
       /\ ScopeOf(t.beliefs[b]) = ScopeOf(u.beliefs[b])
       /\ t.beliefs[b].candidates = Upsert(ended, u.beliefs[b].candidates)
  <2>1. t.beliefs[b] = [u.beliefs[b] EXCEPT !.candidates = Upsert(ended, u.beliefs[b].candidates)]
    BY <1>11, <1>12
  <2>2. QED
    BY <1>13, <2>1 DEF BeliefFields, ScopeOf
<1>15. /\ \A c : c \in DOMAIN t.beliefs[b].candidates
               <=> c \in r.body.targets \/ c \in DOMAIN u.beliefs[b].candidates
       /\ \A c \in DOMAIN u.beliefs[b].candidates :
            c \notin r.body.targets => t.beliefs[b].candidates[c] = u.beliefs[b].candidates[c]
       /\ \A c \in r.body.targets : t.beliefs[b].candidates[c] = t.candidates[c]
  <2>1. /\ \A c : c \in DOMAIN t.beliefs[b].candidates
                <=> c \in r.body.targets \/ c \in DOMAIN u.beliefs[b].candidates
        /\ \A c \in DOMAIN u.beliefs[b].candidates :
             c \notin r.body.targets => t.beliefs[b].candidates[c] = u.beliefs[b].candidates[c]
        /\ \A c \in r.body.targets : t.beliefs[b].candidates[c] = ended[c]
    BY <1>4, <1>14, UpsertRows
  <2>2. QED
    BY <1>8, <2>1
<1>16. QED
  <2>1. TargetsEnded(s, u, t, b, r, pos)
    BY <1>6, <1>9, <1>10, <1>11, <1>12, <1>14, <1>15 DEF TargetsEnded
  <2>2. QED
    BY <2>1 DEF u, t, d, e, b

\* Ending candidates of one belief keeps the tables consistent.
LEMMA EndingKeepsConsistent ==
  ASSUME NEW s, NEW u, NEW t, NEW b, NEW r, NEW pos, Consistent(u), b \in DOMAIN u.beliefs,
         \A c \in r.body.targets : c \in DOMAIN u.candidates /\ u.candidates[c].claim.belief = b,
         TargetsEnded(s, u, t, b, r, pos)
  PROVE  Consistent(t)
<1>1. /\ DOMAIN t = TableNames
      /\ \A c : c \in DOMAIN t.candidates <=> c \in DOMAIN u.candidates
      /\ \A c \in DOMAIN u.candidates :
           /\ DOMAIN t.candidates[c] = DOMAIN u.candidates[c]
           /\ t.candidates[c].claim = u.candidates[c].claim
           /\ c \notin r.body.targets => t.candidates[c] = u.candidates[c]
      /\ \A x : x \in DOMAIN t.beliefs <=> x \in DOMAIN u.beliefs
      /\ \A x \in DOMAIN u.beliefs : x # b => t.beliefs[x] = u.beliefs[x]
      /\ DOMAIN t.beliefs[b] = DOMAIN u.beliefs[b]
      /\ ScopeOf(t.beliefs[b]) = ScopeOf(u.beliefs[b])
  BY DEF TargetsEnded
<1>2. /\ \A c : c \in DOMAIN t.beliefs[b].candidates
              <=> c \in r.body.targets \/ c \in DOMAIN u.beliefs[b].candidates
      /\ \A c \in DOMAIN u.beliefs[b].candidates :
           c \notin r.body.targets => t.beliefs[b].candidates[c] = u.beliefs[b].candidates[c]
      /\ \A c \in r.body.targets : t.beliefs[b].candidates[c] = t.candidates[c]
  BY DEF TargetsEnded
<1>3. \A x \in DOMAIN u.beliefs : /\ DOMAIN t.beliefs[x] = BeliefFields
                                /\ ScopeOf(t.beliefs[x]) = ScopeOf(u.beliefs[x])
  BY <1>1 DEF Consistent
<1>4. OneBelief(t)
  BY <1>1, <1>3 DEF Consistent, OneBelief
<1>5. CandidatesPlaced(t)
  BY <1>1, <1>3 DEF Consistent, CandidatesPlaced
<1>6. CopiesAgree(t)
  <2>1. SUFFICES ASSUME NEW x \in DOMAIN u.beliefs
                 PROVE  /\ \A c : c \in DOMAIN t.beliefs[x].candidates
                                  <=> c \in DOMAIN t.candidates /\ t.candidates[c].claim.belief = x
                        /\ \A c \in DOMAIN t.beliefs[x].candidates :
                             t.beliefs[x].candidates[c] = t.candidates[c]
    BY <1>1 DEF CopiesAgree
  <2>2. /\ \A c : c \in DOMAIN u.beliefs[x].candidates
                 <=> c \in DOMAIN u.candidates /\ u.candidates[c].claim.belief = x
        /\ \A c \in DOMAIN u.beliefs[x].candidates : u.beliefs[x].candidates[c] = u.candidates[c]
    BY DEF Consistent, CopiesAgree
  <2>3. CASE x = b
    BY <1>1, <1>2, <2>2, <2>3
  <2>4. CASE x # b
    <3>1. t.beliefs[x] = u.beliefs[x]
      BY <1>1, <2>4
    <3>2. \A c \in DOMAIN u.beliefs[x].candidates : c \notin r.body.targets
      BY <2>2, <2>4
    <3>3. QED
      BY <1>1, <2>2, <3>1, <3>2
  <2>5. QED
    BY <2>3, <2>4
<1>7. QED
  BY <1>1, <1>3, <1>4, <1>5, <1>6 DEF Consistent

LEMMA MentionRows ==
  ASSUME NEW r
  PROVE  LET d == MentionDelta(r) IN
         /\ d.beliefs = NoRows /\ d.candidates = NoRows /\ d.relations = NoRows
         /\ d.entities = Row(r.body.subject, [mention |-> r.body.mention, event |-> r.id])
         /\ d.links = Row(r.body.mention, [subject |-> r.body.subject, event |-> r.id])
<1> DEFINE ents  == Row(r.body.subject, [mention |-> r.body.mention, event |-> r.id])
           lks   == Row(r.body.mention, [subject |-> r.body.subject, event |-> r.id])
           event == Row(r.id, r)
<1>1. NoDelta(r) = [entities |-> NoRows, links |-> NoRows, beliefs |-> NoRows,
                    candidates |-> NoRows, events |-> event, relations |-> NoRows]
  BY DEF NoDelta, EmptySnapshot
<1>2. MentionDelta(r) = [NoDelta(r) EXCEPT !.entities = ents, !.links = lks]
  BY DEF MentionDelta
<1> HIDE DEF ents, lks, event
<1>3. QED
  BY <1>1, <1>2 DEF ents, lks

\* Tables whose beliefs and candidates are those of consistent tables are consistent.
LEMMA SameConsistent ==
  ASSUME NEW s, NEW t, Consistent(s), DOMAIN t = TableNames,
         \A b : b \in DOMAIN t.beliefs <=> b \in DOMAIN s.beliefs,
         \A b \in DOMAIN s.beliefs : t.beliefs[b] = s.beliefs[b],
         \A c : c \in DOMAIN t.candidates <=> c \in DOMAIN s.candidates,
         \A c \in DOMAIN s.candidates : t.candidates[c] = s.candidates[c]
  PROVE  Consistent(t)
<1>1. OneBelief(t)
  BY DEF Consistent, OneBelief
<1>2. CandidatesPlaced(t)
  BY DEF Consistent, CandidatesPlaced
<1>3. CopiesAgree(t)
  BY DEF Consistent, CopiesAgree
<1>4. QED
  BY <1>1, <1>2, <1>3 DEF Consistent

LEMMA MentionKeeps ==
  ASSUME NEW s, NEW r, Consistent(s)
  PROVE  LET t == Publish(s, MentionDelta(r)) IN
         /\ Consistent(t)
         /\ \A b : b \in DOMAIN t.beliefs <=> b \in DOMAIN s.beliefs
         /\ \A b \in DOMAIN s.beliefs : t.beliefs[b] = s.beliefs[b]
         /\ \A c : c \in DOMAIN t.candidates <=> c \in DOMAIN s.candidates
         /\ \A c \in DOMAIN s.candidates : t.candidates[c] = s.candidates[c]
         /\ \A c : c \in DOMAIN t.relations <=> c \in DOMAIN s.relations
         /\ \A c \in DOMAIN s.relations : t.relations[c] = s.relations[c]
<1> DEFINE d == MentionDelta(r)
           t == Publish(s, d)
<1>1. d.beliefs = NoRows /\ d.candidates = NoRows /\ d.relations = NoRows
  BY MentionRows
<1> HIDE DEF d
<1>2. /\ DOMAIN t = TableNames
      /\ t.beliefs = Upsert(NoRows, s.beliefs)
      /\ t.candidates = Upsert(NoRows, s.candidates)
      /\ t.relations = Upsert(NoRows, s.relations)
  BY <1>1, PublishRows DEF Consistent
<1> HIDE DEF t
<1>3. /\ \A b : b \in DOMAIN t.beliefs <=> b \in DOMAIN s.beliefs
      /\ \A b \in DOMAIN s.beliefs : t.beliefs[b] = s.beliefs[b]
      /\ \A c : c \in DOMAIN t.candidates <=> c \in DOMAIN s.candidates
      /\ \A c \in DOMAIN s.candidates : t.candidates[c] = s.candidates[c]
      /\ \A c : c \in DOMAIN t.relations <=> c \in DOMAIN s.relations
      /\ \A c \in DOMAIN s.relations : t.relations[c] = s.relations[c]
  BY <1>2, UpsertNothing
<1>4. Consistent(t)
  BY <1>2, <1>3, SameConsistent
<1>5. QED
  BY <1>3, <1>4 DEF t, d

\* The delta follows the type.
LEMMA DeltaOf ==
  ASSUME NEW v, NEW s, NEW e, NEW pos, Admits(v, s, e.req)
  PROVE  \/ /\ AdmitsMention(s, e.req)
            /\ Apply(s, e, pos) = Publish(s, MentionDelta(e.req))
         \/ /\ AdmitsObservation(s, e.req)
            /\ Apply(s, e, pos) = Publish(s, ClaimsDelta(s, e.req, e.recorded))
         \/ /\ AdmitsTransition(s, e.req)
            /\ Apply(s, e, pos) = Publish(s, TransitionDelta(s, e.req, e.recorded, pos))
<1>1. CASE AdmitsMention(s, e.req)
  BY <1>1 DEF AdmitsMention, Apply, Delta
<1>2. CASE AdmitsObservation(s, e.req)
  BY <1>2 DEF AdmitsObservation, Apply, Delta
<1>3. CASE AdmitsTransition(s, e.req)
  <2>1. e.req.type # "entity_mention_recorded" /\ e.req.type # "observation_recorded"
    BY <1>3 DEF AdmitsTransition, Transitions
  <2>2. QED
    BY <1>3, <2>1 DEF Apply, Delta
<1>4. QED
  BY <1>1, <1>2, <1>3 DEF Admits

\* A transition's targets are candidates of its belief, which ends up in the tables.
LEMMA TransitionKeepsConsistent ==
  ASSUME NEW s, NEW r, NEW recorded, NEW pos,
         Consistent(s), WellFormed(r), AdmitsTransition(s, r)
  PROVE  Consistent(Publish(s, TransitionDelta(s, r, recorded, pos)))
<1> DEFINE b == TransitionBelief(r)
           d == Claimed(s, r, recorded)
           u == Publish(s, d)
           t == Publish(s, TransitionDelta(s, r, recorded, pos))
<1>1. /\ DOMAIN d.beliefs = {b}
      /\ \A c \in DOMAIN s.candidates : c \notin DOMAIN d.candidates
      /\ Consistent(u)
  BY ClaimedConsistent
<1>2. TargetsEnded(s, u, t, b, r, pos)
  BY TransitionEndsTargets
<1>3. \A c \in r.body.targets : c \in DOMAIN s.candidates /\ s.candidates[c].claim.belief = b
  BY DEF AdmitsTransition, AdmitsTarget
<1>4. DOMAIN s = TableNames
  BY DEF Consistent
<1> HIDE DEF d, b, t
<1>5. u.candidates = Upsert(d.candidates, s.candidates) /\ u.beliefs = Upsert(d.beliefs, s.beliefs)
  BY <1>4, PublishRows
<1> HIDE DEF u
<1>6. b \in DOMAIN u.beliefs
  BY <1>1, <1>5, UpsertRows
<1>7. \A c \in r.body.targets : c \in DOMAIN u.candidates /\ u.candidates[c].claim.belief = b
  BY <1>1, <1>3, <1>5, UpsertRows
<1>8. Consistent(t)
  BY <1>1, <1>2, <1>6, <1>7, EndingKeepsConsistent
<1>9. QED
  BY <1>8 DEF t

LEMMA AdmittedKeepsConsistent ==
  ASSUME NEW v, NEW s, NEW e, NEW pos, Consistent(s), WellFormed(e.req), Admits(v, s, e.req)
  PROVE  Consistent(Apply(s, e, pos))
<1>1. CASE AdmitsMention(s, e.req) /\ Apply(s, e, pos) = Publish(s, MentionDelta(e.req))
  BY <1>1, MentionKeeps
<1>2. CASE /\ AdmitsObservation(s, e.req)
           /\ Apply(s, e, pos) = Publish(s, ClaimsDelta(s, e.req, e.recorded))
  BY <1>2, ClaimsAreRecorded, ClaimsKeepConsistent DEF Consistent, AdmitsObservation
<1>3. CASE /\ AdmitsTransition(s, e.req)
           /\ Apply(s, e, pos) = Publish(s, TransitionDelta(s, e.req, e.recorded, pos))
  BY <1>3, TransitionKeepsConsistent
<1>4. QED
  BY <1>1, <1>2, <1>3, DeltaOf

-----------------------------------------------------------------------------
(***************************************************************************)
(* Endings.  Targets(l, i) are what entry i of l ends.                     *)
(***************************************************************************)
Targets(l, i) == l[i].req.body.targets

\* The three records of an ending agree with the first n entries of l: a live
\* candidate was never a target, an ended one was the target of exactly one entry.
EndingsHold(s, l, n) ==
  /\ \A c \in DOMAIN s.candidates :
       IF s.candidates[c].status = "live"
       THEN /\ s.candidates[c].superseding = {}
            /\ c \notin DOMAIN s.relations
            /\ \A i \in 1..n : c \notin Targets(l, i)
       ELSE \E i \in 1..n :
              /\ c \in Targets(l, i)
              /\ \A j \in 1..n : c \in Targets(l, j) => j = i
              /\ s.candidates[c].superseding = {l[i].req.id}
              /\ s.candidates[c].status = StatusOf[l[i].req.type]
              /\ s.relations[c] = [event |-> l[i].req.id, relation |-> RelationOf[l[i].req.type],
                                   position |-> i]
  /\ \A c \in DOMAIN s.relations : c \in DOMAIN s.candidates
  /\ \A i \in 1..n : \A c \in Targets(l, i) : c \in DOMAIN s.candidates
  /\ \A c \in DOMAIN s.candidates : s.candidates[c].status # "live" => c \in DOMAIN s.relations

\* An entry that adds candidates, all live, and ends none.
LEMMA AddingKeepsEndings ==
  ASSUME NEW s, NEW t, NEW l, NEW n \in Nat, n >= 1, EndingsHold(s, l, n-1),
         \A c : c \notin Targets(l, n),
         \A c \in DOMAIN s.candidates : c \in DOMAIN t.candidates /\ t.candidates[c] = s.candidates[c],
         \A c \in DOMAIN t.candidates : c \notin DOMAIN s.candidates =>
            t.candidates[c].status = "live" /\ t.candidates[c].superseding = {},
         \A c : c \in DOMAIN t.relations <=> c \in DOMAIN s.relations,
         \A c \in DOMAIN s.relations : t.relations[c] = s.relations[c]
  PROVE  EndingsHold(t, l, n)
<1>1. \A i \in 1..n : i \in 1..(n-1) \/ i = n
  OBVIOUS
<1>2. \A i \in 1..(n-1) : i \in 1..n
  OBVIOUS
<1>3. ASSUME NEW c \in DOMAIN t.candidates, t.candidates[c].status = "live"
      PROVE  /\ t.candidates[c].superseding = {}
             /\ c \notin DOMAIN t.relations
             /\ \A i \in 1..n : c \notin Targets(l, i)
  BY <1>1, <1>3 DEF EndingsHold
<1>4. ASSUME NEW c \in DOMAIN t.candidates, t.candidates[c].status # "live"
      PROVE  \E i \in 1..n :
               /\ c \in Targets(l, i)
               /\ \A j \in 1..n : c \in Targets(l, j) => j = i
               /\ t.candidates[c].superseding = {l[i].req.id}
               /\ t.candidates[c].status = StatusOf[l[i].req.type]
               /\ t.relations[c] = [event |-> l[i].req.id, relation |-> RelationOf[l[i].req.type],
                                    position |-> i]
  <2>1. c \in DOMAIN s.candidates /\ t.candidates[c] = s.candidates[c]
    BY <1>4
  <2>2. PICK i \in 1..(n-1) :
               /\ c \in Targets(l, i)
               /\ \A j \in 1..(n-1) : c \in Targets(l, j) => j = i
               /\ s.candidates[c].superseding = {l[i].req.id}
               /\ s.candidates[c].status = StatusOf[l[i].req.type]
               /\ s.relations[c] = [event |-> l[i].req.id, relation |-> RelationOf[l[i].req.type],
                                    position |-> i]
    BY <1>4, <2>1 DEF EndingsHold
  <2>3. c \in DOMAIN s.relations
    BY <1>4, <2>1 DEF EndingsHold
  <2>4. QED
    BY <1>1, <1>2, <2>1, <2>2, <2>3
<1>5. \A c \in DOMAIN t.relations : c \in DOMAIN t.candidates
  BY DEF EndingsHold
<1>6. \A i \in 1..n : \A c \in Targets(l, i) : c \in DOMAIN t.candidates
  BY <1>1 DEF EndingsHold
<1>7. \A c \in DOMAIN t.candidates : t.candidates[c].status # "live" => c \in DOMAIN t.relations
  BY DEF EndingsHold
<1>8. QED
  BY <1>3, <1>4, <1>5, <1>6, <1>7 DEF EndingsHold

LEMMA NoLiveStatus == \A type \in Transitions : StatusOf[type] # "live"
BY DEF Transitions, StatusOf

\* A transition ends live candidates: each is its target and no earlier entry's.
LEMMA EndingTargets ==
  ASSUME NEW s, NEW t, NEW l, NEW n \in Nat, n >= 1, EndingsHold(s, l, n-1),
         l[n].req.type \in Transitions,
         \A c \in Targets(l, n) : c \in DOMAIN s.candidates /\ s.candidates[c].status = "live",
         \A c \in DOMAIN s.candidates : c \in DOMAIN t.candidates,
         \A c \in Targets(l, n) : /\ t.candidates[c].status = StatusOf[l[n].req.type]
                                 /\ t.candidates[c].superseding = {l[n].req.id},
         \A c \in DOMAIN s.candidates : c \notin Targets(l, n) => t.candidates[c] = s.candidates[c],
         \A c \in DOMAIN t.candidates : c \notin DOMAIN s.candidates =>
            t.candidates[c].status = "live" /\ t.candidates[c].superseding = {},
         \A c : c \in DOMAIN t.relations <=> c \in Targets(l, n) \/ c \in DOMAIN s.relations,
         \A c \in Targets(l, n) :
           t.relations[c] = [event |-> l[n].req.id, relation |-> RelationOf[l[n].req.type], position |-> n],
         \A c \in DOMAIN s.relations : c \notin Targets(l, n) => t.relations[c] = s.relations[c]
  PROVE  EndingsHold(t, l, n)
<1>1. \A i \in 1..n : i \in 1..(n-1) \/ i = n
  OBVIOUS
<1>2. (\A i \in 1..(n-1) : i \in 1..n) /\ n \in 1..n
  OBVIOUS
<1>3. ASSUME NEW c \in DOMAIN t.candidates, t.candidates[c].status = "live"
      PROVE  /\ t.candidates[c].superseding = {}
             /\ c \notin DOMAIN t.relations
             /\ \A i \in 1..n : c \notin Targets(l, i)
  <2>1. c \notin Targets(l, n)
    BY <1>3, NoLiveStatus
  <2>2. CASE c \in DOMAIN s.candidates
    BY <1>1, <1>3, <2>1, <2>2 DEF EndingsHold
  <2>3. CASE c \notin DOMAIN s.candidates
    BY <1>1, <1>3, <2>1, <2>3 DEF EndingsHold
  <2>4. QED
    BY <2>2, <2>3
<1>4. ASSUME NEW c \in DOMAIN t.candidates, t.candidates[c].status # "live"
      PROVE  \E i \in 1..n :
               /\ c \in Targets(l, i)
               /\ \A j \in 1..n : c \in Targets(l, j) => j = i
               /\ t.candidates[c].superseding = {l[i].req.id}
               /\ t.candidates[c].status = StatusOf[l[i].req.type]
               /\ t.relations[c] = [event |-> l[i].req.id, relation |-> RelationOf[l[i].req.type],
                                    position |-> i]
  <2>1. CASE c \in Targets(l, n)
    <3>1. \A j \in 1..(n-1) : c \notin Targets(l, j)
      BY <2>1 DEF EndingsHold
    <3>2. \A j \in 1..n : c \in Targets(l, j) => j = n
      BY <1>1, <3>1
    <3>3. QED
      BY <1>2, <2>1, <3>2
  <2>2. CASE c \notin Targets(l, n)
    <3>1. c \in DOMAIN s.candidates /\ t.candidates[c] = s.candidates[c]
      BY <1>4, <2>2
    <3>2. PICK i \in 1..(n-1) :
               /\ c \in Targets(l, i)
               /\ \A j \in 1..(n-1) : c \in Targets(l, j) => j = i
               /\ s.candidates[c].superseding = {l[i].req.id}
               /\ s.candidates[c].status = StatusOf[l[i].req.type]
               /\ s.relations[c] = [event |-> l[i].req.id, relation |-> RelationOf[l[i].req.type],
                                    position |-> i]
      BY <1>4, <3>1 DEF EndingsHold
    <3>3. t.relations[c] = s.relations[c]
      BY <1>4, <2>2, <3>1 DEF EndingsHold
    <3>4. QED
      BY <1>1, <1>2, <2>2, <3>1, <3>2, <3>3
  <2>3. QED
    BY <2>1, <2>2
<1>5. \A c \in DOMAIN t.relations : c \in DOMAIN t.candidates
  BY DEF EndingsHold
<1>6. \A i \in 1..n : \A c \in Targets(l, i) : c \in DOMAIN t.candidates
  BY <1>1 DEF EndingsHold
<1>7. \A c \in DOMAIN t.candidates : t.candidates[c].status # "live" => c \in DOMAIN t.relations
  BY DEF EndingsHold
<1>8. QED
  BY <1>3, <1>4, <1>5, <1>6, <1>7 DEF EndingsHold

LEMMA AdmittedKeepsEndings ==
  ASSUME NEW v, NEW s, NEW l, NEW n \in Nat, n >= 1, Consistent(s), EndingsHold(s, l, n-1),
         WellFormed(l[n].req), Admits(v, s, l[n].req)
  PROVE  EndingsHold(Apply(s, l[n], n), l, n)
<1> DEFINE r   == l[n].req
           rec == l[n].recorded
           t   == Apply(s, l[n], n)
<1>1. CASE AdmitsMention(s, r) /\ t = Publish(s, MentionDelta(r))
  <2>1. \A c : c \notin Targets(l, n)
    BY <1>1 DEF WellFormed, AdmitsMention, Transitions, Targets
  <2>2. /\ \A c : c \in DOMAIN t.candidates <=> c \in DOMAIN s.candidates
        /\ \A c \in DOMAIN s.candidates : t.candidates[c] = s.candidates[c]
        /\ \A c : c \in DOMAIN t.relations <=> c \in DOMAIN s.relations
        /\ \A c \in DOMAIN s.relations : t.relations[c] = s.relations[c]
    BY <1>1, MentionKeeps
  <2> HIDE DEF t
  <2>3. EndingsHold(t, l, n)
    BY <2>1, <2>2, AddingKeepsEndings
  <2>4. QED
    BY <2>3 DEF t
<1>2. CASE AdmitsObservation(s, r) /\ t = Publish(s, ClaimsDelta(s, r, rec))
  <2>1. \A c : c \notin Targets(l, n)
    BY <1>2 DEF WellFormed, AdmitsObservation, Transitions, Targets
  <2>2. AdmitsClaims(s, r.body.claims) /\ DOMAIN s = TableNames
    BY <1>2 DEF AdmitsObservation, Consistent
  <2>3. ClaimsRecorded(s, t, r, rec)
    BY <1>2, <2>2, ClaimsAreRecorded
  <2>4. t.relations = Upsert(NoRows, s.relations)
    BY <1>2, <2>2, ClaimsLeaveTables
  <2> HIDE DEF t, r, rec
  <2>5. /\ \A c : c \in DOMAIN t.relations <=> c \in DOMAIN s.relations
        /\ \A c \in DOMAIN s.relations : t.relations[c] = s.relations[c]
    BY <2>4, UpsertNothing
  <2>6. \A c \in CandidatesOf(r.body.claims) :
          /\ c \notin DOMAIN s.candidates
          /\ c \in DOMAIN t.candidates
          /\ t.candidates[c].status = "live" /\ t.candidates[c].superseding = {}
    BY <2>2, <2>3, NewCandidateFields DEF ClaimsRecorded, CandidatesOf, AdmitsClaims, AdmitsClaim
  <2>7. /\ \A c \in DOMAIN s.candidates : c \in DOMAIN t.candidates /\ t.candidates[c] = s.candidates[c]
        /\ \A c \in DOMAIN t.candidates : c \notin DOMAIN s.candidates => c \in CandidatesOf(r.body.claims)
    BY <2>3, <2>6 DEF ClaimsRecorded
  <2>8. EndingsHold(t, l, n)
    BY <2>1, <2>5, <2>6, <2>7, AddingKeepsEndings
  <2>9. QED
    BY <2>8 DEF t
<1>3. CASE AdmitsTransition(s, r) /\ t = Publish(s, TransitionDelta(s, r, rec, n))
  <2> DEFINE d == Claimed(s, r, rec)
             u == Publish(s, d)
  <2>1. TargetsEnded(s, u, t, TransitionBelief(r), r, n)
    BY <1>3, TransitionEndsTargets
  <2>2. /\ \A c : c \in DOMAIN d.candidates <=> c \in CandidatesOf(r.body.claims)
        /\ \A i \in DOMAIN r.body.claims :
             d.candidates[r.body.claims[i].candidate] = NewCandidate(r.body.claims[i], r, rec)
        /\ \A c \in DOMAIN s.candidates : c \notin DOMAIN d.candidates
    BY <1>3, ClaimedConsistent
  <2>3. /\ r.type \in Transitions
        /\ \A c \in Targets(l, n) : c \in DOMAIN s.candidates /\ s.candidates[c].status = "live"
    BY <1>3 DEF AdmitsTransition, AdmitsTarget, Targets
  <2>4. DOMAIN s = TableNames
    BY DEF Consistent
  <2>5. r.body.targets = Targets(l, n) /\ r = l[n].req
    BY DEF Targets
  <2> HIDE DEF t, d, r, rec
  <2>6. u.candidates = Upsert(d.candidates, s.candidates)
    BY <2>4, PublishRows
  <2> HIDE DEF u
  <2>7. /\ \A c : c \in DOMAIN u.candidates <=> c \in CandidatesOf(r.body.claims) \/ c \in DOMAIN s.candidates
        /\ \A c \in DOMAIN s.candidates : u.candidates[c] = s.candidates[c]
        /\ \A c \in DOMAIN d.candidates : u.candidates[c] = d.candidates[c]
    BY <2>2, <2>6, UpsertRows
  <2>8. \A c \in CandidatesOf(r.body.claims) :
          u.candidates[c].status = "live" /\ u.candidates[c].superseding = {}
    BY <2>2, <2>7, NewCandidateFields DEF CandidatesOf
  <2>9. /\ \A c : c \in DOMAIN t.candidates <=> c \in DOMAIN u.candidates
        /\ \A c \in DOMAIN u.candidates :
             /\ c \notin Targets(l, n) => t.candidates[c] = u.candidates[c]
             /\ c \in Targets(l, n) => /\ t.candidates[c].status = StatusOf[l[n].req.type]
                                      /\ t.candidates[c].superseding = {l[n].req.id}
        /\ \A c : c \in DOMAIN t.relations <=> c \in Targets(l, n) \/ c \in DOMAIN s.relations
        /\ \A c \in Targets(l, n) :
             t.relations[c] = [event |-> l[n].req.id, relation |-> RelationOf[l[n].req.type], position |-> n]
        /\ \A c \in DOMAIN s.relations : c \notin Targets(l, n) => t.relations[c] = s.relations[c]
    BY <2>1, <2>5 DEF TargetsEnded
  <2>10. EndingsHold(t, l, n)
    <3>1. \A c \in DOMAIN s.candidates : c \in DOMAIN t.candidates
      BY <2>7, <2>9
    <3>2. \A c \in Targets(l, n) : /\ t.candidates[c].status = StatusOf[l[n].req.type]
                                  /\ t.candidates[c].superseding = {l[n].req.id}
      BY <2>3, <2>7, <2>9
    <3>3. \A c \in DOMAIN s.candidates : c \notin Targets(l, n) => t.candidates[c] = s.candidates[c]
      BY <2>7, <2>9
    <3>4. \A c \in DOMAIN t.candidates : c \notin DOMAIN s.candidates =>
            t.candidates[c].status = "live" /\ t.candidates[c].superseding = {}
      BY <2>3, <2>7, <2>8, <2>9
    <3>5. l[n].req.type \in Transitions
      BY <2>3, <2>5
    <3>6. QED
      BY <2>3, <2>9, <3>1, <3>2, <3>3, <3>4, <3>5, EndingTargets
  <2>11. QED
    BY <2>10 DEF t
<1>4. QED
  BY <1>1, <1>2, <1>3, DeltaOf

LEMMA EmptyEndings ==
  ASSUME NEW l
  PROVE  EndingsHold(EmptySnapshot, l, 0)
<1>1. DOMAIN EmptySnapshot.candidates = {} /\ DOMAIN EmptySnapshot.relations = {}
  BY DEF EmptySnapshot, NoRows
<1>2. \A i \in 1..0 : FALSE
  OBVIOUS
<1>3. QED
  BY <1>1, <1>2 DEF EndingsHold

\* A log whose first n entries were admitted one after the other, each by some
\* projector on the replay of those before it.
AdmittedUpTo(l, n) ==
  \A i \in 1..n : /\ WellFormed(l[i].req)
                  /\ \E v : Admits(v, ReplayOf(l, EmptySnapshot)[i-1], l[i].req)

\* Replaying admitted entries reaches consistent tables whose endings agree.
LEMMA ReplayedTables ==
  ASSUME NEW l, Len(l) \in Nat, NEW n \in 0..Len(l), AdmittedUpTo(l, n)
  PROVE  /\ Consistent(ReplayOf(l, EmptySnapshot)[n])
         /\ EndingsHold(ReplayOf(l, EmptySnapshot)[n], l, n)
<1> DEFINE R   == ReplayOf(l, EmptySnapshot)
           Bad == {k \in 0..n : ~(Consistent(R[k]) /\ EndingsHold(R[k], l, k))}
<1>1. /\ R[0] = EmptySnapshot
      /\ \A i \in 1..Len(l) : R[i] = Apply(R[i-1], l[i], i)
  BY ReplaySteps
<1>2. \A i \in 1..n : WellFormed(l[i].req) /\ \E v : Admits(v, R[i-1], l[i].req)
  BY DEF AdmittedUpTo
<1> HIDE DEF R
<1>3. SUFFICES ASSUME Bad # {} PROVE FALSE
  BY DEF R
<1>4. Bad \in SUBSET Nat
  OBVIOUS
<1>5. PICK m \in Bad : \A k \in Bad : ~(k < m)
  <2> HIDE DEF Bad
  <2> QED BY <1>3, <1>4, Least
<1>6. m # 0
  BY <1>1, EmptyConsistent, EmptyEndings
<1>7. m - 1 \in 0..n /\ m - 1 < m /\ m \in 1..n /\ m \in 1..Len(l) /\ m \in Nat /\ m >= 1
  BY <1>6
<1>8. Consistent(R[m-1]) /\ EndingsHold(R[m-1], l, m-1)
  BY <1>5, <1>7
<1>9. R[m] = Apply(R[m-1], l[m], m)
  BY <1>1, <1>7
<1>10. PICK v : Admits(v, R[m-1], l[m].req)
  BY <1>2, <1>7
<1>11. Consistent(Apply(R[m-1], l[m], m))
  BY <1>2, <1>7, <1>8, <1>10, AdmittedKeepsConsistent
<1>12. EndingsHold(Apply(R[m-1], l[m], m), l, m)
  BY <1>2, <1>7, <1>8, <1>10, AdmittedKeepsEndings
<1>13. QED
  BY <1>9, <1>11, <1>12

-----------------------------------------------------------------------------
(***************************************************************************)
(* What an admitted entry writes about, and what it leaves standing.       *)
(***************************************************************************)
\* The beliefs a delta has rows for: those the request writes to, and each of them
\* keeps the subject it has.
BeliefRowsHold(s, d, r) ==
  /\ \A b \in BeliefsOf(r.body.claims) : b \in DOMAIN d.beliefs
  /\ r.type = "candidate_expired" => r.body.belief \in DOMAIN d.beliefs
  /\ \A b \in DOMAIN d.beliefs :
       b \in DOMAIN s.beliefs => d.beliefs[b].subject = s.beliefs[b].subject

LEMMA ClaimsBeliefRows ==
  ASSUME NEW s, NEW r, NEW recorded, Consistent(s), AdmitsClaims(s, r.body.claims)
  PROVE  /\ \A b : b \in DOMAIN ClaimsDelta(s, r, recorded).beliefs <=> b \in BeliefsOf(r.body.claims)
         /\ \A b \in BeliefsOf(r.body.claims) : b \in DOMAIN s.beliefs =>
              ClaimsDelta(s, r, recorded).beliefs[b].subject = s.beliefs[b].subject
<1> DEFINE d    == ClaimsDelta(s, r, recorded)
           rows == [b \in BeliefsOf(r.body.claims) |-> BeliefWithClaims(s, r, recorded, b)]
           cs   == CandidateRows(r.body.claims, DOMAIN r.body.claims, r, recorded)
<1>1. d.beliefs = rows
  <2>1. d.candidates = cs /\ d.beliefs = rows
    BY ClaimsRows
  <2> HIDE DEF d, rows, cs
  <2>2. QED
    BY <2>1
<1>2. \A b \in BeliefsOf(r.body.claims) : b \in DOMAIN s.beliefs =>
        BeliefWithClaims(s, r, recorded, b).subject = s.beliefs[b].subject
  BY BeliefRow DEF Consistent
<1> HIDE DEF d
<1>3. QED
  BY <1>1, <1>2 DEF d

LEMMA TransitionBeliefRows ==
  ASSUME NEW s, NEW r, NEW recorded, NEW pos,
         Consistent(s), WellFormed(r), AdmitsTransition(s, r)
  PROVE  BeliefRowsHold(s, TransitionDelta(s, r, recorded, pos), r)
<1> DEFINE b     == TransitionBelief(r)
           d     == Claimed(s, r, recorded)
           e     == TransitionDelta(s, r, recorded, pos)
           ended == EndedRows(s, r)
<1>1. DOMAIN d = TableNames /\ DOMAIN d.beliefs = {b}
  BY ClaimedConsistent
<1>2. e.beliefs = [d.beliefs EXCEPT ![b].candidates = Upsert(ended, @)]
  BY <1>1, TransitionRows
<1>3. b \in DOMAIN s.beliefs /\ DOMAIN s.beliefs[b] = BeliefFields
  BY DEF AdmitsTransition, Consistent
<1>4. d.beliefs[b].subject = s.beliefs[b].subject
  <2>1. CASE r.body.claims = <<>>
    <3>1. d = ExpiryDelta(s, r)
      BY <2>1 DEF Claimed
    <3>2. QED
      BY <1>3, <3>1, ExpiryRows
  <2>2. CASE r.body.claims # <<>>
    <3>1. d = ClaimsDelta(s, r, recorded)
      BY <2>2 DEF Claimed
    <3>2. AdmitsClaims(s, r.body.claims) /\ BeliefsOf(r.body.claims) = {b}
      BY <2>2, TransitionClaims
    <3>3. b \in BeliefsOf(r.body.claims)
      BY <3>2
    <3>4. ClaimsDelta(s, r, recorded).beliefs[b].subject = s.beliefs[b].subject
      BY <1>3, <3>2, <3>3, ClaimsBeliefRows
    <3>5. QED
      BY <3>1, <3>4
  <2>3. QED
    BY <2>1, <2>2
<1>5. /\ \A x \in BeliefsOf(r.body.claims) : x = b
      /\ r.type = "candidate_expired" => r.body.belief = b
  <2>1. \A x \in BeliefsOf(r.body.claims) : x = b
    <3>1. CASE r.body.claims = <<>>
      BY <3>1 DEF BeliefsOf
    <3>2. CASE r.body.claims # <<>>
      BY <3>2, TransitionClaims
    <3>3. QED
      BY <3>1, <3>2
  <2>2. QED
    BY <2>1 DEF TransitionBelief
<1> HIDE DEF d, b, ended
<1>6. \A x : x \in DOMAIN e.beliefs <=> x = b
  <2> HIDE DEF e
  <2> QED BY <1>1, <1>2
<1>7. e.beliefs[b].subject = d.beliefs[b].subject
  <2> DEFINE new == Upsert(ended, d.beliefs[b].candidates)
  <2>1. e.beliefs[b] = [d.beliefs[b] EXCEPT !.candidates = new]
    BY <1>1, <1>2
  <2> HIDE DEF e, new
  <2>2. QED
    BY <2>1
<1> HIDE DEF e
<1>8. BeliefRowsHold(s, e, r)
  BY <1>4, <1>5, <1>6, <1>7 DEF BeliefRowsHold
<1>9. QED
  BY <1>8 DEF e

\* The delta of an admitted entry writes the beliefs its request names and, for a
\* mention, its entity; it never moves a belief to another subject.
LEMMA AdmittedWrites ==
  ASSUME NEW v, NEW s, NEW e, NEW pos, Consistent(s), WellFormed(e.req), Admits(v, s, e.req)
  PROVE  /\ BeliefRowsHold(s, Delta(s, e.req, e.recorded, pos), e.req)
         /\ e.req.type = "entity_mention_recorded" =>
              /\ e.req.body.subject \in DOMAIN Delta(s, e.req, e.recorded, pos).entities
              /\ e.req.body.mention \notin DOMAIN s.links
<1> DEFINE r == e.req
<1>1. CASE AdmitsMention(s, r)
  <2>1. /\ Delta(s, r, e.recorded, pos) = MentionDelta(r)
        /\ r.type = "entity_mention_recorded"
        /\ r.body.mention \notin DOMAIN s.links
    BY <1>1 DEF AdmitsMention, Delta
  <2>2. /\ MentionDelta(r).beliefs = NoRows
        /\ MentionDelta(r).entities
             = Row(r.body.subject, [mention |-> r.body.mention, event |-> r.id])
    BY MentionRows
  <2>3. \A b : b \notin BeliefsOf(r.body.claims) /\ b \notin DOMAIN NoRows
    BY <2>1 DEF WellFormed, BeliefsOf, NoRows
  <2>4. r.body.subject \in DOMAIN MentionDelta(r).entities
    BY <2>2 DEF Row
  <2>5. BeliefRowsHold(s, MentionDelta(r), r)
    BY <2>1, <2>2, <2>3 DEF BeliefRowsHold
  <2>6. QED
    BY <2>1, <2>4, <2>5
<1>2. CASE AdmitsObservation(s, r)
  <2>1. /\ Delta(s, r, e.recorded, pos) = ClaimsDelta(s, r, e.recorded)
        /\ r.type = "observation_recorded"
        /\ AdmitsClaims(s, r.body.claims)
    BY <1>2 DEF AdmitsObservation, Delta
  <2>2. BeliefRowsHold(s, ClaimsDelta(s, r, e.recorded), r)
    BY <2>1, ClaimsBeliefRows DEF BeliefRowsHold
  <2>3. QED
    BY <2>1, <2>2
<1>3. CASE AdmitsTransition(s, r)
  <2>1. /\ Delta(s, r, e.recorded, pos) = TransitionDelta(s, r, e.recorded, pos)
        /\ r.type # "entity_mention_recorded"
    BY <1>3 DEF AdmitsTransition, Transitions, Delta
  <2>2. QED
    BY <1>3, <2>1, TransitionBeliefRows
<1>4. QED
  BY <1>1, <1>2, <1>3 DEF Admits

\* Tables t have every mention and belief of the tables s, about the same subject.
Extends(s, t) ==
  /\ \A m \in DOMAIN s.links : m \in DOMAIN t.links
  /\ \A b \in DOMAIN s.beliefs :
       b \in DOMAIN t.beliefs /\ t.beliefs[b].subject = s.beliefs[b].subject

LEMMA AppliedBeliefs ==
  ASSUME NEW s, NEW e, NEW pos, Consistent(s)
  PROVE  LET d == Delta(s, e.req, e.recorded, pos)
             t == Apply(s, e, pos)
         IN  /\ \A b : b \in DOMAIN t.beliefs <=> b \in DOMAIN d.beliefs \/ b \in DOMAIN s.beliefs
             /\ \A b \in DOMAIN d.beliefs : t.beliefs[b] = d.beliefs[b]
             /\ \A b \in DOMAIN s.beliefs : b \notin DOMAIN d.beliefs => t.beliefs[b] = s.beliefs[b]
             /\ \A m \in DOMAIN s.links : m \in DOMAIN t.links
<1> DEFINE d == Delta(s, e.req, e.recorded, pos)
           t == Publish(s, d)
<1>1. t.beliefs = Upsert(d.beliefs, s.beliefs) /\ t.links = Upsert(d.links, s.links)
  <2> HIDE DEF d
  <2> QED BY PublishRows DEF Consistent
<1> HIDE DEF t, d
<1>2. /\ \A b : b \in DOMAIN t.beliefs <=> b \in DOMAIN d.beliefs \/ b \in DOMAIN s.beliefs
      /\ \A b \in DOMAIN d.beliefs : t.beliefs[b] = d.beliefs[b]
      /\ \A b \in DOMAIN s.beliefs : b \notin DOMAIN d.beliefs => t.beliefs[b] = s.beliefs[b]
      /\ \A m \in DOMAIN s.links : m \in DOMAIN t.links
  BY <1>1, UpsertRows
<1>3. Apply(s, e, pos) = t
  BY DEF Apply, t, d
<1>4. QED
  BY <1>2, <1>3 DEF d

LEMMA AdmittedExtends ==
  ASSUME NEW v, NEW s, NEW e, NEW pos, Consistent(s), WellFormed(e.req), Admits(v, s, e.req)
  PROVE  Extends(s, Apply(s, e, pos))
<1> DEFINE d == Delta(s, e.req, e.recorded, pos)
           t == Apply(s, e, pos)
<1>1. \A b \in DOMAIN d.beliefs : b \in DOMAIN s.beliefs => d.beliefs[b].subject = s.beliefs[b].subject
  <2>1. BeliefRowsHold(s, d, e.req)
    BY AdmittedWrites
  <2> HIDE DEF d
  <2>2. QED
    BY <2>1 DEF BeliefRowsHold
<1>2. /\ \A b : b \in DOMAIN t.beliefs <=> b \in DOMAIN d.beliefs \/ b \in DOMAIN s.beliefs
      /\ \A b \in DOMAIN d.beliefs : t.beliefs[b] = d.beliefs[b]
      /\ \A b \in DOMAIN s.beliefs : b \notin DOMAIN d.beliefs => t.beliefs[b] = s.beliefs[b]
      /\ \A m \in DOMAIN s.links : m \in DOMAIN t.links
  BY AppliedBeliefs
<1> HIDE DEF d, t
<1>3. Extends(s, t)
  BY <1>1, <1>2 DEF Extends
<1>4. QED
  BY <1>3 DEF t

\* What a replay of admitted entries has recorded stays recorded as it goes on.
LEMMA ReplayExtends ==
  ASSUME NEW l, Len(l) \in Nat, NEW n \in 0..Len(l), AdmittedUpTo(l, n), NEW m \in 0..n
  PROVE  Extends(ReplayOf(l, EmptySnapshot)[m], ReplayOf(l, EmptySnapshot)[n])
<1> DEFINE R   == ReplayOf(l, EmptySnapshot)
           Bad == {k \in Nat : m + k <= n /\ ~Extends(R[m], R[m+k])}
<1>1. \A i \in 1..Len(l) : R[i] = Apply(R[i-1], l[i], i)
  BY ReplaySteps
<1>2. \A i \in 1..n : WellFormed(l[i].req) /\ \E v : Admits(v, R[i-1], l[i].req)
  BY DEF AdmittedUpTo
<1>3. \A i \in 0..n : Consistent(R[i])
  <2>1. ASSUME NEW i \in 0..n PROVE AdmittedUpTo(l, i) /\ i \in 0..Len(l)
    BY DEF AdmittedUpTo
  <2>2. QED
    BY <2>1, ReplayedTables
<1> HIDE DEF R
<1>4. SUFFICES ASSUME Bad # {} PROVE FALSE
  <2>1. n - m \in Nat /\ m + (n - m) = n /\ n <= n
    OBVIOUS
  <2>2. n - m \notin Bad
    BY <1>4
  <2>3. Extends(R[m], R[m+(n-m)])
    BY <2>1, <2>2
  <2>4. QED
    BY <2>1, <2>3 DEF R
<1>5. Bad \in SUBSET Nat
  OBVIOUS
<1>6. PICK k \in Bad : \A j \in Bad : ~(j < k)
  <2> HIDE DEF Bad
  <2> QED BY <1>4, <1>5, Least
<1>7. k # 0
  <2>1. Extends(R[m], R[m+0])
    BY DEF Extends
  <2>2. QED
    BY <2>1
<1>8. /\ k - 1 \in Nat /\ k - 1 < k /\ m + (k - 1) <= n
      /\ m + k \in 1..n /\ m + k \in 1..Len(l) /\ (m + k) - 1 = m + (k - 1)
      /\ m + (k - 1) \in 0..n
  BY <1>6, <1>7
<1>9. Extends(R[m], R[m+(k-1)])
  BY <1>6, <1>8
<1>10. Extends(R[m+(k-1)], R[m+k])
  <2>1. R[m+k] = Apply(R[m+(k-1)], l[m+k], m+k)
    BY <1>1, <1>8
  <2>2. PICK v : Admits(v, R[m+(k-1)], l[m+k].req)
    BY <1>2, <1>8
  <2>3. WellFormed(l[m+k].req) /\ Consistent(R[m+(k-1)])
    BY <1>2, <1>3, <1>8
  <2>4. QED
    BY <2>1, <2>2, <2>3, AdmittedExtends
<1>11. Extends(R[m], R[m+k])
  BY <1>9, <1>10 DEF Extends
<1>12. QED
  BY <1>6, <1>11

-----------------------------------------------------------------------------
(***************************************************************************)
(* Where records come from, in a log without transitions.                  *)
(***************************************************************************)
Plain(r) == r.type \notin Transitions

\* Tables t hold every row of the tables s but beliefs as it was.
Carries(s, t) ==
  /\ \A m \in DOMAIN s.links : m \in DOMAIN t.links /\ t.links[m] = s.links[m]
  /\ \A x \in DOMAIN s.entities : x \in DOMAIN t.entities /\ t.entities[x] = s.entities[x]
  /\ \A id \in DOMAIN s.events : id \in DOMAIN t.events /\ t.events[id] = s.events[id]
  /\ \A c \in DOMAIN s.candidates : c \in DOMAIN t.candidates /\ t.candidates[c] = s.candidates[c]

\* t is s and the mention r.
MentionAdded(s, t, r) ==
  /\ \A m : m \in DOMAIN t.links <=> m = r.body.mention \/ m \in DOMAIN s.links
  /\ t.links[r.body.mention] = [subject |-> r.body.subject, event |-> r.id]
  /\ \A x : x \in DOMAIN t.entities <=> x = r.body.subject \/ x \in DOMAIN s.entities
  /\ t.entities[r.body.subject] = [mention |-> r.body.mention, event |-> r.id]
  /\ \A c : c \in DOMAIN t.candidates <=> c \in DOMAIN s.candidates

\* t is s and the claims of r.
ClaimsAdded(s, t, r) ==
  /\ \A m : m \in DOMAIN t.links <=> m \in DOMAIN s.links
  /\ \A x : x \in DOMAIN t.entities <=> x \in DOMAIN s.entities
  /\ \A c : c \in DOMAIN t.candidates <=> c \in CandidatesOf(r.body.claims) \/ c \in DOMAIN s.candidates
  /\ \A i \in DOMAIN r.body.claims :
       /\ t.candidates[r.body.claims[i].candidate].claim = r.body.claims[i]
       /\ t.candidates[r.body.claims[i].candidate].event = r.id

EventAdded(s, t, r) ==
  /\ \A id : id \in DOMAIN t.events <=> id = r.id \/ id \in DOMAIN s.events
  /\ t.events[r.id] = r

LEMMA RowHolds ==
  ASSUME NEW key, NEW content
  PROVE  /\ \A k : k \in DOMAIN Row(key, content) <=> k = key
         /\ Row(key, content)[key] = content
BY DEF Row

\* One new row joins a table.
LEMMA RowJoins ==
  ASSUME NEW key, NEW content, NEW table, key \notin DOMAIN table
  PROVE  /\ \A k : k \in DOMAIN Upsert(Row(key, content), table) <=> k = key \/ k \in DOMAIN table
         /\ Upsert(Row(key, content), table)[key] = content
         /\ \A k \in DOMAIN table : Upsert(Row(key, content), table)[k] = table[k]
BY RowHolds, UpsertRows

LEMMA PublishEvents ==
  ASSUME NEW s, NEW d, DOMAIN s = TableNames
  PROVE  Publish(s, d).events = Upsert(d.events, s.events)
BY DEF Publish, TableNames

LEMMA DeltaEvents ==
  ASSUME NEW s, NEW r, NEW recorded
  PROVE  /\ MentionDelta(r).events = Row(r.id, r)
         /\ ClaimsDelta(s, r, recorded).events = Row(r.id, r)
BY DEF MentionDelta, ClaimsDelta, NoDelta, EmptySnapshot

LEMMA MentionIsAdded ==
  ASSUME NEW s, NEW r, DOMAIN s = TableNames, AdmitsMention(s, r), r.id \notin DOMAIN s.events
  PROVE  LET t == Publish(s, MentionDelta(r)) IN
         MentionAdded(s, t, r) /\ EventAdded(s, t, r) /\ Carries(s, t)
<1> DEFINE d == MentionDelta(r)
           t == Publish(s, d)
<1>1. /\ d.candidates = NoRows
      /\ d.entities = Row(r.body.subject, [mention |-> r.body.mention, event |-> r.id])
      /\ d.links = Row(r.body.mention, [subject |-> r.body.subject, event |-> r.id])
      /\ d.events = Row(r.id, r)
  BY MentionRows, DeltaEvents
<1> HIDE DEF d
<1>2. /\ t.entities = Upsert(d.entities, s.entities) /\ t.links = Upsert(d.links, s.links)
      /\ t.candidates = Upsert(d.candidates, s.candidates) /\ t.events = Upsert(d.events, s.events)
  BY PublishRows, PublishEvents
<1> HIDE DEF t
<1>3. r.body.mention \notin DOMAIN s.links /\ r.body.subject \notin DOMAIN s.entities
  BY DEF AdmitsMention
<1>4. /\ \A m : m \in DOMAIN t.links <=> m = r.body.mention \/ m \in DOMAIN s.links
      /\ t.links[r.body.mention] = [subject |-> r.body.subject, event |-> r.id]
      /\ \A m \in DOMAIN s.links : t.links[m] = s.links[m]
  BY ONLY <1>1, <1>2, <1>3, RowJoins
<1>5. /\ \A x : x \in DOMAIN t.entities <=> x = r.body.subject \/ x \in DOMAIN s.entities
      /\ t.entities[r.body.subject] = [mention |-> r.body.mention, event |-> r.id]
      /\ \A x \in DOMAIN s.entities : t.entities[x] = s.entities[x]
  BY ONLY <1>1, <1>2, <1>3, RowJoins
<1>6. /\ \A id : id \in DOMAIN t.events <=> id = r.id \/ id \in DOMAIN s.events
      /\ t.events[r.id] = r
      /\ \A id \in DOMAIN s.events : t.events[id] = s.events[id]
  BY <1>1, <1>2, RowJoins
<1>7. DOMAIN t.candidates = DOMAIN s.candidates /\ \A c \in DOMAIN s.candidates : t.candidates[c] = s.candidates[c]
  BY ONLY <1>1, <1>2, UpsertNothing
<1>8. MentionAdded(s, t, r) /\ EventAdded(s, t, r) /\ Carries(s, t)
  BY ONLY <1>4, <1>5, <1>6, <1>7 DEF MentionAdded, EventAdded, Carries
<1>9. QED
  BY <1>8 DEF t, d

LEMMA NewCandidateNames ==
  ASSUME NEW c, NEW r, NEW recorded
  PROVE  NewCandidate(c, r, recorded).claim = c /\ NewCandidate(c, r, recorded).event = r.id
BY DEF NewCandidate

LEMMA ClaimsAreAdded ==
  ASSUME NEW s, NEW r, NEW recorded, DOMAIN s = TableNames, AdmitsClaims(s, r.body.claims),
         r.id \notin DOMAIN s.events
  PROVE  LET t == Publish(s, ClaimsDelta(s, r, recorded)) IN
         ClaimsAdded(s, t, r) /\ EventAdded(s, t, r) /\ Carries(s, t)
<1> DEFINE d == ClaimsDelta(s, r, recorded)
           t == Publish(s, d)
<1>1. d.entities = NoRows /\ d.links = NoRows /\ d.events = Row(r.id, r)
  BY ONLY ClaimsRowsElsewhere, DeltaEvents DEF d
<1>2. ClaimsRecorded(s, t, r, recorded)
  BY ClaimsAreRecorded
<1> HIDE DEF d
<1>3. /\ t.entities = Upsert(d.entities, s.entities) /\ t.links = Upsert(d.links, s.links)
      /\ t.events = Upsert(d.events, s.events)
  BY PublishRows, PublishEvents
<1> HIDE DEF t
<1>4. DOMAIN t.links = DOMAIN s.links /\ \A m \in DOMAIN s.links : t.links[m] = s.links[m]
  BY ONLY <1>1, <1>3, UpsertNothing
<1>5. DOMAIN t.entities = DOMAIN s.entities /\ \A x \in DOMAIN s.entities : t.entities[x] = s.entities[x]
  BY ONLY <1>1, <1>3, UpsertNothing
<1>6. /\ \A id : id \in DOMAIN t.events <=> id = r.id \/ id \in DOMAIN s.events
      /\ t.events[r.id] = r
      /\ \A id \in DOMAIN s.events : t.events[id] = s.events[id]
  BY <1>1, <1>3, RowJoins
<1>7. /\ \A c : c \in DOMAIN t.candidates <=> c \in CandidatesOf(r.body.claims) \/ c \in DOMAIN s.candidates
      /\ \A c \in DOMAIN s.candidates : c \notin CandidatesOf(r.body.claims) => t.candidates[c] = s.candidates[c]
  BY <1>2 DEF ClaimsRecorded
<1>8. ASSUME NEW i \in DOMAIN r.body.claims
      PROVE  /\ t.candidates[r.body.claims[i].candidate].claim = r.body.claims[i]
             /\ t.candidates[r.body.claims[i].candidate].event = r.id
  <2>1. t.candidates[r.body.claims[i].candidate] = NewCandidate(r.body.claims[i], r, recorded)
    BY <1>2 DEF ClaimsRecorded
  <2>2. QED
    BY ONLY <2>1, NewCandidateNames
<1>9. \A c \in DOMAIN s.candidates : c \notin CandidatesOf(r.body.claims)
  BY DEF AdmitsClaims, AdmitsClaim, CandidatesOf
<1>10. ClaimsAdded(s, t, r) /\ EventAdded(s, t, r) /\ Carries(s, t)
  BY ONLY <1>4, <1>5, <1>6, <1>7, <1>8, <1>9 DEF ClaimsAdded, EventAdded, Carries
<1>11. QED
  BY <1>10 DEF t, d

LEMMA PlainAdds ==
  ASSUME NEW v, NEW s, NEW e, NEW pos, DOMAIN s = TableNames, Admits(v, s, e.req), Plain(e.req)
  PROVE  /\ EventAdded(s, Apply(s, e, pos), e.req)
         /\ Carries(s, Apply(s, e, pos))
         /\ \/ e.req.type = "entity_mention_recorded" /\ MentionAdded(s, Apply(s, e, pos), e.req)
            \/ e.req.type = "observation_recorded" /\ ClaimsAdded(s, Apply(s, e, pos), e.req)
<1>1. e.req.id \notin DOMAIN s.events
  BY DEF Admits
<1>2. CASE AdmitsMention(s, e.req) /\ Apply(s, e, pos) = Publish(s, MentionDelta(e.req))
  BY <1>1, <1>2, MentionIsAdded DEF AdmitsMention
<1>3. CASE AdmitsObservation(s, e.req) /\ Apply(s, e, pos) = Publish(s, ClaimsDelta(s, e.req, e.recorded))
  BY <1>1, <1>3, ClaimsAreAdded DEF AdmitsObservation
<1>4. ~AdmitsTransition(s, e.req)
  BY DEF AdmitsTransition, Plain
<1>5. QED
  BY <1>2, <1>3, <1>4, DeltaOf

-----------------------------------------------------------------------------
\* The first n entries of l and the tables s say the same: every row names the entry it
\* comes from, every entry has its rows, and a mention and its subject belong together.
EventsSourced(s, l, n) ==
  /\ \A id \in DOMAIN s.events : \E i \in 1..n : l[i].req = s.events[id] /\ l[i].req.id = id
  /\ \A i \in 1..n : l[i].req.id \in DOMAIN s.events /\ s.events[l[i].req.id] = l[i].req

MentionsSourced(s, l, n) ==
  /\ \A m \in DOMAIN s.links :
       /\ s.links[m].event \in DOMAIN s.events
       /\ s.links[m].subject \in DOMAIN s.entities
       /\ s.entities[s.links[m].subject] = [mention |-> m, event |-> s.links[m].event]
  /\ \A i \in 1..n : l[i].req.type = "entity_mention_recorded" =>
       /\ l[i].req.body.mention \in DOMAIN s.links
       /\ s.links[l[i].req.body.mention] = [subject |-> l[i].req.body.subject, event |-> l[i].req.id]

IsClaimOf(row, c, r) ==
  r.type = "observation_recorded" /\ row.event = r.id /\
  \E k \in DOMAIN r.body.claims : r.body.claims[k] = row.claim /\ r.body.claims[k].candidate = c

ClaimsSourced(s, l, n) ==
  /\ \A c \in DOMAIN s.candidates : \E i \in 1..n : IsClaimOf(s.candidates[c], c, l[i].req)
  /\ \A i \in 1..n : \A k \in DOMAIN l[i].req.body.claims :
       /\ l[i].req.body.claims[k].candidate \in DOMAIN s.candidates
       /\ s.candidates[l[i].req.body.claims[k].candidate].claim = l[i].req.body.claims[k]
       /\ s.candidates[l[i].req.body.claims[k].candidate].event = l[i].req.id

Sourced(s, l, n) == EventsSourced(s, l, n) /\ MentionsSourced(s, l, n) /\ ClaimsSourced(s, l, n)

LEMMA NothingSourced ==
  ASSUME NEW l
  PROVE  Sourced(EmptySnapshot, l, 0)
<1>1. /\ \A x : x \notin DOMAIN EmptySnapshot.events
      /\ \A x : x \notin DOMAIN EmptySnapshot.links
      /\ \A x : x \notin DOMAIN EmptySnapshot.candidates
  BY DEF EmptySnapshot, NoRows
<1>2. QED
  BY <1>1 DEF Sourced, EventsSourced, MentionsSourced, ClaimsSourced

LEMMA PlainSourced ==
  ASSUME NEW s, NEW t, NEW l, NEW n \in Nat, n >= 1, Sourced(s, l, n-1), NEW r, r = l[n].req, WellFormed(r),
         EventAdded(s, t, r), Carries(s, t),
         \/ r.type = "entity_mention_recorded" /\ MentionAdded(s, t, r) /\ r.body.subject \notin DOMAIN s.entities
         \/ r.type = "observation_recorded" /\ ClaimsAdded(s, t, r)
  PROVE  Sourced(t, l, n)
<1>1. EventsSourced(s, l, n-1) /\ MentionsSourced(s, l, n-1) /\ ClaimsSourced(s, l, n-1)
  BY DEF Sourced
<1>2. n \in 1..n /\ \A i \in 1..(n-1) : i \in 1..n
  OBVIOUS
<1>3. \A i \in 1..n : i = n \/ i \in 1..(n-1)
  OBVIOUS
<1>4. EventsSourced(t, l, n)
  <2>1. ASSUME NEW id \in DOMAIN t.events PROVE \E i \in 1..n : l[i].req = t.events[id] /\ l[i].req.id = id
    <3>1. CASE id = r.id
      BY <1>2, <3>1 DEF EventAdded
    <3>2. CASE id \in DOMAIN s.events
      BY <1>1, <1>2, <3>2 DEF EventsSourced, Carries
    <3>3. QED
      BY <3>1, <3>2 DEF EventAdded
  <2>2. ASSUME NEW i \in 1..n PROVE l[i].req.id \in DOMAIN t.events /\ t.events[l[i].req.id] = l[i].req
    <3>1. CASE i = n
      BY <3>1 DEF EventAdded
    <3>2. CASE i \in 1..(n-1)
      BY <1>1, <3>2 DEF EventsSourced, Carries
    <3>3. QED
      BY <1>3, <3>1, <3>2
  <2>3. QED
    BY <2>1, <2>2 DEF EventsSourced
<1>5. MentionsSourced(t, l, n)
  <2>1. ASSUME NEW m \in DOMAIN t.links
        PROVE  /\ t.links[m].event \in DOMAIN t.events
               /\ t.links[m].subject \in DOMAIN t.entities
               /\ t.entities[t.links[m].subject] = [mention |-> m, event |-> t.links[m].event]
    <3>1. CASE m \in DOMAIN s.links
      BY <1>1, <3>1 DEF MentionsSourced, Carries
    <3>2. CASE m \notin DOMAIN s.links
      <4>1. MentionAdded(s, t, r) /\ m = r.body.mention
        BY <2>1, <3>2 DEF MentionAdded, ClaimsAdded
      <4>2. t.links[m] = [subject |-> r.body.subject, event |-> r.id]
        BY ONLY <4>1 DEF MentionAdded
      <4>3. t.entities[r.body.subject] = [mention |-> m, event |-> r.id] /\ r.body.subject \in DOMAIN t.entities
        BY ONLY <4>1 DEF MentionAdded
      <4>4. r.id \in DOMAIN t.events
        BY DEF EventAdded
      <4>5. t.links[m].subject = r.body.subject /\ t.links[m].event = r.id
        BY ONLY <4>2
      <4>6. QED
        BY ONLY <4>3, <4>4, <4>5
    <3>3. QED
      BY <3>1, <3>2
  <2>2. ASSUME NEW i \in 1..n, l[i].req.type = "entity_mention_recorded"
        PROVE  /\ l[i].req.body.mention \in DOMAIN t.links
               /\ t.links[l[i].req.body.mention] = [subject |-> l[i].req.body.subject, event |-> l[i].req.id]
    <3>1. CASE i = n
      BY <2>2, <3>1 DEF MentionAdded
    <3>2. CASE i \in 1..(n-1)
      BY <1>1, <2>2, <3>2 DEF MentionsSourced, Carries
    <3>3. QED
      BY <1>3, <3>1, <3>2
  <2>3. QED
    BY <2>1, <2>2 DEF MentionsSourced
<1>6. ClaimsSourced(t, l, n)
  <2>1. ASSUME NEW c \in DOMAIN t.candidates PROVE \E i \in 1..n : IsClaimOf(t.candidates[c], c, l[i].req)
    <3>1. CASE c \in DOMAIN s.candidates
      BY <1>1, <1>2, <3>1 DEF ClaimsSourced, Carries
    <3>2. CASE c \notin DOMAIN s.candidates
      <4>1. ClaimsAdded(s, t, r) /\ c \in CandidatesOf(r.body.claims) /\ r.type = "observation_recorded"
        BY <2>1, <3>2 DEF MentionAdded, ClaimsAdded
      <4>2. PICK k \in DOMAIN r.body.claims : c = r.body.claims[k].candidate
        BY <4>1 DEF CandidatesOf
      <4>3. IsClaimOf(t.candidates[c], c, r)
        BY <4>1, <4>2 DEF IsClaimOf, ClaimsAdded
      <4>4. QED
        BY <1>2, <4>3
    <3>3. QED
      BY <3>1, <3>2
  <2>2. ASSUME NEW i \in 1..n, NEW k \in DOMAIN l[i].req.body.claims
        PROVE  /\ l[i].req.body.claims[k].candidate \in DOMAIN t.candidates
               /\ t.candidates[l[i].req.body.claims[k].candidate].claim = l[i].req.body.claims[k]
               /\ t.candidates[l[i].req.body.claims[k].candidate].event = l[i].req.id
    <3>1. CASE i \in 1..(n-1)
      <4> DEFINE c == l[i].req.body.claims[k].candidate
      <4>1. /\ c \in DOMAIN s.candidates
            /\ s.candidates[c].claim = l[i].req.body.claims[k]
            /\ s.candidates[c].event = l[i].req.id
        BY <1>1, <3>1 DEF ClaimsSourced
      <4> HIDE DEF c
      <4>2. c \in DOMAIN t.candidates /\ t.candidates[c] = s.candidates[c]
        BY <4>1 DEF Carries
      <4>3. QED
        BY ONLY <4>1, <4>2 DEF c
    <3>2. CASE i = n
      <4>1. CASE r.type = "entity_mention_recorded"
        <5>1. r.body.claims = <<>>
          BY <4>1 DEF WellFormed
        <5>2. QED
          BY <2>2, <3>2, <5>1
      <4>2. CASE ClaimsAdded(s, t, r)
        BY <2>2, <3>2, <4>2 DEF ClaimsAdded, CandidatesOf
      <4>3. QED
        BY <4>1, <4>2
    <3>3. QED
      BY <1>3, <3>1, <3>2
  <2>3. QED
    BY <2>1, <2>2 DEF ClaimsSourced
<1>7. QED
  BY <1>4, <1>5, <1>6 DEF Sourced

\* The first n entries are no transitions.
PlainUpTo(l, n) == \A i \in 1..n : Plain(l[i].req)

LEMMA PlainStep ==
  ASSUME NEW l, Len(l) \in Nat, NEW n \in 1..Len(l), AdmittedUpTo(l, n), PlainUpTo(l, n)
  PROVE  LET s == ReplayOf(l, EmptySnapshot)[n-1]  t == ReplayOf(l, EmptySnapshot)[n] IN
         /\ Carries(s, t)
         /\ Sourced(s, l, n-1) => Sourced(t, l, n)
<1> DEFINE s == ReplayOf(l, EmptySnapshot)[n-1]
           t == ReplayOf(l, EmptySnapshot)[n]
<1>1. t = Apply(s, l[n], n)
  BY ReplaySteps
<1>2. n - 1 \in 0..Len(l) /\ n \in Nat /\ n >= 1 /\ n \in 1..n
  OBVIOUS
<1>3. AdmittedUpTo(l, n-1)
  BY DEF AdmittedUpTo
<1>4. DOMAIN s = TableNames
  BY <1>2, <1>3, ReplayedTables DEF Consistent
<1>5. WellFormed(l[n].req) /\ Plain(l[n].req)
  BY <1>2 DEF AdmittedUpTo, PlainUpTo
<1>6. PICK v : Admits(v, s, l[n].req)
  BY <1>2 DEF AdmittedUpTo
<1> HIDE DEF s, t
<1>7. /\ EventAdded(s, t, l[n].req)
      /\ Carries(s, t)
      /\ \/ l[n].req.type = "entity_mention_recorded" /\ MentionAdded(s, t, l[n].req)
         \/ l[n].req.type = "observation_recorded" /\ ClaimsAdded(s, t, l[n].req)
  BY <1>1, <1>4, <1>5, <1>6, PlainAdds
<1>8. l[n].req.type = "entity_mention_recorded" => l[n].req.body.subject \notin DOMAIN s.entities
  BY <1>6 DEF Admits, AdmitsMention, AdmitsObservation, AdmitsTransition, Transitions
<1>9. Sourced(s, l, n-1) => Sourced(t, l, n)
  <2>1. SUFFICES ASSUME Sourced(s, l, n-1) PROVE Sourced(t, l, n)
    OBVIOUS
  <2> DEFINE r == l[n].req
  <2>2. r = l[n].req
    OBVIOUS
  <2>3. /\ WellFormed(r) /\ EventAdded(s, t, r) /\ Carries(s, t)
        /\ \/ r.type = "entity_mention_recorded" /\ MentionAdded(s, t, r) /\ r.body.subject \notin DOMAIN s.entities
           \/ r.type = "observation_recorded" /\ ClaimsAdded(s, t, r)
    BY ONLY <1>5, <1>7, <1>8
  <2> HIDE DEF r
  <2>4. QED
    BY ONLY <1>2, <2>1, <2>2, <2>3, PlainSourced
<1>10. QED
  BY <1>7, <1>9 DEF s, t

\* Whatever a replay of ordinary events holds names the entry it comes from.
LEMMA ReplaySourced ==
  ASSUME NEW l, Len(l) \in Nat, NEW n \in 0..Len(l), AdmittedUpTo(l, n), PlainUpTo(l, n)
  PROVE  Sourced(ReplayOf(l, EmptySnapshot)[n], l, n)
<1> DEFINE R   == ReplayOf(l, EmptySnapshot)
           Bad == {k \in 0..n : ~Sourced(R[k], l, k)}
<1>1. Sourced(R[0], l, 0)
  BY ReplaySteps, NothingSourced
<1>2. ASSUME NEW k \in 1..n, Sourced(R[k-1], l, k-1) PROVE Sourced(R[k], l, k)
  <2>1. k \in 1..Len(l) /\ AdmittedUpTo(l, k) /\ PlainUpTo(l, k)
    BY DEF AdmittedUpTo, PlainUpTo
  <2>2. QED
    BY <1>2, <2>1, PlainStep
<1> HIDE DEF R
<1>3. SUFFICES ASSUME Bad # {} PROVE FALSE
  BY DEF R
<1>4. Bad \in SUBSET Nat
  OBVIOUS
<1>5. PICK m \in Bad : \A k \in Bad : ~(k < m)
  <2> HIDE DEF Bad
  <2> QED BY <1>3, <1>4, Least
<1>6. m \in 1..n /\ m - 1 \in 0..n /\ m - 1 < m
  BY <1>1
<1>7. Sourced(R[m-1], l, m-1)
  BY <1>5, <1>6
<1>8. QED
  BY <1>2, <1>6, <1>7

LEMMA CarriesOn ==
  ASSUME NEW s, NEW t, NEW u, Carries(s, t), Carries(t, u)
  PROVE  Carries(s, u)
BY DEF Carries

\* A replay of ordinary events never changes a row of a record but a belief's.
LEMMA ReplayCarries ==
  ASSUME NEW l, Len(l) \in Nat, NEW n \in 0..Len(l), AdmittedUpTo(l, n), PlainUpTo(l, n), NEW m \in 0..n
  PROVE  Carries(ReplayOf(l, EmptySnapshot)[m], ReplayOf(l, EmptySnapshot)[n])
<1> DEFINE R   == ReplayOf(l, EmptySnapshot)
           Bad == {k \in Nat : m + k <= n /\ ~Carries(R[m], R[m+k])}
<1>1. ASSUME NEW k \in 1..n PROVE Carries(R[k-1], R[k])
  <2>1. k \in 1..Len(l) /\ AdmittedUpTo(l, k) /\ PlainUpTo(l, k)
    BY DEF AdmittedUpTo, PlainUpTo
  <2>2. QED
    BY <2>1, PlainStep
<1> HIDE DEF R
<1>2. SUFFICES ASSUME Bad # {} PROVE FALSE
  <2>1. n - m \in Nat /\ m + (n - m) = n /\ n <= n
    OBVIOUS
  <2>2. n - m \notin Bad
    BY <1>2
  <2>3. Carries(R[m], R[m+(n-m)])
    BY <2>1, <2>2
  <2>4. QED
    BY <2>1, <2>3 DEF R
<1>3. Bad \in SUBSET Nat
  OBVIOUS
<1>4. PICK k \in Bad : \A j \in Bad : ~(j < k)
  <2> HIDE DEF Bad
  <2> QED BY <1>2, <1>3, Least
<1>5. k # 0
  <2>1. Carries(R[m], R[m])
    BY DEF Carries
  <2>2. m + 0 = m
    OBVIOUS
  <2>3. QED
    BY <2>1, <2>2
<1>6. k - 1 \in Nat /\ k - 1 < k /\ m + (k - 1) <= n /\ m + k \in 1..n /\ m + (k - 1) = (m + k) - 1
  BY <1>5
<1>7. Carries(R[m], R[m+(k-1)])
  BY <1>4, <1>6
<1>8. Carries(R[m+(k-1)], R[m+k])
  BY <1>1, <1>6
<1>9. QED
  BY <1>4, <1>7, <1>8, CarriesOn
=============================================================================
