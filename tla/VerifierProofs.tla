---------------------------- MODULE VerifierProofs ----------------------------
(***************************************************************************)
(* The independent verifier finds nothing wrong with any store that its    *)
(* own sessions wrote, for every set of requests: CleanStoreAudits.        *)
(*                                                                         *)
(* The verifier reassembles the records claim by claim, without the        *)
(* shipped reducer.  First, its replay of any entry that the reducer       *)
(* admits is what the reducer publishes (EntryReplays), so that its        *)
(* reconstruction of a log is the reducer's replay (ReconstructionIs).     *)
(* Then the checks of a verified log hold (LogPasses), and the freshness   *)
(* rows that sessions keep append by append are those it rebuilds from the *)
(* whole log (ExactGrows).  An audit of a disk on which all of this holds  *)
(* is clean (ReadyIsClean); the invariant AuditInv says that it holds of   *)
(* every store.                                                            *)
(*                                                                         *)
(* The last part is about the store transition, which audits a copy that   *)
(* it has rebuilt, and proves it: ProvenCopyIsComplete, RebuiltCopyAudits. *)
(***************************************************************************)
EXTENDS Transition, StoreProofs, FiniteSetTheorems

-----------------------------------------------------------------------------
(***************************************************************************)
(* Tables as functions.                                                    *)
(***************************************************************************)
IsTable(f) == f = [k \in DOMAIN f |-> f[k]]

\* The tables of a snapshot, each a function, with the beliefs' own tables.
Tabular(s) ==
  /\ IsTable(s) /\ DOMAIN s = TableNames
  /\ \A t \in TableNames : IsTable(s[t])
  /\ \A b \in DOMAIN s.beliefs : IsTable(s.beliefs[b])

\* Two tables with the same rows are the same.
LEMMA SameTable ==
  ASSUME NEW f, NEW g, IsTable(f), IsTable(g),
         \A k : k \in DOMAIN f <=> k \in DOMAIN g,
         \A k \in DOMAIN f : f[k] = g[k]
  PROVE  f = g
<1>1. DOMAIN f = DOMAIN g
  OBVIOUS
<1>2. [k \in DOMAIN f |-> f[k]] = [k \in DOMAIN g |-> g[k]]
  BY <1>1
<1>3. QED
  BY <1>2 DEF IsTable

\* Writing rows gives a table, and writing to none gives the rows.
LEMMA UpsertTable == \A rows, table : IsTable(Upsert(rows, table))
BY DEF Upsert, IsTable

\* Writing no rows changes nothing.
LEMMA UpsertNone ==
  ASSUME NEW table, IsTable(table)
  PROVE  Upsert(NoRows, table) = table
<1>1. DOMAIN Upsert(NoRows, table) = DOMAIN table
      /\ \A k \in DOMAIN table : Upsert(NoRows, table)[k] = table[k]
  BY UpsertNothing
<1>2. IsTable(Upsert(NoRows, table))
  BY UpsertTable
<1>3. QED
  BY <1>1, <1>2, SameTable

\* Two snapshots with the same tables are the same.
LEMMA SameSnapshot ==
  ASSUME NEW s, NEW t, IsTable(s), IsTable(t), DOMAIN s = TableNames, DOMAIN t = TableNames,
         s.entities = t.entities, s.links = t.links, s.beliefs = t.beliefs,
         s.candidates = t.candidates, s.events = t.events, s.relations = t.relations
  PROVE  s = t
<1>1. \A k \in TableNames : s[k] = t[k]
  BY DEF TableNames
<1>2. QED
  BY <1>1, SameTable

\* The fields of a belief's row.
LEMMA SameBelief ==
  ASSUME NEW s, NEW t, IsTable(s), IsTable(t), DOMAIN s = BeliefFields, DOMAIN t = BeliefFields,
         s.subject = t.subject, s.property = t.property, s.candidates = t.candidates,
         s.identity = t.identity, s.dependencies = t.dependencies, s.lineage = t.lineage
  PROVE  s = t
<1>1. \A k \in BeliefFields : s[k] = t[k]
  BY DEF BeliefFields
<1>2. QED
  BY <1>1, SameTable

-----------------------------------------------------------------------------
(***************************************************************************)
(* The verifier's replay of the claims of one event.                       *)
(***************************************************************************)
IsClaimRun(f, start, r, recorded, claims, n) ==
  f = [i \in 0..n |-> IF i = 0 THEN start ELSE RecordsWithClaim(f[i-1], r, recorded, claims[i])]

\* There is a run of the claims, and it is RecordsByClaim.
LEMMA ClaimRunExists ==
  ASSUME NEW start, NEW r, NEW recorded, NEW claims, NEW n \in Nat
  PROVE  \E f : IsClaimRun(f, start, r, recorded, claims, n)
<1> DEFINE Bad == {k \in Nat : ~\E f : IsClaimRun(f, start, r, recorded, claims, k)}
<1>1. SUFFICES ASSUME Bad # {} PROVE FALSE
  OBVIOUS
<1>2. Bad \in SUBSET Nat
  OBVIOUS
<1>3. PICK m \in Bad : \A k \in Bad : ~(k < m)
  <2> HIDE DEF Bad
  <2> QED BY <1>1, <1>2, Least
<1>4. m # 0
  <2> DEFINE f == [i \in 0..0 |-> start]
  <2>1. IsClaimRun(f, start, r, recorded, claims, 0)
    BY DEF IsClaimRun
  <2> QED BY <2>1
<1>5. m - 1 \in Nat /\ m - 1 \notin Bad
  BY <1>3, <1>4
<1>6. PICK f : IsClaimRun(f, start, r, recorded, claims, m - 1)
  BY <1>5
<1> DEFINE g == [i \in 0..m |-> IF i = 0 THEN start ELSE RecordsWithClaim(f[i-1], r, recorded, claims[i])]
<1>7. ASSUME NEW i \in 0..m, i # 0 PROVE g[i-1] = f[i-1]
  BY <1>4, <1>6, <1>7 DEF IsClaimRun
<1>8. IsClaimRun(g, start, r, recorded, claims, m)
  BY <1>7 DEF IsClaimRun
<1>9. QED
  BY <1>8

\* What RecordsByClaim has after each claim.
LEMMA ClaimSteps ==
  ASSUME NEW s, NEW r, NEW recorded, Len(r.body.claims) \in Nat
  PROVE  /\ RecordsByClaim(s, r, recorded)[0] = {s}
         /\ \A i \in 1..Len(r.body.claims) :
              RecordsByClaim(s, r, recorded)[i]
                = RecordsWithClaim(RecordsByClaim(s, r, recorded)[i-1], r, recorded, r.body.claims[i])
<1> DEFINE claims == r.body.claims
           run    == RecordsByClaim(s, r, recorded)
           start  == {s}
<1>1. run = CHOOSE f : IsClaimRun(f, start, r, recorded, claims, Len(claims))
  BY DEF RecordsByClaim, IsClaimRun
<1> HIDE DEF claims, run, start
<1>2. Len(claims) \in Nat
  BY DEF claims
<1>3. IsClaimRun(run, start, r, recorded, claims, Len(claims))
  BY <1>1, <1>2, ClaimRunExists
<1>4. run[0] = start /\ \A i \in 1..Len(claims) : run[i] = RecordsWithClaim(run[i-1], r, recorded, claims[i])
  BY <1>2, <1>3 DEF IsClaimRun
<1>5. QED
  BY <1>4 DEF run, claims, start

\* The row of belief b that the claims `mine` build on.
PriorRow(s, claims, mine, b) ==
  IF b \in DOMAIN s.beliefs THEN s.beliefs[b] ELSE NewBelief(claims[CHOOSE i \in mine : TRUE])

MineOf(claims, b, n) == {i \in 1..n : claims[i].belief = b}

\* The identity records and the events of the claims `mine`.
MentionsOf(claims, mine) == {claims[i].mention : i \in mine}
LinksOf(s, claims, mine) == {s.links[claims[i].mention].event : i \in mine}

\* The row of belief b after the first n claims, but for its lineage.
RowWithClaims(s, r, recorded, b, n) ==
  LET claims == r.body.claims
      mine   == MineOf(claims, b, n)
  IN  [PriorRow(s, claims, mine, b) EXCEPT
         !.candidates   = Upsert(CandidateRows(claims, mine, r, recorded), @),
         !.identity     = @ \cup MentionsOf(claims, mine),
         !.dependencies = @ \cup {r.id} \cup LinksOf(s, claims, mine)]

BeliefsWithClaims(s, r, recorded, claims, n) ==
  [b \in {claims[i].belief : i \in 1..n} |-> RowWithClaims(s, r, recorded, b, n)]

\* The records s with the first n claims of r recorded.
WithClaims(s, r, recorded, n) ==
  LET claims == r.body.claims IN
  [s EXCEPT
     !.candidates = Upsert(CandidateRows(claims, 1..n, r, recorded), @),
     !.beliefs    = Upsert(BeliefsWithClaims(s, r, recorded, claims, n), @)]

\* The tables that recording claims changes.
LEMMA WithClaimsTables ==
  ASSUME NEW s, NEW r, NEW recorded, NEW n, NEW t0, NEW claims, DOMAIN s = TableNames,
         claims = r.body.claims, t0 = WithClaims(s, r, recorded, n)
  PROVE  /\ IsTable(t0) /\ DOMAIN t0 = TableNames
         /\ t0.entities = s.entities /\ t0.links = s.links
         /\ t0.events = s.events /\ t0.relations = s.relations
         /\ t0.candidates = Upsert(CandidateRows(claims, 1..n, r, recorded), s.candidates)
         /\ t0.beliefs = Upsert(BeliefsWithClaims(s, r, recorded, claims, n), s.beliefs)
<1> DEFINE cs == Upsert(CandidateRows(claims, 1..n, r, recorded), s.candidates)
           bs == Upsert(BeliefsWithClaims(s, r, recorded, claims, n), s.beliefs)
           t  == [s EXCEPT !.candidates = cs, !.beliefs = bs]
<1>1. t0 = t
  BY DEF WithClaims
<1> HIDE DEF cs, bs
<1>2. /\ IsTable(t) /\ DOMAIN t = TableNames
      /\ t.entities = s.entities /\ t.links = s.links
      /\ t.events = s.events /\ t.relations = s.relations
      /\ t.candidates = cs /\ t.beliefs = bs
  BY DEF TableNames, IsTable
<1>3. QED
  BY <1>1, <1>2 DEF cs, bs

\* The claims of an admitted event, on tables that are functions.
ClaimsReady(s, claims) ==
  /\ Tabular(s)
  /\ \A b \in DOMAIN s.beliefs : DOMAIN s.beliefs[b] = BeliefFields
  /\ Len(claims) \in Nat /\ DOMAIN claims = 1..Len(claims)
  /\ AdmitsClaims(s, claims)

\* A new belief's row.
LEMMA NewBeliefFields ==
  ASSUME NEW c
  PROVE  /\ IsTable(NewBelief(c)) /\ DOMAIN NewBelief(c) = BeliefFields
         /\ NewBelief(c).subject = c.subject /\ NewBelief(c).property = c.property
BY DEF NewBelief, IsTable, BeliefFields

\* The row that the claims of a belief build on has the fields of one, with its tables functions.
LEMMA PriorIs ==
  ASSUME NEW s, NEW claims, NEW mine, NEW b, NEW k, ClaimsReady(s, claims), k \in mine,
         \A i \in mine : i \in DOMAIN claims /\ claims[i].belief = b
  PROVE  /\ b \in DOMAIN s.beliefs => PriorRow(s, claims, mine, b) = s.beliefs[b]
         /\ b \notin DOMAIN s.beliefs => PriorRow(s, claims, mine, b) = NewBelief(claims[k])
         /\ IsTable(PriorRow(s, claims, mine, b))
         /\ DOMAIN PriorRow(s, claims, mine, b) = BeliefFields
         /\ ScopeOf(PriorRow(s, claims, mine, b)) = ScopeOf(claims[k])
<1>1. CASE b \in DOMAIN s.beliefs
  <2>1. PriorRow(s, claims, mine, b) = s.beliefs[b]
    BY <1>1 DEF PriorRow
  <2>2. ScopeOf(s.beliefs[b]) = ScopeOf(claims[k])
    BY <1>1 DEF ClaimsReady, AdmitsClaims, AdmitsClaim
  <2>3. QED
    BY <1>1, <2>1, <2>2 DEF ClaimsReady, Tabular
<1>2. CASE b \notin DOMAIN s.beliefs
  <2> DEFINE j == CHOOSE i \in mine : TRUE
  <2>1. j \in mine
    OBVIOUS
  <2>2. PriorRow(s, claims, mine, b) = NewBelief(claims[j])
    BY <1>2 DEF PriorRow
  <2> HIDE DEF j
  <2>3. ScopeOf(claims[j]) = ScopeOf(claims[k])
    BY <2>1 DEF ClaimsReady, AdmitsClaims
  <2>4. claims[j].subject = claims[k].subject /\ claims[j].property = claims[k].property
    BY <2>3 DEF ScopeOf
  <2>5. NewBelief(claims[j]) = NewBelief(claims[k])
    BY <2>4 DEF NewBelief
  <2>6. QED
    BY <1>2, <2>2, <2>5, NewBeliefFields DEF ScopeOf
<1>3. QED
  BY <1>1, <1>2

\* The fields of a row of RowWithClaims.
LEMMA RowWithClaimsFields ==
  ASSUME NEW s, NEW r, NEW recorded, NEW b, NEW n, NEW claims, NEW mine, NEW prior, NEW row,
         claims = r.body.claims, mine = MineOf(claims, b, n), prior = PriorRow(s, claims, mine, b),
         row = RowWithClaims(s, r, recorded, b, n), IsTable(prior), DOMAIN prior = BeliefFields
  PROVE  /\ IsTable(row) /\ DOMAIN row = BeliefFields
         /\ row.subject = prior.subject /\ row.property = prior.property /\ row.lineage = prior.lineage
         /\ row.candidates = Upsert(CandidateRows(claims, mine, r, recorded), prior.candidates)
         /\ row.identity = prior.identity \cup MentionsOf(claims, mine)
         /\ row.dependencies = prior.dependencies \cup {r.id} \cup LinksOf(s, claims, mine)
<1> DEFINE cs   == Upsert(CandidateRows(claims, mine, r, recorded), prior.candidates)
           ids  == prior.identity \cup MentionsOf(claims, mine)
           deps == prior.dependencies \cup {r.id} \cup LinksOf(s, claims, mine)
<1>1. row = [prior EXCEPT !.candidates = cs, !.identity = ids, !.dependencies = deps]
  BY DEF RowWithClaims
<1> HIDE DEF cs, ids, deps
<1>2. /\ IsTable(row) /\ DOMAIN row = BeliefFields
      /\ row.subject = prior.subject /\ row.property = prior.property /\ row.lineage = prior.lineage
      /\ row.candidates = cs /\ row.identity = ids /\ row.dependencies = deps
  BY ONLY <1>1, IsTable(prior), DOMAIN prior = BeliefFields DEF BeliefFields, IsTable
<1>3. QED
  BY <1>2 DEF cs, ids, deps

\* The claims of a belief among the first n.
LEMMA MineFacts ==
  ASSUME NEW claims, NEW b, NEW n \in 1..Len(claims), Len(claims) \in Nat, DOMAIN claims = 1..Len(claims)
  PROVE  \A i : i \in MineOf(claims, b, n) <=> i \in 1..n /\ claims[i].belief = b
BY DEF MineOf

\* J is I and one more claim, and the claims of J have different candidates.
OneMore(claims, I, J, n) ==
  /\ \A i : i \in J <=> i \in I \/ i = n
  /\ \A i, j \in J : claims[i].candidate = claims[j].candidate => i = j
  /\ n \notin I

\* One more candidate row over the rows of the claims in I.
LEMMA OneMoreCandidate ==
  ASSUME NEW claims, NEW I, NEW J, NEW n, NEW r, NEW recorded, NEW table, OneMore(claims, I, J, n)
  PROVE  Upsert(Row(claims[n].candidate, NewCandidate(claims[n], r, recorded)),
                Upsert(CandidateRows(claims, I, r, recorded), table))
           = Upsert(CandidateRows(claims, J, r, recorded), table)
<1> DEFINE less == CandidateRows(claims, I, r, recorded)
           more == CandidateRows(claims, J, r, recorded)
           c    == claims[n].candidate
           one  == Row(c, NewCandidate(claims[n], r, recorded))
           low  == Upsert(less, table)
           f    == Upsert(one, low)
           g    == Upsert(more, table)
<1>1. /\ \A k : k \in DOMAIN less <=> \E i \in I : k = claims[i].candidate
      /\ \A i \in I : less[claims[i].candidate] = NewCandidate(claims[i], r, recorded)
  BY CandidateRowsHold DEF OneMore
<1>2. /\ \A k : k \in DOMAIN more <=> \E i \in J : k = claims[i].candidate
      /\ \A i \in J : more[claims[i].candidate] = NewCandidate(claims[i], r, recorded)
  BY CandidateRowsHold DEF OneMore
<1>3. (\A k : k \in DOMAIN one <=> k = c) /\ one[c] = NewCandidate(claims[n], r, recorded)
  BY DEF Row
<1> HIDE DEF less, more, one
<1>4. /\ \A k : k \in DOMAIN low <=> k \in DOMAIN less \/ k \in DOMAIN table
      /\ \A k \in DOMAIN less : low[k] = less[k]
      /\ \A k \in DOMAIN table : k \notin DOMAIN less => low[k] = table[k]
  BY UpsertRows
<1>5. /\ \A k : k \in DOMAIN g <=> k \in DOMAIN more \/ k \in DOMAIN table
      /\ \A k \in DOMAIN more : g[k] = more[k]
      /\ \A k \in DOMAIN table : k \notin DOMAIN more => g[k] = table[k]
  BY UpsertRows
<1> HIDE DEF low, g
<1>6. /\ \A k : k \in DOMAIN f <=> k \in DOMAIN one \/ k \in DOMAIN low
      /\ \A k \in DOMAIN one : f[k] = one[k]
      /\ \A k \in DOMAIN low : k \notin DOMAIN one => f[k] = low[k]
  BY UpsertRows
<1>7. IsTable(f) /\ IsTable(g)
  BY UpsertTable DEF g
<1> HIDE DEF f
<1>8. \A k : k \in DOMAIN more <=> k \in DOMAIN less \/ k = c
  BY <1>1, <1>2 DEF c, OneMore
<1>9. \A k \in DOMAIN less : more[k] = less[k] /\ k # c
  BY <1>1, <1>2 DEF c, OneMore
<1>10. more[c] = one[c]
  BY <1>2, <1>3 DEF c, OneMore
<1> HIDE DEF c
<1>11. \A k : k \in DOMAIN f <=> k \in DOMAIN g
  BY <1>3, <1>4, <1>5, <1>6, <1>8
<1>12. ASSUME NEW k \in DOMAIN f PROVE f[k] = g[k]
  <2>1. CASE k = c
    BY <2>1, <1>3, <1>5, <1>6, <1>8, <1>10
  <2>2. CASE k # c /\ k \in DOMAIN less
    BY <2>2, <1>3, <1>4, <1>5, <1>6, <1>8, <1>9
  <2>3. CASE k # c /\ k \notin DOMAIN less
    BY <2>3, <1>3, <1>4, <1>5, <1>6, <1>8, <1>12
  <2>4. QED
    BY <2>1, <2>2, <2>3
<1>13. f = g
  BY <1>7, <1>11, <1>12, SameTable
<1>14. QED
  BY <1>13 DEF f, g, low, less, more, one, c

\* The first claim's candidate row.
LEMMA FirstCandidate ==
  ASSUME NEW claims, NEW I, NEW J, NEW n, NEW r, NEW recorded, NEW table,
         \A i : i \in J <=> i = n
  PROVE  Upsert(Row(claims[n].candidate, NewCandidate(claims[n], r, recorded)), table)
           = Upsert(CandidateRows(claims, J, r, recorded), table)
<1> DEFINE c    == claims[n].candidate
           x    == NewCandidate(claims[n], r, recorded)
           more == CandidateRows(claims, J, r, recorded)
<1>1. /\ \A k : k \in DOMAIN more <=> \E i \in J : k = claims[i].candidate
      /\ \A i \in J : more[claims[i].candidate] = NewCandidate(claims[i], r, recorded)
  BY CandidateRowsHold
<1>2. (\A k : k \in DOMAIN more <=> k = c) /\ more[c] = x
  BY <1>1
<1> HIDE DEF x, c
<1>3. /\ IsTable(more) /\ IsTable(Row(c, x))
      /\ (\A k : k \in DOMAIN Row(c, x) <=> k = c) /\ Row(c, x)[c] = x
  BY DEF IsTable, Row, CandidateRows
<1> HIDE DEF more
<1>4. Row(c, x) = more
  BY <1>2, <1>3, SameTable
<1>5. QED
  BY <1>4 DEF c, x, more

\* What recording one claim writes to the row of its belief.
RowWithClaim(before, c, new, r, link) ==
  [before EXCEPT !.candidates = Upsert(Row(c.candidate, new), @),
                 !.identity = @ \cup {c.mention},
                 !.dependencies = @ \cup {r.id, link}]

\* The row of belief b before claim n is recorded.
RowBefore(before, s, r, recorded, claims, b, n) ==
  /\ (\E k : k \in MineOf(claims, b, n - 1)) => before = RowWithClaims(s, r, recorded, b, n - 1)
  /\ (\A k : k \notin MineOf(claims, b, n - 1)) => before = PriorRow(s, claims, MineOf(claims, b, n), b)

\* Claim n of the claims of r, on records ready for them, names belief b.
NextClaim(s, r, claims, b, n) ==
  claims = r.body.claims /\ ClaimsReady(s, claims) /\ n \in 1..Len(claims) /\ claims[n].belief = b

\* The belief row of claim n: from the row before it, the row after it.
LEMMA OneMoreRow ==
  ASSUME NEW s, NEW r, NEW recorded, NEW claims, NEW n, NEW b, NEW before,
         NextClaim(s, r, claims, b, n), RowBefore(before, s, r, recorded, claims, b, n)
  PROVE  RowWithClaim(before, claims[n], NewCandidate(claims[n], r, recorded), r, s.links[claims[n].mention].event)
           = RowWithClaims(s, r, recorded, b, n)
<1> USE DEF NextClaim
<1>1. PICK less, mine : /\ less = MineOf(claims, b, n - 1)
                        /\ mine = MineOf(claims, b, n)
                        /\ (\E k : k \in less) => before = RowWithClaims(s, r, recorded, b, n - 1)
                        /\ (\A k : k \notin less) => before = PriorRow(s, claims, mine, b)
  BY DEF RowBefore
<1>2. \A i : i \in mine <=> i \in less \/ i = n
  BY <1>1 DEF MineOf, ClaimsReady
<1>3. n \notin less /\ \A i \in mine : i \in DOMAIN claims /\ claims[i].belief = b
  BY <1>1 DEF MineOf, ClaimsReady
<1>4. \A i, j \in mine : claims[i].candidate = claims[j].candidate => i = j
  BY <1>3 DEF ClaimsReady, AdmitsClaims
<1>5. PICK prior : prior = PriorRow(s, claims, mine, b)
  OBVIOUS
<1>6. PICK row : row = RowWithClaims(s, r, recorded, b, n)
  OBVIOUS
<1>7. /\ b \in DOMAIN s.beliefs => prior = s.beliefs[b]
      /\ \A k \in mine : b \notin DOMAIN s.beliefs => prior = NewBelief(claims[k])
      /\ IsTable(prior) /\ DOMAIN prior = BeliefFields
  BY <1>2, <1>3, <1>5, PriorIs
<1>8. /\ IsTable(row) /\ DOMAIN row = BeliefFields
      /\ row.subject = prior.subject /\ row.property = prior.property /\ row.lineage = prior.lineage
      /\ row.candidates = Upsert(CandidateRows(claims, mine, r, recorded), prior.candidates)
      /\ row.identity = prior.identity \cup MentionsOf(claims, mine)
      /\ row.dependencies = prior.dependencies \cup {r.id} \cup LinksOf(s, claims, mine)
  BY <1>1, <1>5, <1>6, <1>7, RowWithClaimsFields
<1> DEFINE one == Row(claims[n].candidate, NewCandidate(claims[n], r, recorded))
<1>9. /\ IsTable(before) /\ DOMAIN before = BeliefFields
      /\ before.subject = prior.subject /\ before.property = prior.property /\ before.lineage = prior.lineage
      /\ Upsert(one, before.candidates) = row.candidates
      /\ before.identity \cup {claims[n].mention} = row.identity
      /\ before.dependencies \cup {r.id, s.links[claims[n].mention].event} = row.dependencies
  <2>1. CASE \E k : k \in less
    <3>1. PICK k : k \in less
      BY <2>1
    <3>2. k \in mine /\ \A i \in less : i \in DOMAIN claims /\ claims[i].belief = b
      BY <1>2, <1>3, <3>1
    <3>3. PICK prior1 : prior1 = PriorRow(s, claims, less, b)
      OBVIOUS
    <3>4. /\ b \in DOMAIN s.beliefs => prior1 = s.beliefs[b]
          /\ b \notin DOMAIN s.beliefs => prior1 = NewBelief(claims[k])
      BY <3>1, <3>2, <3>3, PriorIs
    <3>5. prior1 = prior
      BY <1>7, <3>2, <3>4
    <3>6. before = RowWithClaims(s, r, recorded, b, n - 1) /\ prior = PriorRow(s, claims, less, b)
      BY <1>1, <2>1, <3>3, <3>5
    <3>7. /\ IsTable(before) /\ DOMAIN before = BeliefFields
          /\ before.subject = prior.subject /\ before.property = prior.property /\ before.lineage = prior.lineage
          /\ before.candidates = Upsert(CandidateRows(claims, less, r, recorded), prior.candidates)
          /\ before.identity = prior.identity \cup MentionsOf(claims, less)
          /\ before.dependencies = prior.dependencies \cup {r.id} \cup LinksOf(s, claims, less)
      BY <1>1, <3>6, <1>7, RowWithClaimsFields
    <3>8. Upsert(one, before.candidates) = row.candidates
      <4>1. Upsert(one, Upsert(CandidateRows(claims, less, r, recorded), prior.candidates))
              = Upsert(CandidateRows(claims, mine, r, recorded), prior.candidates)
        BY <1>2, <1>3, <1>4, OneMoreCandidate DEF OneMore
      <4>2. QED
        BY <4>1, <3>7, <1>8
    <3> HIDE DEF one
    <3>9. before.identity \cup {claims[n].mention} = row.identity
      BY ONLY <3>7, <1>8, <1>2 DEF MentionsOf, LinksOf
    <3>10. before.dependencies \cup {r.id, s.links[claims[n].mention].event} = row.dependencies
      BY ONLY <3>7, <1>8, <1>2 DEF MentionsOf, LinksOf
    <3>11. QED
      BY <3>7, <3>8, <3>9, <3>10
  <2>2. CASE \A k : k \notin less
    <3>1. before = prior /\ \A i : i \in mine <=> i = n
      BY <1>1, <2>2, <1>2, <1>5
    <3>2. Upsert(one, prior.candidates) = Upsert(CandidateRows(claims, mine, r, recorded), prior.candidates)
      BY <3>1, FirstCandidate
    <3> HIDE DEF one
    <3>3. before.identity \cup {claims[n].mention} = row.identity
      BY ONLY <3>1, <1>8 DEF MentionsOf, LinksOf
    <3>4. before.dependencies \cup {r.id, s.links[claims[n].mention].event} = row.dependencies
      BY ONLY <3>1, <1>8 DEF MentionsOf, LinksOf
    <3>5. QED
      BY <3>1, <3>2, <3>3, <3>4, <1>7, <1>8
  <2>3. QED
    BY <2>1, <2>2
<1> DEFINE cs   == Upsert(one, before.candidates)
           ids  == before.identity \cup {claims[n].mention}
           deps == before.dependencies \cup {r.id, s.links[claims[n].mention].event}
           new  == [before EXCEPT !.candidates = cs, !.identity = ids, !.dependencies = deps]
<1> HIDE DEF cs, ids, deps
<1>10. /\ IsTable(new) /\ DOMAIN new = BeliefFields
       /\ new.subject = before.subject /\ new.property = before.property /\ new.lineage = before.lineage
       /\ new.candidates = cs /\ new.identity = ids /\ new.dependencies = deps
  BY ONLY <1>9 DEF BeliefFields, IsTable
<1>11. cs = row.candidates /\ ids = row.identity /\ deps = row.dependencies
  BY <1>9 DEF cs, ids, deps
<1> HIDE DEF new
<1>12. new = row
  BY ONLY <1>8, <1>9, <1>10, <1>11, SameBelief
<1>13. QED
  BY <1>6, <1>12 DEF new, cs, ids, deps, one, RowWithClaim

\* The beliefs after the first n claims: those the claims name, and the others as they were.
ClaimedBeliefs(t, s, r, recorded, claims, n) ==
  /\ \A b : b \in DOMAIN t.beliefs
              <=> b \in DOMAIN s.beliefs \/ \E i \in 1..n : claims[i].belief = b
  /\ \A i \in 1..n : t.beliefs[claims[i].belief] = RowWithClaims(s, r, recorded, claims[i].belief, n)
  /\ \A b \in DOMAIN s.beliefs :
       (\A i \in 1..n : claims[i].belief # b) => t.beliefs[b] = s.beliefs[b]

\* WithClaims has the beliefs that ClaimedBeliefs says.
LEMMA WithClaimsBeliefs ==
  ASSUME NEW s, NEW r, NEW recorded, NEW claims, NEW n \in 0..Len(claims), NEW t,
         claims = r.body.claims, ClaimsReady(s, claims), t = WithClaims(s, r, recorded, n)
  PROVE  ClaimedBeliefs(t, s, r, recorded, claims, n)
<1> DEFINE rows == BeliefsWithClaims(s, r, recorded, claims, n)
<1>1. t.beliefs = Upsert(rows, s.beliefs)
  BY WithClaimsTables DEF ClaimsReady, Tabular
<1>2. \A b : b \in DOMAIN rows <=> \E i \in 1..n : claims[i].belief = b
  BY DEF BeliefsWithClaims
<1>3. \A b \in DOMAIN rows : rows[b] = RowWithClaims(s, r, recorded, b, n)
  BY DEF BeliefsWithClaims
<1> HIDE DEF rows
<1>4. QED
  BY <1>1, <1>2, <1>3, UpsertRows DEF ClaimedBeliefs

\* The beliefs with claims recorded have the scopes the claims and the tables give them.
LEMMA WithClaimsScopes ==
  ASSUME NEW s, NEW r, NEW recorded, NEW claims, NEW n \in 0..Len(claims), NEW t,
         claims = r.body.claims, ClaimsReady(s, claims), t = WithClaims(s, r, recorded, n)
  PROVE  /\ \A i \in 1..n : /\ IsTable(t.beliefs[claims[i].belief])
                            /\ DOMAIN t.beliefs[claims[i].belief] = BeliefFields
                            /\ ScopeOf(t.beliefs[claims[i].belief]) = ScopeOf(claims[i])
<1>1. SUFFICES ASSUME NEW i \in 1..n
               PROVE  /\ IsTable(t.beliefs[claims[i].belief])
                      /\ DOMAIN t.beliefs[claims[i].belief] = BeliefFields
                      /\ ScopeOf(t.beliefs[claims[i].belief]) = ScopeOf(claims[i])
  OBVIOUS
<1>2. PICK b : b = claims[i].belief
  OBVIOUS
<1>3. PICK mine : mine = MineOf(claims, b, n)
  OBVIOUS
<1>4. i \in mine /\ \A k \in mine : k \in DOMAIN claims /\ claims[k].belief = b
  BY <1>1, <1>2, <1>3 DEF MineOf, ClaimsReady
<1>5. PICK prior : prior = PriorRow(s, claims, mine, b)
  OBVIOUS
<1>6. IsTable(prior) /\ DOMAIN prior = BeliefFields /\ ScopeOf(prior) = ScopeOf(claims[i])
  BY <1>4, <1>5, PriorIs
<1>7. t.beliefs[b] = RowWithClaims(s, r, recorded, b, n)
  BY <1>2, <1>1, WithClaimsBeliefs DEF ClaimedBeliefs
<1>8. /\ IsTable(t.beliefs[b]) /\ DOMAIN t.beliefs[b] = BeliefFields
      /\ t.beliefs[b].subject = prior.subject /\ t.beliefs[b].property = prior.property
  BY <1>3, <1>5, <1>6, <1>7, RowWithClaimsFields
<1>9. QED
  BY <1>2, <1>6, <1>8 DEF ScopeOf

\* The next claim is accepted by the verifier's own check of it.
LEMMA NextClaimReplays ==
  ASSUME NEW s, NEW r, NEW recorded, NEW claims, NEW n \in 1..Len(claims), NEW t, NEW c,
         claims = r.body.claims, ClaimsReady(s, claims), t = WithClaims(s, r, recorded, n - 1), c = claims[n]
  PROVE  ReplaysClaim(t, c)
<1>1. PICK m : m = n - 1
  OBVIOUS
<1>2. m \in 0..Len(claims) /\ n \in DOMAIN claims /\ \A i \in 1..m : i \in DOMAIN claims /\ i # n
  BY <1>1 DEF ClaimsReady
<1>3. /\ t.entities = s.entities /\ t.links = s.links
      /\ t.candidates = Upsert(CandidateRows(claims, 1..m, r, recorded), s.candidates)
  BY <1>1, WithClaimsTables DEF ClaimsReady, Tabular
<1>4. AdmitsClaim(s, c)
  BY <1>2 DEF ClaimsReady, AdmitsClaims
<1>5. \A k : k \in DOMAIN CandidateRows(claims, 1..m, r, recorded)
               => \E i \in 1..m : k = claims[i].candidate
  BY DEF CandidateRows
<1>6. c.candidate \notin DOMAIN t.candidates
  <2>1. c.candidate \notin DOMAIN s.candidates
    BY <1>4 DEF AdmitsClaim
  <2>2. \A i \in 1..m : c.candidate # claims[i].candidate
    BY <1>2 DEF ClaimsReady, AdmitsClaims
  <2>3. QED
    BY <1>3, <1>5, <2>1, <2>2, UpsertRows
<1>7. ASSUME NEW b \in DOMAIN t.beliefs
      PROVE  b = c.belief <=> ScopeOf(t.beliefs[b]) = ScopeOf(c)
  <2>1. CASE \E i \in 1..m : claims[i].belief = b
    <3>1. PICK i \in 1..m : claims[i].belief = b
      BY <2>1
    <3>2. ScopeOf(t.beliefs[b]) = ScopeOf(claims[i])
      BY <1>1, <1>2, <3>1, WithClaimsScopes
    <3>3. claims[i].belief = claims[n].belief <=> ScopeOf(claims[i]) = ScopeOf(claims[n])
      BY <1>2 DEF ClaimsReady, AdmitsClaims
    <3>4. QED
      BY <3>1, <3>2, <3>3
  <2>2. CASE \A i \in 1..m : claims[i].belief # b
    <3>1. b \in DOMAIN s.beliefs /\ t.beliefs[b] = s.beliefs[b]
      BY <1>1, <1>2, <1>7, <2>2, WithClaimsBeliefs DEF ClaimedBeliefs
    <3>2. ScopeOf(s.beliefs[b]) = ScopeOf(c) => b = c.belief
      BY <1>4, <3>1 DEF AdmitsClaim, CurrentBeliefs
    <3>3. b = c.belief => ScopeOf(s.beliefs[b]) = ScopeOf(c)
      BY <1>4, <3>1 DEF AdmitsClaim
    <3>4. QED
      BY <3>1, <3>2, <3>3
  <2>3. QED
    BY <2>1, <2>2
<1>8. QED
  BY <1>3, <1>4, <1>6, <1>7 DEF ReplaysClaim, AdmitsClaim, ScopeOf

\* A belief row put in place of, or next to, those of the claims before it.
LEMMA OneMoreBelief ==
  ASSUME NEW f, NEW g, NEW table, NEW b, NEW row, IsTable(g),
         f = Upsert(Row(b, row), table),
         \A k : k \in DOMAIN g <=> k \in DOMAIN table \/ k = b,
         g[b] = row,
         \A k \in DOMAIN table : k # b => g[k] = table[k]
  PROVE  f = g
<1>1. (\A k : k \in DOMAIN Row(b, row) <=> k = b) /\ Row(b, row)[b] = row
  BY DEF Row
<1>2. /\ \A k : k \in DOMAIN f <=> k \in DOMAIN Row(b, row) \/ k \in DOMAIN table
      /\ \A k \in DOMAIN Row(b, row) : f[k] = Row(b, row)[k]
      /\ \A k \in DOMAIN table : k \notin DOMAIN Row(b, row) => f[k] = table[k]
      /\ IsTable(f)
  BY UpsertRows, UpsertTable
<1>3. \A k : k \in DOMAIN f <=> k \in DOMAIN g
  BY <1>1, <1>2
<1>4. \A k \in DOMAIN f : f[k] = g[k]
  BY <1>1, <1>2
<1>5. QED
  BY <1>2, <1>3, <1>4, SameTable

\* A claim of another belief leaves the claims of this one as they were.
LEMMA SameMine ==
  ASSUME NEW s, NEW r, NEW recorded, NEW claims, NEW b, NEW n, NEW m,
         claims = r.body.claims, MineOf(claims, b, n) = MineOf(claims, b, m)
  PROVE  RowWithClaims(s, r, recorded, b, n) = RowWithClaims(s, r, recorded, b, m)
BY DEF RowWithClaims

\* Recording claim n takes the records with n - 1 claims to those with n.
LEMMA NextClaimRecords ==
  ASSUME NEW s, NEW r, NEW recorded, NEW claims, NEW n \in 1..Len(claims), NEW t, NEW u, NEW m, NEW c, NEW b,
         claims = r.body.claims, ClaimsReady(s, claims), c = claims[n], b = c.belief, m = n - 1,
         t = WithClaims(s, r, recorded, m), u = WithClaims(s, r, recorded, n)
  PROVE  WithClaim(t, r, recorded, c) = u
<1>1. /\ m \in 0..Len(claims) /\ n \in 0..Len(claims) /\ n \in DOMAIN claims
      /\ \A i : i \in 1..n <=> i \in 1..m \/ i = n
      /\ n \notin 1..m
      /\ \A i \in 1..n : i \in DOMAIN claims
  BY DEF ClaimsReady
<1>2. /\ IsTable(t) /\ DOMAIN t = TableNames
      /\ t.entities = s.entities /\ t.links = s.links /\ t.events = s.events /\ t.relations = s.relations
      /\ t.candidates = Upsert(CandidateRows(claims, 1..m, r, recorded), s.candidates)
  BY WithClaimsTables DEF ClaimsReady, Tabular
<1>3. /\ IsTable(u) /\ DOMAIN u = TableNames
      /\ u.entities = s.entities /\ u.links = s.links /\ u.events = s.events /\ u.relations = s.relations
      /\ u.candidates = Upsert(CandidateRows(claims, 1..n, r, recorded), s.candidates)
      /\ u.beliefs = Upsert(BeliefsWithClaims(s, r, recorded, claims, n), s.beliefs)
  BY WithClaimsTables DEF ClaimsReady, Tabular
<1>4. PICK new : new = NewCandidate(c, r, recorded)
  OBVIOUS
<1>5. PICK before : before = IF b \in DOMAIN t.beliefs THEN t.beliefs[b] ELSE NewBelief(c)
  OBVIOUS
<1>6. PICK less, mine : less = MineOf(claims, b, m) /\ mine = MineOf(claims, b, n)
  OBVIOUS
<1>7. /\ \A i : i \in less <=> i \in 1..m /\ claims[i].belief = b
      /\ \A i : i \in mine <=> i \in 1..n /\ claims[i].belief = b
  BY <1>6 DEF MineOf
<1> DEFINE row == RowWithClaim(before, c, new, r, t.links[c.mention].event)
<1>8. ClaimedBeliefs(t, s, r, recorded, claims, m)
  BY <1>1, WithClaimsBeliefs
<1>9. ClaimedBeliefs(u, s, r, recorded, claims, n)
  BY <1>1, WithClaimsBeliefs
<1>10. /\ \A k : k \in DOMAIN t.beliefs <=> k \in DOMAIN s.beliefs \/ \E i \in 1..m : claims[i].belief = k
       /\ \A i \in 1..m : t.beliefs[claims[i].belief] = RowWithClaims(s, r, recorded, claims[i].belief, m)
       /\ \A k \in DOMAIN s.beliefs : (\A i \in 1..m : claims[i].belief # k) => t.beliefs[k] = s.beliefs[k]
  BY <1>8 DEF ClaimedBeliefs
<1>11. /\ \A k : k \in DOMAIN u.beliefs <=> k \in DOMAIN s.beliefs \/ \E i \in 1..n : claims[i].belief = k
       /\ \A i \in 1..n : u.beliefs[claims[i].belief] = RowWithClaims(s, r, recorded, claims[i].belief, n)
       /\ \A k \in DOMAIN s.beliefs : (\A i \in 1..n : claims[i].belief # k) => u.beliefs[k] = s.beliefs[k]
  BY <1>9 DEF ClaimedBeliefs
<1>12. row = RowWithClaims(s, r, recorded, b, n)
  <2>1. (\E k : k \in less) => before = RowWithClaims(s, r, recorded, b, m)
    <3>1. SUFFICES ASSUME NEW k, k \in less PROVE before = RowWithClaims(s, r, recorded, b, m)
      OBVIOUS
    <3>2. k \in 1..m /\ claims[k].belief = b
      BY <1>7, <3>1
    <3>3. b \in DOMAIN t.beliefs /\ t.beliefs[b] = RowWithClaims(s, r, recorded, b, m)
      BY <1>10, <3>2
    <3>4. QED
      BY <1>5, <3>3
  <2>2. (\A k : k \notin less) => before = PriorRow(s, claims, mine, b)
    <3>1. SUFFICES ASSUME \A k : k \notin less PROVE before = PriorRow(s, claims, mine, b)
      OBVIOUS
    <3>2. \A i \in 1..m : claims[i].belief # b
      BY <1>7, <3>1
    <3>3. /\ b \in DOMAIN s.beliefs => b \in DOMAIN t.beliefs /\ t.beliefs[b] = s.beliefs[b]
          /\ b \notin DOMAIN s.beliefs => b \notin DOMAIN t.beliefs
      BY <1>10, <3>2
    <3>4. n \in mine /\ \A i \in mine : i \in DOMAIN claims /\ claims[i].belief = b
      BY <1>1, <1>7
    <3>5. PICK prior : prior = PriorRow(s, claims, mine, b)
      OBVIOUS
    <3>6. /\ b \in DOMAIN s.beliefs => prior = s.beliefs[b]
          /\ b \notin DOMAIN s.beliefs => prior = NewBelief(claims[n])
      BY <3>4, <3>5, PriorIs
    <3>7. QED
      BY <1>5, <3>3, <3>5, <3>6
  <2>3. t.links = s.links /\ less = MineOf(claims, b, n - 1) /\ before = before
    BY <1>2, <1>6
  <2>4. RowBefore(before, s, r, recorded, claims, b, n)
    BY ONLY m = n - 1, <1>6, <2>1, <2>2 DEF RowBefore
  <2>5. RowWithClaim(before, claims[n], NewCandidate(claims[n], r, recorded), r, s.links[claims[n].mention].event)
           = RowWithClaims(s, r, recorded, b, n)
    <3>1. NextClaim(s, r, claims, b, n)
      BY DEF NextClaim
    <3> QED
      BY ONLY <3>1, <2>4, OneMoreRow
  <2>6. QED
    BY <2>5, <1>4, <2>3
<1> HIDE DEF row
<1>13. Upsert(Row(c.candidate, new), t.candidates) = u.candidates
  <2>1. \A i, j \in 1..n : claims[i].candidate = claims[j].candidate => i = j
    BY <1>1 DEF ClaimsReady, AdmitsClaims
  <2>2. PICK I, J : I = 1..m /\ J = 1..n
    OBVIOUS
  <2>3. OneMore(claims, I, J, n)
    BY ONLY <1>1, <2>1, <2>2 DEF OneMore
  <2>4. Upsert(Row(claims[n].candidate, NewCandidate(claims[n], r, recorded)),
                Upsert(CandidateRows(claims, I, r, recorded), s.candidates))
           = Upsert(CandidateRows(claims, J, r, recorded), s.candidates)
    BY ONLY <2>3, OneMoreCandidate
  <2>5. QED
    BY <2>4, <2>2, <1>2, <1>3, <1>4
<1>14. Upsert(Row(b, row), t.beliefs) = u.beliefs
  <2>1. IsTable(u.beliefs)
    BY <1>3, UpsertTable
  <2>2. \A k : k \in DOMAIN u.beliefs <=> k \in DOMAIN t.beliefs \/ k = b
    <3>1. \A k : k \in DOMAIN u.beliefs <=> k \in DOMAIN s.beliefs \/ \E i \in 1..n : claims[i].belief = k
      BY <1>11
    <3>2. \A k : k \in DOMAIN t.beliefs <=> k \in DOMAIN s.beliefs \/ \E i \in 1..m : claims[i].belief = k
      BY <1>10
    <3>3. QED
      BY ONLY <1>1, <3>1, <3>2, c = claims[n], b = c.belief
  <2>3. u.beliefs[b] = row
    BY <1>1, <1>12, <1>11
  <2>4. ASSUME NEW k \in DOMAIN t.beliefs, k # b PROVE u.beliefs[k] = t.beliefs[k]
    <3>1. CASE \E i \in 1..m : claims[i].belief = k
      <4>1. PICK i \in 1..m : claims[i].belief = k
        BY <3>1
      <4>2. t.beliefs[k] = RowWithClaims(s, r, recorded, k, m)
        BY <4>1, <1>10
      <4>3. i \in 1..n
        BY <1>1
      <4>4. u.beliefs[k] = RowWithClaims(s, r, recorded, k, n)
        BY <4>1, <4>3, <1>11
      <4>5. MineOf(claims, k, n) = MineOf(claims, k, m)
        BY <1>1, <2>4 DEF MineOf
      <4>6. QED
        BY <4>2, <4>4, <4>5, SameMine
    <3>2. CASE \A i \in 1..m : claims[i].belief # k
      <4>1. k \in DOMAIN s.beliefs /\ t.beliefs[k] = s.beliefs[k]
        BY <2>4, <3>2, <1>10
      <4>2. \A i \in 1..n : claims[i].belief # k
        BY <1>1, <2>4, <3>2
      <4>3. u.beliefs[k] = s.beliefs[k]
        BY <4>1, <4>2, <1>11
      <4>4. QED
        BY <4>1, <4>3
    <3>3. QED
      BY <3>1, <3>2
  <2>5. QED
    BY <2>1, <2>2, <2>3, <2>4, OneMoreBelief
<1> DEFINE cs == Upsert(Row(c.candidate, new), t.candidates)
           bs == Upsert(Row(b, row), t.beliefs)
           w  == [t EXCEPT !.candidates = cs, !.beliefs = bs]
<1>15. WithClaim(t, r, recorded, c) = w
  BY <1>4, <1>5 DEF WithClaim, NewCandidate, NewBelief, row, RowWithClaim
<1> HIDE DEF cs, bs
<1>16. /\ IsTable(w) /\ DOMAIN w = TableNames
       /\ w.entities = t.entities /\ w.links = t.links
       /\ w.events = t.events /\ w.relations = t.relations
       /\ w.candidates = cs /\ w.beliefs = bs
  BY <1>2 DEF TableNames, IsTable
<1> HIDE DEF w
<1>17. w = u
  BY <1>2, <1>3, <1>13, <1>14, <1>16, SameSnapshot DEF cs, bs
<1>18. QED
  BY <1>15, <1>17

\* Before the first claim the records are as they were.
LEMMA NoClaimYet ==
  ASSUME NEW s, NEW r, NEW recorded, NEW claims, NEW t,
         claims = r.body.claims, Tabular(s), t = WithClaims(s, r, recorded, 0)
  PROVE  t = s
<1>1. /\ IsTable(s) /\ DOMAIN s = TableNames
      /\ IsTable(s.candidates) /\ IsTable(s.beliefs)
  BY DEF Tabular, TableNames
<1>2. /\ IsTable(t) /\ DOMAIN t = TableNames
      /\ t.entities = s.entities /\ t.links = s.links /\ t.events = s.events /\ t.relations = s.relations
      /\ t.candidates = Upsert(CandidateRows(claims, 1..0, r, recorded), s.candidates)
      /\ t.beliefs = Upsert(BeliefsWithClaims(s, r, recorded, claims, 0), s.beliefs)
  BY <1>1, WithClaimsTables
<1>3. \A k : k \notin DOMAIN CandidateRows(claims, 1..0, r, recorded)
  BY DEF CandidateRows
<1>4. \A k : k \notin DOMAIN BeliefsWithClaims(s, r, recorded, claims, 0)
  BY DEF BeliefsWithClaims
<1>5. ASSUME NEW rows, NEW table, IsTable(table), \A k : k \notin DOMAIN rows PROVE Upsert(rows, table) = table
  <2>1. IsTable(Upsert(rows, table))
    BY UpsertTable
  <2>2. \A k : k \in DOMAIN Upsert(rows, table) <=> k \in DOMAIN table
    BY <1>5, UpsertRows
  <2>3. \A k \in DOMAIN Upsert(rows, table) : Upsert(rows, table)[k] = table[k]
    BY <1>5, UpsertRows
  <2>4. QED
    BY <1>5, <2>1, <2>2, <2>3, SameTable
<1>6. t.candidates = s.candidates /\ t.beliefs = s.beliefs
  BY <1>1, <1>2, <1>3, <1>4, <1>5
<1>7. QED
  BY <1>1, <1>2, <1>6, SameSnapshot

\* One claim accepted, and recorded.
LEMMA OneRecorded ==
  ASSUME NEW t, NEW u, NEW r, NEW recorded, NEW c, NEW before,
         before = {t}, ReplaysClaim(t, c), WithClaim(t, r, recorded, c) = u
  PROVE  RecordsWithClaim(before, r, recorded, c) = {u}
BY DEF RecordsWithClaim

\* The verifier accepts the claims the reducer admits, one by one, and what it has
\* recorded after n of them is WithClaims(s, r, recorded, n).
LEMMA ClaimsReplay ==
  ASSUME NEW s, NEW r, NEW recorded, NEW claims, claims = r.body.claims, ClaimsReady(s, claims)
  PROVE  ReplayClaims(s, r, recorded) = {WithClaims(s, r, recorded, Len(claims))}
<1> DEFINE run == RecordsByClaim(s, r, recorded)
           Bad == {n \in Nat : n <= Len(claims) /\ run[n] # {WithClaims(s, r, recorded, n)}}
<1>1. Len(claims) \in Nat
  BY DEF ClaimsReady
<1>2. /\ run[0] = {s}
      /\ \A i \in 1..Len(claims) : run[i] = RecordsWithClaim(run[i-1], r, recorded, claims[i])
  BY <1>1, ClaimSteps
<1> HIDE DEF run
<1>3. Bad = {}
  <2>1. SUFFICES ASSUME Bad # {} PROVE FALSE
    OBVIOUS
  <2>2. Bad \in SUBSET Nat
    OBVIOUS
  <2>3. PICK n \in Bad : \A k \in Bad : ~(k < n)
    <3> HIDE DEF Bad
    <3> QED BY <2>1, <2>2, Least
  <2>4. n # 0
    <3>1. WithClaims(s, r, recorded, 0) = s
      BY NoClaimYet DEF ClaimsReady
    <3>2. QED
      BY <1>2, <2>3, <3>1
  <2>5. PICK m : m = n - 1
    OBVIOUS
  <2>6. n \in 1..Len(claims) /\ m \in Nat /\ m <= Len(claims) /\ m < n /\ run[n] # {WithClaims(s, r, recorded, n)}
    BY <1>1, <2>3, <2>4, <2>5
  <2>7. run[m] = {WithClaims(s, r, recorded, m)}
    BY <2>3, <2>6
  <2>8. PICK t, u, c, b : /\ t = WithClaims(s, r, recorded, m)
                          /\ u = WithClaims(s, r, recorded, n)
                          /\ c = claims[n] /\ b = c.belief
    OBVIOUS
  <2>9. ReplaysClaim(t, c)
    BY <2>5, <2>6, <2>8, NextClaimReplays
  <2>10. WithClaim(t, r, recorded, c) = u
    BY <2>5, <2>6, <2>8, NextClaimRecords
  <2>11. run[n] = RecordsWithClaim(run[m], r, recorded, c)
    BY <1>2, <2>5, <2>6, <2>8
  <2>12. run[n] = {u}
    BY <2>7, <2>8, <2>9, <2>10, <2>11, OneRecorded
  <2>13. QED
    BY <2>6, <2>8, <2>12
<1>4. run[Len(claims)] = {WithClaims(s, r, recorded, Len(claims))}
  <2>1. Len(claims) \notin Bad
    BY <1>3
  <2>2. QED
    BY <1>1, <2>1
<1>5. QED
  BY <1>4 DEF run, ReplayClaims

-----------------------------------------------------------------------------
(***************************************************************************)
(* The verifier's replay of an entry.                                      *)
(***************************************************************************)
\* Rows written in two batches may be written in one.
LEMMA UpsertsJoin == \A f, g, h : Upsert(f, Upsert(g, h)) = Upsert(Upsert(f, g), h)
<1> SUFFICES ASSUME NEW f, NEW g, NEW h PROVE Upsert(f, Upsert(g, h)) = Upsert(Upsert(f, g), h)
  OBVIOUS
<1> DEFINE gh == Upsert(g, h)
           fg == Upsert(f, g)
           a  == Upsert(f, gh)
           b  == Upsert(fg, h)
<1>1. /\ \A k : k \in DOMAIN gh <=> k \in DOMAIN g \/ k \in DOMAIN h
      /\ \A k \in DOMAIN g : gh[k] = g[k]
      /\ \A k \in DOMAIN h : k \notin DOMAIN g => gh[k] = h[k]
  BY UpsertRows
<1>2. /\ \A k : k \in DOMAIN fg <=> k \in DOMAIN f \/ k \in DOMAIN g
      /\ \A k \in DOMAIN f : fg[k] = f[k]
      /\ \A k \in DOMAIN g : k \notin DOMAIN f => fg[k] = g[k]
  BY UpsertRows
<1> HIDE DEF gh, fg
<1>3. /\ \A k : k \in DOMAIN a <=> k \in DOMAIN f \/ k \in DOMAIN gh
      /\ \A k \in DOMAIN f : a[k] = f[k]
      /\ \A k \in DOMAIN gh : k \notin DOMAIN f => a[k] = gh[k]
  BY UpsertRows
<1>4. /\ \A k : k \in DOMAIN b <=> k \in DOMAIN fg \/ k \in DOMAIN h
      /\ \A k \in DOMAIN fg : b[k] = fg[k]
      /\ \A k \in DOMAIN h : k \notin DOMAIN fg => b[k] = h[k]
  BY UpsertRows
<1>5. IsTable(a) /\ IsTable(b)
  BY UpsertTable
<1> HIDE DEF a, b
<1>6. a = b
  <2>1. \A k : k \in DOMAIN a <=> k \in DOMAIN b
    BY <1>1, <1>2, <1>3, <1>4
  <2>2. \A k \in DOMAIN a : a[k] = b[k]
    BY <1>1, <1>2, <1>3, <1>4
  <2>3. QED
    BY <1>5, <2>1, <2>2, SameTable
<1>7. QED
  BY <1>6 DEF a, b, gh, fg

\* Rows of different keys may be written in either order.
LEMMA UpsertsCommute ==
  ASSUME NEW f, NEW g, NEW h, \A k \in DOMAIN f : k \notin DOMAIN g
  PROVE  Upsert(f, Upsert(g, h)) = Upsert(g, Upsert(f, h))
<1> DEFINE fg == Upsert(f, g)
           gf == Upsert(g, f)
<1>1. /\ \A k : k \in DOMAIN fg <=> k \in DOMAIN f \/ k \in DOMAIN g
      /\ \A k \in DOMAIN f : fg[k] = f[k]
      /\ \A k \in DOMAIN g : k \notin DOMAIN f => fg[k] = g[k]
  BY UpsertRows
<1>2. /\ \A k : k \in DOMAIN gf <=> k \in DOMAIN f \/ k \in DOMAIN g
      /\ \A k \in DOMAIN g : gf[k] = g[k]
      /\ \A k \in DOMAIN f : k \notin DOMAIN g => gf[k] = f[k]
  BY UpsertRows
<1>3. IsTable(fg) /\ IsTable(gf)
  BY UpsertTable
<1> HIDE DEF fg, gf
<1>4. fg = gf
  <2>1. \A k : k \in DOMAIN fg <=> k \in DOMAIN gf
    BY <1>1, <1>2
  <2>2. \A k \in DOMAIN fg : fg[k] = gf[k]
    BY <1>1, <1>2
  <2>3. QED
    BY <1>3, <2>1, <2>2, SameTable
<1>5. Upsert(f, Upsert(g, h)) = Upsert(fg, h) /\ Upsert(g, Upsert(f, h)) = Upsert(gf, h)
  BY UpsertsJoin DEF fg, gf
<1>6. QED
  BY <1>4, <1>5

\* The fields of the row the reducer writes for belief b.
LEMMA ReducedRow ==
  ASSUME NEW s, NEW r, NEW recorded, NEW b
  PROVE  LET claims == r.body.claims
             mine   == {i \in DOMAIN claims : claims[i].belief = b}
             prior  == PriorRow(s, claims, mine, b)
         IN  BeliefWithClaims(s, r, recorded, b)
               = [prior EXCEPT !.candidates   = Upsert(CandidateRows(claims, mine, r, recorded), prior.candidates),
                               !.identity     = prior.identity \cup MentionsOf(claims, mine),
                               !.dependencies = prior.dependencies \cup {r.id} \cup LinksOf(s, claims, mine),
                               !.lineage      = Append(prior.lineage, r.id)]
<1> DEFINE claims == r.body.claims
           mine   == {i \in DOMAIN claims : claims[i].belief = b}
           prior  == IF b \in DOMAIN s.beliefs THEN s.beliefs[b]
                     ELSE NewBelief(claims[CHOOSE i \in mine : TRUE])
           cs     == Upsert(CandidateRows(claims, mine, r, recorded), prior.candidates)
           mentions == {claims[i].mention : i \in mine}
           links  == {s.links[claims[i].mention].event : i \in mine}
           line   == Append(prior.lineage, r.id)
<1>1. BeliefWithClaims(s, r, recorded, b)
        = [prior EXCEPT !.candidates = cs, !.identity = prior.identity \cup mentions,
                        !.dependencies = prior.dependencies \cup {r.id} \cup links, !.lineage = line]
  BY DEF BeliefWithClaims
<1>2. mentions = MentionsOf(claims, mine) /\ links = LinksOf(s, claims, mine)
  BY DEF MentionsOf, LinksOf
<1>3. prior = PriorRow(s, claims, mine, b)
  BY DEF PriorRow
<1> HIDE DEF prior, cs, mentions, links, line, mine, claims
<1>4. BeliefWithClaims(s, r, recorded, b)
        = [prior EXCEPT !.candidates = cs, !.identity = prior.identity \cup MentionsOf(claims, mine),
                        !.dependencies = prior.dependencies \cup {r.id} \cup LinksOf(s, claims, mine),
                        !.lineage = line]
  BY ONLY <1>1, <1>2
<1> USE DEF mine, claims
<1>5. QED
  BY ONLY <1>3, <1>4 DEF cs, line, mine, claims

\* The fields of the row the reducer writes for belief b.
LEMMA ReducedRowFields ==
  ASSUME NEW s, NEW r, NEW recorded, NEW b, NEW claims, NEW mine, NEW prior, NEW row,
         claims = r.body.claims, mine = MineOf(claims, b, Len(claims)), DOMAIN claims = 1..Len(claims),
         prior = PriorRow(s, claims, mine, b), IsTable(prior), DOMAIN prior = BeliefFields,
         row = BeliefWithClaims(s, r, recorded, b)
  PROVE  /\ IsTable(row) /\ DOMAIN row = BeliefFields
         /\ row.subject = prior.subject /\ row.property = prior.property
         /\ row.lineage = Append(prior.lineage, r.id)
         /\ row.candidates = Upsert(CandidateRows(claims, mine, r, recorded), prior.candidates)
         /\ row.identity = prior.identity \cup MentionsOf(claims, mine)
         /\ row.dependencies = prior.dependencies \cup {r.id} \cup LinksOf(s, claims, mine)
<1> DEFINE cs   == Upsert(CandidateRows(claims, mine, r, recorded), prior.candidates)
           ids  == prior.identity \cup MentionsOf(claims, mine)
           deps == prior.dependencies \cup {r.id} \cup LinksOf(s, claims, mine)
           line == Append(prior.lineage, r.id)
<1>1. mine = {i \in DOMAIN claims : claims[i].belief = b}
  BY DEF MineOf
<1>2. row = [prior EXCEPT !.candidates = cs, !.identity = ids, !.dependencies = deps, !.lineage = line]
  <2>1. mine = {i \in DOMAIN r.body.claims : r.body.claims[i].belief = b}
    BY <1>1
  <2>2. QED
    BY <2>1, ReducedRow
<1> HIDE DEF cs, ids, deps, line
<1>3. /\ IsTable(row) /\ DOMAIN row = BeliefFields
      /\ row.subject = prior.subject /\ row.property = prior.property /\ row.lineage = line
      /\ row.candidates = cs /\ row.identity = ids /\ row.dependencies = deps
  BY ONLY <1>2, IsTable(prior), DOMAIN prior = BeliefFields DEF BeliefFields, IsTable
<1>4. QED
  BY <1>3 DEF cs, ids, deps, line

\* One more version changes the lineage alone.
LEMMA NextVersionFields ==
  ASSUME NEW row, NEW r, NEW next, next = NextVersion(row, r), IsTable(row), DOMAIN row = BeliefFields
  PROVE  /\ IsTable(next) /\ DOMAIN next = BeliefFields
         /\ next.subject = row.subject /\ next.property = row.property /\ next.candidates = row.candidates
         /\ next.identity = row.identity /\ next.dependencies = row.dependencies
         /\ next.lineage = Append(row.lineage, r.id)
<1> DEFINE line == Append(row.lineage, r.id)
<1>1. next = [row EXCEPT !.lineage = line]
  BY DEF NextVersion
<1> HIDE DEF line
<1>2. /\ IsTable(next) /\ DOMAIN next = BeliefFields
      /\ next.subject = row.subject /\ next.property = row.property /\ next.candidates = row.candidates
      /\ next.identity = row.identity /\ next.dependencies = row.dependencies
      /\ next.lineage = line
  BY ONLY <1>1, IsTable(row), DOMAIN row = BeliefFields DEF BeliefFields, IsTable
<1>3. QED
  BY <1>2 DEF line

\* NextVersions on tables that are functions.
LEMMA NextVersionsTables ==
  ASSUME NEW u, NEW touched, NEW r, NEW w, IsTable(u), DOMAIN u = TableNames, w = NextVersions(u, touched, r)
  PROVE  /\ IsTable(w) /\ DOMAIN w = TableNames
         /\ w.entities = u.entities /\ w.links = u.links /\ w.candidates = u.candidates
         /\ w.events = u.events /\ w.relations = u.relations
         /\ IsTable(w.beliefs) /\ \A b : b \in DOMAIN w.beliefs <=> b \in DOMAIN u.beliefs
         /\ \A b \in DOMAIN u.beliefs : b \in touched => w.beliefs[b] = NextVersion(u.beliefs[b], r)
         /\ \A b \in DOMAIN u.beliefs : b \notin touched => w.beliefs[b] = u.beliefs[b]
<1> DEFINE bs == [b \in DOMAIN u.beliefs |-> IF b \in touched THEN NextVersion(u.beliefs[b], r) ELSE u.beliefs[b]]
<1>1. w = [u EXCEPT !.beliefs = bs]
  BY DEF NextVersions, NextVersion
<1>2. /\ IsTable(bs) /\ \A b : b \in DOMAIN bs <=> b \in DOMAIN u.beliefs
      /\ \A b \in DOMAIN u.beliefs : b \in touched => bs[b] = NextVersion(u.beliefs[b], r)
      /\ \A b \in DOMAIN u.beliefs : b \notin touched => bs[b] = u.beliefs[b]
  BY DEF IsTable
<1> HIDE DEF bs
<1>3. /\ IsTable(w) /\ DOMAIN w = TableNames
      /\ w.entities = u.entities /\ w.links = u.links /\ w.candidates = u.candidates
      /\ w.events = u.events /\ w.relations = u.relations /\ w.beliefs = bs
  BY ONLY <1>1, IsTable(u), DOMAIN u = TableNames DEF TableNames, IsTable
<1>4. QED
  BY <1>2, <1>3

\* Claims the reducer admits are ready for the verifier's replay.
LEMMA ReadyStart ==
  ASSUME NEW s, NEW d, NEW claims, Tabular(d), AdmitsClaims(s, claims),
         \A b \in DOMAIN d.beliefs : DOMAIN d.beliefs[b] = BeliefFields,
         Len(claims) \in Nat, DOMAIN claims = 1..Len(claims),
         d.entities = s.entities, d.links = s.links,
         \A c : c \in DOMAIN d.candidates <=> c \in DOMAIN s.candidates,
         \A b : b \in DOMAIN d.beliefs <=> b \in DOMAIN s.beliefs,
         \A b \in DOMAIN s.beliefs : ScopeOf(d.beliefs[b]) = ScopeOf(s.beliefs[b])
  PROVE  ClaimsReady(d, claims)
<1>1. ASSUME NEW i \in DOMAIN claims PROVE AdmitsClaim(d, claims[i])
  <2>1. AdmitsClaim(s, claims[i])
    BY DEF AdmitsClaims
  <2>2. CurrentBeliefs(d, ScopeOf(claims[i])) \subseteq {claims[i].belief}
    BY <2>1 DEF AdmitsClaim, CurrentBeliefs
  <2>3. claims[i].belief \in DOMAIN d.beliefs => ScopeOf(d.beliefs[claims[i].belief]) = ScopeOf(claims[i])
    BY <2>1 DEF AdmitsClaim
  <2>4. QED
    BY <2>1, <2>2, <2>3 DEF AdmitsClaim
<1>2. AdmitsClaims(d, claims)
  BY <1>1 DEF AdmitsClaims
<1>3. QED
  BY <1>2 DEF ClaimsReady

\* The verifier replays one start, to one set of records.
LEMMA OneReplay ==
  ASSUME NEW s, NEW r, NEW recorded, NEW pos, NEW start, NEW u, r.id \notin DOMAIN s.events,
         Starts(s, r, pos) = {start}, ReplayClaims(start, r, recorded) = {u}
  PROVE  ReplayEntry(s, r, recorded, pos) = {NextVersions(u, Versioned(r), r)}
<1>1. UNION {ReplayClaims(x, r, recorded) : x \in Starts(s, r, pos)} = {u}
  OBVIOUS
<1>2. QED
  BY <1>1 DEF ReplayEntry

\* The tables of s with the event row written.
Dependent(s, r) == [s EXCEPT !.events = Upsert(Row(r.id, r), @)]

\* The tables of Dependent.
LEMMA DependentTables ==
  ASSUME NEW s, NEW r, NEW d, IsTable(s), DOMAIN s = TableNames, d = Dependent(s, r)
  PROVE  /\ IsTable(d) /\ DOMAIN d = TableNames
         /\ d.entities = s.entities /\ d.links = s.links /\ d.beliefs = s.beliefs
         /\ d.candidates = s.candidates /\ d.relations = s.relations
         /\ d.events = Upsert(Row(r.id, r), s.events)
<1> DEFINE es == Upsert(Row(r.id, r), s.events)
<1>1. d = [s EXCEPT !.events = es]
  BY DEF Dependent
<1> HIDE DEF es
<1>2. /\ IsTable(d) /\ DOMAIN d = TableNames
      /\ d.entities = s.entities /\ d.links = s.links /\ d.beliefs = s.beliefs
      /\ d.candidates = s.candidates /\ d.relations = s.relations /\ d.events = es
  BY ONLY <1>1, IsTable(s), DOMAIN s = TableNames DEF TableNames, IsTable
<1>3. QED
  BY <1>2 DEF es

\* The tables the reducer publishes are its delta written over the old ones.
LEMMA PublishTables ==
  ASSUME NEW s, NEW d, NEW a, DOMAIN s = TableNames, a = Publish(s, d)
  PROVE  /\ IsTable(a) /\ DOMAIN a = TableNames
         /\ a.entities = Upsert(d.entities, s.entities) /\ a.links = Upsert(d.links, s.links)
         /\ a.beliefs = Upsert(d.beliefs, s.beliefs) /\ a.candidates = Upsert(d.candidates, s.candidates)
         /\ a.events = Upsert(d.events, s.events) /\ a.relations = Upsert(d.relations, s.relations)
BY DEF Publish, TableNames, IsTable

\* The tables of the delta of claims.
LEMMA ClaimsDeltaTables ==
  ASSUME NEW s, NEW r, NEW recorded, NEW claims, NEW d, claims = r.body.claims, d = ClaimsDelta(s, r, recorded)
  PROVE  /\ d.entities = NoRows /\ d.links = NoRows /\ d.relations = NoRows
         /\ d.candidates = CandidateRows(claims, DOMAIN claims, r, recorded)
         /\ d.events = Row(r.id, r)
<1>1. /\ d.entities = NoRows /\ d.links = NoRows /\ d.relations = NoRows
  BY ClaimsRowsElsewhere
<1>2. d.candidates = CandidateRows(claims, DOMAIN claims, r, recorded)
  <2> DEFINE rows    == CandidateRows(r.body.claims, DOMAIN r.body.claims, r, recorded)
             beliefs == [b \in {r.body.claims[i].belief : i \in DOMAIN r.body.claims} |->
                           BeliefWithClaims(s, r, recorded, b)]
  <2>1. ClaimsDelta(s, r, recorded) = [NoDelta(r) EXCEPT !.candidates = rows, !.beliefs = beliefs]
    BY DEF ClaimsDelta
  <2>2. DOMAIN NoDelta(r) = TableNames
    BY DEF NoDelta, EmptySnapshot, TableNames
  <2> HIDE DEF rows, beliefs
  <2>3. ClaimsDelta(s, r, recorded).candidates = rows
    BY <2>1, <2>2 DEF TableNames
  <2>4. QED
    BY <2>3 DEF rows
<1>3. d.events = Row(r.id, r)
  BY DeltaEvents
<1>4. QED
  BY <1>1, <1>2, <1>3

\* A row whose claims are recorded and that has one more version is the reducer's row.
LEMMA RecordedRow ==
  ASSUME NEW s, NEW d, NEW r, NEW recorded, NEW claims, NEW b, NEW n, NEW k,
         n = Len(claims), NextClaim(d, r, claims, b, k), d.links = s.links, d.beliefs = s.beliefs
  PROVE  NextVersion(RowWithClaims(d, r, recorded, b, n), r) = BeliefWithClaims(s, r, recorded, b)
<1>1. claims = r.body.claims /\ ClaimsReady(d, claims) /\ k \in 1..n /\ claims[k].belief = b
  BY DEF NextClaim
<1>2. PICK mine : mine = MineOf(claims, b, n)
  OBVIOUS
<1>3. k \in mine /\ \A i \in mine : i \in DOMAIN claims /\ claims[i].belief = b
  BY <1>1, <1>2 DEF MineOf, ClaimsReady
<1>4. PICK prior : prior = PriorRow(d, claims, mine, b)
  OBVIOUS
<1>5. IsTable(prior) /\ DOMAIN prior = BeliefFields
  <2>1. /\ IsTable(PriorRow(d, claims, mine, b))
        /\ DOMAIN PriorRow(d, claims, mine, b) = BeliefFields
    <3>1. ClaimsReady(d, claims)
      BY <1>1
    <3>2. QED
      BY ONLY <1>3, <3>1, PriorIs
  <2>2. QED
    BY <1>4, <2>1
<1>6. prior = PriorRow(s, claims, mine, b) /\ LinksOf(d, claims, mine) = LinksOf(s, claims, mine)
  BY <1>4 DEF PriorRow, LinksOf
<1>7. DOMAIN claims = 1..Len(claims)
  BY <1>1 DEF ClaimsReady
<1>8. PICK old, row, next : /\ old = RowWithClaims(d, r, recorded, b, n)
                            /\ next = NextVersion(old, r)
                            /\ row = BeliefWithClaims(s, r, recorded, b)
  OBVIOUS
<1>9. /\ IsTable(old) /\ DOMAIN old = BeliefFields
      /\ old.subject = prior.subject /\ old.property = prior.property /\ old.lineage = prior.lineage
      /\ old.candidates = Upsert(CandidateRows(claims, mine, r, recorded), prior.candidates)
      /\ old.identity = prior.identity \cup MentionsOf(claims, mine)
      /\ old.dependencies = prior.dependencies \cup {r.id} \cup LinksOf(d, claims, mine)
  BY <1>2, <1>4, <1>5, <1>8, <1>1, RowWithClaimsFields
<1>10. /\ IsTable(row) /\ DOMAIN row = BeliefFields
       /\ row.subject = prior.subject /\ row.property = prior.property
       /\ row.lineage = Append(prior.lineage, r.id)
       /\ row.candidates = Upsert(CandidateRows(claims, mine, r, recorded), prior.candidates)
       /\ row.identity = prior.identity \cup MentionsOf(claims, mine)
       /\ row.dependencies = prior.dependencies \cup {r.id} \cup LinksOf(s, claims, mine)
  BY <1>2, <1>5, <1>6, <1>7, <1>8, <1>1, ReducedRowFields
<1>11. /\ IsTable(next) /\ DOMAIN next = BeliefFields
       /\ next.subject = old.subject /\ next.property = old.property /\ next.candidates = old.candidates
       /\ next.identity = old.identity /\ next.dependencies = old.dependencies
       /\ next.lineage = Append(old.lineage, r.id)
  BY <1>8, <1>9, NextVersionFields
<1>12. next = row
  <2>1. /\ next.subject = row.subject /\ next.property = row.property /\ next.candidates = row.candidates
        /\ next.identity = row.identity /\ next.dependencies = row.dependencies
        /\ next.lineage = row.lineage
    BY ONLY <1>6, <1>9, <1>10, <1>11
  <2>2. QED
    BY ONLY <1>10, <1>11, <2>1, SameBelief
<1>13. QED
  BY <1>8, <1>12

\* The beliefs that get one more version are those of the claims, and of the transition.
LEMMA VersionedIs ==
  ASSUME NEW r
  PROVE  /\ r.type \notin Transitions => \A b : b \in Versioned(r) <=> b \in BeliefsOf(r.body.claims)
         /\ r.type \in Transitions =>
              \A b : b \in Versioned(r) <=> b \in BeliefsOf(r.body.claims) \/ b = TransitionBelief(r)
<1>1. \A b : b \in {c.belief : c \in ToSet(r.body.claims)} <=> b \in BeliefsOf(r.body.claims)
  BY DEF ToSet, BeliefsOf
<1>2. QED
  BY <1>1 DEF Versioned

\* What the verifier replays an observation to is what the reducer publishes.
LEMMA ObservationReplays ==
  ASSUME NEW s, NEW r, NEW recorded, NEW pos, Consistent(s), Tabular(s), WellFormed(r),
         AdmitsObservation(s, r), r.id \notin DOMAIN s.events
  PROVE  ReplayEntry(s, r, recorded, pos) = {Publish(s, ClaimsDelta(s, r, recorded))}
<1>1. PICK claims, n, d, u, w, a :
        /\ claims = r.body.claims
        /\ n = Len(claims)
        /\ d = Dependent(s, r)
        /\ u = WithClaims(d, r, recorded, n)
        /\ w = NextVersions(u, Versioned(r), r)
        /\ a = Publish(s, ClaimsDelta(s, r, recorded))
  OBVIOUS
<1>2. /\ n \in Nat /\ DOMAIN claims = 1..n
      /\ AdmitsClaims(s, claims) /\ claims # <<>> /\ r.type = "observation_recorded"
  BY <1>1 DEF WellFormed, AdmitsObservation, AdmitsClaims
<1>3. /\ IsTable(s) /\ DOMAIN s = TableNames
      /\ \A b \in DOMAIN s.beliefs : DOMAIN s.beliefs[b] = BeliefFields /\ IsTable(s.beliefs[b])
      /\ IsTable(s.entities) /\ IsTable(s.links) /\ IsTable(s.beliefs)
      /\ IsTable(s.candidates) /\ IsTable(s.relations)
  BY DEF Tabular, Consistent, TableNames
<1>4. /\ IsTable(d) /\ DOMAIN d = TableNames
      /\ d.entities = s.entities /\ d.links = s.links /\ d.beliefs = s.beliefs
      /\ d.candidates = s.candidates /\ d.relations = s.relations
      /\ d.events = Upsert(Row(r.id, r), s.events)
  BY <1>1, <1>3, DependentTables
<1>5. Tabular(d)
  <2>1. IsTable(d.events)
    BY <1>4, UpsertTable
  <2>2. \A t \in TableNames : IsTable(d[t])
    BY <1>3, <1>4, <2>1 DEF TableNames
  <2>3. QED
    BY <1>3, <1>4, <2>2 DEF Tabular
<1>6. ClaimsReady(d, claims)
  BY <1>1, <1>2, <1>3, <1>4, <1>5, ReadyStart
<1>7. ReplayClaims(d, r, recorded) = {u}
  BY <1>1, <1>6, ClaimsReplay
<1>8. Starts(s, r, pos) = {d}
  BY <1>1, <1>2 DEF Starts, Dependent
<1>9. ReplayEntry(s, r, recorded, pos) = {w}
  BY <1>1, <1>7, <1>8, OneReplay
<1>10. /\ IsTable(u) /\ DOMAIN u = TableNames
       /\ u.entities = d.entities /\ u.links = d.links /\ u.events = d.events /\ u.relations = d.relations
       /\ u.candidates = Upsert(CandidateRows(claims, 1..n, r, recorded), d.candidates)
  BY <1>1, <1>4, WithClaimsTables
<1>11. /\ IsTable(w) /\ DOMAIN w = TableNames
       /\ w.entities = u.entities /\ w.links = u.links /\ w.candidates = u.candidates
       /\ w.events = u.events /\ w.relations = u.relations
       /\ IsTable(w.beliefs) /\ \A b : b \in DOMAIN w.beliefs <=> b \in DOMAIN u.beliefs
       /\ \A b \in DOMAIN u.beliefs : b \in Versioned(r) => w.beliefs[b] = NextVersion(u.beliefs[b], r)
       /\ \A b \in DOMAIN u.beliefs : b \notin Versioned(r) => w.beliefs[b] = u.beliefs[b]
  BY <1>1, <1>10, NextVersionsTables
<1>12. /\ IsTable(a) /\ DOMAIN a = TableNames
       /\ a.entities = Upsert(NoRows, s.entities) /\ a.links = Upsert(NoRows, s.links)
       /\ a.candidates = Upsert(CandidateRows(claims, DOMAIN claims, r, recorded), s.candidates)
       /\ a.events = Upsert(Row(r.id, r), s.events) /\ a.relations = Upsert(NoRows, s.relations)
       /\ IsTable(a.beliefs)
  <2>1. PICK delta : delta = ClaimsDelta(s, r, recorded)
    OBVIOUS
  <2>2. /\ delta.entities = NoRows /\ delta.links = NoRows /\ delta.relations = NoRows
        /\ delta.candidates = CandidateRows(claims, DOMAIN claims, r, recorded)
        /\ delta.events = Row(r.id, r)
    BY <1>1, <2>1, ClaimsDeltaTables
  <2>3. /\ IsTable(a) /\ DOMAIN a = TableNames
        /\ a.entities = Upsert(delta.entities, s.entities) /\ a.links = Upsert(delta.links, s.links)
        /\ a.beliefs = Upsert(delta.beliefs, s.beliefs) /\ a.candidates = Upsert(delta.candidates, s.candidates)
        /\ a.events = Upsert(delta.events, s.events) /\ a.relations = Upsert(delta.relations, s.relations)
    BY <1>1, <1>3, <2>1, PublishTables
  <2>4. IsTable(a.beliefs)
    BY <2>3, UpsertTable
  <2>5. QED
    BY <2>2, <2>3, <2>4
<1>13. /\ a.entities = w.entities /\ a.links = w.links /\ a.relations = w.relations
       /\ a.candidates = w.candidates /\ a.events = w.events
  BY <1>2, <1>3, <1>4, <1>10, <1>11, <1>12, UpsertNone
<1>14. /\ \A b : b \in DOMAIN a.beliefs <=> b \in BeliefsOf(claims) \/ b \in DOMAIN s.beliefs
       /\ \A b \in BeliefsOf(claims) : a.beliefs[b] = BeliefWithClaims(s, r, recorded, b)
       /\ \A b \in DOMAIN s.beliefs : b \notin BeliefsOf(claims) => a.beliefs[b] = s.beliefs[b]
  BY <1>1, <1>2, <1>3, ClaimsAreRecorded DEF ClaimsRecorded
<1>15. ClaimedBeliefs(u, d, r, recorded, claims, n)
  BY <1>1, <1>2, <1>6, WithClaimsBeliefs
<1>16. \A b : b \in Versioned(r) <=> b \in BeliefsOf(claims)
  BY <1>1, <1>2, VersionedIs DEF Transitions
<1>17. \A b : b \in BeliefsOf(claims) <=> \E i \in 1..n : claims[i].belief = b
  BY <1>2 DEF BeliefsOf
<1>18. a.beliefs = w.beliefs
  <2>1. \A b : b \in DOMAIN a.beliefs <=> b \in DOMAIN w.beliefs
    BY <1>4, <1>11, <1>14, <1>15, <1>17 DEF ClaimedBeliefs
  <2>2. ASSUME NEW b \in DOMAIN a.beliefs PROVE a.beliefs[b] = w.beliefs[b]
    <3>1. CASE b \in BeliefsOf(claims)
      <4>1. PICK k \in 1..n : claims[k].belief = b
        BY <1>17, <3>1
      <4>2. u.beliefs[b] = RowWithClaims(d, r, recorded, b, n)
        BY <1>15, <4>1 DEF ClaimedBeliefs
      <4>3. w.beliefs[b] = NextVersion(u.beliefs[b], r)
        BY <1>11, <1>16, <2>1, <3>1
      <4>4. NextVersion(RowWithClaims(d, r, recorded, b, n), r) = BeliefWithClaims(s, r, recorded, b)
        <5>1. NextClaim(d, r, claims, b, k)
          BY <1>1, <1>6, <4>1 DEF NextClaim
        <5>2. QED
          BY <1>1, <1>4, <5>1, RecordedRow
      <4>5. QED
        BY <1>14, <3>1, <4>2, <4>3, <4>4
    <3>2. CASE b \notin BeliefsOf(claims)
      <4>1. b \in DOMAIN s.beliefs /\ a.beliefs[b] = s.beliefs[b]
        BY <1>14, <2>2, <3>2
      <4>2. u.beliefs[b] = d.beliefs[b]
        BY <1>4, <1>15, <1>17, <3>2, <4>1 DEF ClaimedBeliefs
      <4>3. w.beliefs[b] = u.beliefs[b]
        BY <1>11, <1>16, <2>1, <2>2, <3>2
      <4>4. QED
        BY <1>4, <4>1, <4>2, <4>3
    <3>3. QED
      BY <3>1, <3>2
  <2>3. QED
    BY <1>11, <1>12, <2>1, <2>2, SameTable
<1>19. a = w
  BY <1>11, <1>12, <1>13, <1>18, SameSnapshot
<1>20. QED
  BY <1>1, <1>9, <1>19

\* An event without claims leaves its start as it is.
LEMMA NoClaimsReplay ==
  ASSUME NEW start, NEW r, NEW recorded, r.body.claims = <<>>
  PROVE  ReplayClaims(start, r, recorded) = {start}
<1>1. Len(r.body.claims) = 0
  OBVIOUS
<1>2. RecordsByClaim(start, r, recorded)[0] = {start}
  BY <1>1, ClaimSteps
<1>3. QED
  BY <1>1, <1>2 DEF ReplayClaims

\* The parts of Tabular.
LEMMA TabularParts ==
  ASSUME NEW s, Consistent(s), Tabular(s)
  PROVE  /\ IsTable(s) /\ DOMAIN s = TableNames
         /\ \A b \in DOMAIN s.beliefs : DOMAIN s.beliefs[b] = BeliefFields /\ IsTable(s.beliefs[b])
         /\ IsTable(s.entities) /\ IsTable(s.links) /\ IsTable(s.beliefs)
         /\ IsTable(s.candidates) /\ IsTable(s.relations) /\ IsTable(s.events)
BY DEF Tabular, Consistent, TableNames

\* What the verifier replays a mention to is what the reducer publishes.
LEMMA MentionReplays ==
  ASSUME NEW s, NEW r, NEW recorded, NEW pos, Consistent(s), Tabular(s), WellFormed(r),
         AdmitsMention(s, r), r.id \notin DOMAIN s.events
  PROVE  ReplayEntry(s, r, recorded, pos) = {Publish(s, MentionDelta(r))}
<1>1. PICK d, w, a, delta, ents, links, event :
        /\ d = WithMention(s, r)
        /\ w = NextVersions(d, Versioned(r), r)
        /\ delta = MentionDelta(r)
        /\ a = Publish(s, delta)
        /\ ents = Row(r.body.subject, [mention |-> r.body.mention, event |-> r.id])
        /\ links = Row(r.body.mention, [subject |-> r.body.subject, event |-> r.id])
        /\ event = Row(r.id, r)
  OBVIOUS
<1>2. r.type = "entity_mention_recorded" /\ r.body.claims = <<>> /\ ReplaysMention(s, r)
  BY DEF WellFormed, AdmitsMention, ReplaysMention
<1>3. /\ IsTable(s) /\ DOMAIN s = TableNames
      /\ IsTable(s.beliefs) /\ IsTable(s.candidates) /\ IsTable(s.relations)
  BY TabularParts
<1>4. Starts(s, r, pos) = {d}
  BY <1>1, <1>2 DEF Starts
<1>5. ReplayEntry(s, r, recorded, pos) = {w}
  <2>1. ReplayClaims(d, r, recorded) = {d}
    BY <1>2, NoClaimsReplay
  <2>2. QED
    BY <1>1, <1>4, <2>1, OneReplay
<1> DEFINE es == Upsert(ents, s.entities)
           ls == Upsert(links, s.links)
           vs == Upsert(event, s.events)
<1>6. d = [s EXCEPT !.entities = es, !.links = ls, !.events = vs]
  BY <1>1 DEF WithMention
<1> HIDE DEF es, ls, vs
<1>7. /\ IsTable(d) /\ DOMAIN d = TableNames
      /\ d.entities = es /\ d.links = ls /\ d.events = vs
      /\ d.beliefs = s.beliefs /\ d.candidates = s.candidates /\ d.relations = s.relations
  BY ONLY <1>6, <1>3 DEF TableNames, IsTable
<1>8. /\ IsTable(w) /\ DOMAIN w = TableNames
      /\ w.entities = d.entities /\ w.links = d.links /\ w.candidates = d.candidates
      /\ w.events = d.events /\ w.relations = d.relations
      /\ IsTable(w.beliefs) /\ \A b : b \in DOMAIN w.beliefs <=> b \in DOMAIN d.beliefs
      /\ \A b \in DOMAIN d.beliefs : b \notin Versioned(r) => w.beliefs[b] = d.beliefs[b]
  BY <1>1, <1>7, NextVersionsTables
<1>9. \A b : b \notin Versioned(r)
  BY <1>2, VersionedIs DEF BeliefsOf, Transitions
<1>10. w.beliefs = s.beliefs
  BY <1>3, <1>7, <1>8, <1>9, SameTable
<1>11. /\ delta.entities = ents /\ delta.links = links /\ delta.events = event
       /\ delta.beliefs = NoRows /\ delta.candidates = NoRows /\ delta.relations = NoRows
  <2>1. NoDelta(r) = [entities |-> NoRows, links |-> NoRows, beliefs |-> NoRows,
                      candidates |-> NoRows, events |-> event, relations |-> NoRows]
    BY <1>1 DEF NoDelta, EmptySnapshot
  <2>2. delta = [NoDelta(r) EXCEPT !.entities = ents, !.links = links]
    BY <1>1 DEF MentionDelta
  <2>3. QED
    BY ONLY <2>1, <2>2
<1>12. /\ IsTable(a) /\ DOMAIN a = TableNames
       /\ a.entities = Upsert(delta.entities, s.entities) /\ a.links = Upsert(delta.links, s.links)
       /\ a.beliefs = Upsert(delta.beliefs, s.beliefs) /\ a.candidates = Upsert(delta.candidates, s.candidates)
       /\ a.events = Upsert(delta.events, s.events) /\ a.relations = Upsert(delta.relations, s.relations)
  BY <1>1, <1>3, PublishTables
<1>13. /\ a.entities = w.entities /\ a.links = w.links /\ a.events = w.events
       /\ a.beliefs = w.beliefs /\ a.candidates = w.candidates /\ a.relations = w.relations
  BY <1>3, <1>7, <1>8, <1>10, <1>11, <1>12, UpsertNone DEF es, ls, vs
<1>14. a = w
  BY <1>8, <1>12, <1>13, SameSnapshot
<1>15. QED
  BY <1>1, <1>5, <1>14

\* A belief's row with its targets ended in its own collection.
EndedRow(row, ended) == [row EXCEPT !.candidates = Upsert(ended, @)]

\* Ending targets changes the candidates of a belief row alone.
LEMMA EndedRowFields ==
  ASSUME NEW row, NEW ended, NEW next, next = EndedRow(row, ended), IsTable(row), DOMAIN row = BeliefFields
  PROVE  /\ IsTable(next) /\ DOMAIN next = BeliefFields
         /\ next.subject = row.subject /\ next.property = row.property /\ next.lineage = row.lineage
         /\ next.identity = row.identity /\ next.dependencies = row.dependencies
         /\ next.candidates = Upsert(ended, row.candidates)
<1> DEFINE cs == Upsert(ended, row.candidates)
<1>1. next = [row EXCEPT !.candidates = cs]
  BY DEF EndedRow
<1> HIDE DEF cs
<1>2. /\ IsTable(next) /\ DOMAIN next = BeliefFields
      /\ next.subject = row.subject /\ next.property = row.property /\ next.lineage = row.lineage
      /\ next.identity = row.identity /\ next.dependencies = row.dependencies
      /\ next.candidates = cs
  BY ONLY <1>1, IsTable(row), DOMAIN row = BeliefFields DEF BeliefFields, IsTable
<1>3. QED
  BY <1>2 DEF cs

\* The tables of the delta of a transition.
LEMMA TransitionDeltaTables ==
  ASSUME NEW s, NEW r, NEW recorded, NEW pos, NEW d, NEW e, NEW b, NEW ended,
         d = Claimed(s, r, recorded), DOMAIN d = TableNames, e = TransitionDelta(s, r, recorded, pos),
         b = TransitionBelief(r), ended = EndedRows(s, r), \A k : k \in DOMAIN d.beliefs <=> k = b
  PROVE  /\ e.entities = d.entities /\ e.links = d.links /\ e.events = d.events
         /\ e.candidates = Upsert(ended, d.candidates)
         /\ e.relations = EndingRelations(r, pos)
         /\ \A k : k \in DOMAIN e.beliefs <=> k = b
         /\ e.beliefs[b] = EndedRow(d.beliefs[b], ended)
<1> DEFINE beliefs == [d.beliefs EXCEPT ![b].candidates = Upsert(ended, @)]
           rels  == EndingRelations(r, pos)
           cands == Upsert(ended, d.candidates)
<1>1. e = [d EXCEPT !.candidates = cands, !.beliefs = beliefs, !.relations = rels]
  BY DEF TransitionDelta, Claimed, ExpiryDelta, EndedRows, EndingRelations
<1>2. (\A k : k \in DOMAIN beliefs <=> k = b) /\ beliefs[b] = EndedRow(d.beliefs[b], ended)
  BY DEF EndedRow
<1> HIDE DEF beliefs, rels, cands
<1>3. /\ e.entities = d.entities /\ e.links = d.links /\ e.events = d.events
      /\ e.candidates = cands /\ e.relations = rels /\ e.beliefs = beliefs
  BY ONLY <1>1, DOMAIN d = TableNames DEF TableNames
<1>4. QED
  BY <1>2, <1>3 DEF rels, cands

\* The tables after a transition: its event, its endings, and its belief's row.
LEMMA TransitionPublished ==
  ASSUME NEW s, NEW r, NEW recorded, NEW pos, NEW d, NEW a, NEW b, NEW ended,
         d = Claimed(s, r, recorded), DOMAIN d = TableNames, DOMAIN s = TableNames,
         d.entities = NoRows, d.links = NoRows, d.events = Row(r.id, r),
         \A k : k \in DOMAIN d.beliefs <=> k = b,
         b = TransitionBelief(r), b \in DOMAIN s.beliefs, ended = EndedRows(s, r),
         a = Publish(s, TransitionDelta(s, r, recorded, pos))
  PROVE  /\ IsTable(a) /\ DOMAIN a = TableNames
         /\ a.entities = Upsert(NoRows, s.entities) /\ a.links = Upsert(NoRows, s.links)
         /\ a.events = Upsert(Row(r.id, r), s.events)
         /\ a.candidates = Upsert(ended, Upsert(d.candidates, s.candidates))
         /\ a.relations = Upsert(EndingRelations(r, pos), s.relations)
         /\ IsTable(a.beliefs) /\ \A k : k \in DOMAIN a.beliefs <=> k \in DOMAIN s.beliefs
         /\ a.beliefs[b] = EndedRow(d.beliefs[b], ended)
         /\ \A k \in DOMAIN s.beliefs : k # b => a.beliefs[k] = s.beliefs[k]
<1>1. PICK e : e = TransitionDelta(s, r, recorded, pos)
  OBVIOUS
<1>2. /\ e.entities = d.entities /\ e.links = d.links /\ e.events = d.events
      /\ e.candidates = Upsert(ended, d.candidates)
      /\ e.relations = EndingRelations(r, pos)
      /\ \A k : k \in DOMAIN e.beliefs <=> k = b
      /\ e.beliefs[b] = EndedRow(d.beliefs[b], ended)
  BY <1>1, TransitionDeltaTables
<1>3. /\ IsTable(a) /\ DOMAIN a = TableNames
      /\ a.entities = Upsert(e.entities, s.entities) /\ a.links = Upsert(e.links, s.links)
      /\ a.beliefs = Upsert(e.beliefs, s.beliefs) /\ a.candidates = Upsert(e.candidates, s.candidates)
      /\ a.events = Upsert(e.events, s.events) /\ a.relations = Upsert(e.relations, s.relations)
  BY <1>1, PublishTables
<1>4. Upsert(Upsert(ended, d.candidates), s.candidates) = Upsert(ended, Upsert(d.candidates, s.candidates))
  BY UpsertsJoin
<1>5. /\ IsTable(a.beliefs)
      /\ \A k : k \in DOMAIN a.beliefs <=> k \in DOMAIN e.beliefs \/ k \in DOMAIN s.beliefs
      /\ \A k \in DOMAIN e.beliefs : a.beliefs[k] = e.beliefs[k]
      /\ \A k \in DOMAIN s.beliefs : k \notin DOMAIN e.beliefs => a.beliefs[k] = s.beliefs[k]
  BY <1>3, UpsertRows, UpsertTable
<1>6. QED
  BY <1>2, <1>3, <1>4, <1>5

\* The tables e with the targets of a transition ended, from the tables d.
EndingsWritten(s, r, pos, d, e, b) ==
  LET ended == EndedRows(s, r)
      old   == s.beliefs[b]
      new   == e.beliefs[b]
  IN  /\ IsTable(e) /\ DOMAIN e = TableNames
      /\ e.entities = d.entities /\ e.links = d.links /\ e.events = d.events
      /\ e.candidates = Upsert(ended, s.candidates)
      /\ e.relations = Upsert(EndingRelations(r, pos), s.relations)
      /\ IsTable(e.beliefs) /\ \A k : k \in DOMAIN e.beliefs <=> k \in DOMAIN s.beliefs
      /\ \A k \in DOMAIN s.beliefs : k # b => e.beliefs[k] = s.beliefs[k]
      /\ IsTable(new) /\ DOMAIN new = BeliefFields
      /\ new.subject = old.subject /\ new.property = old.property /\ new.lineage = old.lineage
      /\ new.identity = old.identity /\ new.dependencies = old.dependencies \cup {r.id}
      /\ new.candidates = Upsert(ended, old.candidates)

\* The tables of WithEndings.
LEMMA EndingsTables ==
  ASSUME NEW s, NEW r, NEW pos, NEW d, NEW e, NEW b,
         IsTable(d), DOMAIN d = TableNames, d.beliefs = s.beliefs, d.candidates = s.candidates,
         d.relations = s.relations, IsTable(s.beliefs),
         e = WithEndings(d, r, pos), b = TransitionBelief(r), b \in DOMAIN s.beliefs,
         IsTable(s.beliefs[b]), DOMAIN s.beliefs[b] = BeliefFields
  PROVE  EndingsWritten(s, r, pos, d, e, b)
<1>1. PICK ended, old, new : /\ ended = EndedRows(s, r)
                             /\ old = s.beliefs[b]
                             /\ IsTable(old) /\ DOMAIN old = BeliefFields
                             /\ new = e.beliefs[b]
  OBVIOUS
<1> DEFINE cands == Upsert(ended, s.candidates)
           rels  == Upsert(EndingRelations(r, pos), s.relations)
           cs    == Upsert(ended, old.candidates)
           deps  == old.dependencies \cup {r.id}
           row   == [old EXCEPT !.candidates = cs, !.dependencies = deps]
           bs    == [s.beliefs EXCEPT ![b] = row]
<1>2. e = [d EXCEPT !.candidates = cands, !.beliefs = bs, !.relations = rels]
  <2>1. row = WithEnded(old, ended, r)
    BY DEF WithEnded
  <2> HIDE DEF row
  <2>2. e = [d EXCEPT !.candidates = cands, !.beliefs[b] = WithEnded(s.beliefs[b], ended, r), !.relations = rels]
    BY <1>1 DEF WithEndings, EndedRows, EndingRelations
  <2> HIDE DEF cands, rels
  <2>3. QED
    BY <1>1, <2>1, <2>2
<1>3. /\ IsTable(row) /\ DOMAIN row = BeliefFields
      /\ row.subject = old.subject /\ row.property = old.property /\ row.lineage = old.lineage
      /\ row.identity = old.identity /\ row.dependencies = deps /\ row.candidates = cs
  <2> HIDE DEF cs, deps
  <2> QED BY ONLY <1>1 DEF BeliefFields, IsTable
<1> HIDE DEF row
<1>4. /\ IsTable(bs) /\ \A k : k \in DOMAIN bs <=> k \in DOMAIN s.beliefs
      /\ bs[b] = row /\ \A k \in DOMAIN s.beliefs : k # b => bs[k] = s.beliefs[k]
  BY DEF IsTable
<1> HIDE DEF cands, rels, bs
<1>5. /\ IsTable(e) /\ DOMAIN e = TableNames
      /\ e.entities = d.entities /\ e.links = d.links /\ e.events = d.events
      /\ e.candidates = cands /\ e.relations = rels /\ e.beliefs = bs
  BY ONLY <1>2, IsTable(d), DOMAIN d = TableNames DEF TableNames, IsTable
<1>6. new = row
  BY <1>1, <1>4, <1>5
<1>7. QED
  BY <1>1, <1>3, <1>4, <1>5, <1>6 DEF cands, rels, cs, deps, EndingsWritten

\* The verifier's own checks of a transition hold of the ones the reducer admits.
LEMMA TransitionChecked ==
  ASSUME NEW s, NEW r, WellFormed(r), AdmitsTransition(s, r)
  PROVE  ReplaysTransition(s, r)
<1> DEFINE b == TransitionBelief(r)
<1>1. r.type \in Transitions /\ b \in DOMAIN s.beliefs /\ r.body.targets # {}
  BY DEF AdmitsTransition
<1>2. Len(r.body.claims) = (IF r.type = "candidate_expired" THEN 0 ELSE 1)
  <2>1. r.type = "candidate_expired" => r.body.claims = <<>>
    BY DEF AdmitsTransition
  <2>2. r.type # "candidate_expired" => Len(r.body.claims) = 1
    BY DEF AdmitsTransition
  <2>3. Len(<<>>) = 0
    OBVIOUS
  <2>4. QED
    BY ONLY <2>1, <2>2, <2>3
<1>3. r.body.basis = [correction_appended |-> "stated_error", candidate_replaced |-> "stated",
                      candidate_expired |-> "stated"][r.type]
  <2>1. r.body.basis = (IF r.type = "correction_appended" THEN "stated_error" ELSE "stated")
    BY DEF AdmitsTransition
  <2>2. QED
    BY <1>1, <2>1 DEF Transitions
<1>4. \A c \in ToSet(r.body.claims) : <<c.subject, c.property>> = <<s.beliefs[b].subject, s.beliefs[b].property>>
  <2>1. SUFFICES ASSUME NEW i \in DOMAIN r.body.claims
                 PROVE  ScopeOf(r.body.claims[i]) = ScopeOf(s.beliefs[b])
    BY DEF ToSet, ScopeOf
  <2>2. r.body.claims # <<>>
    BY DEF WellFormed
  <2>3. AdmitsClaims(s, r.body.claims) /\ BeliefsOf(r.body.claims) = {b}
    BY <2>2, TransitionClaims
  <2>4. r.body.claims[i].belief = b
    BY <2>3 DEF BeliefsOf
  <2>5. AdmitsClaim(s, r.body.claims[i])
    BY <2>3 DEF AdmitsClaims
  <2>6. QED
    BY <1>1, <2>4, <2>5 DEF AdmitsClaim
<1>5. r.refs \subseteq {{s.beliefs[b].subject}}
  BY DEF AdmitsTransition, RefsMatch
<1>6. \A t \in r.body.targets : AdmitsTarget(s, r, t)
  BY DEF AdmitsTransition
<1>7. QED
  BY <1>1, <1>2, <1>3, <1>4, <1>5, <1>6 DEF ReplaysTransition, AdmitsTarget

\* Two rows of the candidate tables never meet: the claims' candidates are new, the targets are not.
LEMMA TargetsAreOld ==
  ASSUME NEW s, NEW r, NEW recorded, NEW claims, NEW which, AdmitsTransition(s, r), AdmitsClaims(s, claims),
         \A i \in which : i \in DOMAIN claims
  PROVE  \A k \in DOMAIN EndedRows(s, r) : k \notin DOMAIN CandidateRows(claims, which, r, recorded)
<1>1. \A k \in DOMAIN EndedRows(s, r) : k \in DOMAIN s.candidates
  BY DEF EndedRows, AdmitsTransition, AdmitsTarget
<1>2. \A k \in DOMAIN CandidateRows(claims, which, r, recorded) : \E i \in which : k = claims[i].candidate
  BY DEF CandidateRows
<1>3. \A i \in DOMAIN claims : claims[i].candidate \notin DOMAIN s.candidates
  BY DEF AdmitsClaims, AdmitsClaim
<1>4. QED
  BY <1>1, <1>2, <1>3

\* The belief rows of the delta of claims.
LEMMA ClaimsDeltaBeliefs ==
  ASSUME NEW s, NEW r, NEW recorded, NEW claims, NEW d, claims = r.body.claims, d = ClaimsDelta(s, r, recorded)
  PROVE  /\ DOMAIN d = TableNames
         /\ \A k : k \in DOMAIN d.beliefs <=> k \in BeliefsOf(claims)
         /\ \A k \in BeliefsOf(claims) : d.beliefs[k] = BeliefWithClaims(s, r, recorded, k)
<1> DEFINE rows    == CandidateRows(r.body.claims, DOMAIN r.body.claims, r, recorded)
           beliefs == [b \in {r.body.claims[i].belief : i \in DOMAIN r.body.claims} |->
                         BeliefWithClaims(s, r, recorded, b)]
<1>1. d = [NoDelta(r) EXCEPT !.candidates = rows, !.beliefs = beliefs]
  BY DEF ClaimsDelta
<1>2. DOMAIN NoDelta(r) = TableNames
  BY DEF NoDelta, EmptySnapshot, TableNames
<1>3. /\ \A k : k \in DOMAIN beliefs <=> k \in BeliefsOf(claims)
      /\ \A k \in BeliefsOf(claims) : beliefs[k] = BeliefWithClaims(s, r, recorded, k)
  BY DEF BeliefsOf
<1> HIDE DEF rows, beliefs
<1>4. DOMAIN d = TableNames /\ d.beliefs = beliefs
  BY <1>1, <1>2 DEF TableNames
<1>5. QED
  BY <1>3, <1>4

\* The delta of an expiry before its targets end.
ExpiryWritten(s, d, r, b, new) ==
  LET old == s.beliefs[b] IN
  /\ DOMAIN d = TableNames
  /\ d.entities = NoRows /\ d.links = NoRows /\ d.candidates = NoRows
  /\ d.events = Row(r.id, r)
  /\ \A k : k \in DOMAIN d.beliefs <=> k = b
  /\ IsTable(new) /\ DOMAIN new = BeliefFields
  /\ new.subject = old.subject /\ new.property = old.property /\ new.candidates = old.candidates
  /\ new.identity = old.identity /\ new.dependencies = old.dependencies \cup {r.id}
  /\ new.lineage = Append(old.lineage, r.id)

\* The tables of the delta of an expiry.
LEMMA ExpiryTables ==
  ASSUME NEW s, NEW r, NEW d, NEW b, NEW new, b = TransitionBelief(r), d = ExpiryDelta(s, r),
         IsTable(s.beliefs[b]), DOMAIN s.beliefs[b] = BeliefFields, new = d.beliefs[b]
  PROVE  ExpiryWritten(s, d, r, b, new)
<1>1. PICK old : old = s.beliefs[b] /\ IsTable(old) /\ DOMAIN old = BeliefFields
  OBVIOUS
<1> DEFINE deps  == old.dependencies \cup {r.id}
           line  == Append(old.lineage, r.id)
           row   == [old EXCEPT !.dependencies = deps, !.lineage = line]
           rows  == Row(b, row)
           event == Row(r.id, r)
<1>2. d = [NoDelta(r) EXCEPT !.beliefs = rows]
  BY <1>1 DEF ExpiryDelta
<1>3. NoDelta(r) = [entities |-> NoRows, links |-> NoRows, beliefs |-> NoRows,
                    candidates |-> NoRows, events |-> event, relations |-> NoRows]
  BY DEF NoDelta, EmptySnapshot
<1>4. (\A k : k \in DOMAIN rows <=> k = b) /\ rows[b] = row
  BY DEF Row
<1>5. /\ IsTable(row) /\ DOMAIN row = BeliefFields
      /\ row.subject = old.subject /\ row.property = old.property /\ row.candidates = old.candidates
      /\ row.identity = old.identity /\ row.dependencies = deps /\ row.lineage = line
  <2> HIDE DEF deps, line
  <2> QED BY ONLY <1>1 DEF BeliefFields, IsTable
<1> HIDE DEF rows, row, event
<1>6. /\ DOMAIN d = TableNames /\ d.entities = NoRows /\ d.links = NoRows /\ d.candidates = NoRows
      /\ d.events = event /\ d.beliefs = rows
  BY ONLY <1>2, <1>3 DEF TableNames
<1>7. new = row
  BY <1>4, <1>6
<1>8. QED
  BY <1>1, <1>4, <1>5, <1>6, <1>7 DEF event, deps, line, ExpiryWritten

\* What the verifier replays an expiry to is what the reducer publishes.
LEMMA ExpiryReplays ==
  ASSUME NEW s, NEW r, NEW recorded, NEW pos, Consistent(s), Tabular(s), WellFormed(r),
         AdmitsTransition(s, r), r.id \notin DOMAIN s.events, r.body.claims = <<>>
  PROVE  ReplayEntry(s, r, recorded, pos) = {Publish(s, TransitionDelta(s, r, recorded, pos))}
<1>1. PICK d, e, w, a, delta, b, ended, old :
        /\ d = Dependent(s, r)
        /\ e = WithEndings(d, r, pos)
        /\ w = NextVersions(e, Versioned(r), r)
        /\ delta = ExpiryDelta(s, r)
        /\ a = Publish(s, TransitionDelta(s, r, recorded, pos))
        /\ b = TransitionBelief(r)
        /\ ended = EndedRows(s, r)
        /\ old = s.beliefs[b]
  OBVIOUS
<1>2. /\ r.type \in Transitions /\ b \in DOMAIN s.beliefs
      /\ ReplaysTransition(s, r) /\ delta = Claimed(s, r, recorded)
  BY <1>1, TransitionChecked DEF AdmitsTransition, Claimed
<1>3. /\ IsTable(s) /\ DOMAIN s = TableNames
      /\ DOMAIN old = BeliefFields /\ IsTable(old)
      /\ IsTable(s.entities) /\ IsTable(s.links) /\ IsTable(s.beliefs) /\ IsTable(s.candidates)
  BY <1>1, <1>2, TabularParts
<1>4. /\ IsTable(d) /\ DOMAIN d = TableNames
      /\ d.entities = s.entities /\ d.links = s.links /\ d.beliefs = s.beliefs
      /\ d.candidates = s.candidates /\ d.relations = s.relations
      /\ d.events = Upsert(Row(r.id, r), s.events)
  BY <1>1, <1>3, DependentTables
<1>5. Starts(s, r, pos) = {e}
  BY <1>1, <1>2 DEF Starts, Dependent, Transitions
<1>6. ReplayEntry(s, r, recorded, pos) = {w}
  <2>1. ReplayClaims(e, r, recorded) = {e}
    BY NoClaimsReplay
  <2>2. QED
    BY <1>1, <1>5, <2>1, OneReplay
<1>7. PICK mid : mid = e.beliefs[b]
  OBVIOUS
<1>8. EndingsWritten(s, r, pos, d, e, b)
  BY <1>1, <1>2, <1>3, <1>4, EndingsTables
<1>9. /\ IsTable(e) /\ DOMAIN e = TableNames
      /\ e.entities = d.entities /\ e.links = d.links /\ e.events = d.events
      /\ e.candidates = Upsert(ended, s.candidates)
      /\ e.relations = Upsert(EndingRelations(r, pos), s.relations)
      /\ IsTable(e.beliefs) /\ \A k : k \in DOMAIN e.beliefs <=> k \in DOMAIN s.beliefs
      /\ \A k \in DOMAIN s.beliefs : k # b => e.beliefs[k] = s.beliefs[k]
      /\ IsTable(mid) /\ DOMAIN mid = BeliefFields
      /\ mid.subject = old.subject /\ mid.property = old.property /\ mid.lineage = old.lineage
      /\ mid.identity = old.identity /\ mid.dependencies = old.dependencies \cup {r.id}
      /\ mid.candidates = Upsert(ended, old.candidates)
  BY <1>1, <1>7, <1>8 DEF EndingsWritten
<1>10. /\ IsTable(w) /\ DOMAIN w = TableNames
       /\ w.entities = e.entities /\ w.links = e.links /\ w.candidates = e.candidates
       /\ w.events = e.events /\ w.relations = e.relations
       /\ IsTable(w.beliefs) /\ \A k : k \in DOMAIN w.beliefs <=> k \in DOMAIN e.beliefs
       /\ \A k \in DOMAIN e.beliefs : k \in Versioned(r) => w.beliefs[k] = NextVersion(e.beliefs[k], r)
       /\ \A k \in DOMAIN e.beliefs : k \notin Versioned(r) => w.beliefs[k] = e.beliefs[k]
  BY <1>1, <1>9, NextVersionsTables
<1>11. \A k : k \in Versioned(r) <=> k = b
  <2>1. \A k : k \notin BeliefsOf(r.body.claims)
    BY DEF BeliefsOf
  <2>2. QED
    BY <1>1, <1>2, <2>1, VersionedIs
<1>12. PICK new : new = delta.beliefs[b]
  OBVIOUS
<1>13. ExpiryWritten(s, delta, r, b, new)
  BY <1>1, <1>3, <1>12, ExpiryTables
<1>14. /\ DOMAIN delta = TableNames
       /\ delta.entities = NoRows /\ delta.links = NoRows /\ delta.candidates = NoRows
       /\ delta.events = Row(r.id, r)
       /\ \A k : k \in DOMAIN delta.beliefs <=> k = b
       /\ IsTable(new) /\ DOMAIN new = BeliefFields
       /\ new.subject = old.subject /\ new.property = old.property /\ new.candidates = old.candidates
       /\ new.identity = old.identity /\ new.dependencies = old.dependencies \cup {r.id}
       /\ new.lineage = Append(old.lineage, r.id)
  BY <1>1, <1>13 DEF ExpiryWritten
<1>15. /\ IsTable(a) /\ DOMAIN a = TableNames
       /\ a.entities = Upsert(NoRows, s.entities) /\ a.links = Upsert(NoRows, s.links)
       /\ a.events = Upsert(Row(r.id, r), s.events)
       /\ a.candidates = Upsert(ended, Upsert(delta.candidates, s.candidates))
       /\ a.relations = Upsert(EndingRelations(r, pos), s.relations)
       /\ IsTable(a.beliefs) /\ \A k : k \in DOMAIN a.beliefs <=> k \in DOMAIN s.beliefs
       /\ a.beliefs[b] = EndedRow(delta.beliefs[b], ended)
       /\ \A k \in DOMAIN s.beliefs : k # b => a.beliefs[k] = s.beliefs[k]
  BY <1>1, <1>2, <1>3, <1>14, TransitionPublished
<1>16. /\ a.entities = w.entities /\ a.links = w.links /\ a.relations = w.relations
       /\ a.candidates = w.candidates /\ a.events = w.events
  BY <1>3, <1>4, <1>9, <1>10, <1>14, <1>15, UpsertNone
<1>17. a.beliefs[b] = w.beliefs[b]
  <2>1. PICK x, y : x = a.beliefs[b] /\ y = w.beliefs[b]
    OBVIOUS
  <2>2. x = EndedRow(new, ended) /\ y = NextVersion(mid, r)
    BY <1>2, <1>7, <1>9, <1>10, <1>11, <1>12, <1>15, <2>1
  <2>3. /\ IsTable(x) /\ DOMAIN x = BeliefFields
        /\ x.subject = new.subject /\ x.property = new.property /\ x.lineage = new.lineage
        /\ x.identity = new.identity /\ x.dependencies = new.dependencies
        /\ x.candidates = Upsert(ended, new.candidates)
    BY <1>14, <2>2, EndedRowFields
  <2>4. /\ IsTable(y) /\ DOMAIN y = BeliefFields
        /\ y.subject = mid.subject /\ y.property = mid.property /\ y.candidates = mid.candidates
        /\ y.identity = mid.identity /\ y.dependencies = mid.dependencies
        /\ y.lineage = Append(mid.lineage, r.id)
    BY <1>9, <2>2, NextVersionFields
  <2>5. /\ x.subject = y.subject /\ x.property = y.property /\ x.candidates = y.candidates
        /\ x.identity = y.identity /\ x.dependencies = y.dependencies /\ x.lineage = y.lineage
    BY ONLY <1>9, <1>14, <2>3, <2>4
  <2>6. x = y
    BY ONLY <2>3, <2>4, <2>5, SameBelief
  <2>7. QED
    BY <2>1, <2>6
<1>18. a.beliefs = w.beliefs
  <2>1. \A k : k \in DOMAIN a.beliefs <=> k \in DOMAIN w.beliefs
    BY <1>9, <1>10, <1>15
  <2>2. \A k \in DOMAIN a.beliefs : a.beliefs[k] = w.beliefs[k]
    BY <1>9, <1>10, <1>11, <1>15, <1>17
  <2>3. QED
    BY <1>10, <1>15, <2>1, <2>2, SameTable
<1>19. a = w
  BY <1>10, <1>15, <1>16, <1>18, SameSnapshot
<1>20. QED
  BY <1>1, <1>6, <1>19

\* The belief row of a transition: its claim recorded and its targets ended, in either order.
LEMMA TransitionRow ==
  ASSUME NEW s, NEW e, NEW r, NEW recorded, NEW claims, NEW b, NEW n, NEW k, NEW pos, NEW d,
         n = Len(claims), NextClaim(e, r, claims, b, k), NextClaim(s, r, claims, b, k),
         EndingsWritten(s, r, pos, d, e, b), e.links = s.links, AdmitsTransition(s, r),
         b \in DOMAIN s.beliefs, IsTable(s.beliefs[b]), DOMAIN s.beliefs[b] = BeliefFields
  PROVE  EndedRow(BeliefWithClaims(s, r, recorded, b), EndedRows(s, r))
           = NextVersion(RowWithClaims(e, r, recorded, b, n), r)
<1>1. /\ claims = r.body.claims /\ ClaimsReady(e, claims) /\ ClaimsReady(s, claims)
      /\ k \in 1..n /\ claims[k].belief = b /\ DOMAIN claims = 1..Len(claims)
  BY DEF NextClaim, ClaimsReady
<1>2. PICK mine, ended, old, mid, row, red, x, y, rows :
        /\ mine = MineOf(claims, b, n)
        /\ ended = EndedRows(s, r)
        /\ old = s.beliefs[b]
        /\ mid = e.beliefs[b]
        /\ row = RowWithClaims(e, r, recorded, b, n)
        /\ red = BeliefWithClaims(s, r, recorded, b)
        /\ x = EndedRow(red, ended)
        /\ y = NextVersion(row, r)
        /\ rows = CandidateRows(claims, mine, r, recorded)
  OBVIOUS
<1>3. /\ b \in DOMAIN e.beliefs /\ IsTable(mid) /\ DOMAIN mid = BeliefFields
      /\ mid.subject = old.subject /\ mid.property = old.property /\ mid.lineage = old.lineage
      /\ mid.identity = old.identity /\ mid.dependencies = old.dependencies \cup {r.id}
      /\ mid.candidates = Upsert(ended, old.candidates)
  BY <1>2 DEF EndingsWritten
<1>4. mid = PriorRow(e, claims, mine, b) /\ old = PriorRow(s, claims, mine, b)
  BY <1>2, <1>3 DEF PriorRow
<1>5. /\ IsTable(row) /\ DOMAIN row = BeliefFields
      /\ row.subject = mid.subject /\ row.property = mid.property /\ row.lineage = mid.lineage
      /\ row.candidates = Upsert(rows, mid.candidates)
      /\ row.identity = mid.identity \cup MentionsOf(claims, mine)
      /\ row.dependencies = mid.dependencies \cup {r.id} \cup LinksOf(e, claims, mine)
  BY <1>1, <1>2, <1>3, <1>4, RowWithClaimsFields
<1>6. /\ IsTable(red) /\ DOMAIN red = BeliefFields
      /\ red.subject = old.subject /\ red.property = old.property
      /\ red.lineage = Append(old.lineage, r.id)
      /\ red.candidates = Upsert(rows, old.candidates)
      /\ red.identity = old.identity \cup MentionsOf(claims, mine)
      /\ red.dependencies = old.dependencies \cup {r.id} \cup LinksOf(s, claims, mine)
  <2>1. IsTable(old) /\ DOMAIN old = BeliefFields /\ mine = MineOf(claims, b, Len(claims))
    BY <1>2
  <2>2. QED
    BY <1>1, <1>2, <1>4, <2>1, ReducedRowFields
<1>7. /\ IsTable(x) /\ DOMAIN x = BeliefFields
      /\ x.subject = red.subject /\ x.property = red.property /\ x.lineage = red.lineage
      /\ x.identity = red.identity /\ x.dependencies = red.dependencies
      /\ x.candidates = Upsert(ended, red.candidates)
  BY <1>2, <1>6, EndedRowFields
<1>8. /\ IsTable(y) /\ DOMAIN y = BeliefFields
      /\ y.subject = row.subject /\ y.property = row.property /\ y.candidates = row.candidates
      /\ y.identity = row.identity /\ y.dependencies = row.dependencies
      /\ y.lineage = Append(row.lineage, r.id)
  BY <1>2, <1>5, NextVersionFields
<1>9. LinksOf(e, claims, mine) = LinksOf(s, claims, mine)
  BY DEF LinksOf
<1>10. Upsert(ended, Upsert(rows, old.candidates)) = Upsert(rows, Upsert(ended, old.candidates))
  <2>1. \A i \in mine : i \in DOMAIN claims
    BY <1>1, <1>2 DEF MineOf
  <2>2. \A c \in DOMAIN ended : c \notin DOMAIN rows
    <3>1. AdmitsClaims(s, claims)
      BY <1>1 DEF ClaimsReady
    <3>2. QED
      BY <1>2, <2>1, <3>1, TargetsAreOld
  <2>3. QED
    BY <2>2, UpsertsCommute
<1>11. x.candidates = y.candidates
  BY ONLY <1>3, <1>5, <1>6, <1>7, <1>8, <1>10
<1>12. /\ x.subject = y.subject /\ x.property = y.property
       /\ x.identity = y.identity /\ x.dependencies = y.dependencies /\ x.lineage = y.lineage
  BY ONLY <1>3, <1>5, <1>6, <1>7, <1>8, <1>9
<1>13. x = y
  BY ONLY <1>7, <1>8, <1>11, <1>12, SameBelief
<1>14. QED
  BY <1>2, <1>13

\* What the verifier replays a correction or a replacement to is what the reducer publishes.
LEMMA ClaimedTransitionReplays ==
  ASSUME NEW s, NEW r, NEW recorded, NEW pos, Consistent(s), Tabular(s), WellFormed(r),
         AdmitsTransition(s, r), r.id \notin DOMAIN s.events, r.body.claims # <<>>
  PROVE  ReplayEntry(s, r, recorded, pos) = {Publish(s, TransitionDelta(s, r, recorded, pos))}
<1>1. PICK claims, n, d, e, u, w, a, delta, b, ended, rows :
        /\ claims = r.body.claims
        /\ n = Len(claims)
        /\ d = Dependent(s, r)
        /\ e = WithEndings(d, r, pos)
        /\ u = WithClaims(e, r, recorded, n)
        /\ w = NextVersions(u, Versioned(r), r)
        /\ delta = ClaimsDelta(s, r, recorded)
        /\ a = Publish(s, TransitionDelta(s, r, recorded, pos))
        /\ b = TransitionBelief(r)
        /\ ended = EndedRows(s, r)
        /\ rows = CandidateRows(claims, 1..n, r, recorded)
  OBVIOUS
<1>2. /\ r.type \in Transitions /\ b \in DOMAIN s.beliefs
      /\ ReplaysTransition(s, r) /\ delta = Claimed(s, r, recorded)
  BY <1>1, TransitionChecked DEF AdmitsTransition, Claimed
<1>3. AdmitsClaims(s, claims) /\ BeliefsOf(claims) = {b}
  BY <1>1, TransitionClaims
<1>4. n \in Nat /\ DOMAIN claims = 1..n /\ claims # <<>>
  BY <1>1 DEF WellFormed
<1>5. \A k : (\E i \in 1..n : claims[i].belief = k) <=> k = b
  BY <1>3, <1>4 DEF BeliefsOf
<1>6. /\ IsTable(s) /\ DOMAIN s = TableNames
      /\ \A k \in DOMAIN s.beliefs : DOMAIN s.beliefs[k] = BeliefFields /\ IsTable(s.beliefs[k])
      /\ IsTable(s.entities) /\ IsTable(s.links) /\ IsTable(s.beliefs) /\ IsTable(s.candidates)
  BY TabularParts
<1>7. /\ IsTable(d) /\ DOMAIN d = TableNames
      /\ d.entities = s.entities /\ d.links = s.links /\ d.beliefs = s.beliefs
      /\ d.candidates = s.candidates /\ d.relations = s.relations
      /\ d.events = Upsert(Row(r.id, r), s.events)
  BY <1>1, <1>6, DependentTables
<1>8. EndingsWritten(s, r, pos, d, e, b)
  BY <1>1, <1>2, <1>6, <1>7, EndingsTables
<1>9. /\ IsTable(e) /\ DOMAIN e = TableNames
      /\ e.entities = d.entities /\ e.links = d.links /\ e.events = d.events
      /\ e.candidates = Upsert(ended, s.candidates)
      /\ e.relations = Upsert(EndingRelations(r, pos), s.relations)
      /\ IsTable(e.beliefs) /\ \A k : k \in DOMAIN e.beliefs <=> k \in DOMAIN s.beliefs
      /\ \A k \in DOMAIN s.beliefs : k # b => e.beliefs[k] = s.beliefs[k]
      /\ IsTable(e.beliefs[b]) /\ DOMAIN e.beliefs[b] = BeliefFields
      /\ ScopeOf(e.beliefs[b]) = ScopeOf(s.beliefs[b])
  BY <1>1, <1>8 DEF EndingsWritten, ScopeOf
<1>10. ClaimsReady(e, claims)
  <2>1. Tabular(e)
    <3>1. IsTable(e.candidates) /\ IsTable(e.relations) /\ IsTable(e.events)
      BY <1>7, <1>9, UpsertTable
    <3>2. \A t \in TableNames : IsTable(e[t])
      BY <1>6, <1>7, <1>9, <3>1 DEF TableNames
    <3>3. \A k \in DOMAIN e.beliefs : IsTable(e.beliefs[k])
      BY <1>6, <1>9
    <3>4. QED
      BY <1>9, <3>2, <3>3 DEF Tabular
  <2>2. \A k \in DOMAIN e.beliefs : DOMAIN e.beliefs[k] = BeliefFields
    BY <1>6, <1>9
  <2>3. \A k \in DOMAIN s.beliefs : ScopeOf(e.beliefs[k]) = ScopeOf(s.beliefs[k])
    BY <1>9
  <2>4. \A c : c \in DOMAIN e.candidates <=> c \in DOMAIN s.candidates
    <3>1. \A c \in DOMAIN ended : c \in DOMAIN s.candidates
      BY <1>1 DEF EndedRows, AdmitsTransition, AdmitsTarget
    <3>2. QED
      BY <1>9, <3>1, UpsertRows
  <2>5. e.entities = s.entities /\ e.links = s.links /\ Len(claims) \in Nat /\ DOMAIN claims = 1..Len(claims)
    BY <1>1, <1>4, <1>7, <1>9
  <2>6. QED
    BY <1>3, <1>9, <2>1, <2>2, <2>3, <2>4, <2>5, ReadyStart
<1>11. Starts(s, r, pos) = {e}
  BY <1>1, <1>2 DEF Starts, Dependent, Transitions
<1>12. ReplayEntry(s, r, recorded, pos) = {w}
  <2>1. ReplayClaims(e, r, recorded) = {u}
    BY <1>1, <1>10, ClaimsReplay
  <2>2. QED
    BY <1>1, <1>11, <2>1, OneReplay
<1>13. /\ IsTable(u) /\ DOMAIN u = TableNames
       /\ u.entities = e.entities /\ u.links = e.links /\ u.events = e.events /\ u.relations = e.relations
       /\ u.candidates = Upsert(rows, e.candidates)
  BY <1>1, <1>9, WithClaimsTables
<1>14. ClaimedBeliefs(u, e, r, recorded, claims, n)
  BY <1>1, <1>4, <1>10, WithClaimsBeliefs
<1>15. /\ IsTable(w) /\ DOMAIN w = TableNames
       /\ w.entities = u.entities /\ w.links = u.links /\ w.candidates = u.candidates
       /\ w.events = u.events /\ w.relations = u.relations
       /\ IsTable(w.beliefs) /\ \A k : k \in DOMAIN w.beliefs <=> k \in DOMAIN u.beliefs
       /\ \A k \in DOMAIN u.beliefs : k \in Versioned(r) => w.beliefs[k] = NextVersion(u.beliefs[k], r)
       /\ \A k \in DOMAIN u.beliefs : k \notin Versioned(r) => w.beliefs[k] = u.beliefs[k]
  BY <1>1, <1>13, NextVersionsTables
<1>16. \A k : k \in Versioned(r) <=> k = b
  BY <1>1, <1>2, <1>3, VersionedIs
<1>17. /\ delta.entities = NoRows /\ delta.links = NoRows /\ delta.relations = NoRows
       /\ delta.candidates = CandidateRows(claims, DOMAIN claims, r, recorded)
       /\ delta.events = Row(r.id, r)
  BY <1>1, ClaimsDeltaTables
<1>18. /\ DOMAIN delta = TableNames
       /\ \A k : k \in DOMAIN delta.beliefs <=> k = b
       /\ delta.beliefs[b] = BeliefWithClaims(s, r, recorded, b)
  <2>1. /\ DOMAIN delta = TableNames
        /\ \A k : k \in DOMAIN delta.beliefs <=> k \in BeliefsOf(claims)
        /\ \A k \in BeliefsOf(claims) : delta.beliefs[k] = BeliefWithClaims(s, r, recorded, k)
    BY <1>1, ClaimsDeltaBeliefs
  <2>2. QED
    BY <1>3, <2>1
<1>19. /\ IsTable(a) /\ DOMAIN a = TableNames
       /\ a.entities = Upsert(NoRows, s.entities) /\ a.links = Upsert(NoRows, s.links)
       /\ a.events = Upsert(Row(r.id, r), s.events)
       /\ a.candidates = Upsert(ended, Upsert(delta.candidates, s.candidates))
       /\ a.relations = Upsert(EndingRelations(r, pos), s.relations)
       /\ IsTable(a.beliefs) /\ \A k : k \in DOMAIN a.beliefs <=> k \in DOMAIN s.beliefs
       /\ a.beliefs[b] = EndedRow(delta.beliefs[b], ended)
       /\ \A k \in DOMAIN s.beliefs : k # b => a.beliefs[k] = s.beliefs[k]
  BY <1>1, <1>2, <1>6, <1>17, <1>18, TransitionPublished
<1>20. a.candidates = w.candidates
  <2>1. \A c \in DOMAIN ended : c \notin DOMAIN rows
    <3>1. \A i \in 1..n : i \in DOMAIN claims
      BY <1>4
    <3>2. QED
      BY <1>1, <1>3, <3>1, TargetsAreOld
  <2>2. Upsert(ended, Upsert(rows, s.candidates)) = Upsert(rows, Upsert(ended, s.candidates))
    BY <2>1, UpsertsCommute
  <2>3. delta.candidates = rows
    BY <1>1, <1>4, <1>17
  <2>4. QED
    BY <1>9, <1>13, <1>15, <1>19, <2>2, <2>3
<1>21. /\ a.entities = w.entities /\ a.links = w.links /\ a.relations = w.relations /\ a.events = w.events
  BY <1>6, <1>7, <1>9, <1>13, <1>15, <1>19, UpsertNone
<1>22. a.beliefs[b] = w.beliefs[b]
  <2>1. PICK k \in 1..n : claims[k].belief = b
    BY <1>5
  <2>2. ClaimsReady(s, claims)
    BY <1>1, <1>3, <1>4, <1>6 DEF ClaimsReady
  <2>3. NextClaim(e, r, claims, b, k) /\ NextClaim(s, r, claims, b, k)
    BY <1>1, <1>10, <2>1, <2>2 DEF NextClaim
  <2>4. e.links = s.links
    BY <1>7, <1>9
  <2>5. EndedRow(BeliefWithClaims(s, r, recorded, b), EndedRows(s, r))
          = NextVersion(RowWithClaims(e, r, recorded, b, n), r)
    BY <1>1, <1>2, <1>6, <1>8, <2>3, <2>4, TransitionRow
  <2>6. b \in DOMAIN u.beliefs /\ u.beliefs[b] = RowWithClaims(e, r, recorded, b, n)
    BY <1>14, <2>1 DEF ClaimedBeliefs
  <2>7. w.beliefs[b] = NextVersion(u.beliefs[b], r)
    BY <1>15, <1>16, <2>6
  <2>8. QED
    BY <1>1, <1>18, <1>19, <2>5, <2>6, <2>7
<1>23. a.beliefs = w.beliefs
  <2>1. \A k : k \in DOMAIN u.beliefs <=> k \in DOMAIN s.beliefs
    <3>1. \A k : k \in DOMAIN u.beliefs <=> k \in DOMAIN e.beliefs \/ k = b
      BY <1>5, <1>14 DEF ClaimedBeliefs
    <3>2. \A k : k \in DOMAIN e.beliefs <=> k \in DOMAIN s.beliefs
      BY <1>9
    <3>3. b \in DOMAIN s.beliefs
      BY <1>2
    <3>4. QED
      BY ONLY <3>1, <3>2, <3>3
  <2>2. \A k : k \in DOMAIN a.beliefs <=> k \in DOMAIN w.beliefs
    BY <1>15, <1>19, <2>1
  <2>3. ASSUME NEW k \in DOMAIN a.beliefs, k # b PROVE a.beliefs[k] = w.beliefs[k]
    <3>1. k \in DOMAIN s.beliefs /\ a.beliefs[k] = s.beliefs[k] /\ e.beliefs[k] = s.beliefs[k]
      BY <1>9, <1>19, <2>3
    <3>2. u.beliefs[k] = e.beliefs[k]
      BY <1>5, <1>9, <1>14, <2>3, <3>1 DEF ClaimedBeliefs
    <3>3. w.beliefs[k] = u.beliefs[k]
      BY <1>15, <1>16, <2>1, <2>3, <3>1
    <3>4. QED
      BY <3>1, <3>2, <3>3
  <2>4. QED
    BY <1>15, <1>19, <1>22, <2>2, <2>3, SameTable
<1>24. a = w
  BY <1>15, <1>19, <1>20, <1>21, <1>23, SameSnapshot
<1>25. QED
  BY <1>1, <1>12, <1>24

\* The verifier replays the entry e on the records s to what the reducer publishes.
EntryReplayed(s, e, pos) == ReplayEntry(s, e.req, e.recorded, pos) = {Apply(s, e, pos)}

\* The verifier's replay of an admitted entry is the reducer's application of it.
LEMMA EntryReplays ==
  ASSUME NEW v, NEW s, NEW e, NEW pos, Consistent(s), Tabular(s), WellFormed(e.req), Admits(v, s, e.req)
  PROVE  EntryReplayed(s, e, pos)
<1>1. e.req.id \notin DOMAIN s.events
  BY DEF Admits
<1>2. \/ /\ AdmitsMention(s, e.req)
         /\ Apply(s, e, pos) = Publish(s, MentionDelta(e.req))
      \/ /\ AdmitsObservation(s, e.req)
         /\ Apply(s, e, pos) = Publish(s, ClaimsDelta(s, e.req, e.recorded))
      \/ /\ AdmitsTransition(s, e.req)
         /\ Apply(s, e, pos) = Publish(s, TransitionDelta(s, e.req, e.recorded, pos))
  BY DeltaOf
<1>3. ReplayEntry(s, e.req, e.recorded, pos) = {Apply(s, e, pos)}
  BY <1>1, <1>2, MentionReplays, ObservationReplays, ExpiryReplays, ClaimedTransitionReplays
<1>4. QED
  BY <1>3 DEF EntryReplayed

-----------------------------------------------------------------------------
(***************************************************************************)
(* What the rows of a delta refer to, and whom they are about.             *)
(***************************************************************************)
\* The events rows of a snapshot refer to are events it depends on.
Referenced(s) ==
  /\ \A x \in DOMAIN s.entities : s.entities[x].event \in DOMAIN s.events
  /\ \A m \in DOMAIN s.links : s.links[m].event \in DOMAIN s.events
  /\ \A c \in DOMAIN s.candidates : /\ s.candidates[c].event \in DOMAIN s.events
                                   /\ \A x \in s.candidates[c].superseding : x \in DOMAIN s.events
  /\ \A b \in DOMAIN s.beliefs : \A x \in s.beliefs[b].dependencies : x \in DOMAIN s.events

\* The rows of delta d refer to the event of r, or to what the rows of s refer to.
DeltaRefers(s, d, r) ==
  /\ d.events = Row(r.id, r)
  /\ \A x \in DOMAIN d.entities : d.entities[x].event = r.id
  /\ \A m \in DOMAIN d.links : d.links[m].event = r.id
  /\ \A c \in DOMAIN d.candidates :
       /\ \/ d.candidates[c].event = r.id
          \/ /\ c \in DOMAIN s.candidates
             /\ d.candidates[c].event = s.candidates[c].event
       /\ \A x \in d.candidates[c].superseding : x = r.id
  /\ \A b \in DOMAIN d.beliefs :
       /\ IsTable(d.beliefs[b])
       /\ \A x \in d.beliefs[b].dependencies :
            \/ x = r.id
            \/ b \in DOMAIN s.beliefs /\ x \in s.beliefs[b].dependencies
            \/ \E m \in DOMAIN s.links : x = s.links[m].event

\* The subjects and beliefs of delta d.
DeltaAbout(s, d, r) ==
  /\ r.type = "entity_mention_recorded" =>
       /\ \A x : x \in DOMAIN d.entities <=> x = r.body.subject
       /\ \A b : b \notin DOMAIN d.beliefs
  /\ r.type # "entity_mention_recorded" => \A x : x \notin DOMAIN d.entities
  /\ r.type = "observation_recorded" =>
       /\ \A b : b \in DOMAIN d.beliefs <=> b \in BeliefsOf(r.body.claims)
       /\ \A i \in DOMAIN r.body.claims : d.beliefs[r.body.claims[i].belief].subject = r.body.claims[i].subject
  /\ r.type \in Transitions =>
       /\ TransitionBelief(r) \in DOMAIN s.beliefs
       /\ \A b : b \in DOMAIN d.beliefs <=> b = TransitionBelief(r)
       /\ d.beliefs[TransitionBelief(r)].subject = s.beliefs[TransitionBelief(r)].subject

\* The delta of a mention refers to its own event, and is about its entity.
LEMMA MentionWrites ==
  ASSUME NEW s, NEW r, AdmitsMention(s, r)
  PROVE  DeltaRefers(s, MentionDelta(r), r) /\ DeltaAbout(s, MentionDelta(r), r)
<1>1. PICK d, ent, link : /\ d = MentionDelta(r)
                          /\ ent = [mention |-> r.body.mention, event |-> r.id]
                          /\ link = [subject |-> r.body.subject, event |-> r.id]
  OBVIOUS
<1>2. /\ d.beliefs = NoRows /\ d.candidates = NoRows
      /\ d.entities = Row(r.body.subject, ent) /\ d.links = Row(r.body.mention, link)
      /\ d.events = Row(r.id, r)
  BY <1>1, MentionRows, DeltaEvents
<1>3. /\ \A x : x \in DOMAIN d.entities <=> x = r.body.subject
      /\ d.entities[r.body.subject] = ent
      /\ \A m : m \in DOMAIN d.links <=> m = r.body.mention
      /\ d.links[r.body.mention] = link
      /\ \A x : x \notin DOMAIN d.candidates /\ x \notin DOMAIN d.beliefs
  BY <1>2, RowHolds DEF NoRows
<1>4. ent.event = r.id /\ link.event = r.id
  BY <1>1
<1>5. DeltaRefers(s, d, r)
  BY <1>2, <1>3, <1>4 DEF DeltaRefers
<1>6. r.type = "entity_mention_recorded"
  BY DEF AdmitsMention
<1>7. DeltaAbout(s, d, r)
  BY <1>3, <1>6 DEF DeltaAbout, Transitions
<1>8. QED
  BY <1>1, <1>5, <1>7

\* The rows that claims write.
ClaimRowsWritten(s, d, r) ==
  LET claims == r.body.claims IN
  /\ DOMAIN d = TableNames
  /\ \A x : x \notin DOMAIN d.entities /\ x \notin DOMAIN d.links
  /\ d.entities = NoRows /\ d.links = NoRows
  /\ d.events = Row(r.id, r)
  /\ \A c \in DOMAIN d.candidates : d.candidates[c].event = r.id /\ d.candidates[c].superseding = {}
  /\ \A b : b \in DOMAIN d.beliefs <=> b \in BeliefsOf(claims)
  /\ \A i \in DOMAIN claims : d.beliefs[claims[i].belief].subject = claims[i].subject
  /\ \A b \in DOMAIN d.beliefs :
       /\ IsTable(d.beliefs[b]) /\ DOMAIN d.beliefs[b] = BeliefFields
       /\ \A x \in d.beliefs[b].dependencies :
            \/ x = r.id
            \/ b \in DOMAIN s.beliefs /\ x \in s.beliefs[b].dependencies
            \/ \E m \in DOMAIN s.links : x = s.links[m].event

\* The delta of claims has such rows.
LEMMA ClaimsWrite ==
  ASSUME NEW s, NEW r, NEW recorded, ClaimsReady(s, r.body.claims)
  PROVE  ClaimRowsWritten(s, ClaimsDelta(s, r, recorded), r)
<1>1. PICK d, claims : d = ClaimsDelta(s, r, recorded) /\ claims = r.body.claims
  OBVIOUS
<1>2. /\ d.entities = NoRows /\ d.links = NoRows
      /\ d.candidates = CandidateRows(claims, DOMAIN claims, r, recorded)
      /\ d.events = Row(r.id, r)
  BY <1>1, ClaimsDeltaTables
<1>3. /\ DOMAIN d = TableNames
      /\ \A k : k \in DOMAIN d.beliefs <=> k \in BeliefsOf(claims)
      /\ \A k \in BeliefsOf(claims) : d.beliefs[k] = BeliefWithClaims(s, r, recorded, k)
  BY <1>1, ClaimsDeltaBeliefs
<1>4. /\ ClaimsReady(s, claims) /\ Len(claims) \in Nat /\ DOMAIN claims = 1..Len(claims)
      /\ \A i \in DOMAIN claims : claims[i].mention \in DOMAIN s.links
      /\ \A i, j \in DOMAIN claims : claims[i].candidate = claims[j].candidate => i = j
  BY <1>1 DEF ClaimsReady, AdmitsClaims, AdmitsClaim
<1>5. \A c \in DOMAIN d.candidates : d.candidates[c].event = r.id /\ d.candidates[c].superseding = {}
  <2>1. SUFFICES ASSUME NEW c \in DOMAIN d.candidates
                 PROVE  d.candidates[c].event = r.id /\ d.candidates[c].superseding = {}
    OBVIOUS
  <2>2. PICK i \in DOMAIN claims : c = claims[i].candidate
    BY <1>2, <1>4, CandidateRowsHold
  <2>3. d.candidates[c] = NewCandidate(claims[i], r, recorded)
    BY <1>2, <1>4, <2>2, CandidateRowsHold
  <2>4. QED
    BY <2>3, NewCandidateFields, NewCandidateNames
<1>6. ASSUME NEW k \in DOMAIN claims
      PROVE  LET b == claims[k].belief  row == d.beliefs[claims[k].belief] IN
             /\ row.subject = claims[k].subject
             /\ IsTable(row) /\ DOMAIN row = BeliefFields
             /\ \A x \in row.dependencies :
                  \/ x = r.id
                  \/ b \in DOMAIN s.beliefs /\ x \in s.beliefs[b].dependencies
                  \/ \E m \in DOMAIN s.links : x = s.links[m].event
  <2>1. PICK b, mine, prior, row : /\ b = claims[k].belief
                                   /\ mine = MineOf(claims, b, Len(claims))
                                   /\ prior = PriorRow(s, claims, mine, b)
                                   /\ row = BeliefWithClaims(s, r, recorded, b)
    OBVIOUS
  <2>2. b \in BeliefsOf(claims) /\ d.beliefs[b] = row
    BY <1>3, <2>1 DEF BeliefsOf
  <2>3. k \in mine /\ \A i \in mine : i \in DOMAIN claims /\ claims[i].belief = b
    BY <1>4, <2>1 DEF MineOf
  <2>4. /\ b \in DOMAIN s.beliefs => prior = s.beliefs[b]
        /\ b \notin DOMAIN s.beliefs => prior = NewBelief(claims[k])
        /\ IsTable(prior) /\ DOMAIN prior = BeliefFields /\ ScopeOf(prior) = ScopeOf(claims[k])
    BY <1>4, <2>1, <2>3, PriorIs
  <2>5. /\ IsTable(row) /\ DOMAIN row = BeliefFields /\ row.subject = prior.subject
        /\ row.dependencies = prior.dependencies \cup {r.id} \cup LinksOf(s, claims, mine)
    <3>1. claims = r.body.claims /\ DOMAIN claims = 1..Len(claims)
      BY <1>1, <1>4
    <3>2. mine = MineOf(claims, b, Len(claims)) /\ prior = PriorRow(s, claims, mine, b)
      BY ONLY <2>1
    <3>3. row = BeliefWithClaims(s, r, recorded, b) /\ IsTable(prior) /\ DOMAIN prior = BeliefFields
      BY ONLY <2>1, <2>4
    <3>4. QED
      BY ONLY <3>1, <3>2, <3>3, ReducedRowFields
  <2>6. prior.subject = claims[k].subject
    BY <2>4 DEF ScopeOf
  <2>7. b \notin DOMAIN s.beliefs => prior.dependencies = {}
    BY <2>4 DEF NewBelief
  <2>8. \A x \in LinksOf(s, claims, mine) : \E m \in DOMAIN s.links : x = s.links[m].event
    BY <1>4, <2>3 DEF LinksOf
  <2>9. \A x \in row.dependencies :
          \/ x = r.id
          \/ b \in DOMAIN s.beliefs /\ x \in s.beliefs[b].dependencies
          \/ \E m \in DOMAIN s.links : x = s.links[m].event
    BY <2>4, <2>5, <2>7, <2>8
  <2>10. QED
    BY <2>1, <2>2, <2>5, <2>6, <2>9
<1>7. \A b \in DOMAIN d.beliefs : \E k \in DOMAIN claims : b = claims[k].belief
  BY <1>3 DEF BeliefsOf
<1>8. \A x : x \notin DOMAIN NoRows
  BY DEF NoRows
<1>9. QED
  BY <1>1, <1>2, <1>3, <1>5, <1>6, <1>7, <1>8 DEF ClaimRowsWritten

\* The delta of an observation refers to its event, and is about its claims.
LEMMA ObservationWrites ==
  ASSUME NEW s, NEW r, NEW recorded, ClaimsReady(s, r.body.claims), r.type = "observation_recorded"
  PROVE  DeltaRefers(s, ClaimsDelta(s, r, recorded), r) /\ DeltaAbout(s, ClaimsDelta(s, r, recorded), r)
<1>1. PICK d : d = ClaimsDelta(s, r, recorded)
  OBVIOUS
<1>2. ClaimRowsWritten(s, d, r)
  BY <1>1, ClaimsWrite
<1>3. DeltaRefers(s, d, r)
  BY <1>2 DEF ClaimRowsWritten, DeltaRefers
<1>4. DeltaAbout(s, d, r)
  BY <1>2 DEF ClaimRowsWritten, DeltaAbout, Transitions
<1>5. QED
  BY <1>1, <1>3, <1>4

\* The delta of a transition refers to its event, and is about its belief.
LEMMA TransitionWrites ==
  ASSUME NEW s, NEW r, NEW recorded, NEW pos, Consistent(s), Tabular(s), WellFormed(r), AdmitsTransition(s, r)
  PROVE  LET e == TransitionDelta(s, r, recorded, pos) IN DeltaRefers(s, e, r) /\ DeltaAbout(s, e, r)
<1>1. PICK d, e, b, ended : /\ d = Claimed(s, r, recorded)
                            /\ e = TransitionDelta(s, r, recorded, pos)
                            /\ b = TransitionBelief(r)
                            /\ ended = EndedRows(s, r)
  OBVIOUS
<1>2. /\ r.type \in Transitions /\ b \in DOMAIN s.beliefs
      /\ IsTable(s.beliefs[b]) /\ DOMAIN s.beliefs[b] = BeliefFields
      /\ r.body.claims \in Seq({r.body.claims[i] : i \in DOMAIN r.body.claims})
      /\ \A t \in r.body.targets : t \in DOMAIN s.candidates
      /\ \A c \in DOMAIN s.candidates : DOMAIN s.candidates[c] = CandidateFields
  BY <1>1 DEF AdmitsTransition, AdmitsTarget, Consistent, CandidatesPlaced, Tabular, WellFormed
<1>3. /\ DOMAIN d = TableNames /\ \A x : x \notin DOMAIN d.entities /\ x \notin DOMAIN d.links
      /\ d.events = Row(r.id, r)
      /\ \A c \in DOMAIN d.candidates : d.candidates[c].event = r.id /\ d.candidates[c].superseding = {}
      /\ \A k : k \in DOMAIN d.beliefs <=> k = b
      /\ IsTable(d.beliefs[b]) /\ DOMAIN d.beliefs[b] = BeliefFields
      /\ d.beliefs[b].subject = s.beliefs[b].subject
      /\ \A x \in d.beliefs[b].dependencies :
           x = r.id \/ x \in s.beliefs[b].dependencies \/ \E m \in DOMAIN s.links : x = s.links[m].event
  <2>1. CASE r.body.claims = <<>>
    <3>1. d = ExpiryDelta(s, r)
      BY <1>1, <2>1 DEF Claimed
    <3>2. PICK new : new = d.beliefs[b]
      OBVIOUS
    <3>3. ExpiryWritten(s, d, r, b, new)
      BY <1>1, <1>2, <3>1, <3>2, ExpiryTables
    <3>4. \A x : x \notin DOMAIN NoRows
      BY DEF NoRows
    <3>5. QED
      BY <3>2, <3>3, <3>4 DEF ExpiryWritten
  <2>2. CASE r.body.claims # <<>>
    <3>1. d = ClaimsDelta(s, r, recorded)
      BY <1>1, <2>2 DEF Claimed
    <3>2. AdmitsClaims(s, r.body.claims) /\ BeliefsOf(r.body.claims) = {b}
      BY <1>1, <2>2, TransitionClaims
    <3>3. Len(r.body.claims) \in Nat /\ DOMAIN r.body.claims = 1..Len(r.body.claims)
      BY <1>2
    <3>4. ClaimsReady(s, r.body.claims)
      BY <3>2, <3>3 DEF ClaimsReady, Consistent
    <3>5. ClaimRowsWritten(s, d, r)
      BY <3>1, <3>4, ClaimsWrite
    <3>6. PICK i \in DOMAIN r.body.claims : r.body.claims[i].belief = b
      BY <3>2 DEF BeliefsOf
    <3>7. ScopeOf(s.beliefs[b]) = ScopeOf(r.body.claims[i])
      BY <1>2, <3>2, <3>6 DEF AdmitsClaims, AdmitsClaim
    <3>8. r.body.claims[i].subject = s.beliefs[b].subject
      BY <3>7 DEF ScopeOf
    <3>9. d.beliefs[b].subject = s.beliefs[b].subject
      BY <3>5, <3>6, <3>8 DEF ClaimRowsWritten
    <3>10. \A k : k \in DOMAIN d.beliefs <=> k = b
      BY <3>2, <3>5 DEF ClaimRowsWritten
    <3>11. QED
      BY <3>5, <3>9, <3>10 DEF ClaimRowsWritten
  <2>3. QED
    BY <2>1, <2>2
<1>4. /\ e.entities = d.entities /\ e.links = d.links /\ e.events = d.events
      /\ e.candidates = Upsert(ended, d.candidates)
      /\ \A k : k \in DOMAIN e.beliefs <=> k = b
      /\ e.beliefs[b] = EndedRow(d.beliefs[b], ended)
  BY <1>1, <1>3, TransitionDeltaTables
<1>5. /\ IsTable(e.beliefs[b]) /\ e.beliefs[b].subject = d.beliefs[b].subject
      /\ e.beliefs[b].dependencies = d.beliefs[b].dependencies
  BY <1>3, <1>4, EndedRowFields
<1>6. \A c \in DOMAIN ended : /\ c \in DOMAIN s.candidates
                              /\ ended[c].event = s.candidates[c].event /\ ended[c].superseding = {r.id}
  <2>1. ASSUME NEW c \in DOMAIN ended
        PROVE  /\ c \in DOMAIN s.candidates
               /\ ended[c].event = s.candidates[c].event /\ ended[c].superseding = {r.id}
    <3>1. c \in r.body.targets /\ ended[c] = [s.candidates[c] EXCEPT !.status = StatusOf[r.type], !.superseding = {r.id}]
      BY <1>1 DEF EndedRows
    <3>2. PICK old, st : old = s.candidates[c] /\ st = StatusOf[r.type]
      OBVIOUS
    <3>3. DOMAIN old = CandidateFields /\ ended[c] = [old EXCEPT !.status = st, !.superseding = {r.id}]
      BY <1>2, <3>1, <3>2
    <3>4. ended[c].event = old.event /\ ended[c].superseding = {r.id}
      BY ONLY <3>3 DEF CandidateFields
    <3>5. QED
      BY <1>2, <3>1, <3>2, <3>4
  <2>2. QED
    BY <2>1
<1>7. \A c \in DOMAIN e.candidates :
        /\ \/ e.candidates[c].event = r.id
           \/ /\ c \in DOMAIN s.candidates
              /\ e.candidates[c].event = s.candidates[c].event
        /\ \A x \in e.candidates[c].superseding : x = r.id
  <2>1. /\ \A c : c \in DOMAIN e.candidates <=> c \in DOMAIN ended \/ c \in DOMAIN d.candidates
        /\ \A c \in DOMAIN ended : e.candidates[c] = ended[c]
        /\ \A c \in DOMAIN d.candidates : c \notin DOMAIN ended => e.candidates[c] = d.candidates[c]
    BY <1>4, UpsertRows
  <2>2. QED
    BY <1>3, <1>6, <2>1
<1>8. DeltaRefers(s, e, r)
  BY <1>2, <1>3, <1>4, <1>5, <1>7 DEF DeltaRefers
<1>9. DeltaAbout(s, e, r)
  <2>1. r.type # "entity_mention_recorded" /\ r.type # "observation_recorded"
    BY <1>2 DEF Transitions
  <2>2. \A x : x \notin DOMAIN e.entities
    BY <1>3, <1>4
  <2>3. QED
    BY <1>1, <1>2, <1>3, <1>4, <1>5, <2>1, <2>2 DEF DeltaAbout
<1>10. QED
  BY <1>1, <1>8, <1>9

\* The same of any admitted entry.
LEMMA AdmittedDelta ==
  ASSUME NEW v, NEW s, NEW e, NEW pos, Consistent(s), Tabular(s), WellFormed(e.req), Admits(v, s, e.req)
  PROVE  LET d == Delta(s, e.req, e.recorded, pos) IN
         DeltaRefers(s, d, e.req) /\ DeltaAbout(s, d, e.req)
<1>1. CASE AdmitsMention(s, e.req)
  BY <1>1, MentionWrites DEF AdmitsMention, Delta
<1>2. CASE AdmitsObservation(s, e.req)
  <2>1. AdmitsClaims(s, e.req.body.claims) /\ e.req.type = "observation_recorded"
    BY <1>2 DEF AdmitsObservation
  <2>2. Len(e.req.body.claims) \in Nat /\ DOMAIN e.req.body.claims = 1..Len(e.req.body.claims)
    BY DEF WellFormed
  <2>3. ClaimsReady(s, e.req.body.claims)
    BY <2>1, <2>2 DEF ClaimsReady, Consistent
  <2>4. Delta(s, e.req, e.recorded, pos) = ClaimsDelta(s, e.req, e.recorded)
    BY <2>1 DEF Delta
  <2>5. QED
    BY <2>1, <2>3, <2>4, ObservationWrites
<1>3. CASE AdmitsTransition(s, e.req)
  <2>1. e.req.type # "entity_mention_recorded" /\ e.req.type # "observation_recorded"
    BY <1>3 DEF AdmitsTransition, Transitions
  <2>2. Delta(s, e.req, e.recorded, pos) = TransitionDelta(s, e.req, e.recorded, pos)
    BY <2>1 DEF Delta
  <2>3. QED
    BY <1>3, <2>2, TransitionWrites
<1>4. QED
  BY <1>1, <1>2, <1>3 DEF Admits

\* An admitted entry leaves tables that are functions, whose rows refer to their events.
LEMMA AdmittedKeepsRows ==
  ASSUME NEW v, NEW s, NEW e, NEW pos, Consistent(s), Tabular(s), Referenced(s), WellFormed(e.req),
         Admits(v, s, e.req)
  PROVE  /\ Tabular(Apply(s, e, pos)) /\ Referenced(Apply(s, e, pos))
         /\ EventAdded(s, Apply(s, e, pos), e.req)
<1>1. PICK d, t, r : d = Delta(s, e.req, e.recorded, pos) /\ t = Publish(s, d) /\ r = e.req
  OBVIOUS
<1>2. DOMAIN s = TableNames /\ r.id \notin DOMAIN s.events
  BY <1>1 DEF Consistent, Admits
<1>3. /\ IsTable(t) /\ DOMAIN t = TableNames
      /\ t.entities = Upsert(d.entities, s.entities) /\ t.links = Upsert(d.links, s.links)
      /\ t.beliefs = Upsert(d.beliefs, s.beliefs) /\ t.candidates = Upsert(d.candidates, s.candidates)
      /\ t.events = Upsert(d.events, s.events) /\ t.relations = Upsert(d.relations, s.relations)
  BY <1>1, <1>2, PublishTables
<1>4. DeltaRefers(s, d, r)
  BY <1>1, AdmittedDelta
<1>5. EventAdded(s, t, r)
  <2>1. t.events = Upsert(Row(r.id, r), s.events)
    BY <1>3, <1>4 DEF DeltaRefers
  <2>2. QED
    BY <1>2, <2>1, RowJoins DEF EventAdded
<1>6. \A x \in DOMAIN s.events : x \in DOMAIN t.events
  BY <1>5 DEF EventAdded
<1>7. r.id \in DOMAIN t.events
  BY <1>5 DEF EventAdded
<1>8. /\ \A b : b \in DOMAIN t.beliefs <=> b \in DOMAIN d.beliefs \/ b \in DOMAIN s.beliefs
      /\ \A b \in DOMAIN d.beliefs : t.beliefs[b] = d.beliefs[b]
      /\ \A b \in DOMAIN s.beliefs : b \notin DOMAIN d.beliefs => t.beliefs[b] = s.beliefs[b]
  BY <1>3, UpsertRows
<1>9. Tabular(t)
  <2>1. \A k \in TableNames : IsTable(t[k])
    BY <1>3, UpsertTable DEF TableNames
  <2>2. \A b \in DOMAIN t.beliefs : IsTable(t.beliefs[b])
    BY <1>4, <1>8 DEF DeltaRefers, Tabular
  <2>3. QED
    BY <1>3, <2>1, <2>2 DEF Tabular
<1>10. \A b \in DOMAIN t.beliefs : \A x \in t.beliefs[b].dependencies : x \in DOMAIN t.events
  BY <1>4, <1>6, <1>7, <1>8 DEF DeltaRefers, Referenced
<1>11. \A x \in DOMAIN t.entities : t.entities[x].event \in DOMAIN t.events
  <2>1. /\ \A x : x \in DOMAIN t.entities <=> x \in DOMAIN d.entities \/ x \in DOMAIN s.entities
        /\ \A x \in DOMAIN d.entities : t.entities[x] = d.entities[x]
        /\ \A x \in DOMAIN s.entities : x \notin DOMAIN d.entities => t.entities[x] = s.entities[x]
    BY <1>3, UpsertRows
  <2>2. QED
    BY <1>4, <1>6, <1>7, <2>1 DEF DeltaRefers, Referenced
<1>12. \A x \in DOMAIN t.links : t.links[x].event \in DOMAIN t.events
  <2>1. /\ \A x : x \in DOMAIN t.links <=> x \in DOMAIN d.links \/ x \in DOMAIN s.links
        /\ \A x \in DOMAIN d.links : t.links[x] = d.links[x]
        /\ \A x \in DOMAIN s.links : x \notin DOMAIN d.links => t.links[x] = s.links[x]
    BY <1>3, UpsertRows
  <2>2. QED
    BY <1>4, <1>6, <1>7, <2>1 DEF DeltaRefers, Referenced
<1>13. \A c \in DOMAIN t.candidates : /\ t.candidates[c].event \in DOMAIN t.events
                                      /\ \A x \in t.candidates[c].superseding : x \in DOMAIN t.events
  <2>1. /\ \A x : x \in DOMAIN t.candidates <=> x \in DOMAIN d.candidates \/ x \in DOMAIN s.candidates
        /\ \A x \in DOMAIN d.candidates : t.candidates[x] = d.candidates[x]
        /\ \A x \in DOMAIN s.candidates : x \notin DOMAIN d.candidates => t.candidates[x] = s.candidates[x]
    BY <1>3, UpsertRows
  <2>2. QED
    BY <1>4, <1>6, <1>7, <2>1 DEF DeltaRefers, Referenced
<1>14. Referenced(t)
  BY <1>10, <1>11, <1>12, <1>13 DEF Referenced
<1>15. Apply(s, e, pos) = t
  BY <1>1 DEF Apply
<1>16. QED
  BY <1>1, <1>5, <1>9, <1>14, <1>15

-----------------------------------------------------------------------------
(***************************************************************************)
(* The tables of a replay.                                                 *)
(***************************************************************************)
\* The tables before the first entry.
LEMMA EmptyRows == Tabular(EmptySnapshot) /\ Referenced(EmptySnapshot)
<1>1. IsTable(NoRows) /\ \A k : k \notin DOMAIN NoRows
  BY DEF IsTable, NoRows
<1>2. /\ IsTable(EmptySnapshot) /\ DOMAIN EmptySnapshot = TableNames
      /\ \A t \in TableNames : EmptySnapshot[t] = NoRows
  BY DEF EmptySnapshot, TableNames, IsTable
<1>3. /\ EmptySnapshot.entities = NoRows /\ EmptySnapshot.links = NoRows
      /\ EmptySnapshot.beliefs = NoRows /\ EmptySnapshot.candidates = NoRows
  BY DEF EmptySnapshot
<1>4. Tabular(EmptySnapshot)
  BY <1>1, <1>2, <1>3 DEF Tabular
<1>5. Referenced(EmptySnapshot)
  BY <1>1, <1>3 DEF Referenced
<1>6. QED
  BY <1>4, <1>5

\* The dependency rows of s are the first n entries.
EventsAre(s, l, n) ==
  /\ \A x \in DOMAIN s.events : \E i \in 1..n : x = l[i].req.id
  /\ \A i \in 1..n : l[i].req.id \in DOMAIN s.events

\* The tables of a replay are functions, refer to events they depend on, and depend on the entries replayed.
LEMMA ReplayedRows ==
  ASSUME NEW l, Len(l) \in Nat, NEW n \in 0..Len(l), AdmittedUpTo(l, n)
  PROVE  LET s == ReplayOf(l, EmptySnapshot)[n] IN
         Tabular(s) /\ Referenced(s) /\ EventsAre(s, l, n)
<1> DEFINE R    == ReplayOf(l, EmptySnapshot)
           Holds(k) == Tabular(R[k]) /\ Referenced(R[k]) /\ EventsAre(R[k], l, k)
           Bad  == {k \in 0..n : ~Holds(k)}
<1>1. Holds(0)
  <2>1. R[0] = EmptySnapshot
    BY ReplaySteps
  <2>2. \A x : x \notin DOMAIN EmptySnapshot.events
    BY DEF EmptySnapshot, NoRows
  <2>3. EventsAre(R[0], l, 0)
    BY <2>1, <2>2 DEF EventsAre
  <2>4. QED
    BY <2>1, <2>3, EmptyRows
<1>2. ASSUME NEW k \in 1..n, Holds(k-1) PROVE Holds(k)
  <2>1. PICK s, t : s = R[k-1] /\ t = R[k]
    OBVIOUS
  <2>2. k \in 1..Len(l) /\ k - 1 \in 0..Len(l)
    OBVIOUS
  <2>3. t = Apply(s, l[k], k)
    BY <2>1, <2>2, ReplaySteps
  <2>4. AdmittedUpTo(l, k-1)
    BY DEF AdmittedUpTo
  <2>5. Consistent(s)
    BY <2>1, <2>2, <2>4, ReplayedTables
  <2>6. WellFormed(l[k].req) /\ \E v : Admits(v, s, l[k].req)
    BY <2>1 DEF AdmittedUpTo
  <2>7. Tabular(s) /\ Referenced(s) /\ EventsAre(s, l, k-1)
    BY <1>2, <2>1
  <2>8. Tabular(t) /\ Referenced(t) /\ EventAdded(s, t, l[k].req)
    BY <2>3, <2>5, <2>6, <2>7, AdmittedKeepsRows
  <2>9. \A i \in 1..k : i = k \/ i \in 1..(k-1)
    OBVIOUS
  <2>10. EventsAre(t, l, k)
    BY <2>7, <2>8, <2>9 DEF EventsAre, EventAdded
  <2>11. QED
    BY <2>1, <2>8, <2>10
<1> HIDE DEF Holds
<1>3. SUFFICES ASSUME Bad # {} PROVE FALSE
  BY DEF Holds
<1>4. Bad \in SUBSET Nat
  OBVIOUS
<1>5. PICK m \in Bad : \A k \in Bad : ~(k < m)
  <2> HIDE DEF Bad
  <2> QED BY <1>3, <1>4, Least
<1>6. m \in 1..n /\ m - 1 \in 0..n /\ m - 1 < m
  BY <1>1
<1>7. Holds(m-1)
  BY <1>5, <1>6
<1>8. QED
  BY <1>2, <1>6, <1>7

-----------------------------------------------------------------------------
(***************************************************************************)
(* The reconstruction of a log of admitted entries.                        *)
(***************************************************************************)
IsReplayedRun(f, v, entries, p, n) ==
  f = [i \in 0..n |-> IF i = 0 THEN NothingReplayed ELSE ReplayedWith(v, p, f[i-1], entries[i])]

\* There is a run of the reconstruction.
LEMMA ReplayedRunExists ==
  ASSUME NEW v, NEW entries, NEW p, NEW n \in Nat
  PROVE  \E f : IsReplayedRun(f, v, entries, p, n)
<1> DEFINE Bad == {k \in Nat : ~\E f : IsReplayedRun(f, v, entries, p, k)}
<1>1. SUFFICES ASSUME Bad # {} PROVE FALSE
  OBVIOUS
<1>2. Bad \in SUBSET Nat
  OBVIOUS
<1>3. PICK m \in Bad : \A k \in Bad : ~(k < m)
  <2> HIDE DEF Bad
  <2> QED BY <1>1, <1>2, Least
<1>4. m # 0
  <2> DEFINE f == [i \in 0..0 |-> NothingReplayed]
  <2>1. IsReplayedRun(f, v, entries, p, 0)
    BY DEF IsReplayedRun
  <2> QED BY <2>1
<1>5. m - 1 \in Nat /\ m - 1 \notin Bad
  BY <1>3, <1>4
<1>6. PICK f : IsReplayedRun(f, v, entries, p, m - 1)
  BY <1>5
<1> DEFINE g == [i \in 0..m |-> IF i = 0 THEN NothingReplayed ELSE ReplayedWith(v, p, f[i-1], entries[i])]
<1>7. ASSUME NEW i \in 0..m, i # 0 PROVE g[i-1] = f[i-1]
  BY <1>4, <1>6, <1>7 DEF IsReplayedRun
<1>8. IsReplayedRun(g, v, entries, p, m)
  BY <1>7 DEF IsReplayedRun
<1>9. QED
  BY <1>8

\* What the reconstruction has after each entry.
LEMMA ReplayedSteps ==
  ASSUME NEW v, NEW entries, NEW p, Len(entries) \in Nat
  PROVE  /\ Replayed(v, entries, p)[0] = NothingReplayed
         /\ \A i \in 1..Len(entries) :
              Replayed(v, entries, p)[i] = ReplayedWith(v, p, Replayed(v, entries, p)[i-1], entries[i])
<1> DEFINE run == Replayed(v, entries, p)
<1>1. run = CHOOSE f : IsReplayedRun(f, v, entries, p, Len(entries))
  BY DEF Replayed, IsReplayedRun
<1> HIDE DEF run
<1>2. IsReplayedRun(run, v, entries, p, Len(entries))
  BY <1>1, ReplayedRunExists
<1>3. QED
  BY <1>2 DEF IsReplayedRun, run

OutcomeFields == {"complete", "records", "published", "failures", "unchecked"}

\* The first n entries hold no event that projector v has no semantics for.
KnownUpTo(v, l, n) == v = "3" \/ \A j \in 1..n : l[j].req.type \notin Transitions

\* Projector v accepts every entry it knows, on the replay of those before it.
Accepts(v, l) ==
  \A i \in 1..Len(l) : KnownUpTo(v, l, i) => Admits(v, ReplayOf(l, EmptySnapshot)[i-1], l[i].req)

\* What the verifier has after n entries: the reducer's records, or nothing it can say.
Outcome(acc, v, l, n, p) ==
  LET R == ReplayOf(l, EmptySnapshot) IN
  /\ DOMAIN acc = OutcomeFields /\ acc.failures = {}
  /\ KnownUpTo(v, l, n) =>
       /\ acc.complete = TRUE /\ acc.unchecked = {} /\ acc.records = R[n]
       /\ p \in 1..n => acc.published = R[p]
       /\ p \notin 1..n => acc.published = EmptySnapshot
  /\ ~KnownUpTo(v, l, n) => acc.complete = FALSE /\ acc.unchecked = {"coverage"}

\* An entry with the one content its envelope commits to, which projector v knows.
ReadAndKnown(v, e) == e.contents = {e.req} /\ (v = "3" \/ e.req.type \notin Transitions)

\* The records t are what the verifier replays the entry e to.
RepliesWith(acc, e, t) == ReplayEntry(acc.records, e.req, e.recorded, e.position) = {t}

Open(acc) == DOMAIN acc = OutcomeFields /\ acc.complete = TRUE

WentOn(next, acc, e, t, p) ==
  /\ Open(next) /\ next.records = t
  /\ next.failures = acc.failures /\ next.unchecked = acc.unchecked
  /\ e.position = p => next.published = t
  /\ e.position # p => next.published = acc.published

Stopped(next, acc) ==
  DOMAIN next = OutcomeFields /\ next.complete = FALSE /\ next.failures = acc.failures /\ next.unchecked = {"coverage"}

\* One more entry that the replay accepts.
LEMMA ReplayedOn ==
  ASSUME NEW v, NEW p, NEW acc, NEW e, NEW t, Open(acc), ReadAndKnown(v, e), RepliesWith(acc, e, t)
  PROVE  WentOn(ReplayedWith(v, p, acc, e), acc, e, t, p)
<1> DEFINE after == UNION {ReplayEntry(acc.records, r, e.recorded, e.position) : r \in e.contents}
           s     == CHOOSE x \in after : TRUE
           pub   == IF e.position = p THEN s ELSE acc.published
<1>1. after = {t}
  BY DEF ReadAndKnown, RepliesWith
<1>2. s = t
  BY <1>1
<1>3. PICK next : next = ReplayedWith(v, p, acc, e)
  OBVIOUS
<1>4. next = [acc EXCEPT !.records = s, !.published = pub]
  <2>1. after # {}
    BY <1>1
  <2>2. ~(v # "3" /\ e.req.type \in Transitions) /\ acc.complete = TRUE
    BY DEF ReadAndKnown, Open
  <2>3. QED
    BY <1>3, <2>1, <2>2 DEF ReplayedWith
<1>5. /\ e.position = p => pub = t
      /\ e.position # p => pub = acc.published
  BY <1>2
<1> HIDE DEF after, s, pub
<1>6. /\ DOMAIN next = OutcomeFields /\ next.complete = acc.complete /\ next.records = s
      /\ next.failures = acc.failures /\ next.unchecked = acc.unchecked /\ next.published = pub
  BY ONLY <1>4, Open(acc) DEF Open, OutcomeFields
<1>7. WentOn(next, acc, e, t, p)
  BY <1>2, <1>5, <1>6 DEF WentOn, Open
<1>8. QED
  BY <1>3, <1>7

\* One more entry that projector v has no semantics for.
LEMMA ReplayStops ==
  ASSUME NEW v, NEW p, NEW acc, NEW e, Open(acc), v # "3", e.req.type \in Transitions
  PROVE  Stopped(ReplayedWith(v, p, acc, e), acc)
<1>1. PICK next : next = ReplayedWith(v, p, acc, e)
  OBVIOUS
<1>2. next = [acc EXCEPT !.complete = FALSE, !.unchecked = {"coverage"}]
  BY <1>1 DEF ReplayedWith, Open
<1>3. Stopped(next, acc)
  BY ONLY <1>2, Open(acc) DEF Open, OutcomeFields, Stopped
<1>4. QED
  BY <1>1, <1>3

\* The entries the verifier reads on from a log whose payloads it found.
EntriesOf(l) ==
  [i \in DOMAIN l |-> [position |-> i, recorded |-> l[i].recorded, req |-> l[i].req, contents |-> {l[i].req}]]

\* An entry read back.
LEMMA EntryIs ==
  ASSUME NEW l, NEW i \in DOMAIN l
  PROVE  /\ EntriesOf(l)[i].position = i /\ EntriesOf(l)[i].recorded = l[i].recorded
         /\ EntriesOf(l)[i].req = l[i].req /\ EntriesOf(l)[i].contents = {l[i].req}
BY DEF EntriesOf

\* As many entries are read back as the log has.
LEMMA EntriesLength ==
  ASSUME NEW l, Len(l) \in Nat, DOMAIN l = 1..Len(l)
  PROVE  Len(EntriesOf(l)) = Len(l) /\ DOMAIN EntriesOf(l) = 1..Len(l)
<1>1. DOMAIN EntriesOf(l) = 1..Len(l)
  BY DEF EntriesOf
<1>2. PICK f, n, rows : f = EntriesOf(l) /\ n = Len(l) /\ n \in Nat /\ rows = {EntriesOf(l)[i] : i \in 1..Len(l)}
  OBVIOUS
<1>3. f \in [1..n -> rows]
  BY <1>2 DEF EntriesOf
<1>4. f \in Seq(rows) /\ Len(f) = n
  BY ONLY <1>3, <1>2
<1>5. QED
  BY <1>1, <1>2, <1>4

\* The independent reconstruction of a log the projector accepts is the reducer's replay,
\* and of one with events it has no semantics for, nothing.
LEMMA ReconstructionIs ==
  ASSUME NEW v, NEW l, Len(l) \in Nat, DOMAIN l = 1..Len(l), NEW p,
         AdmittedUpTo(l, Len(l)), Accepts(v, l)
  PROVE  Outcome(Reconstruction(v, EntriesOf(l), p), v, l, Len(l), p)
<1>1. PICK entries, run, R : /\ entries = EntriesOf(l)
                             /\ run = Replayed(v, entries, p)
                             /\ R = ReplayOf(l, EmptySnapshot)
  OBVIOUS
<1>2. Len(entries) = Len(l)
  BY <1>1, EntriesLength
<1>3. /\ run[0] = NothingReplayed
      /\ \A i \in 1..Len(l) : run[i] = ReplayedWith(v, p, run[i-1], entries[i])
  BY <1>1, <1>2, ReplayedSteps
<1>4. /\ R[0] = EmptySnapshot
      /\ \A i \in 1..Len(l) : R[i] = Apply(R[i-1], l[i], i)
  BY <1>1, ReplaySteps
<1>5. Outcome(run[0], v, l, 0, p)
  <2>1. DOMAIN NothingReplayed = OutcomeFields
    BY DEF NothingReplayed, OutcomeFields
  <2>2. KnownUpTo(v, l, 0)
    BY DEF KnownUpTo
  <2>3. p \notin 1..0
    OBVIOUS
  <2>4. QED
    BY <1>1, <1>3, <1>4, <2>1, <2>2, <2>3 DEF Outcome, NothingReplayed
<1>6. ASSUME NEW k \in 1..Len(l), Outcome(run[k-1], v, l, k-1, p) PROVE Outcome(run[k], v, l, k, p)
  <2>1. PICK acc, next, e, s, t : /\ acc = run[k-1] /\ next = run[k] /\ e = entries[k]
                                  /\ s = R[k-1] /\ t = R[k]
    OBVIOUS
  <2>2. next = ReplayedWith(v, p, acc, e) /\ t = Apply(s, l[k], k)
    BY <1>3, <1>4, <2>1
  <2>3. e.position = k /\ e.recorded = l[k].recorded /\ e.req = l[k].req /\ e.contents = {e.req}
    BY <1>1, <2>1, EntryIs
  <2>4. DOMAIN acc = OutcomeFields /\ acc.failures = {}
    BY <1>6, <2>1 DEF Outcome
  <2>5. \A j \in 1..k : j = k \/ j \in 1..(k-1)
    OBVIOUS
  <2>6. CASE KnownUpTo(v, l, k)
    <3>1. KnownUpTo(v, l, k-1)
      BY <2>6 DEF KnownUpTo
    <3>2. /\ acc.complete = TRUE /\ acc.unchecked = {} /\ acc.records = s
          /\ p \in 1..(k-1) => acc.published = R[p]
          /\ p \notin 1..(k-1) => acc.published = EmptySnapshot
      BY <1>1, <1>6, <2>1, <3>1 DEF Outcome
    <3>3. ReplayEntry(s, e.req, e.recorded, e.position) = {t}
      <4>1. Admits(v, s, l[k].req)
        BY <1>1, <2>1, <2>6 DEF Accepts
      <4>2. AdmittedUpTo(l, k-1) /\ k - 1 \in 0..Len(l)
        BY DEF AdmittedUpTo
      <4>3. Consistent(s) /\ Tabular(s)
        BY <1>1, <2>1, <4>2, ReplayedTables, ReplayedRows
      <4>4. WellFormed(l[k].req)
        BY DEF AdmittedUpTo
      <4>5. PICK x, pos : x = l[k] /\ pos = k
        OBVIOUS
      <4>6. WellFormed(x.req) /\ Admits(v, s, x.req)
        BY <4>1, <4>4, <4>5
      <4>7. EntryReplayed(s, x, pos)
        BY ONLY <4>3, <4>6, EntryReplays
      <4>8. QED
        BY <2>2, <2>3, <4>5, <4>7 DEF EntryReplayed
    <3>4. ReadAndKnown(v, e)
      BY <2>3, <2>6 DEF KnownUpTo, ReadAndKnown
    <3>5. WentOn(next, acc, e, t, p)
      <4>1. RepliesWith(acc, e, t)
        BY <3>2, <3>3 DEF RepliesWith
      <4>2. Open(acc)
        BY <2>4, <3>2 DEF Open
      <4>3. WentOn(ReplayedWith(v, p, acc, e), acc, e, t, p)
        BY ONLY <3>4, <4>1, <4>2, ReplayedOn
      <4>4. QED
        BY <2>2, <4>3
    <3>6. p \in 1..k => next.published = R[p]
      BY <2>1, <2>3, <2>5, <3>2, <3>5 DEF WentOn
    <3>7. p \notin 1..k => next.published = EmptySnapshot
      <4>1. p \notin 1..k => p \notin 1..(k-1) /\ p # k
        OBVIOUS
      <4>2. QED
        BY <2>3, <3>2, <3>5, <4>1 DEF WentOn
    <3>8. QED
      BY <1>1, <2>1, <2>4, <2>6, <3>2, <3>5, <3>6, <3>7 DEF Outcome, WentOn, Open
  <2>7. CASE ~KnownUpTo(v, l, k)
    <3>1. CASE KnownUpTo(v, l, k-1)
      <4>1. v # "3" /\ e.req.type \in Transitions
        BY <2>3, <2>5, <2>7, <3>1 DEF KnownUpTo
      <4>2. Open(acc)
        BY <1>6, <2>1, <2>4, <3>1 DEF Outcome, Open
      <4>3. Stopped(ReplayedWith(v, p, acc, e), acc)
        BY ONLY <4>1, <4>2, ReplayStops
      <4>4. Stopped(next, acc)
        BY <2>2, <4>3
      <4>5. QED
        BY <2>1, <2>4, <2>7, <4>4 DEF Outcome, Stopped
    <3>2. CASE ~KnownUpTo(v, l, k-1)
      <4>1. acc.complete = FALSE /\ acc.unchecked = {"coverage"}
        BY <1>6, <2>1, <3>2 DEF Outcome
      <4>2. next = acc
        BY <2>2, <4>1 DEF ReplayedWith
      <4>3. QED
        BY <2>1, <2>4, <2>7, <4>1, <4>2 DEF Outcome
    <3>3. QED
      BY <3>1, <3>2
  <2>8. QED
    BY <2>6, <2>7
<1>7. \A k \in 0..Len(l) : Outcome(run[k], v, l, k, p)
  <2> DEFINE Bad == {k \in 0..Len(l) : ~Outcome(run[k], v, l, k, p)}
  <2>1. SUFFICES ASSUME Bad # {} PROVE FALSE
    OBVIOUS
  <2>2. Bad \in SUBSET Nat
    OBVIOUS
  <2>3. PICK m \in Bad : \A k \in Bad : ~(k < m)
    <3> HIDE DEF Bad
    <3> QED BY <2>1, <2>2, Least
  <2>4. m \in 1..Len(l) /\ m - 1 \in 0..Len(l) /\ m - 1 < m
    BY <1>5
  <2>5. Outcome(run[m-1], v, l, m-1, p)
    BY <2>3, <2>4
  <2>6. QED
    BY <1>6, <2>4, <2>5
<1>8. QED
  BY <1>1, <1>2, <1>7 DEF Reconstruction

-----------------------------------------------------------------------------
(***************************************************************************)
(* A verified log, on its own rows.                                        *)
(***************************************************************************)
\* l is a log the store verifies, of requests that are records of their fields.
LogSound(l) ==
  /\ Len(l) \in Nat /\ DOMAIN l = 1..Len(l)
  /\ \A i \in 1..Len(l) :
       /\ l[i].req = [field \in DOMAIN l[i].req |-> l[i].req[field]]
       /\ l[i].prev = (IF i = 1 THEN <<>> ELSE EventHash(l[i-1]))
       /\ i > 1 => l[i].recorded >= l[i-1].recorded
       /\ \A j \in 1..(i-1) : ~Conflicts(l[j].req, l[i].req)

EventRows(l) ==
  [i \in DOMAIN l |-> [position |-> i, req |-> l[i].req, recorded |-> l[i].recorded,
                       prev |-> l[i].prev, hash |-> EventHash(l[i]), key |-> Key(l[i].req)]]

PayloadRowsOf(l) == [i \in DOMAIN l |-> [event |-> l[i].req.id, body |-> l[i].req.body]]

\* d holds the log rows of l.
HoldsLog(d, l) == d.events = EventRows(l) /\ d.payloads = PayloadRowsOf(l)

\* A log row.
LEMMA EventRowIs ==
  ASSUME NEW l, NEW i \in DOMAIN l
  PROVE  LET row == EventRows(l)[i] IN
         /\ row.position = i /\ row.req = l[i].req /\ row.recorded = l[i].recorded
         /\ row.prev = l[i].prev /\ row.hash = EventHash(l[i]) /\ row.key = Key(l[i].req)
BY DEF EventRows

\* A payload row.
LEMMA PayloadRowIs ==
  ASSUME NEW l, NEW i \in DOMAIN l
  PROVE  PayloadRowsOf(l)[i].event = l[i].req.id /\ PayloadRowsOf(l)[i].body = l[i].req.body
BY DEF PayloadRowsOf

\* No two entries of a verified log conflict.
LEMMA EntriesDiffer ==
  ASSUME NEW l, LogSound(l), NEW i \in 1..Len(l), NEW j \in 1..Len(l), i # j
  PROVE  l[i].req.id # l[j].req.id /\ Key(l[i].req) # Key(l[j].req)
<1>1. Len(l) \in Nat
  BY DEF LogSound
<1>2. CASE j < i
  <2>1. j \in 1..(i-1)
    BY <1>1, <1>2
  <2>2. ~Conflicts(l[j].req, l[i].req)
    BY <2>1 DEF LogSound
  <2>3. QED
    BY <2>2 DEF Conflicts
<1>3. CASE i < j
  <2>1. i \in 1..(j-1)
    BY <1>1, <1>3
  <2>2. ~Conflicts(l[i].req, l[j].req)
    BY <2>1 DEF LogSound
  <2>3. QED
    BY <2>2 DEF Conflicts
<1>4. QED
  BY <1>1, <1>2, <1>3

\* The payload of the request r can be read, and is its body.
Stored(d, r) == Payload(d, r.id) = {r.body}

\* Each event has the one payload row that holds its body.
LEMMA PayloadIs ==
  ASSUME NEW d, NEW l, LogSound(l), HoldsLog(d, l), NEW i \in 1..Len(l)
  PROVE  Stored(d, l[i].req)
<1>1. DOMAIN d.payloads = 1..Len(l) /\ i \in DOMAIN l
  BY DEF HoldsLog, PayloadRowsOf, LogSound
<1>2. \A j \in 1..Len(l) : d.payloads[j].event = l[j].req.id /\ d.payloads[j].body = l[j].req.body
  BY PayloadRowIs DEF HoldsLog, LogSound
<1>3. PayloadRows(d, l[i].req.id) = {i}
  BY <1>1, <1>2, EntriesDiffer DEF PayloadRows
<1>4. Cardinality({i}) = 1
  BY FS_Singleton
<1>5. {d.payloads[j].body : j \in {i}} = {l[i].req.body}
  BY <1>2
<1>6. QED
  BY <1>3, <1>4, <1>5 DEF Payload, Stored

\* The verifier reads on the entries the log holds.
LEMMA ReadLogIs ==
  ASSUME NEW d, NEW l, LogSound(l), HoldsLog(d, l)
  PROVE  ReadLog(d) = EntriesOf(l)
<1>1. DOMAIN d.events = DOMAIN l /\ DOMAIN l = 1..Len(l)
  BY DEF HoldsLog, EventRows, LogSound
<1>2. ASSUME NEW i \in DOMAIN l
      PROVE  [position |-> d.events[i].position, recorded |-> d.events[i].recorded, req |-> d.events[i].req,
               contents |-> {[d.events[i].req EXCEPT !.body = b] : b \in Payload(d, d.events[i].req.id)}]
             = [position |-> i, recorded |-> l[i].recorded, req |-> l[i].req, contents |-> {l[i].req}]
  <2>1. PICK row, r : row = d.events[i] /\ r = l[i].req
    OBVIOUS
  <2>2. row.position = i /\ row.recorded = l[i].recorded /\ row.req = r
    BY <2>1, EventRowIs DEF HoldsLog
  <2>3. Payload(d, r.id) = {r.body}
    <3>1. Stored(d, l[i].req)
      BY <1>1, PayloadIs
    <3>2. QED
      BY <2>1, <3>1 DEF Stored
  <2>4. r = [field \in DOMAIN r |-> r[field]]
    BY <1>1, <2>1 DEF LogSound
  <2>5. [r EXCEPT !.body = r.body] = r
    BY ONLY <2>4
  <2>6. {[r EXCEPT !.body = b] : b \in {r.body}} = {r}
    BY ONLY <2>5
  <2>7. QED
    BY <2>1, <2>2, <2>3, <2>6
<1>3. QED
  BY <1>1, <1>2 DEF ReadLog, EntriesOf

-----------------------------------------------------------------------------
\* A set of named checks that all hold.
LEMMA NoneFails ==
  ASSUME NEW checks, \A k \in checks : k.holds
  PROVE  Failing(checks) = {}
BY DEF Failing

\* A check that holds.
LEMMA CheckHolds ==
  ASSUME NEW name, NEW p
  PROVE  Check(name, p).holds = p
BY DEF Check

\* The checks of a verified log all hold.
LEMMA LogPasses ==
  ASSUME NEW d, NEW l, LogSound(l), HoldsLog(d, l)
  PROVE  LogFailures(d) = {}
<1> DEFINE row == d.events
<1>1. DOMAIN row = 1..Len(l) /\ DOMAIN l = 1..Len(l) /\ Len(l) \in Nat
  BY DEF HoldsLog, EventRows, LogSound
<1>2. \A i \in 1..Len(l) : /\ row[i].req = l[i].req /\ row[i].recorded = l[i].recorded
                           /\ row[i].prev = l[i].prev /\ row[i].hash = EventHash(l[i]) /\ row[i].key = Key(l[i].req)
  BY <1>1, EventRowIs DEF HoldsLog
<1>3. ASSUME NEW i \in 1..Len(l)
      PROVE  /\ \A j \in 1..(i-1) : row[j].req.id # row[i].req.id /\ row[j].key # row[i].key
             /\ row[i].hash = Append(row[i].prev, [req |-> row[i].req, recorded |-> row[i].recorded])
             /\ row[i].prev = (IF i = 1 THEN <<>> ELSE row[i-1].hash)
             /\ i > 1 => row[i].recorded >= row[i-1].recorded
             /\ Payload(d, row[i].req.id) = {row[i].req.body}
             /\ \A body \in Payload(d, row[i].req.id) : row[i].key = <<row[i].req.actor, row[i].req.occurred, body>>
  <2>1. \A j \in 1..(i-1) : j \in 1..Len(l) /\ j # i
    BY <1>1
  <2>2. \A j \in 1..(i-1) : row[j].req.id # row[i].req.id /\ row[j].key # row[i].key
    BY <1>2, <2>1, EntriesDiffer
  <2>3. row[i].hash = Append(row[i].prev, [req |-> row[i].req, recorded |-> row[i].recorded])
    BY <1>2 DEF EventHash, Stamp
  <2>4. i > 1 => i - 1 \in 1..Len(l)
    BY <1>1
  <2>5. row[i].prev = (IF i = 1 THEN <<>> ELSE row[i-1].hash)
    <3>1. l[i].prev = (IF i = 1 THEN <<>> ELSE EventHash(l[i-1]))
      BY DEF LogSound
    <3>2. i = 1 \/ i > 1
      OBVIOUS
    <3>3. i > 1 => row[i-1].hash = EventHash(l[i-1])
      BY <1>2, <2>4
    <3>4. QED
      BY <1>2, <3>1, <3>2, <3>3
  <2>6. i > 1 => row[i].recorded >= row[i-1].recorded
    BY <1>2, <2>4 DEF LogSound
  <2>7. Payload(d, row[i].req.id) = {row[i].req.body}
    <3>1. Stored(d, l[i].req)
      BY PayloadIs
    <3>2. QED
      BY <1>2, <3>1 DEF Stored
  <2>8. row[i].key = <<row[i].req.actor, row[i].req.occurred, row[i].req.body>>
    BY <1>2 DEF Key
  <2>9. QED
    BY <2>2, <2>3, <2>5, <2>6, <2>7, <2>8
<1> DEFINE Fresh(i)    == \A j \in 1..(i-1) : row[j].req.id # row[i].req.id /\ row[j].key # row[i].key
           Hashed(i)   == row[i].hash = Append(row[i].prev, [req |-> row[i].req, recorded |-> row[i].recorded])
           Linked(i)   == row[i].prev = (IF i = 1 THEN <<>> ELSE row[i-1].hash)
           Monotone(i) == i > 1 => row[i].recorded >= row[i-1].recorded
           Paid(i)     == Payload(d, row[i].req.id) = {row[i].req.body}
           Keyed(i)    == \A body \in Payload(d, row[i].req.id) :
                            row[i].key = <<row[i].req.actor, row[i].req.occurred, body>>
           Checks(i)   == {Check("event_schema", Fresh(i)), Check("envelope_hash", Hashed(i)),
                           Check("chain", Linked(i)), Check("recorded_at", Monotone(i)),
                           Check("payload_hash", Paid(i)), Check("idempotency_key", Keyed(i))}
<1>4. ASSUME NEW i \in DOMAIN row PROVE Failing(Checks(i)) = {}
  <2>1. Fresh(i) /\ Hashed(i) /\ Linked(i) /\ Monotone(i) /\ Paid(i) /\ Keyed(i)
    BY <1>1, <1>3
  <2> HIDE DEF Fresh, Hashed, Linked, Monotone, Paid, Keyed
  <2>2. ASSUME NEW k \in Checks(i) PROVE k.holds
    BY <2>1, CheckHolds
  <2> HIDE DEF Checks
  <2>3. QED
    BY <2>2, NoneFails
<1> DEFINE known == {p.event : p \in ToSet(d.payloads)} \subseteq {e.req.id : e \in ToSet(row)}
<1>5. known
  <2>1. DOMAIN d.payloads = 1..Len(l)
    BY <1>1 DEF HoldsLog, PayloadRowsOf
  <2>2. \A i \in 1..Len(l) : d.payloads[i].event = row[i].req.id
    BY <1>1, <1>2, PayloadRowIs DEF HoldsLog
  <2>3. QED
    BY <1>1, <2>1, <2>2 DEF ToSet
<1>6. Failing({Check("payload_hash", known)}) = {}
  <2> HIDE DEF known
  <2> QED BY <1>5, NoneFails, CheckHolds
<1>7. UNION {Failing(Checks(i)) : i \in DOMAIN row} = {}
  <2> HIDE DEF Checks
  <2> QED BY <1>4
<1>8. QED
  BY <1>6, <1>7 DEF LogFailures

-----------------------------------------------------------------------------
(***************************************************************************)
(* The beliefs of a replay, and the index that can be rebuilt.             *)
(***************************************************************************)
\* One of the first n entries is an observation that names the belief b.
ObservedBy(l, b, n) ==
  \E j \in 1..n : l[j].req.type = "observation_recorded" /\ b \in BeliefsOf(l[j].req.body.claims)

AllObserved(s, l, n) == \A b \in DOMAIN s.beliefs : ObservedBy(l, b, n)

\* The entry that is replayed at n, with what its admission gives.
LEMMA EntryAt ==
  ASSUME NEW l, Len(l) \in Nat, NEW k \in 1..Len(l), AdmittedUpTo(l, k)
  PROVE  LET R == ReplayOf(l, EmptySnapshot) IN
         /\ R[k] = Apply(R[k-1], l[k], k)
         /\ Consistent(R[k-1]) /\ Tabular(R[k-1]) /\ Referenced(R[k-1]) /\ EventsAre(R[k-1], l, k-1)
         /\ WellFormed(l[k].req) /\ \E v : Admits(v, R[k-1], l[k].req)
<1>1. k - 1 \in 0..Len(l) /\ AdmittedUpTo(l, k-1)
  BY DEF AdmittedUpTo
<1>2. WellFormed(l[k].req) /\ \E v : Admits(v, ReplayOf(l, EmptySnapshot)[k-1], l[k].req)
  BY DEF AdmittedUpTo
<1>3. PICK m : m = k - 1
  OBVIOUS
<1>4. /\ Consistent(ReplayOf(l, EmptySnapshot)[m]) /\ Tabular(ReplayOf(l, EmptySnapshot)[m])
      /\ Referenced(ReplayOf(l, EmptySnapshot)[m]) /\ EventsAre(ReplayOf(l, EmptySnapshot)[m], l, m)
  BY <1>1, <1>3, ReplayedTables, ReplayedRows
<1>5. QED
  BY <1>2, <1>3, <1>4, ReplaySteps

\* The type of an admitted entry.
LEMMA AdmittedType ==
  ASSUME NEW v, NEW s, NEW r, Admits(v, s, r)
  PROVE  \/ r.type = "entity_mention_recorded"
         \/ r.type = "observation_recorded"
         \/ r.type \in Transitions /\ AdmitsTransition(s, r)
BY DEF Admits, AdmitsMention, AdmitsObservation, AdmitsTransition

\* Every belief of a replay was observed by one of its entries.
LEMMA BeliefsObserved ==
  ASSUME NEW l, Len(l) \in Nat, NEW n \in 0..Len(l), AdmittedUpTo(l, n)
  PROVE  AllObserved(ReplayOf(l, EmptySnapshot)[n], l, n)
<1> DEFINE R    == ReplayOf(l, EmptySnapshot)
           Holds(k) == AllObserved(R[k], l, k)
           Bad  == {k \in 0..n : ~Holds(k)}
<1>1. Holds(0)
  <2>1. R[0] = EmptySnapshot
    BY ReplaySteps
  <2>2. \A b : b \notin DOMAIN EmptySnapshot.beliefs
    BY DEF EmptySnapshot, NoRows
  <2>3. QED
    BY <2>1, <2>2 DEF AllObserved
<1>2. ASSUME NEW k \in 1..n, Holds(k-1) PROVE Holds(k)
  <2>1. PICK s, t, e : s = R[k-1] /\ t = R[k] /\ e = l[k]
    OBVIOUS
  <2>2. k \in 1..Len(l) /\ AdmittedUpTo(l, k)
    BY DEF AdmittedUpTo
  <2>3. /\ t = Apply(s, e, k) /\ Consistent(s) /\ Tabular(s) /\ WellFormed(e.req)
        /\ \E v : Admits(v, s, e.req)
    BY <2>1, <2>2, EntryAt
  <2>4. PICK d : d = Delta(s, e.req, e.recorded, k)
    OBVIOUS
  <2>5. DeltaAbout(s, d, e.req)
    BY <2>3, <2>4, AdmittedDelta
  <2>6. \A b : b \in DOMAIN t.beliefs <=> b \in DOMAIN d.beliefs \/ b \in DOMAIN s.beliefs
    BY <2>3, <2>4, AppliedBeliefs
  <2>7. \/ e.req.type = "entity_mention_recorded"
        \/ e.req.type = "observation_recorded"
        \/ e.req.type \in Transitions
    BY <2>3, AdmittedType
  <2>8. ASSUME NEW b \in DOMAIN s.beliefs PROVE ObservedBy(l, b, k)
    <3>1. ObservedBy(l, b, k-1)
      BY <1>2, <2>1 DEF AllObserved
    <3>2. \A j \in 1..(k-1) : j \in 1..k
      OBVIOUS
    <3>3. QED
      BY <3>1, <3>2 DEF ObservedBy
  <2>9. ASSUME NEW b \in DOMAIN d.beliefs PROVE ObservedBy(l, b, k)
    <3>1. CASE e.req.type = "observation_recorded"
      <4>1. b \in BeliefsOf(l[k].req.body.claims) /\ l[k].req.type = "observation_recorded"
        BY <2>1, <2>5, <3>1 DEF DeltaAbout
      <4>2. k \in 1..k
        OBVIOUS
      <4>3. QED
        BY <4>1, <4>2 DEF ObservedBy
    <3>2. CASE e.req.type # "observation_recorded"
      <4>1. b \in DOMAIN s.beliefs
        BY <2>5, <2>7, <3>2 DEF DeltaAbout
      <4>2. QED
        BY <2>8, <4>1
    <3>3. QED
      BY <3>1, <3>2
  <2>10. QED
    BY <2>1, <2>6, <2>8, <2>9 DEF AllObserved
<1> HIDE DEF Holds
<1>3. SUFFICES ASSUME Bad # {} PROVE FALSE
  BY DEF Holds
<1>4. Bad \in SUBSET Nat
  OBVIOUS
<1>5. PICK m \in Bad : \A k \in Bad : ~(k < m)
  <2> HIDE DEF Bad
  <2> QED BY <1>3, <1>4, Least
<1>6. m \in 1..n /\ m - 1 \in 0..n /\ m - 1 < m
  BY <1>1
<1>7. Holds(m-1)
  BY <1>5, <1>6
<1>8. QED
  BY <1>2, <1>6, <1>7

\* The entries before i hold an observation that claims the belief of r.
NamedBefore(entries, r, i) ==
  \E j \in 1..(i-1) : \E q \in entries[j].contents :
    /\ q.type = "observation_recorded"
    /\ TransitionBelief(r) \in {c.belief : c \in ToSet(q.body.claims)}

\* A belief observed before an entry is named before it among the entries read.
LEMMA BeliefIsClaimed ==
  ASSUME NEW entries, NEW r, NEW i, NEW j \in 1..(i-1), NEW q, entries[j].contents = {q},
         q.type = "observation_recorded", TransitionBelief(r) \in BeliefsOf(q.body.claims)
  PROVE  NamedBefore(entries, r, i)
<1>1. PICK k \in DOMAIN q.body.claims : TransitionBelief(r) = q.body.claims[k].belief
  BY DEF BeliefsOf
<1>2. q.body.claims[k] \in ToSet(q.body.claims)
  BY DEF ToSet
<1>3. TransitionBelief(r) \in {c.belief : c \in ToSet(q.body.claims)}
  BY <1>1, <1>2
<1>4. QED
  BY <1>3 DEF NamedBefore

\* Under a projector that knows every entry, the freshness index can be rebuilt.
LEMMA IndexableIs ==
  ASSUME NEW v, NEW l, Len(l) \in Nat, DOMAIN l = 1..Len(l), AdmittedUpTo(l, Len(l)),
         KnownUpTo(v, l, Len(l))
  PROVE  Indexable(v, EntriesOf(l))
<1>1. PICK entries : entries = EntriesOf(l)
  OBVIOUS
<1>2. DOMAIN entries = 1..Len(l)
  BY <1>1, EntriesLength
<1>3. \A i \in 1..Len(l) : entries[i].contents = {l[i].req}
  BY <1>1, EntryIs
<1>4. ASSUME NEW i \in 1..Len(l), l[i].req.type \in Transitions
      PROVE  LET r == l[i].req IN
             /\ v = "3"
             /\ Len(r.body.claims) = (IF r.type = "candidate_expired" THEN 0 ELSE 1)
             /\ NamedBefore(entries, r, i)
  <2>1. v = "3"
    BY <1>4 DEF KnownUpTo
  <2>2. PICK r, s : r = l[i].req /\ s = ReplayOf(l, EmptySnapshot)[i-1]
    OBVIOUS
  <2>3. AdmittedUpTo(l, i) /\ i \in 1..Len(l)
    BY DEF AdmittedUpTo
  <2>4. \E w : Admits(w, s, r)
    BY <2>2, <2>3, EntryAt
  <2>5. AdmitsTransition(s, r)
    BY <1>4, <2>2, <2>4, AdmittedType DEF Transitions
  <2>6. Len(r.body.claims) = (IF r.type = "candidate_expired" THEN 0 ELSE 1)
    <3>1. CASE r.type = "candidate_expired"
      <4>1. r.body.claims = <<>>
        BY <2>5, <3>1 DEF AdmitsTransition
      <4>2. QED
        BY <3>1, <4>1
    <3>2. CASE r.type # "candidate_expired"
      BY <2>5, <3>2 DEF AdmitsTransition
    <3>3. QED
      BY <3>1, <3>2
  <2>7. TransitionBelief(r) \in DOMAIN s.beliefs
    BY <2>5 DEF AdmitsTransition
  <2>8. AllObserved(s, l, i-1)
    <3>1. i - 1 \in 0..Len(l) /\ AdmittedUpTo(l, i-1)
      BY DEF AdmittedUpTo
    <3>2. PICK m : m = i - 1
      OBVIOUS
    <3>3. QED
      BY <2>2, <3>1, <3>2, BeliefsObserved
  <2>9. PICK j \in 1..(i-1) : /\ l[j].req.type = "observation_recorded"
                              /\ TransitionBelief(r) \in BeliefsOf(l[j].req.body.claims)
    BY <2>7, <2>8 DEF AllObserved, ObservedBy
  <2>10. j \in 1..Len(l)
    OBVIOUS
  <2>11. NamedBefore(entries, r, i)
    <3>1. PICK q : q = l[j].req
      OBVIOUS
    <3>2. entries[j].contents = {q}
      BY <1>3, <2>10, <3>1
    <3>3. QED
      BY <2>9, <3>1, <3>2, BeliefIsClaimed
  <2>12. QED
    BY <2>1, <2>2, <2>6, <2>11
<1>5. ASSUME NEW i \in DOMAIN entries
      PROVE  /\ entries[i].contents # {}
             /\ \A r \in entries[i].contents : r.type \in Transitions =>
                  /\ v = "3"
                  /\ Len(r.body.claims) = (IF r.type = "candidate_expired" THEN 0 ELSE 1)
                  /\ NamedBefore(entries, r, i)
  <2>1. i \in 1..Len(l)
    BY <1>2
  <2>2. entries[i].contents = {l[i].req}
    BY <1>3, <2>1
  <2>3. PICK q : q = l[i].req
    OBVIOUS
  <2>4. q.type \in Transitions =>
          /\ v = "3"
          /\ Len(q.body.claims) = (IF q.type = "candidate_expired" THEN 0 ELSE 1)
          /\ NamedBefore(entries, q, i)
    BY <1>4, <2>1, <2>3
  <2>5. entries[i].contents = {q}
    BY <2>2, <2>3
  <2>6. QED
    BY ONLY <2>4, <2>5
<1>6. Indexable(v, entries)
  BY <1>5 DEF Indexable, NamedBefore
<1>7. QED
  BY <1>1, <1>6

-----------------------------------------------------------------------------
(***************************************************************************)
(* The records of a view.                                                  *)
(***************************************************************************)
\* Every event the records of s refer to is among the first n entries.
LEMMA ReferencesAre ==
  ASSUME NEW l, NEW n, NEW s, Referenced(s), EventsAre(s, l, n)
  PROVE  \A x \in References(s) : \E i \in 1..n : x = l[i].req.id
<1>1. \A x \in {s.entities[k].event : k \in DOMAIN s.entities} : x \in DOMAIN s.events
  BY DEF Referenced
<1>2. \A x \in {s.links[k].event : k \in DOMAIN s.links} : x \in DOMAIN s.events
  BY DEF Referenced
<1>3. \A x \in UNION {{s.candidates[k].event} \cup s.candidates[k].superseding : k \in DOMAIN s.candidates} :
        x \in DOMAIN s.events
  BY DEF Referenced
<1>4. \A x \in UNION {s.beliefs[k].dependencies : k \in DOMAIN s.beliefs} : x \in DOMAIN s.events
  BY DEF Referenced
<1>5. \A x \in References(s) : x \in DOMAIN s.events
  BY <1>1, <1>2, <1>3, <1>4 DEF References
<1>6. QED
  BY <1>5 DEF EventsAre

\* Events after the first n have no dependency row yet, those before have one.
LEMMA EventsShown ==
  ASSUME NEW l, LogSound(l), NEW n \in 0..Len(l), NEW s, EventsAre(s, l, n)
  PROVE  \A i \in 1..Len(l) : l[i].req.id \in DOMAIN s.events <=> i <= n
<1>1. Len(l) \in Nat
  BY DEF LogSound
<1>2. TAKE i \in 1..Len(l)
<1>3. i <= n => l[i].req.id \in DOMAIN s.events
  BY <1>1 DEF EventsAre
<1>4. ASSUME l[i].req.id \in DOMAIN s.events PROVE i <= n
  <2>1. PICK j \in 1..n : l[i].req.id = l[j].req.id
    BY <1>4 DEF EventsAre
  <2>2. j \in 1..Len(l)
    BY <1>1
  <2>3. i = j
    BY <2>1, <2>2, EntriesDiffer
  <2>4. QED
    BY <1>1, <2>3
<1>5. QED
  BY <1>3, <1>4

\* The transition whose relation is recorded is the one the status is of.
LEMMA RelationNames ==
  ASSUME NEW type \in Transitions
  PROVE  (CHOOSE t \in Transitions : RelationOf[t] = RelationOf[type]) = type
BY DEF Transitions, RelationOf

\* Only transitions have targets.
LEMMA TargetsAreTransitions ==
  ASSUME NEW r, WellFormed(r), NEW c \in r.body.targets
  PROVE  r.type \in Transitions
BY DEF WellFormed

\* Records whose endings agree with the log agree with their relation rows.
LEMMA EndingsAudit ==
  ASSUME NEW v, NEW l, NEW n, NEW s, EndingsHold(s, l, n), \A i \in 1..n : WellFormed(l[i].req)
  PROVE  RelationsAgree(v, s, s)
<1>1. ASSUME NEW c \in DOMAIN s.candidates
      PROVE  IF c \notin DOMAIN s.relations
             THEN s.candidates[c].status = "live" /\ s.candidates[c].superseding = {}
             ELSE /\ s.candidates[c].status
                       = StatusOf[CHOOSE t \in Transitions : RelationOf[t] = s.relations[c].relation]
                  /\ s.candidates[c].superseding = {s.relations[c].event}
  <2>1. CASE s.candidates[c].status = "live"
    <3>1. s.candidates[c].superseding = {} /\ c \notin DOMAIN s.relations
      BY <2>1 DEF EndingsHold
    <3>2. QED
      BY <2>1, <3>1
  <2>2. CASE s.candidates[c].status # "live"
    <3>1. PICK i \in 1..n : /\ c \in Targets(l, i)
                            /\ s.candidates[c].superseding = {l[i].req.id}
                            /\ s.candidates[c].status = StatusOf[l[i].req.type]
                            /\ s.relations[c] = [event |-> l[i].req.id, relation |-> RelationOf[l[i].req.type],
                                                 position |-> i]
      BY <2>2 DEF EndingsHold
    <3>2. c \in DOMAIN s.relations
      BY <2>2 DEF EndingsHold
    <3>3. l[i].req.type \in Transitions
      BY <3>1, TargetsAreTransitions DEF Targets
    <3>4. s.relations[c].event = l[i].req.id /\ s.relations[c].relation = RelationOf[l[i].req.type]
      BY <3>1
    <3>5. (CHOOSE t \in Transitions : RelationOf[t] = s.relations[c].relation) = l[i].req.type
      BY <3>3, <3>4, RelationNames
    <3>6. QED
      BY <3>1, <3>2, <3>4, <3>5
  <2>3. QED
    BY <2>1, <2>2
<1>2. QED
  BY <1>1 DEF RelationsAgree

-----------------------------------------------------------------------------
(***************************************************************************)
(* The freshness rows, rebuilt from the log.                               *)
(***************************************************************************)
NoIndexes == [latest |-> NoRows, owners |-> NoRows]

IsIndexRun(f, entries, n) ==
  f = [i \in 0..n |-> IF i = 0 THEN NoIndexes ELSE IndexedWith(f[i-1], entries[i])]

\* There is a run of the index, and it is IndexesAt.
LEMMA IndexRunExists ==
  ASSUME NEW entries, NEW n \in Nat
  PROVE  \E f : IsIndexRun(f, entries, n)
<1> DEFINE Bad == {k \in Nat : ~\E f : IsIndexRun(f, entries, k)}
<1>1. SUFFICES ASSUME Bad # {} PROVE FALSE
  OBVIOUS
<1>2. Bad \in SUBSET Nat
  OBVIOUS
<1>3. PICK m \in Bad : \A k \in Bad : ~(k < m)
  <2> HIDE DEF Bad
  <2> QED BY <1>1, <1>2, Least
<1>4. m # 0
  <2> DEFINE f == [i \in 0..0 |-> NoIndexes]
  <2>1. IsIndexRun(f, entries, 0)
    BY DEF IsIndexRun
  <2> QED BY <2>1
<1>5. m - 1 \in Nat /\ m - 1 \notin Bad
  BY <1>3, <1>4
<1>6. PICK f : IsIndexRun(f, entries, m - 1)
  BY <1>5
<1> DEFINE g == [i \in 0..m |-> IF i = 0 THEN NoIndexes ELSE IndexedWith(f[i-1], entries[i])]
<1>7. ASSUME NEW i \in 0..m, i # 0 PROVE g[i-1] = f[i-1]
  BY <1>4, <1>6, <1>7 DEF IsIndexRun
<1>8. IsIndexRun(g, entries, m)
  BY <1>7 DEF IsIndexRun
<1>9. QED
  BY <1>8

\* What the index has after each entry.
LEMMA IndexSteps ==
  ASSUME NEW entries, Len(entries) \in Nat
  PROVE  /\ IndexesAt(entries)[0] = NoIndexes
         /\ \A i \in 1..Len(entries) : IndexesAt(entries)[i] = IndexedWith(IndexesAt(entries)[i-1], entries[i])
<1> DEFINE run == IndexesAt(entries)
<1>1. run = CHOOSE f : IsIndexRun(f, entries, Len(entries))
  BY DEF IndexesAt, IsIndexRun, NoIndexes
<1> HIDE DEF run
<1>2. IsIndexRun(run, entries, Len(entries))
  BY <1>1, IndexRunExists
<1>3. QED
  BY <1>2 DEF IsIndexRun, run

\* What the index holds after n entries depends on those n alone.
LEMMA IndexesAgree ==
  ASSUME NEW e, Len(e) \in Nat, NEW k, Len(k) \in Nat, NEW n \in Nat, n <= Len(e), n <= Len(k),
         \A i \in 1..n : e[i] = k[i]
  PROVE  IndexesAt(e)[n] = IndexesAt(k)[n]
<1> DEFINE E == IndexesAt(e)
           K == IndexesAt(k)
           Bad == {i \in 0..n : E[i] # K[i]}
<1>1. E[0] = K[0]
  BY IndexSteps
<1>2. \A i \in 1..n : E[i] = IndexedWith(E[i-1], e[i]) /\ K[i] = IndexedWith(K[i-1], k[i])
  BY IndexSteps
<1> HIDE DEF E, K
<1>3. SUFFICES ASSUME Bad # {} PROVE FALSE
  BY DEF E, K
<1>4. Bad \in SUBSET Nat
  OBVIOUS
<1>5. PICK m \in Bad : \A i \in Bad : ~(i < m)
  <2> HIDE DEF Bad
  <2> QED BY <1>3, <1>4, Least
<1>6. m \in 1..n /\ m - 1 \in 0..n /\ m - 1 < m /\ E[m] # K[m]
  BY <1>1
<1>7. E[m-1] = K[m-1]
  BY <1>5, <1>6
<1>8. QED
  BY <1>2, <1>6, <1>7

-----------------------------------------------------------------------------
\* The freshness rows L, by event instead of by position.
EventsNamed(l, L) == [s \in DOMAIN L |-> l[L[s]].req.id]

\* L and S are the tables the verifier rebuilds from the first n entries of l.
ExactIndex(l, L, S, n) ==
  LET acc == IndexesAt(EntriesOf(l))[n] IN
  IsTable(L) /\ IsTable(S) /\ acc.latest = EventsNamed(l, L) /\ acc.owners = S

\* The claims of an observation give each of its beliefs the subject in the delta.
OwnedBy(claimed, d) ==
  \A b \in {c.belief : c \in claimed} : (CHOOSE c \in claimed : c.belief = b).subject = d.beliefs[b].subject

\* The claims of an admitted observation own their beliefs as the delta says.
LEMMA ClaimsOwn ==
  ASSUME NEW d, NEW claims,
         \A i \in DOMAIN claims : d.beliefs[claims[i].belief].subject = claims[i].subject
  PROVE  OwnedBy(ToSet(claims), d)
<1>1. \A c \in ToSet(claims) : d.beliefs[c.belief].subject = c.subject
  BY DEF ToSet
<1>2. ASSUME NEW b \in {c.belief : c \in ToSet(claims)}
      PROVE  (CHOOSE c \in ToSet(claims) : c.belief = b).subject = d.beliefs[b].subject
  <2>1. PICK x : x = CHOOSE c \in ToSet(claims) : c.belief = b
    OBVIOUS
  <2>2. x \in ToSet(claims) /\ x.belief = b
    BY <2>1
  <2>3. QED
    BY <1>1, <2>1, <2>2
<1>3. QED
  BY <1>2 DEF OwnedBy

\* The owner the index has for a transition's belief is the subject of its row.
OwnerIs(s, S, b) == b \in DOMAIN s.beliefs => S[b] = s.beliefs[b].subject

\* The subjects the verifier takes an entry to concern are those its delta touches.
LEMMA ConcernedIs ==
  ASSUME NEW s, NEW d, NEW r, NEW S, DeltaAbout(s, d, r), OwnerIs(s, S, TransitionBelief(r)),
         \/ r.type = "entity_mention_recorded"
         \/ r.type = "observation_recorded"
         \/ r.type \in Transitions
  PROVE  \A x : x \in Concerned(S, r) <=> x \in SubjectsTouched(d)
<1>1. \A x : x \in SubjectsTouched(d) <=> \/ x \in DOMAIN d.entities
                                          \/ \E b \in DOMAIN d.beliefs : x = d.beliefs[b].subject
  BY DEF SubjectsTouched
<1>2. CASE r.type = "entity_mention_recorded"
  <2>1. Concerned(S, r) = {r.body.subject}
    BY <1>2 DEF Concerned
  <2>2. QED
    BY <1>1, <1>2, <2>1 DEF DeltaAbout
<1>3. CASE r.type = "observation_recorded"
  <2>1. Concerned(S, r) = {c.subject : c \in ToSet(r.body.claims)}
    BY <1>3 DEF Concerned
  <2>2. \A x : x \in Concerned(S, r) <=> \E i \in DOMAIN r.body.claims : x = r.body.claims[i].subject
    BY <2>1 DEF ToSet
  <2>3. \A x : x \notin DOMAIN d.entities
    BY <1>3 DEF DeltaAbout
  <2>4. \A b : b \in DOMAIN d.beliefs <=> \E i \in DOMAIN r.body.claims : b = r.body.claims[i].belief
    BY <1>3 DEF DeltaAbout, BeliefsOf
  <2>5. \A i \in DOMAIN r.body.claims : d.beliefs[r.body.claims[i].belief].subject = r.body.claims[i].subject
    BY <1>3 DEF DeltaAbout
  <2>6. QED
    BY <1>1, <2>2, <2>3, <2>4, <2>5
<1>4. CASE r.type \in Transitions
  <2>1. r.type # "entity_mention_recorded" /\ r.type # "observation_recorded"
    BY <1>4 DEF Transitions
  <2>2. Concerned(S, r) = {S[TransitionBelief(r)]}
    BY <2>1 DEF Concerned
  <2>3. PICK b : b = TransitionBelief(r)
    OBVIOUS
  <2>4. /\ b \in DOMAIN s.beliefs /\ d.beliefs[b].subject = s.beliefs[b].subject
        /\ \A x : x \in DOMAIN d.beliefs <=> x = b
        /\ \A x : x \notin DOMAIN d.entities
    BY <1>4, <2>1, <2>3 DEF DeltaAbout
  <2>5. S[b] = d.beliefs[b].subject
    BY <2>3, <2>4 DEF OwnerIs
  <2>6. QED
    BY <1>1, <2>2, <2>3, <2>4, <2>5
<1>5. QED
  BY <1>2, <1>3, <1>4

\* The claims an observation brings, none for another entry.
ClaimedBy(r) == IF r.type = "observation_recorded" THEN ToSet(r.body.claims) ELSE {}
ClaimOwners(r) == [b \in {c.belief : c \in ClaimedBy(r)} |-> (CHOOSE c \in ClaimedBy(r) : c.belief = b).subject]

\* What the entry with request r does to the rebuilt tables.
IndexedOne(next, acc, r) ==
  /\ next.latest = Upsert([s \in Concerned(acc.owners, r) |-> r.id], acc.latest)
  /\ next.owners = Upsert(ClaimOwners(r), acc.owners)

\* IndexedWith, for an entry with one content.
LEMMA IndexedOnce ==
  ASSUME NEW acc, NEW e, NEW r, e.contents = {r}
  PROVE  IndexedOne(IndexedWith(acc, e), acc, r)
<1>1. (CHOOSE q \in e.contents : TRUE) = r
  OBVIOUS
<1>2. PICK latest_, owners_ : /\ latest_ = Upsert([s \in Concerned(acc.owners, r) |-> r.id], acc.latest)
                              /\ owners_ = Upsert(ClaimOwners(r), acc.owners)
  OBVIOUS
<1>3. IndexedWith(acc, e) = [latest |-> latest_, owners |-> owners_]
  BY <1>1, <1>2 DEF IndexedWith, ClaimOwners, ClaimedBy
<1>4. QED
  BY <1>2, <1>3 DEF IndexedOne

\* The owners of an observation's beliefs; a mention or a transition brings none.
LEMMA OwnersBrought ==
  ASSUME NEW s, NEW d, NEW r, DeltaAbout(s, d, r),
         \/ r.type = "entity_mention_recorded"
         \/ r.type = "observation_recorded"
         \/ r.type \in Transitions
  PROVE  /\ \A b : b \in DOMAIN ClaimOwners(r) => b \in DOMAIN d.beliefs /\ ClaimOwners(r)[b] = d.beliefs[b].subject
         /\ \A b : b \in DOMAIN d.beliefs => b \in DOMAIN ClaimOwners(r) \/ b \in DOMAIN s.beliefs
<1>1. \A b : b \in DOMAIN ClaimOwners(r) <=> b \in {c.belief : c \in ClaimedBy(r)}
  BY DEF ClaimOwners
<1>2. CASE r.type = "observation_recorded"
  <2>1. OwnedBy(ToSet(r.body.claims), d)
    BY <1>2, ClaimsOwn DEF DeltaAbout
  <2>2. ClaimedBy(r) = ToSet(r.body.claims)
    BY <1>2 DEF ClaimedBy
  <2>3. ASSUME NEW b \in DOMAIN ClaimOwners(r) PROVE ClaimOwners(r)[b] = d.beliefs[b].subject
    <3>1. b \in {c.belief : c \in ClaimedBy(r)}
      BY <1>1
    <3>2. ClaimOwners(r)[b] = (CHOOSE c \in ClaimedBy(r) : c.belief = b).subject
      BY <3>1 DEF ClaimOwners
    <3>3. (CHOOSE c \in ClaimedBy(r) : c.belief = b).subject = d.beliefs[b].subject
      <4>1. OwnedBy(ClaimedBy(r), d)
        BY <2>1, <2>2
      <4>2. QED
        BY <3>1, <4>1 DEF OwnedBy
    <3>4. QED
      BY <3>2, <3>3
  <2>4. \A b : b \in {c.belief : c \in ToSet(r.body.claims)} <=> \E i \in DOMAIN r.body.claims : b = r.body.claims[i].belief
    BY DEF ToSet
  <2>5. \A b : b \in DOMAIN d.beliefs <=> \E i \in DOMAIN r.body.claims : b = r.body.claims[i].belief
    BY <1>2 DEF DeltaAbout, BeliefsOf
  <2>6. QED
    BY <1>1, <2>2, <2>3, <2>4, <2>5
<1>3. CASE r.type # "observation_recorded"
  <2>1. ClaimedBy(r) = {}
    BY <1>3 DEF ClaimedBy
  <2>2. \A b : b \notin DOMAIN ClaimOwners(r)
    BY <1>1, <2>1
  <2>3. \A b \in DOMAIN d.beliefs : b \in DOMAIN s.beliefs
    BY <1>3 DEF DeltaAbout
  <2>4. QED
    BY <2>2, <2>3
<1>4. QED
  BY <1>2, <1>3

\* One more entry brings the rebuilt tables what it brings the freshness rows.
LEMMA ExactGrows ==
  ASSUME NEW l, Len(l) \in Nat, DOMAIN l = 1..Len(l), NEW n \in Nat, n + 1 \in 1..Len(l), AdmittedUpTo(l, n+1),
         NEW L, NEW S, ExactIndex(l, L, S, n), IndexCurrent(l, L, S, n), Positions(L, n)
  PROVE  LET d == Delta(ReplayOf(l, EmptySnapshot)[n], l[n+1].req, l[n+1].recorded, n+1) IN
         ExactIndex(l, Upsert([s \in SubjectsTouched(d) |-> n+1], L),
                    Upsert(S, [b \in DOMAIN d.beliefs |-> d.beliefs[b].subject]), n+1)
<1>1. PICK m, s, e, r, d : /\ m = n + 1 /\ s = ReplayOf(l, EmptySnapshot)[n] /\ e = l[m] /\ r = e.req
                           /\ d = Delta(s, e.req, e.recorded, m)
  OBVIOUS
<1>2. PICK now, owning, L2, S2 : /\ now = [x \in SubjectsTouched(d) |-> m]
                                 /\ owning = [b \in DOMAIN d.beliefs |-> d.beliefs[b].subject]
                                 /\ L2 = Upsert(now, L) /\ S2 = Upsert(S, owning)
  OBVIOUS
<1>3. /\ Consistent(s) /\ Tabular(s) /\ WellFormed(r) /\ \E v : Admits(v, s, r)
  <2>1. m \in 1..Len(l) /\ AdmittedUpTo(l, m) /\ m - 1 = n
    BY <1>1
  <2>2. m \in 1..Len(l) /\ s = ReplayOf(l, EmptySnapshot)[m-1]
    BY <1>1, <2>1
  <2>3. QED
    BY <1>1, <2>1, <2>2, EntryAt
<1>4. \/ r.type = "entity_mention_recorded"
      \/ r.type = "observation_recorded"
      \/ r.type \in Transitions
  BY <1>3, AdmittedType
<1>5. DeltaAbout(s, d, r) /\ BeliefRowsHold(s, d, r)
  BY <1>1, <1>3, AdmittedDelta, AdmittedWrites
<1>6. /\ \A b : b \in DOMAIN S <=> b \in DOMAIN s.beliefs
      /\ \A b \in DOMAIN S : S[b] = s.beliefs[b].subject
  BY <1>1 DEF IndexCurrent
<1>7. PICK acc, next : acc = IndexesAt(EntriesOf(l))[n] /\ next = IndexesAt(EntriesOf(l))[m]
  OBVIOUS
<1>8. IsTable(L) /\ IsTable(S) /\ acc.latest = EventsNamed(l, L) /\ acc.owners = S
  BY <1>7 DEF ExactIndex
<1>9. IndexedOne(next, acc, r)
  <2>1. PICK entry : entry = EntriesOf(l)[m]
    OBVIOUS
  <2>2. next = IndexedWith(acc, entry)
    <3>1. Len(EntriesOf(l)) = Len(l) /\ m \in 1..Len(l) /\ m - 1 = n
      BY <1>1, EntriesLength
    <3>2. QED
      BY <1>7, <2>1, <3>1, IndexSteps
  <2>3. entry.contents = {r}
    <3>1. m \in DOMAIN l
      BY <1>1
    <3>2. QED
      BY <1>1, <2>1, <3>1, EntryIs
  <2>4. QED
    BY <2>2, <2>3, IndexedOnce
<1>10. \A x : x \in Concerned(S, r) <=> x \in SubjectsTouched(d)
  <2>1. OwnerIs(s, S, TransitionBelief(r))
    BY <1>6 DEF OwnerIs
  <2>2. QED
    BY <1>4, <1>5, <2>1, ConcernedIs
<1>11. /\ \A x : x \in DOMAIN now <=> x \in SubjectsTouched(d)
       /\ \A x \in DOMAIN now : now[x] = m
       /\ \A b : b \in DOMAIN owning <=> b \in DOMAIN d.beliefs
       /\ \A b \in DOMAIN d.beliefs : owning[b] = d.beliefs[b].subject
  BY <1>2
<1>12. /\ \A x : x \in DOMAIN L2 <=> x \in DOMAIN now \/ x \in DOMAIN L
       /\ \A x \in DOMAIN now : L2[x] = m
       /\ \A x \in DOMAIN L : x \notin DOMAIN now => L2[x] = L[x]
  BY <1>2, <1>11, UpsertRows
<1>13. next.latest = EventsNamed(l, L2)
  <2>1. PICK f, g, new : /\ f = next.latest /\ g = EventsNamed(l, L2)
                         /\ new = [x \in Concerned(S, r) |-> r.id]
    OBVIOUS
  <2>2. f = Upsert(new, EventsNamed(l, L))
    BY <1>8, <1>9, <2>1 DEF IndexedOne
  <2>3. IsTable(f) /\ IsTable(g)
    BY <2>1, <2>2, UpsertTable DEF EventsNamed, IsTable
  <2>4. /\ \A x : x \in DOMAIN new <=> x \in Concerned(S, r)
        /\ \A x \in DOMAIN new : new[x] = r.id
    BY <2>1
  <2>5. /\ \A x : x \in DOMAIN EventsNamed(l, L) <=> x \in DOMAIN L
        /\ \A x \in DOMAIN L : EventsNamed(l, L)[x] = l[L[x]].req.id
        /\ \A x : x \in DOMAIN g <=> x \in DOMAIN L2
        /\ \A x \in DOMAIN L2 : g[x] = l[L2[x]].req.id
    BY <2>1 DEF EventsNamed
  <2>6. /\ \A x : x \in DOMAIN f <=> x \in DOMAIN new \/ x \in DOMAIN EventsNamed(l, L)
        /\ \A x \in DOMAIN new : f[x] = new[x]
        /\ \A x \in DOMAIN EventsNamed(l, L) : x \notin DOMAIN new => f[x] = EventsNamed(l, L)[x]
    BY <2>2, UpsertRows
  <2>7. \A x : x \in DOMAIN f <=> x \in DOMAIN g
    BY <1>10, <1>11, <1>12, <2>4, <2>5, <2>6
  <2>8. ASSUME NEW x \in DOMAIN f PROVE f[x] = g[x]
    <3>1. CASE x \in DOMAIN now
      <4>1. f[x] = r.id
        BY <1>10, <1>11, <2>4, <2>6, <3>1
      <4>2. g[x] = l[m].req.id
        BY <1>12, <2>5, <3>1
      <4>3. QED
        BY <1>1, <4>1, <4>2
    <3>2. CASE x \notin DOMAIN now
      <4>1. x \in DOMAIN L /\ x \notin DOMAIN new
        BY <1>10, <1>11, <2>4, <2>5, <2>6, <3>2
      <4>2. f[x] = l[L[x]].req.id
        BY <2>5, <2>6, <4>1
      <4>3. g[x] = l[L[x]].req.id
        BY <1>12, <2>5, <3>2, <4>1
      <4>4. QED
        BY <4>2, <4>3
    <3>3. QED
      BY <3>1, <3>2
  <2>9. f = g
    BY <2>3, <2>7, <2>8, SameTable
  <2>10. QED
    BY <2>1, <2>9
<1>14. next.owners = S2
  <2>1. PICK f, owned : f = next.owners /\ owned = ClaimOwners(r)
    OBVIOUS
  <2>2. f = Upsert(owned, S)
    BY <1>8, <1>9, <2>1 DEF IndexedOne
  <2>3. IsTable(f) /\ IsTable(S2)
    BY <1>2, <2>2, UpsertTable
  <2>4. /\ \A b : b \in DOMAIN owned => b \in DOMAIN d.beliefs /\ owned[b] = d.beliefs[b].subject
        /\ \A b : b \in DOMAIN d.beliefs => b \in DOMAIN owned \/ b \in DOMAIN s.beliefs
    BY <1>4, <1>5, <2>1, OwnersBrought
  <2>5. /\ \A b : b \in DOMAIN f <=> b \in DOMAIN owned \/ b \in DOMAIN S
        /\ \A b \in DOMAIN owned : f[b] = owned[b]
        /\ \A b \in DOMAIN S : b \notin DOMAIN owned => f[b] = S[b]
    BY <2>2, UpsertRows
  <2>6. /\ \A b : b \in DOMAIN S2 <=> b \in DOMAIN S \/ b \in DOMAIN owning
        /\ \A b \in DOMAIN S : S2[b] = S[b]
        /\ \A b \in DOMAIN owning : b \notin DOMAIN S => S2[b] = owning[b]
    BY <1>2, UpsertRows
  <2>7. \A b : b \in DOMAIN f <=> b \in DOMAIN S2
    BY <1>6, <1>11, <2>4, <2>5, <2>6
  <2>8. \A b \in DOMAIN S : b \in DOMAIN d.beliefs => S[b] = d.beliefs[b].subject
    BY <1>5, <1>6 DEF BeliefRowsHold
  <2>9. \A b \in DOMAIN f : f[b] = S2[b]
    BY <1>6, <1>11, <2>4, <2>5, <2>6, <2>8
  <2>10. f = S2
    BY <2>3, <2>7, <2>9, SameTable
  <2>11. QED
    BY <2>1, <2>10
<1>15. ExactIndex(l, L2, S2, m)
  BY <1>2, <1>7, <1>13, <1>14, UpsertTable DEF ExactIndex
<1>16. QED
  BY <1>1, <1>2, <1>15

\* What the rows of the first n entries are does not depend on later ones.
LEMMA ExactPrefix ==
  ASSUME NEW l, Len(l) \in Nat, DOMAIN l = 1..Len(l), NEW k, Len(k) \in Nat, DOMAIN k = 1..Len(k),
         NEW n \in Nat, n <= Len(l), n <= Len(k), \A i \in 1..n : k[i] = l[i],
         NEW L, NEW S, Positions(L, n), ExactIndex(l, L, S, n)
  PROVE  ExactIndex(k, L, S, n)
<1>1. \A i \in 1..n : EntriesOf(l)[i] = EntriesOf(k)[i]
  <2>1. \A i \in 1..n : i \in DOMAIN l /\ i \in DOMAIN k
    OBVIOUS
  <2>2. QED
    BY <2>1 DEF EntriesOf
<1>2. Len(EntriesOf(l)) = Len(l) /\ Len(EntriesOf(k)) = Len(k)
  BY EntriesLength
<1>3. IndexesAt(EntriesOf(l))[n] = IndexesAt(EntriesOf(k))[n]
  BY <1>1, <1>2, IndexesAgree
<1>4. \A s \in DOMAIN L : l[L[s]] = k[L[s]]
  BY DEF Positions
<1>5. EventsNamed(l, L) = EventsNamed(k, L)
  BY <1>4 DEF EventsNamed
<1>6. QED
  BY <1>3, <1>5 DEF ExactIndex

\* No rows, before the first entry.
LEMMA ExactEmpty ==
  ASSUME NEW l, Len(l) \in Nat, DOMAIN l = 1..Len(l)
  PROVE  ExactIndex(l, NoRows, NoRows, 0)
<1>1. IndexesAt(EntriesOf(l))[0] = NoIndexes
  BY EntriesLength, IndexSteps
<1>2. IsTable(NoRows)
  BY DEF IsTable, NoRows
<1>3. EventsNamed(l, NoRows) = NoRows
  BY DEF EventsNamed, NoRows
<1>4. QED
  BY <1>1, <1>2, <1>3 DEF ExactIndex, NoIndexes

-----------------------------------------------------------------------------
(***************************************************************************)
(* The audit of the rows of a store.                                       *)
(***************************************************************************)
\* The freshness rows of every projector that keeps them are exact, and those of
\* projector 3 are there when it is audited on a log that is not empty.
FreshnessExact(v, l, index, owners) ==
  /\ \A w \in Versions : w # "3" \/ index["3"] # NoRows => ExactIndex(l, index[w], owners[w], Len(l))
  /\ index["3"] = NoRows => owners["3"] = NoRows
  /\ v = "3" => Len(l) = 0 \/ index["3"] # NoRows

\* Rows that name no event are none.
LEMMA NamesNothing ==
  ASSUME NEW l, NEW L, IsTable(L), EventsNamed(l, L) = NoRows
  PROVE  L = NoRows
<1>1. \A s : s \notin DOMAIN L
  BY DEF EventsNamed, NoRows
<1>2. IsTable(NoRows) /\ \A s : s \notin DOMAIN NoRows
  BY DEF IsTable, NoRows
<1>3. QED
  BY <1>1, <1>2, SameTable

\* Exact freshness rows pass the verifier's comparison.
LEMMA FreshnessAudits ==
  ASSUME NEW v, NEW l, Len(l) \in Nat, DOMAIN l = 1..Len(l), NEW index, NEW owners,
         FreshnessExact(v, l, index, owners), NEW d,
         d.latest = [w \in Versions |-> EventsNamed(l, index[w])],
         d.subjectOf = [w \in Versions |-> owners[w]]
  PROVE  FreshnessHolds(v, d, EntriesOf(l))
<1>1. PICK acc : acc = Indexes(EntriesOf(l))
  OBVIOUS
<1>2. acc = IndexesAt(EntriesOf(l))[Len(l)]
  BY <1>1, EntriesLength DEF Indexes
<1>3. "3" \in Versions /\ \A w \in Versions : w = "3" \/ w \in {"1", "2"}
  BY DEF Versions
<1>4. ASSUME NEW w \in Versions, w # "3" \/ index["3"] # NoRows
      PROVE  EventsNamed(l, index[w]) = acc.latest /\ owners[w] = acc.owners /\ IsTable(index[w])
  BY <1>2, <1>4 DEF FreshnessExact, ExactIndex
<1>5. EventsNamed(l, NoRows) = NoRows
  BY DEF EventsNamed, NoRows
<1>6. CASE index["3"] # NoRows
  <2>1. d.latest["3"] # NoRows
    BY <1>3, <1>4, <1>6, NamesNothing
  <2>2. Versions \subseteq Indexed(v, d)
    BY <1>3, <2>1 DEF Indexed
  <2>3. \A w \in Versions : (IF w \in Indexed(v, d) THEN acc.latest ELSE NoRows) = EventsNamed(l, index[w])
    BY <1>4, <1>6, <2>2
  <2>4. \A w \in Versions : (IF w \in Indexed(v, d) THEN acc.owners ELSE NoRows) = owners[w]
    BY <1>4, <1>6, <2>2
  <2>5. QED
    BY <1>1, <2>3, <2>4 DEF FreshnessHolds
<1>7. CASE index["3"] = NoRows
  <2>1. d.latest["3"] = NoRows /\ owners["3"] = NoRows
    BY <1>3, <1>5, <1>7 DEF FreshnessExact
  <2>2. \A w \in Versions : w # "3" => w \in Indexed(v, d)
    BY <1>3 DEF Indexed
  <2>3. "3" \in Indexed(v, d) => acc.latest = NoRows /\ acc.owners = NoRows
    <3>1. SUFFICES ASSUME "3" \in Indexed(v, d) PROVE acc.latest = NoRows /\ acc.owners = NoRows
      OBVIOUS
    <3>2. v = "3"
      BY <2>1, <3>1 DEF Indexed
    <3>3. Len(l) = 0
      BY <1>7, <3>2 DEF FreshnessExact
    <3>4. acc = NoIndexes
      BY <1>2, <3>3, EntriesLength, IndexSteps
    <3>5. QED
      BY <3>4 DEF NoIndexes
  <2>4. \A w \in Versions : (IF w \in Indexed(v, d) THEN acc.latest ELSE NoRows) = EventsNamed(l, index[w])
    BY <1>4, <1>5, <1>7, <2>2, <2>3
  <2>5. \A w \in Versions : (IF w \in Indexed(v, d) THEN acc.owners ELSE NoRows) = owners[w]
    BY <1>4, <1>7, <2>1, <2>2, <2>3
  <2>6. QED
    BY <1>1, <2>4, <2>5 DEF FreshnessHolds
<1>8. QED
  BY <1>6, <1>7

-----------------------------------------------------------------------------
\* The rows a store may have where projector v is audited: a sound log of admitted
\* entries, projector v showing a replayed prefix, and exact freshness rows.
AuditReady(v, l, tables, applied, index, owners) ==
  /\ v \in Versions /\ DOMAIN owners = Versions /\ owners = [w \in Versions |-> owners[w]]
  /\ LogSound(l) /\ AdmittedUpTo(l, Len(l)) /\ Accepts(v, l)
  /\ applied[v] \in 0..Len(l)
  /\ tables[v] = ReplayOf(l, EmptySnapshot)[applied[v]]
  /\ FreshnessExact(v, l, index, owners)

\* An audit that finds nothing wrong.
Clean(audit, v, l, p) ==
  /\ audit.failures = {}
  /\ audit.pending = (p+1)..Len(l)
  /\ audit.unchecked # {} => ~KnownUpTo(v, l, Len(l))

\* The rows of d that an audit of projector v reads, on the log l.
DiskReady(v, d, l, p) ==
  /\ HoldsLog(d, l)
  /\ p = 0 => d.progress[v] = {}
  /\ p # 0 => d.progress[v] = {[position |-> p, event |-> l[p].req.id]}
  /\ d.view[v] = ReplayOf(l, EmptySnapshot)[p]

\* The rows of a store hold its log, and a shown prefix where its projector's checkpoint says.
LEMMA DiskIsReady ==
  ASSUME NEW v \in Versions, NEW l, NEW tables, NEW applied, NEW index, NEW owners,
         tables[v] = ReplayOf(l, EmptySnapshot)[applied[v]]
  PROVE  LET d == DiskOf(l, tables, applied, index, owners) IN
         /\ DiskReady(v, d, l, applied[v])
         /\ d.latest = [w \in Versions |-> EventsNamed(l, index[w])] /\ d.subjectOf = owners
<1>1. PICK d : d = DiskOf(l, tables, applied, index, owners)
  OBVIOUS
<1>2. d.events = EventRows(l) /\ d.payloads = PayloadRowsOf(l)
  BY <1>1 DEF DiskOf, EventRows, PayloadRowsOf
<1>3. d.progress[v] = IF applied[v] = 0 THEN {} ELSE {[position |-> applied[v], event |-> l[applied[v]].req.id]}
  BY <1>1 DEF DiskOf
<1>4. d.view = tables /\ d.subjectOf = owners
  BY <1>1 DEF DiskOf
<1>5. d.latest = [w \in Versions |-> EventsNamed(l, index[w])]
  BY <1>1 DEF DiskOf, EventsNamed
<1>6. QED
  BY <1>1, <1>2, <1>3, <1>4, <1>5 DEF DiskReady, HoldsLog

\* The position that the audit takes projector v to have published.
PrefixOf(v, d, entries) ==
  IF d.progress[v] = {} THEN \A t \in Kinds : d.view[v][t] = NoRows
  ELSE \A p \in d.progress[v] : \E e \in ToSet(entries) : e.position = p.position /\ e.req.id = p.event

\* The audit finds the prefix that a ready disk shows.
LEMMA PrefixIs ==
  ASSUME NEW v, NEW d, NEW l, Len(l) \in Nat, DOMAIN l = 1..Len(l), NEW p \in 0..Len(l), DiskReady(v, d, l, p)
  PROVE  PrefixOf(v, d, EntriesOf(l))
<1>1. CASE p = 0
  <2>1. d.view[v] = EmptySnapshot /\ d.progress[v] = {}
    BY <1>1, ReplaySteps DEF DiskReady
  <2>2. \A t \in Kinds : EmptySnapshot[t] = NoRows
    BY DEF Kinds, EmptySnapshot
  <2>3. QED
    BY <2>1, <2>2 DEF PrefixOf
<1>2. CASE p # 0
  <2>1. p \in DOMAIN EntriesOf(l) /\ p \in DOMAIN l
    BY <1>2, EntriesLength
  <2>2. PICK e : e = EntriesOf(l)[p]
    OBVIOUS
  <2>3. e \in ToSet(EntriesOf(l)) /\ e.position = p /\ e.req.id = l[p].req.id
    BY <2>1, <2>2, EntryIs DEF ToSet
  <2>4. PICK c : c = [position |-> p, event |-> l[p].req.id]
    OBVIOUS
  <2>5. d.progress[v] = {c} /\ c.position = p /\ c.event = l[p].req.id
    BY <1>2, <2>4 DEF DiskReady
  <2>6. QED
    BY <2>3, <2>5 DEF PrefixOf
<1>3. QED
  BY <1>1, <1>2

\* The entries read are those of the log.
LEMMA EntrySet ==
  ASSUME NEW l, Len(l) \in Nat, DOMAIN l = 1..Len(l)
  PROVE  \A e : e \in ToSet(EntriesOf(l)) <=> \E i \in 1..Len(l) : e = EntriesOf(l)[i]
BY EntriesLength DEF ToSet

\* The entries of the log that s does not show.
MissingFrom(s, entries) == {e \in ToSet(entries) : e.req.id \notin DOMAIN s.events}

\* The entries without a dependency row are those past the shown prefix.
LEMMA MissingIs ==
  ASSUME NEW l, LogSound(l), NEW p \in 0..Len(l), NEW s, EventsAre(s, l, p)
  PROVE  /\ \A e \in MissingFrom(s, EntriesOf(l)) : e.position \in (p+1)..Len(l)
         /\ \A i \in (p+1)..Len(l) : \E e \in MissingFrom(s, EntriesOf(l)) : e.position = i
<1>1. Len(l) \in Nat /\ DOMAIN l = 1..Len(l)
  BY DEF LogSound
<1>2. \A i \in 1..Len(l) : l[i].req.id \in DOMAIN s.events <=> i <= p
  BY EventsShown
<1>3. \A i \in 1..Len(l) : EntriesOf(l)[i].position = i /\ EntriesOf(l)[i].req = l[i].req
  BY <1>1, EntryIs
<1>4. ASSUME NEW e \in MissingFrom(s, EntriesOf(l)) PROVE e.position \in (p+1)..Len(l)
  <2>1. PICK i \in 1..Len(l) : e = EntriesOf(l)[i]
    BY <1>1, EntrySet DEF MissingFrom
  <2>2. ~(i <= p)
    BY <1>2, <1>3, <2>1 DEF MissingFrom
  <2>3. QED
    BY <1>1, <1>3, <2>1, <2>2
<1>5. ASSUME NEW i \in (p+1)..Len(l) PROVE \E e \in MissingFrom(s, EntriesOf(l)) : e.position = i
  <2>1. i \in 1..Len(l) /\ ~(i <= p)
    BY <1>1
  <2>2. PICK e : e = EntriesOf(l)[i]
    OBVIOUS
  <2>3. e \in ToSet(EntriesOf(l)) /\ e.position = i /\ e.req = l[i].req
    BY <1>1, <1>3, <2>1, <2>2, EntrySet
  <2>4. QED
    BY <1>2, <2>1, <2>3 DEF MissingFrom
<1>6. QED
  BY <1>4, <1>5

\* The records s of projector v show the first p entries of l and refer to no others.
Covered(v, l, s, p) ==
  /\ \A x \in References(s) : \E e \in ToSet(EntriesOf(l)) : x = e.req.id
  /\ EventsAre(s, l, p)
  /\ RelationsAgree(v, s, s)

\* The records of a replayed prefix cover it.
LEMMA CoverageHolds ==
  ASSUME NEW v, NEW l, LogSound(l), AdmittedUpTo(l, Len(l)), NEW p \in 0..Len(l),
         NEW s, s = ReplayOf(l, EmptySnapshot)[p]
  PROVE  Covered(v, l, s, p)
<1>1. Len(l) \in Nat /\ DOMAIN l = 1..Len(l)
  BY DEF LogSound
<1>2. AdmittedUpTo(l, p)
  BY <1>1 DEF AdmittedUpTo
<1>3. Referenced(s) /\ EventsAre(s, l, p)
  BY <1>1, <1>2, ReplayedRows
<1>4. EndingsHold(s, l, p)
  BY <1>1, <1>2, ReplayedTables
<1>5. RelationsAgree(v, s, s)
  BY <1>2, <1>4, EndingsAudit DEF AdmittedUpTo
<1>6. ASSUME NEW x \in References(s) PROVE \E e \in ToSet(EntriesOf(l)) : x = e.req.id
  <2>1. PICK i \in 1..p : x = l[i].req.id
    BY <1>3, ReferencesAre
  <2>2. i \in 1..Len(l) /\ i \in DOMAIN l
    BY <1>1
  <2>3. EntriesOf(l)[i] \in ToSet(EntriesOf(l)) /\ EntriesOf(l)[i].req = l[i].req
    BY <1>1, <2>2, EntrySet, EntryIs
  <2>4. QED
    BY <2>1, <2>3
<1>7. QED
  BY <1>3, <1>5, <1>6 DEF Covered

\* The checks of an audit beyond those of the log.
AuditChecks(v, d, entries, prefix, p, s, replayed) ==
  {Check("freshness", Indexable(v, entries) => FreshnessHolds(v, d, entries)),
   Check("coverage", /\ prefix
                     /\ References(s) \subseteq {e.req.id : e \in ToSet(entries)}
                     /\ \A e \in MissingFrom(s, entries) : e.position > p
                     /\ replayed.complete /\ prefix => \A t \in Kinds : s[t] = replayed.published[t]),
   Check("relations", replayed.complete /\ prefix => RelationsAgree(v, replayed.published, s))}

\* What the audit concludes from the entries it read, the prefix they show, the
\* records, the reconstruction and the index.
Concluded(audit, v, d, entries, prefix, p, s, replayed) ==
  /\ audit.failures = LogFailures(d) \cup replayed.failures
                        \cup Failing(AuditChecks(v, d, entries, prefix, p, s, replayed))
  /\ audit.unchecked = replayed.unchecked \cup (IF Indexable(v, entries) THEN {} ELSE {"freshness"})
                         \cup (IF prefix THEN {} ELSE {"coverage"})
  /\ audit.pending = IF prefix THEN {e.position : e \in {x \in MissingFrom(s, entries) : x.position > p}} ELSE {}

\* An audit of a shown prefix: what it reads, and the position it takes as published.
Reads(v, d, entries, prefix, p, s, replayed) ==
  /\ entries = ReadLog(d) /\ prefix = PrefixOf(v, d, entries) /\ prefix
  /\ p = (IF d.progress[v] = {} THEN 0 ELSE (CHOOSE c \in d.progress[v] : TRUE).position)
  /\ s = d.view[v] /\ replayed = Reconstruction(v, entries, p)

\* What Audit computes, part by part.
LEMMA AuditParts ==
  ASSUME NEW v, NEW d, NEW entries, NEW prefix, NEW p, NEW s, NEW replayed,
         Reads(v, d, entries, prefix, p, s, replayed)
  PROVE  Concluded(Audit(v, d), v, d, entries, prefix, p, s, replayed)
<1> DEFINE failures  == LogFailures(d) \cup replayed.failures
                          \cup Failing(AuditChecks(v, d, entries, prefix, p, s, replayed))
           unchecked == replayed.unchecked \cup (IF Indexable(v, entries) THEN {} ELSE {"freshness"})
                          \cup (IF prefix THEN {} ELSE {"coverage"})
           pending   == IF prefix THEN {e.position : e \in {x \in MissingFrom(s, entries) : x.position > p}} ELSE {}
<1>1. Audit(v, d) = [failures |-> failures, unchecked |-> unchecked, pending |-> pending]
  BY DEF Audit, MissingFrom, PrefixOf, AuditChecks, Reads
<1> HIDE DEF failures, unchecked, pending
<1>2. /\ Audit(v, d).failures = failures /\ Audit(v, d).unchecked = unchecked
      /\ Audit(v, d).pending = pending
  BY ONLY <1>1
<1>3. QED
  BY <1>2 DEF Concluded, failures, unchecked, pending

\* The position read back from the checkpoint.
LEMMA PositionIs ==
  ASSUME NEW v, NEW d, NEW l, NEW p, DiskReady(v, d, l, p)
  PROVE  p = (IF d.progress[v] = {} THEN 0 ELSE (CHOOSE c \in d.progress[v] : TRUE).position)
<1>1. CASE p = 0
  BY <1>1 DEF DiskReady
<1>2. CASE p # 0
  <2>1. PICK c : c = [position |-> p, event |-> l[p].req.id]
    OBVIOUS
  <2>2. d.progress[v] = {c} /\ c.position = p
    BY <1>2, <2>1 DEF DiskReady
  <2>3. (CHOOSE x \in {c} : TRUE) = c
    OBVIOUS
  <2>4. QED
    BY <2>2, <2>3
<1>3. QED
  BY <1>1, <1>2

\* The audit of a store that is ready for it finds nothing wrong.
LEMMA ReadyIsClean ==
  ASSUME NEW v, NEW l, NEW tables, NEW applied, NEW index, NEW owners,
         AuditReady(v, l, tables, applied, index, owners)
  PROVE  Clean(Audit(v, DiskOf(l, tables, applied, index, owners)), v, l, applied[v])
<1>1. PICK d, entries, p, s : /\ d = DiskOf(l, tables, applied, index, owners)
                              /\ entries = EntriesOf(l) /\ p = applied[v]
                              /\ s = ReplayOf(l, EmptySnapshot)[p]
  OBVIOUS
<1>2. LogSound(l) /\ Len(l) \in Nat /\ DOMAIN l = 1..Len(l) /\ p \in 0..Len(l) /\ v \in Versions
  BY <1>1 DEF AuditReady, LogSound
<1>3. DiskReady(v, d, l, p) /\ d.latest = [w \in Versions |-> EventsNamed(l, index[w])] /\ d.subjectOf = owners
  <2>1. tables[v] = ReplayOf(l, EmptySnapshot)[applied[v]]
    BY DEF AuditReady
  <2>2. QED
    BY <1>1, <1>2, <2>1, DiskIsReady
<1>4. entries = ReadLog(d) /\ LogFailures(d) = {} /\ s = d.view[v]
  <2>1. HoldsLog(d, l)
    BY <1>3 DEF DiskReady
  <2>2. QED
    BY <1>1, <1>2, <1>3, <2>1, ReadLogIs, LogPasses DEF DiskReady
<1>5. PICK prefix : prefix = PrefixOf(v, d, entries)
  OBVIOUS
<1>6. prefix
  BY <1>1, <1>2, <1>3, <1>5, PrefixIs
<1>7. p = (IF d.progress[v] = {} THEN 0 ELSE (CHOOSE c \in d.progress[v] : TRUE).position)
  BY <1>3, PositionIs
<1>8. PICK replayed : replayed = Reconstruction(v, entries, p)
  OBVIOUS
<1>9. Outcome(replayed, v, l, Len(l), p)
  <2>1. AdmittedUpTo(l, Len(l)) /\ Accepts(v, l)
    BY DEF AuditReady
  <2>2. QED
    BY <1>1, <1>2, <1>8, <2>1, ReconstructionIs
<1>10. /\ \A x \in References(s) : \E e \in ToSet(entries) : x = e.req.id
       /\ EventsAre(s, l, p)
       /\ RelationsAgree(v, s, s)
  <2>1. Covered(v, l, s, p)
    BY <1>1, <1>2, CoverageHolds DEF AuditReady
  <2>2. QED
    BY <1>1, <2>1 DEF Covered
<1>11. PICK missing, indexed : missing = MissingFrom(s, entries) /\ indexed = Indexable(v, entries)
  OBVIOUS
<1>12. /\ \A e \in missing : e.position \in (p+1)..Len(l)
       /\ \A i \in (p+1)..Len(l) : \E e \in missing : e.position = i
  BY <1>1, <1>2, <1>10, <1>11, MissingIs
<1>13. replayed.complete => replayed.published = s /\ KnownUpTo(v, l, Len(l))
  <2>1. SUFFICES ASSUME replayed.complete PROVE replayed.published = s /\ KnownUpTo(v, l, Len(l))
    OBVIOUS
  <2>2. KnownUpTo(v, l, Len(l))
    BY <1>9, <2>1 DEF Outcome
  <2>3. CASE p = 0
    <3>1. p \notin 1..Len(l)
      BY <2>3
    <3>2. replayed.published = EmptySnapshot
      BY <1>9, <2>2, <3>1 DEF Outcome
    <3>3. s = EmptySnapshot
      BY <1>1, <1>2, <2>3, ReplaySteps
    <3>4. QED
      BY <2>2, <3>2, <3>3
  <2>4. CASE p # 0
    <3>1. p \in 1..Len(l)
      BY <1>2, <2>4
    <3>2. QED
      BY <1>1, <1>9, <2>2, <3>1 DEF Outcome
  <2>5. QED
    BY <2>3, <2>4
<1>14. FreshnessHolds(v, d, entries)
  <2>1. FreshnessExact(v, l, index, owners) /\ owners = [w \in Versions |-> owners[w]]
    BY DEF AuditReady
  <2>2. d.subjectOf = [w \in Versions |-> owners[w]]
    BY <1>3, <2>1
  <2>3. QED
    BY <1>1, <1>2, <1>3, <2>1, <2>2, FreshnessAudits
<1>15. PICK audit : audit = Audit(v, d)
  OBVIOUS
<1> DEFINE checks == AuditChecks(v, d, entries, prefix, p, s, replayed)
<1>16. /\ audit.failures = LogFailures(d) \cup replayed.failures \cup Failing(checks)
       /\ audit.unchecked = replayed.unchecked \cup (IF indexed THEN {} ELSE {"freshness"})
                              \cup (IF prefix THEN {} ELSE {"coverage"})
       /\ audit.pending = IF prefix THEN {e.position : e \in {x \in missing : x.position > p}} ELSE {}
  <2>1. Reads(v, d, entries, prefix, p, s, replayed)
    BY <1>4, <1>5, <1>6, <1>7, <1>8 DEF Reads
  <2>2. Concluded(audit, v, d, entries, prefix, p, s, replayed)
    BY <1>15, <2>1, AuditParts
  <2>3. QED
    BY <1>11, <2>2 DEF Concluded
<1>17. Failing(checks) = {}
  <2>1. indexed => FreshnessHolds(v, d, entries)
    BY <1>14
  <2>2. References(s) \subseteq {e.req.id : e \in ToSet(entries)}
    BY <1>10
  <2>3. \A e \in missing : e.position > p
    BY <1>2, <1>12
  <2>4. replayed.complete /\ prefix => \A t \in Kinds : s[t] = replayed.published[t]
    BY <1>13
  <2>5. replayed.complete /\ prefix => RelationsAgree(v, replayed.published, s)
    BY <1>10, <1>13
  <2>6. \A k \in checks : k.holds
    BY <1>6, <1>11, <2>1, <2>2, <2>3, <2>4, <2>5, CheckHolds DEF AuditChecks
  <2> HIDE DEF checks
  <2>7. QED
    BY <2>6, NoneFails
<1>18. audit.failures = {}
  <2> HIDE DEF checks
  <2>1. replayed.failures = {}
    BY <1>9 DEF Outcome
  <2>2. QED
    BY <1>4, <1>16, <1>17, <2>1
<1>19. audit.pending = (p+1)..Len(l)
  <2>1. \A e \in missing : e.position > p
    BY <1>2, <1>12
  <2>2. audit.pending = {e.position : e \in {x \in missing : x.position > p}}
    BY <1>6, <1>16
  <2>3. QED
    BY <1>12, <2>1, <2>2
<1>20. KnownUpTo(v, l, Len(l)) => audit.unchecked = {}
  <2>1. SUFFICES ASSUME KnownUpTo(v, l, Len(l)) PROVE audit.unchecked = {}
    OBVIOUS
  <2>2. replayed.unchecked = {}
    BY <1>9, <2>1 DEF Outcome
  <2>3. indexed
    BY <1>1, <1>2, <1>11, <2>1, IndexableIs DEF AuditReady
  <2>4. QED
    BY <1>6, <1>16, <2>2, <2>3
<1>21. Clean(audit, v, l, p)
  BY <1>18, <1>19, <1>20 DEF Clean
<1>22. QED
  BY <1>1, <1>15, <1>21

-----------------------------------------------------------------------------
(***************************************************************************)
(* The freshness rows of a store are exact.                                *)
(***************************************************************************)
Exact(w) == ExactIndex(log, latest[w], subjectOf[w], Len(log))

ExactRows ==
  /\ IsTable(subjectOf)
  /\ \A w \in Versions : IF Kept(w) THEN Exact(w) ELSE subjectOf[w] = NoRows

AuditInv == FreshInv /\ LogVerifies /\ ExactRows

\* An append leaves the owners a table.
LEMMA OwnersTable ==
  ASSUME NEW v, NEW e, AppendStep(v, e)
  PROVE  IsTable(subjectOf')
<1> DEFINE forward == v = "3" \/ ForwardActive
           owned   == IF forward THEN Activated(subjectOf) ELSE subjectOf
           d       == Delta(view[v], e.req, e.recorded, NextPosition)
           owning  == [b \in DOMAIN d.beliefs |-> d.beliefs[b].subject]
<1>1. subjectOf' = [w \in Versions |-> IF w # "3" \/ forward THEN Upsert(owned[w], owning) ELSE owned[w]]
  BY DEF AppendStep, Insert
<1> HIDE DEF forward, owned, owning
<1>2. QED
  BY <1>1 DEF IsTable

\* Beliefs are only owned where something is known to have changed.
LEMMA NoRowsNoOwners ==
  ASSUME NEW l, Len(l) \in Nat, AdmittedUpTo(l, Len(l)), NEW S, IsTable(S),
         IndexCurrent(l, NoRows, S, Len(l))
  PROVE  S = NoRows
<1>1. PICK s : s = ReplayOf(l, EmptySnapshot)[Len(l)]
  OBVIOUS
<1>2. AllObserved(s, l, Len(l))
  <2>1. Len(l) \in 0..Len(l)
    OBVIOUS
  <2>2. QED
    BY <1>1, <2>1, BeliefsObserved
<1>3. ASSUME NEW b \in DOMAIN S PROVE FALSE
  <2>1. b \in DOMAIN s.beliefs
    BY <1>1, <1>3 DEF IndexCurrent
  <2>2. PICK j \in 1..Len(l) : b \in BeliefsOf(l[j].req.body.claims)
    BY <1>2, <2>1 DEF AllObserved, ObservedBy
  <2>3. b \in BeliefsTouched(l[j].req)
    BY <2>2 DEF BeliefsTouched, BeliefsOf
  <2>4. S[b] \in DOMAIN NoRows
    BY <2>3 DEF IndexCurrent
  <2>5. QED
    BY <2>4 DEF NoRows
<1>4. IsTable(NoRows) /\ \A k : k \notin DOMAIN NoRows
  BY DEF IsTable, NoRows
<1>5. QED
  BY <1>3, <1>4, SameTable

\* An append keeps the rows exact.
LEMMA ExactAppend ==
  ASSUME FreshInv, ExactRows, NEW v \in Versions, NEW e \in Entries, AppendStep(v, e)
  PROVE  ExactRows'
<1>1. PICK n, l, k, d : /\ n = Len(log) /\ l = log /\ k = log' /\ d = Delta(view[v], e.req, e.recorded, NextPosition)
  OBVIOUS
<1>2. /\ n \in Nat /\ Len(k) = n + 1 /\ Len(l) = n /\ DOMAIN l = 1..Len(l) /\ DOMAIN k = 1..Len(k)
      /\ \A i \in 1..n : k[i] = l[i]
      /\ k[n+1] = e
  <2>1. log \in Seq(Entries) /\ log' \in Seq(Entries)
    BY AppendKeeps DEF FreshInv, ReplayInv
  <2>2. QED
    BY <1>1, <2>1, AppendKeeps DEF FreshInv, ReplayInv
<1>3. TypeOK /\ NextPosition = n + 1
  BY <1>1 DEF FreshInv, ReplayInv, NextPosition
<1>4. AdmittedUpTo(k, n+1) /\ ReplayOf(k, EmptySnapshot)[n] = view[v]
  BY <1>1, AppendAdmitted
<1>5. d = Delta(ReplayOf(k, EmptySnapshot)[n], k[n+1].req, k[n+1].recorded, n+1)
  BY <1>1, <1>2, <1>3, <1>4
<1>6. ASSUME NEW w \in Versions, Maintained(v, w)
      PROVE  /\ ExactIndex(k, latest'[w], subjectOf'[w], n+1)
             /\ IndexCurrent(k, latest'[w], subjectOf'[w], n+1)
  <2>1. PICK x \in Versions :
          /\ Kept(x)
          /\ latest'[w] = Upsert([s \in SubjectsTouched(d) |-> n+1], latest[x])
          /\ subjectOf'[w] = Upsert(subjectOf[x], [b \in DOMAIN d.beliefs |-> d.beliefs[b].subject])
    <3>1. AppendedTo(w, d)
      BY <1>1, <1>3, <1>6, RowsAppended
    <3>2. QED
      BY <1>3, <3>1 DEF AppendedTo
  <2>2. PICK L, S : L = latest[x] /\ S = subjectOf[x]
    OBVIOUS
  <2>3. IndexCurrent(l, L, S, n) /\ ExactIndex(l, L, S, n) /\ Positions(L, n)
    BY <1>1, <1>3, <2>1, <2>2 DEF FreshInv, FreshRows, ExactRows, Exact, TypeOK, Positions
  <2>4. IndexCurrent(k, L, S, n) /\ ExactIndex(k, L, S, n)
    BY <1>2, <2>3, IndexPrefix, ExactPrefix
  <2>5. n + 1 \in 1..Len(k) /\ Len(k) \in Nat
    BY <1>2
  <2>6. /\ ExactIndex(k, Upsert([s \in SubjectsTouched(d) |-> n+1], L),
                      Upsert(S, [b \in DOMAIN d.beliefs |-> d.beliefs[b].subject]), n+1)
        /\ IndexCurrent(k, Upsert([s \in SubjectsTouched(d) |-> n+1], L),
                        Upsert(S, [b \in DOMAIN d.beliefs |-> d.beliefs[b].subject]), n+1)
    BY <1>2, <1>4, <1>5, <2>3, <2>4, <2>5, ExactGrows, IndexGrows
  <2>7. QED
    BY <2>1, <2>2, <2>6
<1>7. ASSUME NEW w \in Versions
      PROVE  IF Kept(w)' THEN Exact(w)' ELSE subjectOf'[w] = NoRows
  <2>1. CASE Maintained(v, w)
    <3>1. Exact(w)'
      BY <1>1, <1>2, <1>6, <2>1 DEF Exact
    <3>2. ~Kept(w)' => subjectOf'[w] = NoRows
      <4>1. SUFFICES ASSUME ~Kept(w)' PROVE subjectOf'[w] = NoRows
        OBVIOUS
      <4>2. latest'[w] = NoRows
        BY <4>1 DEF Kept, ForwardActive
      <4>3. IndexCurrent(k, NoRows, subjectOf'[w], Len(k)) /\ IsTable(subjectOf'[w])
        BY <1>2, <1>6, <2>1, <4>2 DEF ExactIndex
      <4>4. Len(k) \in Nat /\ AdmittedUpTo(k, Len(k))
        BY <1>2, <1>4
      <4>5. QED
        BY <4>3, <4>4, NoRowsNoOwners
    <3>3. QED
      BY <3>1, <3>2
  <2>2. CASE ~Maintained(v, w)
    <3>1. w = "3" /\ ~Kept(w) /\ latest'[w] = latest[w] /\ subjectOf'[w] = subjectOf[w]
      BY <1>3, <2>2, RowsAppended DEF Maintained, Kept
    <3>2. ~Kept(w)'
      BY <3>1 DEF Kept, ForwardActive
    <3>3. QED
      BY <3>1, <3>2 DEF ExactRows
  <2>3. QED
    BY <2>1, <2>2
<1>8. IsTable(subjectOf')
  BY OwnersTable
<1>9. QED
  BY <1>7, <1>8 DEF ExactRows

\* Everything else may activate projector 3, with a copy of projector 2's rows.
LEMMA ExactActivate ==
  ASSUME FreshInv, ExactRows, log' = log, NEW v, ActivateForward(v)
  PROVE  ExactRows'
<1>1. "2" \in Versions /\ "3" \in Versions /\ TypeOK /\ Kept("2")
  BY DEF Versions, FreshInv, ReplayInv, Kept
<1>2. CASE v = "3" /\ ~ForwardActive
  <2>1. /\ latest' = [latest EXCEPT !["3"] = latest["2"]]
        /\ subjectOf' = [subjectOf EXCEPT !["3"] = subjectOf["2"]]
    BY <1>2 DEF ActivateForward, Activated
  <2>2. /\ IsTable(subjectOf')
        /\ \A w \in Versions :
             /\ latest'[w] = IF w = "3" THEN latest["2"] ELSE latest[w]
             /\ subjectOf'[w] = IF w = "3" THEN subjectOf["2"] ELSE subjectOf[w]
    BY <1>1, <2>1 DEF TypeOK, IsTable
  <2>3. Exact("2") /\ IndexCurrent(log, latest["2"], subjectOf["2"], Len(log)) /\ IsTable(subjectOf["2"])
    BY <1>1 DEF ExactRows, Exact, ExactIndex, FreshInv, FreshRows
  <2>4. latest["2"] = NoRows => subjectOf["2"] = NoRows
    <3>1. Len(log) \in Nat /\ AdmittedUpTo(log, Len(log))
      BY <1>1, LogAdmitted DEF FreshInv, TypeOK
    <3>2. QED
      BY <2>3, <3>1, NoRowsNoOwners
  <2>5. ASSUME NEW w \in Versions PROVE IF Kept(w)' THEN Exact(w)' ELSE subjectOf'[w] = NoRows
    <3>1. CASE w = "3"
      <4>1. latest'[w] = latest["2"] /\ subjectOf'[w] = subjectOf["2"]
        BY <2>2, <3>1
      <4>2. Exact(w)'
        BY <2>3, <4>1 DEF Exact
      <4>3. ~Kept(w)' => latest["2"] = NoRows
        BY <3>1, <4>1 DEF Kept, ForwardActive
      <4>4. QED
        BY <2>4, <4>1, <4>2, <4>3
    <3>2. CASE w # "3"
      <4>1. latest'[w] = latest[w] /\ subjectOf'[w] = subjectOf[w]
        BY <2>2, <3>2
      <4>2. Exact(w) /\ Kept(w)'
        BY <3>2 DEF ExactRows, Kept
      <4>3. QED
        BY <4>1, <4>2 DEF Exact
    <3>3. QED
      BY <3>1, <3>2
  <2>6. QED
    BY <2>2, <2>5 DEF ExactRows
<1>3. CASE ~(v = "3" /\ ~ForwardActive)
  <2>1. latest' = latest /\ subjectOf' = subjectOf
    BY <1>3 DEF ActivateForward, Activated
  <2>2. QED
    BY <2>1 DEF ExactRows, Exact, Kept, ForwardActive
<1>4. QED
  BY <1>2, <1>3

\* AuditInv is inductive.
LEMMA AuditInvNext == AuditInv /\ [Next]_vars => AuditInv'
<1>1. SUFFICES ASSUME AuditInv, [Next]_vars PROVE AuditInv'
  OBVIOUS
<1>2. TypeOK /\ FreshInv /\ ExactRows
  BY <1>1 DEF AuditInv, FreshInv, ReplayInv
<1>3. FreshInv' /\ LogVerifies'
  BY <1>1, <1>2, FreshNext, LogVerifiesNext DEF AuditInv
<1>4. ExactRows'
  <2>1. CASE \E v \in Versions, e \in Entries : AppendStep(v, e)
    BY <1>2, <2>1, ExactAppend
  <2>2. CASE log' = log /\ \E v : ActivateForward(v)
    BY <1>2, <2>2, ExactActivate
  <2>3. CASE log' = log /\ UNCHANGED <<latest, subjectOf>>
    BY <1>2, <2>3 DEF ExactRows, Exact, Kept, ForwardActive
  <2>4. QED
    BY <1>1, <1>2, <2>1, <2>2, <2>3, RowSteps
<1>5. QED
  BY <1>3, <1>4 DEF AuditInv

\* A new store has it.
LEMMA AuditInvInit == Init => AuditInv
<1>1. SUFFICES ASSUME Init PROVE AuditInv
  OBVIOUS
<1>2. FreshInv /\ LogVerifies
  BY <1>1, FreshInit DEF Init, LogVerifies
<1>3. Len(log) = 0 /\ DOMAIN log = 1..Len(log) /\ Len(log) \in Nat
  BY <1>1 DEF Init
<1>4. ExactIndex(log, NoRows, NoRows, 0)
  BY <1>3, ExactEmpty
<1>5. \A w \in Versions : latest[w] = NoRows /\ subjectOf[w] = NoRows
  BY <1>1 DEF Init
<1>6. IsTable(subjectOf)
  BY <1>1 DEF Init, IsTable
<1>7. ExactRows
  BY <1>3, <1>4, <1>5, <1>6 DEF ExactRows, Exact
<1>8. QED
  BY <1>2, <1>7 DEF AuditInv

-----------------------------------------------------------------------------
(***************************************************************************)
(* The audits of a store.                                                  *)
(***************************************************************************)
\* The log of a store that verifies is sound.
LEMMA LogIsSound ==
  ASSUME TypeOK, LogVerifies
  PROVE  LogSound(log)
<1>1. Len(log) \in Nat /\ DOMAIN log = 1..Len(log)
  BY DEF TypeOK
<1>2. ASSUME NEW i \in 1..Len(log)
      PROVE  log[i].req = [field \in DOMAIN log[i].req |-> log[i].req[field]]
  <2>1. PICK r : r = log[i].req
    OBVIOUS
  <2>2. r \in Requests
    <3>1. log[i] \in Entries
      BY DEF TypeOK
    <3>2. QED
      BY <2>1, <3>1 DEF Entries
  <2>3. r = [field \in DOMAIN r |-> r[field]]
    BY ONLY <2>2, RecordAssumption
  <2>4. QED
    BY <2>1, <2>3
<1>3. QED
  BY <1>1, <1>2 DEF LogSound, LogVerifies

\* Every projector accepts the entries it knows.
LEMMA LogAccepted ==
  ASSUME Replayable, NEW v \in Versions
  PROVE  Accepts(v, log)
BY DEF Replayable, Accepts, KnownUpTo, Replay

\* A store is ready for an audit of each projector whose freshness rows are kept.
LEMMA StoreIsReady ==
  ASSUME AuditInv, NEW v \in Versions, v = "3" => log = <<>> \/ ForwardActive
  PROVE  AuditReady(v, log, view, progress, latest, subjectOf)
<1>1. TypeOK /\ Len(log) \in Nat /\ progress[v] \in 0..Len(log)
  BY DEF AuditInv, FreshInv, ReplayInv, TypeOK
<1>2. LogSound(log) /\ Accepts(v, log)
  BY <1>1, LogIsSound, LogAccepted DEF AuditInv, FreshInv
<1>3. AdmittedUpTo(log, Len(log))
  BY <1>1, LogAdmitted DEF AuditInv, FreshInv
<1>4. view[v] = ReplayOf(log, EmptySnapshot)[progress[v]]
  BY DEF AuditInv, FreshInv, ReplayInv, ViewIsReplay, Replay
<1>5. FreshnessExact(v, log, latest, subjectOf)
  <2>1. \A w \in Versions : w # "3" \/ latest["3"] # NoRows => ExactIndex(log, latest[w], subjectOf[w], Len(log))
    BY DEF AuditInv, ExactRows, Exact, Kept, ForwardActive
  <2>2. latest["3"] = NoRows => subjectOf["3"] = NoRows
    BY DEF AuditInv, ExactRows, Kept, ForwardActive, Versions
  <2>3. v = "3" => Len(log) = 0 \/ latest["3"] # NoRows
    BY DEF ForwardActive
  <2>4. QED
    BY <2>1, <2>2, <2>3 DEF FreshnessExact
<1>6. DOMAIN subjectOf = Versions /\ subjectOf = [w \in Versions |-> subjectOf[w]]
  BY <1>1 DEF AuditInv, ExactRows, IsTable, TypeOK
<1>7. QED
  BY <1>1, <1>2, <1>3, <1>4, <1>5, <1>6 DEF AuditReady

\* AuditInv gives clean audits.
LEMMA AuditsAreClean == AuditInv => CleanStoreAudits
<1>1. SUFFICES ASSUME AuditInv, NEW v \in Versions, v = "3" => log = <<>> \/ ForwardActive
               PROVE  LET audit == Audit(v, Disk) IN
                      /\ audit.failures = {}
                      /\ audit.pending = Unpublished(v)
                      /\ audit.unchecked # {} => v # "3" /\ \E i \in DOMAIN log : log[i].req.type \in Transitions
  BY DEF CleanStoreAudits
<1>2. PICK audit : audit = Audit(v, Disk)
  OBVIOUS
<1>3. Clean(audit, v, log, progress[v])
  BY <1>1, <1>2, StoreIsReady, ReadyIsClean DEF Disk
<1>4. DOMAIN log = 1..Len(log)
  BY <1>1 DEF AuditInv, FreshInv, ReplayInv, TypeOK
<1>5. audit.unchecked # {} => v # "3" /\ \E i \in DOMAIN log : log[i].req.type \in Transitions
  BY <1>3, <1>4 DEF Clean, KnownUpTo
<1>6. QED
  BY <1>2, <1>3, <1>5 DEF Clean, Unpublished

\* Whatever sessions did to a store, the independent verifier finds no failure in it under any
\* projector the store keeps freshness rows for, which all but projector 3 always are and
\* projector 3 once it was selected; it reports exactly the unpublished events as pending, and
\* leaves an event unchecked only where a projector meets transitions it has no semantics
\* for: CleanStoreAudits.
THEOREM StoresAuditClean == Spec => []CleanStoreAudits
BY AuditInvInit, AuditInvNext, AuditsAreClean, PTL DEF Spec

-----------------------------------------------------------------------------
(***************************************************************************)
(* The proof manifest of the store transition is worth its name, for every *)
(* set of requests and manifests and whatever the source's producers did   *)
(* while the tool, which holds no lock, was copying.                       *)
(*                                                                         *)
(* A phase only adds to what the earlier ones established, so what is      *)
(* known at a phase is known at all later ones.                            *)
(***************************************************************************)
FromPinned   == {"pinned", "backed", "copied", "migrated", "rebuilt", "audited", "done"}
FromBacked   == FromPinned \ {"pinned"}
FromCopied   == FromBacked \ {"backed"}
FromMigrated == FromCopied \ {"copied"}
FromRebuilt  == FromMigrated \ {"migrated"}

\* l is what the source's log was at some time.
WasLog(l) ==
  /\ l \in Seq(Entries)
  /\ Len(l) <= Len(log)
  /\ \A k \in 1..Len(l) : log[k] = l[k]

\* Records with the fields of an image, and of a copy.
IsImage(i) ==
  /\ DOMAIN i = {"log", "view", "progress", "latest", "subjectOf", "schema"}
  /\ DOMAIN i.view = Versions
  /\ DOMAIN i.progress = Versions
IsCopy(copy) == DOMAIN copy = {"image", "imports"}

\* The pinned snapshot is a prefix of the source's log, and both copies are of it.
Pinned ==
  phase \in FromPinned =>
    /\ WasLog(pinned.log)
    /\ IsCopy(backup) /\ IsImage(backup.image)
    /\ backup.image.log = pinned.log /\ backup.image.schema = schema
    /\ IsCopy(working) /\ IsImage(working.image)
    /\ working.image.log = pinned.log

\* What each later phase added.
BackedUp == phase \in FromBacked => backup.imports = hashed
CopiedBeside == phase \in FromCopied => working.imports = hashed
Migrated == phase \in FromMigrated => working.image.schema = 5
ShowsAll ==
  phase \in FromRebuilt =>
    LET i == working.image IN
    /\ i.progress["3"] = Len(i.log)
    /\ i.view["3"] = TablesOf(i.log)
    /\ \A n \in DOMAIN i.log : i.log[n].req.type \notin Transitions

TransitionInv == TypeOK /\ Pinned /\ BackedUp /\ CopiedBeside /\ Migrated /\ ShowsAll

-----------------------------------------------------------------------------
(***************************************************************************)
(* The source.                                                             *)
(***************************************************************************)
\* A transaction of the source is one of the store's, and only ever appends.
LEMMA SourceGrows ==
  ASSUME TypeOK, [Next]_vars
  PROVE  TypeOK' /\ \A l : WasLog(l) => WasLog(l)'
<1>1. TypeOK'
  BY TypeNext
<1>2. SUFFICES ASSUME NEW l, WasLog(l) PROVE WasLog(l)'
  BY <1>1
<1>3. CASE UNCHANGED log
  BY <1>2, <1>3 DEF WasLog
<1>4. ASSUME NEW v \in Versions, NEW e \in Entries, AppendStep(v, e) PROVE WasLog(l)'
  <2>1. /\ Len(log) \in Nat /\ Len(log') = Len(log) + 1
        /\ \A k \in 1..Len(log) : log'[k] = log[k]
    BY <1>4, AppendKeeps
  <2>2. l \in Seq(Entries) /\ Len(l) \in Nat /\ Len(l) <= Len(log) /\ \A k \in 1..Len(l) : log[k] = l[k]
    BY <1>2 DEF WasLog
  <2>3. Len(l) <= Len(log') /\ \A k \in 1..Len(l) : log'[k] = l[k]
    BY <2>1, <2>2
  <2>4. QED
    BY <2>2, <2>3 DEF WasLog
<1>5. QED
  BY <1>3, <1>4, StepKinds DEF AdvanceStep, RecoverStep, ShowStep

LEMMA SourceIsStore == SourceUsed => [Next]_vars
BY DEF SourceUsed, Usable, Next, OrdinaryNext

\* Only the source's own transactions change the store, and only Stop and the
\* tool's own steps change what the tool holds.
LEMMA SourceKeeps ==
  ASSUME TransitionInv, [Next]_vars, UNCHANGED <<schema, phase, hashed, pinned, backup, working>>
  PROVE  TransitionInv'
<1>1. TypeOK' /\ (WasLog(pinned.log) => WasLog(pinned.log)')
  BY SourceGrows DEF TransitionInv
<1>2. Pinned'
  BY <1>1 DEF TransitionInv, Pinned, WasLog
<1>3. BackedUp' /\ CopiedBeside' /\ Migrated'
  BY DEF TransitionInv, BackedUp, CopiedBeside, Migrated
<1>4. ShowsAll'
  BY DEF TransitionInv, ShowsAll
<1>5. QED
  BY <1>1, <1>2, <1>3, <1>4 DEF TransitionInv

-----------------------------------------------------------------------------
(***************************************************************************)
(* The tool's steps.                                                       *)
(***************************************************************************)
LEMMA ImageIsImage ==
  ASSUME TypeOK
  PROVE  IsImage(Image) /\ Image.log = log /\ Image.schema = schema /\ WasLog(log)
<1>1. log \in Seq(Entries) /\ Len(log) \in Nat /\ DOMAIN view = Versions /\ DOMAIN progress = Versions
  BY DEF TypeOK
<1>2. QED
  BY <1>1 DEF IsImage, Image, WasLog

LEMMA PinKeeps ==
  ASSUME TransitionInv, Pin
  PROVE  TransitionInv'
<1>1. /\ phase' = "pinned" /\ pinned' = Image /\ UNCHANGED <<log, view, progress, latest, subjectOf, clock, schema, hashed>>
      /\ backup' = [image |-> Image, imports |-> {}]
      /\ working' = [image |-> Image, imports |-> {}]
  BY DEF Pin, vars
<1>2. IsImage(Image) /\ Image.log = log /\ Image.schema = schema /\ WasLog(log)
  BY ImageIsImage DEF TransitionInv
<1>3. /\ backup'.image = Image /\ working'.image = Image
      /\ IsCopy(backup') /\ IsCopy(working')
  BY <1>1 DEF IsCopy
<1>4. TypeOK'
  BY <1>1 DEF TransitionInv, TypeOK
<1>5. Pinned'
  <2>1. WasLog(log)' 
    BY <1>1, <1>2 DEF WasLog
  <2>2. WasLog(pinned.log)'
    BY <1>1, <1>2, <2>1 DEF WasLog
  <2> HIDE DEF Image
  <2>3. QED
    BY <1>1, <1>2, <1>3, <2>2 DEF Pinned, IsImage, IsCopy
<1>6. (BackedUp /\ CopiedBeside /\ Migrated /\ ShowsAll)'
  BY <1>1 DEF BackedUp, CopiedBeside, Migrated, ShowsAll, FromPinned, FromBacked, FromCopied, FromMigrated, FromRebuilt
<1>7. QED
  BY <1>4, <1>5, <1>6 DEF TransitionInv

\* What a step of the tool that reads no snapshot leaves alone.
ToolStep(from, to) ==
  /\ phase = from /\ phase' = to
  /\ UNCHANGED <<log, view, progress, latest, subjectOf, clock, schema, hashed, pinned>>

LEMMA ToolKeepsSource ==
  ASSUME TransitionInv, NEW from, NEW to, ToolStep(from, to)
  PROVE  TypeOK' /\ (from \in FromPinned => WasLog(pinned.log)')
<1>1. TypeOK'
  BY DEF ToolStep, TransitionInv, TypeOK
<1>2. ASSUME from \in FromPinned PROVE WasLog(pinned.log)
  BY <1>2 DEF ToolStep, TransitionInv, Pinned
<1>3. QED
  BY <1>1, <1>2 DEF ToolStep, WasLog

LEMMA BackupKeeps ==
  ASSUME TransitionInv, CopyToBackup
  PROVE  TransitionInv'
<1>1. /\ ToolStep("pinned", "backed") /\ imports = hashed
      /\ backup' = [backup EXCEPT !.imports = imports] /\ working' = working
  BY DEF CopyToBackup, WithImports, ToolStep, vars
<1>2. TypeOK' /\ WasLog(pinned.log)'
  BY <1>1, ToolKeepsSource DEF FromPinned
<1>3. /\ IsCopy(backup) /\ IsImage(backup.image)
      /\ backup.image.log = pinned.log /\ backup.image.schema = schema
      /\ IsCopy(working) /\ IsImage(working.image)
      /\ working.image.log = pinned.log
  BY <1>1 DEF TransitionInv, Pinned, ToolStep, FromPinned
<1>4. IsCopy(backup') /\ backup'.image = backup.image /\ backup'.imports = hashed
  BY <1>1, <1>3 DEF IsCopy
<1>5. Pinned'
  BY <1>1, <1>2, <1>3, <1>4 DEF Pinned, ToolStep, IsCopy, IsImage
<1>6. (BackedUp /\ CopiedBeside /\ Migrated /\ ShowsAll)'
  BY <1>1, <1>4 DEF ToolStep, BackedUp, CopiedBeside, Migrated, ShowsAll, FromPinned, FromBacked, FromCopied, FromMigrated, FromRebuilt
<1>7. QED
  BY <1>2, <1>5, <1>6 DEF TransitionInv

LEMMA WorkingKeeps ==
  ASSUME TransitionInv, CopyToWorking
  PROVE  TransitionInv'
<1>1. /\ ToolStep("backed", "copied") /\ imports = hashed
      /\ working' = [working EXCEPT !.imports = imports] /\ backup' = backup
  BY DEF CopyToWorking, WithImports, ToolStep, vars
<1>2. TypeOK' /\ WasLog(pinned.log)'
  BY <1>1, ToolKeepsSource DEF FromPinned
<1>3. /\ IsCopy(backup) /\ IsImage(backup.image)
      /\ backup.image.log = pinned.log /\ backup.image.schema = schema
      /\ IsCopy(working) /\ IsImage(working.image)
      /\ working.image.log = pinned.log
      /\ backup.imports = hashed
  BY <1>1 DEF TransitionInv, Pinned, BackedUp, ToolStep, FromPinned, FromBacked
<1>4. IsCopy(working') /\ working'.image = working.image /\ working'.imports = hashed
  BY <1>1, <1>3 DEF IsCopy
<1>5. Pinned'
  BY <1>1, <1>2, <1>3, <1>4 DEF Pinned, ToolStep, IsCopy, IsImage
<1>6. (BackedUp /\ CopiedBeside /\ Migrated /\ ShowsAll)'
  BY <1>1, <1>3, <1>4 DEF ToolStep, BackedUp, CopiedBeside, Migrated, ShowsAll, FromPinned, FromBacked, FromCopied, FromMigrated, FromRebuilt
<1>7. QED
  BY <1>2, <1>5, <1>6 DEF TransitionInv

LEMMA MigrateKeeps ==
  ASSUME TransitionInv, Migrate
  PROVE  TransitionInv'
<1>1. /\ ToolStep("copied", "migrated")
      /\ working' = [working EXCEPT !.image.schema = 5] /\ backup' = backup
  BY DEF Migrate, ToolStep, vars
<1>2. TypeOK' /\ WasLog(pinned.log)'
  BY <1>1, ToolKeepsSource DEF FromPinned
<1>3. /\ IsCopy(backup) /\ IsImage(backup.image)
      /\ backup.image.log = pinned.log /\ backup.image.schema = schema
      /\ IsCopy(working) /\ IsImage(working.image)
      /\ working.image.log = pinned.log
      /\ backup.imports = hashed /\ working.imports = hashed
  BY <1>1 DEF TransitionInv, Pinned, BackedUp, CopiedBeside, ToolStep, FromPinned, FromBacked, FromCopied
<1>4. /\ IsCopy(working') /\ working'.imports = hashed
      /\ working'.image = [working.image EXCEPT !.schema = 5]
  BY <1>1, <1>3 DEF IsCopy
<1>5. IsImage(working'.image) /\ working'.image.log = pinned.log /\ working'.image.schema = 5
  BY <1>3, <1>4 DEF IsImage
<1>6. Pinned'
  BY <1>1, <1>2, <1>3, <1>4, <1>5 DEF Pinned, ToolStep, IsCopy, IsImage
<1>7. (BackedUp /\ CopiedBeside /\ Migrated /\ ShowsAll)'
  BY <1>1, <1>3, <1>4, <1>5 DEF ToolStep, BackedUp, CopiedBeside, Migrated, ShowsAll, FromPinned, FromBacked, FromCopied, FromMigrated, FromRebuilt
<1>8. QED
  BY <1>2, <1>6, <1>7 DEF TransitionInv

\* What the rebuild makes of an image.
LEMMA RebuiltShows ==
  ASSUME NEW i, IsImage(i)
  PROVE  /\ IsImage(Rebuilt(i))
         /\ Rebuilt(i).log = i.log /\ Rebuilt(i).schema = i.schema
         /\ Rebuilt(i).progress["3"] = Len(i.log)
         /\ Rebuilt(i).view["3"] = TablesOf(i.log)
<1> DEFINE tables   == TablesOf(i.log)
           size     == Len(i.log)
           seen     == IF i.latest["3"] # NoRows THEN i.latest["3"] ELSE i.latest["2"]
           owned    == IF i.latest["3"] # NoRows THEN i.subjectOf["3"] ELSE i.subjectOf["2"]
<1>1. Rebuilt(i) = [i EXCEPT !.view["3"] = tables, !.progress["3"] = size,
                             !.latest["3"] = seen, !.subjectOf["3"] = owned]
  BY DEF Rebuilt, IsImage
<1>2. "3" \in Versions
  BY DEF Versions
<1> HIDE DEF tables, size, seen, owned
<1>3. /\ IsImage(Rebuilt(i))
      /\ Rebuilt(i).log = i.log /\ Rebuilt(i).schema = i.schema
      /\ Rebuilt(i).progress["3"] = size
      /\ Rebuilt(i).view["3"] = tables
  BY <1>1, <1>2 DEF IsImage
<1>4. QED
  BY <1>3 DEF tables, size

LEMMA ProveKeeps ==
  ASSUME TransitionInv, Prove
  PROVE  TransitionInv'
<1>1. /\ ToolStep("migrated", "rebuilt")
      /\ working' = [working EXCEPT !.image = Rebuilt(@)] /\ backup' = backup
  BY DEF Prove, ToolStep, vars
<1>2. TypeOK' /\ WasLog(pinned.log)'
  BY <1>1, ToolKeepsSource DEF FromPinned
<1>3. /\ IsCopy(backup) /\ IsImage(backup.image)
      /\ backup.image.log = pinned.log /\ backup.image.schema = schema
      /\ IsCopy(working) /\ IsImage(working.image)
      /\ working.image.log = pinned.log /\ working.image.schema = 5
      /\ backup.imports = hashed /\ working.imports = hashed
  BY <1>1 DEF TransitionInv, Pinned, BackedUp, CopiedBeside, Migrated, ToolStep,
              FromPinned, FromBacked, FromCopied, FromMigrated
<1>4. /\ IsCopy(working') /\ working'.imports = hashed
      /\ working'.image = Rebuilt(working.image)
  BY <1>1, <1>3 DEF IsCopy
<1>5. /\ IsImage(working'.image)
      /\ working'.image.log = pinned.log /\ working'.image.schema = 5
      /\ working'.image.progress["3"] = Len(pinned.log)
      /\ working'.image.view["3"] = TablesOf(pinned.log)
  BY <1>3, <1>4, RebuiltShows
<1>6. \A n \in DOMAIN pinned.log : pinned.log[n].req.type \notin Transitions
  <2>1. SUFFICES ASSUME NEW n \in DOMAIN pinned.log PROVE pinned.log[n].req.type \notin Transitions
    OBVIOUS
  <2>2. Admits("2", ReplayOf(pinned.log, EmptySnapshot)[n-1], pinned.log[n].req)
    BY <1>3 DEF Prove
  <2>3. QED
    BY <2>2 DEF Admits, AdmitsMention, AdmitsObservation, Transitions
<1>7. Pinned'
  BY <1>1, <1>2, <1>3, <1>4, <1>5 DEF Pinned, ToolStep, IsCopy, IsImage
<1>8. (BackedUp /\ CopiedBeside /\ Migrated)'
  BY <1>1, <1>3, <1>4, <1>5 DEF ToolStep, BackedUp, CopiedBeside, Migrated
<1>9. ShowsAll'
  BY <1>5, <1>6 DEF ShowsAll
<1>10. QED
  BY <1>2, <1>7, <1>8, <1>9 DEF TransitionInv

\* A step that only advances the phase among those that the copies are complete in.
LEMMA AdvanceKeeps ==
  ASSUME TransitionInv, NEW from \in FromRebuilt, NEW to \in FromRebuilt,
         ToolStep(from, to), UNCHANGED <<backup, working>>
  PROVE  TransitionInv'
<1>1. from \in FromPinned /\ from \in FromBacked /\ from \in FromCopied /\ from \in FromMigrated
  BY DEF FromPinned, FromBacked, FromCopied, FromMigrated, FromRebuilt
<1>2. TypeOK' /\ WasLog(pinned.log)'
  BY <1>1, ToolKeepsSource
<1>3. Pinned'
  BY <1>1, <1>2 DEF TransitionInv, Pinned, ToolStep
<1>4. (BackedUp /\ CopiedBeside /\ Migrated /\ ShowsAll)'
  BY <1>1 DEF TransitionInv, ToolStep, BackedUp, CopiedBeside, Migrated, ShowsAll
<1>5. QED
  BY <1>2, <1>3, <1>4 DEF TransitionInv

-----------------------------------------------------------------------------
LEMMA TransitionInvInit == TransitionInit => TransitionInv
<1>1. SUFFICES ASSUME TransitionInit PROVE TransitionInv
  OBVIOUS
<1>2. TypeOK
  BY <1>1, TypeInit DEF TransitionInit
<1>3. Pinned /\ BackedUp /\ CopiedBeside /\ Migrated /\ ShowsAll
  BY <1>1 DEF TransitionInit, Pinned, BackedUp, CopiedBeside, Migrated, ShowsAll,
              FromPinned, FromBacked, FromCopied, FromMigrated, FromRebuilt
<1>4. QED
  BY <1>2, <1>3 DEF TransitionInv

LEMMA TransitionInvNext == TransitionInv /\ [TransitionNext]_transitionVars => TransitionInv'
<1>1. SUFFICES ASSUME TransitionInv, [TransitionNext]_transitionVars PROVE TransitionInv'
  OBVIOUS
<1>2. CASE SourceUsed
  BY <1>1, <1>2, SourceIsStore, SourceKeeps DEF SourceUsed, toolVars
<1>3. CASE RetainManifest \/ TakeBundle \/ UNCHANGED transitionVars
  <2>1. UNCHANGED vars /\ UNCHANGED <<schema, phase, hashed, pinned, backup, working>>
    BY <1>3 DEF RetainManifest, TakeBundle, transitionVars, toolVars
  <2>2. QED
    BY <1>1, <2>1, SourceKeeps
<1>4. CASE Begin \/ Stop
  <2>1. UNCHANGED <<log, view, progress, latest, subjectOf, clock>> /\ phase' \in {"idle", "hashed"}
    BY <1>4 DEF Begin, Stop, vars
  <2>2. TypeOK'
    BY <1>1, <2>1 DEF TransitionInv, TypeOK
  <2>3. (Pinned /\ BackedUp /\ CopiedBeside /\ Migrated /\ ShowsAll)'
    BY <2>1 DEF Pinned, BackedUp, CopiedBeside, Migrated, ShowsAll,
                FromPinned, FromBacked, FromCopied, FromMigrated, FromRebuilt
  <2>4. QED
    BY <2>2, <2>3 DEF TransitionInv
<1>5. CASE AuditCopy \/ Conclude
  <2>1. PICK from \in FromRebuilt, to \in FromRebuilt : ToolStep(from, to) /\ UNCHANGED <<backup, working>>
    BY <1>5 DEF AuditCopy, Conclude, ToolStep, vars,
                FromPinned, FromBacked, FromCopied, FromMigrated, FromRebuilt
  <2>2. QED
    BY <1>1, <2>1, AdvanceKeeps
<1>6. QED
  BY <1>1, <1>2, <1>3, <1>4, <1>5, PinKeeps, BackupKeeps, WorkingKeeps, MigrateKeeps, ProveKeeps
     DEF TransitionNext

\* Every report of the source has its manifest beside it unless it came without one,
\* and so has every report of a snapshot once the manifests are compared after it.
ReportsKept ==
  /\ \A k \in 1..Len(log) : log[k].req.report \subseteq imports \cup foreign
  /\ phase \in FromBacked => ReportsIn(pinned.log) \subseteq hashed \cup foreign

\* The reports of what the source's log was are reports of what it is.
LEMMA ReportsOfPrefix ==
  ASSUME TypeOK, NEW l, WasLog(l), ReportsKept
  PROVE  ReportsIn(l) \subseteq imports \cup foreign
<1>1. SUFFICES ASSUME NEW i \in DOMAIN l PROVE l[i].req.report \subseteq imports \cup foreign
  BY DEF ReportsIn
<1>2. Len(l) \in Nat /\ DOMAIN l = 1..Len(l) /\ Len(l) <= Len(log) /\ Len(log) \in Nat
  BY DEF WasLog, TypeOK
<1>3. i \in 1..Len(l) /\ i \in 1..Len(log)
  BY <1>1, <1>2
<1>4. log[i] = l[i]
  BY <1>3 DEF WasLog
<1>5. log[i].req.report \subseteq imports \cup foreign
  BY <1>3 DEF ReportsKept
<1>6. QED
  BY <1>4, <1>5

\* Manifests and the reports that came without them only grow.
LEMMA ManifestsGrow ==
  ASSUME [TransitionNext]_transitionVars
  PROVE  imports \subseteq imports' /\ foreign \subseteq foreign'
<1>1. CASE SourceUsed
  BY <1>1 DEF SourceUsed
<1>2. CASE ~SourceUsed
  BY <1>2 DEF TransitionNext, transitionVars, RetainManifest, TakeBundle, Begin, Pin,
     CopyToBackup, CopyToWorking, Migrate, Prove, AuditCopy, Conclude, Stop
<1>3. QED
  BY <1>1, <1>2

\* A report appended is noted if its manifest is not there.
LEMMA SourceReports ==
  ASSUME TypeOK, ReportsKept, [TransitionNext]_transitionVars
  PROVE  \A k \in 1..Len(log') : log'[k].req.report \subseteq imports' \cup foreign'
<1>1. imports \subseteq imports' /\ foreign \subseteq foreign'
  BY ManifestsGrow
<1>2. CASE UNCHANGED log
  BY <1>1, <1>2 DEF ReportsKept
<1>3. ASSUME NEW v \in Versions, NEW r \in Requests, AppendSubmission(v, r),
             foreign' = foreign \cup (r.report \ imports)
      PROVE  \A k \in 1..Len(log') : log'[k].req.report \subseteq imports' \cup foreign'
  <2>1. Assign(r) \in Entries /\ AppendStep(v, Assign(r)) /\ Assign(r).req = r
    BY <1>3, AssignType DEF AppendSubmission, AppendStep, Assign
  <2>2. PICK e \in Entries : AppendStep(v, e) /\ e.req = r
    BY <2>1
  <2>3. /\ Len(log) \in Nat /\ Len(log') = Len(log) + 1
        /\ \A k \in 1..Len(log) : log'[k] = log[k]
        /\ log'[Len(log) + 1] = e
    BY <2>2, AppendKeeps
  <2>4. r.report \subseteq imports' \cup foreign'
    BY <1>1, <1>3
  <2>5. ASSUME NEW k \in 1..Len(log') PROVE log'[k].req.report \subseteq imports' \cup foreign'
    <3>1. CASE k \in 1..Len(log)
      BY <1>1, <2>3, <3>1 DEF ReportsKept
    <3>2. CASE k = Len(log) + 1
      BY <2>2, <2>3, <2>4, <3>2
    <3>3. QED
      BY <2>3, <3>1, <3>2
  <2>6. QED
    BY <2>5
<1>4. CASE SourceUsed
  <2>1. ASSUME NEW v \in Usable, NEW asOf \in Clock, PublishNext(v, asOf) \/ RebuildProjection(v, asOf)
        PROVE  UNCHANGED log
    BY <2>1 DEF PublishNext, RebuildProjection
  <2>2. Usable \subseteq Versions
    BY DEF Usable
  <2>3. QED
    BY <1>2, <1>3, <1>4, <2>1, <2>2 DEF SourceUsed
<1>5. CASE ~SourceUsed
  <2>1. UNCHANGED log
    BY <1>5 DEF TransitionNext, transitionVars, vars, RetainManifest, TakeBundle, Begin, Pin,
       CopyToBackup, CopyToWorking, Migrate, Prove, AuditCopy, Conclude, Stop
  <2>2. QED
    BY <1>2, <2>1
<1>6. QED
  BY <1>4, <1>5

LEMMA ReportsKeptNext ==
  ASSUME TransitionInv, ReportsKept, [TransitionNext]_transitionVars
  PROVE  ReportsKept'
<1>1. imports \subseteq imports' /\ foreign \subseteq foreign'
  BY ManifestsGrow
<1>2. \A k \in 1..Len(log') : log'[k].req.report \subseteq imports' \cup foreign'
  BY SourceReports DEF TransitionInv
<1>3. SUFFICES ASSUME phase' \in FromBacked PROVE ReportsIn(pinned'.log) \subseteq hashed' \cup foreign'
  BY <1>2 DEF ReportsKept
<1>4. CASE CopyToBackup
  <2>1. phase = "pinned" /\ imports = hashed /\ UNCHANGED <<hashed, pinned>>
    BY <1>4 DEF CopyToBackup
  <2>2. TypeOK /\ WasLog(pinned.log)
    BY <2>1 DEF TransitionInv, Pinned, FromPinned
  <2>3. ReportsIn(pinned.log) \subseteq imports \cup foreign
    BY <2>2, ReportsOfPrefix
  <2>4. QED
    BY <1>1, <2>1, <2>3
<1>5. CASE ~CopyToBackup
  <2>1. phase \in FromBacked /\ UNCHANGED <<hashed, pinned>>
    BY <1>3, <1>5 DEF TransitionNext, transitionVars, toolVars, SourceUsed, RetainManifest, TakeBundle, Begin, Pin,
       CopyToWorking, Migrate, Prove, AuditCopy, Conclude, Stop, FromPinned, FromBacked
  <2>2. QED
    BY <1>1, <2>1 DEF ReportsKept
<1>6. QED
  BY <1>4, <1>5

LEMMA ReportsKeptInit == TransitionInit => ReportsKept
<1>1. SUFFICES ASSUME TransitionInit PROVE ReportsKept
  OBVIOUS
<1>2. log = <<>> /\ phase = "idle"
  BY <1>1 DEF TransitionInit, Init
<1>3. QED
  BY <1>2 DEF ReportsKept, FromBacked, FromPinned

LEMMA DoneIsComplete == TransitionInv /\ ReportsKept => ProvenCopyIsComplete
<1>1. SUFFICES ASSUME TransitionInv, ReportsKept, phase = "done" PROVE ProvenCopyIsComplete
  BY DEF ProvenCopyIsComplete
<1>2. /\ WasLog(pinned.log)
      /\ backup.image.log = pinned.log /\ backup.image.schema = schema
      /\ working.image.log = pinned.log
  BY <1>1 DEF TransitionInv, Pinned, FromPinned
<1>3. backup.imports = hashed /\ working.imports = hashed /\ working.image.schema = 5
  BY <1>1 DEF TransitionInv, BackedUp, CopiedBeside, Migrated, FromPinned, FromBacked, FromCopied, FromMigrated
<1>4. /\ working.image.progress["3"] = Len(working.image.log)
      /\ working.image.view["3"] = TablesOf(working.image.log)
      /\ \A n \in DOMAIN working.image.log : working.image.log[n].req.type \notin Transitions
  BY <1>1 DEF TransitionInv, ShowsAll, FromPinned, FromBacked, FromCopied, FromMigrated, FromRebuilt
<1>5. IsPrefix(pinned.log, log)
  <2> DEFINE l == pinned.log
  <2>1. /\ l \in Seq(Entries) /\ Len(l) \in Nat /\ Len(l) <= Len(log)
        /\ \A k \in 1..Len(l) : log[k] = l[k]
        /\ log \in Seq(Entries) /\ Len(log) \in Nat
    BY <1>1, <1>2 DEF WasLog, TransitionInv, TypeOK
  <2> HIDE DEF l
  <2>2. SubSeq(l, 1, Len(l)) = SubSeq(log, 1, Len(l))
    BY <2>1
  <2>3. QED
    BY <2>1, <2>2 DEF IsPrefix, l
<1>6. ReportsIn(pinned.log) \subseteq hashed \cup foreign
  BY <1>1 DEF ReportsKept, FromBacked, FromPinned
<1>7. \A copy \in {backup, working} :
        copy.imports = hashed /\ ReportsIn(copy.image.log) \subseteq copy.imports \cup foreign
  BY <1>2, <1>3, <1>6
<1>8. QED
  BY <1>2, <1>3, <1>4, <1>5, <1>7 DEF ProvenCopyIsComplete

\* A proof is worth its name whatever sessions, importers and other producers did
\* while the tool, which never owns the store, was copying it: ProvenCopyIsComplete.
THEOREM ProofsAreComplete == TransitionSpec => []ProvenCopyIsComplete
<1>1. TransitionInit => TransitionInv /\ ReportsKept
  BY TransitionInvInit, ReportsKeptInit
<1>2. TransitionInv /\ ReportsKept /\ [TransitionNext]_transitionVars => (TransitionInv /\ ReportsKept)'
  BY TransitionInvNext, ReportsKeptNext
<1>3. TransitionInv /\ ReportsKept => ProvenCopyIsComplete
  BY DoneIsComplete
<1>4. QED
  BY <1>1, <1>2, <1>3, PTL DEF TransitionSpec

-----------------------------------------------------------------------------
(***************************************************************************)
(* The audit of the working copy.                                          *)
(***************************************************************************)
\* Freshness rows of a store with log l: exact for every projector that keeps
\* them, and those of projector 2 empty only with the log.
RowsReady(l, index, owners) ==
  /\ DOMAIN index = Versions /\ DOMAIN owners = Versions /\ IsTable(owners)
  /\ \A w \in Versions : w # "3" \/ index["3"] # NoRows => ExactIndex(l, index[w], owners[w], Len(l))
  /\ index["3"] = NoRows => owners["3"] = NoRows
  /\ index["2"] = NoRows => Len(l) = 0 /\ owners["2"] = NoRows

\* An image of a store whose log verifies, and the same of a copy.
ImageReady(i) ==
  /\ LogSound(i.log) /\ AdmittedUpTo(i.log, Len(i.log)) /\ Accepts("3", i.log)
  /\ RowsReady(i.log, i.latest, i.subjectOf)

CopyReady == phase \in FromPinned => ImageReady(working.image)

\* The rebuild leaves projector 3 its rows, or gives it those of projector 2.
CopyActive ==
  phase \in FromRebuilt => Len(working.image.log) = 0 \/ working.image.latest["3"] # NoRows

CopyInv == TransitionInv /\ AuditInv /\ CopyReady /\ CopyActive

\* The first entry an empty store admits changes some subject.
LEMMA NoRowsNoEntries ==
  ASSUME NEW l, Len(l) \in Nat, AdmittedUpTo(l, Len(l)), NEW S, IndexCurrent(l, NoRows, S, Len(l))
  PROVE  Len(l) = 0
<1>1. SUFFICES ASSUME Len(l) # 0 PROVE FALSE
  OBVIOUS
<1>2. 1 \in 1..Len(l) /\ 1 - 1 = 0
  BY <1>1
<1>3. PICK r : r = l[1].req
  OBVIOUS
<1>4. PICK w : Admits(w, EmptySnapshot, r)
  BY <1>2, <1>3, ReplaySteps DEF AdmittedUpTo
<1>5. ~IsMention(r)
  BY <1>2, <1>3 DEF IndexCurrent, NoRows
<1>6. ~AdmitsMention(EmptySnapshot, r)
  BY <1>5 DEF AdmitsMention, IsMention
<1>7. DOMAIN EmptySnapshot.entities = {} /\ DOMAIN EmptySnapshot.beliefs = {}
  BY DEF EmptySnapshot, NoRows
<1>8. ~AdmitsTransition(EmptySnapshot, r)
  BY <1>7 DEF AdmitsTransition
<1>9. PICK claims : claims = r.body.claims
  OBVIOUS
<1>10. claims # <<>> /\ \A k \in DOMAIN claims : AdmitsClaim(EmptySnapshot, claims[k])
  BY <1>4, <1>6, <1>8, <1>9 DEF Admits, AdmitsObservation, AdmitsClaims
<1>11. DOMAIN claims = {}
  BY <1>7, <1>10 DEF AdmitsClaim
<1>12. WellFormed(r)
  BY <1>2, <1>3 DEF AdmittedUpTo
<1>13. QED
  BY <1>9, <1>10, <1>11, <1>12 DEF WellFormed

\* The image pinned of a store is one of a store.
LEMMA StoreRowsReady ==
  ASSUME AuditInv
  PROVE  ImageReady(Image)
<1>1. /\ Image.log = log /\ Image.latest = latest /\ Image.subjectOf = subjectOf
  BY DEF Image
<1>2. TypeOK /\ Len(log) \in Nat /\ DOMAIN latest = Versions /\ DOMAIN subjectOf = Versions
  BY DEF AuditInv, FreshInv, ReplayInv, TypeOK
<1>3. "2" \in Versions /\ "3" \in Versions
  BY DEF Versions
<1>4. LogSound(log) /\ Accepts("3", log)
  BY <1>2, <1>3, LogIsSound, LogAccepted DEF AuditInv, FreshInv
<1>5. AdmittedUpTo(log, Len(log))
  BY <1>2, LogAdmitted DEF AuditInv, FreshInv
<1>6. \A w \in Versions : w # "3" \/ latest["3"] # NoRows => ExactIndex(log, latest[w], subjectOf[w], Len(log))
  BY DEF AuditInv, ExactRows, Exact, Kept, ForwardActive
<1>7. latest["3"] = NoRows => subjectOf["3"] = NoRows
  BY <1>3 DEF AuditInv, ExactRows, Kept, ForwardActive
<1>8. latest["2"] = NoRows => Len(log) = 0 /\ subjectOf["2"] = NoRows
  <2>1. IndexCurrent(log, latest["2"], subjectOf["2"], Len(log))
    BY <1>3 DEF AuditInv, FreshInv, FreshRows, Kept
  <2>2. IsTable(subjectOf["2"])
    BY <1>3, <1>6 DEF ExactIndex
  <2>3. QED
    BY <1>2, <1>5, <2>1, <2>2, NoRowsNoEntries, NoRowsNoOwners
<1>9. RowsReady(log, latest, subjectOf)
  BY <1>2, <1>6, <1>7, <1>8 DEF RowsReady, AuditInv, ExactRows
<1>10. QED
  BY <1>1, <1>4, <1>5, <1>9 DEF ImageReady

\* Projector 3 is given rows where it had none.
LEMMA RowsRebuilt ==
  ASSUME NEW l, NEW index, NEW owners, RowsReady(l, index, owners),
         NEW seen, seen = (IF index["3"] # NoRows THEN index["3"] ELSE index["2"]),
         NEW owned, owned = (IF index["3"] # NoRows THEN owners["3"] ELSE owners["2"])
  PROVE  /\ RowsReady(l, [index EXCEPT !["3"] = seen], [owners EXCEPT !["3"] = owned])
         /\ Len(l) = 0 \/ [index EXCEPT !["3"] = seen]["3"] # NoRows
<1>1. PICK X, O : X = [index EXCEPT !["3"] = seen] /\ O = [owners EXCEPT !["3"] = owned]
  OBVIOUS
<1>2. "2" \in Versions /\ "3" \in Versions /\ DOMAIN index = Versions /\ DOMAIN owners = Versions
  BY DEF RowsReady, Versions
<1>3. /\ DOMAIN X = Versions /\ DOMAIN O = Versions /\ IsTable(O)
      /\ X["3"] = seen /\ O["3"] = owned
      /\ \A w \in Versions : w # "3" => X[w] = index[w] /\ O[w] = owners[w]
  BY <1>1, <1>2 DEF IsTable
<1>4. seen = NoRows => index["2"] = NoRows /\ owned = owners["2"]
  OBVIOUS
<1>5. X["3"] = NoRows => Len(l) = 0 /\ O["3"] = NoRows /\ X["2"] = NoRows
  BY <1>2, <1>3, <1>4 DEF RowsReady
<1>6. X["2"] = NoRows => Len(l) = 0 /\ O["2"] = NoRows
  BY <1>2, <1>3 DEF RowsReady
<1>7. ASSUME NEW w \in Versions, w # "3" \/ X["3"] # NoRows
      PROVE  ExactIndex(l, X[w], O[w], Len(l))
  <2>1. CASE w # "3"
    BY <1>3, <2>1 DEF RowsReady
  <2>2. CASE w = "3" /\ index["3"] # NoRows
    BY <1>2, <1>3, <2>2 DEF RowsReady
  <2>3. CASE w = "3" /\ index["3"] = NoRows
    BY <1>2, <1>3, <2>3 DEF RowsReady
  <2>4. QED
    BY <2>1, <2>2, <2>3
<1>8. RowsReady(l, X, O)
  BY <1>3, <1>5, <1>6, <1>7 DEF RowsReady
<1>9. QED
  BY <1>1, <1>5, <1>8

\* Rebuilding an image keeps it one of a store, and activates projector 3.
LEMMA RebuiltRows ==
  ASSUME NEW i, IsImage(i), ImageReady(i)
  PROVE  /\ ImageReady(Rebuilt(i))
         /\ Len(Rebuilt(i).log) = 0 \/ Rebuilt(i).latest["3"] # NoRows
<1> DEFINE tables   == TablesOf(i.log)
           size     == Len(i.log)
           seen     == IF i.latest["3"] # NoRows THEN i.latest["3"] ELSE i.latest["2"]
           owned    == IF i.latest["3"] # NoRows THEN i.subjectOf["3"] ELSE i.subjectOf["2"]
<1>1. Rebuilt(i) = [i EXCEPT !.view["3"] = tables, !.progress["3"] = size,
                             !.latest["3"] = seen, !.subjectOf["3"] = owned]
  BY DEF Rebuilt, IsImage
<1>2. PICK l, index, owners, X, O :
        /\ l = i.log /\ index = i.latest /\ owners = i.subjectOf
        /\ X = [index EXCEPT !["3"] = seen] /\ O = [owners EXCEPT !["3"] = owned]
  OBVIOUS
<1>3. RowsReady(l, index, owners)
  BY <1>2 DEF ImageReady
<1>4. RowsReady(l, X, O) /\ (Len(l) = 0 \/ X["3"] # NoRows)
  BY <1>2, <1>3, RowsRebuilt
<1> HIDE DEF tables, size, seen, owned
<1>5. Rebuilt(i).log = l /\ Rebuilt(i).latest = X /\ Rebuilt(i).subjectOf = O
  BY <1>1, <1>2 DEF IsImage
<1>6. QED
  BY <1>2, <1>4, <1>5 DEF ImageReady

\* Every step of the store and the tool is a step of the store, or leaves it alone.
LEMMA ToolKeepsStore == [TransitionNext]_transitionVars => [Next]_vars
BY SourceIsStore DEF TransitionNext, transitionVars, RetainManifest, TakeBundle, Begin, Pin,
   CopyToBackup, CopyToWorking, Migrate, Prove, AuditCopy, Conclude, Stop

\* What a step of the tool does to the working copy.
LEMMA CopySteps ==
  ASSUME TransitionInv, [TransitionNext]_transitionVars, phase' \in FromPinned
  PROVE  \/ Pin /\ phase' = "pinned" /\ working'.image = Image
         \/ phase \in FromPinned /\ (phase' \in FromRebuilt => phase \in FromRebuilt)
              /\ working'.image = working.image
         \/ Migrate /\ phase = "copied" /\ phase' = "migrated" /\ working'.image = [working.image EXCEPT !.schema = 5]
         \/ Prove /\ phase = "migrated" /\ phase' = "rebuilt" /\ working'.image = Rebuilt(working.image)
<1>1. phase \in FromPinned => IsCopy(working) /\ IsImage(working.image)
  BY DEF TransitionInv, Pinned
<1>2. CASE SourceUsed \/ RetainManifest \/ TakeBundle \/ UNCHANGED transitionVars
  BY <1>2 DEF SourceUsed, RetainManifest, TakeBundle, transitionVars, toolVars
<1>3. CASE Begin \/ Stop
  BY <1>3 DEF Begin, Stop, FromPinned
<1>4. CASE Pin
  BY <1>4 DEF Pin
<1>5. CASE CopyToBackup
  BY <1>5 DEF CopyToBackup, FromPinned, FromBacked, FromCopied, FromMigrated, FromRebuilt
<1>6. CASE CopyToWorking
  <2>1. phase \in FromPinned /\ phase' \notin FromRebuilt /\ working' = [working EXCEPT !.imports = imports]
    BY <1>6 DEF CopyToWorking, WithImports, FromPinned, FromBacked, FromCopied, FromMigrated, FromRebuilt
  <2>2. working'.image = working.image
    BY <1>1, <2>1 DEF IsCopy
  <2>3. QED
    BY <2>1, <2>2
<1>7. CASE Migrate
  <2>1. phase = "copied" /\ phase' = "migrated" /\ working' = [working EXCEPT !.image.schema = 5]
    BY <1>7 DEF Migrate
  <2>2. working'.image = [working.image EXCEPT !.schema = 5]
    BY <1>1, <2>1 DEF IsCopy, FromPinned
  <2>3. QED
    BY <1>7, <2>1, <2>2
<1>8. CASE Prove
  <2>1. phase = "migrated" /\ phase' = "rebuilt" /\ working' = [working EXCEPT !.image = Rebuilt(@)]
    BY <1>8 DEF Prove
  <2>2. working'.image = Rebuilt(working.image)
    BY <1>1, <2>1 DEF IsCopy, FromPinned
  <2>3. QED
    BY <1>8, <2>1, <2>2
<1>9. CASE AuditCopy \/ Conclude
  BY <1>9 DEF AuditCopy, Conclude, FromPinned, FromBacked, FromCopied, FromMigrated, FromRebuilt
<1>10. QED
  BY <1>2, <1>3, <1>4, <1>5, <1>6, <1>7, <1>8, <1>9 DEF TransitionNext

\* CopyInv is inductive.
LEMMA CopyInvNext == CopyInv /\ [TransitionNext]_transitionVars => CopyInv'
<1>1. SUFFICES ASSUME CopyInv, [TransitionNext]_transitionVars PROVE CopyInv'
  OBVIOUS
<1>2. TransitionInv' /\ AuditInv'
  BY <1>1, TransitionInvNext, AuditInvNext, ToolKeepsStore DEF CopyInv
<1>3. SUFFICES ASSUME phase' \in FromPinned PROVE CopyReady' /\ CopyActive'
  <2>1. phase' \in FromRebuilt => phase' \in FromPinned
    BY DEF FromPinned, FromBacked, FromCopied, FromMigrated, FromRebuilt
  <2>2. QED
    BY <1>2, <1>3, <2>1 DEF CopyInv, CopyReady, CopyActive
<1>4. phase \in FromPinned => IsImage(working.image) /\ ImageReady(working.image)
  BY <1>1 DEF CopyInv, CopyReady, TransitionInv, Pinned
<1>5. SUFFICES /\ ImageReady(working'.image)
               /\ phase' \in FromRebuilt => Len(working'.image.log) = 0 \/ working'.image.latest["3"] # NoRows
  BY DEF CopyReady, CopyActive
<1>6. CASE phase' = "pinned" /\ working'.image = Image
  <2>1. phase' \notin FromRebuilt
    BY <1>6 DEF FromRebuilt, FromMigrated, FromCopied, FromBacked
  <2>2. QED
    BY <1>1, <1>6, <2>1, StoreRowsReady DEF CopyInv
<1>7. CASE phase \in FromPinned /\ (phase' \in FromRebuilt => phase \in FromRebuilt) /\ working'.image = working.image
  BY <1>1, <1>4, <1>7 DEF CopyInv, CopyActive
<1>8. CASE phase = "copied" /\ phase' = "migrated" /\ working'.image = [working.image EXCEPT !.schema = 5]
  <2>1. phase \in FromPinned /\ phase' \notin FromRebuilt
    BY <1>8 DEF FromRebuilt, FromMigrated, FromCopied, FromBacked, FromPinned
  <2>2. PICK i, j : i = working.image /\ j = working'.image
    OBVIOUS
  <2>3. IsImage(i) /\ ImageReady(i) /\ j = [i EXCEPT !.schema = 5]
    BY <1>4, <1>8, <2>1, <2>2
  <2>4. j.log = i.log /\ j.latest = i.latest /\ j.subjectOf = i.subjectOf
    BY <2>3 DEF IsImage
  <2>5. QED
    BY <2>1, <2>2, <2>3, <2>4 DEF ImageReady
<1>9. CASE phase = "migrated" /\ phase' = "rebuilt" /\ working'.image = Rebuilt(working.image)
  <2>1. phase \in FromPinned
    BY <1>9 DEF FromPinned
  <2>2. QED
    BY <1>4, <1>9, <2>1, RebuiltRows
<1>10. QED
  BY <1>1, <1>3, <1>6, <1>7, <1>8, <1>9, CopySteps DEF CopyInv

\* It holds before the tool is run.
LEMMA CopyInvInit == TransitionInit => CopyInv
<1>1. SUFFICES ASSUME TransitionInit PROVE CopyInv
  OBVIOUS
<1>2. TransitionInv /\ AuditInv
  BY <1>1, TransitionInvInit, AuditInvInit DEF TransitionInit
<1>3. phase \notin FromPinned /\ phase \notin FromRebuilt
  BY <1>1 DEF TransitionInit, FromPinned, FromBacked, FromCopied, FromMigrated, FromRebuilt
<1>4. QED
  BY <1>2, <1>3 DEF CopyInv, CopyReady, CopyActive

\* An audit is the record of its three parts.
LEMMA AuditIsThree ==
  ASSUME NEW v, NEW d
  PROVE  \E f, u, p : Audit(v, d) = [failures |-> f, unchecked |-> u, pending |-> p]
BY DEF Audit

\* CopyInv gives clean audits of rebuilt copies.
LEMMA RebuiltIsClean == CopyInv => RebuiltCopyAudits
<1>1. SUFFICES ASSUME CopyInv, phase = "rebuilt"
               PROVE  AuditOfCopy = [failures |-> {}, unchecked |-> {}, pending |-> {}]
  BY DEF RebuiltCopyAudits
<1>2. PICK i, l, tables, applied, index, owners :
        /\ i = working.image /\ l = i.log /\ tables = i.view /\ applied = i.progress
        /\ index = i.latest /\ owners = i.subjectOf
  OBVIOUS
<1>3. phase \in FromPinned /\ phase \in FromRebuilt /\ "3" \in Versions
  BY <1>1 DEF FromPinned, FromBacked, FromCopied, FromMigrated, FromRebuilt, Versions
<1>4. /\ LogSound(l) /\ AdmittedUpTo(l, Len(l)) /\ Accepts("3", l) /\ RowsReady(l, index, owners)
      /\ Len(l) = 0 \/ index["3"] # NoRows
  BY <1>1, <1>2, <1>3 DEF CopyInv, CopyReady, CopyActive, ImageReady
<1>5. applied["3"] = Len(l) /\ tables["3"] = ReplayOf(l, EmptySnapshot)[Len(l)]
  BY <1>1, <1>2, <1>3 DEF CopyInv, TransitionInv, ShowsAll, TablesOf
<1>6. Len(l) \in Nat
  BY <1>4 DEF LogSound
<1>7. AuditReady("3", l, tables, applied, index, owners)
  <2>1. FreshnessExact("3", l, index, owners)
    BY <1>4 DEF FreshnessExact, RowsReady
  <2>2. DOMAIN owners = Versions /\ owners = [w \in Versions |-> owners[w]]
    BY <1>4 DEF RowsReady, IsTable
  <2>3. QED
    BY <1>3, <1>4, <1>5, <1>6, <2>1, <2>2 DEF AuditReady
<1>8. AuditOfCopy = Audit("3", DiskOf(l, tables, applied, index, owners))
  BY <1>2 DEF AuditOfCopy
<1>9. PICK f, u, p : AuditOfCopy = [failures |-> f, unchecked |-> u, pending |-> p]
  BY <1>8, AuditIsThree
<1>10. Clean(AuditOfCopy, "3", l, Len(l))
  BY <1>5, <1>7, <1>8, ReadyIsClean
<1>11. f = {} /\ u = {} /\ p = {}
  <2>1. AuditOfCopy.failures = f /\ AuditOfCopy.unchecked = u /\ AuditOfCopy.pending = p
    BY ONLY <1>9
  <2>2. KnownUpTo("3", l, Len(l))
    BY DEF KnownUpTo
  <2>3. (Len(l)+1)..Len(l) = {}
    BY <1>6
  <2>4. QED
    BY <1>10, <2>1, <2>2, <2>3 DEF Clean
<1>12. QED
  BY <1>9, <1>11

\* The tool's own audit never refuses the copy of a healthy store: the copy that it
\* has rebuilt passes with nothing unchecked or pending, RebuiltCopyAudits.
THEOREM RebuiltCopiesAudit == TransitionSpec => []RebuiltCopyAudits
BY CopyInvInit, CopyInvNext, RebuiltIsClean, PTL DEF TransitionSpec
===============================================================================
