----------------------------- MODULE ImporterProofs -----------------------------
(***************************************************************************)
(* Theorems about the report importer, and about backup and restore, for   *)
(* every set of invocations, configurations and other producers' requests, *)
(* any clock, and any number of crashes and losses.                        *)
(*                                                                         *)
(* They are about the log, the manifests and the lock.  What the records   *)
(* say enters them only where the importer asks: but for one part, which   *)
(* grounds what a report shows in the log it is read from, a view is       *)
(* opaque here, and so the theorems hold whatever is published.            *)
(*                                                                         *)
(* What a bundle holds is compared with what the store held when it was    *)
(* sealed, so in the last part the facts about a log and its manifests are *)
(* stated of any log l and any manifests ms: the store's, or the bundle's. *)
(***************************************************************************)
EXTENDS ReportBackup, ReducerProofs, FiniteSetTheorems

-----------------------------------------------------------------------------
(***************************************************************************)
(* Sequences.                                                              *)
(***************************************************************************)
Sequential(s) == \E S : s \in Seq(S)

LEMMA SequentialType ==
  ASSUME NEW s, Sequential(s)
  PROVE  Len(s) \in Nat /\ DOMAIN s = 1..Len(s)
BY DEF Sequential

LEMMA AppendType ==
  ASSUME NEW s, Sequential(s), NEW e
  PROVE  /\ Sequential(Append(s, e))
         /\ Len(s) \in Nat /\ Len(Append(s, e)) = Len(s) + 1
         /\ \A k \in 1..Len(s) : Append(s, e)[k] = s[k]
         /\ Append(s, e)[Len(s) + 1] = e
<1>1. PICK S : s \in Seq(S)
  BY DEF Sequential
<1> DEFINE T == S \cup {e}
<1>2. s \in Seq(T) /\ e \in T
  BY <1>1
<1>3. Append(s, e) \in Seq(T)
  BY <1>2
<1>4. QED
  BY <1>1, <1>3 DEF Sequential

Join(s, t) == s \o t

IsFlat(f, ss, n) == f = [i \in 1..n |-> IF i = 1 THEN ss[i] ELSE Join(f[i-1], ss[i])]

LEMMA FlatExists ==
  ASSUME NEW ss, NEW n \in Nat
  PROVE  \E f : IsFlat(f, ss, n)
<1> DEFINE Bad == {k \in Nat : ~\E f : IsFlat(f, ss, k)}
<1>1. SUFFICES ASSUME Bad # {} PROVE FALSE
  OBVIOUS
<1>2. Bad \in SUBSET Nat
  OBVIOUS
<1>3. PICK m \in Bad : \A k \in Bad : ~(k < m)
  <2> HIDE DEF Bad
  <2> QED BY <1>1, <1>2, Least
<1>4. m # 0
  <2> DEFINE f == [i \in 1..0 |-> ss]
  <2>1. IsFlat(f, ss, 0)
    BY DEF IsFlat
  <2> QED BY <2>1
<1>5. m - 1 \in Nat /\ m - 1 \notin Bad
  BY <1>3, <1>4
<1>6. PICK f : IsFlat(f, ss, m - 1)
  BY <1>5
<1> DEFINE g == [i \in 1..m |-> IF i = 1 THEN ss[i] ELSE Join(f[i-1], ss[i])]
<1>7. ASSUME NEW i \in 1..m, i # 1 PROVE g[i-1] = f[i-1]
  BY <1>4, <1>6, <1>7 DEF IsFlat
<1>8. IsFlat(g, ss, m)
  BY <1>7 DEF IsFlat
<1>9. QED
  BY <1>8

LEMMA FlatIsFlat ==
  ASSUME NEW ss, Len(ss) \in Nat, Len(ss) # 0
  PROVE  \E f : IsFlat(f, ss, Len(ss)) /\ FlattenSeq(ss) = f[Len(ss)]
<1> DEFINE f == CHOOSE g : IsFlat(g, ss, Len(ss))
<1>1. IsFlat(f, ss, Len(ss))
  BY FlatExists
<1>2. FlattenSeq(ss) = f[Len(ss)]
  BY DEF FlattenSeq, IsFlat, Join
<1>3. QED
  BY <1>1, <1>2

\* x is an element of one of ss[1] to ss[n].
IsPart(x, ss, n) == \E k \in 1..n : \E a \in 1..Len(ss[k]) : x = ss[k][a]

IsIn(x, t) == \E p \in 1..Len(t) : t[p] = x

\* t holds the elements of ss[1] to ss[n] and no others, all with different identifiers.
FlatOf(t, ss, n) ==
  /\ Sequential(t)
  /\ \A p \in 1..Len(t) : IsPart(t[p], ss, n)
  /\ \A k \in 1..n : \A a \in 1..Len(ss[k]) : IsIn(ss[k][a], t)
  /\ \A p, q \in 1..Len(t) : t[p].id = t[q].id => p = q

\* Every element of ss has an identifier of its own.
AllDiffer(ss) ==
  \A k, l \in 1..Len(ss) : \A a \in 1..Len(ss[k]) : \A b \in 1..Len(ss[l]) :
    ss[k][a].id = ss[l][b].id => k = l /\ a = b

LEMMA Joined ==
  ASSUME NEW t, NEW u, Sequential(t), Sequential(u)
  PROVE  /\ Sequential(Join(t, u))
         /\ Len(t) \in Nat /\ Len(u) \in Nat /\ Len(Join(t, u)) = Len(t) + Len(u)
         /\ \A p \in 1..Len(t) : Join(t, u)[p] = t[p]
         /\ \A p \in (Len(t)+1)..(Len(t)+Len(u)) : Join(t, u)[p] = u[p - Len(t)]
<1>1. PICK A : t \in Seq(A)
  BY DEF Sequential
<1>2. PICK B : u \in Seq(B)
  BY DEF Sequential
<1> DEFINE S == A \cup B
<1>3. t \in Seq(S) /\ u \in Seq(S)
  BY <1>1, <1>2
<1> HIDE DEF S
<1>4. t \o u \in Seq(S)
  BY <1>3
<1>5. Sequential(t \o u)
  BY <1>4 DEF Sequential
<1>6. QED
  BY <1>3, <1>5 DEF Join

LEMMA FlatStep ==
  ASSUME NEW ss, Len(ss) \in Nat, \A k \in 1..Len(ss) : Sequential(ss[k]), AllDiffer(ss),
         NEW n \in Nat, n >= 1, n + 1 <= Len(ss), NEW t, FlatOf(t, ss, n)
  PROVE  FlatOf(Join(t, ss[n+1]), ss, n + 1)
<1> DEFINE u == ss[n+1]
           w == Join(t, u)
<1>1. Sequential(t) /\ Sequential(u) /\ n + 1 \in 1..Len(ss)
  BY DEF FlatOf
<1>2. /\ Sequential(w)
      /\ Len(t) \in Nat /\ Len(u) \in Nat /\ Len(w) = Len(t) + Len(u)
      /\ \A p \in 1..Len(t) : w[p] = t[p]
      /\ \A p \in (Len(t)+1)..(Len(t)+Len(u)) : w[p] = u[p - Len(t)]
  BY <1>1, Joined
<1> HIDE DEF w
<1>3. ASSUME NEW p \in 1..Len(t) PROVE IsPart(w[p], ss, n) /\ w[p] = t[p]
  BY <1>2, <1>3 DEF FlatOf
<1>4. ASSUME NEW p \in 1..Len(w), p \notin 1..Len(t)
      PROVE  p - Len(t) \in 1..Len(ss[n+1]) /\ w[p] = ss[n+1][p - Len(t)]
  BY <1>2, <1>4
<1>5. ASSUME NEW p \in 1..Len(w) PROVE IsPart(w[p], ss, n + 1)
  <2>1. CASE p \in 1..Len(t)
    <3>1. PICK k \in 1..n : \E a \in 1..Len(ss[k]) : w[p] = ss[k][a]
      BY <1>3, <2>1 DEF IsPart
    <3>2. k \in 1..(n+1)
      OBVIOUS
    <3>3. QED
      BY ONLY <3>1, <3>2 DEF IsPart
  <2>2. CASE p \notin 1..Len(t)
    <3>1. n + 1 \in 1..(n+1)
      OBVIOUS
    <3>2. QED
      BY <1>4, <2>2, <3>1 DEF IsPart
  <2>3. QED
    BY <2>1, <2>2
<1>6. ASSUME NEW p \in 1..Len(t), NEW q \in 1..Len(w), q \notin 1..Len(t) PROVE w[p].id # w[q].id
  <2>1. PICK k \in 1..n : \E a \in 1..Len(ss[k]) : w[p] = ss[k][a]
    BY <1>3 DEF IsPart
  <2>2. k \in 1..Len(ss) /\ k # n + 1
    BY <1>1
  <2>3. q - Len(t) \in 1..Len(ss[n+1]) /\ w[q] = ss[n+1][q - Len(t)]
    BY <1>4, <1>6
  <2>4. QED
    BY <1>1, <2>1, <2>2, <2>3 DEF AllDiffer
<1>7. ASSUME NEW p \in 1..Len(w), NEW q \in 1..Len(w), w[p].id = w[q].id PROVE p = q
  <2>1. CASE p \in 1..Len(t) /\ q \in 1..Len(t)
    BY <1>3, <1>7, <2>1 DEF FlatOf
  <2>2. CASE p \notin 1..Len(t) /\ q \notin 1..Len(t)
    <3>1. PICK a \in 1..Len(ss[n+1]), b \in 1..Len(ss[n+1]) :
            a = p - Len(t) /\ b = q - Len(t) /\ w[p] = ss[n+1][a] /\ w[q] = ss[n+1][b]
      BY <1>4, <2>2
    <3>2. ss[n+1][a].id = ss[n+1][b].id
      BY ONLY <1>7, <3>1
    <3>3. a = b
      BY <1>1, <3>2 DEF AllDiffer
    <3>4. p - Len(t) = q - Len(t)
      BY ONLY <3>1, <3>3
    <3>5. p \in Int /\ q \in Int /\ Len(t) \in Int
      BY <1>2
    <3>6. QED
      BY ONLY <3>4, <3>5
  <2>3. QED
    BY <1>6, <1>7, <2>1, <2>2
<1>8. ASSUME NEW k \in 1..(n+1), NEW a \in 1..Len(ss[k]) PROVE IsIn(ss[k][a], w)
  <2>1. CASE k \in 1..n
    <3>1. PICK p \in 1..Len(t) : t[p] = ss[k][a]
      BY <1>8, <2>1 DEF FlatOf, IsIn
    <3>2. p \in 1..Len(w) /\ w[p] = t[p]
      BY <1>2
    <3>3. QED
      BY <3>1, <3>2 DEF IsIn
  <2>2. CASE k = n + 1
    <3>1. a \in 1..Len(u)
      BY <1>8, <2>2
    <3>2. Len(t) + a \in (Len(t)+1)..(Len(t)+Len(u)) /\ (Len(t) + a) - Len(t) = a /\ Len(t) + a \in 1..Len(w)
      BY ONLY <1>2, <3>1
    <3>3. w[Len(t) + a] = u[(Len(t) + a) - Len(t)]
      BY ONLY <1>2, <3>2
    <3>4. w[Len(t) + a] = ss[k][a]
      BY ONLY <2>2, <3>2, <3>3
    <3>5. QED
      BY ONLY <3>2, <3>4 DEF IsIn
  <2>3. QED
    BY <1>8, <2>1, <2>2
<1>9. QED
  BY <1>2, <1>5, <1>7, <1>8 DEF FlatOf, w

\* A flattened sequence holds the elements of its parts, each once.
LEMMA Flattened ==
  ASSUME NEW ss, Sequential(ss), \A k \in 1..Len(ss) : Sequential(ss[k]), AllDiffer(ss)
  PROVE  FlatOf(FlattenSeq(ss), ss, Len(ss))
<1>1. Len(ss) \in Nat
  BY SequentialType
<1>2. CASE Len(ss) = 0
  <2>1. FlattenSeq(ss) = ss
    BY <1>2 DEF FlattenSeq
  <2>2. QED
    BY <1>2, <2>1 DEF FlatOf
<1>3. CASE Len(ss) # 0
  <2>1. PICK f : IsFlat(f, ss, Len(ss)) /\ FlattenSeq(ss) = f[Len(ss)]
    BY <1>1, <1>3, FlatIsFlat
  <2>2. f[1] = ss[1] /\ \A i \in 2..Len(ss) : f[i] = Join(f[i-1], ss[i])
    BY <1>1, <1>3, <2>1 DEF IsFlat
  <2> DEFINE Bad == {n \in 1..Len(ss) : ~FlatOf(f[n], ss, n)}
  <2>3. SUFFICES ASSUME Bad # {} PROVE FALSE
    BY <1>1, <1>3, <2>1
  <2>4. Bad \in SUBSET Nat
    BY <1>1
  <2>5. PICK m \in Bad : \A k \in Bad : ~(k < m)
    <3> HIDE DEF Bad
    <3> QED BY <2>3, <2>4, Least
  <2>6. FlatOf(ss[1], ss, 1)
    <3>1. Sequential(ss[1]) /\ 1 \in 1..Len(ss) /\ 1 \in 1..1
      BY <1>1, <1>3
    <3>2. \A p \in 1..Len(ss[1]) : IsPart(ss[1][p], ss, 1)
      BY <3>1 DEF IsPart
    <3>3. \A k \in 1..1 : k = 1
      OBVIOUS
    <3>4. \A a \in 1..Len(ss[1]) : IsIn(ss[1][a], ss[1])
      BY DEF IsIn
    <3>5. \A k \in 1..1 : \A a \in 1..Len(ss[k]) : IsIn(ss[k][a], ss[1])
      BY ONLY <3>3, <3>4
    <3>6. QED
      BY <3>1, <3>2, <3>5 DEF FlatOf, AllDiffer
  <2>7. m \in 2..Len(ss)
    BY <1>1, <2>2, <2>6
  <2>8. m - 1 \in Nat /\ m - 1 >= 1 /\ (m - 1) + 1 = m /\ m <= Len(ss) /\ FlatOf(f[m-1], ss, m - 1)
    BY <1>1, <2>5, <2>7
  <2>9. FlatOf(Join(f[m-1], ss[(m-1)+1]), ss, (m - 1) + 1)
    BY <1>1, <2>8, FlatStep
  <2>10. QED
    BY <2>2, <2>7, <2>8, <2>9
<1>4. QED
  BY <1>2, <1>3
-----------------------------------------------------------------------------
(***************************************************************************)
(* Plans: what a run retains.                                              *)
(***************************************************************************)
\* What a mention says of its scope, as an association.
Named(r) == [scope |-> r.body.text, mention |-> r.body.mention, subject |-> r.body.subject]

AtMostOne(set) == \A p, q \in set : p = q

\* A mention names an association of its run, and its report is about that scope.
MentionSound(m, r) ==
  r.type = "entity_mention_recorded" =>
    /\ Named(r) \in m.associations
    /\ \A p \in r.report : p.scope = r.body.text

\* r was minted for run.
MintedFor(run, r) == \E i \in Invocations : i.run = run /\ \E n \in Serials : r.id[1] = <<i.run, n>>

PlanSound(run, m) ==
  /\ Sequential(m.requests)
  /\ \A k \in 1..Len(m.requests) :
       /\ AtMostOne(m.requests[k].report)
       /\ MentionSound(m, m.requests[k])
       /\ MintedFor(run, m.requests[k])
  /\ \A k, l \in 1..Len(m.requests) : m.requests[k].id = m.requests[l].id => k = l

LEMMA Singleton ==
  ASSUME NEW x, NEW t \in {<<>>, <<x>>}
  PROVE  /\ Sequential(t)
         /\ Len(t) \in {0, 1}
         /\ \A a \in 1..Len(t) : t = <<x>> /\ t[a] = x /\ a = 1 /\ Len(t) = 1
<1>1. CASE t = <<x>>
  <2>1. t \in Seq({x}) /\ Len(t) = 1 /\ t[1] = x
    BY ONLY <1>1
  <2>2. Sequential(t)
    BY ONLY <2>1 DEF Sequential
  <2>3. \A a \in 1..1 : a = 1
    OBVIOUS
  <2>4. QED
    BY ONLY <1>1, <2>1, <2>2, <2>3
<1>2. CASE t = <<>>
  <2>1. t \in Seq({}) /\ Len(t) = 0
    BY ONLY <1>2
  <2>2. Sequential(t)
    BY ONLY <2>1 DEF Sequential
  <2>3. QED
    BY ONLY <2>1, <2>2
<1>3. QED
  BY <1>1, <1>2

AtMost(t, x) == t \in {<<>>, <<x>>}

\* s is b first, if t holds it, and r last, if at all.
FirstOrLast(s, t, b, r) ==
  /\ Sequential(s)
  /\ \A a \in 1..Len(s) :
       \/ t = <<b>> /\ s[a] = b /\ a = 1
       \/ s[a] = r /\ a = Len(s)

LEMMA FirstAndOrLast ==
  ASSUME NEW b, NEW r, NEW t, NEW u, AtMost(t, b), AtMost(u, r)
  PROVE  FirstOrLast(Join(t, u), t, b, r)
<1> DEFINE s == Join(t, u)
<1>1. /\ Sequential(t) /\ Len(t) \in {0, 1}
      /\ \A a \in 1..Len(t) : t = <<b>> /\ t[a] = b /\ a = 1 /\ Len(t) = 1
  BY Singleton DEF AtMost
<1>2. /\ Sequential(u) /\ Len(u) \in {0, 1}
      /\ \A a \in 1..Len(u) : u = <<r>> /\ u[a] = r /\ a = 1 /\ Len(u) = 1
  BY Singleton DEF AtMost
<1>3. /\ Sequential(s) /\ Len(s) = Len(t) + Len(u)
      /\ \A p \in 1..Len(t) : s[p] = t[p]
      /\ \A p \in (Len(t)+1)..(Len(t)+Len(u)) : s[p] = u[p - Len(t)]
  BY ONLY <1>1, <1>2, Joined
<1> HIDE DEF s
<1>4. ASSUME NEW a \in 1..Len(s), a \in 1..Len(t)
      PROVE  t = <<b>> /\ s[a] = b /\ a = 1
  BY ONLY <1>1, <1>3, <1>4
<1>5. ASSUME NEW a \in 1..Len(s), a \notin 1..Len(t)
      PROVE  s[a] = r /\ a = Len(s)
  <2>1. a - Len(t) \in 1..Len(u) /\ s[a] = u[a - Len(t)] /\ a \in Int /\ Len(t) \in Int
    BY ONLY <1>1, <1>2, <1>3, <1>5
  <2>2. a - Len(t) = 1 /\ Len(u) = 1
    BY ONLY <1>2, <2>1
  <2>3. s[a] = r
    BY ONLY <1>2, <2>1
  <2>4. a = Len(s)
    BY ONLY <1>3, <2>1, <2>2
  <2>5. QED
    BY ONLY <2>3, <2>4
<1>6. QED
  BY ONLY <1>3, <1>4, <1>5 DEF FirstOrLast, s

\* The association of a scope is the retained one, or a new one for a new scope.
LEMMA AssociationFacts ==
  ASSUME NEW run, NEW scope
  PROVE  /\ AssociationOf(run, scope).scope = scope
         /\ \/ AssociationOf(run, scope) \in RetainedAssociations
            \/ /\ \A a \in RetainedAssociations : a.scope # scope
               /\ AssociationOf(run, scope) =
                    [scope |-> scope, mention |-> Minted(run, "m", scope, "-"), subject |-> Minted(run, "s", scope, "-")]
<1> DEFINE known == {a \in RetainedAssociations : a.scope = scope}
<1>1. CASE known # {}
  <2>1. AssociationOf(run, scope) \in known
    BY <1>1 DEF AssociationOf
  <2>2. QED
    BY <2>1
<1>2. CASE known = {}
  BY <1>2 DEF AssociationOf
<1>3. QED
  BY <1>1, <1>2

\* A run's plan declares at most one vocabulary.
LEMMA OneReport ==
  ASSUME NEW config, Loadable(config), NEW artifact, NEW located
  PROVE  AtMostOne(ReportOf(Loaded(config), artifact, located))
BY DEF Loadable, Loaded, Unambiguous, Resolved, Declarations, ReportOf, AtMostOne

\* The parts of the plan of an invocation, artifact by artifact.
Boot(i, policy, k) ==
  BootstrapRequest(i, policy, AssociationOf(i.run, i.artifacts[k].scope), i.artifacts[k])
Report(i, policy, k) ==
  ReportRequest(i, policy, AssociationOf(i.run, i.artifacts[k].scope), i.artifacts[k])
FreshScope(i, k) ==
  /\ AssociationOf(i.run, i.artifacts[k].scope) \notin RetainedAssociations
  /\ \A j \in 1..(k - 1) : i.artifacts[j].scope # i.artifacts[k].scope

LEMMA RequestsParts ==
  ASSUME NEW i, NEW policy, NEW k
  PROVE  /\ Sequential(RequestsOf(i, policy, k))
         /\ \A a \in 1..Len(RequestsOf(i, policy, k)) :
              \/ FreshScope(i, k) /\ RequestsOf(i, policy, k)[a] = Boot(i, policy, k) /\ a = 1
              \/ RequestsOf(i, policy, k)[a] = Report(i, policy, k) /\ a = Len(RequestsOf(i, policy, k))
<1> DEFINE b == Boot(i, policy, k)
           r == Report(i, policy, k)
           t == IF FreshScope(i, k) THEN <<b>> ELSE <<>>
           u == IF i.artifacts[k].literals # <<>> THEN <<r>> ELSE <<>>
<1>1. RequestsOf(i, policy, k) = Join(t, u)
  BY DEF RequestsOf, FreshScope, Boot, Report, Join
<1>2. AtMost(t, b) /\ AtMost(u, r)
  BY DEF AtMost
<1>3. t = <<b>> => FreshScope(i, k)
  OBVIOUS
<1> HIDE DEF b, r, t, u
<1>4. FirstOrLast(Join(t, u), t, b, r)
  BY ONLY <1>2, FirstAndOrLast
<1>5. QED
  BY ONLY <1>1, <1>3, <1>4 DEF FirstOrLast, b, r

LEMMA PartIds ==
  ASSUME NEW i, NEW policy, NEW k
  PROVE  /\ Boot(i, policy, k).id = <<i.run, "e", i.artifacts[k].scope, "-">>
         /\ Report(i, policy, k).id = <<i.run, "e", i.artifacts[k].scope, i.artifacts[k].blob>>
         /\ Boot(i, policy, k).type = "entity_mention_recorded"
         /\ Report(i, policy, k).type = "observation_recorded"
BY DEF Boot, Report, BootstrapRequest, ReportRequest, Minted

LEMMA BootIsSound ==
  ASSUME NEW i, NEW config, Loadable(config), NEW k \in DOMAIN i.artifacts, FreshScope(i, k)
  PROVE  /\ AtMostOne(Boot(i, Loaded(config), k).report)
         /\ MentionSound(Planned(i, Loaded(config)), Boot(i, Loaded(config), k))
         /\ Boot(i, Loaded(config), k).id[1] = i.run
         /\ Named(Boot(i, Loaded(config), k)) = AssociationOf(i.run, i.artifacts[k].scope)
<1> DEFINE artifact == i.artifacts[k]
           a == AssociationOf(i.run, artifact.scope)
           r == Boot(i, Loaded(config), k)
<1>1. /\ a.scope = artifact.scope
      /\ a = [scope |-> artifact.scope, mention |-> Minted(i.run, "m", artifact.scope, "-"),
              subject |-> Minted(i.run, "s", artifact.scope, "-")]
  BY AssociationFacts DEF FreshScope
<1>2. /\ r.report = ReportOf(Loaded(config), artifact, {})
      /\ r.body.text = artifact.scope /\ r.body.mention = a.mention /\ r.body.subject = a.subject
      /\ r.id = Minted(i.run, "e", artifact.scope, "-")
  BY DEF Boot, BootstrapRequest
<1>3. AtMostOne(r.report)
  BY <1>2, OneReport
<1>4. Named(r) = a
  BY <1>1, <1>2 DEF Named
<1>5. a \in Planned(i, Loaded(config)).associations
  BY DEF Planned
<1>6. \A p \in r.report : p.scope = r.body.text
  BY <1>2 DEF ReportOf
<1>7. r.id[1] = i.run
  BY <1>2 DEF Minted
<1>8. QED
  BY <1>3, <1>4, <1>5, <1>6, <1>7 DEF MentionSound

LEMMA ReportIsSound ==
  ASSUME NEW i, NEW config, Loadable(config), NEW k \in DOMAIN i.artifacts
  PROVE  /\ AtMostOne(Report(i, Loaded(config), k).report)
         /\ MentionSound(Planned(i, Loaded(config)), Report(i, Loaded(config), k))
         /\ Report(i, Loaded(config), k).id[1] = i.run
<1> DEFINE artifact == i.artifacts[k]
           r == Report(i, Loaded(config), k)
<1>1. PICK located : r.report = ReportOf(Loaded(config), artifact, located)
  BY DEF Report, ReportRequest
<1>2. r.id = Minted(i.run, "e", artifact.scope, artifact.blob) /\ r.type = "observation_recorded"
  BY DEF Report, ReportRequest
<1>3. AtMostOne(r.report)
  BY <1>1, OneReport
<1>4. r.id[1] = i.run
  BY <1>2 DEF Minted
<1>5. QED
  BY <1>2, <1>3, <1>4 DEF MentionSound

\* Every request of a plan is the mention of a new scope, or a report.
PlanPart(i, policy, r) ==
  \E k \in DOMAIN i.artifacts :
    \/ FreshScope(i, k) /\ r = Boot(i, policy, k)
    \/ r = Report(i, policy, k)

\* What ArtifactAssumption says of an invocation.
NamesDistinct(i) ==
  /\ i.artifacts \in Seq(ToSet(i.artifacts))
  /\ \A k \in DOMAIN i.artifacts : i.artifacts[k].blob # "-"
  /\ \A k, l \in DOMAIN i.artifacts :
       i.artifacts[k].scope = i.artifacts[l].scope /\ i.artifacts[k].blob = i.artifacts[l].blob => k = l

LEMMA MintingNames ==
  ASSUME NEW i \in Invocations, NEW n
  PROVE  Minting(i, n).run = <<i.run, n>> /\ Minting(i, n).artifacts = i.artifacts /\ NamesDistinct(Minting(i, n))
<1>1. Minting(i, n).run = <<i.run, n>> /\ Minting(i, n).artifacts = i.artifacts
  BY DEF Minting
<1>2. QED
  BY <1>1, ArtifactAssumption DEF NamesDistinct

LEMMA PlanParts ==
  ASSUME NEW i, NamesDistinct(i), NEW policy
  PROVE  LET s == Planned(i, policy).requests IN
         /\ Sequential(s)
         /\ \A p \in 1..Len(s) : PlanPart(i, policy, s[p])
         /\ \A p, q \in 1..Len(s) : s[p].id = s[q].id => p = q
         /\ \A k \in DOMAIN i.artifacts : \A a \in 1..Len(RequestsOf(i, policy, k)) : IsIn(RequestsOf(i, policy, k)[a], s)
<1> DEFINE n  == Len(i.artifacts)
           ss == [k \in DOMAIN i.artifacts |-> RequestsOf(i, policy, k)]
           s  == FlattenSeq(ss)
<1>1. n \in Nat /\ DOMAIN i.artifacts = 1..n
  BY DEF NamesDistinct
<1>2. Sequential(ss) /\ Len(ss) = n /\ \A k \in 1..n : ss[k] = RequestsOf(i, policy, k)
  <2> DEFINE S == {RequestsOf(i, policy, k) : k \in 1..n}
  <2>1. ss = [k \in 1..n |-> RequestsOf(i, policy, k)]
    BY <1>1
  <2>2. ss \in Seq(S) /\ Len(ss) = n
    BY <1>1, <2>1
  <2>3. QED
    BY <1>1, <2>1, <2>2 DEF Sequential
<1> HIDE DEF n, ss
<1>3. ASSUME NEW k \in 1..n
      PROVE  /\ Sequential(ss[k])
             /\ \A a \in 1..Len(ss[k]) :
                  \/ FreshScope(i, k) /\ ss[k][a] = Boot(i, policy, k) /\ a = 1
                  \/ ss[k][a] = Report(i, policy, k) /\ a = Len(ss[k])
  BY <1>2, RequestsParts
<1>4. AllDiffer(ss)
  <2>1. SUFFICES ASSUME NEW k \in 1..n, NEW l \in 1..n, NEW a \in 1..Len(ss[k]), NEW b \in 1..Len(ss[l]),
                        ss[k][a].id = ss[l][b].id
                 PROVE  k = l /\ a = b
    BY <1>2 DEF AllDiffer
  <2> DEFINE x == i.artifacts[k]
             y == i.artifacts[l]
  <2>2. /\ x.blob # "-" /\ y.blob # "-"
        /\ x.scope = y.scope /\ x.blob = y.blob => k = l
    BY <1>1 DEF NamesDistinct
  <2>3. /\ FreshScope(i, k) => \A j \in 1..(k-1) : i.artifacts[j].scope # x.scope
        /\ FreshScope(i, l) => \A j \in 1..(l-1) : i.artifacts[j].scope # y.scope
    BY DEF FreshScope
  <2>4. /\ Boot(i, policy, k).id = <<i.run, "e", x.scope, "-">>
        /\ Boot(i, policy, l).id = <<i.run, "e", y.scope, "-">>
        /\ Report(i, policy, k).id = <<i.run, "e", x.scope, x.blob>>
        /\ Report(i, policy, l).id = <<i.run, "e", y.scope, y.blob>>
    BY PartIds
  <2>5. k \in Int /\ l \in Int /\ k >= 1 /\ l >= 1
    BY <1>1
  <2> HIDE DEF x, y
  <2>6. CASE /\ FreshScope(i, k) /\ ss[k][a] = Boot(i, policy, k) /\ a = 1
             /\ FreshScope(i, l) /\ ss[l][b] = Boot(i, policy, l) /\ b = 1
    <3>1. x.scope = y.scope
      BY <2>1, <2>4, <2>6
    <3>2. ~(k < l) /\ ~(l < k)
      BY <2>3, <2>5, <2>6, <3>1 DEF x, y
    <3>3. QED
      BY ONLY <2>5, <2>6, <3>2
  <2>7. CASE /\ ss[k][a] = Report(i, policy, k) /\ a = Len(ss[k])
             /\ ss[l][b] = Report(i, policy, l) /\ b = Len(ss[l])
    <3>1. x.scope = y.scope /\ x.blob = y.blob
      BY <2>1, <2>4, <2>7
    <3>2. QED
      BY ONLY <2>2, <2>7, <3>1
  <2>8. CASE ss[k][a] = Boot(i, policy, k) /\ ss[l][b] = Report(i, policy, l)
    BY <2>1, <2>2, <2>4, <2>8
  <2>9. CASE ss[k][a] = Report(i, policy, k) /\ ss[l][b] = Boot(i, policy, l)
    BY <2>1, <2>2, <2>4, <2>9
  <2>10. QED
    BY <1>3, <2>6, <2>7, <2>8, <2>9
<1>5. FlatOf(s, ss, n)
  BY <1>2, <1>3, <1>4, Flattened
<1>6. ASSUME NEW x, IsPart(x, ss, n) PROVE PlanPart(i, policy, x)
  <2>1. PICK k \in 1..n : \E a \in 1..Len(ss[k]) : x = ss[k][a]
    BY <1>6 DEF IsPart
  <2>2. (FreshScope(i, k) /\ x = Boot(i, policy, k)) \/ x = Report(i, policy, k)
    BY <1>3, <2>1
  <2>3. k \in DOMAIN i.artifacts
    BY <1>1
  <2>4. QED
    BY ONLY <2>2, <2>3 DEF PlanPart
<1>7. Planned(i, policy).requests = s
  BY DEF Planned, ss
<1> HIDE DEF s
<1>8. \A k \in DOMAIN i.artifacts : \A a \in 1..Len(RequestsOf(i, policy, k)) : IsIn(RequestsOf(i, policy, k)[a], s)
  <2>1. \A k \in 1..n : \A a \in 1..Len(ss[k]) : IsIn(ss[k][a], s)
    BY ONLY <1>5 DEF FlatOf
  <2>2. QED
    BY ONLY <1>1, <1>2, <2>1
<1>9. QED
  BY ONLY <1>5, <1>6, <1>7, <1>8 DEF FlatOf

LEMMA PlanIsSound ==
  ASSUME NEW i \in Invocations, NEW n \in Serials, NEW config, Loadable(config)
  PROVE  LET m == Planned(Minting(i, n), Loaded(config)) IN
         PlanSound(i.run, m) /\ \A k \in 1..Len(m.requests) : m.requests[k].id[1] = <<i.run, n>>
<1> DEFINE policy == Loaded(config)
           w == Minting(i, n)
           m == Planned(w, policy)
<1>1. w.run = <<i.run, n>> /\ NamesDistinct(w)
  BY MintingNames
<1> HIDE DEF w
<1>2. /\ Sequential(m.requests)
      /\ \A p \in 1..Len(m.requests) : PlanPart(w, policy, m.requests[p])
      /\ \A p, q \in 1..Len(m.requests) : m.requests[p].id = m.requests[q].id => p = q
  BY <1>1, PlanParts
<1>3. ASSUME NEW r, PlanPart(w, policy, r)
      PROVE  AtMostOne(r.report) /\ MentionSound(m, r) /\ r.id[1] = <<i.run, n>>
  BY <1>1, <1>3, BootIsSound, ReportIsSound DEF PlanPart
<1> HIDE DEF m
<1>4. ASSUME NEW r, r.id[1] = <<i.run, n>> PROVE MintedFor(i.run, r)
  BY <1>4 DEF MintedFor
<1>5. PlanSound(i.run, m) /\ \A k \in 1..Len(m.requests) : m.requests[k].id[1] = <<i.run, n>>
  BY <1>2, <1>3, <1>4 DEF PlanSound
<1>6. QED
  BY <1>5 DEF m, w
-----------------------------------------------------------------------------
(***************************************************************************)
(* Sessions: who owns the store, under which policy.                       *)
(***************************************************************************)
Working == {"opened", "draining", "preparing", "resuming", "before", "appending", "after",
            "finishing", "checking"}

\* Whoever works owns the store, and only one does.
LockHeld ==
  /\ DOMAIN at = Invocations
  /\ AtMostOne(owner)
  /\ \A i \in Invocations : at[i] \in Working <=> i \in owner

\* Whoever works is bound to a policy that was loaded.
PolicyLoaded ==
  /\ DOMAIN bound = Invocations
  /\ \A i \in Invocations : at[i] \in Working \cup {"bound"} =>
       \E config \in Configs : Loadable(config) /\ bound[i] = {Loaded(config)}

NextCounts == DOMAIN next = Invocations /\ \A i \in Invocations : next[i] \in Nat \ {0}

Sessions == LockHeld /\ PolicyLoaded /\ NextCounts

\* A step within the session, and one that ends it or finds it cannot begin.
Inside(i, from, to) ==
  /\ from \in Working /\ to \in Working
  /\ Goes(i, from, to)
  /\ UNCHANGED <<owner, bound>>

Leaves(i, from, to) ==
  /\ from \in Working \/ (from = "bound" /\ owner = {})
  /\ to \notin Working \cup {"bound"}
  /\ Closes(i, from, to)

LEMMA ImportKinds ==
  ASSUME NEW i \in Invocations, ImportStep(i)
  PROVE  \/ Deploy(i)
         \/ OpenWriter(i)
         \/ \E from, to : Inside(i, from, to)
         \/ \E from, to : Leaves(i, from, to)
         \/ UNCHANGED <<at, owner, bound, next>>
<1>1. CASE OpenRefused(i)
  BY <1>1 DEF OpenRefused, Leaves, Working
<1>2. CASE PublishOne(i)
  BY <1>2 DEF PublishOne, importVars
<1>3. CASE PublishDone(i)
  BY <1>3 DEF PublishDone, Inside, Working
<1>4. CASE BeginPreparing(i)
  <2>1. CASE manifests[i.run] = {}
    BY <1>4, <2>1 DEF BeginPreparing, Inside, Working
  <2>2. CASE manifests[i.run] # {}
    BY <1>4, <2>2 DEF BeginPreparing, Inside, Working
  <2>3. QED
    BY <2>1, <2>2
<1>5. CASE Prepare(i) \/ PrepareRetained(i) \/ Resume(i)
  BY <1>5 DEF Prepare, PrepareRetained, Resume, Inside, Working
<1>6. CASE PrepareRefused(i)
  BY <1>6 DEF PrepareRefused, Leaves, Working
<1>7. CASE SubmitNext(i) \/ SubmitNew(i) \/ SubmitRetried(i) \/ Finish(i)
  BY <1>7 DEF SubmitNext, SubmitNew, SubmitRetried, Finish, Inside, Working
<1>8. CASE SubmitRefused(i)
  BY <1>8 DEF SubmitRefused, Leaves, Working
<1>9. CASE SubmitSkewed(i)
  BY <1>9 DEF SubmitSkewed, Leaves, Working
<1>10. CASE CheckCompletion(i)
  <2>1. PICK m \in manifests[i.run] :
          Closes(i, "checking", IF Complete(i.version, m) THEN "completed" ELSE "incomplete")
    BY <1>10 DEF CheckCompletion
  <2>2. CASE Complete(i.version, m)
    BY <2>1, <2>2 DEF Leaves, Working
  <2>3. CASE ~Complete(i.version, m)
    BY <2>1, <2>3 DEF Leaves, Working
  <2>4. QED
    BY <2>2, <2>3
<1>11. QED
  BY <1>1, <1>2, <1>3, <1>4, <1>5, <1>6, <1>7, <1>8, <1>9, <1>10 DEF ImportStep

\* Submission alone appends, preparation alone retains.
LEMMA ImportWrites ==
  ASSUME NEW i \in Invocations, ImportStep(i)
  PROVE  \/ SubmitNew(i)
         \/ Prepare(i)
         \/ UNCHANGED <<log, manifests>>
BY DEF ImportStep, Deploy, OpenWriter, OpenRefused, PublishOne, PublishNext, PublishDone, PublishNothing,
       BeginPreparing, PrepareRetained, PrepareRefused, Resume, SubmitNext, SubmitRetried, SubmitRefused,
       SubmitSkewed, Finish, CheckCompletion, importVars, vars

LEMMA LockGoes ==
  ASSUME LockHeld, NEW i \in Invocations, NEW from, NEW to, Goes(i, from, to)
  PROVE  /\ UNCHANGED owner /\ (from \in Working <=> to \in Working) => LockHeld'
         /\ owner = {} /\ owner' = {i} /\ to \in Working => LockHeld'
         /\ (from \in Working \/ owner = {}) /\ to \notin Working /\ owner' = {} => LockHeld'
<1>1. /\ DOMAIN at' = Invocations /\ at[i] = from /\ at'[i] = to
      /\ \A j \in Invocations : j # i => at'[j] = at[j]
  BY DEF LockHeld, Goes
<1>2. ASSUME UNCHANGED owner, from \in Working <=> to \in Working PROVE LockHeld'
  BY <1>1, <1>2 DEF LockHeld
<1>3. ASSUME owner = {}, owner' = {i}, to \in Working PROVE LockHeld'
  BY <1>1, <1>3 DEF LockHeld, AtMostOne
<1>4. ASSUME from \in Working \/ owner = {}, to \notin Working, owner' = {} PROVE LockHeld'
  BY <1>1, <1>4 DEF LockHeld, AtMostOne
<1>5. QED
  BY <1>2, <1>3, <1>4

LEMMA SessionsStep ==
  ASSUME Sessions, NEW i \in Invocations, ImportStep(i)
  PROVE  Sessions'
<1>1. LockHeld /\ PolicyLoaded /\ NextCounts
  BY DEF Sessions
<1>2. NextCounts'
  BY <1>1 DEF NextCounts, ImportStep, Deploy, OpenWriter, OpenRefused, PublishOne, PublishDone,
       BeginPreparing, Prepare, PrepareRetained, PrepareRefused, Resume, SubmitNext, SubmitNew, SubmitRetried,
       SubmitRefused, SubmitSkewed, Finish, CheckCompletion, Closes, importVars
<1>3. CASE Deploy(i)
  <2>1. Goes(i, "idle", "bound") /\ UNCHANGED owner
    BY <1>3 DEF Deploy
  <2>2. LockHeld'
    BY <1>1, <2>1, LockGoes DEF Working
  <2>3. PolicyLoaded'
    BY <1>1, <1>3 DEF LockHeld, PolicyLoaded, Deploy, Goes
  <2>4. QED
    BY <1>2, <2>2, <2>3 DEF Sessions
<1>4. CASE OpenWriter(i)
  <2>1. Goes(i, "bound", "opened") /\ owner = {} /\ owner' = {i}
    BY <1>4 DEF OpenWriter
  <2>2. LockHeld'
    BY <1>1, <2>1, LockGoes DEF Working
  <2>3. PolicyLoaded'
    BY <1>1, <1>4 DEF LockHeld, PolicyLoaded, OpenWriter, Goes
  <2>4. QED
    BY <1>2, <2>2, <2>3 DEF Sessions
<1>5. ASSUME NEW from, NEW to, Inside(i, from, to) PROVE Sessions'
  <2>1. LockHeld'
    BY <1>1, <1>5, LockGoes DEF Inside
  <2>2. PolicyLoaded'
    BY <1>1, <1>5 DEF LockHeld, PolicyLoaded, Inside, Goes
  <2>3. QED
    BY <1>2, <2>1, <2>2 DEF Sessions
<1>6. ASSUME NEW from, NEW to, Leaves(i, from, to) PROVE Sessions'
  <2>1. LockHeld'
    BY <1>1, <1>6, LockGoes DEF Leaves, Closes
  <2>2. PolicyLoaded'
    BY <1>1, <1>6 DEF LockHeld, PolicyLoaded, Leaves, Closes, Forgets, Goes
  <2>3. QED
    BY <1>2, <2>1, <2>2 DEF Sessions
<1>7. CASE UNCHANGED <<at, owner, bound, next>>
  BY <1>1, <1>7 DEF Sessions, LockHeld, PolicyLoaded, NextCounts
<1>8. QED
  BY <1>3, <1>4, <1>5, <1>6, <1>7, ImportKinds

LEMMA SessionsNext == Sessions /\ [ImportNext]_allVars => Sessions'
<1>1. SUFFICES ASSUME Sessions, [ImportNext]_allVars PROVE Sessions'
  OBVIOUS
<1>2. ASSUME NEW i \in Invocations, Dies(i) PROVE Sessions'
  BY <1>1, <1>2 DEF Sessions, LockHeld, PolicyLoaded, NextCounts, Dies, Forgets, Working, AtMostOne
<1>3. CASE UNCHANGED <<at, owner, bound, next>>
  BY <1>1, <1>3 DEF Sessions, LockHeld, PolicyLoaded, NextCounts
<1>4. QED
  BY <1>1, <1>2, <1>3, SessionsStep DEF ImportNext, OtherAppends, OtherPublishes, importVars, allVars

LEMMA SessionsInit == ImportInit => Sessions
BY DEF ImportInit, Sessions, LockHeld, PolicyLoaded, NextCounts, Working, AtMostOne
-----------------------------------------------------------------------------
(***************************************************************************)
(* The manifests.                                                          *)
(***************************************************************************)
PlansSound ==
  /\ DOMAIN manifests = ImportRuns
  /\ \A run \in ImportRuns :
       /\ AtMostOne(manifests[run])
       /\ \A m \in manifests[run] : PlanSound(run, m)

\* The plan m of invocation i under a policy and a serial.
PlanOf(i, m) ==
  \E config \in Configs, n \in Serials :
    Loadable(config) /\ n \in Unused(i) /\ m = Planned(Minting(i, n), Loaded(config))

\* A manifest that is written now is the sound plan of its run, which had none.
LEMMA PrepareRetains ==
  ASSUME Sessions, PlansSound, NEW i \in Invocations, Prepare(i)
  PROVE  /\ UNCHANGED log /\ manifests[i.run] = {} /\ i.run \in ImportRuns
         /\ RetentionSound(i.version)
         /\ \E m : PlanOf(i, m) /\ PlanSound(i.run, m) /\ manifests' = [manifests EXCEPT ![i.run] = {m}]
<1>1. PICK config \in Configs : Loadable(config) /\ bound[i] = {Loaded(config)}
  BY DEF Sessions, PolicyLoaded, Prepare, Goes, Working
<1>2. PICK n \in Unused(i) : manifests' = [manifests EXCEPT ![i.run] = {Planned(Minting(i, n), Loaded(config))}]
  BY <1>1 DEF Prepare
<1> DEFINE m == Planned(Minting(i, n), Loaded(config))
<1>3. n \in Serials
  BY DEF Unused
<1>4. PlanOf(i, m) /\ PlanSound(i.run, m)
  BY <1>1, <1>3, PlanIsSound DEF PlanOf
<1>5. i.run \in ImportRuns
  BY DEF ImportRuns
<1>6. UNCHANGED log /\ manifests[i.run] = {} /\ RetentionSound(i.version)
  BY DEF Prepare, vars
<1>7. QED
  BY <1>2, <1>4, <1>5, <1>6

LEMMA PlansSoundNext == Sessions /\ PlansSound /\ [ImportNext]_allVars => PlansSound'
<1>1. SUFFICES ASSUME Sessions, PlansSound, [ImportNext]_allVars PROVE PlansSound'
  OBVIOUS
<1>2. CASE UNCHANGED manifests
  BY <1>1, <1>2 DEF PlansSound, PlanSound, MentionSound
<1>3. ASSUME NEW i \in Invocations, Prepare(i) PROVE PlansSound'
  <2>1. PICK m : PlanSound(i.run, m) /\ manifests' = [manifests EXCEPT ![i.run] = {m}]
    BY <1>1, <1>3, PrepareRetains
  <2>2. ASSUME NEW run \in ImportRuns
        PROVE  AtMostOne(manifests'[run]) /\ \A x \in manifests'[run] : PlanSound(run, x)
    <3>1. CASE run = i.run
      <4>1. manifests'[run] = {m}
        BY <1>1, <2>1, <3>1 DEF PlansSound
      <4>2. QED
        BY <2>1, <3>1, <4>1 DEF AtMostOne
    <3>2. CASE run # i.run
      <4>1. manifests'[run] = manifests[run]
        BY <1>1, <2>1, <3>2 DEF PlansSound
      <4>2. QED
        BY <1>1, <4>1 DEF PlansSound
    <3>3. QED
      BY <3>1, <3>2
  <2>3. DOMAIN manifests' = ImportRuns
    BY <1>1, <2>1 DEF PlansSound
  <2>4. QED
    BY <2>2, <2>3 DEF PlansSound
<1>4. QED
  BY <1>1, <1>2, <1>3, ImportWrites
     DEF ImportNext, Dies, SubmitNew, OtherAppends, OtherPublishes, importVars, allVars

LEMMA PlansSoundInit == ImportInit => PlansSound
BY DEF ImportInit, PlansSound, AtMostOne

\* What is submitted next is a request of the run's manifest.
LEMMA DueIsPlanned ==
  ASSUME Sessions, PlansSound, NEW i \in Invocations, NEW r \in Due(i)
  PROVE  \E m \in manifests[i.run] :
           /\ PlanSound(i.run, m)
           /\ next[i] \in 1..Len(m.requests) /\ r = m.requests[next[i]]
<1>1. PICK m \in manifests[i.run] : next[i] <= Len(m.requests) /\ r = m.requests[next[i]]
  BY DEF Due
<1>2. PlanSound(i.run, m)
  BY DEF PlansSound, ImportRuns
<1>3. next[i] \in Nat \ {0} /\ Len(m.requests) \in Nat
  BY <1>2, SequentialType DEF Sessions, NextCounts, PlanSound
<1>4. QED
  BY <1>1, <1>2, <1>3

-----------------------------------------------------------------------------
(***************************************************************************)
(* The bound policy.                                                       *)
(***************************************************************************)
\* The log only grows, by one entry of a request at a time.
Grows(r) == \E e : log' = Append(log, e) /\ e.req = r

LEMMA SubmissionGrows ==
  ASSUME NEW v, NEW r, AppendSubmission(v, r)
  PROVE  Grows(r) /\ Retained(r) = {}
BY DEF AppendSubmission, Appendable, Insert, Assign, Grows

\* Who appends: the session that owns the store, or nobody does and others can.
LEMMA ImportAppends ==
  ASSUME Sessions, [ImportNext]_allVars
  PROVE  \/ UNCHANGED log
         \/ \E i \in Invocations : \E r \in Due(i) :
              /\ SubmitNew(i) /\ Guard(bound[i], i.version, r)
              /\ Grows(r) /\ Retained(r) = {}
         \/ \E r \in Requests :
              /\ owner = {} /\ UNCHANGED importVars
              /\ Grows(r) /\ Retained(r) = {}
<1>1. ASSUME NEW i \in Invocations, SubmitNew(i)
      PROVE  \E r \in Due(i) : Guard(bound[i], i.version, r) /\ Grows(r) /\ Retained(r) = {}
  BY <1>1, SubmissionGrows DEF SubmitNew, Admitted
<1>2. ASSUME NEW v, NEW r \in Requests, OtherAppends(v, r)
      PROVE  owner = {} /\ UNCHANGED importVars /\ Grows(r) /\ Retained(r) = {}
  BY <1>2, SubmissionGrows DEF OtherAppends
<1>3. ASSUME NEW i \in Invocations, Prepare(i) PROVE UNCHANGED log
  BY <1>3 DEF Prepare, vars
<1>4. QED
  BY <1>1, <1>2, <1>3, ImportWrites
     DEF ImportNext, Dies, OtherPublishes, PublishNext, ClockMoves, vars, allVars

LEMMA LogGrows ==
  ASSUME Sequential(log), NEW r, Grows(r)
  PROVE  /\ Sequential(log)' /\ Len(log) \in Nat /\ Len(log') = Len(log) + 1
         /\ DOMAIN log = 1..Len(log) /\ DOMAIN log' = 1..(Len(log) + 1)
         /\ \A k \in 1..Len(log) : log'[k] = log[k]
         /\ log'[Len(log) + 1].req = r
<1>1. PICK e : log' = Append(log, e) /\ e.req = r
  BY DEF Grows
<1>2. /\ Sequential(Append(log, e)) /\ Len(log) \in Nat /\ Len(Append(log, e)) = Len(log) + 1
      /\ \A k \in 1..Len(log) : Append(log, e)[k] = log[k]
      /\ Append(log, e)[Len(log) + 1] = e
  BY AppendType
<1>3. DOMAIN log = 1..Len(log) /\ DOMAIN Append(log, e) = 1..Len(Append(log, e))
  BY <1>2, SequentialType
<1>4. Sequential(log)'
  BY <1>1, <1>2 DEF Sequential
<1>5. QED
  BY <1>1, <1>2, <1>3, <1>4

BoundInv ==
  /\ Sessions
  /\ PlansSound
  /\ owner \subseteq Invocations
  /\ Sequential(log)
  /\ BoundPolicyCoversHistory

LEMMA DefinedHistory ==
  ASSUME Sequential(log), NEW policy, HistoryDefined(policy), NEW r, Grows(r),
         \A p \in r.report : p.vocabulary \in policy.definitions
  PROVE  HistoryDefined(policy)'
<1>1. /\ DOMAIN log' = 1..(Len(log) + 1) /\ DOMAIN log = 1..Len(log) /\ Len(log) \in Nat
      /\ \A k \in 1..Len(log) : log'[k] = log[k]
      /\ log'[Len(log) + 1].req = r
  BY LogGrows
<1>2. SUFFICES ASSUME NEW k \in DOMAIN log', NEW p \in log'[k].req.report
               PROVE  p.vocabulary \in policy.definitions
  BY DEF HistoryDefined
<1>3. CASE k \in 1..Len(log)
  BY <1>1, <1>2, <1>3 DEF HistoryDefined
<1>4. CASE k = Len(log) + 1
  BY <1>1, <1>2, <1>4
<1>5. QED
  BY <1>1, <1>3, <1>4

\* An admitted request declares nothing that the policy does not define.
LEMMA GuardDefines ==
  ASSUME NEW config, Loadable(config), NEW v, NEW r, AtMostOne(r.report), Authorizes(Loaded(config), v, r)
  PROVE  \A p \in r.report : p.vocabulary \in Loaded(config).definitions
<1>1. PICK p \in r.report : p.vocabulary \in Loaded(config).admitted
  BY DEF Authorizes
<1>2. p.vocabulary \in Loaded(config).definitions
  BY <1>1 DEF Loadable, Resolved, Loaded
<1>3. \A q \in r.report : q = p
  BY DEF AtMostOne
<1>4. QED
  BY <1>2, <1>3

\* At most the policy of the one that works matters, and it was inspected again
\* when the store was opened.
LEMMA BoundInvNext == BoundInv /\ [ImportNext]_allVars => BoundInv'
<1>1. SUFFICES ASSUME BoundInv, [ImportNext]_allVars PROVE BoundInv'
  OBVIOUS
<1>2. Sessions /\ PlansSound /\ owner \subseteq Invocations /\ Sequential(log) /\ BoundPolicyCoversHistory
  BY <1>1 DEF BoundInv
<1>3. Sessions' /\ PlansSound'
  BY <1>1, <1>2, SessionsNext, PlansSoundNext
<1>4. Sequential(log)'
  <2>1. CASE UNCHANGED log
    BY <1>2, <2>1 DEF Sequential
  <2>2. QED
    BY <1>1, <1>2, <2>1, ImportAppends, LogGrows
<1>5. owner' \subseteq Invocations /\ \A i \in owner' : i \in owner \/ OpenWriter(i)
  <2>1. ASSUME NEW i \in Invocations, ImportStep(i)
        PROVE  owner' \subseteq Invocations /\ \A j \in owner' : j \in owner \/ OpenWriter(j)
    BY <1>2, <2>1, ImportKinds DEF Deploy, OpenWriter, Inside, Leaves, Closes
  <2>2. QED
    BY <1>1, <1>2, <2>1 DEF ImportNext, Dies, OtherAppends, OtherPublishes, importVars, allVars
<1>6. ASSUME NEW i \in owner', NEW policy \in bound'[i] PROVE HistoryDefined(policy)'
  <2>1. i \in Invocations
    BY <1>5
  <2>2. CASE OpenWriter(i)
    <3>1. UNCHANGED log /\ UNCHANGED bound
      BY <2>2 DEF OpenWriter, vars
    <3>2. HistoryDefined(policy)
      BY <1>6, <2>2, <3>1 DEF OpenWriter
    <3>3. QED
      BY <3>1, <3>2 DEF HistoryDefined
  <2>3. CASE i \in owner
    <3>1. at[i] \in Working
      BY <1>2, <2>1, <2>3 DEF Sessions, LockHeld
    <3>2. PICK config \in Configs : Loadable(config) /\ bound[i] = {Loaded(config)}
      BY <1>2, <2>1, <3>1 DEF Sessions, PolicyLoaded
    <3>3. at'[i] \in Working
      BY <1>3, <1>6, <2>1 DEF Sessions, LockHeld
    <3>4. bound'[i] = bound[i]
      <4>1. ASSUME NEW j \in Invocations, ImportStep(j) PROVE bound'[i] = bound[i]
        <5>1. CASE Deploy(j)
          BY <1>2, <2>1, <3>1, <5>1 DEF Deploy, Goes, Sessions, PolicyLoaded, Working
        <5>2. ASSUME NEW from, NEW to, Leaves(j, from, to) PROVE FALSE
          BY <1>6, <5>2 DEF Leaves, Closes
        <5>3. QED
          BY <4>1, <5>1, <5>2, ImportKinds DEF OpenWriter, Inside
      <4>2. ASSUME NEW j \in Invocations, Dies(j) PROVE bound'[i] = bound[i]
        BY <1>2, <1>6, <2>1, <4>2 DEF Dies, Forgets, Sessions, PolicyLoaded
      <4>3. QED
        BY <1>1, <4>1, <4>2 DEF ImportNext, OtherAppends, OtherPublishes, importVars, allVars
    <3>5. policy = Loaded(config) /\ HistoryDefined(policy)
      BY <1>2, <1>6, <2>3, <3>2, <3>4 DEF BoundPolicyCoversHistory
    <3>6. CASE UNCHANGED log
      BY <3>5, <3>6 DEF HistoryDefined
    <3>7. ASSUME NEW j \in Invocations, NEW r \in Due(j), SubmitNew(j),
                 Guard(bound[j], j.version, r), Grows(r)
          PROVE  HistoryDefined(policy)'
      <4>1. j \in owner
        BY <1>2, <3>7 DEF SubmitNew, Goes, Sessions, LockHeld, Working
      <4>2. j = i
        BY <1>2, <2>3, <4>1 DEF Sessions, LockHeld, AtMostOne
      <4>3. Authorizes(policy, i.version, r)
        BY <3>2, <3>5, <3>7, <4>2 DEF Guard
      <4>4. AtMostOne(r.report)
        BY <1>2, <3>7, DueIsPlanned DEF PlanSound
      <4>5. QED
        BY <1>2, <3>2, <3>5, <3>7, <4>3, <4>4, GuardDefines, DefinedHistory
    <3>8. QED
      BY <1>1, <1>2, <2>3, <3>6, <3>7, ImportAppends
  <2>4. QED
    BY <1>5, <1>6, <2>2, <2>3
<1>7. BoundPolicyCoversHistory'
  BY <1>6 DEF BoundPolicyCoversHistory
<1>8. QED
  BY <1>3, <1>4, <1>5, <1>7 DEF BoundInv

LEMMA EmptyLog == ImportInit => Sequential(log) /\ DOMAIN log = {} /\ owner = {}
<1>1. SUFFICES ASSUME ImportInit PROVE Sequential(log) /\ DOMAIN log = {} /\ owner = {}
  OBVIOUS
<1>2. log = <<>> /\ owner = {}
  BY <1>1 DEF ImportInit, Init
<1>3. log \in Seq({}) /\ DOMAIN log = {}
  BY <1>2
<1>4. QED
  BY <1>2, <1>3 DEF Sequential

LEMMA BoundInvInit == ImportInit => BoundInv
BY SessionsInit, PlansSoundInit, EmptyLog DEF BoundInv, BoundPolicyCoversHistory

\* A policy bound to the open store defines every vocabulary in the log, whoever
\* appended in between.
THEOREM PoliciesCoverHistory == ImportSpec => []BoundPolicyCoversHistory
<1>1. ImportInit => BoundInv
  BY BoundInvInit
<1>2. BoundInv /\ [ImportNext]_allVars => BoundInv'
  BY BoundInvNext
<1>3. BoundInv => BoundPolicyCoversHistory
  BY DEF BoundInv
<1>4. QED
  BY <1>1, <1>2, <1>3, PTL DEF ImportSpec
-----------------------------------------------------------------------------
(***************************************************************************)
(* One subject for each scope.                                             *)
(***************************************************************************)
IsReportOfMention(r) == r.type = "entity_mention_recorded" /\ r.report # {}

\* Every report mention in the log is retained as an association.
RecordedRetained == \A k \in DOMAIN log : IsReportOfMention(log[k].req) => Named(log[k].req) \in RetainedAssociations

OneAssociation == \A a, b \in RetainedAssociations : a.scope = b.scope => a = b

SubjectInv == Sessions /\ PlansSound /\ Sequential(log) /\ RecordedRetained /\ OneAssociation

LEMMA RetentionGrows ==
  ASSUME PlansSound, NEW run \in ImportRuns, manifests[run] = {}, NEW m,
         manifests' = [manifests EXCEPT ![run] = {m}]
  PROVE  /\ RetainedManifests' = RetainedManifests \cup {m}
         /\ RetainedAssociations' = RetainedAssociations \cup m.associations
<1>1. manifests'[run] = {m} /\ \A r \in ImportRuns : r # run => manifests'[r] = manifests[r]
  BY DEF PlansSound
<1>2. RetainedManifests' = RetainedManifests \cup {m}
  BY <1>1 DEF RetainedManifests
<1>3. QED
  BY <1>2 DEF RetainedAssociations

\* A plan takes over the association of each scope that has one.
LEMMA PlanAssociates ==
  ASSUME OneAssociation, NEW i, NEW policy,
         NEW a \in RetainedAssociations \cup Planned(i, policy).associations,
         NEW b \in RetainedAssociations \cup Planned(i, policy).associations, a.scope = b.scope
  PROVE  a = b
<1>1. ASSUME NEW c \in Planned(i, policy).associations
      PROVE  c = AssociationOf(i.run, c.scope)
  <2>1. PICK k \in DOMAIN i.artifacts : c = AssociationOf(i.run, i.artifacts[k].scope)
    BY DEF Planned
  <2>2. c.scope = i.artifacts[k].scope
    BY <2>1, AssociationFacts
  <2>3. QED
    BY <2>1, <2>2
<1>2. ASSUME NEW c \in RetainedAssociations, NEW scope, c.scope = scope
      PROVE  AssociationOf(i.run, scope) = c
  BY <1>2, AssociationFacts DEF OneAssociation
<1>3. CASE a \in RetainedAssociations /\ b \in RetainedAssociations
  BY <1>3 DEF OneAssociation
<1>4. CASE a \notin RetainedAssociations /\ b \notin RetainedAssociations
  BY <1>1, <1>4
<1>5. CASE a \in RetainedAssociations /\ b \notin RetainedAssociations
  BY <1>1, <1>2, <1>5
<1>6. CASE a \notin RetainedAssociations /\ b \in RetainedAssociations
  BY <1>1, <1>2, <1>6
<1>7. QED
  BY <1>3, <1>4, <1>5, <1>6

\* What is appended as a report mention is one that a manifest names.
LEMMA MentionsAreRetained ==
  ASSUME Sessions, PlansSound, Sequential(log), RecordedRetained, [ImportNext]_allVars,
         RetainedAssociations \subseteq RetainedAssociations'
  PROVE  RecordedRetained'
<1>1. CASE UNCHANGED log
  BY <1>1 DEF RecordedRetained
<1>2. ASSUME NEW r, Grows(r), IsReportOfMention(r) => Named(r) \in RetainedAssociations
      PROVE  RecordedRetained'
  <2>1. /\ DOMAIN log' = 1..(Len(log) + 1) /\ DOMAIN log = 1..Len(log) /\ Len(log) \in Nat
        /\ \A k \in 1..Len(log) : log'[k] = log[k]
        /\ log'[Len(log) + 1].req = r
    BY <1>2, LogGrows
  <2>2. SUFFICES ASSUME NEW k \in DOMAIN log', IsReportOfMention(log'[k].req)
                 PROVE  Named(log'[k].req) \in RetainedAssociations
    BY DEF RecordedRetained
  <2>3. CASE k \in 1..Len(log)
    BY <2>1, <2>2, <2>3 DEF RecordedRetained
  <2>4. CASE k = Len(log) + 1
    BY <1>2, <2>1, <2>2, <2>4
  <2>5. QED
    BY <2>1, <2>3, <2>4
<1>3. ASSUME NEW i \in Invocations, NEW r \in Due(i), IsReportOfMention(r)
      PROVE  Named(r) \in RetainedAssociations
  <2>1. PICK m \in manifests[i.run] :
          PlanSound(i.run, m) /\ next[i] \in 1..Len(m.requests) /\ r = m.requests[next[i]]
    BY DueIsPlanned
  <2>2. Named(r) \in m.associations
    BY <1>3, <2>1 DEF PlanSound, MentionSound, IsReportOfMention
  <2>3. QED
    BY <2>2 DEF RetainedAssociations, RetainedManifests, ImportRuns
<1>4. ASSUME NEW r \in Requests PROVE ~IsReportOfMention(r)
  BY ProducerAssumption DEF IsReportOfMention
<1>5. QED
  BY <1>1, <1>2, <1>3, <1>4, ImportAppends

LEMMA SubjectInvNext == SubjectInv /\ [ImportNext]_allVars => SubjectInv'
<1>1. SUFFICES ASSUME SubjectInv, [ImportNext]_allVars PROVE SubjectInv'
  OBVIOUS
<1>2. Sessions /\ PlansSound /\ Sequential(log) /\ RecordedRetained /\ OneAssociation
  BY <1>1 DEF SubjectInv
<1>3. Sessions' /\ PlansSound'
  BY <1>1, <1>2, SessionsNext, PlansSoundNext
<1>4. Sequential(log)'
  <2>1. CASE UNCHANGED log
    BY <1>2, <2>1 DEF Sequential
  <2>2. QED
    BY <1>1, <1>2, <2>1, ImportAppends, LogGrows
<1>5. RetainedAssociations \subseteq RetainedAssociations' /\ OneAssociation'
  <2>1. CASE UNCHANGED manifests
    BY <1>2, <2>1 DEF RetainedAssociations, RetainedManifests, OneAssociation
  <2>2. ASSUME NEW i \in Invocations, Prepare(i)
        PROVE  RetainedAssociations \subseteq RetainedAssociations' /\ OneAssociation'
    <3>1. PICK m : PlanOf(i, m) /\ manifests' = [manifests EXCEPT ![i.run] = {m}]
      BY <1>2, <2>2, PrepareRetains
    <3>2. i.run \in ImportRuns /\ manifests[i.run] = {}
      BY <1>2, <2>2, PrepareRetains
    <3>3. RetainedAssociations' = RetainedAssociations \cup m.associations
      BY <1>2, <3>1, <3>2, RetentionGrows
    <3>4. PICK config, n : m = Planned(Minting(i, n), Loaded(config))
      BY <3>1 DEF PlanOf
    <3>5. OneAssociation'
      BY <1>2, <3>3, <3>4, PlanAssociates DEF OneAssociation
    <3>6. QED
      BY <3>3, <3>5
  <2>3. QED
    BY <1>1, <2>1, <2>2, ImportWrites
       DEF ImportNext, Dies, SubmitNew, OtherAppends, OtherPublishes, importVars, allVars
<1>6. RecordedRetained'
  BY <1>1, <1>2, <1>5, MentionsAreRetained
<1>7. QED
  BY <1>3, <1>4, <1>5, <1>6 DEF SubjectInv

LEMMA SubjectInvInit == ImportInit => SubjectInv
<1>1. SUFFICES ASSUME ImportInit PROVE SubjectInv
  OBVIOUS
<1>2. RecordedRetained
  BY <1>1, EmptyLog DEF RecordedRetained
<1>3. RetainedAssociations = {}
  BY <1>1 DEF ImportInit, RetainedAssociations, RetainedManifests
<1>4. QED
  BY <1>1, <1>2, <1>3, SessionsInit, PlansSoundInit, EmptyLog DEF SubjectInv, OneAssociation

LEMMA SubjectInvSuffices == SubjectInv => OneSubjectPerScope
BY DEF SubjectInv, RecordedRetained, OneAssociation, OneSubjectPerScope, IsReportOfMention, Named

\* A scope has one subject for ever, whoever imported it first, died, and was
\* resumed before or after others were prepared.
THEOREM ScopesKeepTheirSubject == ImportSpec => []OneSubjectPerScope
<1>1. ImportInit => SubjectInv
  BY SubjectInvInit
<1>2. SubjectInv /\ [ImportNext]_allVars => SubjectInv'
  BY SubjectInvNext
<1>3. SubjectInv => OneSubjectPerScope
  BY SubjectInvSuffices
<1>4. QED
  BY <1>1, <1>2, <1>3, PTL DEF ImportSpec
-----------------------------------------------------------------------------
(***************************************************************************)
(* Manifests are committed in their order.                                 *)
(***************************************************************************)
UniqueIds(l) == \A j, k \in 1..Len(l) : l[j].req.id = l[k].req.id => j = k

InLog(r) == \E j \in 1..Len(log) : log[j].req = r

\* Before an entry of a manifest come those of its earlier requests.
Ordered(l, m) ==
  \A k \in 1..Len(m.requests), j \in 1..Len(l) :
    l[j].req = m.requests[k] => \A b \in 1..(k-1) : \E h \in 1..(j-1) : l[h].req = m.requests[b]

InOrder(l, ms) == \A run \in ImportRuns : \A m \in ms[run] : Ordered(l, m)

\* The first n requests of m are committed.
FirstIn(m, n) == \A k \in 1..Len(m.requests) : k <= n => InLog(m.requests[k])

Early == {"opened", "draining", "preparing"}

\* A session that works has committed what comes before the request it is at, and
\* that one too when it has just submitted it.
SubmittedAt(i) ==
  at[i] \in Working =>
    /\ at[i] \in Early => next[i] = 1
    /\ \A m \in manifests[i.run] :
         /\ FirstIn(m, next[i] - 1)
         /\ at[i] = "after" => FirstIn(m, next[i])

Submitted == \A i \in Invocations : SubmittedAt(i)

OrderInv ==
  /\ Sessions /\ PlansSound /\ Sequential(log)
  /\ UniqueIds(log) /\ InOrder(log, manifests) /\ Submitted

\* No two runs plan the same request, nobody else submits one.
LEMMA PlanIds ==
  ASSUME NEW run, NEW m, PlanSound(run, m), NEW k \in 1..Len(m.requests)
  PROVE  /\ m.requests[k] \notin Requests
         /\ m.requests[k].id[1][1] = run
         /\ \A l \in 1..Len(m.requests) : m.requests[k] = m.requests[l] => k = l
<1>1. PICK i \in Invocations : i.run = run /\ \E n \in Serials : m.requests[k].id[1] = <<i.run, n>>
  BY DEF PlanSound, MintedFor
<1>2. PICK n \in Serials : m.requests[k].id[1] = <<i.run, n>>
  BY <1>1
<1>3. m.requests[k] \notin Requests
  BY <1>2, IdentifierAssumption
<1>4. m.requests[k].id[1][1] = run
  BY <1>1, <1>2
<1>5. \A l \in 1..Len(m.requests) : m.requests[k] = m.requests[l] => k = l
  BY DEF PlanSound
<1>6. QED
  BY <1>3, <1>4, <1>5

\* What is planned now is not in the log.
LEMMA PlanIsNew ==
  ASSUME Sequential(log), NEW i \in Invocations, NEW m, PlanOf(i, m)
  PROVE  \A k \in 1..Len(m.requests) : ~InLog(m.requests[k])
<1>1. PICK config \in Configs, n \in Serials :
        Loadable(config) /\ n \in Unused(i) /\ m = Planned(Minting(i, n), Loaded(config))
  BY DEF PlanOf
<1>2. \A k \in 1..Len(m.requests) : m.requests[k].id[1] = <<i.run, n>>
  BY <1>1, PlanIsSound
<1>3. \A j \in 1..Len(log) : log[j].req.id[1] # <<i.run, n>>
  BY <1>1, SequentialType DEF Unused
<1>4. QED
  BY <1>2, <1>3 DEF InLog

LEMMA UniqueIdsGrow ==
  ASSUME Sequential(log), UniqueIds(log), NEW r, Grows(r), Retained(r) = {}
  PROVE  UniqueIds(log')
<1>1. /\ DOMAIN log' = 1..(Len(log) + 1) /\ DOMAIN log = 1..Len(log) /\ Len(log) \in Nat
      /\ Len(log') = Len(log) + 1
      /\ \A k \in 1..Len(log) : log'[k] = log[k]
      /\ log'[Len(log) + 1].req = r
  BY LogGrows
<1>2. \A k \in 1..Len(log) : log[k].req.id # r.id
  BY <1>1 DEF Retained, Conflicts
<1>3. SUFFICES ASSUME NEW j \in 1..(Len(log) + 1), NEW k \in 1..(Len(log) + 1),
                      log'[j].req.id = log'[k].req.id
               PROVE  j = k
  BY <1>1 DEF UniqueIds
<1>4. CASE j \in 1..Len(log) /\ k \in 1..Len(log)
  BY <1>1, <1>3, <1>4 DEF UniqueIds
<1>5. CASE j = Len(log) + 1 /\ k \in 1..Len(log)
  BY <1>1, <1>2, <1>3, <1>5
<1>6. CASE j \in 1..Len(log) /\ k = Len(log) + 1
  BY <1>1, <1>2, <1>3, <1>6
<1>7. QED
  BY <1>1, <1>4, <1>5, <1>6

LEMMA InLogStays ==
  ASSUME Sequential(log), UNCHANGED log \/ \E r : Grows(r)
  PROVE  \A x : InLog(x) => InLog(x)'
<1>1. CASE UNCHANGED log
  BY <1>1 DEF InLog
<1>2. ASSUME NEW r, Grows(r), NEW x, InLog(x) PROVE InLog(x)'
  <2>1. /\ Len(log) \in Nat /\ Len(log') = Len(log) + 1
        /\ \A k \in 1..Len(log) : log'[k] = log[k]
    BY <1>2, LogGrows
  <2>2. PICK j \in 1..Len(log) : log[j].req = x
    BY <1>2 DEF InLog
  <2>3. j \in 1..Len(log') /\ log'[j].req = x
    BY <2>1, <2>2
  <2>4. QED
    BY <2>3 DEF InLog
<1>3. QED
  BY <1>1, <1>2

\* An append keeps the order of a manifest that it is no part of, or whose earlier
\* requests are all committed.
LEMMA OrderedGrows ==
  ASSUME Sequential(log), NEW r, Grows(r), NEW m, Ordered(log, m),
         \A k \in 1..Len(m.requests) : r = m.requests[k] => \A l \in 1..(k-1) : InLog(m.requests[l])
  PROVE  Ordered(log', m)
<1>1. /\ Len(log) \in Nat /\ Len(log') = Len(log) + 1
      /\ \A k \in 1..Len(log) : log'[k] = log[k]
      /\ log'[Len(log) + 1].req = r
  BY LogGrows
<1>2. SUFFICES ASSUME NEW k \in 1..Len(m.requests), NEW j \in 1..(Len(log) + 1),
                      log'[j].req = m.requests[k], NEW l \in 1..(k-1)
               PROVE  \E h \in 1..(j-1) : log'[h].req = m.requests[l]
  BY <1>1 DEF Ordered
<1>3. CASE j \in 1..Len(log)
  <2>1. PICK h \in 1..(j-1) : log[h].req = m.requests[l]
    BY <1>1, <1>2, <1>3 DEF Ordered
  <2>2. log'[h] = log[h]
    BY <1>1, <1>3
  <2>3. QED
    BY <2>1, <2>2
<1>4. CASE j = Len(log) + 1
  <2>1. InLog(m.requests[l])
    BY <1>1, <1>2, <1>4
  <2>2. PICK h \in 1..Len(log) : log[h].req = m.requests[l]
    BY <2>1 DEF InLog
  <2>3. h \in 1..(j-1) /\ log'[h] = log[h]
    BY <1>1, <1>4
  <2>4. QED
    BY <2>2, <2>3
<1>5. QED
  BY <1>1, <1>3, <1>4

LEMMA InOrderNext ==
  ASSUME Sessions, PlansSound, Sequential(log), InOrder(log, manifests), Submitted, [ImportNext]_allVars
  PROVE  InOrder(log', manifests')
<1>1. CASE UNCHANGED <<log, manifests>>
  BY <1>1 DEF InOrder, Ordered
<1>2. ASSUME NEW i \in Invocations, Prepare(i) PROVE InOrder(log', manifests')
  <2>1. PICK m : PlanOf(i, m) /\ PlanSound(i.run, m) /\ manifests' = [manifests EXCEPT ![i.run] = {m}]
    BY <1>2, PrepareRetains
  <2>2. UNCHANGED log /\ manifests[i.run] = {} /\ DOMAIN manifests = ImportRuns
    BY <1>2, PrepareRetains DEF PlansSound
  <2>3. ASSUME NEW j \in 1..Len(log), NEW k \in 1..Len(m.requests) PROVE log[j].req # m.requests[k]
    BY <2>1, PlanIsNew DEF InLog
  <2>4. Ordered(log, m)
    BY <2>3 DEF Ordered
  <2>5. \A run \in ImportRuns : \A x \in manifests'[run] : Ordered(log, x)
    <3>1. \A run \in ImportRuns : run # i.run => manifests'[run] = manifests[run]
      BY <2>1, <2>2
    <3>2. manifests'[i.run] = {m}
      BY <2>1, <2>2 DEF ImportRuns
    <3>3. QED
      BY <2>4, <3>1, <3>2 DEF InOrder
  <2>6. QED
    BY <2>2, <2>5 DEF InOrder, Ordered
<1>3. ASSUME NEW i \in Invocations, NEW r \in Due(i), SubmitNew(i), Grows(r) PROVE InOrder(log', manifests')
  <2>1. PICK m \in manifests[i.run] : next[i] \in 1..Len(m.requests) /\ r = m.requests[next[i]]
    BY <1>3, DueIsPlanned
  <2>2. FirstIn(m, next[i] - 1)
    BY <1>3, <2>1 DEF Submitted, SubmittedAt, SubmitNew, Goes, Working
  <2>3. UNCHANGED manifests
    BY <1>3 DEF SubmitNew
  <2>4. ASSUME NEW run \in ImportRuns, NEW x \in manifests[run], NEW k \in 1..Len(x.requests),
               r = x.requests[k], NEW l \in 1..(k-1)
        PROVE  InLog(x.requests[l])
    <3>1. PlanSound(run, x) /\ PlanSound(i.run, m) /\ AtMostOne(manifests[run])
      BY <2>1 DEF PlansSound, ImportRuns
    <3>2. run = i.run
      <4>1. x.requests[k].id[1][1] = run
        BY <3>1, PlanIds
      <4>2. \A l1 \in 1..Len(m.requests) : m.requests[l1].id[1][1] = i.run
        BY <3>1, PlanIds
      <4>3. r.id[1][1] = i.run
        BY <2>1, <4>2
      <4>4. QED
        BY <2>4, <4>1, <4>3
    <3>3. x = m
      BY <2>1, <3>1, <3>2 DEF AtMostOne
    <3>4. k = next[i]
      <4>1. m.requests[k] = m.requests[next[i]] /\ k \in 1..Len(m.requests)
        BY <2>1, <2>4, <3>3
      <4>2. QED
        BY <2>1, <3>1, <4>1, PlanIds
    <3>5. l \in 1..Len(x.requests) /\ l <= next[i] - 1
      <4>1. Len(x.requests) \in Nat
        BY <3>1, SequentialType DEF PlanSound
      <4>2. QED
        BY <2>4, <3>4, <4>1
    <3>6. QED
      BY <2>2, <3>3, <3>5 DEF FirstIn
  <2>5. QED
    BY <1>3, <2>3, <2>4, OrderedGrows DEF InOrder
<1>4. ASSUME NEW r \in Requests, UNCHANGED importVars, Grows(r) PROVE InOrder(log', manifests')
  <2>1. UNCHANGED manifests
    BY <1>4 DEF importVars
  <2>2. ASSUME NEW run \in ImportRuns, NEW x \in manifests[run], NEW k \in 1..Len(x.requests)
        PROVE  r # x.requests[k]
    BY PlanIds DEF PlansSound
  <2>3. QED
    BY <1>4, <2>1, <2>2, OrderedGrows DEF InOrder
<1>5. ASSUME UNCHANGED log PROVE InOrder(log', manifests')
  BY <1>1, <1>2, <1>5, ImportWrites DEF ImportNext, Dies, SubmitNew, OtherAppends, OtherPublishes, importVars, allVars
<1>6. QED
  BY <1>3, <1>4, <1>5, ImportAppends

\* What is committed is not forgotten.
LEMMA FirstInStays ==
  ASSUME Sequential(log), UNCHANGED log \/ \E r : Grows(r)
  PROVE  \A m, n : FirstIn(m, n) => FirstIn(m, n)'
BY InLogStays DEF FirstIn

LEMMA FirstInNone ==
  ASSUME NEW m, NEW n, n = 1
  PROVE  FirstIn(m, n - 1)
BY DEF FirstIn

LEMMA FirstInOne ==
  ASSUME NEW m, NEW n \in 1..Len(m.requests), Len(m.requests) \in Nat, FirstIn(m, n - 1), InLog(m.requests[n])
  PROVE  FirstIn(m, n)
<1>1. SUFFICES ASSUME NEW k \in 1..Len(m.requests), k <= n PROVE InLog(m.requests[k])
  BY DEF FirstIn
<1>2. CASE k = n
  BY <1>2
<1>3. CASE k # n
  <2>1. k <= n - 1
    BY <1>1, <1>3
  <2>2. QED
    BY <2>1 DEF FirstIn
<1>4. QED
  BY <1>2, <1>3

\* A step between two requests keeps what is committed.
LEMMA SubmittedKept ==
  ASSUME Sequential(log), UNCHANGED log \/ \E r : Grows(r), NEW j, SubmittedAt(j), at[j] \in Working,
         UNCHANGED <<manifests, next>>, at'[j] \in Early => at[j] \in Early, at'[j] # "after"
  PROVE  SubmittedAt(j)'
<1>1. \A m, n : FirstIn(m, n) => FirstIn(m, n)'
  BY FirstInStays
<1>2. \A m \in manifests[j.run] : FirstIn(m, next[j] - 1)
  BY DEF SubmittedAt
<1>3. \A m \in manifests[j.run] : FirstIn(m, next[j] - 1)'
  BY <1>1, <1>2
<1>4. QED
  BY <1>3 DEF SubmittedAt

\* Steps of i leave the others' requests where they are.
LEMMA SubmittedOfOthers ==
  ASSUME Sessions, PlansSound, Sequential(log), [ImportNext]_allVars, NEW i \in Invocations, ImportStep(i),
         NEW j \in Invocations, j # i, SubmittedAt(j)
  PROVE  SubmittedAt(j)'
<1>1. /\ at'[j] = at[j] /\ next'[j] = next[j]
  <2>1. DOMAIN at = Invocations /\ DOMAIN next = Invocations
    BY DEF Sessions, LockHeld, NextCounts
  <2>2. at'[j] = at[j]
    BY <2>1, ImportKinds DEF Deploy, OpenWriter, Inside, Leaves, Closes, Goes
  <2>3. next'[j] = next[j]
    BY <2>1 DEF ImportStep, Deploy, OpenWriter, OpenRefused, PublishOne, PublishDone,
       BeginPreparing, Prepare, PrepareRetained, PrepareRefused, Resume, SubmitNext, SubmitNew, SubmitRetried,
       SubmitRefused, SubmitSkewed, Finish, CheckCompletion, Closes, importVars
  <2>4. QED
    BY <2>2, <2>3
<1>2. UNCHANGED log \/ \E r : Grows(r)
  BY ImportAppends
<1>3. CASE Prepare(i)
  <2>1. at[i] \in Working
    BY <1>3 DEF Prepare, Goes, Working
  <2>2. at[j] \notin Working
    BY <2>1 DEF Sessions, LockHeld, AtMostOne
  <2>3. QED
    BY <1>1, <2>2 DEF SubmittedAt
<1>4. CASE UNCHANGED manifests
  <2>1. \A m, n : FirstIn(m, n) => FirstIn(m, n)'
    BY <1>2, FirstInStays
  <2>2. CASE at[j] \in Working
    <3>1. /\ at[j] \in Early => next[j] = 1
          /\ \A m \in manifests[j.run] : FirstIn(m, next[j] - 1) /\ (at[j] = "after" => FirstIn(m, next[j]))
      BY <2>2 DEF SubmittedAt
    <3>2. \A m \in manifests[j.run] : FirstIn(m, next[j] - 1)' /\ (at[j] = "after" => FirstIn(m, next[j])')
      BY <1>1, <2>1, <3>1
    <3>3. QED
      BY <1>1, <1>4, <3>1, <3>2 DEF SubmittedAt
  <2>3. CASE at[j] \notin Working
    BY <1>1, <2>3 DEF SubmittedAt
  <2>4. QED
    BY <2>2, <2>3
<1>5. QED
  BY <1>3, <1>4, ImportWrites DEF SubmitNew

LEMMA SubmittedOfOwn ==
  ASSUME Sessions, PlansSound, Sequential(log), [ImportNext]_allVars, NEW i \in Invocations, ImportStep(i),
         SubmittedAt(i)
  PROVE  SubmittedAt(i)'
<1>1. UNCHANGED log \/ \E r : Grows(r)
  BY ImportAppends
<1>2. DOMAIN at = Invocations /\ DOMAIN next = Invocations /\ next[i] \in Nat \ {0}
  BY DEF Sessions, LockHeld, NextCounts
<1>3. \A m, n : FirstIn(m, n) => FirstIn(m, n)'
  BY <1>1, FirstInStays
<1>4. ASSUME at'[i] \notin Working PROVE SubmittedAt(i)'
  BY <1>4 DEF SubmittedAt
<1>5. ASSUME next'[i] = 1, at'[i] # "after" PROVE SubmittedAt(i)'
  BY <1>5, FirstInNone DEF SubmittedAt, FirstIn
<1>6. CASE Deploy(i) \/ OpenRefused(i) \/ PrepareRefused(i) \/ SubmitRefused(i) \/ SubmitSkewed(i)
  BY <1>2, <1>4, <1>6 DEF Deploy, OpenRefused, PrepareRefused, SubmitRefused, SubmitSkewed, Closes, Goes, Working
<1>7. CASE CheckCompletion(i)
  <2>1. \E from, to : Goes(i, from, to) /\ to \in {"completed", "incomplete"}
    BY <1>7 DEF CheckCompletion, Closes
  <2>2. QED
    BY <1>2, <1>4, <2>1 DEF Goes, Working
<1>8. CASE OpenWriter(i)
  BY <1>2, <1>5, <1>8 DEF OpenWriter, Goes
<1>9. CASE PublishOne(i)
  <2>1. UNCHANGED <<manifests, next, at>> /\ at[i] \in {"draining", "before", "after", "finishing"}
    BY <1>9 DEF PublishOne, importVars
  <2>2. UNCHANGED log
    BY <1>9 DEF PublishOne, PublishNext
  <2>3. QED
    BY <2>1, <2>2 DEF SubmittedAt, FirstIn, InLog
<1>10. CASE PublishDone(i)
  <2>1. UNCHANGED <<manifests, log>>
    BY <1>10 DEF PublishDone, PublishNothing, vars
  <2>2. CASE Goes(i, "after", "resuming") /\ next' = [next EXCEPT ![i] = @ + 1]
    <3>1. PICK n \in Nat : n = next[i]
      BY <1>2
    <3>2. at'[i] = "resuming" /\ next'[i] = n + 1 /\ next'[i] - 1 = n
      BY <1>2, <2>2, <3>1 DEF Goes
    <3>3. \A m \in manifests[i.run] : FirstIn(m, n)
      BY <2>2, <3>1 DEF SubmittedAt, Goes, Working
    <3>4. \A m \in manifests[i.run] : FirstIn(m, n)'
      BY <1>3, <3>3
    <3>5. QED
      BY <2>1, <3>2, <3>4 DEF SubmittedAt, Early, FirstIn
  <2>3. CASE Goes(i, "draining", "preparing") /\ UNCHANGED next
    BY <1>1, <1>2, <2>1, <2>3, SubmittedKept DEF Goes, Working, Early
  <2>4. CASE Goes(i, "before", "appending") /\ UNCHANGED next
    BY <1>1, <1>2, <2>1, <2>4, SubmittedKept DEF Goes, Working, Early
  <2>5. CASE Goes(i, "finishing", "checking") /\ UNCHANGED next
    BY <1>1, <1>2, <2>1, <2>5, SubmittedKept DEF Goes, Working, Early
  <2>6. QED
    BY <1>10, <2>2, <2>3, <2>4, <2>5 DEF PublishDone
<1>11. CASE BeginPreparing(i)
  <2>1. at[i] = "opened" /\ at'[i] \in {"draining", "preparing"} /\ UNCHANGED <<manifests, next>>
    BY <1>2, <1>11 DEF BeginPreparing, Goes
  <2>2. QED
    BY <1>1, <2>1, SubmittedKept DEF Working, Early
<1>12. CASE Prepare(i)
  <2>1. at[i] = "preparing" /\ at'[i] = "resuming" /\ next'[i] = next[i]
    BY <1>2, <1>12 DEF Prepare, Goes
  <2>2. QED
    BY <1>5, <2>1 DEF SubmittedAt, Working, Early
<1>13. CASE PrepareRetained(i) \/ Resume(i)
  BY <1>1, <1>2, <1>13, SubmittedKept DEF PrepareRetained, Resume, Goes, Working, Early
<1>14. CASE SubmitNext(i) \/ Finish(i)
  BY <1>1, <1>2, <1>14, SubmittedKept DEF SubmitNext, Finish, Goes, Working, Early
<1>15. CASE SubmitNew(i) \/ SubmitRetried(i)
  <2>1. at[i] = "appending" /\ at'[i] = "after" /\ UNCHANGED <<manifests, next>>
    BY <1>2, <1>15 DEF SubmitNew, SubmitRetried, Goes
  <2>2. PICK r \in Due(i) : InLog(r)'
    <3>1. CASE SubmitNew(i)
      <4>1. PICK r \in Due(i) : Grows(r)
        BY <3>1, SubmissionGrows DEF SubmitNew
      <4>2. Len(log) \in Nat /\ Len(log') = Len(log) + 1 /\ log'[Len(log) + 1].req = r
        BY <4>1, LogGrows
      <4>3. QED
        BY <4>2 DEF InLog
    <3>2. CASE SubmitRetried(i)
      <4>1. PICK r \in Due(i) : Committed(r)
        BY <3>2 DEF SubmitRetried
      <4>2. InLog(r)
        BY <4>1, SequentialType DEF Committed, InLog
      <4>3. QED
        BY <1>1, <4>2, InLogStays
    <3>3. QED
      BY <1>15, <3>1, <3>2
  <2>3. PICK m \in manifests[i.run] :
          PlanSound(i.run, m) /\ next[i] \in 1..Len(m.requests) /\ r = m.requests[next[i]]
    BY <2>2, DueIsPlanned
  <2>4. \A x \in manifests[i.run] : x = m
    BY <2>3 DEF PlansSound, AtMostOne, ImportRuns
  <2>5. PICK n \in Nat : n = next[i]
    BY <1>2
  <2>6. FirstIn(m, n - 1)'
    BY <1>3, <2>1, <2>3, <2>5 DEF SubmittedAt, Working
  <2>7. InLog(m.requests[n])'
    BY <2>2, <2>3, <2>5
  <2>8. FirstIn(m, n)'
    <3>1. Len(m.requests) \in Nat
      BY <2>3, SequentialType DEF PlanSound
    <3>2. SUFFICES ASSUME NEW k \in 1..Len(m.requests), k <= n PROVE InLog(m.requests[k])'
      BY DEF FirstIn
    <3>3. CASE k = n
      BY <2>7, <3>3
    <3>4. CASE k # n
      <4>1. k <= n - 1
        BY <2>5, <3>1, <3>2, <3>4
      <4>2. QED
        BY <2>6, <4>1 DEF FirstIn
    <3>5. QED
      BY <3>3, <3>4
  <2>9. next'[i] = n
    BY <2>1, <2>5
  <2>10. QED
    BY <2>1, <2>4, <2>6, <2>8, <2>9 DEF SubmittedAt, Early, FirstIn
<1>16. QED
  BY <1>6, <1>7, <1>8, <1>9, <1>10, <1>11, <1>12, <1>13, <1>14, <1>15 DEF ImportStep

LEMMA SubmittedNext ==
  ASSUME Sessions, PlansSound, Sequential(log), Submitted, [ImportNext]_allVars
  PROVE  Submitted'
<1>1. ASSUME NEW i \in Invocations, ImportStep(i) PROVE Submitted'
  BY <1>1, SubmittedOfOthers, SubmittedOfOwn DEF Submitted
<1>2. ASSUME NEW i \in Invocations, Dies(i) PROVE Submitted'
  <2>1. /\ UNCHANGED <<log, manifests, next>> /\ at'[i] \notin Working
        /\ \A j \in Invocations : j # i => at'[j] = at[j]
    BY <1>2 DEF Dies, vars, Sessions, LockHeld, Working
  <2>2. QED
    BY <2>1 DEF Submitted, SubmittedAt, FirstIn, InLog
<1>3. CASE UNCHANGED <<at, next, manifests>>
  <2>1. \A m, n : FirstIn(m, n) => FirstIn(m, n)'
    BY FirstInStays, ImportAppends
  <2>2. SUFFICES ASSUME NEW j \in Invocations PROVE SubmittedAt(j)'
    BY DEF Submitted
  <2>3. /\ at[j] \in Working /\ at[j] \in Early => next[j] = 1
        /\ at[j] \in Working => \A m \in manifests[j.run] : FirstIn(m, next[j] - 1) /\ (at[j] = "after" => FirstIn(m, next[j]))
    BY DEF Submitted, SubmittedAt
  <2>4. at[j] \in Working => \A m \in manifests[j.run] : FirstIn(m, next[j] - 1)' /\ (at[j] = "after" => FirstIn(m, next[j])')
    BY <1>3, <2>1, <2>3
  <2>5. QED
    BY <1>3, <2>3, <2>4 DEF SubmittedAt
<1>4. QED
  BY <1>1, <1>2, <1>3 DEF ImportNext, OtherAppends, OtherPublishes, importVars, allVars

LEMMA OrderInvNext == OrderInv /\ [ImportNext]_allVars => OrderInv'
<1>1. SUFFICES ASSUME OrderInv, [ImportNext]_allVars PROVE OrderInv'
  OBVIOUS
<1>2. Sessions /\ PlansSound /\ Sequential(log) /\ UniqueIds(log) /\ InOrder(log, manifests) /\ Submitted
  BY <1>1 DEF OrderInv
<1>3. Sessions' /\ PlansSound'
  BY <1>1, <1>2, SessionsNext, PlansSoundNext
<1>4. Sequential(log)' /\ UniqueIds(log')
  <2>1. CASE UNCHANGED log
    BY <1>2, <2>1 DEF Sequential, UniqueIds
  <2>2. QED
    BY <1>1, <1>2, <2>1, ImportAppends, LogGrows, UniqueIdsGrow
<1>5. InOrder(log', manifests') /\ Submitted'
  BY <1>1, <1>2, InOrderNext, SubmittedNext
<1>6. QED
  BY <1>3, <1>4, <1>5 DEF OrderInv

LEMMA OrderInvInit == ImportInit => OrderInv
<1>1. SUFFICES ASSUME ImportInit PROVE OrderInv
  OBVIOUS
<1>2. 1..Len(log) = {}
  BY <1>1, EmptyLog, SequentialType
<1>3. UniqueIds(log)
  BY <1>2 DEF UniqueIds
<1>4. InOrder(log, manifests)
  BY <1>1 DEF InOrder, ImportInit
<1>5. Submitted
  BY <1>1 DEF ImportInit, Submitted, SubmittedAt, Working
<1>6. QED
  BY <1>1, <1>3, <1>4, <1>5, SessionsInit, PlansSoundInit, EmptyLog DEF OrderInv

\* A set of positions with all that come before them is an initial segment.
LEMMA InitialSegment ==
  ASSUME NEW n \in Nat, NEW C \in SUBSET (1..n), \A k \in C : \A l \in 1..(k-1) : l \in C
  PROVE  C = 1..Cardinality(C)
<1> DEFINE Outside == {k \in 1..(n+1) : k \notin C}
<1>1. n + 1 \in Outside
  OBVIOUS
<1>2. Outside \in SUBSET Nat
  OBVIOUS
<1>3. PICK m \in Outside : \A k \in Outside : ~(k < m)
  <2> HIDE DEF Outside
  <2> QED BY <1>1, <1>2, Least
<1>4. m \in 1..(n+1) /\ m \notin C
  BY <1>3
<1>5. ASSUME NEW k \in 1..(m-1) PROVE k \in C
  <2>1. k \in 1..(n+1) /\ k < m
    BY <1>4
  <2>2. QED
    BY <1>3, <2>1
<1>6. ASSUME NEW k \in C PROVE k \in 1..(m-1)
  <2>1. k \in 1..n
    OBVIOUS
  <2>2. m \notin 1..(k-1) /\ m # k
    BY <1>4
  <2>3. QED
    BY <1>4, <2>1, <2>2
<1>7. C = 1..(m-1)
  BY <1>5, <1>6
<1>8. Cardinality(1..(m-1)) = m - 1
  <2>1. m - 1 \in Nat
    BY <1>4
  <2>2. Cardinality(1..(m-1)) = IF 1 > m-1 THEN 0 ELSE m-1 - 1 + 1
    BY <2>1, FS_Interval
  <2>3. QED
    BY <2>1, <2>2
<1>9. QED
  BY <1>7, <1>8

LEMMA OrderInvSuffices == OrderInv => RetainedInOrder
<1>1. SUFFICES ASSUME OrderInv, NEW m \in RetainedManifests
               PROVE  LET positions(k) == {j \in DOMAIN log : log[j].req = m.requests[k]}
                          committed    == {k \in DOMAIN m.requests : positions(k) # {}}
                      IN  /\ committed = 1..Cardinality(committed)
                          /\ \A k, l \in committed : k < l => \A p \in positions(k), q \in positions(l) : p < q
                          /\ \A k \in committed : Cardinality(positions(k)) = 1
  BY DEF RetainedInOrder
<1> DEFINE positions(k) == {j \in DOMAIN log : log[j].req = m.requests[k]}
           committed    == {k \in DOMAIN m.requests : positions(k) # {}}
           n == Len(m.requests)
<1>2. PICK run \in ImportRuns : m \in manifests[run]
  BY DEF RetainedManifests
<1>3. PlanSound(run, m) /\ Ordered(log, m) /\ UniqueIds(log)
  BY <1>1, <1>2 DEF OrderInv, PlansSound, InOrder
<1>4. n \in Nat /\ DOMAIN m.requests = 1..n /\ Len(log) \in Nat /\ DOMAIN log = 1..Len(log)
  BY <1>1, <1>3, SequentialType DEF OrderInv, PlanSound
<1>5. ASSUME NEW k \in committed, NEW p \in positions(k), NEW l \in 1..(k-1)
      PROVE  l \in committed /\ \E h \in 1..(p-1) : h \in positions(l)
  <2>1. k \in 1..n /\ p \in 1..Len(log) /\ log[p].req = m.requests[k]
    BY <1>4
  <2>2. PICK h \in 1..(p-1) : log[h].req = m.requests[l]
    BY <1>3, <2>1 DEF Ordered
  <2>3. h \in 1..Len(log) /\ l \in 1..n
    BY <1>4, <2>1
  <2>4. QED
    BY <1>4, <2>2, <2>3
<1>6. ASSUME NEW k \in committed, NEW p \in positions(k), NEW q \in positions(k) PROVE p = q
  BY <1>3, <1>4 DEF UniqueIds
<1>7. committed = 1..Cardinality(committed)
  <2>1. committed \in SUBSET (1..n)
    BY <1>4
  <2>2. \A k \in committed : \A l \in 1..(k-1) : l \in committed
    BY <1>5
  <2> HIDE DEF committed
  <2>3. QED
    BY <1>4, <2>1, <2>2, InitialSegment
<1>8. ASSUME NEW k \in committed, NEW l \in committed, k < l, NEW p \in positions(k), NEW q \in positions(l)
      PROVE  p < q
  <2>1. k \in 1..(l-1)
    BY <1>4, <1>8
  <2>2. PICK h \in 1..(q-1) : h \in positions(k)
    BY <1>5, <2>1
  <2>3. h = p
    BY <1>6, <2>2
  <2>4. q \in Nat /\ h \in Nat /\ h <= q - 1
    BY <1>4
  <2>5. QED
    BY ONLY <2>3, <2>4
<1>9. ASSUME NEW k \in committed PROVE Cardinality(positions(k)) = 1
  <2>1. PICK p : p \in positions(k)
    OBVIOUS
  <2>2. positions(k) = {p}
    BY <1>6, <2>1
  <2>3. QED
    BY <2>2, FS_Singleton
<1>10. QED
  BY <1>7, <1>8, <1>9

\* A manifest is committed from its first request on and in its order, without a gap
\* and without a repetition, however often its run died and was resumed.
THEOREM ManifestsCommitInOrder == ImportSpec => []RetainedInOrder
<1>1. ImportInit => OrderInv
  BY OrderInvInit
<1>2. OrderInv /\ [ImportNext]_allVars => OrderInv'
  BY OrderInvNext
<1>3. OrderInv => RetainedInOrder
  BY OrderInvSuffices
<1>4. QED
  BY <1>1, <1>2, <1>3, PTL DEF ImportSpec

-----------------------------------------------------------------------------
(***************************************************************************)
(* Reports can be read.                                                    *)
(***************************************************************************)
\* What admits a report of r says on the tables s: it is about the scope that the
\* mentions of its claims have as their text, and it locates their candidates.
ReportHolds(s, r) ==
  r.report # {} =>
    \E p \in r.report :
      /\ p.scope = p.artifact.scope
      /\ r.type = "observation_recorded" =>
           /\ \A i \in DOMAIN r.body.claims : r.body.claims[i].candidate \in p.located
           /\ \A i \in DOMAIN r.body.claims :
                /\ r.body.claims[i].mention \in DOMAIN s.links
                /\ s.events[s.links[r.body.claims[i].mention].event].body.text = p.scope
                /\ s.links[r.body.claims[i].mention].subject = r.body.claims[i].subject

ReportsHold(l) == \A i \in 1..Len(l) : ReportHolds(ReplayOf(l, EmptySnapshot)[i-1], l[i].req)

EntriesHold(l) == AdmittedUpTo(l, Len(l)) /\ PlainUpTo(l, Len(l)) /\ ReportsHold(l)

\* The tables vw of every projector are the replay of the first pr entries.
Shown(l, vw, pr) ==
  /\ DOMAIN vw = Versions /\ DOMAIN pr = Versions
  /\ \A v \in Versions : pr[v] \in 0..Len(l) /\ vw[v] = ReplayOf(l, EmptySnapshot)[pr[v]]

Grounded(l, vw, pr) == Sequential(l) /\ EntriesHold(l) /\ Shown(l, vw, pr)

\* A candidate's mention and subject, as the first n entries recorded them.
LEMMA MentionPublished ==
  ASSUME NEW s, NEW l, NEW n, Sourced(s, l, n), NEW m \in DOMAIN s.links
  PROVE  /\ s.links[m].subject \in DOMAIN s.entities
         /\ s.entities[s.links[m].subject].mention = m
         /\ s.entities[s.links[m].subject].event = s.links[m].event
         /\ s.links[m].event \in DOMAIN s.events
         /\ \E i \in 1..n : l[i].req.id = s.links[m].event /\ l[i].req = s.events[s.links[m].event]
<1>1. /\ s.links[m].event \in DOMAIN s.events
      /\ s.links[m].subject \in DOMAIN s.entities
      /\ s.entities[s.links[m].subject] = [mention |-> m, event |-> s.links[m].event]
  BY DEF Sourced, MentionsSourced
<1>2. \E i \in 1..n : l[i].req = s.events[s.links[m].event] /\ l[i].req.id = s.links[m].event
  BY <1>1 DEF Sourced, EventsSourced
<1>3. QED
  BY <1>1, <1>2

LEMMA GroundedDetailed ==
  ASSUME Grounded(log, view, progress), NEW v \in Versions, NEW c \in DOMAIN view[v].candidates,
         view[v].events[view[v].candidates[c].event].report # {}
  PROVE  Detailed(v, c)
<1> DEFINE R == ReplayOf(log, EmptySnapshot)
           s == view[v]
           n == progress[v]
           row == s.candidates[c]
           claim == row.claim
<1>1. Len(log) \in Nat /\ n \in 0..Len(log) /\ s = R[n]
  BY SequentialType DEF Grounded, Shown
<1>2. \A k \in 0..n : AdmittedUpTo(log, k) /\ PlainUpTo(log, k)
  BY <1>1 DEF Grounded, EntriesHold, AdmittedUpTo, PlainUpTo
<1>3. \A k \in 0..n : Sourced(R[k], log, k) /\ Consistent(R[k])
  BY <1>1, <1>2, ReplaySourced, ReplayedTables
<1>4. \A k \in 0..n : Carries(R[k], s)
  BY <1>1, <1>2, ReplayCarries
<1>5. \A i \in 1..n : ReportHolds(R[i-1], log[i].req)
  <2>1. \A i \in 1..Len(log) : ReportHolds(R[i-1], log[i].req)
    BY DEF Grounded, EntriesHold, ReportsHold
  <2>2. \A i \in 1..n : i \in 1..Len(log)
    BY <1>1
  <2>3. QED
    BY ONLY <2>1, <2>2
<1>6. Sourced(s, log, n) /\ Consistent(s)
  BY <1>1, <1>3
<1> HIDE DEF R
<1>7. PICK i \in 1..n : IsClaimOf(row, c, log[i].req)
  BY <1>6 DEF Sourced, ClaimsSourced
<1> DEFINE r == log[i].req  t == R[i-1]
<1>8. /\ r.type = "observation_recorded" /\ row.event = r.id
      /\ \E k \in DOMAIN r.body.claims : r.body.claims[k] = claim /\ r.body.claims[k].candidate = c
  BY <1>7 DEF IsClaimOf
<1>9. r.id \in DOMAIN s.events /\ s.events[r.id] = r
  BY <1>6 DEF Sourced, EventsSourced
<1>10. Published(v, row.event) /\ s.events[row.event] = r
  BY <1>8, <1>9 DEF Published
<1>11. r.report # {} /\ ReportHolds(t, r)
  BY <1>5, <1>10
<1>12. i - 1 \in 0..n
  BY <1>1
<1>13. Sourced(t, log, i-1) /\ Carries(t, s)
  BY <1>3, <1>4, <1>12
<1>14. claim.belief \in DOMAIN s.beliefs /\ ScopeOf(s.beliefs[claim.belief]) = ScopeOf(claim)
  BY <1>6 DEF Consistent, CandidatesPlaced
<1>15. c \in DOMAIN s.beliefs[claim.belief].candidates /\ s.beliefs[claim.belief].candidates[c] = row
  <2>1. CopiesAgree(s) /\ c \in DOMAIN s.candidates /\ row = s.candidates[c] /\ claim = row.claim
    BY <1>6 DEF Consistent
  <2> HIDE DEF s, row, claim
  <2>2. QED
    BY ONLY <1>14, <2>1 DEF CopiesAgree
<1> HIDE DEF s, n, row, claim, r, t
<1>16. PICK p \in r.report :
         /\ p.scope = p.artifact.scope
         /\ c \in p.located
         /\ claim.mention \in DOMAIN t.links
         /\ t.events[t.links[claim.mention].event].body.text = p.scope
         /\ t.links[claim.mention].subject = claim.subject
  BY <1>8, <1>11 DEF ReportHolds
<1> DEFINE m == claim.mention
<1>17. m \in DOMAIN s.links /\ s.links[m] = t.links[m]
  BY <1>13, <1>16 DEF Carries
<1>18. t.links[m].event \in DOMAIN t.events
  BY <1>13, <1>16, MentionPublished
<1>19. s.events[s.links[m].event].body.text = p.scope /\ s.links[m].subject = claim.subject
  BY <1>13, <1>16, <1>17, <1>18 DEF Carries
<1>20. /\ s.links[m].subject \in DOMAIN s.entities
       /\ s.entities[s.links[m].subject].mention = m
       /\ s.entities[s.links[m].subject].event = s.links[m].event
       /\ s.links[m].event \in DOMAIN s.events
       /\ \E j \in 1..n : log[j].req.id = s.links[m].event /\ log[j].req = s.events[s.links[m].event]
  BY <1>6, <1>17, MentionPublished
<1>21. Published(v, s.links[m].event)
  BY <1>20 DEF Published, s, n
<1>22. TextOf(v, m) = p.scope
  BY <1>19 DEF TextOf, s
<1>23. \E q \in r.report :
         /\ c \in q.located
         /\ m \in DOMAIN s.links
         /\ claim.subject \in DOMAIN s.entities
         /\ s.links[m].subject = claim.subject
         /\ s.entities[claim.subject].mention = m
         /\ s.entities[claim.subject].event = s.links[m].event
         /\ Published(v, s.links[m].event)
         /\ TextOf(v, m) = q.scope
         /\ q.scope = q.artifact.scope
  BY <1>16, <1>17, <1>19, <1>20, <1>21, <1>22
<1> HIDE DEF m
<1>24. /\ view[v] = s /\ s.candidates[c] = row /\ row.claim = claim /\ claim.mention = m
  BY DEF s, row, claim, m
<1>25. QED
  BY <1>8, <1>10, <1>14, <1>15, <1>23, <1>24 DEF Detailed

LEMMA GroundedReadable == Grounded(log, view, progress) => ReportsReadable
BY GroundedDetailed DEF ReportsReadable, ReportVersions, Versions

-----------------------------------------------------------------------------
\* The replay of a log does not change when the log grows.
LEMMA ReplayStays ==
  ASSUME NEW l, Sequential(l), NEW e, NEW n \in 0..Len(l)
  PROVE  ReplayOf(Append(l, e), EmptySnapshot)[n] = ReplayOf(l, EmptySnapshot)[n]
<1> DEFINE k == Append(l, e)
<1>1. /\ Len(l) \in Nat /\ Len(k) = Len(l) + 1
      /\ \A i \in 1..Len(l) : k[i] = l[i]
  BY AppendType
<1> HIDE DEF k
<1>2. \A i \in 1..n : k[i] = l[i]
  BY ONLY <1>1
<1>3. \A i \in 1..n : \A s, pos : Apply(s, k[i], pos) = Apply(s, l[i], pos)
  BY ONLY <1>2
<1>4. Len(k) \in Nat /\ n \in Nat /\ n <= Len(k) /\ n <= Len(l)
  BY ONLY <1>1
<1>5. ReplayOf(k, EmptySnapshot)[n] = ReplayOf(l, EmptySnapshot)[n]
  BY ONLY <1>1, <1>3, <1>4, ReplayPrefix
<1>6. QED
  BY <1>5 DEF k

\* The request r may be appended to l by a projector that shows all of it as s.
EntryHolds(s, r) == WellFormed(r) /\ (\E v : Admits(v, s, r)) /\ Plain(r) /\ ReportHolds(s, r)

LEMMA EntriesOneByOne ==
  ASSUME NEW l
  PROVE  EntriesHold(l) <=> \A i \in 1..Len(l) : EntryHolds(ReplayOf(l, EmptySnapshot)[i-1], l[i].req)
BY DEF EntriesHold, EntryHolds, AdmittedUpTo, PlainUpTo, ReportsHold

LEMMA GroundedAppend ==
  ASSUME NEW l, NEW vw, NEW pr, Grounded(l, vw, pr), NEW e, NEW v \in Versions, pr[v] = Len(l),
         EntryHolds(vw[v], e.req)
  PROVE  Grounded(Append(l, e), vw, pr)
<1> DEFINE k == Append(l, e)
<1>1. /\ Sequential(k) /\ Len(l) \in Nat /\ Len(k) = Len(l) + 1
      /\ \A i \in 1..Len(l) : k[i] = l[i]
      /\ k[Len(l) + 1] = e
  BY AppendType DEF Grounded
<1>2. \A n \in 0..Len(l) : ReplayOf(k, EmptySnapshot)[n] = ReplayOf(l, EmptySnapshot)[n]
  BY ReplayStays DEF Grounded
<1>3. \A w \in Versions : pr[w] \in 0..Len(l) /\ vw[w] = ReplayOf(l, EmptySnapshot)[pr[w]]
  BY DEF Grounded, Shown
<1> HIDE DEF k
<1>4. Shown(k, vw, pr)
  <2>1. DOMAIN vw = Versions /\ DOMAIN pr = Versions
    BY DEF Grounded, Shown
  <2>2. \A n \in 0..Len(l) : n \in 0..Len(k)
    BY ONLY <1>1
  <2>3. \A w \in Versions : pr[w] \in 0..Len(k) /\ vw[w] = ReplayOf(k, EmptySnapshot)[pr[w]]
    BY ONLY <1>2, <1>3, <2>2
  <2>4. QED
    BY ONLY <2>1, <2>3 DEF Shown
<1>5. EntriesHold(k)
  <2>1. SUFFICES ASSUME NEW i \in 1..Len(k)
                 PROVE  EntryHolds(ReplayOf(k, EmptySnapshot)[i-1], k[i].req)
    BY EntriesOneByOne
  <2>2. CASE i \in 1..Len(l)
    <3>1. EntryHolds(ReplayOf(l, EmptySnapshot)[i-1], l[i].req)
      BY <2>2, EntriesOneByOne DEF Grounded
    <3>2. i - 1 \in 0..Len(l) /\ k[i] = l[i]
      BY ONLY <1>1, <2>2
    <3>3. QED
      BY ONLY <1>2, <3>1, <3>2
  <2>3. CASE i = Len(l) + 1
    <3>1. i - 1 = Len(l) /\ Len(l) \in 0..Len(l) /\ k[i] = e
      BY ONLY <1>1, <2>3
    <3>2. vw[v] = ReplayOf(k, EmptySnapshot)[i-1]
      BY ONLY <1>2, <1>3, <3>1, pr[v] = Len(l), v \in Versions
    <3>3. QED
      BY <3>1, <3>2
  <2>4. QED
    BY <1>1, <2>2, <2>3
<1>6. QED
  BY <1>1, <1>4, <1>5 DEF Grounded, k

LEMMA GroundedPublish ==
  ASSUME NEW l, NEW vw, NEW pr, Grounded(l, vw, pr), NEW v \in Versions, pr[v] < Len(l)
  PROVE  Grounded(l, [vw EXCEPT ![v] = Apply(@, l[pr[v] + 1], pr[v] + 1)], [pr EXCEPT ![v] = pr[v] + 1])
<1> DEFINE n == pr[v] + 1
           w == [vw EXCEPT ![v] = Apply(@, l[n], n)]
           q == [pr EXCEPT ![v] = n]
           R == ReplayOf(l, EmptySnapshot)
<1>1. Len(l) \in Nat
  BY SequentialType DEF Grounded
<1>2. /\ DOMAIN vw = Versions /\ DOMAIN pr = Versions
      /\ \A u \in Versions : pr[u] \in 0..Len(l) /\ vw[u] = R[pr[u]]
  BY DEF Grounded, Shown
<1>3. n \in 1..Len(l) /\ n - 1 = pr[v] /\ n \in 0..Len(l)
  BY <1>1, <1>2
<1>4. R[n] = Apply(R[n-1], l[n], n)
  BY <1>1, <1>3, ReplaySteps
<1>5. vw[v] = R[n-1]
  BY <1>2, <1>3
<1> HIDE DEF n, R
<1>6. w[v] = R[n] /\ q[v] = n
  BY <1>2, <1>4, <1>5
<1>7. \A u \in Versions : u # v => w[u] = vw[u] /\ q[u] = pr[u]
  BY <1>2
<1>8. DOMAIN w = Versions /\ DOMAIN q = Versions
  BY <1>2
<1> HIDE DEF w, q
<1>9. \A u \in Versions : q[u] \in 0..Len(l) /\ w[u] = R[q[u]]
  BY <1>2, <1>3, <1>6, <1>7
<1>10. Shown(l, w, q)
  BY <1>8, <1>9 DEF Shown, R
<1>11. Grounded(l, w, q)
  BY <1>10 DEF Grounded
<1>12. QED
  BY <1>11 DEF w, q, n

LEMMA NothingGrounded ==
  ASSUME NEW vw, NEW pr, DOMAIN vw = Versions, DOMAIN pr = Versions,
         \A v \in Versions : vw[v] = EmptySnapshot /\ pr[v] = 0
  PROVE  Grounded(<<>>, vw, pr)
<1>1. Len(<<>>) = 0 /\ Sequential(<<>>) /\ 1..0 = {} /\ 0 \in 0..0 /\ 0 \in Nat
  <2>1. <<>> \in Seq({}) /\ Len(<<>>) = 0
    OBVIOUS
  <2>2. QED
    BY <2>1 DEF Sequential
<1>2. ReplayOf(<<>>, EmptySnapshot)[0] = EmptySnapshot
  BY <1>1, ReplaySteps
<1>3. EntriesHold(<<>>)
  BY <1>1, EntriesOneByOne
<1>4. Shown(<<>>, vw, pr)
  BY <1>1, <1>2 DEF Shown
<1>5. QED
  BY <1>1, <1>3, <1>4 DEF Grounded

-----------------------------------------------------------------------------
\* Every request of every plan has a payload that its event type allows.
Formed(r) == WellFormed(r) /\ Plain(r)

PlansFormed(ms) == \A run \in ImportRuns : \A m \in ms[run] : \A k \in 1..Len(m.requests) : Formed(m.requests[k])

LEMMA PartsFormed ==
  ASSUME NEW i \in Invocations, NEW n, NEW policy, NEW k \in DOMAIN i.artifacts
  PROVE  Formed(Boot(Minting(i, n), policy, k)) /\ Formed(Report(Minting(i, n), policy, k))
<1> DEFINE w == Minting(i, n)
           b == Boot(w, policy, k)
           r == Report(w, policy, k)
           lits == w.artifacts[k].literals
<1>1. w.artifacts = i.artifacts
  BY DEF Minting
<1>2. lits \in Seq(ToSet(lits))
  BY <1>1, SelectionAssumption
<1>3. Formed(b)
  <2>1. b.type = "entity_mention_recorded" /\ b.body.claims = <<>> /\ b.body.targets = {}
    BY DEF Boot, BootstrapRequest
  <2> HIDE DEF b
  <2>2. b.body.claims \in Seq({b.body.claims[j] : j \in DOMAIN b.body.claims})
    BY <2>1
  <2>3. QED
    BY ONLY <2>1, <2>2 DEF Formed, WellFormed, Plain, Transitions
<1>4. Formed(r)
  <2> DEFINE claim(j) == LiteralClaim(w, AssociationOf(w.run, w.artifacts[k].scope), w.artifacts[k], lits[j])
  <2>1. r.type = "observation_recorded" /\ r.body.claims = [j \in DOMAIN lits |-> claim(j)] /\ r.body.targets = {}
    BY DEF Report, ReportRequest
  <2> HIDE DEF r, claim
  <2>2. Len(lits) \in Nat /\ DOMAIN lits = 1..Len(lits)
    BY <1>2
  <2> HIDE DEF lits
  <2> DEFINE c == r.body.claims
  <2>3. c = [j \in 1..Len(lits) |-> claim(j)]
    BY ONLY <2>1, <2>2
  <2> HIDE DEF c
  <2>4. DOMAIN c = 1..Len(lits)
    BY ONLY <2>3
  <2> DEFINE S == {c[j] : j \in DOMAIN c}
  <2>5. c \in [1..Len(lits) -> S]
    <3>1. c = [j \in 1..Len(lits) |-> c[j]]
      BY ONLY <2>3
    <3>2. \A j \in 1..Len(lits) : c[j] \in S
      BY <2>4
    <3> HIDE DEF S
    <3>3. QED
      BY ONLY <3>1, <3>2
  <2> HIDE DEF S
  <2>6. c \in Seq(S)
    BY ONLY <2>2, <2>5
  <2>7. r.body.claims \in Seq({r.body.claims[j] : j \in DOMAIN r.body.claims})
    BY ONLY <2>6 DEF S, c
  <2>8. QED
    BY ONLY <2>1, <2>7 DEF Formed, WellFormed, Plain, Transitions
<1>5. QED
  BY <1>3, <1>4

LEMMA PlanFormed ==
  ASSUME NEW i \in Invocations, NEW m, PlanOf(i, m)
  PROVE  \A k \in 1..Len(m.requests) : Formed(m.requests[k])
<1>1. PICK config \in Configs, n \in Serials :
        Loadable(config) /\ n \in Unused(i) /\ m = Planned(Minting(i, n), Loaded(config))
  BY DEF PlanOf
<1> DEFINE w == Minting(i, n)
           policy == Loaded(config)
<1>2. w.artifacts = i.artifacts /\ NamesDistinct(w)
  BY MintingNames
<1>3. \A k \in DOMAIN i.artifacts : Formed(Boot(w, policy, k)) /\ Formed(Report(w, policy, k))
  BY PartsFormed
<1> HIDE DEF w, policy
<1>4. \A p \in 1..Len(m.requests) : PlanPart(w, policy, m.requests[p])
  BY <1>1, <1>2, PlanParts DEF w, policy
<1>5. QED
  BY <1>2, <1>3, <1>4 DEF PlanPart

LEMMA PlansFormedNext ==
  ASSUME Sessions, PlansSound, PlansFormed(manifests), [ImportNext]_allVars
  PROVE  PlansFormed(manifests')
<1>1. ASSUME NEW i \in Invocations, Prepare(i) PROVE PlansFormed(manifests')
  <2>1. PICK m : PlanOf(i, m) /\ manifests' = [manifests EXCEPT ![i.run] = {m}]
    BY <1>1, PrepareRetains
  <2>2. \A k \in 1..Len(m.requests) : Formed(m.requests[k])
    BY <2>1, PlanFormed
  <2>3. \A run \in ImportRuns : \A x \in manifests'[run] : x = m \/ x \in manifests[run]
    BY <2>1 DEF PlansSound
  <2>4. QED
    BY <2>2, <2>3 DEF PlansFormed
<1>2. UNCHANGED manifests => PlansFormed(manifests')
  BY DEF PlansFormed
<1>3. QED
  BY <1>1, <1>2, ImportWrites DEF ImportNext, Dies, SubmitNew, OtherAppends, OtherPublishes, importVars, allVars

\* What the guard admits is about the scope its mentions have.
LEMMA AuthorizedHolds ==
  ASSUME NEW policy, NEW v, NEW r, Authorizes(policy, v, r)
  PROVE  v \in ReportVersions /\ ReportHolds(view[v], r)
<1>1. PICK p \in r.report :
       /\ p.scope = p.artifact.scope
       /\ \/ r.type = "entity_mention_recorded"
          \/ /\ \A i \in DOMAIN r.body.claims : NamesScope(v, r.body.claims[i], p.scope)
             /\ p.located = {r.body.claims[i].candidate : i \in DOMAIN r.body.claims}
  BY DEF Authorizes
<1>2. r.type = "observation_recorded" =>
        /\ \A i \in DOMAIN r.body.claims : r.body.claims[i].candidate \in p.located
        /\ \A i \in DOMAIN r.body.claims : NamesScope(v, r.body.claims[i], p.scope)
  BY <1>1
<1>3. QED
  BY <1>1, <1>2 DEF Authorizes, ReportHolds, NamesScope, TextOf

\* An ordinary projector admits ordinary events only.
LEMMA AppendGrounds ==
  ASSUME Grounded(log, view, progress), NEW v \in Versions, NEW r, AppendSubmission(v, r), WellFormed(r), Plain(r),
         ReportHolds(view[v], r)
  PROVE  Grounded(log', view', progress')
<1>1. /\ log' = Append(log, Assign(r)) /\ UNCHANGED <<view, progress>> /\ progress[v] = Len(log)
      /\ Admits(v, view[v], Assign(r).req)
  BY DEF AppendSubmission, Appendable, Insert
<1>2. Assign(r).req = r
  BY DEF Assign
<1>3. EntryHolds(view[v], Assign(r).req)
  BY <1>1, <1>2 DEF EntryHolds
<1>4. Grounded(Append(log, Assign(r)), view, progress)
  BY <1>1, <1>3, GroundedAppend
<1>5. QED
  BY <1>1, <1>4

LEMMA PublishGrounds ==
  ASSUME Grounded(log, view, progress), NEW v \in Versions, NEW asOf, PublishNext(v, asOf)
  PROVE  Grounded(log', view', progress')
<1>1. /\ progress[v] < Len(log)
      /\ view' = [view EXCEPT ![v] = Apply(@, log[progress[v] + 1], progress[v] + 1)]
      /\ progress' = [progress EXCEPT ![v] = progress[v] + 1]
      /\ log' = log
  BY DEF PublishNext
<1>2. QED
  BY <1>1, GroundedPublish

LEMMA GroundedNext ==
  ASSUME Sessions, PlansSound, PlansFormed(manifests), Grounded(log, view, progress), [ImportNext]_allVars
  PROVE  Grounded(log', view', progress')
<1>1. CASE UNCHANGED <<log, view, progress>>
  BY <1>1
<1>2. ASSUME NEW i \in Invocations, PublishOne(i) PROVE Grounded(log', view', progress')
  <2>1. PublishNext(i.version, cutoff[i])
    BY <1>2 DEF PublishOne
  <2>2. i.version \in Versions
    BY SelectionAssumption DEF ReportVersions, Versions
  <2>3. QED
    BY <2>1, <2>2, PublishGrounds
<1>3. ASSUME NEW i \in Invocations, SubmitNew(i) PROVE Grounded(log', view', progress')
  <2>1. PICK r \in Due(i) : Admitted(i, r) /\ AppendSubmission(i.version, r)
    BY <1>3 DEF SubmitNew
  <2>2. PICK config \in Configs : bound[i] = {Loaded(config)}
    BY <1>3 DEF SubmitNew, Goes, Sessions, PolicyLoaded, Working
  <2>3. Authorizes(Loaded(config), i.version, r)
    BY <2>1, <2>2 DEF Admitted, Guard
  <2>4. i.version \in Versions /\ ReportHolds(view[i.version], r)
    BY <2>3, AuthorizedHolds DEF ReportVersions, Versions
  <2>5. Formed(r)
    BY <2>1, DueIsPlanned DEF PlansFormed, ImportRuns
  <2>6. QED
    BY <2>1, <2>4, <2>5, AppendGrounds DEF Formed
<1>4. ASSUME NEW v \in ReportVersions, NEW r \in Requests, OtherAppends(v, r) PROVE Grounded(log', view', progress')
  <2>1. AppendSubmission(v, r)
    BY <1>4 DEF OtherAppends
  <2>2. ReportHolds(view[v], r)
    <3>1. r.report = {} => ReportHolds(view[v], r)
      BY DEF ReportHolds
    <3>2. QED
      BY <1>4, <3>1, AuthorizedHolds DEF OtherAppends
  <2>3. WellFormed(r)
    BY RequestAssumption
  <2>4. Plain(r)
    BY <2>1 DEF AppendSubmission, Appendable, Assign, Admits, AdmitsMention, AdmitsObservation, Plain,
                Transitions, ReportVersions
  <2>5. QED
    BY <2>1, <2>2, <2>3, <2>4, AppendGrounds DEF ReportVersions, Versions
<1>5. ASSUME NEW v \in ReportVersions, OtherPublishes(v) PROVE Grounded(log', view', progress')
  BY <1>5, PublishGrounds DEF OtherPublishes, ReportVersions, Versions
<1>6. ASSUME NEW i \in Invocations, ImportStep(i)
      PROVE  PublishOne(i) \/ SubmitNew(i) \/ UNCHANGED <<log, view, progress>>
  BY <1>6 DEF ImportStep, Deploy, OpenWriter, OpenRefused, PublishDone, PublishNothing,
       BeginPreparing, Prepare, PrepareRetained, PrepareRefused, Resume, SubmitNext, SubmitRetried, SubmitRefused,
       SubmitSkewed, Finish, CheckCompletion, vars
<1>7. QED
  BY <1>1, <1>2, <1>3, <1>4, <1>5, <1>6 DEF ImportNext, Dies, ClockMoves, vars, allVars
-----------------------------------------------------------------------------
(***************************************************************************)
(* A run whose requests are all committed is complete.                     *)
(***************************************************************************)
\* r gives the scope of the association a its mention.
Introduces(r, a) == r.type = "entity_mention_recorded" /\ Named(r) = a

\* A fresh scope begins with its mention.
LEMMA BootComesFirst ==
  ASSUME NEW i, NEW policy, NEW k, FreshScope(i, k)
  PROVE  1 \in 1..Len(RequestsOf(i, policy, k)) /\ RequestsOf(i, policy, k)[1] = Boot(i, policy, k)
<1> DEFINE b == Boot(i, policy, k)
           r == Report(i, policy, k)
           u == IF i.artifacts[k].literals # <<>> THEN <<r>> ELSE <<>>
<1>1. RequestsOf(i, policy, k) = Join(<<b>>, u)
  BY DEF RequestsOf, FreshScope, Boot, Report, Join
<1>2. AtMost(u, r) /\ AtMost(<<b>>, b)
  BY DEF AtMost
<1> HIDE DEF b, r, u
<1>3. Sequential(<<b>>) /\ Sequential(u) /\ Len(<<b>>) = 1 /\ <<b>>[1] = b
  BY ONLY <1>2, Singleton DEF AtMost
<1>4. /\ Len(u) \in Nat /\ Len(Join(<<b>>, u)) = Len(<<b>>) + Len(u)
      /\ \A p \in 1..Len(<<b>>) : Join(<<b>>, u)[p] = <<b>>[p]
  BY ONLY <1>3, Joined
<1>5. 1 \in 1..Len(Join(<<b>>, u)) /\ Join(<<b>>, u)[1] = b
  BY ONLY <1>3, <1>4
<1>6. QED
  BY ONLY <1>1, <1>5 DEF b

\* Every fresh scope has its mention in the plan.
LEMMA PlanHoldsBoots ==
  ASSUME NEW i, NamesDistinct(i), NEW policy, NEW k \in DOMAIN i.artifacts, FreshScope(i, k)
  PROVE  IsIn(Boot(i, policy, k), Planned(i, policy).requests)
<1>1. RequestsOf(i, policy, k)[1] = Boot(i, policy, k) /\ 1 \in 1..Len(RequestsOf(i, policy, k))
  BY BootComesFirst
<1>2. IsIn(RequestsOf(i, policy, k)[1], Planned(i, policy).requests)
  BY <1>1, PlanParts
<1>3. QED
  BY <1>1, <1>2

\* An association of a plan was retained before, or the plan introduces it.
LEMMA PlanIntroduces ==
  ASSUME NEW i, NamesDistinct(i), NEW policy, NEW a \in Planned(i, policy).associations, a \notin RetainedAssociations
  PROVE  \E p \in 1..Len(Planned(i, policy).requests) : Introduces(Planned(i, policy).requests[p], a)
<1> DEFINE same(j) == i.artifacts[j].scope = a.scope
           S == {j \in DOMAIN i.artifacts : same(j)}
<1>1. PICK k \in DOMAIN i.artifacts : a = AssociationOf(i.run, i.artifacts[k].scope)
  BY DEF Planned
<1>2. a.scope = i.artifacts[k].scope
  BY <1>1, AssociationFacts
<1>3. S # {} /\ S \in SUBSET Nat
  BY <1>2 DEF NamesDistinct
<1>4. PICK j \in S : \A l \in S : ~(l < j)
  <2> HIDE DEF S
  <2> QED BY <1>3, Least
<1>5. j \in DOMAIN i.artifacts /\ i.artifacts[j].scope = a.scope
  OBVIOUS
<1>6. DOMAIN i.artifacts = 1..Len(i.artifacts) /\ Len(i.artifacts) \in Nat
  BY DEF NamesDistinct
<1>7. \A l \in 1..(j-1) : i.artifacts[l].scope # i.artifacts[j].scope
  BY <1>4, <1>5, <1>6
<1>8. AssociationOf(i.run, i.artifacts[j].scope) = a
  BY ONLY <1>1, <1>2, <1>5
<1>9. FreshScope(i, j)
  BY <1>7, <1>8 DEF FreshScope
<1>10. IsIn(Boot(i, policy, j), Planned(i, policy).requests)
  BY <1>5, <1>9, PlanHoldsBoots
<1>11. Introduces(Boot(i, policy, j), a)
  <2>1. Boot(i, policy, j).type = "entity_mention_recorded"
    BY PartIds
  <2>2. /\ Boot(i, policy, j).body.text = a.scope
        /\ Boot(i, policy, j).body.mention = a.mention /\ Boot(i, policy, j).body.subject = a.subject
    BY <1>5, <1>8 DEF Boot, BootstrapRequest
  <2>3. a = [scope |-> a.scope, mention |-> a.mention, subject |-> a.subject]
    <3>1. a = [scope |-> i.artifacts[j].scope, mention |-> Minted(i.run, "m", i.artifacts[j].scope, "-"),
               subject |-> Minted(i.run, "s", i.artifacts[j].scope, "-")]
      BY <1>8, AssociationFacts
    <3>2. QED
      BY ONLY <3>1
  <2>4. QED
    BY <2>1, <2>2, <2>3 DEF Introduces, Named
<1>12. QED
  BY <1>10, <1>11 DEF IsIn

\* Associated, of the tables s.
Linked(s, a) ==
  /\ a.mention \in DOMAIN s.links
  /\ s.links[a.mention].subject = a.subject
  /\ s.events[s.links[a.mention].event].body.text = a.scope
  /\ a.subject \in DOMAIN s.entities
  /\ s.entities[a.subject].mention = a.mention

LEMMA AssociatedIsLinked == \A v, a : Associated(v, a) <=> Linked(view[v], a)
BY DEF Associated, Linked, TextOf

LEMMA LinkedStays ==
  ASSUME NEW s, NEW t, NEW l, NEW n, Sourced(s, l, n), Carries(s, t), NEW a, Linked(s, a)
  PROVE  Linked(t, a)
<1> DEFINE m == a.mention
<1>1. m \in DOMAIN s.links /\ a.subject \in DOMAIN s.entities
  BY DEF Linked
<1>2. s.links[m].event \in DOMAIN s.events
  BY <1>1 DEF Sourced, MentionsSourced
<1>3. m \in DOMAIN t.links /\ t.links[m] = s.links[m]
  BY <1>1 DEF Carries
<1>4. t.events[s.links[m].event] = s.events[s.links[m].event]
  BY <1>2 DEF Carries
<1>5. a.subject \in DOMAIN t.entities /\ t.entities[a.subject] = s.entities[a.subject]
  BY <1>1 DEF Carries
<1>6. QED
  BY <1>3, <1>4, <1>5 DEF Linked

\* What the log introduces is linked once all of the log is shown.
LEMMA IntroducedIsLinked ==
  ASSUME NEW s, NEW l, NEW n, Sourced(s, l, n), NEW i \in 1..n, NEW a, Introduces(l[i].req, a)
  PROVE  Linked(s, a)
<1> DEFINE r == l[i].req
           m == r.body.mention
<1>1. r.type = "entity_mention_recorded" /\ a.mention = m /\ a.subject = r.body.subject /\ a.scope = r.body.text
  BY DEF Introduces, Named
<1>2. m \in DOMAIN s.links /\ s.links[m] = [subject |-> r.body.subject, event |-> r.id]
  BY <1>1 DEF Sourced, MentionsSourced
<1>3. s.events[r.id] = r
  BY DEF Sourced, EventsSourced
<1>4. /\ s.links[m].subject \in DOMAIN s.entities
      /\ s.entities[s.links[m].subject] = [mention |-> m, event |-> s.links[m].event]
  BY <1>2 DEF Sourced, MentionsSourced
<1> HIDE DEF r, m
<1>5. s.links[m].subject = a.subject /\ s.links[m].event = r.id
  BY ONLY <1>1, <1>2
<1>6. a.subject \in DOMAIN s.entities /\ s.entities[a.subject].mention = m
  BY ONLY <1>4, <1>5
<1>7. QED
  BY ONLY <1>1, <1>2, <1>3, <1>5, <1>6 DEF Linked

AllOf(l) == ReplayOf(l, EmptySnapshot)[Len(l)]

\* All of a grounded log is sourced, and carries on what any projector shows.
LEMMA GroundedFacts ==
  ASSUME NEW l, NEW vw, NEW pr, Grounded(l, vw, pr)
  PROVE  /\ Sourced(AllOf(l), l, Len(l))
         /\ Len(l) \in Nat
         /\ \A v \in Versions : Sourced(vw[v], l, pr[v]) /\ Carries(vw[v], AllOf(l))
         /\ \A v \in Versions : pr[v] = Len(l) => vw[v] = AllOf(l)
<1> DEFINE R == ReplayOf(l, EmptySnapshot)
           n == Len(l)
<1>1. n \in Nat /\ \A v \in Versions : pr[v] \in 0..n /\ vw[v] = R[pr[v]]
  BY SequentialType DEF Grounded, Shown
<1>2. \A k \in 0..n : AdmittedUpTo(l, k) /\ PlainUpTo(l, k)
  BY <1>1 DEF Grounded, EntriesHold, AdmittedUpTo, PlainUpTo
<1>3. \A k \in 0..n : Sourced(R[k], l, k)
  BY <1>1, <1>2, ReplaySourced
<1>4. \A k \in 0..n : Carries(R[k], R[n])
  BY <1>1, <1>2, ReplayCarries
<1>5. AllOf(l) = R[n]
  BY DEF AllOf
<1> HIDE DEF R
<1>6. n \in 0..n
  BY ONLY <1>1
<1>7. QED
  BY ONLY <1>1, <1>3, <1>4, <1>5, <1>6 DEF n

\* What all of l shows stays when l grows.
LEMMA AllOfGrows ==
  ASSUME NEW l, NEW e, NEW vw, NEW pr, Grounded(l, vw, pr), NEW ww, NEW qr, Grounded(Append(l, e), ww, qr)
  PROVE  Carries(AllOf(l), AllOf(Append(l, e)))
<1> DEFINE k == Append(l, e)
           R == ReplayOf(k, EmptySnapshot)
<1>1. Sequential(l) /\ Len(l) \in Nat /\ Len(k) = Len(l) + 1
  BY AppendType DEF Grounded
<1>2. Len(l) \in 0..Len(l) /\ Len(l) \in Nat /\ Len(l) \in 0..Len(k) /\ Len(k) \in Nat /\ Len(k) <= Len(k)
  BY ONLY <1>1
<1>3. R[Len(l)] = AllOf(l)
  BY <1>1, <1>2, ReplayStays DEF AllOf
<1>4. AdmittedUpTo(k, Len(k)) /\ PlainUpTo(k, Len(k))
  BY DEF Grounded, EntriesHold
<1> HIDE DEF k
<1>5. Carries(ReplayOf(k, EmptySnapshot)[Len(l)], ReplayOf(k, EmptySnapshot)[Len(k)])
  BY <1>2, <1>4, ReplayCarries
<1>6. QED
  BY <1>3, <1>5 DEF AllOf, k

\* recorded_at never goes back, and no identity or key is committed twice.
Timed(l) == \A k \in 1..Len(l) : l[k].recorded \in Nat /\ \A j \in 1..k : l[j].recorded <= l[k].recorded

NoConflicts(l) == \A j, k \in 1..Len(l) : Conflicts(l[j].req, l[k].req) => j = k

LogKept == Sequential(log) /\ Timed(log) /\ NoConflicts(log) /\ clock \in Clock

LEMMA TimedAppend ==
  ASSUME NEW l, Sequential(l), Timed(l), NEW e, e.recorded \in Nat,
         l # <<>> => e.recorded >= l[Len(l)].recorded
  PROVE  Timed(Append(l, e))
<1> DEFINE k == Append(l, e)
           n == Len(l)
<1>1. /\ n \in Nat /\ Len(k) = n + 1
      /\ \A i \in 1..n : k[i] = l[i]
      /\ k[n + 1] = e
  BY AppendType
<1>2. n # 0 => e.recorded >= l[n].recorded
  BY <1>1
<1>3. \A i \in 1..n : l[i].recorded \in Nat /\ \A j \in 1..i : l[j].recorded <= l[i].recorded
  BY DEF Timed
<1> HIDE DEF k, n
<1>4. ASSUME NEW i \in 1..n PROVE e.recorded >= l[i].recorded
  <2>1. n \in 1..n /\ i \in 1..n /\ n # 0
    BY <1>1
  <2>2. l[i].recorded <= l[n].recorded /\ l[i].recorded \in Nat /\ l[n].recorded \in Nat
    BY <1>3, <2>1
  <2>3. e.recorded >= l[n].recorded
    BY <1>2, <2>1
  <2>4. QED
    BY ONLY <2>2, <2>3, e.recorded \in Nat
<1>5. ASSUME NEW i \in 1..Len(k)
      PROVE  k[i].recorded \in Nat /\ \A j \in 1..i : k[j].recorded <= k[i].recorded
  <2>1. CASE i \in 1..n
    <3>1. k[i] = l[i] /\ \A j \in 1..i : j \in 1..n /\ k[j] = l[j]
      BY ONLY <1>1, <2>1
    <3>2. QED
      BY ONLY <1>3, <2>1, <3>1
  <2>2. CASE i = n + 1
    <3>1. k[i] = e /\ \A j \in 1..i : j = i \/ (j \in 1..n /\ k[j] = l[j])
      BY ONLY <1>1, <2>2
    <3>2. ASSUME NEW j \in 1..i PROVE k[j].recorded <= e.recorded
      <4>1. CASE j = i
        BY ONLY <3>1, <4>1, e.recorded \in Nat
      <4>2. CASE j \in 1..n /\ k[j] = l[j]
        <5>1. e.recorded >= l[j].recorded /\ l[j].recorded \in Nat
          BY <1>3, <1>4, <4>2
        <5>2. QED
          BY ONLY <4>2, <5>1, e.recorded \in Nat
      <4>3. QED
        BY <3>1, <4>1, <4>2
    <3>3. QED
      BY ONLY <3>1, <3>2, e.recorded \in Nat
  <2>3. QED
    BY ONLY <1>1, <1>5, <2>1, <2>2
<1>6. Timed(k)
  BY ONLY <1>5 DEF Timed
<1>7. QED
  BY <1>6 DEF k

LEMMA NoConflictsAppend ==
  ASSUME NEW l, Sequential(l), NoConflicts(l), NEW e, \A k \in 1..Len(l) : ~Conflicts(l[k].req, e.req)
  PROVE  NoConflicts(Append(l, e))
<1> DEFINE k == Append(l, e)
           n == Len(l)
<1>1. /\ n \in Nat /\ Len(k) = n + 1
      /\ \A i \in 1..n : k[i] = l[i]
      /\ k[n + 1] = e
  BY AppendType
<1>2. \A q, r : Conflicts(q, r) => Conflicts(r, q)
  BY DEF Conflicts
<1>3. \A i \in 1..n : ~Conflicts(l[i].req, e.req) /\ ~Conflicts(e.req, l[i].req)
  BY <1>2
<1>4. \A i, j \in 1..n : Conflicts(l[i].req, l[j].req) => i = j
  BY DEF NoConflicts
<1> HIDE DEF k, n
<1>5. \A i \in 1..Len(k) : i = n + 1 \/ i \in 1..n
  BY ONLY <1>1
<1>6. ASSUME NEW i \in 1..Len(k), NEW j \in 1..Len(k), Conflicts(k[i].req, k[j].req) PROVE i = j
  <2>1. CASE i = n + 1 /\ j = n + 1
    BY <2>1
  <2>2. CASE i \in 1..n /\ j \in 1..n
    BY ONLY <1>1, <1>4, <1>6, <2>2
  <2>3. CASE i = n + 1 /\ j \in 1..n
    BY ONLY <1>1, <1>3, <1>6, <2>3
  <2>4. CASE i \in 1..n /\ j = n + 1
    BY ONLY <1>1, <1>3, <1>6, <2>4
  <2>5. QED
    BY <1>5, <2>1, <2>2, <2>3, <2>4
<1>7. NoConflicts(k)
  BY ONLY <1>6 DEF NoConflicts
<1>8. QED
  BY <1>7 DEF k

LEMMA LogKeptAppend ==
  ASSUME LogKept, NEW v, NEW r, AppendSubmission(v, r)
  PROVE  LogKept'
<1>1. /\ log' = Append(log, Assign(r)) /\ clock' \in Clock
      /\ Retained(r) = {}
      /\ log # <<>> => Assign(r).recorded >= log[Len(log)].recorded
  BY DEF AppendSubmission, Appendable, Insert, Assign
<1>2. Sequential(log) /\ Timed(log) /\ NoConflicts(log) /\ clock \in Nat /\ DOMAIN log = 1..Len(log) /\ Len(log) \in Nat
  BY SequentialType, ClockAssumption DEF LogKept, Clock
<1>3. Assign(r).req = r /\ Assign(r).recorded = AssignedStamp
  BY DEF Assign
<1>4. AssignedStamp \in Nat
  <2>1. log # <<>> => Len(log) \in 1..Len(log)
    BY <1>2 DEF Sequential
  <2>2. log # <<>> => log[Len(log)].recorded \in Nat
    BY <1>2, <2>1 DEF Timed
  <2>3. QED
    BY <1>2, <2>2 DEF AssignedStamp
<1>5. \A k \in 1..Len(log) : ~Conflicts(log[k].req, Assign(r).req)
  BY <1>1, <1>2, <1>3 DEF Retained
<1>6. PICK e : e = Assign(r)
  OBVIOUS
<1>7. Sequential(Append(log, e))
  BY <1>2, AppendType
<1>8. Timed(Append(log, e)) /\ NoConflicts(Append(log, e))
  BY <1>1, <1>2, <1>3, <1>4, <1>5, <1>6, TimedAppend, NoConflictsAppend
<1>9. log' = Append(log, e)
  BY <1>1, <1>6
<1>10. QED
  BY <1>1, <1>7, <1>8, <1>9 DEF LogKept

LEMMA ImportSubmits ==
  ASSUME [ImportNext]_allVars
  PROVE  \/ UNCHANGED log /\ (clock \in Clock => clock' \in Clock)
         \/ UNCHANGED manifests /\ \E v, r : AppendSubmission(v, r)
<1>1. ASSUME NEW i \in Invocations, ImportStep(i)
      PROVE  \/ UNCHANGED log /\ (clock \in Clock => clock' \in Clock)
             \/ UNCHANGED manifests /\ \E v, r : AppendSubmission(v, r)
  BY <1>1 DEF ImportStep, Deploy, OpenWriter, OpenRefused, PublishOne, PublishNext, PublishDone, PublishNothing,
       BeginPreparing, Prepare, PrepareRetained, PrepareRefused, Resume, SubmitNext, SubmitNew, SubmitRetried,
       SubmitRefused, SubmitSkewed, Finish, CheckCompletion, importVars, vars
<1>2. QED
  BY <1>1 DEF ImportNext, Dies, OtherAppends, OtherPublishes, PublishNext, ClockMoves, importVars, vars, allVars

LEMMA LogKeptNext == LogKept /\ [ImportNext]_allVars => LogKept'
<1>1. LogKept /\ UNCHANGED log /\ clock' \in Clock => LogKept'
  BY DEF LogKept
<1>2. QED
  BY <1>1, ImportSubmits, LogKeptAppend DEF LogKept

-----------------------------------------------------------------------------
\* All of l shows the associations of m, or will when the requests of m are committed.
Known(l, m) ==
  \A a \in m.associations : Linked(AllOf(l), a) \/ \E p \in 1..Len(m.requests) : Introduces(m.requests[p], a)

PlansKnown(l, ms) == \A run \in ImportRuns : \A m \in ms[run] : Known(l, m)

LEMMA KnownGrows ==
  ASSUME Grounded(log, view, progress), NEW e, log' = Append(log, e), Grounded(log', view', progress'), NEW m, Known(log, m)
  PROVE  Known(log', m)
<1>1. Sourced(AllOf(log), log, Len(log))
  BY GroundedFacts
<1>2. Carries(AllOf(log), AllOf(log'))
  BY AllOfGrows
<1>3. \A a : Linked(AllOf(log), a) => Linked(AllOf(log'), a)
  BY <1>1, <1>2, LinkedStays
<1>4. QED
  BY <1>3 DEF Known

\* What is planned relies on published associations only.
LEMMA PlanIsKnown ==
  ASSUME Grounded(log, view, progress), NEW i \in Invocations, RetentionSound(i.version), NEW m, PlanOf(i, m)
  PROVE  Known(log, m)
<1>1. PICK config \in Configs, n \in Serials :
        Loadable(config) /\ n \in Unused(i) /\ m = Planned(Minting(i, n), Loaded(config))
  BY DEF PlanOf
<1>2. NamesDistinct(Minting(i, n))
  BY MintingNames
<1>3. i.version \in Versions
  BY SelectionAssumption DEF ReportVersions, Versions
<1>4. \A a \in RetainedAssociations : Linked(view[i.version], a)
  BY AssociatedIsLinked DEF RetentionSound
<1>5. /\ Sourced(view[i.version], log, progress[i.version])
      /\ Carries(view[i.version], AllOf(log))
  BY <1>3, GroundedFacts
<1>6. \A a \in RetainedAssociations : Linked(AllOf(log), a)
  BY <1>4, <1>5, LinkedStays
<1>7. \A a \in m.associations : a \in RetainedAssociations \/ \E p \in 1..Len(m.requests) : Introduces(m.requests[p], a)
  BY <1>1, <1>2, PlanIntroduces
<1>8. QED
  BY <1>6, <1>7 DEF Known

LEMMA PlansKnownNext ==
  ASSUME Sessions, PlansSound, Grounded(log, view, progress), Grounded(log', view', progress'),
         PlansKnown(log, manifests), [ImportNext]_allVars
  PROVE  PlansKnown(log', manifests')
<1>1. ASSUME NEW i \in Invocations, Prepare(i) PROVE PlansKnown(log', manifests')
  <2>1. UNCHANGED log /\ RetentionSound(i.version)
    BY <1>1, PrepareRetains
  <2>2. PICK m : PlanOf(i, m) /\ manifests' = [manifests EXCEPT ![i.run] = {m}]
    BY <1>1, PrepareRetains
  <2>3. Known(log, m)
    BY <2>1, <2>2, PlanIsKnown
  <2>4. \A run \in ImportRuns : \A x \in manifests'[run] : x = m \/ x \in manifests[run]
    BY <2>2 DEF PlansSound
  <2>5. \A run \in ImportRuns : \A x \in manifests'[run] : Known(log, x)
    BY <2>3, <2>4 DEF PlansKnown
  <2>6. QED
    BY <2>1, <2>5 DEF PlansKnown
<1>2. ASSUME UNCHANGED manifests, NEW v, NEW r, AppendSubmission(v, r) PROVE PlansKnown(log', manifests')
  <2>1. PICK e : log' = Append(log, e)
    BY <1>2 DEF AppendSubmission, Insert
  <2>2. \A m : Known(log, m) => Known(log', m)
    BY <2>1, KnownGrows
  <2>3. QED
    BY <1>2, <2>2 DEF PlansKnown
<1>3. CASE UNCHANGED <<log, manifests>>
  BY <1>3 DEF PlansKnown
<1>4. UNCHANGED log => UNCHANGED manifests \/ \E i \in Invocations : Prepare(i)
  BY ImportWrites DEF ImportNext, Dies, SubmitNew, OtherAppends, OtherPublishes, ClockMoves, importVars, allVars
<1>5. QED
  BY <1>1, <1>2, <1>3, <1>4, ImportSubmits

-----------------------------------------------------------------------------
\* Entries up to the last are recorded by the cutoff.
Covered(l, asOf) == asOf \in Nat /\ \A k \in 1..Len(l) : l[k].recorded <= asOf

AllSubmitted(i) == \A m \in manifests[i.run] : Len(m.requests) < next[i]

\* An invocation that finishes has submitted everything, and publishes all of the log.
FinishingAt(i) ==
  /\ at[i] \in {"finishing", "checking"} => AllSubmitted(i)
  /\ at[i] = "finishing" => Covered(log, cutoff[i])
  /\ at[i] = "checking" => progress[i.version] = Len(log)
  /\ at[i] # "incomplete"

Finishing == DOMAIN cutoff = Invocations /\ \A i \in Invocations : FinishingAt(i)

\* While one works the others change nothing of what it works with.
LEMMA WorksAlone ==
  ASSUME Sessions, DOMAIN cutoff = Invocations, NEW i \in Invocations, at[i] \in Working, [ImportNext]_allVars
  PROVE  \/ ImportStep(i) \/ Dies(i)
         \/ /\ UNCHANGED <<log, progress, manifests>>
            /\ at'[i] = at[i] /\ next'[i] = next[i] /\ cutoff'[i] = cutoff[i]
<1>1. DOMAIN at = Invocations /\ DOMAIN next = Invocations /\ i \in owner
  BY DEF Sessions, LockHeld, NextCounts
<1>2. ASSUME NEW j \in Invocations, j # i PROVE at[j] \notin Working
  BY <1>1, <1>2 DEF Sessions, LockHeld, AtMostOne
<1>3. ASSUME NEW j \in Invocations, j # i, ImportStep(j)
      PROVE  UNCHANGED <<log, progress, manifests>> /\ at'[i] = at[i] /\ next'[i] = next[i] /\ cutoff'[i] = cutoff[i]
  <2>1. at[j] \notin Working /\ owner # {}
    BY <1>1, <1>2, <1>3
  <2>2. Deploy(j)
    BY <1>3, <2>1 DEF ImportStep, Deploy, OpenWriter, OpenRefused, PublishOne, PublishDone,
       BeginPreparing, Prepare, PrepareRetained, PrepareRefused, Resume, SubmitNext, SubmitNew, SubmitRetried,
       SubmitRefused, SubmitSkewed, Finish, CheckCompletion, Closes, Goes, Working
  <2>3. QED
    BY <1>1, <1>3, <2>2 DEF Deploy, Goes, vars
<1>4. ASSUME NEW j \in Invocations, j # i, Dies(j)
      PROVE  UNCHANGED <<log, progress, manifests>> /\ at'[i] = at[i] /\ next'[i] = next[i] /\ cutoff'[i] = cutoff[i]
  BY <1>1, <1>4 DEF Dies, Forgets, vars
<1>5. owner # {}
  BY <1>1
<1>6. QED
  BY <1>3, <1>4, <1>5 DEF ImportNext, OtherAppends, OtherPublishes, ClockMoves, importVars, vars, allVars

LEMMA LiveCovers == LogKept => Covered(log, LiveAsOf)
<1>1. SUFFICES ASSUME LogKept PROVE Covered(log, LiveAsOf)
  OBVIOUS
<1>2. Timed(log) /\ clock \in Nat /\ Len(log) \in Nat /\ (log = <<>> => Len(log) = 0)
  BY <1>1, SequentialType, ClockAssumption DEF LogKept, Clock
<1>3. CASE Len(log) = 0
  <2>1. log = <<>>
    BY <1>1, <1>3 DEF LogKept, Sequential
  <2>2. LiveAsOf = clock
    BY <2>1 DEF LiveAsOf
  <2>3. QED
    BY <1>2, <1>3, <2>2 DEF Covered
<1>4. CASE Len(log) # 0
  <2>1. Len(log) \in 1..Len(log) /\ log # <<>>
    BY <1>2, <1>4
  <2>2. /\ log[Len(log)].recorded \in Nat
        /\ \A k \in 1..Len(log) : log[k].recorded <= log[Len(log)].recorded /\ log[k].recorded \in Nat
    BY <1>2, <2>1 DEF Timed
  <2>3. LiveAsOf \in Nat /\ log[Len(log)].recorded <= LiveAsOf
    BY <1>2, <2>1, <2>2 DEF LiveAsOf
  <2>4. \A k \in 1..Len(log) : log[k].recorded <= LiveAsOf
    BY ONLY <2>2, <2>3
  <2>5. QED
    BY <2>3, <2>4 DEF Covered
<1>5. QED
  BY <1>3, <1>4

\* Nothing pending at a cutoff that covers the log: all of it is published.
LEMMA CoveredIsPublished ==
  ASSUME LogKept, NEW v \in Versions, progress[v] \in 0..Len(log), NEW asOf, Covered(log, asOf), PublishNothing(v, asOf)
  PROVE  progress[v] = Len(log)
<1>1. Len(log) \in Nat
  BY SequentialType DEF LogKept
<1>2. SUFFICES ASSUME progress[v] < Len(log) PROVE FALSE
  BY <1>1
<1>3. progress[v] + 1 \in 1..Len(log)
  BY <1>1, <1>2
<1>4. log[progress[v] + 1].recorded > asOf
  BY <1>2 DEF PublishNothing
<1>5. asOf \in Nat /\ log[progress[v] + 1].recorded <= asOf /\ log[progress[v] + 1].recorded \in Nat
  BY <1>3 DEF Covered, Timed, LogKept
<1>6. QED
  BY ONLY <1>4, <1>5

\* An invocation whose next step may disturb it: where it goes.
LEMMA FinishingSteps ==
  ASSUME Sessions, DOMAIN cutoff = Invocations, NEW i \in Invocations, ImportStep(i)
  PROVE  \/ Finish(i)
         \/ PublishDone(i) /\ at[i] = "finishing"
         \/ PublishOne(i) /\ at[i] = "finishing"
         \/ CheckCompletion(i)
         \/ at'[i] \notin {"finishing", "checking", "incomplete"}
<1>1. DOMAIN at = Invocations
  BY DEF Sessions, LockHeld
<1>2. ASSUME NEW from, NEW to, Goes(i, from, to) PROVE at'[i] = to
  BY <1>1, <1>2 DEF Goes
<1>3. CASE BeginPreparing(i)
  <2>1. at'[i] \in {"draining", "preparing"}
    BY <1>2, <1>3 DEF BeginPreparing
  <2>2. QED
    BY <2>1
<1>4. CASE PublishOne(i)
  BY <1>4 DEF PublishOne, importVars
<1>5. CASE PublishDone(i)
  BY <1>2, <1>5 DEF PublishDone, Goes
<1>6. QED
  BY <1>1, <1>2, <1>3, <1>4, <1>5
     DEF ImportStep, Deploy, OpenWriter, OpenRefused, Prepare, PrepareRetained, PrepareRefused, Resume, SubmitNext,
         SubmitNew, SubmitRetried, SubmitRefused, SubmitSkewed, Closes

\* All of the log is shown, all requests are in it: the import is complete.
LEMMA SubmittedIsComplete ==
  ASSUME Sessions, PlansSound, Submitted, LogKept, Grounded(log, view, progress), PlansKnown(log, manifests), Finishing,
         NEW i \in Invocations, at[i] = "checking", NEW m \in manifests[i.run]
  PROVE  Complete(i.version, m)
<1> DEFINE v == i.version
           s == view[v]
           n == Len(log)
<1>1. progress[v] = n /\ AllSubmitted(i)
  BY DEF Finishing, FinishingAt
<1>2. v \in Versions
  BY SelectionAssumption DEF ReportVersions, Versions
<1>3. s = AllOf(log) /\ Sourced(s, log, n) /\ n \in Nat
  BY <1>1, <1>2, GroundedFacts
<1> HIDE DEF s, n
<1>4. i.run \in ImportRuns
  BY DEF ImportRuns
<1>5. \A k \in 1..Len(m.requests) : InLog(m.requests[k])
  <2>1. FirstIn(m, next[i] - 1)
    BY DEF Submitted, SubmittedAt, Working
  <2>2. PICK x \in Nat : x = next[i]
    BY DEF Sessions, NextCounts
  <2>3. PlanSound(i.run, m)
    BY <1>4 DEF PlansSound
  <2>4. Len(m.requests) \in Nat
    BY <2>3, SequentialType DEF PlanSound
  <2>5. Len(m.requests) < x /\ FirstIn(m, x - 1)
    BY <1>1, <2>1, <2>2 DEF AllSubmitted
  <2>6. \A k \in 1..Len(m.requests) : k <= x - 1
    BY ONLY <2>2, <2>4, <2>5
  <2>7. QED
    BY <2>5, <2>6 DEF FirstIn
<1>6. ASSUME NEW a \in m.associations PROVE Associated(v, a)
  <2>1. Known(log, m)
    BY <1>4 DEF PlansKnown
  <2>2. CASE Linked(AllOf(log), a)
    BY <1>3, <2>2, AssociatedIsLinked DEF s
  <2>3. ASSUME NEW p \in 1..Len(m.requests), Introduces(m.requests[p], a) PROVE Associated(v, a)
    <3>1. PICK j \in 1..n : log[j].req = m.requests[p]
      BY <1>5 DEF InLog, n
    <3>2. Introduces(log[j].req, a)
      BY <2>3, <3>1
    <3>3. Linked(s, a)
      BY <1>3, <3>2, IntroducedIsLinked
    <3>4. QED
      BY <3>3, AssociatedIsLinked DEF s
  <2>4. QED
    BY <2>1, <2>2, <2>3 DEF Known
<1>7. ASSUME NEW k \in 1..Len(m.requests) PROVE Imported(v, m.requests[k])
  <2> DEFINE r == m.requests[k]
  <2>1. PICK j \in 1..n : log[j].req = r
    BY <1>5 DEF InLog, n
  <2>2. Committed(r)
    <3>1. DOMAIN log = 1..n
      BY SequentialType DEF LogKept, n
    <3>2. Conflicts(log[j].req, r)
      BY <2>1 DEF Conflicts
    <3>3. \A h \in 1..n : Conflicts(log[h].req, r) => h = j
      BY <2>1 DEF LogKept, NoConflicts, n
    <3>4. Retained(r) = {j}
      BY <3>1, <3>2, <3>3 DEF Retained
    <3>5. QED
      BY <2>1, <3>1, <3>4 DEF Committed
  <2>3. ASSUME NEW b \in DOMAIN r.body.claims
        PROVE  /\ r.body.claims[b].candidate \in DOMAIN s.candidates
               /\ s.candidates[r.body.claims[b].candidate].claim = r.body.claims[b]
               /\ s.candidates[r.body.claims[b].candidate].event = r.id
    <3>1. b \in DOMAIN log[j].req.body.claims
      BY <2>1, <2>3
    <3>2. /\ log[j].req.body.claims[b].candidate \in DOMAIN s.candidates
          /\ s.candidates[log[j].req.body.claims[b].candidate].claim = log[j].req.body.claims[b]
          /\ s.candidates[log[j].req.body.claims[b].candidate].event = log[j].req.id
      BY <1>3, <3>1 DEF Sourced, ClaimsSourced
    <3>3. QED
      BY ONLY <2>1, <3>2
  <2> HIDE DEF r
  <2>4. Imported(v, r)
    BY <2>2, <2>3 DEF Imported, s
  <2>5. QED
    BY <2>4 DEF r
<1>8. DOMAIN m.requests = 1..Len(m.requests)
  BY <1>4, SequentialType DEF PlansSound, PlanSound
<1>9. QED
  BY <1>1, <1>6, <1>7, <1>8 DEF Complete, n

\* What a work step of its own does to an invocation that finishes.
LEMMA FinishingOfOwn ==
  ASSUME Sessions, PlansSound, Submitted, LogKept, Grounded(log, view, progress), PlansKnown(log, manifests), Finishing,
         NEW i \in Invocations, ImportStep(i)
  PROVE  FinishingAt(i)'
<1>1. DOMAIN at = Invocations /\ DOMAIN cutoff = Invocations /\ FinishingAt(i) /\ i.version \in Versions
  BY SelectionAssumption DEF Sessions, LockHeld, Finishing, ReportVersions, Versions
<1>2. CASE Finish(i)
  <2>1. at'[i] = "finishing" /\ cutoff'[i] = LiveAsOf /\ UNCHANGED <<log, manifests, next>>
    BY <1>1, <1>2 DEF Finish, Goes, Samples, vars
  <2>2. Covered(log, LiveAsOf)
    BY LiveCovers
  <2>3. Covered(log, cutoff'[i])
    BY <2>1, <2>2
  <2>4. AllSubmitted(i)
    <3>1. \A m \in manifests[i.run] : ~(next[i] <= Len(m.requests))
      BY <1>2 DEF Finish, Due
    <3>2. \A m \in manifests[i.run] : Len(m.requests) \in Nat
      BY SequentialType DEF PlansSound, PlanSound, ImportRuns
    <3>3. next[i] \in Nat
      BY DEF Sessions, NextCounts
    <3>4. QED
      BY <3>1, <3>2, <3>3 DEF AllSubmitted
  <2>5. QED
    BY <2>1, <2>3, <2>4 DEF FinishingAt, AllSubmitted, Covered
<1>3. CASE PublishDone(i) /\ at[i] = "finishing"
  <2>1. at'[i] = "checking" /\ UNCHANGED <<log, progress, manifests, next>> /\ PublishNothing(i.version, cutoff[i])
    BY <1>1, <1>3 DEF PublishDone, Goes, PublishNothing
  <2>2. AllSubmitted(i) /\ Covered(log, cutoff[i])
    BY <1>1, <1>3 DEF FinishingAt
  <2>3. progress[i.version] \in 0..Len(log)
    BY <1>1 DEF Grounded, Shown
  <2>4. progress[i.version] = Len(log)
    BY <1>1, <2>1, <2>2, <2>3, CoveredIsPublished
  <2>5. QED
    BY <2>1, <2>2, <2>4 DEF FinishingAt, AllSubmitted
<1>4. CASE PublishOne(i) /\ at[i] = "finishing"
  <2>1. UNCHANGED <<log, at, cutoff, manifests, next>>
    BY <1>4 DEF PublishOne, PublishNext, importVars
  <2>2. AllSubmitted(i) /\ Covered(log, cutoff[i])
    BY <1>1, <1>4 DEF FinishingAt
  <2>3. QED
    BY <1>4, <2>1, <2>2 DEF FinishingAt, AllSubmitted, Covered
<1>5. CASE CheckCompletion(i)
  <2>1. PICK m \in manifests[i.run] :
          Closes(i, "checking", IF Complete(i.version, m) THEN "completed" ELSE "incomplete")
    BY <1>5 DEF CheckCompletion
  <2>2. at[i] = "checking"
    BY <2>1 DEF Closes, Goes
  <2>3. Complete(i.version, m)
    BY <2>2, SubmittedIsComplete
  <2>4. at'[i] = "completed"
    BY <1>1, <2>1, <2>3 DEF Closes, Goes
  <2>5. QED
    BY <2>4 DEF FinishingAt
<1>6. CASE at'[i] \notin {"finishing", "checking", "incomplete"}
  BY <1>6 DEF FinishingAt
<1>7. QED
  BY <1>1, <1>2, <1>3, <1>4, <1>5, <1>6, FinishingSteps

\* An invocation that waits stays where it is, or begins.
LEMMA WaitsAlone ==
  ASSUME Sessions, NEW i \in Invocations, at[i] \notin Working, at[i] # "incomplete", [ImportNext]_allVars
  PROVE  ImportStep(i) \/ at'[i] \notin {"finishing", "checking", "incomplete"}
<1>1. DOMAIN at = Invocations /\ at[i] \notin {"finishing", "checking", "incomplete"}
  BY DEF Sessions, LockHeld, Working
<1>2. ASSUME NEW j \in Invocations, j # i, ImportStep(j) PROVE at'[i] = at[i]
  BY <1>1, <1>2, ImportKinds DEF Deploy, OpenWriter, Inside, Leaves, Closes, Goes
<1>3. ASSUME NEW j \in Invocations, Dies(j) PROVE at'[i] = at[i] \/ at'[i] = "idle"
  BY <1>1, <1>3 DEF Dies
<1>4. QED
  BY <1>1, <1>2, <1>3 DEF ImportNext, OtherAppends, OtherPublishes, importVars, allVars

LEMMA FinishingNext ==
  ASSUME Sessions, PlansSound, Submitted, LogKept, Grounded(log, view, progress), PlansKnown(log, manifests), Finishing,
         [ImportNext]_allVars
  PROVE  Finishing'
<1>1. DOMAIN cutoff' = Invocations
  <2>1. DOMAIN cutoff = Invocations
    BY DEF Finishing
  <2>2. ASSUME NEW i \in Invocations, ImportStep(i) PROVE DOMAIN cutoff' = DOMAIN cutoff
    BY <2>2 DEF ImportStep, Deploy, OpenWriter, OpenRefused, PublishOne, PublishDone,
       BeginPreparing, Prepare, PrepareRetained, PrepareRefused, Resume, SubmitNext, SubmitNew, SubmitRetried,
       SubmitRefused, SubmitSkewed, Finish, CheckCompletion, Closes, Forgets, Samples, importVars
  <2>3. QED
    BY <2>1, <2>2 DEF ImportNext, Dies, Forgets, OtherAppends, OtherPublishes, importVars, allVars
<1>2. ASSUME NEW i \in Invocations PROVE FinishingAt(i)'
  <2>1. CASE ImportStep(i)
    BY <2>1, FinishingOfOwn
  <2>2. CASE Dies(i)
    BY <2>2 DEF Dies, FinishingAt, Sessions, LockHeld
  <2>3. CASE /\ UNCHANGED <<log, progress, manifests>>
             /\ at'[i] = at[i] /\ next'[i] = next[i] /\ cutoff'[i] = cutoff[i]
    BY <2>3 DEF Finishing, FinishingAt, AllSubmitted, Covered
  <2>4. CASE at'[i] \notin {"finishing", "checking", "incomplete"}
    BY <2>4 DEF FinishingAt
  <2>5. at[i] # "incomplete" /\ DOMAIN cutoff = Invocations
    BY DEF Finishing, FinishingAt
  <2>6. QED
    BY <2>1, <2>2, <2>3, <2>4, <2>5, WorksAlone, WaitsAlone
<1>3. QED
  BY <1>1, <1>2 DEF Finishing

CompleteInv ==
  /\ OrderInv
  /\ LogKept
  /\ Grounded(log, view, progress)
  /\ PlansFormed(manifests)
  /\ PlansKnown(log, manifests)
  /\ Finishing

LEMMA CompleteInvNext == CompleteInv /\ [ImportNext]_allVars => CompleteInv'
<1>1. SUFFICES ASSUME CompleteInv, [ImportNext]_allVars PROVE CompleteInv'
  OBVIOUS
<1>2. /\ OrderInv /\ LogKept /\ Grounded(log, view, progress) /\ PlansFormed(manifests) /\ PlansKnown(log, manifests)
      /\ Finishing /\ Sessions /\ PlansSound /\ Submitted
  BY <1>1 DEF CompleteInv, OrderInv
<1>3. OrderInv' /\ LogKept'
  BY <1>1, <1>2, OrderInvNext, LogKeptNext
<1>4. Grounded(log', view', progress') /\ PlansFormed(manifests')
  BY <1>1, <1>2, GroundedNext, PlansFormedNext
<1>5. PlansKnown(log', manifests')
  BY <1>1, <1>2, <1>4, PlansKnownNext
<1>6. Finishing'
  BY <1>1, <1>2, FinishingNext
<1>7. QED
  BY <1>3, <1>4, <1>5, <1>6 DEF CompleteInv

LEMMA CompleteInvInit == ImportInit => CompleteInv
<1>1. SUFFICES ASSUME ImportInit PROVE CompleteInv
  OBVIOUS
<1>2. Sequential(log) /\ 1..Len(log) = {} /\ log = <<>>
  BY <1>1, EmptyLog, SequentialType DEF ImportInit, Init
<1>3. LogKept
  BY <1>1, <1>2 DEF LogKept, Timed, NoConflicts, ImportInit, Init
<1>4. Grounded(log, view, progress)
  <2>1. /\ DOMAIN view = Versions /\ DOMAIN progress = Versions
        /\ \A v \in Versions : view[v] = EmptySnapshot /\ progress[v] = 0
    BY <1>1 DEF ImportInit, Init
  <2>2. Grounded(<<>>, view, progress)
    BY ONLY <2>1, NothingGrounded
  <2>3. QED
    BY ONLY <1>2, <2>2
<1>5. PlansFormed(manifests) /\ PlansKnown(log, manifests)
  BY <1>1 DEF ImportInit, PlansFormed, PlansKnown
<1>6. Finishing
  BY <1>1 DEF ImportInit, Finishing, FinishingAt
<1>7. QED
  BY <1>1, <1>3, <1>4, <1>5, <1>6, OrderInvInit DEF CompleteInv

\* An import that submitted all of its requests is never told it is incomplete:
\* SubmittedMeansComplete.
THEOREM ImportsComplete == ImportSpec => []SubmittedMeansComplete
<1>1. ImportInit => CompleteInv
  BY CompleteInvInit
<1>2. CompleteInv /\ [ImportNext]_allVars => CompleteInv'
  BY CompleteInvNext
<1>3. CompleteInv => SubmittedMeansComplete
  BY DEF CompleteInv, Finishing, FinishingAt, SubmittedMeansComplete
<1>4. QED
  BY <1>1, <1>2, <1>3, PTL DEF ImportSpec


-----------------------------------------------------------------------------
(***************************************************************************)
(* A log and its manifests.                                                *)
(***************************************************************************)
PlansOf(ms) ==
  /\ DOMAIN ms = ImportRuns
  /\ \A run \in ImportRuns :
       /\ AtMostOne(ms[run])
       /\ \A m \in ms[run] : PlanSound(run, m)

LEMMA PlansAreOf == PlansSound <=> PlansOf(manifests)
BY DEF PlansSound, PlansOf

\* r is the report mention that some manifest plans for its scope.
Bootstraps(ms, r) ==
  /\ IsReportOfMention(r)
  /\ \E run \in ImportRuns : \E m \in ms[run] : \E k \in 1..Len(m.requests) : r = m.requests[k]

\* A report mention is about the scope that its text names.
AboutItsText(r) == \A p \in r.report : p.scope = r.body.text

OnePlanned(ms) ==
  \A r, s : Bootstraps(ms, r) /\ Bootstraps(ms, s) /\ r.body.text = s.body.text => r = s

LoggedAsPlanned(l, ms) ==
  \A j \in 1..Len(l) : IsReportOfMention(l[j].req) =>
    /\ AboutItsText(l[j].req)
    /\ \A r : Bootstraps(ms, r) /\ r.body.text = l[j].req.body.text => l[j].req = r

OneLogged(l) ==
  \A j, k \in 1..Len(l) :
    IsReportOfMention(l[j].req) /\ IsReportOfMention(l[k].req) /\ l[j].req.body.text = l[k].req.body.text => j = k

\* A scope is given its mention once, in the log as in the manifests.
MentionsOnce(l, ms) == OnePlanned(ms) /\ LoggedAsPlanned(l, ms) /\ OneLogged(l)

Coherent(l, ms) == Sequential(l) /\ PlansOf(ms) /\ MentionsOnce(l, ms)

\* Where manifests are missing, nothing is said twice either.
LEMMA FewerPlans ==
  ASSUME NEW l, NEW ms, Coherent(l, ms), NEW ns, DOMAIN ns = ImportRuns,
         \A run \in ImportRuns : ns[run] \subseteq ms[run]
  PROVE  Coherent(l, ns)
<1>1. \A r : Bootstraps(ns, r) => Bootstraps(ms, r)
  BY DEF Bootstraps
<1>2. PlansOf(ns)
  BY DEF Coherent, PlansOf, AtMostOne
<1>3. OnePlanned(ns) /\ LoggedAsPlanned(l, ns) /\ OneLogged(l)
  BY <1>1 DEF Coherent, MentionsOnce, OnePlanned, LoggedAsPlanned
<1>4. QED
  BY <1>2, <1>3 DEF Coherent, MentionsOnce

LEMMA NothingIsCoherent ==
  ASSUME NEW ms, DOMAIN ms = ImportRuns, \A run \in ImportRuns : ms[run] = {}
  PROVE  Coherent(<<>>, ms)
<1>1. Sequential(<<>>) /\ Len(<<>>) = 0
  <2>1. <<>> \in Seq({}) /\ Len(<<>>) = 0
    OBVIOUS
  <2>2. QED
    BY <2>1 DEF Sequential
<1>2. \A r : ~Bootstraps(ms, r)
  BY DEF Bootstraps
<1>3. PlansOf(ms)
  BY DEF PlansOf, AtMostOne
<1>4. QED
  BY <1>1, <1>2, <1>3 DEF Coherent, MentionsOnce, OnePlanned, LoggedAsPlanned, OneLogged

\* What is appended is another producer's, or a planned mention not yet in the log.
LEMMA AppendedMention ==
  ASSUME NEW l, NEW ms, Coherent(l, ms), NEW e, \A k \in 1..Len(l) : l[k].req # e.req,
         IsReportOfMention(e.req) => Bootstraps(ms, e.req) /\ AboutItsText(e.req)
  PROVE  Coherent(Append(l, e), ms)
<1> DEFINE w == Append(l, e)
<1>1. OnePlanned(ms) /\ LoggedAsPlanned(l, ms) /\ OneLogged(l) /\ PlansOf(ms)
  BY DEF Coherent, MentionsOnce
<1>2. /\ Sequential(w) /\ Len(l) \in Nat /\ Len(w) = Len(l) + 1
      /\ \A k \in 1..Len(l) : w[k] = l[k]
      /\ w[Len(l) + 1] = e
  BY AppendType DEF Coherent
<1> HIDE DEF w
<1>3. ASSUME NEW j \in 1..Len(w), IsReportOfMention(w[j].req)
      PROVE  AboutItsText(w[j].req) /\ \A r : Bootstraps(ms, r) /\ r.body.text = w[j].req.body.text => w[j].req = r
  <2>1. CASE j \in 1..Len(l)
    BY <1>1, <1>2, <1>3, <2>1 DEF LoggedAsPlanned
  <2>2. CASE j = Len(l) + 1
    BY <1>1, <1>2, <1>3, <2>2 DEF OnePlanned
  <2>3. QED
    BY <1>2, <2>1, <2>2
<1>4. ASSUME NEW j \in 1..Len(l), IsReportOfMention(l[j].req), IsReportOfMention(e.req)
      PROVE  l[j].req.body.text # e.req.body.text
  BY <1>1, <1>4 DEF LoggedAsPlanned
<1>5. OneLogged(w)
  <2>1. SUFFICES ASSUME NEW j \in 1..Len(w), NEW k \in 1..Len(w), IsReportOfMention(w[j].req),
                        IsReportOfMention(w[k].req), w[j].req.body.text = w[k].req.body.text
                 PROVE  j = k
    BY DEF OneLogged
  <2>2. CASE j \in 1..Len(l) /\ k \in 1..Len(l)
    BY <1>1, <1>2, <2>1, <2>2 DEF OneLogged
  <2>3. CASE j \in 1..Len(l) /\ k = Len(l) + 1
    BY <1>2, <1>4, <2>1, <2>3
  <2>4. CASE j = Len(l) + 1 /\ k \in 1..Len(l)
    BY <1>2, <1>4, <2>1, <2>4
  <2>5. QED
    BY <1>2, <2>2, <2>3, <2>4
<1>6. LoggedAsPlanned(w, ms)
  BY <1>3 DEF LoggedAsPlanned
<1>7. QED
  BY <1>1, <1>2, <1>5, <1>6 DEF Coherent, MentionsOnce, w

\* ns plans what ms plans, and m.
Adds(ns, ms, m) ==
  \A r : Bootstraps(ns, r) => Bootstraps(ms, r) \/ \E k \in 1..Len(m.requests) : r = m.requests[k]

\* m bootstraps only scopes that neither l nor ms has, each once.
NewScopes(l, ms, m) ==
  \A k \in 1..Len(m.requests) : IsReportOfMention(m.requests[k]) =>
    /\ \A j \in 1..Len(m.requests) :
         IsReportOfMention(m.requests[j]) /\ m.requests[j].body.text = m.requests[k].body.text
         => m.requests[j] = m.requests[k]
    /\ \A r : Bootstraps(ms, r) => r.body.text # m.requests[k].body.text
    /\ \A j \in 1..Len(l) : IsReportOfMention(l[j].req) => l[j].req.body.text # m.requests[k].body.text

LEMMA PlannedMentions ==
  ASSUME NEW l, NEW ms, Coherent(l, ms), NEW ns, PlansOf(ns), NEW m, Adds(ns, ms, m), NewScopes(l, ms, m)
  PROVE  Coherent(l, ns)
<1>1. OnePlanned(ms) /\ LoggedAsPlanned(l, ms) /\ OneLogged(l) /\ Sequential(l)
  BY DEF Coherent, MentionsOnce
<1>2. \A r : Bootstraps(ns, r) => IsReportOfMention(r)
  BY DEF Bootstraps
<1>3. OnePlanned(ns)
  BY <1>1, <1>2 DEF OnePlanned, Adds, NewScopes
<1>4. LoggedAsPlanned(l, ns)
  BY <1>1, <1>2 DEF LoggedAsPlanned, Adds, NewScopes
<1>5. QED
  BY <1>1, <1>3, <1>4 DEF Coherent, MentionsOnce

-----------------------------------------------------------------------------
(***************************************************************************)
(* Imports keep them coherent.                                           *)
(***************************************************************************)
\* The mentions of a plan are those of fresh scopes.
LEMMA PlannedBoots ==
  ASSUME NEW i, NamesDistinct(i), NEW policy, NEW k \in 1..Len(Planned(i, policy).requests),
         IsReportOfMention(Planned(i, policy).requests[k])
  PROVE  \E j \in DOMAIN i.artifacts : FreshScope(i, j) /\ Planned(i, policy).requests[k] = Boot(i, policy, j)
<1>1. PlanPart(i, policy, Planned(i, policy).requests[k])
  BY PlanParts
<1>2. \A j : ~IsReportOfMention(Report(i, policy, j))
  BY PartIds DEF IsReportOfMention
<1>3. QED
  BY <1>1, <1>2 DEF PlanPart

LEMMA FreshBoots ==
  ASSUME NEW i, NamesDistinct(i), NEW policy, NEW j \in DOMAIN i.artifacts, FreshScope(i, j)
  PROVE  /\ Boot(i, policy, j).body.text = i.artifacts[j].scope
         /\ \A a \in RetainedAssociations : a.scope # Boot(i, policy, j).body.text
         /\ \A k \in DOMAIN i.artifacts : FreshScope(i, k) /\ i.artifacts[k].scope = i.artifacts[j].scope => j = k
<1>1. Boot(i, policy, j).body.text = i.artifacts[j].scope
  BY DEF Boot, BootstrapRequest
<1>2. \A a \in RetainedAssociations : a.scope # i.artifacts[j].scope
  BY AssociationFacts DEF FreshScope
<1>3. ASSUME NEW k \in DOMAIN i.artifacts, FreshScope(i, k), i.artifacts[k].scope = i.artifacts[j].scope
      PROVE  j = k
  <2>1. j \in Nat /\ k \in Nat /\ j >= 1 /\ k >= 1
    <3>1. DOMAIN i.artifacts = 1..Len(i.artifacts)
      BY DEF NamesDistinct
    <3>2. QED
      BY <3>1
  <2>2. ~(j < k) /\ ~(k < j)
    BY <1>3, <2>1 DEF FreshScope
  <2>3. QED
    BY <2>1, <2>2
<1>4. QED
  BY <1>1, <1>2, <1>3

\* What a retained plan bootstraps is one of its associations.
LEMMA BootstrapsAssociate ==
  ASSUME PlansSound, NEW r, Bootstraps(manifests, r)
  PROVE  Named(r) \in RetainedAssociations /\ AboutItsText(r)
<1>1. PICK run \in ImportRuns : \E m \in manifests[run] : \E k \in 1..Len(m.requests) : r = m.requests[k]
  BY DEF Bootstraps
<1>2. PICK m \in manifests[run] : \E k \in 1..Len(m.requests) : r = m.requests[k]
  BY <1>1
<1>3. MentionSound(m, r)
  BY <1>2 DEF PlansSound, PlanSound
<1>4. Named(r) \in m.associations /\ AboutItsText(r)
  BY <1>3 DEF MentionSound, Bootstraps, IsReportOfMention, AboutItsText
<1>5. QED
  BY <1>4 DEF RetainedAssociations, RetainedManifests

LEMMA PrepareCoherent ==
  ASSUME Sessions, Coherent(log, manifests), NEW i \in Invocations, Prepare(i), PlansSound'
  PROVE  Coherent(log, manifests')
<1>1. PlansSound
  BY PlansAreOf DEF Coherent
<1>2. PICK m : PlanOf(i, m) /\ manifests' = [manifests EXCEPT ![i.run] = {m}]
  BY <1>1, PrepareRetains
<1> DEFINE w(n) == Minting(i, n)
<1>3. PICK policy, n : m = Planned(w(n), policy)
  BY <1>2 DEF PlanOf
<1>4. NamesDistinct(w(n))
  BY MintingNames
<1>5. RetentionSound(i.version) /\ i.run \in ImportRuns /\ DOMAIN manifests = ImportRuns
  BY <1>1, PrepareRetains DEF PlansSound
<1>6. PlansOf(manifests')
  BY DEF PlansSound, PlansOf
<1>7. ASSUME NEW r, Bootstraps(manifests', r)
      PROVE  Bootstraps(manifests, r) \/ \E k \in 1..Len(m.requests) : r = m.requests[k]
  <2>1. PICK run \in ImportRuns : \E x \in manifests'[run] : \E k \in 1..Len(x.requests) : r = x.requests[k]
    BY <1>7 DEF Bootstraps
  <2>2. CASE run = i.run
    <3>1. manifests'[run] = {m}
      BY <1>2, <1>5, <2>2
    <3>2. QED
      BY <2>1, <3>1
  <2>3. CASE run # i.run
    <3>1. manifests'[run] = manifests[run]
      BY <1>2, <1>5, <2>3
    <3>2. QED
      BY <1>7, <2>1, <3>1 DEF Bootstraps
  <2>4. QED
    BY <2>2, <2>3
<1>8. ASSUME NEW k \in 1..Len(m.requests), IsReportOfMention(m.requests[k])
      PROVE  \E j \in DOMAIN w(n).artifacts : FreshScope(w(n), j) /\ m.requests[k] = Boot(w(n), policy, j)
  BY <1>8, <1>3, <1>4, PlannedBoots
<1> HIDE DEF w
<1>9. ASSUME NEW j \in 1..Len(m.requests), NEW k \in 1..Len(m.requests),
             IsReportOfMention(m.requests[j]), IsReportOfMention(m.requests[k]),
             m.requests[j].body.text = m.requests[k].body.text
      PROVE  m.requests[j] = m.requests[k]
  <2>1. PICK a \in DOMAIN w(n).artifacts : FreshScope(w(n), a) /\ m.requests[j] = Boot(w(n), policy, a)
    BY <1>8, <1>9
  <2>2. PICK b \in DOMAIN w(n).artifacts : FreshScope(w(n), b) /\ m.requests[k] = Boot(w(n), policy, b)
    BY <1>8, <1>9
  <2>3. w(n).artifacts[a].scope = w(n).artifacts[b].scope
    BY <1>9, <2>1, <2>2, <1>4, FreshBoots
  <2>4. a = b
    BY <2>1, <2>2, <2>3, <1>4, FreshBoots
  <2>5. QED
    BY <2>1, <2>2, <2>4
<1>10. ASSUME NEW k \in 1..Len(m.requests), IsReportOfMention(m.requests[k])
      PROVE  /\ \A r : Bootstraps(manifests, r) => r.body.text # m.requests[k].body.text
             /\ \A j \in 1..Len(log) : IsReportOfMention(log[j].req) =>
                  log[j].req.body.text # m.requests[k].body.text
  <2>1. PICK a \in DOMAIN w(n).artifacts : FreshScope(w(n), a) /\ m.requests[k] = Boot(w(n), policy, a)
    BY <1>8, <1>10
  <2>2. \A x \in RetainedAssociations : x.scope # m.requests[k].body.text
    BY <2>1, <1>4, FreshBoots
  <2>3. ASSUME NEW r, Bootstraps(manifests, r) PROVE r.body.text # m.requests[k].body.text
    <3>1. Named(r) \in RetainedAssociations /\ Named(r).scope = r.body.text
      BY <1>1, <2>3, BootstrapsAssociate DEF Named
    <3>2. QED
      BY <2>2, <3>1
  <2>4. ASSUME NEW j \in 1..Len(log), IsReportOfMention(log[j].req)
        PROVE  log[j].req.body.text # m.requests[k].body.text
    <3>1. PICK p \in log[j].req.report : p.scope = log[j].req.body.text
      BY <2>4 DEF Coherent, MentionsOnce, LoggedAsPlanned, AboutItsText, IsReportOfMention
    <3>2. j \in DOMAIN log
      BY SequentialType DEF Coherent
    <3>3. [scope |-> p.scope, mention |-> log[j].req.body.mention,
           subject |-> log[j].req.body.subject] \in RetainedAssociations
      BY <1>5, <2>4, <3>2 DEF RetentionSound, IsReportOfMention
    <3>4. QED
      BY <2>2, <3>1, <3>3
  <2>5. QED
    BY <2>3, <2>4
<1>11. Adds(manifests', manifests, m)
  BY <1>7 DEF Adds
<1>12. NewScopes(log, manifests, m)
  BY <1>9, <1>10 DEF NewScopes
<1>13. QED
  BY <1>6, <1>11, <1>12, PlannedMentions

LEMMA CoherentNext ==
  ASSUME Sessions, Coherent(log, manifests), [ImportNext]_allVars
  PROVE  Coherent(log', manifests')
<1>1. PlansSound
  BY PlansAreOf DEF Coherent
<1>2. PlansSound'
  BY <1>1, PlansSoundNext
<1>3. CASE UNCHANGED <<log, manifests>>
  BY <1>3
<1>4. ASSUME NEW i \in Invocations, Prepare(i) PROVE Coherent(log', manifests')
  BY <1>2, <1>4, PrepareCoherent DEF Prepare, vars
<1>5. ASSUME NEW r, Grows(r), Retained(r) = {}, UNCHANGED manifests,
             IsReportOfMention(r) => Bootstraps(manifests, r)
      PROVE  Coherent(log', manifests')
  <2>1. PICK e : log' = Append(log, e) /\ e.req = r
    BY <1>5 DEF Grows
  <2>2. \A k \in 1..Len(log) : log[k].req # e.req
    <3>1. \A k \in DOMAIN log : log[k].req # r
      BY <1>5 DEF Retained, Conflicts
    <3>2. QED
      BY <2>1, <3>1, SequentialType DEF Coherent
  <2>3. IsReportOfMention(e.req) => Bootstraps(manifests, e.req) /\ AboutItsText(e.req)
    BY <1>1, <1>5, <2>1, BootstrapsAssociate
  <2>4. Coherent(Append(log, e), manifests)
    BY <2>2, <2>3, AppendedMention
  <2>5. QED
    BY <1>5, <2>1, <2>4
<1>6. ASSUME NEW i \in Invocations, NEW r \in Due(i), IsReportOfMention(r) PROVE Bootstraps(manifests, r)
  <2>1. PICK m \in manifests[i.run] : next[i] \in 1..Len(m.requests) /\ r = m.requests[next[i]]
    BY <1>1, DueIsPlanned
  <2>2. i.run \in ImportRuns
    BY DEF ImportRuns
  <2>3. QED
    BY <1>6, <2>1, <2>2 DEF Bootstraps
<1>7. ASSUME NEW r \in Requests PROVE ~IsReportOfMention(r)
  BY ProducerAssumption DEF IsReportOfMention
<1>8. ASSUME NEW i \in Invocations, SubmitNew(i) PROVE UNCHANGED manifests
  BY <1>8 DEF SubmitNew
<1>9. CASE UNCHANGED log
  BY <1>3, <1>4, <1>9, ImportWrites
     DEF ImportNext, Dies, SubmitNew, OtherAppends, OtherPublishes, importVars, allVars
<1>10. QED
  BY <1>5, <1>6, <1>7, <1>8, <1>9, ImportAppends DEF importVars

-----------------------------------------------------------------------------
(***************************************************************************)
(* The backup.                                                             *)
(***************************************************************************)
\* The backup owns the store while it copies it.
BackupOwns ==
  /\ owner \subseteq Invocations \cup {BackupSession}
  /\ backup # "idle" => owner = {BackupSession} /\ bundle.seal = {}

\* A store without a sealed bundle was never lost, and its manifests are all there.
NeverLost == bundle.seal = {} => location = "present" /\ RecordedRetained

PolicyCovers ==
  backup # "idle" => \E config \in Configs :
    Loadable(config) /\ bundle.policy = {Loaded(config)} /\ HistoryDefined(Loaded(config))

\* What is copied is still what the store holds.
CopiesHold ==
  /\ backup = "copying" => bundle.store = {Database}
  /\ backup # "idle" => \A run \in bundle.copied : bundle.manifests[run] = manifests[run]

\* A sealed bundle passes the restore's checks and retains every subject of its log,
\* and it could have been a store.
BundleSound(b) ==
  /\ Restorable(b)
  /\ \A database \in b.store : \A k \in DOMAIN database.log :
       IsReportMention(database.log[k]) =>
         \E run \in ImportRuns : \E m \in b.manifests[run] : \E a \in m.associations :
           a.subject = database.log[k].req.body.subject
  /\ \A database \in b.store : Coherent(database.log, b.manifests)

SealedSound == bundle.seal # {} => BundleSound(bundle)

\* A lost store is empty, and a restore fills it with what the bundle holds.
Moved ==
  /\ location = "lost" => log = <<>> /\ \A run \in ImportRuns : manifests[run] = {}
  /\ location = "restoring" =>
       /\ \E database \in bundle.store : log = database.log
       /\ \A run \in ImportRuns : manifests[run] \in {{}, bundle.manifests[run]}

BundleType == DOMAIN bundle = {"store", "policy", "manifests", "copied", "seal"} /\ DOMAIN bundle.manifests = ImportRuns

BackupInv ==
  /\ Sessions
  /\ Coherent(log, manifests)
  /\ BundleType /\ BackupOwns /\ NeverLost /\ PolicyCovers /\ CopiesHold /\ SealedSound /\ Moved

\* Nobody else writes while the backup owns the store.
LEMMA LockedOut ==
  ASSUME Sessions, owner = {BackupSession}, ImportNext
  PROVE  UNCHANGED <<log, view, progress, latest, subjectOf, manifests, owner>>
<1>1. \A i \in Invocations : at[i] \notin Working /\ i \notin owner
  BY SessionAssumption DEF Sessions, LockHeld
<1>2. owner # {}
  OBVIOUS
<1>3. ASSUME NEW i \in Invocations, ImportStep(i) PROVE Deploy(i)
  BY <1>1, <1>2, <1>3
     DEF ImportStep, OpenWriter, OpenRefused, PublishOne, PublishDone, BeginPreparing, Prepare, PrepareRetained,
         PrepareRefused, Resume, SubmitNext, SubmitNew, SubmitRetried, SubmitRefused, SubmitSkewed, Finish,
         CheckCompletion, Closes, Goes, Working
<1>4. ASSUME NEW i \in Invocations, Deploy(i)
      PROVE  UNCHANGED <<log, view, progress, latest, subjectOf, manifests, owner>>
  BY <1>4 DEF Deploy, vars
<1>5. ASSUME NEW i \in Invocations, Dies(i)
      PROVE  UNCHANGED <<log, view, progress, latest, subjectOf, manifests, owner>>
  <2>1. owner \ {i} = owner
    BY <1>1
  <2>2. QED
    BY <1>5, <2>1 DEF Dies, vars
<1>6. QED
  BY <1>2, <1>3, <1>4, <1>5 DEF ImportNext, OtherAppends, OtherPublishes, ClockMoves, importVars

LEMMA ManifestsStay ==
  ASSUME Sessions, PlansSound, [ImportNext]_allVars
  PROVE  \A run \in ImportRuns : manifests[run] \subseteq manifests'[run]
<1>1. ASSUME NEW i \in Invocations, Prepare(i), NEW run \in ImportRuns
      PROVE  manifests[run] \subseteq manifests'[run]
  <2>1. PICK m : manifests' = [manifests EXCEPT ![i.run] = {m}]
    BY <1>1, PrepareRetains
  <2>2. manifests[i.run] = {} /\ DOMAIN manifests = ImportRuns
    BY <1>1, PrepareRetains DEF PlansSound
  <2>3. QED
    BY <2>1, <2>2
<1>2. QED
  BY <1>1, ImportWrites DEF ImportNext, Dies, SubmitNew, OtherAppends, OtherPublishes, importVars, allVars

\* An import, or nothing.
LEMMA ImportKeeps ==
  ASSUME BackupInv, (location = "present" /\ ImportNext /\ UNCHANGED backupVars) \/ UNCHANGED everyVar
  PROVE  BackupInv'
<1>1. /\ Sessions /\ Coherent(log, manifests) /\ BundleType /\ BackupOwns /\ NeverLost /\ PolicyCovers
      /\ CopiesHold /\ SealedSound /\ Moved
  BY DEF BackupInv
<1>2. PlansSound /\ Sequential(log)
  BY <1>1, PlansAreOf DEF Coherent
<1>3. UNCHANGED backupVars /\ [ImportNext]_allVars
  BY DEF backupVars, everyVar, allVars
<1>4. Sessions'
  BY <1>1, <1>3, SessionsNext
<1>5. Coherent(log', manifests')
  BY <1>1, <1>3, CoherentNext
<1>6. BundleType' /\ SealedSound'
  BY <1>1, <1>3 DEF backupVars, BundleType, SealedSound, BundleSound, Restorable
<1>7. backup # "idle" => UNCHANGED <<log, view, progress, latest, subjectOf, manifests, owner>>
  BY <1>1, LockedOut DEF BackupOwns, everyVar
<1>8. BackupOwns'
  <2>1. owner' \subseteq Invocations \cup {BackupSession}
    <3>1. ASSUME NEW i \in Invocations, ImportStep(i) PROVE owner' \subseteq owner \cup {i}
      BY <3>1, ImportKinds DEF Deploy, OpenWriter, Inside, Leaves, Closes
    <3>2. ASSUME NEW i \in Invocations, Dies(i) PROVE owner' \subseteq owner
      BY <3>2 DEF Dies
    <3>3. QED
      BY <1>1, <1>3, <3>1, <3>2 DEF BackupOwns, ImportNext, OtherAppends, OtherPublishes, importVars, allVars
  <2>2. QED
    BY <1>1, <1>3, <1>7, <2>1 DEF BackupOwns, backupVars
<1>9. NeverLost'
  <2>1. RecordedRetained => RecordedRetained'
    <3>1. RetainedAssociations \subseteq RetainedAssociations'
      BY <1>1, <1>2, <1>3, ManifestsStay DEF RetainedAssociations, RetainedManifests
    <3>2. QED
      BY <1>1, <1>2, <1>3, <3>1, MentionsAreRetained
  <2>2. QED
    BY <1>1, <1>3, <2>1 DEF NeverLost, backupVars
<1>10. PolicyCovers' /\ CopiesHold'
  BY <1>1, <1>3, <1>7 DEF PolicyCovers, CopiesHold, HistoryDefined, Database, backupVars
<1>11. Moved'
  BY <1>1, <1>3 DEF Moved, backupVars, everyVar
<1>12. QED
  BY <1>4, <1>5, <1>6, <1>8, <1>9, <1>10, <1>11 DEF BackupInv

LEMMA SessionsKeep ==
  ASSUME Sessions, UNCHANGED <<at, bound, next>>,
         \/ owner = {} /\ owner' = {BackupSession}
         \/ owner' = owner \ {BackupSession}
  PROVE  Sessions'
<1>1. LockHeld'
  BY SessionAssumption DEF Sessions, LockHeld, AtMostOne
<1>2. PolicyLoaded' /\ NextCounts'
  BY DEF Sessions, PolicyLoaded, NextCounts
<1>3. QED
  BY <1>1, <1>2 DEF Sessions

LEMMA OpenBackupKeeps ==
  ASSUME BackupInv, OpenBackup
  PROVE  BackupInv'
<1>1. PICK config \in Configs :
        Loadable(config) /\ HistoryDefined(config) /\ bundle' = [NoBundle EXCEPT !.policy = {Loaded(config)}]
  BY DEF OpenBackup
<1>2. /\ bundle'.policy = {Loaded(config)} /\ bundle'.seal = {} /\ bundle'.copied = {} /\ DOMAIN bundle'.manifests = ImportRuns
      /\ DOMAIN bundle' = {"store", "policy", "manifests", "copied", "seal"}
  BY <1>1 DEF NoBundle
<1>3. /\ owner = {} /\ owner' = {BackupSession} /\ backup' = "opened" /\ location = "present"
      /\ UNCHANGED <<log, manifests, at, bound, next, location>>
  BY DEF OpenBackup, BackupGoes, vars
<1>4. Sessions'
  BY <1>3, SessionsKeep DEF BackupInv
<1>5. Coherent(log', manifests')
  BY <1>3 DEF BackupInv
<1>6. RecordedRetained'
  BY <1>3 DEF OpenBackup, BackupInv, NeverLost, RecordedRetained, RetainedAssociations, RetainedManifests
<1>7. HistoryDefined(Loaded(config))'
  BY <1>1, <1>3 DEF HistoryDefined, Loaded
<1>8. BundleType' /\ BackupOwns' /\ SealedSound' /\ NeverLost'
  BY <1>2, <1>3, <1>6 DEF BundleType, BackupOwns, SealedSound, NeverLost
<1>9. PolicyCovers' /\ CopiesHold' /\ Moved'
  BY <1>1, <1>2, <1>3, <1>7 DEF PolicyCovers, CopiesHold, Moved
<1>10. QED
  BY <1>4, <1>5, <1>8, <1>9 DEF BackupInv

\* A copy, while the backup owns the store.
LEMMA CopyKeeps ==
  ASSUME BackupInv, CopyStore \/ \E run \in ImportRuns : CopyManifest(run)
  PROVE  BackupInv'
<1>1. /\ UNCHANGED <<log, view, progress, latest, subjectOf, manifests, at, owner, bound, next, location>>
      /\ backup # "idle" /\ backup' = "copying"
  BY DEF CopyStore, CopyManifest, BackupGoes, vars, importVars
<1>2. bundle.seal = {} /\ BundleType
  BY <1>1 DEF BackupInv, BackupOwns
<1>3. bundle'.seal = {} /\ bundle'.policy = bundle.policy /\ BundleType'
  BY <1>2 DEF CopyStore, CopyManifest, BundleType
<1>4. CopiesHold'
  <2>1. CASE CopyStore
    <3>1. bundle'.store = {Database} /\ bundle'.manifests = bundle.manifests /\ bundle'.copied = bundle.copied
      BY <1>2, <2>1 DEF CopyStore, BundleType
    <3>2. \A run \in bundle.copied : bundle.manifests[run] = manifests[run]
      BY <1>1 DEF BackupInv, CopiesHold
    <3>3. QED
      BY <1>1, <3>1, <3>2 DEF CopiesHold, Database
  <2>2. ASSUME NEW run \in ImportRuns, CopyManifest(run) PROVE CopiesHold'
    <3>1. /\ bundle'.store = bundle.store /\ bundle'.copied = bundle.copied \cup {run}
          /\ bundle'.manifests = [bundle.manifests EXCEPT ![run] = manifests[run]]
      BY <1>2, <2>2 DEF CopyManifest, BundleType
    <3>2. bundle.store = {Database} /\ \A x \in bundle.copied : bundle.manifests[x] = manifests[x]
      BY <2>2 DEF BackupInv, CopiesHold, CopyManifest, BackupGoes
    <3>3. \A x \in bundle'.copied : bundle'.manifests[x] = manifests[x]
      BY <1>2, <3>1, <3>2 DEF BundleType
    <3>4. QED
      BY <1>1, <3>1, <3>2, <3>3 DEF CopiesHold, Database
  <2>3. QED
    BY <2>1, <2>2
<1>5. Sessions' /\ Coherent(log', manifests')
  BY <1>1 DEF BackupInv, Sessions, LockHeld, PolicyLoaded, NextCounts
<1>6. BackupOwns' /\ SealedSound'
  BY <1>1, <1>3 DEF BackupInv, BackupOwns, SealedSound
<1>7. NeverLost' /\ Moved'
  BY <1>1, <1>2, <1>3 DEF BackupInv, NeverLost, RecordedRetained, RetainedAssociations, RetainedManifests, Moved
<1>8. PolicyCovers'
  BY <1>1, <1>3 DEF BackupInv, PolicyCovers, HistoryDefined
<1>9. QED
  BY <1>3, <1>4, <1>5, <1>6, <1>7, <1>8 DEF BackupInv

\* What is sealed was copied from one moment of a store that had all its manifests.
LEMMA SealIsSound ==
  ASSUME BackupInv, Seal
  PROVE  BundleSound(bundle')
<1>1. /\ Coherent(log, manifests) /\ BundleType /\ backup = "copying" /\ bundle.seal = {} /\ bundle.copied = ImportRuns
  BY DEF BackupInv, BackupOwns, Seal, BackupGoes
<1>2. /\ bundle'.store = {Database}
      /\ \A run \in ImportRuns : bundle.manifests[run] = manifests[run]
      /\ bundle'.manifests = bundle.manifests /\ bundle'.policy = bundle.policy
      /\ bundle'.seal = {SealNow(policy) : policy \in bundle.policy}
  BY <1>1 DEF BackupInv, CopiesHold, Seal, BundleType
<1>3. PICK config \in Configs : bundle.policy = {Loaded(config)} /\ HistoryDefined(Loaded(config))
  BY <1>1 DEF BackupInv, PolicyCovers
<1>4. Database.log = log /\ Database.progress = progress
  BY DEF Database
<1>5. Restorable(bundle')
  <2> DEFINE seal == SealNow(Loaded(config))
  <2>1. seal \in bundle'.seal
    BY <1>2, <1>3
  <2>2. /\ seal.definitions = Loaded(config).definitions
        /\ seal.tip = TipOf(log) /\ seal.progress = progress[BackupVersion]
    BY DEF SealNow, TipOf, TipHash
  <2>3. \A i \in DOMAIN log : \A p \in log[i].req.report : p.vocabulary \in Loaded(config).definitions
    BY <1>3 DEF HistoryDefined
  <2> HIDE DEF seal
  <2>4. QED
    BY <1>2, <1>3, <1>4, <2>1, <2>2, <2>3 DEF Restorable
<1>6. ASSUME NEW k \in DOMAIN log, IsReportMention(log[k])
      PROVE  \E run \in ImportRuns : \E m \in bundle'.manifests[run] : \E a \in m.associations :
               a.subject = log[k].req.body.subject
  <2>1. Named(log[k].req) \in RetainedAssociations
    BY <1>1, <1>6 DEF BackupInv, NeverLost, RecordedRetained, IsReportMention, IsReportOfMention
  <2>2. PICK run \in ImportRuns : \E m \in manifests[run] : Named(log[k].req) \in m.associations
    BY <2>1 DEF RetainedAssociations, RetainedManifests
  <2>3. Named(log[k].req).subject = log[k].req.body.subject
    BY DEF Named
  <2>4. QED
    BY <1>2, <2>2, <2>3
<1>7. Coherent(log, bundle'.manifests)
  <2>1. \A run \in ImportRuns : bundle'.manifests[run] \subseteq manifests[run]
    BY <1>2
  <2>2. DOMAIN bundle'.manifests = ImportRuns
    BY <1>1, <1>2 DEF BundleType
  <2>3. QED
    BY <1>1, <2>1, <2>2, FewerPlans
<1>8. QED
  BY <1>2, <1>4, <1>5, <1>6, <1>7 DEF BundleSound

LEMMA SealKeeps ==
  ASSUME BackupInv, Seal
  PROVE  BackupInv'
<1>1. /\ UNCHANGED <<log, manifests, at, bound, next, location>>
      /\ backup = "copying" /\ backup' = "idle" /\ owner' = owner \ {BackupSession}
      /\ bundle' = [bundle EXCEPT !.seal = {SealNow(policy) : policy \in bundle.policy}]
  BY DEF Seal, BackupGoes, vars
<1>2. Sessions'
  BY <1>1, SessionsKeep DEF BackupInv
<1>3. Coherent(log', manifests') /\ location' = "present"
  BY <1>1 DEF BackupInv, BackupOwns, NeverLost
<1>4. BundleType' /\ BackupOwns'
  BY <1>1 DEF BackupInv, BundleType, BackupOwns
<1>5. RecordedRetained'
  BY <1>1 DEF BackupInv, BackupOwns, NeverLost, RecordedRetained, RetainedAssociations, RetainedManifests
<1>6. SealedSound'
  BY SealIsSound DEF SealedSound
<1>7. NeverLost' /\ PolicyCovers' /\ CopiesHold' /\ Moved'
  BY <1>1, <1>3, <1>5 DEF NeverLost, PolicyCovers, CopiesHold, Moved
<1>8. QED
  BY <1>2, <1>3, <1>4, <1>6, <1>7 DEF BackupInv

LEMMA BackupDiesKeeps ==
  ASSUME BackupInv, BackupDies
  PROVE  BackupInv'
<1>1. /\ UNCHANGED <<log, manifests, at, bound, next, location, bundle>>
      /\ backup' = "idle" /\ owner' = owner \ {BackupSession}
  BY DEF BackupDies, vars
<1>2. Sessions'
  BY <1>1, SessionsKeep DEF BackupInv
<1>3. Coherent(log', manifests')
  BY <1>1 DEF BackupInv
<1>4. BundleType' /\ BackupOwns' /\ SealedSound'
  BY <1>1 DEF BackupInv, BundleType, BackupOwns, SealedSound
<1>5. NeverLost' /\ PolicyCovers' /\ CopiesHold' /\ Moved'
  BY <1>1 DEF BackupInv, NeverLost, RecordedRetained, RetainedAssociations, RetainedManifests,
              PolicyCovers, CopiesHold, Moved
<1>6. QED
  BY <1>2, <1>3, <1>4, <1>5 DEF BackupInv

-----------------------------------------------------------------------------
(***************************************************************************)
(* The restore.                                                            *)
(***************************************************************************)
LEMMA LoseKeeps ==
  ASSUME BackupInv, LoseStore
  PROVE  BackupInv'
<1>1. /\ log' = <<>> /\ manifests' = [run \in ImportRuns |-> {}] /\ owner' = {} /\ backup' = "idle"
      /\ bundle' = bundle /\ bundle.seal # {} /\ next' = next /\ location' = "lost"
      /\ bound' = [i \in Invocations |-> {}]
      /\ at' = [i \in Invocations |-> IF at[i] \in Ended THEN at[i] ELSE "idle"]
  BY DEF LoseStore
<1>2. \A i \in Invocations : at'[i] \notin Working \cup {"bound"}
  BY <1>1 DEF Ended, Working
<1>3. Sessions'
  BY <1>1, <1>2 DEF BackupInv, Sessions, LockHeld, PolicyLoaded, NextCounts, AtMostOne
<1>4. Coherent(log', manifests')
  <2>1. DOMAIN manifests' = ImportRuns /\ \A run \in ImportRuns : manifests'[run] = {}
    BY <1>1
  <2>2. QED
    BY <1>1, <2>1, NothingIsCoherent
<1>5. BundleType' /\ BackupOwns' /\ SealedSound'
  BY <1>1 DEF BackupInv, BundleType, BackupOwns, SealedSound
<1>6. NeverLost' /\ PolicyCovers' /\ CopiesHold' /\ Moved'
  BY <1>1 DEF NeverLost, PolicyCovers, CopiesHold, Moved
<1>7. QED
  BY <1>3, <1>4, <1>5, <1>6 DEF BackupInv

\* A restore that leaves the sessions alone and the store as some part of the bundle.
LEMMA RestoreKeeps ==
  ASSUME BackupInv, location # "present", UNCHANGED <<at, owner, bound, next, bundle, backup>>,
         Coherent(log', manifests'), Moved'
  PROVE  BackupInv'
<1>1. bundle.seal # {} /\ backup = "idle"
  BY DEF BackupInv, NeverLost, BackupOwns
<1>2. Sessions'
  BY DEF BackupInv, Sessions, LockHeld, PolicyLoaded, NextCounts
<1>3. BundleType' /\ BackupOwns' /\ SealedSound'
  BY DEF BackupInv, BundleType, BackupOwns, SealedSound
<1>4. NeverLost' /\ PolicyCovers' /\ CopiesHold'
  BY <1>1 DEF NeverLost, PolicyCovers, CopiesHold
<1>5. QED
  BY <1>2, <1>3, <1>4 DEF BackupInv

LEMMA RestoreStoreKeeps ==
  ASSUME BackupInv, RestoreStore
  PROVE  BackupInv'
<1>1. PICK database \in bundle.store : log' = database.log
  BY DEF RestoreStore
<1>2. /\ UNCHANGED <<at, owner, bound, next, bundle, backup, manifests>>
      /\ location = "lost" /\ location' = "restoring"
  BY DEF RestoreStore, importVars
<1>3. \A run \in ImportRuns : manifests[run] = {}
  BY <1>2 DEF BackupInv, Moved
<1>4. Coherent(database.log, bundle.manifests)
  BY <1>2 DEF BackupInv, NeverLost, SealedSound, BundleSound
<1>5. Coherent(log', manifests')
  <2>1. DOMAIN manifests = ImportRuns
    BY DEF BackupInv, Coherent, PlansOf
  <2>2. \A run \in ImportRuns : manifests[run] \subseteq bundle.manifests[run]
    BY <1>3
  <2>3. QED
    BY <1>1, <1>2, <1>4, <2>1, <2>2, FewerPlans
<1>6. Moved'
  BY <1>1, <1>2, <1>3 DEF Moved
<1>7. QED
  BY <1>2, <1>5, <1>6, RestoreKeeps

LEMMA RestoreManifestKeeps ==
  ASSUME BackupInv, NEW run \in ImportRuns, RestoreManifest(run)
  PROVE  BackupInv'
<1>1. /\ UNCHANGED <<at, owner, bound, next, bundle, backup, log, location>>
      /\ location = "restoring" /\ manifests' = [manifests EXCEPT ![run] = bundle.manifests[run]]
  BY DEF RestoreManifest, vars
<1>2. PICK database \in bundle.store : log = database.log
  BY <1>1 DEF BackupInv, Moved
<1>3. Coherent(database.log, bundle.manifests)
  BY <1>1 DEF BackupInv, NeverLost, SealedSound, BundleSound
<1>4. DOMAIN manifests = ImportRuns
  BY DEF BackupInv, Coherent, PlansOf
<1>5. \A x \in ImportRuns : manifests'[x] \in {{}, bundle.manifests[x]}
  BY <1>1, <1>4 DEF BackupInv, Moved
<1>6. Coherent(log', manifests')
  <2>1. DOMAIN manifests' = ImportRuns /\ \A x \in ImportRuns : manifests'[x] \subseteq bundle.manifests[x]
    BY <1>1, <1>4, <1>5
  <2>2. QED
    BY <1>1, <1>2, <1>3, <2>1, FewerPlans
<1>7. Moved'
  BY <1>1, <1>2, <1>5 DEF Moved
<1>8. QED
  BY <1>1, <1>6, <1>7, RestoreKeeps

LEMMA RestoreEndsKeeps ==
  ASSUME BackupInv, RestoreDone \/ RestoreDies
  PROVE  BackupInv'
<1>1. /\ UNCHANGED <<at, owner, bound, next, bundle, backup, log, manifests>>
      /\ location = "restoring" /\ location' = "present"
  BY DEF RestoreDone, RestoreDies, importVars, vars
<1>2. Coherent(log', manifests') /\ Moved'
  BY <1>1 DEF BackupInv, Moved
<1>3. QED
  BY <1>1, <1>2, RestoreKeeps

-----------------------------------------------------------------------------
(***************************************************************************)
(* Theorems.                                                               *)
(***************************************************************************)
LEMMA BackupInvInit == BackupInit => BackupInv
<1>1. SUFFICES ASSUME BackupInit PROVE BackupInv
  OBVIOUS
<1>2. ImportInit /\ bundle = NoBundle /\ backup = "idle" /\ location = "present"
  BY <1>1 DEF BackupInit
<1>3. SubjectInv
  BY <1>2, SubjectInvInit
<1>4. Coherent(log, manifests)
  <2>1. log = <<>> /\ DOMAIN manifests = ImportRuns /\ \A run \in ImportRuns : manifests[run] = {}
    BY <1>2 DEF ImportInit, Init
  <2>2. QED
    BY <2>1, NothingIsCoherent
<1>5. BundleType /\ BackupOwns /\ SealedSound
  BY <1>2, EmptyLog DEF BundleType, BackupOwns, SealedSound, NoBundle
<1>6. NeverLost /\ PolicyCovers /\ CopiesHold /\ Moved
  BY <1>2, <1>3 DEF NeverLost, PolicyCovers, CopiesHold, Moved, SubjectInv
<1>7. QED
  BY <1>3, <1>4, <1>5, <1>6 DEF BackupInv, SubjectInv

LEMMA BackupInvNext == BackupInv /\ [BackupNext]_everyVar => BackupInv'
<1>1. SUFFICES ASSUME BackupInv, [BackupNext]_everyVar PROVE BackupInv'
  OBVIOUS
<1>2. CASE (location = "present" /\ ImportNext /\ UNCHANGED backupVars) \/ UNCHANGED everyVar
  BY <1>1, <1>2, ImportKeeps
<1>3. CASE OpenBackup
  BY <1>1, <1>3, OpenBackupKeeps
<1>4. CASE CopyStore \/ \E run \in ImportRuns : CopyManifest(run)
  BY <1>1, <1>4, CopyKeeps
<1>5. CASE Seal
  BY <1>1, <1>5, SealKeeps
<1>6. CASE BackupDies
  BY <1>1, <1>6, BackupDiesKeeps
<1>7. CASE LoseStore
  BY <1>1, <1>7, LoseKeeps
<1>8. CASE RestoreStore
  BY <1>1, <1>8, RestoreStoreKeeps
<1>9. CASE \E run \in ImportRuns : RestoreManifest(run)
  BY <1>1, <1>9, RestoreManifestKeeps
<1>10. CASE RestoreDone \/ RestoreDies
  BY <1>1, <1>10, RestoreEndsKeeps
<1>11. QED
  BY <1>1, <1>2, <1>3, <1>4, <1>5, <1>6, <1>7, <1>8, <1>9, <1>10 DEF BackupNext

\* A sealed bundle passes the restore's own checks, and every subject that its log
\* has for a report scope is retained in its manifests.
THEOREM SealedBundlesRestore == BackupSpec => []SealedBundleRestores
<1>1. BackupInit => BackupInv
  BY BackupInvInit
<1>2. BackupInv /\ [BackupNext]_everyVar => BackupInv'
  BY BackupInvNext
<1>3. BackupInv => SealedBundleRestores
  BY DEF BackupInv, SealedSound, BundleSound, SealedBundleRestores
<1>4. QED
  BY <1>1, <1>2, <1>3, PTL DEF BackupSpec

LEMMA BackupInvSuffices == BackupInv => ScopeBootstrappedOnce
<1>1. SUFFICES ASSUME BackupInv PROVE ScopeBootstrappedOnce
  OBVIOUS
<1>2. OneLogged(log) /\ Sequential(log)
  BY <1>1 DEF BackupInv, Coherent, MentionsOnce
<1>3. DOMAIN log = 1..Len(log)
  BY <1>2, SequentialType
<1>4. QED
  BY <1>2, <1>3 DEF OneLogged, ScopeBootstrappedOnce, IsReportMention, IsReportOfMention

\* No scope gets a second subject, not even in a store that was lost and restored
\* from an older moment, or restored in part.
THEOREM ScopesBootstrapOnce == BackupSpec => []ScopeBootstrappedOnce
<1>1. BackupInit => BackupInv
  BY BackupInvInit
<1>2. BackupInv /\ [BackupNext]_everyVar => BackupInv'
  BY BackupInvNext
<1>3. BackupInv => ScopeBootstrappedOnce
  BY BackupInvSuffices
<1>4. QED
  BY <1>1, <1>2, <1>3, PTL DEF BackupSpec

-----------------------------------------------------------------------------
(***************************************************************************)
(* The order in which manifests are committed.                             *)
(***************************************************************************)
\* Every identifier is in the log once, and no manifest is committed out of order.
LoggedInOrder(l, ms) == UniqueIds(l) /\ InOrder(l, ms)

\* The store, and the store that a sealed bundle would restore, are in order.  Who
\* works had its store never lost: nobody works where there is none.
BackupOrder ==
  /\ LoggedInOrder(log, manifests)
  /\ Submitted
  /\ location # "present" => owner = {}
  /\ bundle.seal # {} => \A database \in bundle.store : LoggedInOrder(database.log, bundle.manifests)

LEMMA FewerInOrder ==
  ASSUME NEW l, NEW ms, LoggedInOrder(l, ms), NEW ns, \A run \in ImportRuns : ns[run] \subseteq ms[run]
  PROVE  LoggedInOrder(l, ns)
BY DEF LoggedInOrder, InOrder

LEMMA NothingInOrder ==
  ASSUME NEW ms, \A run \in ImportRuns : ms[run] = {}
  PROVE  LoggedInOrder(<<>>, ms)
<1>1. 1..Len(<<>>) = {}
  OBVIOUS
<1>2. UniqueIds(<<>>)
  BY <1>1 DEF UniqueIds
<1>3. QED
  BY <1>2 DEF LoggedInOrder, InOrder

LEMMA OrderOfImports ==
  ASSUME BackupInv, BackupOrder,
         (location = "present" /\ ImportNext /\ UNCHANGED backupVars) \/ UNCHANGED everyVar
  PROVE  BackupOrder'
<1>1. OrderInv
  BY PlansAreOf DEF BackupInv, Coherent, BackupOrder, LoggedInOrder, OrderInv
<1>2. UNCHANGED backupVars /\ [ImportNext]_allVars
  BY DEF backupVars, everyVar, allVars
<1>3. OrderInv'
  BY <1>1, <1>2, OrderInvNext
<1>4. LoggedInOrder(log', manifests') /\ Submitted'
  BY <1>3 DEF OrderInv, LoggedInOrder
<1>5. location' # "present" => owner' = {}
  BY DEF BackupOrder, backupVars, everyVar
<1>6. QED
  BY <1>2, <1>4, <1>5 DEF BackupOrder, backupVars

\* A step of the backup leaves the store and the imports where they are.
LEMMA OrderOfBackups ==
  ASSUME BackupInv, BackupOrder, UNCHANGED <<log, manifests, at, next, location>>,
         owner' \subseteq owner \/ location = "present",
         bundle'.seal = {} \/ bundle' = bundle \/ Seal
  PROVE  BackupOrder'
<1>1. LoggedInOrder(log', manifests') /\ LoggedInOrder(log, manifests)
  BY DEF BackupOrder
<1>2. Submitted'
  BY DEF BackupOrder, Submitted, SubmittedAt, FirstIn, InLog
<1>3. location' # "present" => owner' = {}
  BY DEF BackupOrder
<1>4. CASE Seal
  <2>1. bundle'.store = {Database} /\ \A run \in ImportRuns : bundle'.manifests[run] = manifests[run]
    BY <1>4 DEF Seal, BackupGoes, BackupInv, BackupOwns, CopiesHold, BundleType
  <2>2. Database.log = log
    BY DEF Database
  <2>3. LoggedInOrder(log, bundle'.manifests)
    BY <1>1, <2>1, FewerInOrder
  <2>4. QED
    BY <1>1, <1>2, <1>3, <2>1, <2>2, <2>3 DEF BackupOrder
<1>5. CASE bundle'.seal = {} \/ bundle' = bundle
  BY <1>1, <1>2, <1>3, <1>5 DEF BackupOrder
<1>6. QED
  BY <1>4, <1>5

\* Where nobody owns the store, nobody is in the middle of a submission.
LEMMA OrderOfRestores ==
  ASSUME BackupInv, BackupOrder, BackupInv', owner' = {}, UNCHANGED bundle, LoggedInOrder(log', manifests')
  PROVE  BackupOrder'
<1>1. Submitted'
  BY DEF BackupInv, Sessions, LockHeld, Submitted, SubmittedAt
<1>2. QED
  BY <1>1 DEF BackupOrder

LEMMA BackupOrderNext == BackupInv /\ BackupOrder /\ [BackupNext]_everyVar => BackupOrder'
<1>1. SUFFICES ASSUME BackupInv, BackupOrder, [BackupNext]_everyVar PROVE BackupOrder'
  OBVIOUS
<1>2. BackupInv'
  BY <1>1, BackupInvNext
<1>3. CASE (location = "present" /\ ImportNext /\ UNCHANGED backupVars) \/ UNCHANGED everyVar
  BY <1>1, <1>3, OrderOfImports
<1>4. CASE OpenBackup
  <2>1. UNCHANGED <<log, manifests, at, next, location>> /\ location = "present" /\ bundle'.seal = {}
    BY <1>4 DEF OpenBackup, NoBundle, vars
  <2>2. QED
    BY <1>1, <2>1, OrderOfBackups
<1>5. CASE CopyStore \/ \E run \in ImportRuns : CopyManifest(run)
  <2>1. UNCHANGED <<log, manifests, at, next, location, owner>> /\ backup # "idle"
    BY <1>5 DEF CopyStore, CopyManifest, BackupGoes, vars, importVars
  <2>2. bundle'.seal = {}
    BY <1>1, <1>5, <2>1 DEF BackupInv, BackupOwns, BundleType, CopyStore, CopyManifest
  <2>3. QED
    BY <1>1, <2>1, <2>2, OrderOfBackups
<1>6. CASE Seal \/ BackupDies
  <2>1. /\ UNCHANGED <<log, manifests, at, next, location>> /\ owner' \subseteq owner
        /\ bundle' = bundle \/ Seal
    BY <1>6 DEF Seal, BackupDies, vars
  <2>2. QED
    BY <1>1, <2>1, OrderOfBackups
<1>7. CASE LoseStore
  <2>1. /\ log' = <<>> /\ \A run \in ImportRuns : manifests'[run] = {}
        /\ owner' = {} /\ UNCHANGED bundle
    BY <1>7 DEF LoseStore
  <2>2. QED
    BY <1>1, <1>2, <2>1, NothingInOrder, OrderOfRestores
<1>8. CASE RestoreStore \/ (\E run \in ImportRuns : RestoreManifest(run)) \/ RestoreDone \/ RestoreDies
  <2>1. location # "present" /\ UNCHANGED <<owner, bundle>>
    BY <1>8 DEF RestoreStore, RestoreManifest, RestoreDone, RestoreDies, importVars
  <2>2. owner' = {} /\ bundle.seal # {}
    BY <1>1, <2>1 DEF BackupOrder, BackupInv, NeverLost
  <2>3. CASE RestoreStore
    <3>1. PICK database \in bundle.store : log' = database.log
      BY <2>3 DEF RestoreStore
    <3>2. \A run \in ImportRuns : manifests'[run] \subseteq bundle.manifests[run]
      BY <1>1, <2>3 DEF RestoreStore, importVars, BackupInv, Moved
    <3>3. LoggedInOrder(database.log, bundle.manifests)
      BY <1>1, <2>2 DEF BackupOrder
    <3>4. QED
      BY <1>1, <1>2, <2>1, <2>2, <3>1, <3>2, <3>3, FewerInOrder, OrderOfRestores
  <2>4. ASSUME NEW run \in ImportRuns, RestoreManifest(run) PROVE BackupOrder'
    <3>1. PICK database \in bundle.store : log = database.log
      BY <1>1, <2>4 DEF BackupInv, Moved, RestoreManifest
    <3>2. \A x \in ImportRuns : manifests'[x] \subseteq bundle.manifests[x]
      BY <1>1, <2>4 DEF RestoreManifest, BackupInv, Moved, Coherent, PlansOf
    <3>3. LoggedInOrder(database.log, bundle.manifests) /\ UNCHANGED log
      BY <1>1, <2>2, <2>4 DEF BackupOrder, RestoreManifest, vars
    <3>4. QED
      BY <1>1, <1>2, <2>1, <2>2, <3>1, <3>2, <3>3, FewerInOrder, OrderOfRestores
  <2>5. CASE RestoreDone \/ RestoreDies
    <3>1. UNCHANGED <<log, manifests>>
      BY <2>5 DEF RestoreDone, RestoreDies, vars, importVars
    <3>2. LoggedInOrder(log', manifests')
      BY <1>1, <3>1 DEF BackupOrder
    <3>3. QED
      BY <1>1, <1>2, <2>1, <2>2, <3>2, OrderOfRestores
  <2>6. QED
    BY <1>8, <2>3, <2>4, <2>5
<1>9. QED
  BY <1>1, <1>3, <1>4, <1>5, <1>6, <1>7, <1>8 DEF BackupNext

LEMMA BackupOrderInit == BackupInit => BackupOrder
<1>1. SUFFICES ASSUME BackupInit PROVE BackupOrder
  OBVIOUS
<1>2. OrderInv /\ location = "present" /\ bundle.seal = {}
  BY <1>1, OrderInvInit DEF BackupInit, NoBundle
<1>3. QED
  BY <1>2 DEF OrderInv, BackupOrder, LoggedInOrder

\* A manifest is committed from its first request on and in its order, without a gap
\* and without a repetition, also in a store that was lost and restored, with all of
\* its manifests or without some, and in which a lost run was planned again.
THEOREM RestoredManifestsCommitInOrder == BackupSpec => []RetainedInOrder
<1>1. BackupInit => BackupInv /\ BackupOrder
  BY BackupInvInit, BackupOrderInit
<1>2. BackupInv /\ BackupOrder /\ [BackupNext]_everyVar => (BackupInv /\ BackupOrder)'
  BY BackupInvNext, BackupOrderNext
<1>3. BackupInv /\ BackupOrder => RetainedInOrder
  BY PlansAreOf, OrderInvSuffices DEF BackupInv, Coherent, BackupOrder, LoggedInOrder, OrderInv
<1>4. QED
  BY <1>1, <1>2, <1>3, PTL DEF BackupSpec

-----------------------------------------------------------------------------
(***************************************************************************)
(* What was admitted can be read.                                          *)
(***************************************************************************)
StoreGrounded(b) == \A database \in b.store : Grounded(database.log, database.view, database.progress)

\* The views of the store show what its log holds, and so do those of any copy of it.
BackupRead ==
  /\ Grounded(log, view, progress)
  /\ PlansFormed(manifests)
  /\ StoreGrounded(bundle)
  /\ PlansFormed(bundle.manifests)

LEMMA ReadOfImports ==
  ASSUME BackupInv, BackupRead,
         (location = "present" /\ ImportNext /\ UNCHANGED backupVars) \/ UNCHANGED everyVar
  PROVE  BackupRead'
<1>1. Sessions /\ PlansSound
  BY PlansAreOf DEF BackupInv, Coherent
<1>2. UNCHANGED bundle /\ [ImportNext]_allVars
  BY DEF backupVars, everyVar, allVars
<1>3. Grounded(log, view, progress) /\ PlansFormed(manifests)
  BY DEF BackupRead
<1>4. PlansFormed(manifests')
  BY <1>1, <1>2, <1>3, PlansFormedNext
<1>5. Grounded(log', view', progress')
  BY <1>1, <1>2, <1>3, GroundedNext
<1>6. QED
  BY <1>2, <1>4, <1>5 DEF BackupRead, StoreGrounded

\* A step of the backup or of the restore only copies.
LEMMA CopyIsRead ==
  ASSUME BackupRead,
         \/ UNCHANGED <<log, view, progress>>
         \/ \E database \in bundle.store :
              log' = database.log /\ view' = database.view /\ progress' = database.progress
         \/ log' = <<>> /\ view' = [v \in Versions |-> EmptySnapshot] /\ progress' = [v \in Versions |-> 0],
         \A run \in ImportRuns : manifests'[run] \in {{}, manifests[run], bundle.manifests[run]},
         \A run \in ImportRuns : bundle'.manifests[run] \in {{}, manifests[run], bundle.manifests[run]},
         bundle'.store \in {{}, {Database}, bundle.store}
  PROVE  BackupRead'
<1>1. PlansFormed(manifests') /\ PlansFormed(bundle'.manifests)
  BY DEF BackupRead, PlansFormed
<1>2. Grounded(log', view', progress')
  <2>1. CASE UNCHANGED <<log, view, progress>>
    BY <2>1 DEF BackupRead
  <2>2. ASSUME NEW database \in bundle.store,
               log' = database.log /\ view' = database.view /\ progress' = database.progress
        PROVE  Grounded(log', view', progress')
    BY <2>2 DEF BackupRead, StoreGrounded
  <2>3. CASE log' = <<>> /\ view' = [v \in Versions |-> EmptySnapshot] /\ progress' = [v \in Versions |-> 0]
    <3> DEFINE vw == [v \in Versions |-> EmptySnapshot]
               pr == [v \in Versions |-> 0]
    <3>1. Grounded(<<>>, vw, pr)
      BY NothingGrounded
    <3>2. log' = <<>> /\ view' = vw /\ progress' = pr
      BY <2>3
    <3> HIDE DEF vw, pr
    <3>3. QED
      BY ONLY <3>1, <3>2
  <2>4. QED
    BY <2>1, <2>2, <2>3
<1>3. StoreGrounded(bundle')
  <2>1. Database.log = log /\ Database.view = view /\ Database.progress = progress
    BY DEF Database
  <2>2. StoreGrounded(bundle) /\ Grounded(log, view, progress)
    BY DEF BackupRead
  <2>3. ASSUME NEW database \in bundle'.store PROVE Grounded(database.log, database.view, database.progress)
    <3>1. database = Database \/ database \in bundle.store
      OBVIOUS
    <3>2. CASE database = Database
      BY <2>1, <2>2, <3>2
    <3>3. CASE database \in bundle.store
      BY <2>2, <3>3 DEF StoreGrounded
    <3>4. QED
      BY <3>1, <3>2, <3>3
  <2>4. QED
    BY <2>3 DEF StoreGrounded
<1>4. QED
  BY <1>1, <1>2, <1>3 DEF BackupRead

LEMMA BackupReadNext == BackupInv /\ BackupRead /\ [BackupNext]_everyVar => BackupRead'
<1>1. SUFFICES ASSUME BackupInv, BackupRead, [BackupNext]_everyVar PROVE BackupRead'
  OBVIOUS
<1>2. CASE (location = "present" /\ ImportNext /\ UNCHANGED backupVars) \/ UNCHANGED everyVar
  BY <1>1, <1>2, ReadOfImports
<1>3. DOMAIN bundle = {"store", "policy", "manifests", "copied", "seal"} /\ DOMAIN bundle.manifests = ImportRuns
  BY <1>1 DEF BackupInv, BundleType
<1>4. CASE OpenBackup
  <2>1. UNCHANGED <<log, view, progress, manifests>>
    BY <1>4 DEF OpenBackup, vars
  <2>2. bundle'.store = {} /\ \A run \in ImportRuns : bundle'.manifests[run] = {}
    BY <1>4 DEF OpenBackup, NoBundle
  <2>3. QED
    BY <1>1, <2>1, <2>2, CopyIsRead
<1>5. CASE CopyStore
  <2>1. UNCHANGED <<log, view, progress, manifests>>
    BY <1>5 DEF CopyStore, vars, importVars
  <2>2. bundle'.store = {Database} /\ bundle'.manifests = bundle.manifests
    BY <1>3, <1>5 DEF CopyStore
  <2>3. QED
    BY <1>1, <2>1, <2>2, CopyIsRead
<1>6. ASSUME NEW run \in ImportRuns, CopyManifest(run) PROVE BackupRead'
  <2>1. UNCHANGED <<log, view, progress, manifests>>
    BY <1>6 DEF CopyManifest, vars, importVars
  <2>2. bundle'.store = bundle.store /\ bundle'.manifests = [bundle.manifests EXCEPT ![run] = manifests[run]]
    BY <1>3, <1>6 DEF CopyManifest
  <2>3. \A x \in ImportRuns : bundle'.manifests[x] \in {manifests[x], bundle.manifests[x]}
    BY <1>3, <2>2
  <2>4. QED
    BY <1>1, <2>1, <2>2, <2>3, CopyIsRead
<1>7. CASE Seal \/ BackupDies
  <2>1. UNCHANGED <<log, view, progress, manifests>>
    BY <1>7 DEF Seal, BackupDies, vars
  <2>2. bundle'.store = bundle.store /\ bundle'.manifests = bundle.manifests
    BY <1>3, <1>7 DEF Seal, BackupDies
  <2>3. QED
    BY <1>1, <2>1, <2>2, CopyIsRead
<1>8. CASE LoseStore
  <2>1. /\ log' = <<>> /\ view' = [v \in Versions |-> EmptySnapshot] /\ progress' = [v \in Versions |-> 0]
        /\ UNCHANGED bundle /\ \A run \in ImportRuns : manifests'[run] = {}
    BY <1>8 DEF LoseStore
  <2>2. QED
    BY <1>1, <2>1, CopyIsRead
<1>9. CASE RestoreStore
  <2>1. UNCHANGED <<manifests, bundle>>
    BY <1>9 DEF RestoreStore, importVars
  <2>2. \E database \in bundle.store :
          log' = database.log /\ view' = database.view /\ progress' = database.progress
    BY <1>9 DEF RestoreStore
  <2>3. QED
    BY <1>1, <2>1, <2>2, CopyIsRead
<1>10. ASSUME NEW run \in ImportRuns, RestoreManifest(run) PROVE BackupRead'
  <2>1. UNCHANGED <<log, view, progress, bundle>> /\ manifests' = [manifests EXCEPT ![run] = bundle.manifests[run]]
    BY <1>10 DEF RestoreManifest, vars
  <2>2. \A x \in ImportRuns : manifests'[x] \in {manifests[x], bundle.manifests[x]}
    BY <1>1, <2>1 DEF BackupInv, Coherent, PlansOf
  <2>3. QED
    BY <1>1, <2>1, <2>2, CopyIsRead
<1>11. CASE RestoreDone \/ RestoreDies
  <2>1. UNCHANGED <<log, view, progress, manifests, bundle>>
    BY <1>11 DEF RestoreDone, RestoreDies, vars, importVars
  <2>2. QED
    BY <1>1, <2>1, CopyIsRead
<1>12. QED
  BY <1>1, <1>2, <1>4, <1>5, <1>6, <1>7, <1>8, <1>9, <1>10, <1>11 DEF BackupNext

LEMMA GroundedInit == Init => Grounded(log, view, progress)
<1>1. SUFFICES ASSUME Init PROVE Grounded(log, view, progress)
  OBVIOUS
<1>2. /\ log = <<>> /\ DOMAIN view = Versions /\ DOMAIN progress = Versions
      /\ \A v \in Versions : view[v] = EmptySnapshot /\ progress[v] = 0
  BY <1>1 DEF Init
<1>3. Grounded(<<>>, view, progress)
  BY ONLY <1>2, NothingGrounded
<1>4. QED
  BY ONLY <1>2, <1>3

LEMMA BackupReadInit == BackupInit => BackupRead
<1>1. SUFFICES ASSUME BackupInit PROVE BackupRead
  OBVIOUS
<1>2. Grounded(log, view, progress)
  BY <1>1, GroundedInit DEF BackupInit, ImportInit
<1>3. PlansFormed(manifests) /\ PlansFormed(bundle.manifests) /\ bundle.store = {}
  BY <1>1 DEF BackupInit, ImportInit, NoBundle, PlansFormed
<1>4. QED
  BY <1>2, <1>3 DEF BackupRead, StoreGrounded

\* Every report that was admitted and published can be read with its details, whoever
\* imported it, also in a store that was lost and restored: ReportsReadable.
THEOREM AdmittedReportsReadable == BackupSpec => []ReportsReadable
<1>1. BackupInit => BackupInv /\ BackupRead
  BY BackupInvInit, BackupReadInit
<1>2. BackupInv /\ BackupRead /\ [BackupNext]_everyVar => (BackupInv /\ BackupRead)'
  BY BackupInvNext, BackupReadNext
<1>3. BackupRead => ReportsReadable
  BY GroundedReadable DEF BackupRead
<1>4. QED
  BY <1>1, <1>2, <1>3, PTL DEF BackupSpec
=============================================================================
