---------------------------- MODULE CommittedProofs ----------------------------
(***************************************************************************)
(* The Merkle trees of a projector can always be read, and are an          *)
(* implementation of its record tables: RootsReachTheirNodes and           *)
(* TreesImplementLedger, for every set of requests whose keys have routes  *)
(* of their own and for both tree-backed projectors.                       *)
(*                                                                         *)
(* First, putting rows into the tree of a map gives the tree of the map    *)
(* with those rows, and reports every node that is new (PutsAll).  Then,   *)
(* what an admitted event writes has keys that fit the trees               *)
(* (AdmittedFits), and a delta put into the trees that stand for some      *)
(* tables makes them stand for the tables it is published on               *)
(* (CommittedHolds).  The invariant CommittedInv says that the trees stand *)
(* for the replay of the log and reach stored nodes only.                  *)
(***************************************************************************)
EXTENDS CommittedStore, MerkleProofs, ReducerProofs, FiniteSetTheorems

-----------------------------------------------------------------------------
(***************************************************************************)
(* Many records put into one tree.                                         *)
(***************************************************************************)
\* The records left to put when the keys S are.
Rest(S) == S \ {CHOOSE k \in S : TRUE}

\* All of the records S of rows put into t, given the result for all but one.
PutAt1(before, t, rows, S) ==
  LET k == CHOOSE k \in S : TRUE
  IN  IF S = {} THEN Unchanged(t) ELSE After(Put(before.tree, k, rows[k]), before)

\* f is the recursion of PutAll.
IsPutAll(f, t, rows) == f = [S \in SUBSET DOMAIN rows |-> PutAt1(f[Rest(S)], t, rows, S)]

PutAlls(t, rows) == CHOOSE f : IsPutAll(f, t, rows)

LEMMA PutAllIs ==
  ASSUME NEW t, NEW rows
  PROVE  PutAll(t, rows) = PutAlls(t, rows)[DOMAIN rows]
BY DEF PutAll, PutAlls, IsPutAll, PutAt1, Rest

\* Putting fewer records comes first.
LEMMA RestLess ==
  ASSUME NEW S, IsFiniteSet(S), S # {}
  PROVE  /\ Rest(S) \in SUBSET S /\ IsFiniteSet(Rest(S))
         /\ (CHOOSE k \in S : TRUE) \in S
         /\ Cardinality(S) \in Nat /\ Cardinality(Rest(S)) \in Nat
         /\ Cardinality(Rest(S)) < Cardinality(S)
<1> DEFINE k == CHOOSE k \in S : TRUE
<1>1. k \in S
  OBVIOUS
<1>2. Rest(S) \in SUBSET S
  BY DEF Rest
<1> HIDE DEF k
<1>3. Rest(S) = S \ {k}
  BY DEF Rest, k
<1>4. IsFiniteSet(S \ {k}) /\ Cardinality(S \ {k}) = Cardinality(S) - 1
  BY <1>1, FS_RemoveElement
<1>5. Cardinality(S) \in Nat /\ Cardinality(S \ {k}) \in Nat
  BY <1>4, FS_CardinalityType
<1>6. QED
  BY <1>1, <1>2, <1>3, <1>4, <1>5 DEF k

\* f follows the recursion for fewer than n records.
PutAllUpTo(f, t, rows, n) ==
  \A S \in SUBSET DOMAIN rows : Cardinality(S) < n => f[S] = PutAt1(f[Rest(S)], t, rows, S)

LEMMA PutAllExists ==
  ASSUME NEW t, NEW rows, IsFiniteSet(DOMAIN rows)
  PROVE  \E f : IsPutAll(f, t, rows)
<1> DEFINE All == SUBSET DOMAIN rows
           Bad == {n \in Nat : ~\E f : PutAllUpTo(f, t, rows, n)}
<1>1. ASSUME NEW S \in All PROVE IsFiniteSet(S) /\ Cardinality(S) \in Nat /\ Rest(S) \in All
  <2>1. IsFiniteSet(S)
    BY FS_Subset
  <2>2. QED
    BY <2>1, FS_CardinalityType DEF Rest
<1>2. ASSUME NEW S \in All, S # {}
      PROVE  Cardinality(Rest(S)) \in Nat /\ Cardinality(Rest(S)) < Cardinality(S)
  BY <1>1, <1>2, RestLess
<1>3. Bad = {}
  <2>1. SUFFICES ASSUME Bad # {} PROVE FALSE
    OBVIOUS
  <2>2. PICK n \in Bad : \A k \in Bad : ~(k < n)
    <3>1. Bad \in SUBSET Nat
      OBVIOUS
    <3> HIDE DEF Bad
    <3>2. QED
      BY <2>1, <3>1, Smallest
  <2>3. n # 0
    <3>1. PutAllUpTo([S \in All |-> 0], t, rows, 0)
      BY <1>1 DEF PutAllUpTo
    <3>2. QED
      BY <3>1
  <2>4. n - 1 \in Nat /\ n - 1 \notin Bad /\ n \in Nat
    BY <2>2, <2>3
  <2>5. PICK f : PutAllUpTo(f, t, rows, n - 1)
    BY <2>4
  <2> DEFINE g == [S \in All |-> PutAt1(f[Rest(S)], t, rows, S)]
  <2>6. ASSUME NEW S \in All, Cardinality(S) < n - 1 PROVE f[S] = g[S]
    BY <2>5, <2>6 DEF PutAllUpTo
  <2>7. ASSUME NEW S \in All, Cardinality(S) < n PROVE g[S] = PutAt1(g[Rest(S)], t, rows, S)
    <3>1. g[S] = PutAt1(f[Rest(S)], t, rows, S)
      OBVIOUS
    <3> HIDE DEF g
    <3>2. CASE S = {}
      BY <3>1, <3>2 DEF PutAt1
    <3>3. CASE S # {}
      <4>1. Rest(S) \in All /\ Cardinality(Rest(S)) \in Nat /\ Cardinality(S) \in Nat
        BY <1>1
      <4>2. Cardinality(Rest(S)) < n - 1
        BY <1>2, <2>4, <2>7, <3>3, <4>1
      <4>3. QED
        BY <2>6, <3>1, <4>1, <4>2
    <3>4. QED
      BY <3>2, <3>3
  <2>8. PutAllUpTo(g, t, rows, n)
    <3> HIDE DEF g
    <3> QED BY <2>7 DEF PutAllUpTo
  <2>9. QED
    BY <2>8
<1>4. Cardinality(DOMAIN rows) \in Nat
  BY FS_CardinalityType
<1>5. PICK f : PutAllUpTo(f, t, rows, Cardinality(DOMAIN rows) + 1)
  BY <1>3, <1>4
<1>6. ASSUME NEW S \in All PROVE Cardinality(S) < Cardinality(DOMAIN rows) + 1
  <2>1. Cardinality(S) <= Cardinality(DOMAIN rows) /\ Cardinality(S) \in Nat
    BY FS_Subset, <1>1
  <2>2. QED
    BY <1>4, <2>1
<1> DEFINE g == [S \in All |-> PutAt1(f[Rest(S)], t, rows, S)]
<1>7. ASSUME NEW S \in All PROVE f[S] = g[S]
  BY <1>5, <1>6 DEF PutAllUpTo
<1>8. ASSUME NEW S \in All PROVE g[S] = PutAt1(g[Rest(S)], t, rows, S)
  <2>1. g[S] = PutAt1(f[Rest(S)], t, rows, S)
    OBVIOUS
  <2> HIDE DEF g
  <2>2. QED
    BY <1>1, <1>7, <2>1
<1>9. IsPutAll(g, t, rows)
  <2>1. g = [S \in All |-> g[S]]
    OBVIOUS
  <2> HIDE DEF g
  <2>2. QED
    BY <1>8, <2>1 DEF IsPutAll
<1>10. QED
  BY <1>9

\* The map m with the rows of S.
Filled(rows, S, m) == Upsert(Restricted(rows, S), m)

\* What putting the records S of rows into the tree of m comes to.
PutSome(x, rows, S, K, m) ==
  /\ MapOn(K, Filled(rows, S, m))
  /\ x.tree = TreeOf(Filled(rows, S, m))
  /\ Nodes(x.tree) \subseteq Nodes(TreeOf(m)) \cup x.written

LEMMA FilledNone ==
  ASSUME NEW K, NEW m, MapOn(K, m), NEW rows
  PROVE  Filled(rows, {}, m) = m
<1>1. m = [k \in DOMAIN m |-> m[k]]
  BY DEF MapOn
<1>2. Filled(rows, {}, m) = [k \in DOMAIN m |-> m[k]]
  BY DEF Filled, Upsert, Restricted
<1>3. QED
  BY <1>1, <1>2

LEMMA FilledOne ==
  ASSUME NEW m, NEW rows, NEW S, NEW k \in S
  PROVE  Filled(rows, S, m) = Stored(Filled(rows, S \ {k}, m), k, rows[k])
<1> DEFINE b == Filled(rows, S \ {k}, m)
<1>1. /\ DOMAIN b = (S \ {k}) \cup DOMAIN m
      /\ \A j \in S \ {k} : b[j] = rows[j]
      /\ \A j \in DOMAIN m : j \notin S \ {k} => b[j] = m[j]
  BY DEF Filled, Upsert, Restricted
<1>2. Filled(rows, S, m) = [j \in S \cup DOMAIN m |-> IF j \in S THEN rows[j] ELSE m[j]]
  BY DEF Filled, Upsert, Restricted
<1> HIDE DEF b
<1>3. Stored(b, k, rows[k]) = [j \in S \cup DOMAIN m |-> IF j = k THEN rows[k] ELSE b[j]]
  <2>1. DOMAIN b \cup {k} = S \cup DOMAIN m
    BY <1>1
  <2>2. QED
    BY <2>1 DEF Stored
<1>4. \A j \in S \cup DOMAIN m : (IF j \in S THEN rows[j] ELSE m[j]) = (IF j = k THEN rows[k] ELSE b[j])
  BY <1>1
<1>5. QED
  BY <1>2, <1>3, <1>4 DEF b

LEMMA PutsSome ==
  ASSUME NEW K, Routable(K), NEW m, MapOn(K, m), NEW rows, DOMAIN rows \in SUBSET K,
         IsFiniteSet(DOMAIN rows)
  PROVE  \A S \in SUBSET DOMAIN rows : PutSome(PutAlls(TreeOf(m), rows)[S], rows, S, K, m)
<1> DEFINE t == TreeOf(m)
           f == PutAlls(t, rows)
           All == SUBSET DOMAIN rows
<1>1. IsPutAll(f, t, rows)
  BY PutAllExists DEF PutAlls
<1> HIDE DEF f
<1>2. ASSUME NEW S \in All PROVE f[S] = PutAt1(f[Rest(S)], t, rows, S)
  BY <1>1 DEF IsPutAll
<1>3. ASSUME NEW S \in All PROVE IsFiniteSet(S) /\ Cardinality(S) \in Nat
  BY FS_Subset, FS_CardinalityType
<1> DEFINE Bad == {n \in Nat : \E S \in All : Cardinality(S) = n /\ ~PutSome(f[S], rows, S, K, m)}
<1>4. SUFFICES ASSUME Bad # {} PROVE FALSE
  BY <1>3 DEF f
<1>5. PICK n \in Bad : \A k \in Bad : ~(k < n)
  <2>1. Bad \in SUBSET Nat
    OBVIOUS
  <2> HIDE DEF Bad
  <2>2. QED
    BY <1>4, <2>1, Smallest
<1>6. PICK S \in All : Cardinality(S) = n /\ ~PutSome(f[S], rows, S, K, m)
  BY <1>5
<1>7. CASE S = {}
  <2>1. f[S] = Unchanged(t)
    BY <1>2, <1>7 DEF PutAt1
  <2>2. Filled(rows, S, m) = m
    BY <1>7, FilledNone
  <2>3. QED
    BY <1>6, <2>1, <2>2 DEF PutSome, Unchanged, t
<1>8. CASE S # {}
  <2> DEFINE R == Rest(S)
             k == CHOOSE k \in S : TRUE
             w == Filled(rows, R, m)
  <2>1. /\ R \in All /\ k \in S /\ R = S \ {k}
        /\ Cardinality(R) \in Nat /\ Cardinality(R) < n
    BY <1>3, <1>6, <1>8, RestLess DEF Rest
  <2>2. f[S] = After(Put(f[R].tree, k, rows[k]), f[R])
    BY <1>2, <1>8 DEF PutAt1
  <2> HIDE DEF R, k
  <2>3. PutSome(f[R], rows, R, K, m)
    BY <1>5, <2>1
  <2>4. MapOn(K, w) /\ f[R].tree = TreeOf(w) /\ Nodes(TreeOf(w)) \subseteq Nodes(t) \cup f[R].written
    BY <2>3 DEF PutSome, t
  <2>5. Filled(rows, S, m) = Stored(w, k, rows[k])
    BY <2>1, FilledOne
  <2>6. k \in K
    BY <2>1
  <2> HIDE DEF w, t
  <2>7. MapOn(K, Stored(w, k, rows[k])) /\ Wrote(Put(TreeOf(w), k, rows[k]), TreeOf(w), TreeOf(Stored(w, k, rows[k])))
    BY <2>4, <2>6, PutWrites
  <2>8. /\ f[S].tree = TreeOf(Stored(w, k, rows[k]))
        /\ f[S].written = f[R].written \cup Put(TreeOf(w), k, rows[k]).written
    BY <2>2, <2>4, <2>7 DEF After, Wrote
  <2>9. Nodes(f[S].tree) \subseteq Nodes(t) \cup f[S].written
    BY <2>4, <2>7, <2>8 DEF Wrote
  <2>10. QED
    BY <1>6, <2>5, <2>7, <2>8, <2>9 DEF PutSome, t
<1>9. QED
  BY <1>7, <1>8

\* Putting rows into the tree of m gives the tree of m with the rows upserted, and
\* reports every node that is new.
LEMMA PutsAll ==
  ASSUME NEW K, Routable(K), NEW m, MapOn(K, m), NEW rows, DOMAIN rows \in SUBSET K,
         IsFiniteSet(DOMAIN rows)
  PROVE  /\ MapOn(K, Upsert(rows, m))
         /\ PutAll(TreeOf(m), rows).tree = TreeOf(Upsert(rows, m))
         /\ Nodes(PutAll(TreeOf(m), rows).tree) \subseteq Nodes(TreeOf(m)) \cup PutAll(TreeOf(m), rows).written
<1>1. PutSome(PutAll(TreeOf(m), rows), rows, DOMAIN rows, K, m)
  <2>1. DOMAIN rows \in SUBSET DOMAIN rows
    OBVIOUS
  <2>2. QED
    BY <2>1, PutsSome, PutAllIs
<1>2. Filled(rows, DOMAIN rows, m) = Upsert(rows, m)
  BY DEF Filled, Restricted, Upsert
<1>3. QED
  BY <1>1, <1>2 DEF PutSome

-----------------------------------------------------------------------------
(***************************************************************************)
(* Trees as tables.                                                        *)
(***************************************************************************)
\* t is the tree of a finite map of some of the keys K.
Held(K, t) == MapOn(K, Items(t)) /\ IsFiniteSet(DOMAIN Items(t)) /\ t = TreeOf(Items(t))

\* Every key holds one identifier.
Single(K) == \A k \in K : k = <<k[1]>>

LEMMA TreeIsHeld ==
  ASSUME NEW K, Routable(K), NEW m, MapOn(K, m), IsFiniteSet(DOMAIN m)
  PROVE  Held(K, TreeOf(m)) /\ Items(TreeOf(m)) = m
BY HeldReads DEF Held

\* The image of a finite set is finite.
LEMMA ImageFinite ==
  ASSUME NEW S, IsFiniteSet(S), NEW f, DOMAIN f = S
  PROVE  IsFiniteSet({f[x] : x \in S})
<1> DEFINE T == {f[x] : x \in S}
           g == [x \in S |-> f[x]]
<1>1. g \in Surjection(S, T)
  BY DEF Surjection
<1>2. QED
  BY <1>1, FS_Surjection DEF ExistsSurjection

LEMMA KeyedRows ==
  ASSUME NEW rows
  PROVE  /\ DOMAIN Keyed(rows) = {<<id>> : id \in DOMAIN rows}
         /\ \A id \in DOMAIN rows : Keyed(rows)[<<id>>] = rows[id]
         /\ IsFiniteSet(DOMAIN rows) => IsFiniteSet(DOMAIN Keyed(rows))
<1>1. DOMAIN Keyed(rows) = {<<id>> : id \in DOMAIN rows}
  BY DEF Keyed
<1>2. \A id \in DOMAIN rows : Keyed(rows)[<<id>>] = rows[id]
  BY DEF Keyed
<1>3. ASSUME IsFiniteSet(DOMAIN rows) PROVE IsFiniteSet({<<id>> : id \in DOMAIN rows})
  <2> DEFINE f == [id \in DOMAIN rows |-> <<id>>]
  <2>1. IsFiniteSet({f[id] : id \in DOMAIN rows})
    <3>1. DOMAIN f = DOMAIN rows
      OBVIOUS
    <3> HIDE DEF f
    <3>2. QED
      BY <1>3, <3>1, ImageFinite
  <2>2. {f[id] : id \in DOMAIN rows} = {<<id>> : id \in DOMAIN rows}
    OBVIOUS
  <2>3. QED
    BY <2>1, <2>2
<1>4. QED
  BY <1>1, <1>2, <1>3

\* The identifiers rows are kept under give keys of K.
Fits(K, rows) == IsFiniteSet(DOMAIN rows) /\ \A id \in DOMAIN rows : <<id>> \in K

LEMMA RecordRows ==
  ASSUME NEW K, Single(K), NEW t, Held(K, t)
  PROVE  /\ \A id : id \in DOMAIN Records(t) <=> <<id>> \in DOMAIN Items(t)
         /\ \A id \in DOMAIN Records(t) : Records(t)[id] = Items(t)[<<id>>] /\ <<id>> \in K
         /\ Records(t) = [id \in DOMAIN Records(t) |-> Records(t)[id]]
         /\ IsFiniteSet(DOMAIN Records(t))
<1> DEFINE m == Items(t)
           ids == {k[1] : k \in DOMAIN m}
<1>1. Records(t) = [id \in ids |-> m[<<id>>]]
  BY DEF Records
<1>2. DOMAIN m \in SUBSET K
  BY DEF Held, MapOn
<1> HIDE DEF m
<1>3. ASSUME NEW id PROVE id \in ids <=> <<id>> \in DOMAIN m
  <2>1. ASSUME id \in ids PROVE <<id>> \in DOMAIN m
    <3>1. PICK k \in DOMAIN m : id = k[1]
      BY <2>1
    <3>2. k = <<k[1]>>
      BY <1>2 DEF Single
    <3>3. QED
      BY <3>1, <3>2
  <2>2. ASSUME <<id>> \in DOMAIN m PROVE id \in ids
    <3>1. <<id>>[1] = id
      OBVIOUS
    <3>2. QED
      BY <2>2, <3>1
  <2>3. QED
    BY <2>1, <2>2
<1> HIDE DEF ids
<1>4. DOMAIN Records(t) = ids /\ \A id \in ids : Records(t)[id] = m[<<id>>]
  BY <1>1
<1>5. IsFiniteSet(ids)
  <2> DEFINE f == [k \in DOMAIN m |-> k[1]]
  <2>1. IsFiniteSet({f[k] : k \in DOMAIN m})
    <3>1. DOMAIN f = DOMAIN m /\ IsFiniteSet(DOMAIN m)
      BY DEF Held, m
    <3> HIDE DEF f
    <3>2. QED
      BY <3>1, ImageFinite
  <2>2. {f[k] : k \in DOMAIN m} = {k[1] : k \in DOMAIN m}
    OBVIOUS
  <2>3. QED
    BY <2>1, <2>2 DEF ids
<1>6. QED
  BY <1>1, <1>2, <1>3, <1>4, <1>5 DEF m

\* Putting rows into a tree upserts them into the table it holds.
LEMMA PutsRecords ==
  ASSUME NEW K, Routable(K), NEW t, Held(K, t), NEW rows, DOMAIN rows \in SUBSET K,
         IsFiniteSet(DOMAIN rows)
  PROVE  /\ Held(K, PutAll(t, rows).tree)
         /\ Items(PutAll(t, rows).tree) = Upsert(rows, Items(t))
         /\ Nodes(PutAll(t, rows).tree) \subseteq Nodes(t) \cup PutAll(t, rows).written
<1>1. PICK m : m = Items(t)
  OBVIOUS
<1>2. MapOn(K, m) /\ IsFiniteSet(DOMAIN m) /\ t = TreeOf(m)
  BY <1>1 DEF Held
<1>3. /\ MapOn(K, Upsert(rows, m))
      /\ PutAll(t, rows).tree = TreeOf(Upsert(rows, m))
      /\ Nodes(PutAll(t, rows).tree) \subseteq Nodes(t) \cup PutAll(t, rows).written
  BY <1>2, PutsAll
<1>4. PICK w : w = Upsert(rows, m)
  OBVIOUS
<1>5. Held(K, TreeOf(w)) /\ Items(TreeOf(w)) = w
  <2>1. DOMAIN w = DOMAIN rows \cup DOMAIN m
    BY <1>4 DEF Upsert
  <2>2. IsFiniteSet(DOMAIN w)
    BY <1>2, <2>1, FS_Union
  <2>3. QED
    BY <1>3, <1>4, <2>2, TreeIsHeld
<1>6. QED
  BY <1>1, <1>3, <1>4, <1>5

\* The same of records kept under single identifiers.
LEMMA PutsTable ==
  ASSUME NEW K, Routable(K), Single(K), NEW t, Held(K, t), NEW rows, Fits(K, rows)
  PROVE  /\ Held(K, PutAll(t, Keyed(rows)).tree)
         /\ Records(PutAll(t, Keyed(rows)).tree) = Upsert(rows, Records(t))
         /\ Nodes(PutAll(t, Keyed(rows)).tree) \subseteq Nodes(t) \cup PutAll(t, Keyed(rows)).written
<1>1. PICK w : w = Keyed(rows)
  OBVIOUS
<1>2. /\ DOMAIN w \in SUBSET K /\ IsFiniteSet(DOMAIN w)
      /\ \A id : <<id>> \in DOMAIN w <=> id \in DOMAIN rows
      /\ \A id \in DOMAIN rows : w[<<id>>] = rows[id]
  <2>1. /\ DOMAIN w = {<<id>> : id \in DOMAIN rows} /\ IsFiniteSet(DOMAIN w)
        /\ \A id \in DOMAIN rows : w[<<id>>] = rows[id]
    BY <1>1, KeyedRows DEF Fits
  <2>2. \A id : <<id>> \in DOMAIN w <=> id \in DOMAIN rows
    BY <2>1
  <2>3. QED
    BY <2>1, <2>2 DEF Fits
<1>3. PICK p : p = PutAll(t, w)
  OBVIOUS
<1>4. /\ Held(K, p.tree) /\ Items(p.tree) = Upsert(w, Items(t))
      /\ Nodes(p.tree) \subseteq Nodes(t) \cup p.written
  BY <1>2, <1>3, PutsRecords
<1>5. /\ \A id : id \in DOMAIN Records(t) <=> <<id>> \in DOMAIN Items(t)
      /\ \A id \in DOMAIN Records(t) : Records(t)[id] = Items(t)[<<id>>]
  BY RecordRows
<1>6. /\ \A id : id \in DOMAIN Records(p.tree) <=> <<id>> \in DOMAIN Items(p.tree)
      /\ \A id \in DOMAIN Records(p.tree) : Records(p.tree)[id] = Items(p.tree)[<<id>>]
      /\ Records(p.tree) = [id \in DOMAIN Records(p.tree) |-> Records(p.tree)[id]]
  BY <1>4, RecordRows
<1>7. PICK h : h = Items(t)
  OBVIOUS
<1>8. /\ \A k : k \in DOMAIN Items(p.tree) <=> k \in DOMAIN w \/ k \in DOMAIN h
      /\ \A k \in DOMAIN w : Items(p.tree)[k] = w[k]
      /\ \A k \in DOMAIN h : k \notin DOMAIN w => Items(p.tree)[k] = h[k]
  BY <1>4, <1>7, UpsertRows
<1>9. DOMAIN Records(p.tree) = DOMAIN rows \cup DOMAIN Records(t)
  BY <1>2, <1>5, <1>6, <1>7, <1>8
<1>10. ASSUME NEW id \in DOMAIN Records(p.tree)
       PROVE  Records(p.tree)[id] = IF id \in DOMAIN rows THEN rows[id] ELSE Records(t)[id]
  BY <1>2, <1>5, <1>6, <1>7, <1>8, <1>9
<1>11. Records(p.tree) = Upsert(rows, Records(t))
  BY <1>6, <1>9, <1>10 DEF Upsert
<1>12. QED
  BY <1>1, <1>3, <1>4, <1>11

LEMMA EmptyHeld ==
  ASSUME NEW K, Routable(K)
  PROVE  Held(K, Empty) /\ Records(Empty) = NoRows /\ Nodes(Empty) = {}
<1> DEFINE m == [k \in {} |-> k]
<1>1. MapOn(K, m) /\ DOMAIN m = {}
  BY DEF MapOn
<1>2. TreeOf(m) = Empty
  BY <1>1, HeldTree, TreeNone
<1> HIDE DEF m
<1>3. Held(K, Empty) /\ Items(Empty) = m
  BY <1>1, <1>2, TreeIsHeld, FS_EmptySet
<1>4. Records(Empty) = NoRows
  BY <1>1, <1>3 DEF Records, NoRows
<1>5. Nodes(Empty) = {}
  <2>1. Nodes(Empty) \subseteq Subtrees(m, DOMAIN m)
    BY <1>1, <1>2, HeldTree
  <2>2. QED
    BY <1>1, <2>1 DEF Subtrees
<1>6. QED
  BY <1>3, <1>4, <1>5

-----------------------------------------------------------------------------
(***************************************************************************)
(* What an admitted event writes, as the trees need it.                    *)
(***************************************************************************)
IsTable(f) == f = [x \in DOMAIN f |-> f[x]]

\* What belief b had before, and what the claims of r about it rest on.
CandidatesBefore(s, b)   == IF b \in DOMAIN s.beliefs THEN s.beliefs[b].candidates ELSE NoRows
IdentityBefore(s, b)     == IF b \in DOMAIN s.beliefs THEN s.beliefs[b].identity ELSE {}
DependenciesBefore(s, b) == IF b \in DOMAIN s.beliefs THEN s.beliefs[b].dependencies ELSE {}
ClaimsAbout(r, b) == {i \in DOMAIN r.body.claims : r.body.claims[i].belief = b}
MentionsOf(r, b)  == {r.body.claims[i].mention : i \in ClaimsAbout(r, b)}
EventsOf(s, r, b) == {s.links[m].event : m \in MentionsOf(r, b)}

\* The candidate rows of belief b.
OfBelief(rows, b) == Restricted(rows, {c \in DOMAIN rows : rows[c].claim.belief = b})

\* row is belief b after r, whose candidate rows are `rows`.
RowFits(s, r, rows, b, row) ==
  /\ IsTable(row) /\ DOMAIN row = BeliefFields
  /\ ScopeOf(row) \in ScopeKeys
  /\ row.candidates = Upsert(OfBelief(rows, b), CandidatesBefore(s, b))
  /\ row.identity = IdentityBefore(s, b) \cup MentionsOf(r, b)
  /\ row.dependencies = DependenciesBefore(s, b) \cup {r.id} \cup EventsOf(s, r, b)

\* The keys of the tables s are those of requests.
Typed(s) ==
  /\ \A m \in DOMAIN s.links : <<m>> \in MentionKeys /\ <<s.links[m].event>> \in EventKeys
  /\ \A b \in DOMAIN s.beliefs : /\ <<b>> \in BeliefKeys /\ ScopeOf(s.beliefs[b]) \in ScopeKeys
                                 /\ IsTable(s.beliefs[b].candidates)
  /\ Fits(CandidateKeys, s.candidates)

\* Delta d of request r fits the trees of s.
DeltaFits(s, d, r) ==
  /\ Fits(SubjectKeys, d.entities) /\ Fits(MentionKeys, d.links) /\ Fits(BeliefKeys, d.beliefs)
  /\ Fits(CandidateKeys, d.candidates)
  /\ d.events = Row(r.id, r)
  /\ \A m \in DOMAIN d.links : <<d.links[m].event>> \in EventKeys
  /\ \A b \in DOMAIN d.beliefs : RowFits(s, r, d.candidates, b, d.beliefs[b])

\* The identifiers of a request's claims are keys.
LEMMA ClaimKeys ==
  ASSUME NEW r \in Requests, NEW i \in DOMAIN r.body.claims
  PROVE  /\ <<r.body.claims[i].belief>> \in BeliefKeys
         /\ <<r.body.claims[i].candidate>> \in CandidateKeys
         /\ ScopeOf(r.body.claims[i]) \in ScopeKeys
<1>1. PICK c : c = r.body.claims[i]
  OBVIOUS
<1>2. c \in ClaimsMade
  BY <1>1 DEF ClaimsMade
<1>3. QED
  BY <1>1, <1>2 DEF BeliefKeys, CandidateKeys, ScopeKeys

LEMMA MentionHasKeys ==
  ASSUME NEW r \in Requests
  PROVE  /\ <<r.id>> \in EventKeys
         /\ r.type = "entity_mention_recorded" =>
              <<r.body.subject>> \in SubjectKeys /\ <<r.body.mention>> \in MentionKeys
<1>1. <<r.id>> \in EventKeys
  BY DEF EventKeys
<1>2. ASSUME r.type = "entity_mention_recorded"
      PROVE  <<r.body.subject>> \in SubjectKeys /\ <<r.body.mention>> \in MentionKeys
  <2>1. r.body \in Mentioned
    BY <1>2 DEF Mentioned
  <2>2. QED
    BY <2>1 DEF SubjectKeys, MentionKeys
<1>3. QED
  BY <1>1, <1>2

\* A request's claims are finitely many.
LEMMA ClaimsFinite ==
  ASSUME NEW r, WellFormed(r)
  PROVE  /\ IsFiniteSet(DOMAIN r.body.claims)
         /\ IsFiniteSet(BeliefsOf(r.body.claims)) /\ IsFiniteSet(CandidatesOf(r.body.claims))
         /\ \A b : IsFiniteSet(MentionsOf(r, b))
<1> DEFINE claims == r.body.claims
           D == DOMAIN claims
<1>1. IsFiniteSet(D)
  <2>1. D = 1..Len(claims) /\ Len(claims) \in Nat
    BY DEF WellFormed
  <2>2. QED
    BY <2>1, FS_Interval
<1>2. IsFiniteSet({claims[i].belief : i \in D})
  <2> DEFINE f == [i \in D |-> claims[i].belief]
  <2>1. DOMAIN f = D /\ {f[i] : i \in D} = {claims[i].belief : i \in D}
    OBVIOUS
  <2> HIDE DEF f, D
  <2>2. QED
    BY <1>1, <2>1, ImageFinite
<1>3. IsFiniteSet({claims[i].candidate : i \in D})
  <2> DEFINE f == [i \in D |-> claims[i].candidate]
  <2>1. DOMAIN f = D /\ {f[i] : i \in D} = {claims[i].candidate : i \in D}
    OBVIOUS
  <2> HIDE DEF f, D
  <2>2. QED
    BY <1>1, <2>1, ImageFinite
<1>4. ASSUME NEW b PROVE IsFiniteSet(MentionsOf(r, b))
  <2> DEFINE S == ClaimsAbout(r, b)
             f == [i \in S |-> claims[i].mention]
  <2>1. DOMAIN f = S /\ {f[i] : i \in S} = MentionsOf(r, b)
    BY DEF MentionsOf
  <2>2. IsFiniteSet(S)
    <3>1. S \in SUBSET D
      BY DEF ClaimsAbout
    <3>2. QED
      BY <1>1, <3>1, FS_Subset
  <2> HIDE DEF f, S, D
  <2>3. QED
    BY <2>1, <2>2, ImageFinite
<1>5. QED
  BY <1>1, <1>2, <1>3, <1>4 DEF BeliefsOf, CandidatesOf

\* The row of belief b after the claims of r about it.
LEMMA ClaimsRowFits ==
  ASSUME NEW s, NEW r \in Requests, NEW recorded, NEW b \in BeliefsOf(r.body.claims),
         AdmitsClaims(s, r.body.claims),
         b \in DOMAIN s.beliefs => DOMAIN s.beliefs[b] = BeliefFields
  PROVE  RowFits(s, r, CandidateRows(r.body.claims, DOMAIN r.body.claims, r, recorded), b,
                 BeliefWithClaims(s, r, recorded, b))
<1> DEFINE claims == r.body.claims
           D      == DOMAIN claims
           row    == BeliefWithClaims(s, r, recorded, b)
           mine   == {j \in D : claims[j].belief = b}
           rows   == CandidateRows(claims, mine, r, recorded)
           all    == CandidateRows(claims, D, r, recorded)
           prior  == IF b \in DOMAIN s.beliefs THEN s.beliefs[b]
                     ELSE NewBelief(claims[CHOOSE i \in mine : TRUE])
           mentions == {claims[i].mention : i \in mine}
           events   == {s.links[claims[i].mention].event : i \in mine}
<1>1. /\ DOMAIN row = BeliefFields
      /\ \A i \in D : claims[i].belief = b => ScopeOf(row) = ScopeOf(claims[i])
  BY BeliefRow
<1>2. ScopeOf(row) \in ScopeKeys
  <2>1. PICK i \in D : claims[i].belief = b
    BY DEF BeliefsOf
  <2>2. QED
    BY <1>1, <2>1, ClaimKeys
<1>3. /\ DOMAIN prior = BeliefFields
      /\ prior.candidates = CandidatesBefore(s, b)
      /\ prior.identity = IdentityBefore(s, b)
      /\ prior.dependencies = DependenciesBefore(s, b)
  BY DEF NewBelief, BeliefFields, CandidatesBefore, IdentityBefore, DependenciesBefore
<1>4. /\ IsTable(row)
      /\ row.candidates = Upsert(rows, prior.candidates)
      /\ row.identity = prior.identity \cup mentions
      /\ row.dependencies = prior.dependencies \cup {r.id} \cup events
  <2>1. {"subject", "property", "candidates", "identity", "dependencies", "lineage"} = DOMAIN prior
    BY <1>3 DEF BeliefFields
  <2> HIDE DEF prior, rows, mine, mentions, events
  <2>2. row = [prior EXCEPT
         !.candidates   = Upsert(rows, @),
         !.identity     = @ \cup mentions,
         !.dependencies = @ \cup {r.id} \cup events,
         !.lineage      = Append(@, r.id)]
    BY DEF BeliefWithClaims, prior, rows, mine, mentions, events
  <2> HIDE DEF row
  <2>3. IsTable(row)
    BY <2>2 DEF IsTable
  <2>4. QED
    BY <2>1, <2>2, <2>3
<1>5. mentions = MentionsOf(r, b) /\ events = EventsOf(s, r, b) /\ mine = ClaimsAbout(r, b)
  BY DEF MentionsOf, EventsOf, ClaimsAbout
<1>6. rows = OfBelief(all, b)
  <2>1. \A i, j \in D : claims[i].candidate = claims[j].candidate => i = j
    BY DEF AdmitsClaims
  <2>2. /\ \A c : c \in DOMAIN all <=> \E i \in D : c = claims[i].candidate
        /\ \A i \in D : all[claims[i].candidate] = NewCandidate(claims[i], r, recorded)
    <3> HIDE DEF claims
    <3> QED BY <2>1, CandidateRowsHold
  <2>3. /\ \A c : c \in DOMAIN rows <=> \E i \in mine : c = claims[i].candidate
        /\ \A i \in mine : rows[claims[i].candidate] = NewCandidate(claims[i], r, recorded)
    <3>1. \A i, j \in mine : claims[i].candidate = claims[j].candidate => i = j
      BY <2>1
    <3> HIDE DEF claims, mine
    <3> QED BY <3>1, CandidateRowsHold
  <2>4. IsTable(rows)
    BY DEF IsTable, CandidateRows
  <2>5. \A i : i \in mine <=> i \in D /\ claims[i].belief = b
    OBVIOUS
  <2>6. \A i \in D : all[claims[i].candidate].claim = claims[i]
    BY <2>2, NewCandidateFields
  <2> DEFINE part == {c \in DOMAIN all : all[c].claim.belief = b}
  <2> HIDE DEF rows, all, mine, claims, D
  <2>7. DOMAIN rows = part
    <3>1. ASSUME NEW c \in DOMAIN rows PROVE c \in part
      <4>1. PICK i \in D : i \in mine /\ claims[i].belief = b /\ c = claims[i].candidate
        BY <2>3, <2>5
      <4>2. c \in DOMAIN all /\ all[c].claim = claims[i]
        BY <2>2, <2>6, <4>1
      <4>3. QED
        BY <4>1, <4>2
    <3>2. ASSUME NEW c \in DOMAIN all, all[c].claim.belief = b PROVE c \in DOMAIN rows
      <4>1. PICK i \in D : c = claims[i].candidate
        BY <2>2
      <4>2. claims[i].belief = b
        BY <2>6, <3>2, <4>1
      <4>3. QED
        BY <2>3, <2>5, <4>1, <4>2
    <3>3. QED
      BY <3>1, <3>2
  <2>8. \A c \in part : rows[c] = all[c]
    BY <2>2, <2>3, <2>5, <2>7
  <2>9. rows = [c \in part |-> all[c]]
    <3> HIDE DEF part
    <3> QED BY <2>4, <2>7, <2>8 DEF IsTable
  <2>10. QED
    BY <2>9 DEF OfBelief, Restricted
<1>7. QED
  <2> HIDE DEF row, rows, all, prior, mentions, events, mine
  <2> QED BY <1>1, <1>2, <1>3, <1>4, <1>5, <1>6 DEF RowFits, row, all

-----------------------------------------------------------------------------
(***************************************************************************)
(* Every kind of event fits the trees.                                     *)
(***************************************************************************)
LEMMA NothingFits ==
  ASSUME NEW K PROVE Fits(K, NoRows)
BY FS_EmptySet DEF Fits, NoRows

LEMMA OneFits ==
  ASSUME NEW K, NEW id, <<id>> \in K, NEW content
  PROVE  Fits(K, Row(id, content))
<1>1. DOMAIN Row(id, content) = {id}
  BY DEF Row
<1>2. IsFiniteSet({id})
  BY FS_Singleton
<1>3. QED
  BY <1>1, <1>2 DEF Fits

LEMMA MentionFits ==
  ASSUME NEW s, NEW r \in Requests, AdmitsMention(s, r)
  PROVE  DeltaFits(s, MentionDelta(r), r)
<1> DEFINE d == MentionDelta(r)
<1>1. /\ d.beliefs = NoRows /\ d.candidates = NoRows
      /\ d.entities = Row(r.body.subject, [mention |-> r.body.mention, event |-> r.id])
      /\ d.links = Row(r.body.mention, [subject |-> r.body.subject, event |-> r.id])
  BY MentionRows
<1>2. d.events = Row(r.id, r)
  BY DeltaEvents
<1> HIDE DEF d
<1>3. /\ <<r.id>> \in EventKeys
      /\ <<r.body.subject>> \in SubjectKeys /\ <<r.body.mention>> \in MentionKeys
  BY MentionHasKeys DEF AdmitsMention
<1>4. Fits(SubjectKeys, d.entities) /\ Fits(MentionKeys, d.links)
  BY <1>1, <1>3, OneFits
<1>5. Fits(BeliefKeys, d.beliefs) /\ Fits(CandidateKeys, d.candidates) /\ DOMAIN d.beliefs = {}
  BY <1>1, NothingFits DEF NoRows
<1>6. \A m \in DOMAIN d.links : <<d.links[m].event>> \in EventKeys
  <2>1. \A m \in DOMAIN d.links : d.links[m].event = r.id
    BY <1>1, RowHolds
  <2>2. QED
    BY <1>3, <2>1
<1>7. QED
  BY <1>2, <1>4, <1>5, <1>6 DEF DeltaFits, d

LEMMA ClaimsFit ==
  ASSUME NEW s, NEW r \in Requests, NEW recorded, WellFormed(r), AdmitsClaims(s, r.body.claims),
         \A b \in DOMAIN s.beliefs : DOMAIN s.beliefs[b] = BeliefFields
  PROVE  DeltaFits(s, ClaimsDelta(s, r, recorded), r)
<1> DEFINE claims == r.body.claims
           d    == ClaimsDelta(s, r, recorded)
           rows == CandidateRows(claims, DOMAIN claims, r, recorded)
           bels == [b \in BeliefsOf(claims) |-> BeliefWithClaims(s, r, recorded, b)]
<1>1. /\ d.entities = NoRows /\ d.links = NoRows
      /\ d.candidates = rows /\ d.beliefs = bels
  BY ClaimsRows
<1>2. d.events = Row(r.id, r)
  BY DeltaEvents
<1>3. DOMAIN bels = BeliefsOf(claims) /\ \A b \in BeliefsOf(claims) : bels[b] = BeliefWithClaims(s, r, recorded, b)
  OBVIOUS
<1>4. DOMAIN rows = CandidatesOf(claims)
  BY DEF CandidateRows, CandidatesOf
<1>5. \A b \in BeliefsOf(claims) : RowFits(s, r, rows, b, BeliefWithClaims(s, r, recorded, b))
  BY ClaimsRowFits
<1> HIDE DEF d, rows, bels
<1>6. Fits(BeliefKeys, d.beliefs)
  <2>1. \A b \in BeliefsOf(claims) : <<b>> \in BeliefKeys
    BY ClaimKeys DEF BeliefsOf
  <2>2. QED
    BY <1>1, <1>3, <2>1, ClaimsFinite DEF Fits
<1>7. Fits(CandidateKeys, d.candidates)
  <2>1. \A c \in CandidatesOf(claims) : <<c>> \in CandidateKeys
    BY ClaimKeys DEF CandidatesOf
  <2>2. QED
    BY <1>1, <1>4, <2>1, ClaimsFinite DEF Fits
<1>8. Fits(SubjectKeys, d.entities) /\ Fits(MentionKeys, d.links) /\ DOMAIN d.links = {}
  BY <1>1, NothingFits DEF NoRows
<1>9. \A b \in DOMAIN d.beliefs : RowFits(s, r, d.candidates, b, d.beliefs[b])
  BY <1>1, <1>3, <1>5
<1>10. QED
  BY <1>2, <1>6, <1>7, <1>8, <1>9 DEF DeltaFits, d

\* An expiry marks its belief.
LEMMA ExpiryFits ==
  ASSUME NEW s, NEW r \in Requests, Consistent(s), Typed(s), r.body.claims = <<>>,
         TransitionBelief(r) \in DOMAIN s.beliefs
  PROVE  DeltaFits(s, ExpiryDelta(s, r), r)
<1> DEFINE b     == TransitionBelief(r)
           d     == ExpiryDelta(s, r)
           old   == s.beliefs[b]
           deps  == old.dependencies \cup {r.id}
           line  == Append(old.lineage, r.id)
           new   == [old EXCEPT !.dependencies = deps, !.lineage = line]
           rows  == Row(b, new)
           event == Row(r.id, r)
<1>1. DOMAIN old = BeliefFields
  BY DEF Consistent
<1>2. /\ d.entities = NoRows /\ d.links = NoRows /\ d.candidates = NoRows
      /\ DOMAIN d.beliefs = {b}
  BY <1>1, ExpiryRows
<1>3. d.events = event /\ d.beliefs = rows
  <2>1. NoDelta(r) = [entities |-> NoRows, links |-> NoRows, beliefs |-> NoRows,
                      candidates |-> NoRows, events |-> event, relations |-> NoRows]
    BY DEF NoDelta, EmptySnapshot
  <2>2. d = [NoDelta(r) EXCEPT !.beliefs = rows]
    BY DEF ExpiryDelta
  <2> HIDE DEF rows, event, d
  <2>3. QED
    BY <2>1, <2>2
<1>4. d.beliefs[b] = new
  BY <1>3, RowHolds
<1>5. /\ IsTable(new) /\ DOMAIN new = BeliefFields
      /\ new.subject = old.subject /\ new.property = old.property
      /\ new.candidates = old.candidates /\ new.identity = old.identity
      /\ new.dependencies = deps
  <2> HIDE DEF old, deps, line
  <2>1. QED
    BY <1>1 DEF BeliefFields, IsTable
<1>6. MentionsOf(r, b) = {} /\ EventsOf(s, r, b) = {}
  BY DEF MentionsOf, EventsOf, ClaimsAbout
<1>7. Upsert(OfBelief(NoRows, b), old.candidates) = old.candidates
  <2>1. OfBelief(NoRows, b) = NoRows
    BY DEF OfBelief, Restricted, NoRows
  <2>2. IsTable(old.candidates)
    BY DEF Typed
  <2>3. Upsert(NoRows, old.candidates) = [k \in DOMAIN old.candidates |-> old.candidates[k]]
    BY DEF Upsert, NoRows
  <2>4. QED
    BY <2>1, <2>2, <2>3 DEF IsTable
<1>8. ScopeOf(old) \in ScopeKeys /\ <<b>> \in BeliefKeys
  BY DEF Typed
<1>9. RowFits(s, r, NoRows, b, new)
  <2>1. ScopeOf(new) = ScopeOf(old)
    BY <1>5 DEF ScopeOf
  <2>2. /\ CandidatesBefore(s, b) = old.candidates /\ IdentityBefore(s, b) = old.identity
        /\ DependenciesBefore(s, b) = old.dependencies
    BY DEF CandidatesBefore, IdentityBefore, DependenciesBefore
  <2> HIDE DEF new, old, b
  <2>3. QED
    BY <1>5, <1>6, <1>7, <1>8, <2>1, <2>2 DEF RowFits
<1> HIDE DEF d, new, old
<1>10. Fits(BeliefKeys, d.beliefs)
  BY <1>3, <1>8, OneFits DEF rows
<1>11. Fits(SubjectKeys, d.entities) /\ Fits(MentionKeys, d.links) /\ Fits(CandidateKeys, d.candidates)
       /\ DOMAIN d.links = {}
  BY <1>2, NothingFits DEF NoRows
<1>12. \A x \in DOMAIN d.beliefs : RowFits(s, r, d.candidates, x, d.beliefs[x])
  BY <1>2, <1>4, <1>9
<1>13. QED
  BY <1>3, <1>10, <1>11, <1>12 DEF DeltaFits, d

\* Upserting in two steps.
LEMMA UpsertTwice ==
  ASSUME NEW a, NEW b, NEW c
  PROVE  Upsert(a, Upsert(b, c)) = Upsert(Upsert(a, b), c)
BY DEF Upsert

\* When all rows are of one belief, its rows are all of them.
LEMMA AllOfBelief ==
  ASSUME NEW rows, IsTable(rows), NEW b, \A c \in DOMAIN rows : rows[c].claim.belief = b
  PROVE  OfBelief(rows, b) = rows
<1>1. {c \in DOMAIN rows : rows[c].claim.belief = b} = DOMAIN rows
  OBVIOUS
<1>2. QED
  BY <1>1 DEF OfBelief, Restricted, IsTable

LEMMA TransitionFits ==
  ASSUME NEW s, NEW r \in Requests, NEW recorded, NEW pos, Consistent(s), Typed(s), WellFormed(r),
         AdmitsTransition(s, r)
  PROVE  DeltaFits(s, TransitionDelta(s, r, recorded, pos), r)
<1> DEFINE b     == TransitionBelief(r)
           d     == Claimed(s, r, recorded)
           e     == TransitionDelta(s, r, recorded, pos)
           ended == EndedRows(s, r)
           claims == r.body.claims
<1>1. /\ DOMAIN d = TableNames
      /\ d.entities = NoRows /\ d.links = NoRows
      /\ DOMAIN d.beliefs = {b}
      /\ \A c : c \in DOMAIN d.candidates <=> c \in CandidatesOf(claims)
      /\ \A i \in DOMAIN claims : d.candidates[claims[i].candidate] = NewCandidate(claims[i], r, recorded)
  BY ClaimedConsistent
<1>2. b \in DOMAIN s.beliefs /\ \A x \in DOMAIN s.beliefs : DOMAIN s.beliefs[x] = BeliefFields
  BY DEF AdmitsTransition, Consistent
<1>3. DeltaFits(s, d, r)
  <2>1. CASE claims = <<>>
    BY <1>2, <2>1, ExpiryFits DEF Claimed
  <2>2. CASE claims # <<>>
    <3>1. AdmitsClaims(s, claims)
      BY <2>2, TransitionClaims
    <3>2. QED
      BY <1>2, <2>2, <3>1, ClaimsFit DEF Claimed
  <2>3. QED
    BY <2>1, <2>2
<1>4. \A i \in DOMAIN claims : claims[i].belief = b
  <2>1. ASSUME NEW i \in DOMAIN claims PROVE claims[i].belief = b
    <3>1. claims # <<>>
      OBVIOUS
    <3>2. BeliefsOf(claims) = {b}
      BY <3>1, TransitionClaims
    <3>3. QED
      BY <3>2 DEF BeliefsOf
  <2>2. QED
    BY <2>1
<1>5. /\ e.entities = d.entities /\ e.links = d.links
      /\ e.candidates = Upsert(ended, d.candidates)
      /\ e.beliefs = [d.beliefs EXCEPT ![b].candidates = Upsert(ended, @)]
  BY <1>1, TransitionRows
<1>6. e.events = Row(r.id, r)
  <2>1. e = [d EXCEPT !.candidates = e.candidates, !.beliefs = e.beliefs, !.relations = e.relations]
    <3> DEFINE cands == Upsert(ended, d.candidates)
               bels  == [d.beliefs EXCEPT ![b].candidates = Upsert(ended, @)]
               rels  == EndingRelations(r, pos)
    <3>1. e = [d EXCEPT !.candidates = cands, !.beliefs = bels, !.relations = rels]
      BY DEF TransitionDelta, Claimed, ExpiryDelta, EndedRows, EndingRelations
    <3> HIDE DEF cands, bels, rels, d, e
    <3>2. QED
      BY <1>1, <3>1 DEF TableNames
  <2> HIDE DEF d, e
  <2>2. e.events = d.events
    BY <1>1, <2>1 DEF TableNames
  <2>3. QED
    BY <1>3, <2>2 DEF DeltaFits
<1>7. /\ DOMAIN ended = r.body.targets /\ IsTable(ended)
      /\ \A c \in r.body.targets : /\ c \in DOMAIN s.candidates
                                   /\ ended[c].claim.belief = b
  <2>1. DOMAIN ended = r.body.targets /\ IsTable(ended)
    BY DEF EndedRows, IsTable
  <2>2. ASSUME NEW c \in r.body.targets
        PROVE  c \in DOMAIN s.candidates /\ ended[c].claim.belief = b
    <3>1. c \in DOMAIN s.candidates /\ s.candidates[c].claim.belief = b
      BY DEF AdmitsTransition, AdmitsTarget
    <3>2. DOMAIN s.candidates[c] = CandidateFields
      BY <3>1 DEF Consistent, CandidatesPlaced
    <3>3. PICK x : x = s.candidates[c]
      OBVIOUS
    <3>4. ended[c] = [x EXCEPT !.status = StatusOf[r.type], !.superseding = {r.id}]
      BY <3>3 DEF EndedRows
    <3>5. ended[c].claim = x.claim
      <4> HIDE DEF ended
      <4> QED BY ONLY <3>2, <3>3, <3>4 DEF CandidateFields
    <3>6. QED
      BY <3>1, <3>3, <3>5
  <2>3. QED
    BY <2>1, <2>2
<1> HIDE DEF d, e, ended
<1>8. /\ DOMAIN e.candidates = r.body.targets \cup DOMAIN d.candidates
      /\ IsTable(e.candidates)
      /\ \A c \in DOMAIN e.candidates : e.candidates[c].claim.belief = b
      /\ \A c \in DOMAIN d.candidates : d.candidates[c].claim.belief = b
  <2>1. \A c \in DOMAIN d.candidates : d.candidates[c].claim.belief = b
    <3>1. ASSUME NEW c \in DOMAIN d.candidates PROVE d.candidates[c].claim.belief = b
      <4>1. PICK i \in DOMAIN claims : c = claims[i].candidate
        BY <1>1 DEF CandidatesOf
      <4>2. d.candidates[c].claim = claims[i]
        BY <1>1, <4>1, NewCandidateFields
      <4>3. QED
        BY <1>4, <4>2
    <3>2. QED
      BY <3>1
  <2>2. DOMAIN e.candidates = r.body.targets \cup DOMAIN d.candidates /\ IsTable(e.candidates)
    BY <1>5, <1>7 DEF Upsert, IsTable
  <2>3. \A c \in DOMAIN e.candidates :
          e.candidates[c] = IF c \in r.body.targets THEN ended[c] ELSE d.candidates[c]
    BY <1>5, <1>7, <2>2 DEF Upsert
  <2>4. QED
    BY <1>7, <2>1, <2>2, <2>3
<1>9. Fits(CandidateKeys, e.candidates)
  <2>1. Fits(CandidateKeys, s.candidates) /\ Fits(CandidateKeys, d.candidates)
    BY <1>3 DEF Typed, DeltaFits
  <2>2. IsFiniteSet(r.body.targets)
    <3>1. r.body.targets \in SUBSET DOMAIN s.candidates
      BY <1>7
    <3>2. QED
      BY <2>1, <3>1, FS_Subset DEF Fits
  <2>3. IsFiniteSet(r.body.targets \cup DOMAIN d.candidates)
    BY <2>1, <2>2, FS_Union DEF Fits
  <2>4. QED
    BY <1>7, <1>8, <2>1, <2>3 DEF Fits
<1>10. PICK row : row = d.beliefs[b]
  OBVIOUS
<1>11. RowFits(s, r, d.candidates, b, row)
  BY <1>1, <1>3, <1>10 DEF DeltaFits
<1>12. PICK copy : copy = Upsert(ended, row.candidates)
  OBVIOUS
<1>13. DOMAIN e.beliefs = {b} /\ e.beliefs[b] = [row EXCEPT !.candidates = copy]
  BY <1>1, <1>5, <1>10, <1>12
<1>14. PICK new : new = e.beliefs[b]
  OBVIOUS
<1>15. /\ IsTable(new) /\ DOMAIN new = BeliefFields
       /\ new.subject = row.subject /\ new.property = row.property
       /\ new.candidates = copy /\ new.identity = row.identity
       /\ new.dependencies = row.dependencies
  <2>1. new = [row EXCEPT !.candidates = copy] /\ DOMAIN row = BeliefFields
    BY <1>11, <1>13, <1>14 DEF RowFits
  <2>2. QED
    BY ONLY <2>1 DEF BeliefFields, IsTable
<1>16. copy = Upsert(OfBelief(e.candidates, b), CandidatesBefore(s, b))
  <2>1. IsTable(d.candidates)
    <3>1. CASE claims = <<>>
      <4>1. d.candidates = NoRows
        BY <1>2, <3>1, ExpiryRows DEF Claimed, d
      <4>2. QED
        BY <4>1 DEF NoRows, IsTable
    <3>2. CASE claims # <<>>
      <4>1. d.candidates = CandidateRows(claims, DOMAIN claims, r, recorded)
        <5>1. d = ClaimsDelta(s, r, recorded)
          BY <3>2 DEF Claimed, d
        <5>2. /\ ClaimsDelta(s, r, recorded).candidates = CandidateRows(claims, DOMAIN claims, r, recorded)
              /\ ClaimsDelta(s, r, recorded).beliefs = [x \in BeliefsOf(claims) |-> BeliefWithClaims(s, r, recorded, x)]
          BY ClaimsRows
        <5>3. QED
          BY <5>1, <5>2
      <4>2. QED
        BY <4>1 DEF CandidateRows, IsTable
    <3>3. QED
      BY <3>1, <3>2
  <2>2. OfBelief(d.candidates, b) = d.candidates /\ OfBelief(e.candidates, b) = e.candidates
    BY <1>8, <2>1, AllOfBelief
  <2>3. row.candidates = Upsert(d.candidates, CandidatesBefore(s, b))
    BY <1>11, <2>2 DEF RowFits
  <2>4. QED
    BY <1>5, <1>12, <2>2, <2>3, UpsertTwice
<1>17. RowFits(s, r, e.candidates, b, new)
  <2>1. ScopeOf(new) = ScopeOf(row)
    BY <1>15 DEF ScopeOf
  <2>2. QED
    BY <1>11, <1>15, <1>16, <2>1 DEF RowFits
<1>18. Fits(BeliefKeys, e.beliefs)
  <2>1. Fits(BeliefKeys, d.beliefs) /\ DOMAIN e.beliefs = DOMAIN d.beliefs
    BY <1>1, <1>3, <1>13 DEF DeltaFits
  <2>2. QED
    BY <2>1 DEF Fits
<1>19. \A x \in DOMAIN e.beliefs : RowFits(s, r, e.candidates, x, e.beliefs[x])
  BY <1>13, <1>14, <1>17
<1>20. Fits(SubjectKeys, e.entities) /\ Fits(MentionKeys, e.links) /\ DOMAIN e.links = {}
  BY <1>1, <1>5, NothingFits DEF NoRows
<1>21. QED
  BY <1>6, <1>9, <1>18, <1>19, <1>20 DEF DeltaFits, e

\* Whatever is admitted fits.
LEMMA AdmittedFits ==
  ASSUME NEW v, NEW s, NEW e, NEW pos, e.req \in Requests, Consistent(s), Typed(s), Admits(v, s, e.req)
  PROVE  DeltaFits(s, Delta(s, e.req, e.recorded, pos), e.req)
<1> DEFINE r == e.req
<1>1. WellFormed(r)
  BY RequestAssumption
<1>2. CASE AdmitsMention(s, r)
  BY <1>2, MentionFits DEF Delta, AdmitsMention
<1>3. CASE AdmitsObservation(s, r)
  <2>1. r.type = "observation_recorded" /\ AdmitsClaims(s, r.body.claims)
    BY <1>3 DEF AdmitsObservation
  <2>2. Delta(s, r, e.recorded, pos) = ClaimsDelta(s, r, e.recorded)
    BY <2>1 DEF Delta
  <2>3. QED
    BY <1>1, <2>1, <2>2, ClaimsFit DEF Consistent
<1>4. CASE AdmitsTransition(s, r)
  <2>1. r.type \in Transitions
    BY <1>4 DEF AdmitsTransition
  <2>2. Delta(s, r, e.recorded, pos) = TransitionDelta(s, r, e.recorded, pos)
    BY <2>1 DEF Delta, Transitions
  <2>3. QED
    BY <1>1, <1>4, <2>2, TransitionFits
<1>5. QED
  BY <1>2, <1>3, <1>4 DEF Admits

-----------------------------------------------------------------------------
(***************************************************************************)
(* A delta written into the trees.                                         *)
(***************************************************************************)
IndexKeys == [entities |-> SubjectKeys, links |-> MentionKeys, beliefs |-> BeliefKeys,
              candidates |-> CandidateKeys, events |-> EventKeys, current |-> ScopeKeys]
CollectionKeys == [candidates |-> CandidateKeys, identity |-> MentionKeys, dependencies |-> EventKeys]

\* Every tree, and every tree that a header of the belief index names, is the tree
\* of a map of its keys.
TreesHeld(trees) ==
  /\ IsTable(trees) /\ DOMAIN trees = IndexKinds
  /\ \A k \in IndexKinds : Held(IndexKeys[k], trees[k])
  /\ \A b \in DOMAIN Records(trees.beliefs) : \A c \in Collections :
       Held(CollectionKeys[c], Header(trees, b).collections[c])

LEMMA KeysRoutable ==
  /\ \A k \in IndexKinds : Routable(IndexKeys[k])
  /\ \A c \in Collections : Routable(CollectionKeys[c])
  /\ Single(SubjectKeys) /\ Single(MentionKeys) /\ Single(BeliefKeys)
  /\ Single(CandidateKeys) /\ Single(EventKeys)
<1>1. /\ Routable(SubjectKeys) /\ Routable(MentionKeys) /\ Routable(BeliefKeys)
      /\ Routable(CandidateKeys) /\ Routable(EventKeys) /\ Routable(ScopeKeys)
  BY KeyAssumption
<1>2. \A k \in IndexKinds : Routable(IndexKeys[k])
  BY <1>1 DEF IndexKinds, IndexKeys
<1>3. \A c \in Collections : Routable(CollectionKeys[c])
  BY <1>1 DEF Collections, CollectionKeys
<1>4. Single(SubjectKeys) /\ Single(MentionKeys)
  BY DEF Single, SubjectKeys, MentionKeys
<1>5. Single(BeliefKeys) /\ Single(CandidateKeys) /\ Single(EventKeys)
  BY DEF Single, BeliefKeys, CandidateKeys, EventKeys
<1>6. QED
  BY <1>2, <1>3, <1>4, <1>5

\* An admitted event's claims rest on recorded mentions.
LEMMA ClaimsLinked ==
  ASSUME NEW v, NEW s, NEW r, WellFormed(r), Admits(v, s, r), NEW b, NEW m \in MentionsOf(r, b)
  PROVE  m \in DOMAIN s.links
<1>1. PICK i \in DOMAIN r.body.claims : m = r.body.claims[i].mention
  BY DEF MentionsOf, ClaimsAbout
<1>2. ASSUME AdmitsClaims(s, r.body.claims) PROVE m \in DOMAIN s.links
  BY <1>1, <1>2 DEF AdmitsClaims, AdmitsClaim
<1>3. CASE AdmitsMention(s, r)
  <2>1. r.body.claims = <<>>
    BY <1>3 DEF AdmitsMention, WellFormed
  <2>2. QED
    BY <1>1, <2>1
<1>4. CASE AdmitsObservation(s, r)
  BY <1>2, <1>4 DEF AdmitsObservation
<1>5. CASE AdmitsTransition(s, r)
  <2>1. r.body.claims # <<>>
    BY <1>1
  <2>2. QED
    BY <1>2, <1>5, <2>1 DEF AdmitsTransition
<1>6. QED
  BY <1>3, <1>4, <1>5 DEF Admits

\* What event r puts into the collections of belief b.
IdentityRows(r, s, b) == [m \in MentionsOf(r, b) |-> [mention |-> m, link |-> s.links[m]]]
DependencyRows(d, r, s, b) == Upsert(d.events, Restricted(s.events, EventsOf(s, r, b)))

LEMMA MembersAre ==
  ASSUME NEW d, NEW r, NEW s, NEW b
  PROVE  /\ Members(d, r, s, b).candidates = Keyed(OfBelief(d.candidates, b))
         /\ Members(d, r, s, b).identity = Keyed(IdentityRows(r, s, b))
         /\ Members(d, r, s, b).dependencies = Keyed(DependencyRows(d, r, s, b))
BY DEF Members, OfBelief, IdentityRows, DependencyRows, MentionsOf, ClaimsAbout, EventsOf

LEMMA MembersFit ==
  ASSUME NEW s, NEW d, NEW r \in Requests, NEW b \in DOMAIN d.beliefs, Typed(s), DeltaFits(s, d, r),
         \A m \in MentionsOf(r, b) : m \in DOMAIN s.links
  PROVE  /\ Fits(CandidateKeys, OfBelief(d.candidates, b))
         /\ Fits(MentionKeys, IdentityRows(r, s, b)) /\ DOMAIN IdentityRows(r, s, b) = MentionsOf(r, b)
         /\ Fits(EventKeys, DependencyRows(d, r, s, b))
         /\ DOMAIN DependencyRows(d, r, s, b) = {r.id} \cup EventsOf(s, r, b)
<1>1. WellFormed(r)
  BY RequestAssumption
<1>2. IsFiniteSet(MentionsOf(r, b))
  BY <1>1, ClaimsFinite
<1>3. Fits(CandidateKeys, OfBelief(d.candidates, b))
  <2>1. Fits(CandidateKeys, d.candidates)
    BY DEF DeltaFits
  <2>2. DOMAIN OfBelief(d.candidates, b) \in SUBSET DOMAIN d.candidates
    BY DEF OfBelief, Restricted
  <2>3. QED
    BY <2>1, <2>2, FS_Subset DEF Fits
<1>4. Fits(MentionKeys, IdentityRows(r, s, b)) /\ DOMAIN IdentityRows(r, s, b) = MentionsOf(r, b)
  <2>1. DOMAIN IdentityRows(r, s, b) = MentionsOf(r, b)
    BY DEF IdentityRows
  <2>2. \A m \in MentionsOf(r, b) : <<m>> \in MentionKeys
    BY DEF Typed
  <2>3. QED
    BY <1>2, <2>1, <2>2 DEF Fits
<1>5. DOMAIN DependencyRows(d, r, s, b) = {r.id} \cup EventsOf(s, r, b)
  <2>1. DOMAIN d.events = {r.id}
    BY DEF DeltaFits, Row
  <2>2. QED
    BY <2>1 DEF DependencyRows, Upsert, Restricted
<1>6. IsFiniteSet(EventsOf(s, r, b))
  <2> DEFINE f == [m \in MentionsOf(r, b) |-> s.links[m].event]
  <2>1. DOMAIN f = MentionsOf(r, b) /\ {f[m] : m \in MentionsOf(r, b)} = EventsOf(s, r, b)
    BY DEF EventsOf
  <2> HIDE DEF f
  <2>2. QED
    BY <1>2, <2>1, ImageFinite
<1>7. Fits(EventKeys, DependencyRows(d, r, s, b))
  <2>1. IsFiniteSet({r.id} \cup EventsOf(s, r, b))
    BY <1>6, FS_Union, FS_Singleton
  <2>2. <<r.id>> \in EventKeys
    BY MentionHasKeys
  <2>3. \A id \in EventsOf(s, r, b) : <<id>> \in EventKeys
    BY DEF EventsOf, Typed
  <2>4. QED
    BY <1>5, <2>1, <2>2, <2>3 DEF Fits
<1>8. QED
  BY <1>3, <1>4, <1>5, <1>7

\* The collections of belief b before the event.
LEMMA CollectionsHeld ==
  ASSUME NEW trees, NEW ended, TreesHeld(trees), NEW b, <<b>> \in BeliefKeys
  PROVE  LET s == Decoded(trees, ended)
             cs == CollectionsOf(trees, b)
         IN  /\ \A c \in Collections : Held(CollectionKeys[c], cs[c])
             /\ \A c \in Collections : Nodes(cs[c]) \subseteq Reached(trees)
             /\ Records(cs.candidates) = CandidatesBefore(s, b)
             /\ DOMAIN Records(cs.identity) = IdentityBefore(s, b)
             /\ DOMAIN Records(cs.dependencies) = DependenciesBefore(s, b)
<1> DEFINE s == Decoded(trees, ended)
           cs == CollectionsOf(trees, b)
           R == Records(trees.beliefs)
           held == b \in DOMAIN R
<1>1. PICK t : t = trees.beliefs
  OBVIOUS
<1>2. Held(BeliefKeys, t) /\ Routable(BeliefKeys) /\ Single(BeliefKeys)
  BY <1>1, KeysRoutable, KeyAssumption DEF TreesHeld, IndexKinds, IndexKeys
<1>3. Get(t, <<b>>) = {} <=> ~held
  <2>1. PICK m : m = Items(t)
    OBVIOUS
  <2>2. MapOn(BeliefKeys, m) /\ t = TreeOf(m)
    BY <1>2, <2>1 DEF Held
  <2>3. Get(t, <<b>>) = (IF <<b>> \in DOMAIN m THEN {m[<<b>>]} ELSE {})
    BY <1>2, <2>2, HeldReads
  <2>4. held <=> <<b>> \in DOMAIN m
    BY <1>1, <1>2, <2>1, RecordRows
  <2>5. QED
    BY <2>3, <2>4
<1>4. DOMAIN s.beliefs = DOMAIN R /\ \A x \in DOMAIN R : s.beliefs[x] = BeliefOf(R[x])
  BY DEF Decoded, Header
<1>5. CASE held
  <2>1. cs = R[b].collections
    BY <1>1, <1>3, <1>5 DEF CollectionsOf, Header
  <2>2. \A c \in Collections : Held(CollectionKeys[c], cs[c])
    BY <1>5, <2>1 DEF TreesHeld, Header
  <2>3. \A c \in Collections : Nodes(cs[c]) \subseteq Reached(trees)
    BY <1>5, <2>1 DEF Reached, Header
  <2>4. /\ s.beliefs[b].candidates = Records(cs.candidates)
        /\ s.beliefs[b].identity = DOMAIN Records(cs.identity)
        /\ s.beliefs[b].dependencies = DOMAIN Records(cs.dependencies)
    <3>1. PICK h : h = R[b]
      OBVIOUS
    <3>2. s.beliefs[b] = BeliefOf(h) /\ cs = h.collections
      BY <1>4, <1>5, <2>1, <3>1
    <3>3. /\ BeliefOf(h).candidates = Records(h.collections.candidates)
          /\ BeliefOf(h).identity = DOMAIN Records(h.collections.identity)
          /\ BeliefOf(h).dependencies = DOMAIN Records(h.collections.dependencies)
      BY DEF BeliefOf
    <3> HIDE DEF s, cs
    <3>4. QED
      BY ONLY <3>2, <3>3
  <2>5. QED
    BY <1>4, <1>5, <2>2, <2>3, <2>4 DEF CandidatesBefore, IdentityBefore, DependenciesBefore
<1>6. CASE ~held
  <2>1. cs = NoCollections
    BY <1>1, <1>3, <1>6 DEF CollectionsOf
  <2>2. \A c \in Collections : cs[c] = Empty
    BY <2>1 DEF NoCollections
  <2>3. "candidates" \in Collections /\ "identity" \in Collections /\ "dependencies" \in Collections
    BY DEF Collections
  <2>4. \A c \in Collections : Held(CollectionKeys[c], Empty)
    BY EmptyHeld, KeysRoutable
  <2>5. Records(Empty) = NoRows /\ Nodes(Empty) = {}
    BY EmptyHeld, KeysRoutable, <2>3
  <2>6. b \notin DOMAIN s.beliefs /\ DOMAIN NoRows = {}
    BY <1>4, <1>6 DEF NoRows
  <2>7. QED
    BY <2>2, <2>3, <2>4, <2>5, <2>6 DEF CandidatesBefore, IdentityBefore, DependenciesBefore
<1>7. QED
  BY <1>5, <1>6

\* The collections of belief b after the event.
CollectionsFit(trees, d, put, b) ==
  /\ \A c \in Collections : Held(CollectionKeys[c], put[c].tree)
  /\ \A c \in Collections : Nodes(put[c].tree) \subseteq Reached(trees) \cup put[c].written
  /\ Records(put["candidates"].tree) = d.beliefs[b].candidates
  /\ DOMAIN Records(put["identity"].tree) = d.beliefs[b].identity
  /\ DOMAIN Records(put["dependencies"].tree) = d.beliefs[b].dependencies

LEMMA GatheredFits ==
  ASSUME NEW trees, NEW ended, TreesHeld(trees), NEW s, s = Decoded(trees, ended), Typed(s),
         NEW r \in Requests, NEW d, DeltaFits(s, d, r), NEW b \in DOMAIN d.beliefs,
         \A m \in MentionsOf(r, b) : m \in DOMAIN s.links
  PROVE  CollectionsFit(trees, d, Gathered(trees, d, r, s)[b], b)
<1> DEFINE put == Gathered(trees, d, r, s)[b]
<1>1. PICK cs : cs = CollectionsOf(trees, b)
  OBVIOUS
<1>2. PICK M : M = Members(d, r, s, b)
  OBVIOUS
<1>3. \A c \in Collections : put[c] = PutAll(cs[c], M[c])
  BY <1>1, <1>2 DEF Gathered
<1>4. /\ "candidates" \in Collections /\ "identity" \in Collections /\ "dependencies" \in Collections
      /\ \A c \in Collections : c = "candidates" \/ c = "identity" \/ c = "dependencies"
  BY DEF Collections
<1>5. <<b>> \in BeliefKeys /\ RowFits(s, r, d.candidates, b, d.beliefs[b])
  BY DEF DeltaFits, Fits
<1>6. /\ \A c \in Collections : Held(CollectionKeys[c], cs[c])
      /\ \A c \in Collections : Nodes(cs[c]) \subseteq Reached(trees)
      /\ Records(cs.candidates) = CandidatesBefore(s, b)
      /\ DOMAIN Records(cs.identity) = IdentityBefore(s, b)
      /\ DOMAIN Records(cs.dependencies) = DependenciesBefore(s, b)
  BY <1>1, <1>5, CollectionsHeld
<1>7. PICK rc : rc = OfBelief(d.candidates, b)
  OBVIOUS
<1>8. PICK ri : ri = IdentityRows(r, s, b)
  OBVIOUS
<1>9. PICK rd : rd = DependencyRows(d, r, s, b)
  OBVIOUS
<1>10. /\ M.candidates = Keyed(rc) /\ M.identity = Keyed(ri) /\ M.dependencies = Keyed(rd)
  BY <1>2, <1>7, <1>8, <1>9, MembersAre
<1>11. /\ Fits(CandidateKeys, rc) /\ Fits(MentionKeys, ri) /\ Fits(EventKeys, rd)
       /\ DOMAIN ri = MentionsOf(r, b) /\ DOMAIN rd = {r.id} \cup EventsOf(s, r, b)
  BY <1>7, <1>8, <1>9, MembersFit
<1>12. /\ Routable(CandidateKeys) /\ Routable(MentionKeys) /\ Routable(EventKeys)
       /\ Single(CandidateKeys) /\ Single(MentionKeys) /\ Single(EventKeys)
  BY KeyAssumption, KeysRoutable
<1>13. /\ CollectionKeys.candidates = CandidateKeys /\ CollectionKeys.identity = MentionKeys
       /\ CollectionKeys.dependencies = EventKeys
  BY DEF CollectionKeys
<1> HIDE DEF put
<1>14. /\ Held(CandidateKeys, put["candidates"].tree)
       /\ Records(put["candidates"].tree) = Upsert(rc, Records(cs.candidates))
       /\ Nodes(put["candidates"].tree) \subseteq Nodes(cs.candidates) \cup put["candidates"].written
  <2>1. Held(CandidateKeys, cs.candidates) /\ put["candidates"] = PutAll(cs.candidates, Keyed(rc))
    BY <1>3, <1>4, <1>6, <1>10, <1>13
  <2>2. QED
    BY <1>11, <1>12, <2>1, PutsTable
<1>15. /\ Held(MentionKeys, put["identity"].tree)
       /\ Records(put["identity"].tree) = Upsert(ri, Records(cs.identity))
       /\ Nodes(put["identity"].tree) \subseteq Nodes(cs.identity) \cup put["identity"].written
  <2>1. Held(MentionKeys, cs.identity) /\ put["identity"] = PutAll(cs.identity, Keyed(ri))
    BY <1>3, <1>4, <1>6, <1>10, <1>13
  <2>2. QED
    BY <1>11, <1>12, <2>1, PutsTable
<1>16. /\ Held(EventKeys, put["dependencies"].tree)
       /\ Records(put["dependencies"].tree) = Upsert(rd, Records(cs.dependencies))
       /\ Nodes(put["dependencies"].tree) \subseteq Nodes(cs.dependencies) \cup put["dependencies"].written
  <2>1. Held(EventKeys, cs.dependencies) /\ put["dependencies"] = PutAll(cs.dependencies, Keyed(rd))
    BY <1>3, <1>4, <1>6, <1>10, <1>13
  <2>2. QED
    BY <1>11, <1>12, <2>1, PutsTable
<1>17. \A c \in Collections : Held(CollectionKeys[c], put[c].tree)
  BY <1>4, <1>13, <1>14, <1>15, <1>16
<1>18. \A c \in Collections : Nodes(put[c].tree) \subseteq Reached(trees) \cup put[c].written
  <2>1. \A c \in Collections : Nodes(put[c].tree) \subseteq Nodes(cs[c]) \cup put[c].written
    BY <1>4, <1>14, <1>15, <1>16
  <2>2. QED
    BY <1>6, <2>1
<1>19. Records(put["candidates"].tree) = d.beliefs[b].candidates
  BY <1>5, <1>6, <1>7, <1>14 DEF RowFits
<1>20. DOMAIN Records(put["identity"].tree) = d.beliefs[b].identity
  <2>1. DOMAIN Records(put["identity"].tree) = DOMAIN ri \cup DOMAIN Records(cs.identity)
    BY <1>15 DEF Upsert
  <2>2. QED
    BY <1>5, <1>6, <1>11, <2>1 DEF RowFits
<1>21. DOMAIN Records(put["dependencies"].tree) = d.beliefs[b].dependencies
  <2>1. DOMAIN Records(put["dependencies"].tree) = DOMAIN rd \cup DOMAIN Records(cs.dependencies)
    BY <1>16 DEF Upsert
  <2>2. QED
    BY <1>5, <1>6, <1>11, <2>1 DEF RowFits
<1>22. QED
  BY <1>17, <1>18, <1>19, <1>20, <1>21 DEF CollectionsFit, put

-----------------------------------------------------------------------------
(***************************************************************************)
(* The six indexes, and the headers.                                       *)
(***************************************************************************)
\* The rows that a delta puts into the index trees.
ScopeRows(head) ==
  [k \in {ScopeOf(head[b]) : b \in DOMAIN head} |->
     [belief |-> CHOOSE b \in DOMAIN head : ScopeOf(head[b]) = k]]
IndexRows(d, head) ==
  [entities |-> Keyed(d.entities), links |-> Keyed(d.links), beliefs |-> Keyed(head),
   candidates |-> Keyed(d.candidates), events |-> Keyed(d.events), current |-> ScopeRows(head)]

\* w is the trees with those rows put into them.
IndexesPut(w, trees, d, head) ==
  /\ IsTable(w.trees) /\ DOMAIN w.trees = IndexKinds
  /\ \A k \in IndexKinds : /\ w.trees[k] = PutAll(trees[k], IndexRows(d, head)[k]).tree
                           /\ PutAll(trees[k], IndexRows(d, head)[k]).written \subseteq w.written

LEMMA FinishedIs ==
  ASSUME NEW trees, NEW d, NEW put, NEW head
  PROVE  LET w == Finished(trees, d, put, head) IN
         /\ IndexesPut(w, trees, d, head)
         /\ \A b \in DOMAIN put : \A c \in Collections : put[b][c].written \subseteq w.written
         /\ w.ended = d.relations
         /\ w.headers = head
<1> DEFINE w == Finished(trees, d, put, head)
           index == [k \in IndexKinds |-> PutAll(trees[k], IndexRows(d, head)[k])]
           mine == UNION {index[k].written : k \in IndexKinds}
           theirs == UNION {UNION {put[b][c].written : c \in Collections} : b \in DOMAIN put}
           all == [k \in IndexKinds |-> index[k].tree]
<1>1. w = [trees |-> all, written |-> mine \cup theirs, headers |-> head, ended |-> d.relations]
  BY DEF Finished, IndexRows, ScopeRows
<1>2. IsTable(all) /\ DOMAIN all = IndexKinds
  BY DEF IsTable
<1>3. \A k \in IndexKinds : /\ all[k] = PutAll(trees[k], IndexRows(d, head)[k]).tree
                            /\ PutAll(trees[k], IndexRows(d, head)[k]).written \subseteq mine
  OBVIOUS
<1>4. \A b \in DOMAIN put : \A c \in Collections : put[b][c].written \subseteq theirs
  OBVIOUS
<1> HIDE DEF all, mine, theirs, w, index
<1>5. w.trees = all /\ w.written = mine \cup theirs /\ w.headers = head /\ w.ended = d.relations
  BY <1>1
<1>6. QED
  BY <1>2, <1>3, <1>4, <1>5 DEF IndexesPut, w

\* head are the headers of the beliefs of d, with collections that fit.
HeadsFit(trees, d, put, head) ==
  /\ DOMAIN put = DOMAIN d.beliefs /\ DOMAIN head = DOMAIN d.beliefs
  /\ \A b \in DOMAIN d.beliefs :
       /\ CollectionsFit(trees, d, put[b], b)
       /\ \A c \in Collections : head[b].collections[c] = put[b][c].tree
       /\ BeliefOf(head[b]) = d.beliefs[b]
       /\ ScopeOf(head[b]) \in ScopeKeys

LEMMA BeliefFieldsAre ==
  ASSUME NEW row, IsTable(row), DOMAIN row = BeliefFields
  PROVE  row = [subject |-> row.subject, property |-> row.property, lineage |-> row.lineage,
                candidates |-> row.candidates, identity |-> row.identity, dependencies |-> row.dependencies]
BY DEF IsTable, BeliefFields

LEMMA HeadedFits ==
  ASSUME NEW trees, NEW ended, TreesHeld(trees), NEW s, s = Decoded(trees, ended), Typed(s),
         NEW r \in Requests, NEW d, DeltaFits(s, d, r),
         \A b : \A m \in MentionsOf(r, b) : m \in DOMAIN s.links
  PROVE  LET put == Gathered(trees, d, r, s) IN HeadsFit(trees, d, put, Headed(d, put))
<1>1. PICK put : put = Gathered(trees, d, r, s)
  OBVIOUS
<1>2. PICK head : head = Headed(d, put)
  OBVIOUS
<1>3. DOMAIN put = DOMAIN d.beliefs /\ DOMAIN head = DOMAIN d.beliefs
  BY <1>1, <1>2 DEF Gathered, Headed
<1>4. ASSUME NEW b \in DOMAIN d.beliefs
      PROVE  /\ CollectionsFit(trees, d, put[b], b)
             /\ \A c \in Collections : head[b].collections[c] = put[b][c].tree
             /\ BeliefOf(head[b]) = d.beliefs[b]
             /\ ScopeOf(head[b]) \in ScopeKeys
  <2>1. CollectionsFit(trees, d, put[b], b)
    BY <1>1, GatheredFits
  <2>2. RowFits(s, r, d.candidates, b, d.beliefs[b])
    BY DEF DeltaFits
  <2>3. PICK row : row = d.beliefs[b]
    OBVIOUS
  <2>4. PICK cs : cs = [c \in Collections |-> put[b][c].tree]
    OBVIOUS
  <2>5. head[b] = [subject |-> row.subject, property |-> row.property, lineage |-> row.lineage, collections |-> cs]
    BY <1>2, <1>3, <2>3, <2>4 DEF Headed
  <2>6. /\ head[b].subject = row.subject /\ head[b].property = row.property
        /\ head[b].lineage = row.lineage /\ head[b].collections = cs
    BY ONLY <2>5
  <2>7. \A c \in Collections : head[b].collections[c] = put[b][c].tree
    BY <2>4, <2>6
  <2>8. ScopeOf(head[b]) \in ScopeKeys
    BY <2>2, <2>3, <2>6 DEF RowFits, ScopeOf
  <2>9. /\ cs.candidates = put[b].candidates.tree /\ cs.identity = put[b].identity.tree
        /\ cs.dependencies = put[b].dependencies.tree
    BY <2>4 DEF Collections
  <2>10. /\ Records(cs.candidates) = row.candidates /\ DOMAIN Records(cs.identity) = row.identity
         /\ DOMAIN Records(cs.dependencies) = row.dependencies
    BY <2>1, <2>3, <2>9 DEF CollectionsFit
  <2>11. BeliefOf(head[b]) = [subject |-> row.subject, property |-> row.property, lineage |-> row.lineage,
                candidates |-> row.candidates, identity |-> row.identity, dependencies |-> row.dependencies]
    BY <2>6, <2>10 DEF BeliefOf
  <2>12. BeliefOf(head[b]) = row
    BY <2>2, <2>3, <2>11, BeliefFieldsAre DEF RowFits
  <2>13. QED
    BY <2>1, <2>3, <2>7, <2>8, <2>12
<1>5. QED
  BY <1>1, <1>2, <1>3, <1>4 DEF HeadsFit

\* What the index trees hold afterwards.
IndexesHold(w, trees, d, head) ==
  /\ \A k \in IndexKinds : /\ Held(IndexKeys[k], w.trees[k])
                           /\ Nodes(w.trees[k]) \subseteq Nodes(trees[k]) \cup w.written
  /\ Records(w.trees.entities)   = Upsert(d.entities, Records(trees.entities))
  /\ Records(w.trees.links)      = Upsert(d.links, Records(trees.links))
  /\ Records(w.trees.beliefs)    = Upsert(head, Records(trees.beliefs))
  /\ Records(w.trees.candidates) = Upsert(d.candidates, Records(trees.candidates))
  /\ Records(w.trees.events)     = Upsert(d.events, Records(trees.events))

LEMMA IndexesFit ==
  ASSUME NEW trees, TreesHeld(trees), NEW s, NEW r \in Requests, NEW d, DeltaFits(s, d, r),
         NEW put, NEW head, HeadsFit(trees, d, put, head),
         NEW w, IndexesPut(w, trees, d, head)
  PROVE  IndexesHold(w, trees, d, head)
<1> DEFINE rows == IndexRows(d, head)
<1>1. /\ rows.entities = Keyed(d.entities) /\ rows.links = Keyed(d.links) /\ rows.beliefs = Keyed(head)
      /\ rows.candidates = Keyed(d.candidates) /\ rows.events = Keyed(d.events)
      /\ rows.current = ScopeRows(head)
  BY DEF IndexRows
<1>2. /\ IndexKeys.entities = SubjectKeys /\ IndexKeys.links = MentionKeys /\ IndexKeys.beliefs = BeliefKeys
      /\ IndexKeys.candidates = CandidateKeys /\ IndexKeys.events = EventKeys /\ IndexKeys.current = ScopeKeys
  BY DEF IndexKeys
<1>3. /\ \A k \in IndexKinds : \/ k = "entities" \/ k = "links" \/ k = "beliefs"
                               \/ k = "candidates" \/ k = "events" \/ k = "current"
      /\ "entities" \in IndexKinds /\ "links" \in IndexKinds /\ "beliefs" \in IndexKinds
      /\ "candidates" \in IndexKinds /\ "events" \in IndexKinds /\ "current" \in IndexKinds
  BY DEF IndexKinds
<1>4. /\ Routable(SubjectKeys) /\ Routable(MentionKeys) /\ Routable(BeliefKeys)
      /\ Routable(CandidateKeys) /\ Routable(EventKeys) /\ Routable(ScopeKeys)
      /\ Single(SubjectKeys) /\ Single(MentionKeys) /\ Single(BeliefKeys)
      /\ Single(CandidateKeys) /\ Single(EventKeys)
  BY KeyAssumption, KeysRoutable
<1>5. /\ Fits(SubjectKeys, d.entities) /\ Fits(MentionKeys, d.links) /\ Fits(BeliefKeys, head)
      /\ Fits(CandidateKeys, d.candidates) /\ Fits(EventKeys, d.events)
  <2>1. Fits(BeliefKeys, head)
    BY DEF DeltaFits, Fits, HeadsFit
  <2>2. <<r.id>> \in EventKeys
    BY MentionHasKeys
  <2>3. Fits(EventKeys, d.events)
    BY <2>2, OneFits DEF DeltaFits
  <2>4. QED
    BY <2>1, <2>3 DEF DeltaFits
<1>6. DOMAIN ScopeRows(head) \in SUBSET ScopeKeys /\ IsFiniteSet(DOMAIN ScopeRows(head))
  <2> DEFINE f == [b \in DOMAIN head |-> ScopeOf(head[b])]
  <2>1. DOMAIN ScopeRows(head) = {f[b] : b \in DOMAIN head} /\ DOMAIN f = DOMAIN head
    BY DEF ScopeRows
  <2>2. \A b \in DOMAIN head : f[b] \in ScopeKeys
    BY DEF HeadsFit
  <2> HIDE DEF f
  <2>3. IsFiniteSet({f[b] : b \in DOMAIN head})
    BY <1>5, <2>1, ImageFinite DEF Fits
  <2>4. QED
    BY <2>1, <2>2, <2>3
<1>7. \A k \in IndexKinds : /\ Held(IndexKeys[k], trees[k])
                            /\ w.trees[k] = PutAll(trees[k], rows[k]).tree
                            /\ PutAll(trees[k], rows[k]).written \subseteq w.written
  BY DEF TreesHeld, IndexesPut
<1> HIDE DEF rows
<1>8. /\ Held(SubjectKeys, w.trees.entities)
      /\ Records(w.trees.entities) = Upsert(d.entities, Records(trees.entities))
      /\ Nodes(w.trees.entities) \subseteq Nodes(trees.entities) \cup w.written
  <2>1. /\ Held(SubjectKeys, trees.entities)
        /\ w.trees.entities = PutAll(trees.entities, Keyed(d.entities)).tree
        /\ PutAll(trees.entities, Keyed(d.entities)).written \subseteq w.written
    BY <1>1, <1>2, <1>3, <1>7
  <2>2. QED
    BY <1>4, <1>5, <2>1, PutsTable
<1>9. /\ Held(MentionKeys, w.trees.links)
      /\ Records(w.trees.links) = Upsert(d.links, Records(trees.links))
      /\ Nodes(w.trees.links) \subseteq Nodes(trees.links) \cup w.written
  <2>1. /\ Held(MentionKeys, trees.links)
        /\ w.trees.links = PutAll(trees.links, Keyed(d.links)).tree
        /\ PutAll(trees.links, Keyed(d.links)).written \subseteq w.written
    BY <1>1, <1>2, <1>3, <1>7
  <2>2. QED
    BY <1>4, <1>5, <2>1, PutsTable
<1>10. /\ Held(BeliefKeys, w.trees.beliefs)
       /\ Records(w.trees.beliefs) = Upsert(head, Records(trees.beliefs))
       /\ Nodes(w.trees.beliefs) \subseteq Nodes(trees.beliefs) \cup w.written
  <2>1. /\ Held(BeliefKeys, trees.beliefs)
        /\ w.trees.beliefs = PutAll(trees.beliefs, Keyed(head)).tree
        /\ PutAll(trees.beliefs, Keyed(head)).written \subseteq w.written
    BY <1>1, <1>2, <1>3, <1>7
  <2>2. QED
    BY <1>4, <1>5, <2>1, PutsTable
<1>11. /\ Held(CandidateKeys, w.trees.candidates)
       /\ Records(w.trees.candidates) = Upsert(d.candidates, Records(trees.candidates))
       /\ Nodes(w.trees.candidates) \subseteq Nodes(trees.candidates) \cup w.written
  <2>1. /\ Held(CandidateKeys, trees.candidates)
        /\ w.trees.candidates = PutAll(trees.candidates, Keyed(d.candidates)).tree
        /\ PutAll(trees.candidates, Keyed(d.candidates)).written \subseteq w.written
    BY <1>1, <1>2, <1>3, <1>7
  <2>2. QED
    BY <1>4, <1>5, <2>1, PutsTable
<1>12. /\ Held(EventKeys, w.trees.events)
       /\ Records(w.trees.events) = Upsert(d.events, Records(trees.events))
       /\ Nodes(w.trees.events) \subseteq Nodes(trees.events) \cup w.written
  <2>1. /\ Held(EventKeys, trees.events)
        /\ w.trees.events = PutAll(trees.events, Keyed(d.events)).tree
        /\ PutAll(trees.events, Keyed(d.events)).written \subseteq w.written
    BY <1>1, <1>2, <1>3, <1>7
  <2>2. QED
    BY <1>4, <1>5, <2>1, PutsTable
<1>13. /\ Held(ScopeKeys, w.trees.current)
       /\ Nodes(w.trees.current) \subseteq Nodes(trees.current) \cup w.written
  <2>1. /\ Held(ScopeKeys, trees.current)
        /\ w.trees.current = PutAll(trees.current, ScopeRows(head)).tree
        /\ PutAll(trees.current, ScopeRows(head)).written \subseteq w.written
    BY <1>1, <1>2, <1>3, <1>7
  <2>2. QED
    BY <1>4, <1>6, <2>1, PutsRecords
<1>14. \A k \in IndexKinds : /\ Held(IndexKeys[k], w.trees[k])
                             /\ Nodes(w.trees[k]) \subseteq Nodes(trees[k]) \cup w.written
  BY <1>2, <1>3, <1>8, <1>9, <1>10, <1>11, <1>12, <1>13
<1>15. QED
  BY <1>8, <1>9, <1>10, <1>11, <1>12, <1>14 DEF IndexesHold

-----------------------------------------------------------------------------
(***************************************************************************)
(* The trees after the delta.                                              *)
(***************************************************************************)
\* The headers after the delta: new ones, and those it leaves alone.
LEMMA HeadersAfter ==
  ASSUME NEW trees, TreesHeld(trees), NEW d, NEW put, NEW head, HeadsFit(trees, d, put, head),
         NEW w, IndexesHold(w, trees, d, head), NEW b \in DOMAIN Records(w.trees.beliefs)
  PROVE  \/ b \in DOMAIN d.beliefs /\ Header(w.trees, b) = head[b]
         \/ /\ b \notin DOMAIN d.beliefs /\ b \in DOMAIN Records(trees.beliefs)
            /\ Header(w.trees, b) = Header(trees, b)
<1>1. PICK R : R = Records(trees.beliefs)
  OBVIOUS
<1>2. PICK R2 : R2 = Records(w.trees.beliefs)
  OBVIOUS
<1>3. R2 = Upsert(head, R) /\ DOMAIN head = DOMAIN d.beliefs
  BY <1>1, <1>2 DEF IndexesHold, HeadsFit
<1>4. /\ \A k : k \in DOMAIN R2 <=> k \in DOMAIN head \/ k \in DOMAIN R
      /\ \A k \in DOMAIN head : R2[k] = head[k]
      /\ \A k \in DOMAIN R : k \notin DOMAIN head => R2[k] = R[k]
  BY <1>3, UpsertRows
<1>5. QED
  BY <1>1, <1>2, <1>3, <1>4 DEF Header

LEMMA TreesStayHeld ==
  ASSUME NEW trees, TreesHeld(trees), NEW d, NEW put, NEW head, HeadsFit(trees, d, put, head),
         NEW w, IsTable(w.trees), DOMAIN w.trees = IndexKinds, IndexesHold(w, trees, d, head)
  PROVE  TreesHeld(w.trees)
<1>1. ASSUME NEW b \in DOMAIN Records(w.trees.beliefs), NEW c \in Collections
      PROVE  Held(CollectionKeys[c], Header(w.trees, b).collections[c])
  <2>1. CASE b \in DOMAIN d.beliefs /\ Header(w.trees, b) = head[b]
    <3>1. CollectionsFit(trees, d, put[b], b) /\ head[b].collections[c] = put[b][c].tree
      BY <2>1 DEF HeadsFit
    <3>2. QED
      BY <2>1, <3>1 DEF CollectionsFit
  <2>2. CASE b \in DOMAIN Records(trees.beliefs) /\ Header(w.trees, b) = Header(trees, b)
    BY <2>2 DEF TreesHeld
  <2>3. QED
    BY <2>1, <2>2, HeadersAfter
<1>2. \A k \in IndexKinds : Held(IndexKeys[k], w.trees[k])
  BY DEF IndexesHold
<1>3. QED
  BY <1>1, <1>2 DEF TreesHeld

\* Every node reached afterwards was reached before or is written.
LEMMA ReachedAfter ==
  ASSUME NEW trees, TreesHeld(trees), NEW d, NEW put, NEW head, HeadsFit(trees, d, put, head),
         NEW w, IndexesHold(w, trees, d, head),
         \A b \in DOMAIN put : \A c \in Collections : put[b][c].written \subseteq w.written
  PROVE  Reached(w.trees) \subseteq Reached(trees) \cup w.written
<1>1. ASSUME NEW k \in IndexKinds PROVE Nodes(w.trees[k]) \subseteq Reached(trees) \cup w.written
  <2>1. Nodes(w.trees[k]) \subseteq Nodes(trees[k]) \cup w.written
    BY DEF IndexesHold
  <2>2. Nodes(trees[k]) \subseteq Reached(trees)
    BY DEF Reached
  <2>3. QED
    BY <2>1, <2>2
<1>2. ASSUME NEW b \in DOMAIN Records(w.trees.beliefs), NEW c \in Collections
      PROVE  Nodes(Header(w.trees, b).collections[c]) \subseteq Reached(trees) \cup w.written
  <2>1. CASE b \in DOMAIN d.beliefs /\ Header(w.trees, b) = head[b]
    <3>1. CollectionsFit(trees, d, put[b], b) /\ head[b].collections[c] = put[b][c].tree /\ b \in DOMAIN put
      BY <2>1 DEF HeadsFit
    <3>2. Nodes(put[b][c].tree) \subseteq Reached(trees) \cup put[b][c].written
      BY <3>1 DEF CollectionsFit
    <3>3. put[b][c].written \subseteq w.written
      BY <3>1
    <3>4. QED
      BY <2>1, <3>1, <3>2, <3>3
  <2>2. CASE b \in DOMAIN Records(trees.beliefs) /\ Header(w.trees, b) = Header(trees, b)
    BY <2>2 DEF Reached
  <2>3. QED
    BY <2>1, <2>2, HeadersAfter
<1>3. QED
  BY <1>1, <1>2 DEF Reached

\* The tables of the trees afterwards are those the delta is published on.
LEMMA DecodedAfter ==
  ASSUME NEW trees, NEW ended, TreesHeld(trees), NEW s, s = Decoded(trees, ended), NEW d,
         NEW put, NEW head, HeadsFit(trees, d, put, head), NEW w, IndexesHold(w, trees, d, head)
  PROVE  Decoded(w.trees, Upsert(d.relations, ended)) = Publish(s, d)
<1> DEFINE t == Decoded(w.trees, Upsert(d.relations, ended))
<1>1. PICK R : R = Records(trees.beliefs)
  OBVIOUS
<1>2. PICK R2 : R2 = Records(w.trees.beliefs)
  OBVIOUS
<1>3. /\ s.entities = Records(trees.entities) /\ s.links = Records(trees.links)
      /\ s.candidates = Records(trees.candidates) /\ s.events = Records(trees.events)
      /\ s.relations = ended
      /\ s.beliefs = [b \in DOMAIN R |-> BeliefOf(R[b])]
      /\ DOMAIN s = TableNames
  BY <1>1 DEF Decoded, Header, TableNames
<1>4. /\ t.entities = Records(w.trees.entities) /\ t.links = Records(w.trees.links)
      /\ t.candidates = Records(w.trees.candidates) /\ t.events = Records(w.trees.events)
      /\ t.relations = Upsert(d.relations, ended)
      /\ t.beliefs = [b \in DOMAIN R2 |-> BeliefOf(R2[b])]
      /\ IsTable(t) /\ DOMAIN t = TableNames
  BY <1>2 DEF Decoded, Header, TableNames, IsTable
<1>5. t.beliefs = Upsert(d.beliefs, s.beliefs)
  <2>1. R2 = Upsert(head, R)
    BY <1>1, <1>2 DEF IndexesHold
  <2>2. DOMAIN head = DOMAIN d.beliefs /\ \A b \in DOMAIN d.beliefs : BeliefOf(head[b]) = d.beliefs[b]
    BY DEF HeadsFit
  <2>3. DOMAIN R2 = DOMAIN d.beliefs \cup DOMAIN R /\ DOMAIN s.beliefs = DOMAIN R
    BY <1>3, <2>1, <2>2 DEF Upsert
  <2>4. \A b \in DOMAIN R2 : BeliefOf(R2[b]) = IF b \in DOMAIN d.beliefs THEN d.beliefs[b] ELSE s.beliefs[b]
    <3>1. ASSUME NEW b \in DOMAIN R2
          PROVE  BeliefOf(R2[b]) = IF b \in DOMAIN d.beliefs THEN d.beliefs[b] ELSE s.beliefs[b]
      <4>1. R2[b] = IF b \in DOMAIN d.beliefs THEN head[b] ELSE R[b]
        BY <2>1, <2>2 DEF Upsert
      <4>2. b \notin DOMAIN d.beliefs => s.beliefs[b] = BeliefOf(R[b])
        BY <1>3, <2>3
      <4>3. QED
        BY <2>2, <4>1, <4>2
    <3>2. QED
      BY <3>1
  <2>5. QED
    BY <1>4, <2>3, <2>4 DEF Upsert
<1> HIDE DEF t
<1>6. /\ t.entities = Upsert(d.entities, s.entities) /\ t.links = Upsert(d.links, s.links)
      /\ t.candidates = Upsert(d.candidates, s.candidates) /\ t.events = Upsert(d.events, s.events)
      /\ t.relations = Upsert(d.relations, s.relations)
  BY <1>3, <1>4 DEF IndexesHold
<1>7. PICK u : u = Publish(s, d)
  OBVIOUS
<1>8. /\ IsTable(u) /\ DOMAIN u = TableNames
      /\ \A x \in TableNames : u[x] = Upsert(d[x], s[x])
  BY <1>3, <1>7 DEF Publish, IsTable
<1>9. \A x \in TableNames : t[x] = Upsert(d[x], s[x])
  BY <1>5, <1>6 DEF TableNames
<1>10. t = u
  BY <1>4, <1>8, <1>9 DEF IsTable
<1>11. QED
  BY <1>7, <1>10 DEF t

LEMMA UpsertFits ==
  ASSUME NEW K, NEW a, NEW b, Fits(K, a), Fits(K, b)
  PROVE  Fits(K, Upsert(a, b))
<1>1. DOMAIN Upsert(a, b) = DOMAIN a \cup DOMAIN b
  BY DEF Upsert
<1>2. IsFiniteSet(DOMAIN a \cup DOMAIN b)
  BY FS_Union DEF Fits
<1>3. QED
  BY <1>1, <1>2 DEF Fits

\* Publishing a delta that fits keeps the tables typed.
LEMMA TypedAfter ==
  ASSUME NEW s, NEW r, NEW d, DOMAIN s = TableNames, Typed(s), DeltaFits(s, d, r)
  PROVE  Typed(Publish(s, d))
<1>1. PICK t : t = Publish(s, d)
  OBVIOUS
<1>2. /\ t.links = Upsert(d.links, s.links) /\ t.beliefs = Upsert(d.beliefs, s.beliefs)
      /\ t.candidates = Upsert(d.candidates, s.candidates)
  BY <1>1, PublishRows
<1>3. Fits(CandidateKeys, t.candidates)
  BY <1>2, UpsertFits DEF Typed, DeltaFits
<1>4. ASSUME NEW m \in DOMAIN t.links PROVE <<m>> \in MentionKeys /\ <<t.links[m].event>> \in EventKeys
  <2>1. CASE m \in DOMAIN d.links
    <3>1. t.links[m] = d.links[m]
      BY <1>2, <2>1, UpsertRows
    <3>2. QED
      BY <2>1, <3>1 DEF DeltaFits, Fits
  <2>2. CASE m \notin DOMAIN d.links
    <3>1. m \in DOMAIN s.links /\ t.links[m] = s.links[m]
      BY <1>2, <2>2, UpsertRows
    <3>2. QED
      BY <3>1 DEF Typed
  <2>3. QED
    BY <2>1, <2>2
<1>5. ASSUME NEW b \in DOMAIN t.beliefs
      PROVE  /\ <<b>> \in BeliefKeys /\ ScopeOf(t.beliefs[b]) \in ScopeKeys
             /\ IsTable(t.beliefs[b].candidates)
  <2>1. CASE b \in DOMAIN d.beliefs
    <3>1. t.beliefs[b] = d.beliefs[b]
      BY <1>2, <2>1, UpsertRows
    <3>2. RowFits(s, r, d.candidates, b, d.beliefs[b]) /\ <<b>> \in BeliefKeys
      BY <2>1 DEF DeltaFits, Fits
    <3>3. IsTable(Upsert(OfBelief(d.candidates, b), CandidatesBefore(s, b)))
      BY DEF IsTable, Upsert
    <3>4. QED
      BY <3>1, <3>2, <3>3 DEF RowFits
  <2>2. CASE b \notin DOMAIN d.beliefs
    <3>1. b \in DOMAIN s.beliefs /\ t.beliefs[b] = s.beliefs[b]
      BY <1>2, <2>2, UpsertRows
    <3>2. QED
      BY <3>1 DEF Typed
  <2>3. QED
    BY <2>1, <2>2
<1>6. QED
  BY <1>1, <1>3, <1>4, <1>5 DEF Typed

\* Entry e committed on the trees: its tables, which reach only stored or written nodes.
CommitHolds(trees, ended, c, t) ==
  /\ TreesHeld(c.trees)
  /\ Decoded(c.trees, Upsert(c.ended, ended)) = t
  /\ Typed(t)
  /\ Reached(c.trees) \subseteq Reached(trees) \cup c.written

LEMMA CommittedHolds ==
  ASSUME NEW trees, NEW ended, TreesHeld(trees), NEW s, s = Decoded(trees, ended),
         Typed(s), Consistent(s), NEW v, NEW e, e.req \in Requests, Admits(v, s, e.req), NEW pos
  PROVE  CommitHolds(trees, ended, Committed(trees, ended, e, pos), Apply(s, e, pos))
<1>1. PICK d : d = Delta(s, e.req, e.recorded, pos)
  OBVIOUS
<1>2. PICK r : r = e.req
  OBVIOUS
<1>3. DeltaFits(s, d, r) /\ WellFormed(r) /\ r \in Requests
  BY <1>1, <1>2, AdmittedFits, RequestAssumption
<1>4. \A b : \A m \in MentionsOf(r, b) : m \in DOMAIN s.links
  BY <1>2, <1>3, ClaimsLinked
<1>5. PICK put : put = Gathered(trees, d, r, s)
  OBVIOUS
<1>6. PICK head : head = Headed(d, put)
  OBVIOUS
<1>7. PICK c : c = Finished(trees, d, put, head)
  OBVIOUS
<1>8. Committed(trees, ended, e, pos) = c
  BY <1>1, <1>2, <1>5, <1>6, <1>7 DEF Committed, Reduced, Assembled
<1>9. HeadsFit(trees, d, put, head)
  BY <1>3, <1>4, <1>5, <1>6, HeadedFits
<1>10. /\ IndexesPut(c, trees, d, head)
       /\ \A b \in DOMAIN put : \A k \in Collections : put[b][k].written \subseteq c.written
       /\ c.ended = d.relations
  BY <1>7, FinishedIs
<1>11. IndexesHold(c, trees, d, head)
  BY <1>3, <1>9, <1>10, IndexesFit
<1>12. TreesHeld(c.trees)
  BY <1>9, <1>10, <1>11, TreesStayHeld DEF IndexesPut
<1>13. Reached(c.trees) \subseteq Reached(trees) \cup c.written
  BY <1>9, <1>10, <1>11, ReachedAfter
<1>14. Decoded(c.trees, Upsert(c.ended, ended)) = Publish(s, d)
  BY <1>9, <1>10, <1>11, DecodedAfter
<1>15. Typed(Publish(s, d))
  BY <1>3, TypedAfter DEF Consistent
<1>16. Apply(s, e, pos) = Publish(s, d)
  BY <1>1 DEF Apply
<1>17. QED
  BY <1>8, <1>12, <1>13, <1>14, <1>15, <1>16 DEF CommitHolds

-----------------------------------------------------------------------------
(***************************************************************************)
(* The stored trees follow the replay of the log.                          *)
(***************************************************************************)
LogEntries == [req : Requests, recorded : {0}]

\* The first n entries of log l were admitted one after another.
AdmittedTo(l, n) ==
  \A i \in 1..n : Admits(Projector, ReplayOf(l, EmptySnapshot)[i-1], l[i].req)

\* The trees show the first n entries of log l, and every node they reach is in ns.
TreesAt(l, n, trees, ended, ns) ==
  /\ TreesHeld(trees)
  /\ Decoded(trees, ended) = ReplayOf(l, EmptySnapshot)[n]
  /\ Typed(Decoded(trees, ended))
  /\ Reached(trees) \subseteq ns

LEMMA EmptyTreesAt ==
  ASSUME NEW l, Len(l) \in Nat
  PROVE  TreesAt(l, 0, EmptyTrees, NoRows, {})
<1>1. \A k \in IndexKinds : EmptyTrees[k] = Empty
  BY DEF EmptyTrees
<1>2. \A k \in IndexKinds : Held(IndexKeys[k], Empty)
  BY KeysRoutable, EmptyHeld
<1>3. Records(Empty) = NoRows /\ Nodes(Empty) = {}
  BY KeysRoutable, EmptyHeld DEF Collections
<1>4. /\ EmptyTrees.entities = Empty /\ EmptyTrees.links = Empty /\ EmptyTrees.beliefs = Empty
      /\ EmptyTrees.candidates = Empty /\ EmptyTrees.events = Empty
  BY <1>1 DEF IndexKinds
<1>5. DOMAIN NoRows = {} /\ NoRows = [b \in {} |-> BeliefOf(Header(EmptyTrees, b))]
  BY DEF NoRows
<1>6. Decoded(EmptyTrees, NoRows) = EmptySnapshot
  <2>1. [b \in DOMAIN Records(EmptyTrees.beliefs) |-> BeliefOf(Header(EmptyTrees, b))] = NoRows
    BY <1>3, <1>4, <1>5
  <2>2. QED
    BY <1>3, <1>4, <2>1 DEF Decoded, EmptySnapshot
<1>7. TreesHeld(EmptyTrees)
  <2>1. IsTable(EmptyTrees) /\ DOMAIN EmptyTrees = IndexKinds
    BY DEF IsTable, EmptyTrees
  <2>2. QED
    BY <1>1, <1>2, <1>3, <1>4, <1>5, <2>1 DEF TreesHeld
<1>8. Reached(EmptyTrees) = {}
  BY <1>1, <1>3, <1>4, <1>5 DEF Reached
<1>9. Typed(EmptySnapshot)
  <2>1. /\ EmptySnapshot.links = NoRows /\ EmptySnapshot.beliefs = NoRows
        /\ EmptySnapshot.candidates = NoRows
    BY DEF EmptySnapshot
  <2>2. Fits(CandidateKeys, NoRows)
    BY <1>5, FS_EmptySet DEF Fits
  <2>3. QED
    BY <1>5, <2>1, <2>2 DEF Typed
<1>10. ReplayOf(l, EmptySnapshot)[0] = EmptySnapshot
  BY ReplaySteps
<1>11. QED
  BY <1>6, <1>7, <1>8, <1>9, <1>10 DEF TreesAt

LEMMA LogOf ==
  ASSUME NEW l \in Seq(LogEntries)
  PROVE  /\ Len(l) \in Nat /\ DOMAIN l = 1..Len(l)
         /\ \A i \in 1..Len(l) : l[i].req \in Requests /\ WellFormed(l[i].req)
<1>1. Len(l) \in Nat /\ DOMAIN l = 1..Len(l) /\ \A i \in 1..Len(l) : l[i] \in LogEntries
  OBVIOUS
<1>2. \A i \in 1..Len(l) : l[i].req \in Requests
  BY <1>1 DEF LogEntries
<1>3. QED
  BY <1>1, <1>2, RequestAssumption

\* Committing the next entry on trees that show those before it.
LEMMA CommitAdvances ==
  ASSUME NEW l \in Seq(LogEntries), NEW i \in 1..Len(l), AdmittedTo(l, i), NEW trees, NEW ended,
         NEW ns, TreesAt(l, i-1, trees, ended, ns), NEW c, c = Committed(trees, ended, l[i], i)
  PROVE  TreesAt(l, i, c.trees, Upsert(c.ended, ended), ns \cup c.written)
<1>1. PICK R : R = ReplayOf(l, EmptySnapshot)
  OBVIOUS
<1>2. PICK s : s = Decoded(trees, ended)
  OBVIOUS
<1>3. /\ Len(l) \in Nat /\ l[i].req \in Requests
      /\ i - 1 \in 0..Len(l) /\ i \in 1..i
      /\ \A j \in 1..(i-1) : j \in 1..i /\ j \in 1..Len(l)
  BY LogOf
<1>4. s = R[i-1] /\ TreesHeld(trees) /\ Typed(s) /\ Reached(trees) \subseteq ns
  BY <1>1, <1>2 DEF TreesAt
<1>5. R[i] = Apply(R[i-1], l[i], i)
  BY <1>1, <1>3, ReplaySteps
<1>6. AdmittedUpTo(l, i-1)
  BY <1>3, LogOf DEF AdmittedTo, AdmittedUpTo
<1>7. Consistent(s)
  BY <1>1, <1>3, <1>4, <1>6, ReplayedTables
<1>8. Admits(Projector, s, l[i].req)
  BY <1>1, <1>3, <1>4 DEF AdmittedTo
<1>9. PICK e : e = l[i]
  OBVIOUS
<1>10. e.req \in Requests /\ Admits(Projector, s, e.req) /\ R[i] = Apply(s, e, i)
  BY <1>3, <1>4, <1>5, <1>8, <1>9
<1>11. CommitHolds(trees, ended, Committed(trees, ended, e, i), Apply(s, e, i))
  BY <1>2, <1>4, <1>7, <1>10, CommittedHolds
<1>12. CommitHolds(trees, ended, c, R[i])
  BY <1>9, <1>10, <1>11
<1>13. QED
  BY <1>1, <1>4, <1>12 DEF CommitHolds, TreesAt

\* Trees that show a prefix of a log show it of every log with that prefix.
LEMMA TreesOfPrefix ==
  ASSUME NEW l, Len(l) \in Nat, NEW k, Len(k) \in Nat, NEW n \in Nat, n <= Len(l), n <= Len(k),
         \A i \in 1..n : l[i] = k[i], NEW trees, NEW ended, NEW ns, TreesAt(l, n, trees, ended, ns)
  PROVE  TreesAt(k, n, trees, ended, ns)
<1>1. ReplayOf(l, EmptySnapshot)[n] = ReplayOf(k, EmptySnapshot)[n]
  BY ReplayPrefix
<1>2. QED
  BY <1>1 DEF TreesAt

-----------------------------------------------------------------------------
(***************************************************************************)
(* Committing a log from the start.                                        *)
(***************************************************************************)
CommittedAt(rows, l, i) == CommittedOn(rows, Committed(rows.trees, rows.ended, l[i], i))

\* at runs through n commits of log l, from the rows `start`.
IsRecommitted(at, l, n, start) ==
  at = [i \in 0..n |-> IF i = 0 THEN start ELSE CommittedAt(at[i-1], l, i)]

LEMMA RecommittedExists ==
  ASSUME NEW l, NEW start, NEW n \in Nat
  PROVE  \E at : IsRecommitted(at, l, n, start)
<1> DEFINE Bad == {k \in Nat : ~\E f : IsRecommitted(f, l, k, start)}
<1>1. SUFFICES ASSUME Bad # {} PROVE FALSE
  OBVIOUS
<1>2. Bad \in SUBSET Nat
  OBVIOUS
<1>3. PICK m \in Bad : \A k \in Bad : ~(k < m)
  <2> HIDE DEF Bad
  <2> QED BY <1>1, <1>2, Least
<1>4. m # 0
  <2> DEFINE f == [i \in 0..0 |-> start]
  <2>1. IsRecommitted(f, l, 0, start)
    BY DEF IsRecommitted
  <2> QED BY <2>1
<1>5. m - 1 \in Nat /\ m - 1 \notin Bad
  BY <1>3, <1>4
<1>6. PICK f : IsRecommitted(f, l, m - 1, start)
  BY <1>5
<1> DEFINE g == [i \in 0..m |-> IF i = 0 THEN start ELSE CommittedAt(f[i-1], l, i)]
<1>7. ASSUME NEW i \in 0..m, i # 0 PROVE g[i-1] = f[i-1]
  BY <1>4, <1>6, <1>7 DEF IsRecommitted
<1>8. IsRecommitted(g, l, m, start)
  BY <1>7 DEF IsRecommitted
<1>9. QED
  BY <1>8

LEMMA RecommittedSteps ==
  ASSUME NEW n \in Nat, NEW start
  PROVE  /\ Recommitted(n, start)[0] = start
         /\ \A i \in 1..n : Recommitted(n, start)[i] = CommittedAt(Recommitted(n, start)[i-1], log, i)
<1>1. IsRecommitted(Recommitted(n, start), log, n, start)
  <2>1. Recommitted(n, start) = CHOOSE at : IsRecommitted(at, log, n, start)
    BY DEF Recommitted, IsRecommitted, CommittedAt
  <2>2. \E at : IsRecommitted(at, log, n, start)
    BY RecommittedExists
  <2>3. QED
    BY ONLY <2>1, <2>2
<1>2. QED
  BY <1>1 DEF IsRecommitted

\* The rows at show the first n entries of the log.
RowsAt(at, n) == TreesAt(log, n, at.trees, at.ended, at.nodes)

\* The rows of a recovery that admitted the first n entries: each shows what it committed.
LEMMA RecommittedShows ==
  ASSUME log \in Seq(LogEntries), NEW n \in 0..Len(log), NEW at, at = Recommitted(n, Emptied),
         \A i \in 1..n : Admits(Projector, Decoded(at[i-1].trees, at[i-1].ended), log[i].req)
  PROVE  AdmittedTo(log, n) /\ RowsAt(at[n], n)
<1>1. Len(log) \in Nat /\ n \in Nat
  BY LogOf
<1>2. at[0] = Emptied /\ \A i \in 1..n : at[i] = CommittedAt(at[i-1], log, i)
  BY <1>1, RecommittedSteps
<1> DEFINE Shows(k) == AdmittedTo(log, k) /\ RowsAt(at[k], k)
           Bad == {k \in 0..n : ~Shows(k)}
<1>3. SUFFICES ASSUME Bad # {} PROVE FALSE
  BY <1>1
<1>4. PICK m \in Bad : \A k \in Bad : ~(k < m)
  <2>1. Bad \in SUBSET Nat
    BY <1>1
  <2> HIDE DEF Bad
  <2>2. QED
    BY <1>3, <2>1, Least
<1>5. m # 0
  <2>1. AdmittedTo(log, 0)
    BY DEF AdmittedTo
  <2>2. TreesAt(log, 0, EmptyTrees, NoRows, {})
    BY <1>1, EmptyTreesAt
  <2>3. RowsAt(at[0], 0)
    <3>1. PICK rows : rows = at[0]
      OBVIOUS
    <3>2. rows.trees = EmptyTrees /\ rows.ended = NoRows /\ rows.nodes = {}
      BY <1>2, <3>1 DEF Emptied
    <3>3. TreesAt(log, 0, rows.trees, rows.ended, rows.nodes)
      BY <2>2, <3>2
    <3>4. QED
      BY <3>1, <3>3 DEF RowsAt
  <2>4. QED
    BY <2>1, <2>3
<1>6. /\ m - 1 \in 0..n /\ m - 1 < m /\ m \in 1..n /\ m \in 1..Len(log) /\ m \in Nat
      /\ \A i \in 1..m : i \in 1..(m-1) \/ i = m
  BY <1>1, <1>5
<1>7. Shows(m-1)
  BY <1>4, <1>6
<1>8. PICK rows : rows = at[m-1]
  OBVIOUS
<1>9. TreesAt(log, m-1, rows.trees, rows.ended, rows.nodes)
  BY <1>7, <1>8 DEF RowsAt
<1>10. Decoded(rows.trees, rows.ended) = ReplayOf(log, EmptySnapshot)[m-1]
  BY <1>9 DEF TreesAt
<1>11. Admits(Projector, ReplayOf(log, EmptySnapshot)[m-1], log[m].req)
  BY <1>6, <1>8, <1>10
<1>12. AdmittedTo(log, m)
  BY <1>6, <1>7, <1>11 DEF AdmittedTo
<1>13. PICK c : c = Committed(rows.trees, rows.ended, log[m], m)
  OBVIOUS
<1>14. at[m] = CommittedOn(rows, c)
  BY <1>2, <1>6, <1>8, <1>13 DEF CommittedAt
<1>15. TreesAt(log, m, c.trees, Upsert(c.ended, rows.ended), rows.nodes \cup c.written)
  BY <1>6, <1>9, <1>12, <1>13, CommitAdvances
<1>16. RowsAt(at[m], m)
  BY <1>14, <1>15 DEF RowsAt, CommittedOn
<1>17. QED
  BY <1>4, <1>12, <1>16

-----------------------------------------------------------------------------
(***************************************************************************)
(* The invariant, and the steps.                                           *)
(***************************************************************************)
RootsWritten ==
  IF progress = 0 THEN roots = NoRows /\ nodes = {} /\ headers = NoRows
  ELSE IsTable(roots) /\ DOMAIN roots = IndexKinds

CommittedInv ==
  /\ log \in Seq(LogEntries)
  /\ progress \in 0..Len(log)
  /\ AdmittedTo(log, progress)
  /\ TreesAt(log, progress, Trees, relations, nodes)
  /\ RootsWritten

LEMMA CommittedInvInit == CommittedInit => CommittedInv
<1>1. SUFFICES ASSUME CommittedInit PROVE CommittedInv
  OBVIOUS
<1>2. /\ log = <<>> /\ nodes = {} /\ roots = NoRows /\ headers = NoRows /\ relations = NoRows
      /\ progress = 0
  BY <1>1 DEF CommittedInit
<1>3. log \in Seq(LogEntries) /\ Len(log) = 0
  BY <1>2
<1>4. TreesAt(log, 0, EmptyTrees, NoRows, {})
  BY <1>3, EmptyTreesAt
<1>5. Trees = EmptyTrees
  BY <1>2 DEF Trees
<1>6. TreesAt(log, progress, Trees, relations, nodes)
  BY <1>2, <1>4, <1>5
<1>7. AdmittedTo(log, progress)
  BY <1>2 DEF AdmittedTo
<1>8. QED
  BY <1>2, <1>3, <1>6, <1>7 DEF CommittedInv, RootsWritten

\* The rows of roots that a publication writes make all roots those of its trees.
LEMMA RootsPublished ==
  ASSUME CommittedInv, NEW t, IsTable(t), DOMAIN t = IndexKinds
  PROVE  Upsert(Restricted(t, RootChanges(Trees, t, progress + 1)), roots) = t
<1>1. PICK old : old = Trees
  OBVIOUS
<1>2. PICK S : S = RootChanges(old, t, progress + 1)
  OBVIOUS
<1>3. S \in SUBSET IndexKinds
  BY <1>2 DEF RootChanges
<1>4. PICK u : u = Upsert(Restricted(t, S), roots)
  OBVIOUS
<1>5. /\ DOMAIN u = S \cup DOMAIN roots
      /\ IsTable(u)
      /\ \A k \in S : u[k] = t[k]
      /\ \A k \in DOMAIN roots : k \notin S => u[k] = roots[k]
  BY <1>4 DEF Upsert, Restricted, IsTable
<1>6. CASE progress = 0
  <2>1. S = IndexKinds
    BY <1>2, <1>6 DEF RootChanges
  <2>2. DOMAIN roots = {}
    BY <1>6 DEF CommittedInv, RootsWritten, NoRows
  <2>3. u = t
    BY <1>5, <2>1, <2>2 DEF IsTable
  <2>4. QED
    BY <1>1, <1>2, <1>4, <2>3
<1>7. CASE progress # 0
  <2>1. DOMAIN roots = IndexKinds /\ old = roots
    BY <1>1, <1>7 DEF CommittedInv, RootsWritten, Trees
  <2>2. \A k \in IndexKinds : k \notin S => t[k] = roots[k]
    BY <1>2, <2>1 DEF RootChanges
  <2>3. DOMAIN u = IndexKinds /\ \A k \in IndexKinds : u[k] = t[k]
    BY <1>3, <1>5, <2>1, <2>2
  <2>4. u = t
    BY <1>5, <2>3 DEF IsTable
  <2>5. QED
    BY <1>1, <1>2, <1>4, <2>4
<1>8. QED
  BY <1>6, <1>7

\* The projector comes to show the first n entries.
ShownStep(n) ==
  /\ progress' = n /\ UNCHANGED log
  /\ AdmittedTo(log, n)
  /\ TreesAt(log, n, Trees', relations', nodes')
  /\ RootsWritten'

LEMMA PublishShows ==
  ASSUME CommittedInv, PublishDelta
  PROVE  progress + 1 \in 0..Len(log) /\ ShownStep(progress + 1)
<1>1. PICK pos : pos = progress + 1
  OBVIOUS
<1>2. /\ progress < Len(log)
      /\ Admits(Projector, Snapshot, log[pos].req)
      /\ progress' = pos /\ log' = log
  BY <1>1 DEF PublishDelta
<1>3. PICK c : /\ c = Committed(Trees, relations, log[pos], pos)
               /\ nodes' = nodes \cup c.written
               /\ roots' = Upsert(Restricted(c.trees, RootChanges(Trees, c.trees, pos)), roots)
               /\ relations' = Upsert(c.ended, relations)
  BY <1>1 DEF PublishDelta
<1>4. /\ log \in Seq(LogEntries) /\ AdmittedTo(log, progress)
      /\ TreesAt(log, progress, Trees, relations, nodes)
      /\ progress \in 0..Len(log) /\ Len(log) \in Nat
  BY DEF CommittedInv
<1>5. /\ pos \in 1..Len(log) /\ pos - 1 = progress /\ pos \in 0..Len(log) /\ pos # 0
      /\ \A i \in 1..pos : i \in 1..progress \/ i = pos
  BY <1>1, <1>2, <1>4
<1>6. Snapshot = ReplayOf(log, EmptySnapshot)[pos-1]
  BY <1>4, <1>5 DEF TreesAt, Snapshot
<1>7. AdmittedTo(log, pos)
  BY <1>2, <1>4, <1>5, <1>6 DEF AdmittedTo
<1>8. TreesAt(log, pos-1, Trees, relations, nodes)
  BY <1>4, <1>5
<1>9. TreesAt(log, pos, c.trees, Upsert(c.ended, relations), nodes \cup c.written)
  BY <1>3, <1>4, <1>5, <1>7, <1>8, CommitAdvances
<1>10. IsTable(c.trees) /\ DOMAIN c.trees = IndexKinds
  BY <1>9 DEF TreesAt, TreesHeld
<1>11. roots' = c.trees
  BY <1>1, <1>3, <1>10, RootsPublished
<1>12. Trees' = c.trees
  BY <1>2, <1>5, <1>11 DEF Trees
<1>13. RootsWritten'
  BY <1>2, <1>5, <1>10, <1>11 DEF RootsWritten
<1>14. TreesAt(log, pos, Trees', relations', nodes')
  BY <1>3, <1>9, <1>12
<1>15. QED
  BY <1>1, <1>2, <1>5, <1>7, <1>13, <1>14 DEF ShownStep

LEMMA RebuildShows ==
  ASSUME CommittedInv, RebuildTrees
  PROVE  \E n \in 0..Len(log) : ShownStep(n)
<1>1. PICK n \in 0..Len(log) :
        \E at \in {Recommitted(n, Emptied)} :
          /\ \A i \in 1..n : Admits(Projector, Decoded(at[i-1].trees, at[i-1].ended), log[i].req)
          /\ nodes' = at[n].nodes
          /\ roots' = IF n = 0 THEN NoRows ELSE at[n].trees
          /\ headers' = at[n].headers
          /\ relations' = at[n].ended
          /\ progress' = n
          /\ UNCHANGED log
  BY DEF RebuildTrees
<1>2. PICK at : at = Recommitted(n, Emptied)
  OBVIOUS
<1>3. /\ \A i \in 1..n : Admits(Projector, Decoded(at[i-1].trees, at[i-1].ended), log[i].req)
      /\ progress' = n /\ log' = log
  BY <1>1, <1>2
<1>4. PICK rows : rows = at[n]
  OBVIOUS
<1>5. /\ nodes' = rows.nodes /\ headers' = rows.headers /\ relations' = rows.ended
      /\ roots' = IF n = 0 THEN NoRows ELSE rows.trees
  BY <1>1, <1>2, <1>4
<1>6. log \in Seq(LogEntries) /\ Len(log) \in Nat /\ n \in Nat
  BY DEF CommittedInv
<1>7. AdmittedTo(log, n) /\ RowsAt(at[n], n)
  BY <1>2, <1>3, <1>6, RecommittedShows
<1>8. TreesAt(log, n, rows.trees, rows.ended, rows.nodes)
  BY <1>4, <1>7 DEF RowsAt
<1>9. n = 0 => rows.trees = EmptyTrees /\ rows.nodes = {} /\ rows.headers = NoRows
  <2>1. SUFFICES ASSUME n = 0 PROVE rows.trees = EmptyTrees /\ rows.nodes = {} /\ rows.headers = NoRows
    OBVIOUS
  <2>2. rows = Emptied
    BY <1>2, <1>4, <1>6, <2>1, RecommittedSteps
  <2>3. QED
    BY <2>2 DEF Emptied
<1>10. IsTable(rows.trees) /\ DOMAIN rows.trees = IndexKinds
  BY <1>8 DEF TreesAt, TreesHeld
<1>11. Trees' = rows.trees
  BY <1>3, <1>5, <1>9 DEF Trees
<1>12. RootsWritten'
  BY <1>3, <1>5, <1>9, <1>10 DEF RootsWritten
<1>13. TreesAt(log, n, Trees', relations', nodes')
  BY <1>5, <1>8, <1>11
<1>14. QED
  BY <1>3, <1>7, <1>12, <1>13 DEF ShownStep

\* An append leaves the earlier entries, and all rows, where they are.
LEMMA AcceptKeeps ==
  ASSUME CommittedInv, NEW r \in Requests, AcceptRequest(r)
  PROVE  /\ log' = Append(log, [req |-> r, recorded |-> 0])
         /\ log' \in Seq(LogEntries) /\ Len(log') = Len(log) + 1 /\ Len(log) \in Nat
         /\ progress = Len(log)
         /\ \A i \in 1..Len(log) : log'[i] = log[i]
         /\ UNCHANGED <<nodes, roots, headers, relations, progress>>
<1>1. log \in Seq(LogEntries) /\ [req |-> r, recorded |-> 0] \in LogEntries
  BY DEF CommittedInv, LogEntries
<1>2. /\ log' = Append(log, [req |-> r, recorded |-> 0]) /\ progress = Len(log)
      /\ UNCHANGED <<nodes, roots, headers, relations, progress>>
  BY DEF AcceptRequest
<1>3. QED
  BY <1>1, <1>2

LEMMA CommittedInvAccept ==
  ASSUME CommittedInv, NEW r \in Requests, AcceptRequest(r)
  PROVE  CommittedInv'
<1>1. PICK k : k = log'
  OBVIOUS
<1>2. /\ k \in Seq(LogEntries) /\ Len(k) = Len(log) + 1 /\ Len(log) \in Nat
      /\ \A i \in 1..Len(log) : k[i] = log[i]
      /\ progress = Len(log)
      /\ UNCHANGED <<nodes, roots, headers, relations, progress>>
  BY <1>1, AcceptKeeps
<1>3. AdmittedTo(log, progress) /\ TreesAt(log, progress, Trees, relations, nodes) /\ RootsWritten
  BY DEF CommittedInv
<1>4. TreesAt(k, progress, Trees, relations, nodes)
  <2>1. /\ Len(k) \in Nat /\ progress \in Nat /\ progress <= Len(log) /\ progress <= Len(k)
        /\ \A i \in 1..progress : log[i] = k[i]
    BY <1>2
  <2>2. QED
    BY <1>2, <1>3, <2>1, TreesOfPrefix
<1>5. AdmittedTo(k, progress)
  <2>1. SUFFICES ASSUME NEW i \in 1..progress
                 PROVE  Admits(Projector, ReplayOf(k, EmptySnapshot)[i-1], k[i].req)
    BY DEF AdmittedTo
  <2>2. /\ Len(k) \in Nat /\ i - 1 \in Nat /\ i - 1 <= Len(log) /\ i - 1 <= Len(k)
        /\ \A j \in 1..(i-1) : log[j] = k[j]
        /\ k[i] = log[i]
    BY <1>2
  <2>3. ReplayOf(log, EmptySnapshot)[i-1] = ReplayOf(k, EmptySnapshot)[i-1]
    <3>1. \A j \in 1..(i-1) : \A s, pos : Apply(s, log[j], pos) = Apply(s, k[j], pos)
      BY <2>2
    <3>2. Len(log) \in Nat
      BY <1>2
    <3>3. QED
      BY ONLY <2>2, <3>1, <3>2, ReplayPrefix
  <2>4. Admits(Projector, ReplayOf(log, EmptySnapshot)[i-1], log[i].req)
    BY <1>3 DEF AdmittedTo
  <2>5. QED
    BY <2>2, <2>3, <2>4
<1>6. Trees' = Trees
  BY <1>2 DEF Trees
<1>7. RootsWritten'
  BY <1>2, <1>3 DEF RootsWritten
<1>8. progress' \in 0..Len(log')
  BY <1>1, <1>2
<1>9. QED
  BY <1>1, <1>2, <1>4, <1>5, <1>6, <1>7, <1>8 DEF CommittedInv

LEMMA CommittedInvShown ==
  ASSUME CommittedInv, NEW n \in 0..Len(log), ShownStep(n)
  PROVE  CommittedInv'
<1>1. /\ progress' = n /\ log' = log /\ AdmittedTo(log, n)
      /\ TreesAt(log, n, Trees', relations', nodes') /\ RootsWritten'
  BY DEF ShownStep
<1>2. log \in Seq(LogEntries)
  BY DEF CommittedInv
<1>3. QED
  BY <1>1, <1>2 DEF CommittedInv

LEMMA CommittedInvNext == CommittedInv /\ [CommittedNext]_committedVars => CommittedInv'
<1>1. SUFFICES ASSUME CommittedInv, [CommittedNext]_committedVars PROVE CommittedInv'
  OBVIOUS
<1>2. ASSUME NEW r \in Requests, AcceptRequest(r) PROVE CommittedInv'
  BY <1>1, <1>2, CommittedInvAccept
<1>3. CASE PublishDelta
  BY <1>1, <1>3, PublishShows, CommittedInvShown
<1>4. CASE RebuildTrees
  BY <1>1, <1>4, RebuildShows, CommittedInvShown
<1>5. CASE UNCHANGED committedVars
  <2>1. UNCHANGED <<log, nodes, roots, headers, relations, progress>>
    BY <1>5 DEF committedVars
  <2>2. Trees' = Trees
    BY <2>1 DEF Trees
  <2>3. RootsWritten' <=> RootsWritten
    BY <2>1 DEF RootsWritten
  <2>4. QED
    BY <1>1, <2>1, <2>2, <2>3 DEF CommittedInv
<1>6. QED
  BY <1>1, <1>2, <1>3, <1>4, <1>5 DEF CommittedNext

\* The stored trees can always be read, through publications and recoveries:
\* RootsReachTheirNodes.
THEOREM StoredTreesReadable == CommittedSpec => []RootsReachTheirNodes
<1>1. CommittedInv => RootsReachTheirNodes
  BY DEF CommittedInv, RootsReachTheirNodes, Readable, RootsWritten, TreesAt, Trees
<1>2. QED
  BY <1>1, CommittedInvInit, CommittedInvNext, PTL DEF CommittedSpec

-----------------------------------------------------------------------------
(***************************************************************************)
(* The trees implement the ledger.                                         *)
(***************************************************************************)
\* The tables that a prefix of a log determines are those its replay reaches.
LEMMA PrefixReplays ==
  ASSUME NEW l \in Seq(LogEntries), NEW n \in 0..Len(l)
  PROVE  TablesOf(SubSeq(l, 1, n)) = ReplayOf(l, EmptySnapshot)[n]
<1>1. PICK p : p = SubSeq(l, 1, n)
  OBVIOUS
<1>2. Len(p) = n /\ n \in Nat /\ n <= Len(l) /\ Len(l) \in Nat /\ \A i \in 1..n : p[i] = l[i]
  BY <1>1
<1>3. \A i \in 1..n : \A s, pos : Apply(s, p[i], pos) = Apply(s, l[i], pos)
  BY <1>2
<1>4. n <= Len(p) /\ Len(p) \in Nat
  BY <1>2
<1>5. ReplayOf(p, EmptySnapshot)[n] = ReplayOf(l, EmptySnapshot)[n]
  BY ONLY <1>2, <1>3, <1>4, ReplayPrefix
<1>6. QED
  BY <1>1, <1>2, <1>5 DEF TablesOf

LEMMA SnapshotReplays ==
  ASSUME CommittedInv
  PROVE  Snapshot = ReplayOf(log, EmptySnapshot)[progress]
BY DEF CommittedInv, TreesAt, Snapshot

LEMMA TreesLedgerInit == CommittedInit => Abstract!Init
<1>1. SUFFICES ASSUME CommittedInit PROVE Abstract!Init
  OBVIOUS
<1>2. log = <<>> /\ progress = 0 /\ Len(<<>>) = 0
  BY <1>1 DEF CommittedInit
<1>3. CommittedInv
  BY <1>1, CommittedInvInit
<1>4. ReplayOf(<<>>, EmptySnapshot)[0] = EmptySnapshot
  BY <1>2, ReplaySteps
<1>5. Snapshot = EmptySnapshot
  BY <1>2, <1>3, <1>4, SnapshotReplays
<1>6. TablesOf(<<>>) = EmptySnapshot
  BY <1>2, <1>4 DEF TablesOf
<1>7. QED
  BY <1>2, <1>5, <1>6 DEF Abstract!Init

LEMMA AcceptAccepts ==
  ASSUME CommittedInv, NEW r \in Requests, AcceptRequest(r)
  PROVE  Abstract!Accept(Projector, r, 0)
<1>1. /\ log' = Append(log, [req |-> r, recorded |-> 0]) /\ progress = Len(log)
      /\ Len(log) \in Nat
      /\ UNCHANGED <<nodes, roots, headers, relations, progress>>
  BY AcceptKeeps
<1>2. /\ \A i \in DOMAIN log : log[i].req # r
      /\ Admits(Projector, Snapshot, r)
  BY DEF AcceptRequest
<1>3. \A i \in DOMAIN log : log[i].recorded <= 0
  <2>1. \A i \in DOMAIN log : log[i] \in LogEntries
    BY DEF CommittedInv
  <2>2. QED
    BY <2>1 DEF LogEntries
<1>4. Admits(Projector, TablesOf(log), r)
  <2>1. log \in Seq(LogEntries) /\ log = SubSeq(log, 1, Len(log)) /\ Len(log) \in 0..Len(log)
    BY <1>1 DEF CommittedInv
  <2>2. TablesOf(SubSeq(log, 1, Len(log))) = ReplayOf(log, EmptySnapshot)[Len(log)]
    BY <2>1, PrefixReplays
  <2>3. Snapshot = ReplayOf(log, EmptySnapshot)[Len(log)]
    BY <1>1, SnapshotReplays
  <2>4. QED
    BY <1>2, <2>1, <2>2, <2>3
<1>5. Snapshot' = Snapshot
  <2>1. Trees' = Trees
    BY <1>1 DEF Trees
  <2>2. QED
    BY <1>1, <2>1 DEF Snapshot
<1>6. [v \in {Projector} |-> progress][Projector] = Len(log)
  BY <1>1
<1>7. /\ [v \in {Projector} |-> progress]' = [v \in {Projector} |-> progress]
      /\ [v \in {Projector} |-> Snapshot]' = [v \in {Projector} |-> Snapshot]
  BY <1>1, <1>5
<1>8. QED
  BY <1>1, <1>2, <1>3, <1>4, <1>6, <1>7 DEF Abstract!Accept

LEMMA ShownShows ==
  ASSUME CommittedInv, NEW n \in 0..Len(log), ShownStep(n)
  PROVE  Abstract!Show(Projector, n)
<1>1. /\ progress' = n /\ log' = log /\ AdmittedTo(log, n)
      /\ TreesAt(log, n, Trees', relations', nodes')
  BY DEF ShownStep
<1>2. log \in Seq(LogEntries) /\ Len(log) \in Nat
  BY DEF CommittedInv
<1>3. \A i \in 1..n : Admits(Projector, TablesOf(SubSeq(log, 1, i-1)), log[i].req)
  <2>1. SUFFICES ASSUME NEW i \in 1..n
                 PROVE  Admits(Projector, TablesOf(SubSeq(log, 1, i-1)), log[i].req)
    OBVIOUS
  <2>2. PICK j : j = i - 1
    OBVIOUS
  <2>3. j \in 0..Len(log)
    BY <1>2, <2>2
  <2>4. TablesOf(SubSeq(log, 1, j)) = ReplayOf(log, EmptySnapshot)[j]
    BY <1>2, <2>3, PrefixReplays
  <2>5. Admits(Projector, ReplayOf(log, EmptySnapshot)[j], log[i].req)
    BY <1>1, <2>2 DEF AdmittedTo
  <2>6. QED
    BY <2>2, <2>4, <2>5
<1>4. Snapshot' = TablesOf(SubSeq(log, 1, n))
  <2>1. Snapshot' = ReplayOf(log, EmptySnapshot)[n]
    BY <1>1 DEF Snapshot, TreesAt
  <2>2. QED
    BY <1>2, <2>1, PrefixReplays
<1>5. /\ [v \in {Projector} |-> progress]' = [[v \in {Projector} |-> progress] EXCEPT ![Projector] = n]
      /\ [v \in {Projector} |-> Snapshot]'
           = [[v \in {Projector} |-> Snapshot] EXCEPT ![Projector] = TablesOf(SubSeq(log, 1, n))]
  BY <1>1, <1>4
<1>6. QED
  BY <1>1, <1>3, <1>5 DEF Abstract!Show, Abstract!Prefix

AbstractVars == <<log, [v \in {Projector} |-> progress], [v \in {Projector} |-> Snapshot]>>

LEMMA TreesLedgerNext ==
  CommittedInv /\ [CommittedNext]_committedVars => [Abstract!Next]_AbstractVars
<1>1. SUFFICES ASSUME CommittedInv, [CommittedNext]_committedVars PROVE [Abstract!Next]_AbstractVars
  OBVIOUS
<1>2. ASSUME NEW r \in Requests, AcceptRequest(r) PROVE Abstract!Next
  BY <1>1, <1>2, AcceptAccepts DEF Abstract!Next
<1>3. ASSUME NEW n \in 0..Len(log), ShownStep(n) PROVE Abstract!Next
  BY <1>1, <1>3, ShownShows DEF Abstract!Next
<1>4. CASE PublishDelta
  BY <1>1, <1>3, <1>4, PublishShows
<1>5. CASE RebuildTrees
  BY <1>1, <1>3, <1>5, RebuildShows
<1>6. CASE UNCHANGED committedVars
  <2>1. UNCHANGED <<log, roots, relations, progress>>
    BY <1>6 DEF committedVars
  <2>2. Trees' = Trees
    BY <2>1 DEF Trees
  <2>3. Snapshot' = Snapshot
    BY <2>1, <2>2 DEF Snapshot
  <2>4. QED
    BY <2>1, <2>3 DEF AbstractVars
<1>7. QED
  BY <1>1, <1>2, <1>4, <1>5, <1>6 DEF CommittedNext

\* The trees implement the ledger: an append is an acceptance, a publication and a
\* recovery show another prefix, and what is read out of the trees is what that
\* prefix determines.
THEOREM TreesAreTheLedger == CommittedSpec => TreesImplementLedger
<1>1. CommittedSpec => []CommittedInv
  BY CommittedInvInit, CommittedInvNext, PTL DEF CommittedSpec
<1>2. QED
  BY <1>1, TreesLedgerInit, TreesLedgerNext, PTL
     DEF CommittedSpec, TreesImplementLedger, Abstract!Spec, AbstractVars
================================================================================
