------------------------------ MODULE MerkleProofs ------------------------------
(***************************************************************************)
(* Theorems about the Merkle map for every set of keys whose routes tell   *)
(* them apart, any values and any width.                                   *)
(*                                                                         *)
(* A group of keys splits at the first bit on which their routes differ;   *)
(* its tree is a branch there over the trees of its two sides, which split *)
(* later or not at all.  Every node of a map's tree is the tree of some    *)
(* group, and every operation goes down from group to side, so whatever    *)
(* is to be shown of an operation is shown of a smallest group for which   *)
(* it might fail.                                                          *)
(***************************************************************************)
EXTENDS MerkleMap, WellFoundedInduction, TLAPS

-----------------------------------------------------------------------------
(***************************************************************************)
(* Numbers.                                                                *)
(***************************************************************************)
\* A set of numbers has a least one, which is what the inductions here rest on.
LEMMA Smallest ==
  ASSUME NEW T \in SUBSET Nat, T # {}
  PROVE  \E m \in T : \A k \in T : ~(k < m)
<1>1. \E m \in T : \A k \in T : ~(<<k, m>> \in OpToRel(<, Nat))
  BY NatLessThanWellFounded, WFMin, Zenon
<1>2. QED
  BY <1>1 DEF OpToRel

\* Min of numbers is one of them and below the others.
LEMMA MinIs ==
  ASSUME NEW T \in SUBSET Nat, T # {}
  PROVE  Min(T) \in T /\ \A x \in T : Min(T) <= x
<1>1. \E m \in T : \A x \in T : m <= x
  <2>1. PICK m \in T : \A x \in T : ~(x < m)
    BY Smallest
  <2>2. \A x \in T : m <= x
    BY <2>1
  <2>3. QED
    BY <2>2
<1>2. QED
  BY <1>1 DEF Min

\* So is Max, the other way, when they are bounded.
LEMMA MaxIs ==
  ASSUME NEW n \in Nat, NEW T \in SUBSET (0..n), T # {}
  PROVE  Max(T) \in T /\ \A x \in T : Max(T) >= x
<1> DEFINE U == {n - x : x \in T}
<1>1. U \in SUBSET Nat /\ U # {}
  <2>1. \A x \in T : n - x \in Nat
    OBVIOUS
  <2>2. QED
    BY <2>1
<1>2. PICK m \in U : \A x \in U : ~(x < m)
  <2> HIDE DEF U
  <2> QED BY <1>1, Smallest
<1>3. PICK y \in T : m = n - y
  BY <1>2
<1>4. ASSUME NEW x \in T PROVE y >= x
  <2>1. n - x \in U
    OBVIOUS
  <2>2. ~(n - x < n - y)
    BY <1>2, <1>3, <2>1
  <2>3. x \in Int /\ y \in Int
    OBVIOUS
  <2>4. QED
    BY <2>2, <2>3
<1>5. QED
  BY <1>4 DEF Max

-----------------------------------------------------------------------------
(***************************************************************************)
(* Routes and groups of keys.                                              *)
(***************************************************************************)

\* Two routes with the same first n bits.
Agree(a, b, n) == \A i \in 1..n : a[i] = b[i]

\* Prefixes are equal when the routes agree that far.
LEMMA PaddedAgree ==
  ASSUME NEW a, NEW b, Width \in Nat, NEW n \in 0..Width
  PROVE  (Padded(a, n) = Padded(b, n)) <=> Agree(a, b, n)
<1>1. ASSUME Padded(a, n) = Padded(b, n), NEW i \in 1..n PROVE a[i] = b[i]
  <2>1. i \in 1..Width /\ i <= n
    OBVIOUS
  <2>2. Padded(a, n)[i] = a[i] /\ Padded(b, n)[i] = b[i]
    BY <2>1 DEF Padded
  <2>3. QED
    BY <1>1, <2>2
<1>2. ASSUME Agree(a, b, n) PROVE Padded(a, n) = Padded(b, n)
  <2>1. ASSUME NEW i \in 1..Width
        PROVE  (IF i <= n THEN a[i] ELSE 0) = (IF i <= n THEN b[i] ELSE 0)
    BY <1>2 DEF Agree
  <2>2. QED
    BY <2>1 DEF Padded
<1>3. QED
  BY <1>1, <1>2 DEF Agree

\* A prefix agrees with its route.
LEMMA PaddedBits ==
  ASSUME NEW a, NEW n \in 0..Width, Width \in Nat
  PROVE  Agree(Padded(a, n), a, n)
<1>1. ASSUME NEW i \in 1..n PROVE Padded(a, n)[i] = a[i]
  <2>1. i \in 1..Width /\ i <= n
    OBVIOUS
  <2>2. QED
    BY <2>1 DEF Padded
<1>2. QED
  BY <1>1 DEF Agree

\* The routes of a group of keys agree on their first c bits.
Common(S, c) == \A j, k \in S : Agree(Route(j), Route(k), c)

\* They agree on the first c bits and not on the next.
Splits(S, c) ==
  /\ c \in 0..(Width - 1)
  /\ Common(S, c)
  /\ \E j, k \in S : Route(j)[c + 1] # Route(k)[c + 1]

\* The keys of a group on one side of bit c.
On(S, c, side) == {k \in S : Direction(Route(k), c) = side}

\* Routes of different keys differ at some bit.
LEMMA RoutesPart ==
  ASSUME NEW S, Routable(S), NEW j \in S, NEW k \in S, j # k
  PROVE  \E i \in 1..Width : Route(j)[i] # Route(k)[i]
<1>1. Route(j) \in [1..Width -> {0, 1}] /\ Route(k) \in [1..Width -> {0, 1}] /\ Route(j) # Route(k)
  BY DEF Routable
<1>2. ASSUME \A i \in 1..Width : Route(j)[i] = Route(k)[i] PROVE FALSE
  <2>1. Route(j) = [i \in 1..Width |-> Route(j)[i]]
    BY <1>1
  <2>2. Route(k) = [i \in 1..Width |-> Route(k)[i]]
    BY <1>1
  <2>3. [i \in 1..Width |-> Route(j)[i]] = [i \in 1..Width |-> Route(k)[i]]
    BY ONLY <1>2
  <2>4. QED
    BY <1>1, <2>1, <2>2, <2>3
<1>3. QED
  BY <1>2

\* Two or more keys split at CommonBits, and only there.
LEMMA SplitsSomewhere ==
  ASSUME NEW S, Routable(S), NEW j \in S, NEW k \in S, j # k
  PROVE  Splits(S, CommonBits(S))
<1> DEFINE N == {n \in 0..Width : \A x, y \in S : Padded(Route(x), n) = Padded(Route(y), n)}
           c == CommonBits(S)
<1>1. Width \in Nat /\ c = Max(N)
  BY DEF CommonBits, Routable
<1> HIDE DEF c
<1>2. 0 \in N
  <2>1. \A x, y \in S : Agree(Route(x), Route(y), 0)
    BY DEF Agree
  <2>2. 0 \in 0..Width
    BY <1>1
  <2>3. QED
    BY <1>1, <2>1, <2>2, PaddedAgree
<1>3. c \in N /\ \A n \in N : c >= n
  <2>1. N \in SUBSET (0..Width) /\ N # {}
    BY <1>2
  <2> HIDE DEF N
  <2>2. QED
    BY <1>1, <2>1, MaxIs
<1>4. c \in 0..Width /\ Common(S, c)
  BY <1>1, <1>3, PaddedAgree DEF Common
<1>5. c # Width
  <2>1. PICK i \in 1..Width : Route(j)[i] # Route(k)[i]
    BY RoutesPart
  <2>2. QED
    BY <1>4, <2>1 DEF Common, Agree
<1>6. c + 1 \in 0..Width /\ c + 1 \notin N /\ c \in 0..(Width - 1)
  <2>1. c + 1 \in 0..Width /\ c \in 0..(Width - 1) /\ ~(c >= c + 1)
    BY <1>1, <1>4, <1>5
  <2> HIDE DEF N
  <2>2. QED
    BY <1>3, <2>1
<1>7. PICK x \in S, y \in S : Padded(Route(x), c + 1) # Padded(Route(y), c + 1)
  BY <1>6
<1>8. Route(x)[c + 1] # Route(y)[c + 1]
  <2>1. ~Agree(Route(x), Route(y), c + 1)
    BY <1>1, <1>6, <1>7, PaddedAgree
  <2>2. PICK i \in 1..(c + 1) : Route(x)[i] # Route(y)[i]
    BY <2>1 DEF Agree
  <2>3. i \notin 1..c
    BY <1>4, <2>2 DEF Common, Agree
  <2>4. i = c + 1
    BY <1>4, <2>2, <2>3
  <2>5. QED
    BY <2>2, <2>4
<1>9. QED
  BY <1>4, <1>6, <1>8 DEF Splits, c

\* A group splits at one bit only.
LEMMA SplitsOnce ==
  ASSUME NEW S, Width \in Nat, NEW c, Splits(S, c), NEW d, Splits(S, d)
  PROVE  c = d
<1>1. ASSUME NEW x \in 0..(Width - 1), NEW y \in 0..(Width - 1), Splits(S, x), Splits(S, y) PROVE ~(x < y)
  <2>1. SUFFICES ASSUME x < y PROVE FALSE
    OBVIOUS
  <2>2. PICK j \in S, k \in S : Route(j)[x + 1] # Route(k)[x + 1]
    BY <1>1 DEF Splits
  <2>3. x + 1 \in 1..y
    BY <2>1
  <2>4. QED
    BY <1>1, <2>2, <2>3 DEF Splits, Common, Agree
<1>2. c \in 0..(Width - 1) /\ d \in 0..(Width - 1)
  BY DEF Splits
<1>3. QED
  BY <1>1, <1>2

\* That bit is CommonBits.
LEMMA SplitIs ==
  ASSUME NEW S, Routable(S), NEW c, Splits(S, c)
  PROVE  CommonBits(S) = c
<1>1. PICK j \in S, k \in S : Route(j)[c + 1] # Route(k)[c + 1]
  BY DEF Splits
<1>2. Splits(S, CommonBits(S))
  BY <1>1, SplitsSomewhere
<1>3. QED
  BY <1>2, SplitsOnce DEF Routable

\* The two sides of a split.
LEMMA SplitSides ==
  ASSUME NEW S, Routable(S), NEW c, Splits(S, c)
  PROVE  /\ On(S, c, 0) # {} /\ On(S, c, 1) # {}
         /\ On(S, c, 0) \cap On(S, c, 1) = {}
         /\ On(S, c, 0) \cup On(S, c, 1) = S
         /\ \A k \in S : Direction(Route(k), c) \in {0, 1}
         /\ Common(On(S, c, 0), c + 1) /\ Common(On(S, c, 1), c + 1)
<1>1. c + 1 \in 1..Width /\ Width \in Nat /\ c \in 0..(Width - 1)
  BY DEF Splits, Routable
<1>2. \A k \in S : Direction(Route(k), c) \in {0, 1}
  BY <1>1 DEF Routable, Direction
<1>3. On(S, c, 0) # {} /\ On(S, c, 1) # {}
  <2>1. PICK j \in S, k \in S : Direction(Route(j), c) # Direction(Route(k), c)
    BY DEF Splits, Direction
  <2>2. QED
    BY <1>2, <2>1 DEF On
<1>4. ASSUME NEW side PROVE Common(On(S, c, side), c + 1)
  <2>1. ASSUME NEW j \in On(S, c, side), NEW k \in On(S, c, side), NEW i \in 1..(c + 1)
        PROVE  Route(j)[i] = Route(k)[i]
    <3>1. j \in S /\ k \in S /\ Route(j)[c + 1] = Route(k)[c + 1]
      BY <2>1 DEF On, Direction
    <3>2. i \in 1..c \/ i = c + 1
      BY <1>1
    <3>3. QED
      BY <3>1, <3>2 DEF Splits, Common, Agree
  <2>2. QED
    BY <2>1 DEF Common, Agree
<1>5. QED
  BY <1>2, <1>3, <1>4 DEF On

\* A group that agrees on n bits splits no earlier.
LEMMA SplitsLater ==
  ASSUME NEW S, Width \in Nat, NEW n \in Nat, Common(S, n), NEW c, Splits(S, c)
  PROVE  n <= c
<1>1. c \in 0..(Width - 1)
  BY DEF Splits
<1>2. SUFFICES ASSUME c < n PROVE FALSE
  BY <1>1
<1>3. c + 1 \in 1..n
  BY <1>1, <1>2
<1>4. QED
  BY <1>3 DEF Splits, Common, Agree

\* A part of the keys has routes as the whole has.
LEMMA SubRoutable ==
  ASSUME NEW K, Routable(K), NEW S \in SUBSET K
  PROVE  Routable(S)
BY DEF Routable

-----------------------------------------------------------------------------
\* How far down a group still splits.
Rank(S) == IF \E c : Splits(S, c) THEN Width - CommonBits(S) ELSE 0

\* The rank of a group is a number, and says where the group splits.
LEMMA RankIs ==
  ASSUME NEW S, Routable(S)
  PROVE  /\ Rank(S) \in Nat
         /\ \A c : Splits(S, c) => Rank(S) = Width - c /\ Rank(S) > 0
<1>1. ASSUME NEW c, Splits(S, c) PROVE Rank(S) = Width - c /\ c \in 0..(Width - 1) /\ Width \in Nat
  BY <1>1, SplitIs DEF Rank, Splits, Routable
<1>2. CASE \E c : Splits(S, c)
  <2>1. PICK c : Splits(S, c)
    BY <1>2
  <2>2. Rank(S) \in Nat
    BY <1>1, <2>1
  <2>3. ASSUME NEW d, Splits(S, d) PROVE Rank(S) = Width - d /\ Rank(S) > 0
    BY <1>1, <2>3
  <2>4. QED
    BY <2>2, <2>3
<1>3. CASE ~\E c : Splits(S, c)
  BY <1>3 DEF Rank
<1>4. QED
  BY <1>2, <1>3

\* The sides of a group have smaller ranks.
LEMMA SidesRankLess ==
  ASSUME NEW S, Routable(S), NEW c, Splits(S, c), NEW side \in {0, 1}
  PROVE  Rank(On(S, c, side)) < Rank(S)
<1> DEFINE T == On(S, c, side)
<1>1. T \in SUBSET S
  BY DEF On
<1>2. Common(T, c + 1) /\ c + 1 \in Nat /\ c \in 0..(Width - 1) /\ Width \in Nat
  <2>1. c \in 0..(Width - 1) /\ Width \in Nat
    BY DEF Splits, Routable
  <2>2. Common(On(S, c, 0), c + 1) /\ Common(On(S, c, 1), c + 1)
    BY SplitSides
  <2>3. QED
    BY <2>1, <2>2
<1> HIDE DEF T
<1>3. Routable(T)
  BY <1>1, SubRoutable
<1>4. Rank(S) = Width - c /\ Rank(S) > 0
  BY RankIs
<1>5. CASE \E d : Splits(T, d)
  <2>1. PICK d : Splits(T, d)
    BY <1>5
  <2>2. Rank(T) = Width - d /\ c + 1 <= d /\ d \in 0..(Width - 1)
    BY <1>2, <1>3, <2>1, RankIs, SplitsLater DEF Splits
  <2>3. QED
    BY <1>2, <1>4, <2>2 DEF T
<1>6. CASE ~\E d : Splits(T, d)
  BY <1>4, <1>6 DEF Rank, T
<1>7. QED
  BY <1>5, <1>6

\* Among groups of routable keys there is one whose sides are not among them.
LEMMA SmallestGroup ==
  ASSUME NEW K, Routable(K), NEW Bad \in SUBSET SUBSET K, Bad # {}
  PROVE  \E S \in Bad : \A c : Splits(S, c) => On(S, c, 0) \notin Bad /\ On(S, c, 1) \notin Bad
<1> DEFINE R == {Rank(S) : S \in Bad}
<1>1. \A S \in Bad : Routable(S)
  BY SubRoutable
<1>2. R \in SUBSET Nat /\ R # {}
  BY <1>1, RankIs
<1>3. PICK m \in R : \A k \in R : ~(k < m)
  <2> HIDE DEF R
  <2> QED BY <1>2, Smallest
<1>4. PICK S \in Bad : m = Rank(S)
  BY <1>3
<1>5. ASSUME NEW c, Splits(S, c), NEW side \in {0, 1} PROVE On(S, c, side) \notin Bad
  <2>1. Rank(On(S, c, side)) < m
    BY <1>1, <1>4, <1>5, SidesRankLess
  <2>2. QED
    BY <1>3, <2>1
<1>6. QED
  BY <1>5

-----------------------------------------------------------------------------
(***************************************************************************)
(* The tree of a map.                                                      *)
(***************************************************************************)
\* A branch as it is stored.
Branch(bit, prefix, left, right) ==
  [kind |-> "branch", bit |-> bit, prefix |-> prefix, left |-> left, right |-> right]

\* The tree of the keys S of map m, given those of its two sides.
GrownAt(left, right, m, S) ==
  LET any == CHOOSE k \in S : TRUE IN
  IF S = {} THEN Empty
  ELSE IF S = {any} THEN Leaf(any, m[any])
  ELSE Branch(CommonBits(S), Padded(Route(any), CommonBits(S)), left, right)

\* The two sides of a group at the bit it splits on.
LeftOf(S) == On(S, CommonBits(S), 0)
RightOf(S) == On(S, CommonBits(S), 1)

\* g gives every group of keys of m its tree.
IsGrown(g, m) == g = [S \in SUBSET DOMAIN m |-> GrownAt(g[LeftOf(S)], g[RightOf(S)], m, S)]

Grown(m) == CHOOSE g : IsGrown(g, m)

\* The tree of the keys S of map m.
TreeAt(m, S) == Grown(m)[S]

\* TreeOf is the tree of all keys.
LEMMA TreeOfIs ==
  ASSUME NEW m
  PROVE  TreeOf(m) = TreeAt(m, DOMAIN m)
BY DEF TreeOf, TreeAt, Grown, IsGrown, GrownAt, Branch, LeftOf, RightOf, On

\* g does so for the groups of rank less than n.
GrownUpTo(g, m, n) ==
  \A S \in SUBSET DOMAIN m : Rank(S) < n => g[S] = GrownAt(g[LeftOf(S)], g[RightOf(S)], m, S)

\* A group that is neither empty nor a single key splits.
LEMMA GroupSplits ==
  ASSUME NEW S, Routable(S), S # {}, \A k : S # {k}
  PROVE  Splits(S, CommonBits(S))
<1>1. PICK j \in S : TRUE
  OBVIOUS
<1>2. PICK k \in S : k # j
  <2>1. S # {j}
    OBVIOUS
  <2>2. QED
    BY <1>1, <2>1
<1>3. QED
  BY <1>2, SplitsSomewhere

\* The tree of a group depends on the trees of its sides only if the group splits.
LEMMA GrownSame ==
  ASSUME NEW m, NEW S, Routable(S), NEW l, NEW r, NEW x, NEW y,
         Splits(S, CommonBits(S)) => l = x /\ r = y
  PROVE  GrownAt(l, r, m, S) = GrownAt(x, y, m, S)
<1>1. CASE S = {} \/ \E k : S = {k}
  <2>1. S = {} \/ S = {CHOOSE k \in S : TRUE}
    BY <1>1
  <2>2. QED
    BY <2>1 DEF GrownAt
<1>2. CASE S # {} /\ \A k : S # {k}
  BY <1>2, GroupSplits
<1>3. QED
  BY <1>1, <1>2

\* The recursion of TreeOf has a solution.
LEMMA GrownExists ==
  ASSUME NEW m, Routable(DOMAIN m)
  PROVE  \E g : IsGrown(g, m)
<1> DEFINE All == SUBSET DOMAIN m
           Bad == {n \in Nat : ~\E g : GrownUpTo(g, m, n)}
<1>1. ASSUME NEW S \in All PROVE Routable(S) /\ Rank(S) \in Nat /\ LeftOf(S) \in All /\ RightOf(S) \in All
  <2>1. Routable(S)
    BY SubRoutable
  <2>2. QED
    BY <2>1, RankIs DEF LeftOf, RightOf, On
<1>2. ASSUME NEW S \in All, Splits(S, CommonBits(S))
      PROVE  Rank(LeftOf(S)) < Rank(S) /\ Rank(RightOf(S)) < Rank(S)
  BY <1>1, <1>2, SidesRankLess DEF LeftOf, RightOf
<1>3. Bad = {}
  <2>1. SUFFICES ASSUME Bad # {} PROVE FALSE
    OBVIOUS
  <2>2. PICK n \in Bad : \A k \in Bad : ~(k < n)
    <3>1. Bad \in SUBSET Nat
      OBVIOUS
    <3> HIDE DEF Bad
    <3>2. QED
      BY <2>1, <3>1, Smallest
  <2>3. n # 0
    <3>1. GrownUpTo([S \in All |-> 0], m, 0)
      BY <1>1 DEF GrownUpTo
    <3>2. QED
      BY <3>1
  <2>4. n - 1 \in Nat /\ n - 1 \notin Bad /\ n \in Nat
    BY <2>2, <2>3
  <2>5. PICK f : GrownUpTo(f, m, n - 1)
    BY <2>4
  <2> DEFINE g == [S \in All |-> GrownAt(f[LeftOf(S)], f[RightOf(S)], m, S)]
  <2>6. ASSUME NEW S \in All, Rank(S) < n - 1 PROVE f[S] = g[S]
    BY <2>5, <2>6 DEF GrownUpTo
  <2>7. ASSUME NEW S \in All, Rank(S) < n PROVE g[S] = GrownAt(g[LeftOf(S)], g[RightOf(S)], m, S)
    <3>1. g[S] = GrownAt(f[LeftOf(S)], f[RightOf(S)], m, S)
      OBVIOUS
    <3> HIDE DEF g
    <3>2. ASSUME Splits(S, CommonBits(S)) PROVE f[LeftOf(S)] = g[LeftOf(S)] /\ f[RightOf(S)] = g[RightOf(S)]
      <4>1. LeftOf(S) \in All /\ RightOf(S) \in All /\ Rank(LeftOf(S)) \in Nat /\ Rank(RightOf(S)) \in Nat /\ Rank(S) \in Nat
        BY <1>1
      <4>2. Rank(LeftOf(S)) < n - 1 /\ Rank(RightOf(S)) < n - 1
        BY <1>2, <2>4, <2>7, <3>2, <4>1
      <4>3. QED
        BY <2>6, <4>1, <4>2
    <3>3. QED
      BY <1>1, <3>1, <3>2, GrownSame
  <2>8. GrownUpTo(g, m, n)
    <3> HIDE DEF g
    <3> QED BY <2>7 DEF GrownUpTo
  <2>9. QED
    BY <2>8
<1>4. Width \in Nat
  BY DEF Routable
<1>5. PICK g : GrownUpTo(g, m, Width + 1)
  BY <1>3, <1>4
<1>6. ASSUME NEW S \in All PROVE Rank(S) < Width + 1
  <2>1. CASE \E c : Splits(S, c)
    <3>1. PICK c : Splits(S, c)
      BY <2>1
    <3>2. Rank(S) = Width - c /\ c \in 0..(Width - 1)
      BY <1>1, <3>1, RankIs DEF Splits
    <3>3. QED
      BY <1>4, <3>2
  <2>2. CASE ~\E c : Splits(S, c)
    BY <1>4, <2>2 DEF Rank
  <2>3. QED
    BY <2>1, <2>2
<1> DEFINE h == [S \in All |-> g[S]]
<1>7. ASSUME NEW S \in All PROVE h[S] = GrownAt(h[LeftOf(S)], h[RightOf(S)], m, S)
  BY <1>1, <1>5, <1>6 DEF GrownUpTo
<1>8. h = [S \in All |-> h[S]]
  OBVIOUS
<1>9. IsGrown(h, m)
  <2> HIDE DEF h
  <2> QED BY <1>7, <1>8 DEF IsGrown
<1>10. QED
  BY <1>9

\* And so the tree of a group is grown from those of its sides.
LEMMA TreeStep ==
  ASSUME NEW m, Routable(DOMAIN m), NEW S \in SUBSET DOMAIN m
  PROVE  TreeAt(m, S) = GrownAt(TreeAt(m, LeftOf(S)), TreeAt(m, RightOf(S)), m, S)
<1>1. IsGrown(Grown(m), m)
  BY GrownExists DEF Grown
<1>2. QED
  BY <1>1 DEF IsGrown, TreeAt

\* The tree of no keys,
LEMMA TreeNone ==
  ASSUME NEW m, Routable(DOMAIN m)
  PROVE  TreeAt(m, {}) = Empty
<1>1. {} \in SUBSET DOMAIN m
  OBVIOUS
<1>2. QED
  BY <1>1, TreeStep DEF GrownAt

\* of one,
LEMMA TreeOne ==
  ASSUME NEW m, Routable(DOMAIN m), NEW k \in DOMAIN m
  PROVE  TreeAt(m, {k}) = Leaf(k, m[k])
<1>1. (CHOOSE x \in {k} : TRUE) = k
  OBVIOUS
<1>2. QED
  BY <1>1, TreeStep DEF GrownAt

\* and of a group that splits.
LEMMA TreeTwo ==
  ASSUME NEW m, Routable(DOMAIN m), NEW S \in SUBSET DOMAIN m, NEW c, Splits(S, c), NEW k \in S
  PROVE  TreeAt(m, S) = Branch(c, Padded(Route(k), c), TreeAt(m, On(S, c, 0)), TreeAt(m, On(S, c, 1)))
<1> DEFINE any == CHOOSE x \in S : TRUE
<1>1. Routable(S) /\ CommonBits(S) = c
  BY SubRoutable, SplitIs
<1>2. any \in S
  OBVIOUS
<1>3. S # {} /\ S # {any}
  BY DEF Splits
<1>4. Padded(Route(any), c) = Padded(Route(k), c)
  <2>1. Width \in Nat /\ c \in 0..Width /\ Agree(Route(any), Route(k), c)
    BY <1>1, <1>2 DEF Splits, Common, Routable
  <2>2. QED
    BY <2>1, PaddedAgree
<1>5. TreeAt(m, S) = Branch(c, Padded(Route(any), c), TreeAt(m, LeftOf(S)), TreeAt(m, RightOf(S)))
  BY <1>1, <1>3, TreeStep DEF GrownAt
<1>6. QED
  BY <1>1, <1>4, <1>5 DEF LeftOf, RightOf

\* A tree depends on nothing but what its keys map to.
LEMMA TreeSame ==
  ASSUME NEW m, Routable(DOMAIN m), NEW w, Routable(DOMAIN w),
         NEW S \in SUBSET DOMAIN m, S \in SUBSET DOMAIN w, \A k \in S : m[k] = w[k]
  PROVE  TreeAt(m, S) = TreeAt(w, S)
<1> DEFINE Bad == {T \in SUBSET S : TreeAt(m, T) # TreeAt(w, T)}
<1>1. SUFFICES ASSUME Bad # {} PROVE FALSE
  OBVIOUS
<1>2. PICK T \in Bad : \A c : Splits(T, c) => On(T, c, 0) \notin Bad /\ On(T, c, 1) \notin Bad
  <2>1. Bad \in SUBSET SUBSET S /\ Routable(S)
    BY SubRoutable
  <2> HIDE DEF Bad
  <2>2. QED
    BY <1>1, <2>1, SmallestGroup
<1>3. /\ T \in SUBSET DOMAIN m /\ T \in SUBSET DOMAIN w /\ T \in SUBSET S
      /\ \A c, side : On(T, c, side) \in SUBSET S
      /\ TreeAt(m, T) # TreeAt(w, T)
  BY DEF On
<1>4. CASE T = {}
  BY <1>3, <1>4, TreeNone
<1>5. CASE \E k : T = {k}
  <2>1. PICK k : T = {k}
    BY <1>5
  <2>2. k \in DOMAIN m /\ k \in DOMAIN w /\ m[k] = w[k]
    BY <1>3, <2>1
  <2>3. QED
    BY <1>3, <2>1, <2>2, TreeOne
<1>6. CASE T # {} /\ \A k : T # {k}
  <2> DEFINE c == CommonBits(T)
  <2>1. Routable(T)
    BY <1>3, SubRoutable
  <2>2. Splits(T, c)
    BY <1>6, <2>1, GroupSplits
  <2> HIDE DEF c
  <2>3. TreeAt(m, On(T, c, 0)) = TreeAt(w, On(T, c, 0)) /\ TreeAt(m, On(T, c, 1)) = TreeAt(w, On(T, c, 1))
    BY <1>2, <1>3, <2>2
  <2>4. PICK k \in T : TRUE
    BY <1>6
  <2>5. QED
    BY <1>3, <2>2, <2>3, <2>4, TreeTwo
<1>7. QED
  BY <1>4, <1>5, <1>6

-----------------------------------------------------------------------------
(***************************************************************************)
(* The nodes of a tree.                                                    *)
(***************************************************************************)
\* A level of a tree, from the one before.
WithChildren(U) == UNION {{u} \cup Children(u) : u \in U}

LevelAt(i, t, before) == IF i = 0 THEN {t} ELSE WithChildren(before)

\* f is the sequence of the first n levels.
IsLevels(f, t, n) == f = [i \in 0..n |-> LevelAt(i, t, f[i-1])]

Levels(t) == CHOOSE f : IsLevels(f, t, Width)

\* The nodes of a tree are those of its last level.
LEMMA NodesFrom ==
  ASSUME NEW t
  PROVE  Nodes(t) = Levels(t)[Width] \ {Empty}
BY DEF Nodes, Levels, IsLevels, LevelAt, WithChildren

\* The recursion of Nodes has a solution.
LEMMA LevelsExist ==
  ASSUME NEW t, NEW n \in Nat
  PROVE  \E f : IsLevels(f, t, n)
<1> DEFINE Bad == {k \in Nat : ~\E f : IsLevels(f, t, k)}
<1>1. SUFFICES ASSUME Bad # {} PROVE FALSE
  OBVIOUS
<1>2. Bad \in SUBSET Nat
  OBVIOUS
<1>3. PICK m \in Bad : \A k \in Bad : ~(k < m)
  <2> HIDE DEF Bad
  <2> QED BY <1>1, <1>2, Smallest
<1>4. m # 0
  <2>1. IsLevels([i \in 0..0 |-> LevelAt(0, t, t)], t, 0)
    BY DEF IsLevels, LevelAt
  <2>2. QED
    BY <2>1
<1>5. m - 1 \in Nat /\ m - 1 \notin Bad
  BY <1>3, <1>4
<1>6. PICK f : IsLevels(f, t, m - 1)
  BY <1>5
<1> DEFINE g == [i \in 0..m |-> LevelAt(i, t, f[i-1])]
<1>7. ASSUME NEW i \in 0..m, i # 0 PROVE g[i-1] = f[i-1]
  BY <1>4, <1>6, <1>7 DEF IsLevels
<1>8. ASSUME NEW i \in 0..m PROVE LevelAt(i, t, f[i-1]) = LevelAt(i, t, g[i-1])
  <2>1. i # 0 => g[i-1] = f[i-1]
    BY <1>7
  <2> HIDE DEF g
  <2>2. QED
    BY <2>1 DEF LevelAt
<1>9. IsLevels(g, t, m)
  BY <1>8 DEF IsLevels
<1>10. QED
  BY <1>9

\* Each level adds the children of the one before.
LEMMA LevelSteps ==
  ASSUME NEW t, Width \in Nat
  PROVE  /\ Levels(t)[0] = {t}
         /\ \A n \in 1..Width : Levels(t)[n] = WithChildren(Levels(t)[n-1])
<1>1. IsLevels(Levels(t), t, Width)
  BY LevelsExist DEF Levels
<1>2. \A n \in 0..Width : Levels(t)[n] = LevelAt(n, t, Levels(t)[n-1])
  BY <1>1 DEF IsLevels
<1>3. QED
  BY <1>2 DEF LevelAt

\* A set with the children of its branches.
Closed(T) == \A u \in T : Children(u) \subseteq T

\* What holds at each level from the one before.
LEMMA LevelsWithin ==
  ASSUME NEW t, Width \in Nat, NEW T, t \in T, Closed(T)
  PROVE  \A n \in 0..Width : Levels(t)[n] \subseteq T
<1> DEFINE Bad == {n \in 0..Width : ~(Levels(t)[n] \subseteq T)}
<1>1. SUFFICES ASSUME Bad # {} PROVE FALSE
  OBVIOUS
<1>2. Bad \in SUBSET Nat
  OBVIOUS
<1>3. PICK m \in Bad : \A k \in Bad : ~(k < m)
  <2> HIDE DEF Bad
  <2> QED BY <1>1, <1>2, Smallest
<1>4. m # 0
  BY LevelSteps
<1>5. m - 1 \in 0..Width /\ m - 1 \notin Bad /\ m \in 1..Width
  BY <1>3, <1>4
<1>6. Levels(t)[m-1] \subseteq T /\ Levels(t)[m] = WithChildren(Levels(t)[m-1])
  BY <1>5, LevelSteps
<1>7. Levels(t)[m] \subseteq T
  BY <1>6 DEF WithChildren, Closed
<1>8. QED
  BY <1>7

\* The nodes of t lie in any closed set that t does.
LEMMA NodesWithin ==
  ASSUME NEW t, Width \in Nat, NEW T, Closed(T), t \in T \/ t = Empty
  PROVE  Nodes(t) \subseteq T
<1>1. Width \in 0..Width
  OBVIOUS
<1>2. CASE t \in T
  BY <1>1, <1>2, LevelsWithin, NodesFrom
<1>3. CASE t = Empty
  <2>1. t \in {Empty} /\ Closed({Empty})
    BY <1>3 DEF Closed, Children, Empty
  <2>2. Levels(t)[Width] \subseteq {Empty}
    BY <1>1, <2>1, LevelsWithin
  <2>3. QED
    BY <2>2, NodesFrom
<1>4. QED
  BY <1>2, <1>3

\* A tree is at each of its levels.
LEMMA LevelsGrow ==
  ASSUME NEW t, Width \in Nat
  PROVE  \A n \in 0..Width : t \in Levels(t)[n]
<1> DEFINE Bad == {n \in 0..Width : t \notin Levels(t)[n]}
<1>1. SUFFICES ASSUME Bad # {} PROVE FALSE
  OBVIOUS
<1>2. Bad \in SUBSET Nat
  OBVIOUS
<1>3. PICK m \in Bad : \A k \in Bad : ~(k < m)
  <2> HIDE DEF Bad
  <2> QED BY <1>1, <1>2, Smallest
<1>4. m # 0
  BY LevelSteps
<1>5. m - 1 \in 0..Width /\ m - 1 \notin Bad /\ m \in 1..Width
  BY <1>3, <1>4
<1>6. t \in Levels(t)[m-1] /\ Levels(t)[m] = WithChildren(Levels(t)[m-1])
  BY <1>5, LevelSteps
<1>7. t \in Levels(t)[m]
  BY <1>6 DEF WithChildren
<1>8. QED
  BY <1>7

\* A tree is among its own nodes.
LEMMA RootBelow ==
  ASSUME NEW t, Width \in Nat
  PROVE  /\ t \in Below(t)
         /\ t # Empty => t \in Nodes(t)
         /\ Empty \notin Nodes(t)
<1>1. Width \in 0..Width
  OBVIOUS
<1>2. QED
  BY <1>1, LevelsGrow, NodesFrom DEF Below

-----------------------------------------------------------------------------
(***************************************************************************)
(* The nodes of the tree of a map.                                         *)
(***************************************************************************)
\* Empty, a leaf, or a branch above two non-empty nodes that decide later.
Shaped(t) ==
  \/ t = Empty
  \/ t.kind = "leaf"
  \/ /\ t.kind = "branch" /\ t.bit \in 0..(Width - 1)
     /\ \A c \in Children(t) : c # Empty /\ (c.kind = "branch" => c.bit > t.bit)

\* What a group's tree is like.
LEMMA TreeKinds ==
  ASSUME NEW m, Routable(DOMAIN m), NEW S \in SUBSET DOMAIN m
  PROVE  /\ TreeAt(m, S) = Empty <=> S = {}
         /\ \A k : S = {k} => TreeAt(m, S) = Leaf(k, m[k])
         /\ \A c : Splits(S, c) => TreeAt(m, S).kind = "branch" /\ TreeAt(m, S).bit = c
         /\ \/ S = {}
            \/ \E k \in S : S = {k}
            \/ \E c : Splits(S, c)
<1>1. Routable(S)
  BY SubRoutable
<1>2. \/ S = {}
      \/ \E k \in S : S = {k}
      \/ \E c : Splits(S, c)
  BY <1>1, GroupSplits
<1>3. ASSUME NEW k, S = {k} PROVE TreeAt(m, S) = Leaf(k, m[k])
  BY <1>3, TreeOne
<1>4. ASSUME NEW c, Splits(S, c) PROVE TreeAt(m, S).kind = "branch" /\ TreeAt(m, S).bit = c
  <2>1. PICK k \in S : TRUE
    BY <1>4 DEF Splits
  <2>2. TreeAt(m, S) = Branch(c, Padded(Route(k), c), TreeAt(m, On(S, c, 0)), TreeAt(m, On(S, c, 1)))
    BY <1>4, TreeTwo
  <2>3. QED
    BY <2>2 DEF Branch
<1>5. TreeAt(m, S) = Empty <=> S = {}
  <2>1. S = {} => TreeAt(m, S) = Empty
    BY TreeNone
  <2>2. Empty.kind = "empty" /\ \A k, v : Leaf(k, v).kind = "leaf"
    BY DEF Empty, Leaf
  <2>3. QED
    BY <1>2, <1>3, <1>4, <2>1, <2>2
<1>6. QED
  BY <1>2, <1>3, <1>4, <1>5

\* The trees of the groups among the keys S.
Subtrees(m, S) == {TreeAt(m, G) : G \in (SUBSET S) \ {{}}}

\* The children of a group's tree are the trees of its sides.
LEMMA SidesOf ==
  ASSUME NEW m, Routable(DOMAIN m), NEW S \in SUBSET DOMAIN m, NEW c, Splits(S, c)
  PROVE  /\ \A side : On(S, c, side) \in SUBSET S
         /\ Children(TreeAt(m, S)) = {TreeAt(m, On(S, c, 0)), TreeAt(m, On(S, c, 1))}
         /\ TreeAt(m, S).left = TreeAt(m, On(S, c, 0))
         /\ TreeAt(m, S).right = TreeAt(m, On(S, c, 1))
         /\ \A k \in S : TreeAt(m, S).prefix = Padded(Route(k), c)
<1>1. \A side : On(S, c, side) \in SUBSET S
  BY DEF On
<1>2. ASSUME NEW k \in S
      PROVE  TreeAt(m, S) = Branch(c, Padded(Route(k), c), TreeAt(m, On(S, c, 0)), TreeAt(m, On(S, c, 1)))
  BY TreeTwo
<1>3. PICK k \in S : TRUE
  BY DEF Splits
<1>4. QED
  BY <1>1, <1>2, <1>3 DEF Branch, Children

\* Those trees are closed under children, and in order.
LEMMA SubtreesClosed ==
  ASSUME NEW m, Routable(DOMAIN m), NEW S \in SUBSET DOMAIN m
  PROVE  /\ Closed(Subtrees(m, S))
         /\ \A u \in Subtrees(m, S) : Shaped(u) /\ u # Empty
<1>1. ASSUME NEW G \in SUBSET S, G # {}
      PROVE  /\ Children(TreeAt(m, G)) \subseteq Subtrees(m, S)
             /\ Shaped(TreeAt(m, G)) /\ TreeAt(m, G) # Empty
  <2> DEFINE u == TreeAt(m, G)
  <2>1. G \in SUBSET DOMAIN m /\ Routable(G)
    BY SubRoutable
  <2>2. u # Empty
    BY <1>1, <2>1, TreeKinds
  <2>3. CASE \E k \in G : G = {k}
    <3>1. u.kind = "leaf"
      BY <2>1, <2>3, TreeKinds DEF Leaf
    <3>2. QED
      BY <2>2, <3>1 DEF Shaped, Children
  <2>4. CASE \E c : Splits(G, c)
    <3>1. PICK c : Splits(G, c)
      BY <2>4
    <3> DEFINE L == On(G, c, 0)
               R == On(G, c, 1)
    <3>2. L \in SUBSET G /\ R \in SUBSET G /\ L # {} /\ R # {} /\ Common(L, c + 1) /\ Common(R, c + 1)
      BY <2>1, <3>1, SplitSides DEF On
    <3> HIDE DEF L, R
    <3>3. Children(u) = {TreeAt(m, L), TreeAt(m, R)} /\ u.kind = "branch" /\ u.bit = c
      BY <2>1, <3>1, SidesOf, TreeKinds DEF L, R
    <3>4. Width \in Nat /\ c \in 0..(Width - 1) /\ c + 1 \in Nat
      BY <2>1, <3>1 DEF Splits, Routable
    <3>5. ASSUME NEW H \in {L, R}
          PROVE  TreeAt(m, H) # Empty /\ (TreeAt(m, H).kind = "branch" => TreeAt(m, H).bit > c)
      <4>1. H \in SUBSET DOMAIN m /\ H # {} /\ Common(H, c + 1)
        BY <2>1, <3>2
      <4>2. TreeAt(m, H) # Empty
        BY <4>1, TreeKinds
      <4>3. ASSUME TreeAt(m, H).kind = "branch" PROVE \E d : Splits(H, d)
        BY <4>1, <4>3, TreeKinds DEF Leaf
      <4>4. ASSUME NEW d, Splits(H, d) PROVE TreeAt(m, H).bit = d /\ d > c
        <5>1. c + 1 <= d
          BY <3>4, <4>1, <4>4, SplitsLater
        <5>2. d \in 0..(Width - 1)
          BY <4>4 DEF Splits
        <5>3. TreeAt(m, H).bit = d
          BY <4>1, <4>4, TreeKinds
        <5>4. QED
          BY <3>4, <5>1, <5>2, <5>3
      <4>5. QED
        BY <4>2, <4>3, <4>4
    <3>6. Shaped(u)
      BY <3>3, <3>4, <3>5 DEF Shaped
    <3>7. L \in (SUBSET S) \ {{}} /\ R \in (SUBSET S) \ {{}}
      BY <3>2
    <3>8. QED
      BY <2>2, <3>3, <3>6, <3>7 DEF Subtrees
  <2>5. QED
    BY <1>1, <2>1, <2>3, <2>4, TreeKinds
<1>2. QED
  BY <1>1 DEF Closed, Subtrees

\* Every node of a map's tree is the tree of some of its keys.
LEMMA NodesAre ==
  ASSUME NEW m, Routable(DOMAIN m), NEW S \in SUBSET DOMAIN m
  PROVE  Nodes(TreeAt(m, S)) \subseteq Subtrees(m, S)
<1>1. Width \in Nat
  BY DEF Routable
<1>2. S = {} => TreeAt(m, S) = Empty
  BY TreeNone
<1>3. S # {} => TreeAt(m, S) \in Subtrees(m, S)
  BY DEF Subtrees
<1>4. QED
  BY <1>1, <1>2, <1>3, SubtreesClosed, NodesWithin

\* A set that a traversal does not leave, and of nodes that are in order.
WellShaped(B) == Closed(B) /\ \A u \in B : Shaped(u)

\* After n levels, whatever has children outside decides on the n-th bit or a later one.
Unfinished(U, n) == \A u \in U : Children(u) \subseteq U \/ (u.kind = "branch" /\ u.bit >= n)

\* Bits grow from level to level, and so Width levels hold every node.
LEMMA LevelsFinish ==
  ASSUME NEW t, Width \in Nat, NEW B, t \in B, WellShaped(B)
  PROVE  \A n \in 0..Width : Unfinished(Levels(t)[n], n)
<1> DEFINE Bad == {n \in 0..Width : ~Unfinished(Levels(t)[n], n)}
<1>1. SUFFICES ASSUME Bad # {} PROVE FALSE
  OBVIOUS
<1>2. Bad \in SUBSET Nat
  OBVIOUS
<1>3. PICK m \in Bad : \A k \in Bad : ~(k < m)
  <2> HIDE DEF Bad
  <2> QED BY <1>1, <1>2, Smallest
<1>4. \A n \in 0..Width : Levels(t)[n] \subseteq B
  BY LevelsWithin DEF WellShaped
<1>5. \A u \in B : u.kind = "branch" \/ Children(u) = {}
  BY DEF Children
<1>6. m # 0
  <2>1. t.kind = "branch" => t.bit >= 0
    <3>1. Shaped(t)
      BY DEF WellShaped
    <3>2. Empty.kind # "branch"
      BY DEF Empty
    <3>3. QED
      BY <3>1, <3>2 DEF Shaped
  <2>2. Unfinished({t}, 0)
    BY <1>5, <2>1 DEF Unfinished
  <2>3. QED
    BY <2>2, LevelSteps
<1>7. m - 1 \in 0..Width /\ m - 1 \notin Bad /\ m \in 1..Width
  BY <1>3, <1>6
<1> DEFINE U == Levels(t)[m-1]
           V == Levels(t)[m]
<1>8. Unfinished(U, m - 1) /\ V = WithChildren(U) /\ U \subseteq B /\ V \subseteq B
  BY <1>4, <1>7, LevelSteps
<1> HIDE DEF U, V
<1>9. \A w \in U : w \in V /\ Children(w) \subseteq V
  BY <1>8 DEF WithChildren
<1>10. ASSUME NEW u \in V, u \notin U PROVE Children(u) = {} \/ (u.kind = "branch" /\ u.bit >= m)
  <2>1. PICK w \in U : u \in Children(w)
    BY <1>8, <1>10 DEF WithChildren
  <2>2. w.kind = "branch" /\ w.bit >= m - 1 /\ Shaped(w) /\ Shaped(u)
    BY <1>8, <1>10, <2>1 DEF Unfinished, WellShaped
  <2>3. w.bit \in Int /\ u # Empty /\ (u.kind = "branch" => u.bit > w.bit)
    BY <2>1, <2>2 DEF Shaped, Empty
  <2>4. CASE u.kind = "branch"
    <3>1. u.bit \in Int
      BY <2>2, <2>3, <2>4 DEF Shaped
    <3>2. QED
      BY <1>7, <2>2, <2>3, <2>4, <3>1
  <2>5. QED
    BY <1>5, <1>8, <1>10, <2>4
<1>11. Unfinished(V, m)
  BY <1>9, <1>10 DEF Unfinished
<1>12. QED
  BY <1>11 DEF V

\* A traversal of a tree stays among its nodes.
LEMMA NodesClosed ==
  ASSUME NEW t, Width \in Nat, NEW B, t \in B, WellShaped(B)
  PROVE  Closed(Nodes(t)) /\ Closed(Below(t)) /\ Below(t) \subseteq B \cup {Empty}
<1> DEFINE U == Levels(t)[Width]
<1>1. Unfinished(U, Width) /\ U \subseteq B
  <2>1. Width \in 0..Width
    OBVIOUS
  <2>2. QED
    BY <2>1, LevelsFinish, LevelsWithin DEF WellShaped
<1>2. Nodes(t) = U \ {Empty}
  BY NodesFrom
<1> HIDE DEF U
<1>3. ASSUME NEW u \in U PROVE Children(u) \subseteq U /\ Empty \notin Children(u)
  <2>1. Shaped(u)
    BY <1>1 DEF WellShaped
  <2>2. u.kind = "branch" => u.bit \in 0..(Width - 1) /\ Empty \notin Children(u)
    BY <2>1 DEF Shaped, Empty
  <2>3. u.kind # "branch" => Children(u) = {}
    BY DEF Children
  <2>4. u.kind = "branch" => ~(u.bit >= Width)
    BY <2>2
  <2>5. QED
    BY <1>1, <2>2, <2>3, <2>4 DEF Unfinished
<1>4. Closed(Nodes(t))
  BY <1>2, <1>3 DEF Closed
<1>5. Children(Empty) = {}
  BY DEF Children, Empty
<1>6. QED
  BY <1>1, <1>2, <1>4, <1>5 DEF Closed, Below

\* A traversal of a map's tree comes to such trees only.
LEMMA TreesShaped ==
  ASSUME NEW m, Routable(DOMAIN m), NEW S \in SUBSET DOMAIN m
  PROVE  /\ WellShaped(Below(TreeAt(m, S)))
         /\ Closed(Nodes(TreeAt(m, S)))
         /\ Below(TreeAt(m, S)) \subseteq Subtrees(m, S) \cup {Empty}
<1> DEFINE t == TreeAt(m, S)
           B == Subtrees(m, S) \cup {Empty}
<1>1. Shaped(Empty) /\ Children(Empty) = {}
  BY DEF Shaped, Children, Empty
<1>2. WellShaped(B)
  BY <1>1, SubtreesClosed DEF WellShaped, Closed
<1>3. t \in B
  <2>1. S = {} => t = Empty
    BY TreeNone
  <2>2. S # {} => t \in Subtrees(m, S)
    BY DEF Subtrees
  <2>3. QED
    BY <2>1, <2>2
<1>4. Width \in Nat
  BY DEF Routable
<1> HIDE DEF t, B
<1>5. Closed(Nodes(t)) /\ Closed(Below(t)) /\ Below(t) \subseteq B \cup {Empty}
  BY <1>2, <1>3, <1>4, NodesClosed
<1>6. WellShaped(Below(t)) /\ Below(t) \subseteq B
  BY <1>2, <1>5 DEF WellShaped, B
<1>7. QED
  BY <1>5, <1>6 DEF t, B

-----------------------------------------------------------------------------
(***************************************************************************)
(* The operations as recursions over the nodes.                            *)
(***************************************************************************)

\* Each operation at node u, given its result x at the child it goes on to.
FoundAt(x, u, k) ==
  CASE u.kind = "empty" -> {}
    [] u.kind = "leaf"  -> IF u.key = k THEN {u.value} ELSE {}
    [] OTHER -> IF Padded(Route(k), u.bit) # u.prefix THEN {} ELSE x

PutAt(x, u, k, v) ==
  CASE u = Empty -> [tree |-> Leaf(k, v), written |-> {Leaf(k, v)}]
    [] u = Leaf(k, v)  -> Unchanged(u)
    [] u.kind = "leaf" /\ u.key = k /\ u # Leaf(k, v) -> [tree |-> Leaf(k, v), written |-> {Leaf(k, v)}]
    [] u.kind = "leaf" /\ u.key # k -> Beside(u, Leaf(k, v), Route(k))
    [] OTHER ->
         IF Different(Route(k), u) < u.bit THEN Beside(u, Leaf(k, v), Route(k))
         ELSE With(u, Direction(Route(k), u.bit), x)

DeletedAt(x, u, k) ==
  CASE u.kind = "empty"  -> Unchanged(u)
    [] u.kind = "leaf"   -> IF u.key = k THEN [tree |-> Empty, written |-> {}] ELSE Unchanged(u)
    [] OTHER ->
         IF Padded(Route(k), u.bit) # u.prefix THEN Unchanged(u)
         ELSE With(u, Direction(Route(k), u.bit), x)

ItemsAt(l, r, u) ==
  CASE u.kind = "empty" -> [k \in {} |-> k]
    [] u.kind = "leaf"  -> [k \in {u.key} |-> u.value]
    [] OTHER -> Joined(l, r)

PathAt(x, u, k) ==
  CASE u.kind = "empty" -> {}
    [] u.kind = "leaf"  -> IF u.key = k THEN {<<>>} ELSE {}
    [] OTHER -> IF Padded(Route(k), u.bit) # u.prefix THEN {}
                ELSE {<<u>> \o rest : rest \in x}

\* f is the recursion of Get from t on; the same of the others.
IsFound(f, t, k) == f = [u \in Below(t) |-> FoundAt(f[Onward(u, Route(k))], u, k)]
IsPut(f, t, k, v) == f = [u \in Below(t) |-> PutAt(f[Onward(u, Route(k))], u, k, v)]
IsDeleted(f, t, k) == f = [u \in Below(t) |-> DeletedAt(f[Onward(u, Route(k))], u, k)]
IsItems(f, t) == f = [u \in Below(t) |-> ItemsAt(f[u.left], f[u.right], u)]
IsPath(f, t, k) == f = [u \in Below(t) |-> PathAt(f[Onward(u, Route(k))], u, k)]

Founds(t, k) == CHOOSE f : IsFound(f, t, k)
Puts(t, k, v) == CHOOSE f : IsPut(f, t, k, v)
Deletes(t, k) == CHOOSE f : IsDeleted(f, t, k)
Itemses(t) == CHOOSE f : IsItems(f, t)
Paths(t, k) == CHOOSE f : IsPath(f, t, k)

\* Each operation is the value at the root of its recursion.
LEMMA GetIs ==
  ASSUME NEW t, NEW k PROVE Get(t, k) = Founds(t, k)[t]
BY DEF Get, Founds, IsFound, FoundAt

\* The same of put,
LEMMA PutIs ==
  ASSUME NEW t, NEW k, NEW v PROVE Put(t, k, v) = Puts(t, k, v)[t]
BY DEF Put, Puts, IsPut, PutAt

\* delete,
LEMMA DeleteIs ==
  ASSUME NEW t, NEW k PROVE Delete(t, k) = Deletes(t, k)[t]
BY DEF Delete, Deletes, IsDeleted, DeletedAt

\* items,
LEMMA ItemsIs ==
  ASSUME NEW t PROVE Items(t) = Itemses(t)[t]
BY DEF Items, Itemses, IsItems, ItemsAt

\* and prove.
LEMMA ProveIs ==
  ASSUME NEW t, NEW k PROVE Prove(t, k) = Paths(t, k)[t]
BY DEF Prove, Paths, IsPath, PathAt

\* All five results at node u, given those at its children.
ResultsAt(l, r, u, k, v) ==
  LET x == IF Direction(Route(k), u.bit) = 1 THEN r ELSE l
  IN  [found   |-> FoundAt(x.found, u, k),
       put     |-> PutAt(x.put, u, k, v),
       deleted |-> DeletedAt(x.deleted, u, k),
       items   |-> ItemsAt(l.items, r.items, u),
       path    |-> PathAt(x.path, u, k)]

Height(u) == IF u.kind = "branch" THEN Width - u.bit ELSE 0

\* f has the results at the nodes of B of height less than n,
ResultsUpTo(f, B, k, v, n) ==
  \A u \in B : Height(u) < n => f[u] = ResultsAt(f[u.left], f[u.right], u, k, v)

\* The results at a node depend on those at its children only if it is a branch.
LEMMA ResultsSame ==
  ASSUME NEW u, NEW k, NEW v, NEW l, NEW r, NEW x, NEW y, Shaped(u),
         u.kind = "branch" => l = x /\ r = y
  PROVE  ResultsAt(l, r, u, k, v) = ResultsAt(x, y, u, k, v)
<1>1. CASE u.kind = "branch"
  BY <1>1
<1>2. CASE u.kind # "branch"
  <2>1. \/ u = Empty /\ u.kind = "empty"
        \/ u.kind = "leaf" /\ u # Empty
    BY <1>2 DEF Shaped, Empty
  <2>2. \A p, q : FoundAt(p, u, k) = FoundAt(q, u, k)
    BY <2>1 DEF FoundAt
  <2>3. \A p, q : PutAt(p, u, k, v) = PutAt(q, u, k, v)
    <3>1. CASE u = Empty
      BY <3>1 DEF PutAt
    <3>2. CASE u = Leaf(k, v)
      BY <2>1, <3>2 DEF PutAt
    <3>3. CASE u.kind = "leaf" /\ u # Leaf(k, v) /\ u # Empty
      BY <3>3 DEF PutAt
    <3>4. QED
      BY <2>1, <3>1, <3>2, <3>3
  <2>4. \A p, q : DeletedAt(p, u, k) = DeletedAt(q, u, k)
    BY <2>1 DEF DeletedAt
  <2>5. \A p, q, z, w : ItemsAt(p, q, u) = ItemsAt(z, w, u)
    BY <2>1 DEF ItemsAt
  <2>6. \A p, q : PathAt(p, u, k) = PathAt(q, u, k)
    BY <2>1 DEF PathAt
  <2>7. QED
    BY <2>2, <2>3, <2>4, <2>5, <2>6 DEF ResultsAt
<1>3. QED
  BY <1>1, <1>2

\* Branches are higher than their children.
LEMMA Heights ==
  ASSUME NEW B, WellShaped(B), Width \in Nat, NEW u \in B
  PROVE  /\ Height(u) \in 0..Width
         /\ u.kind = "branch" => /\ u.left \in B /\ u.right \in B
                                 /\ Height(u.left) < Height(u) /\ Height(u.right) < Height(u)
<1>1. Shaped(u)
  BY DEF WellShaped
<1>2. CASE u.kind # "branch"
  BY <1>2 DEF Height
<1>3. CASE u.kind = "branch"
  <2>1. Children(u) = {u.left, u.right} /\ u.left \in B /\ u.right \in B
    BY <1>3 DEF WellShaped, Closed, Children
  <2>2. u.bit \in 0..(Width - 1) /\ \A c \in {u.left, u.right} : c.kind = "branch" => c.bit > u.bit
    BY <1>1, <1>3, <2>1 DEF Shaped, Empty
  <2>3. ASSUME NEW c \in {u.left, u.right} PROVE Height(c) < Height(u)
    <3>1. Shaped(c)
      BY <2>1 DEF WellShaped
    <3>2. c.kind = "branch" => c.bit \in 0..(Width - 1)
      BY <3>1 DEF Shaped, Empty
    <3>3. QED
      BY <1>3, <2>2, <3>2 DEF Height
  <2>4. QED
    BY <1>3, <2>1, <2>2, <2>3 DEF Height
<1>4. QED
  BY <1>2, <1>3

\* and at all of them.
IsResults(f, B, k, v) ==
  /\ f = [u \in B |-> f[u]]
  /\ \A u \in B : f[u] = ResultsAt(f[u.left], f[u.right], u, k, v)

\* The recursions have solutions.
LEMMA ResultsExist ==
  ASSUME NEW B, WellShaped(B), Width \in Nat, NEW k, NEW v
  PROVE  \E f : IsResults(f, B, k, v)
<1> DEFINE Bad == {n \in Nat : ~\E f : ResultsUpTo(f, B, k, v, n)}
<1>1. Bad = {}
  <2>1. SUFFICES ASSUME Bad # {} PROVE FALSE
    OBVIOUS
  <2>2. PICK n \in Bad : \A i \in Bad : ~(i < n)
    <3>1. Bad \in SUBSET Nat
      OBVIOUS
    <3> HIDE DEF Bad
    <3>2. QED
      BY <2>1, <3>1, Smallest
  <2>3. n # 0
    <3>1. ASSUME NEW u \in B PROVE ~(Height(u) < 0)
      BY Heights
    <3>2. ResultsUpTo([u \in B |-> 0], B, k, v, 0)
      BY <3>1 DEF ResultsUpTo
    <3>3. QED
      BY <3>2
  <2>4. n - 1 \in Nat /\ n - 1 \notin Bad /\ n \in Nat
    BY <2>2, <2>3
  <2>5. PICK f : ResultsUpTo(f, B, k, v, n - 1)
    BY <2>4
  <2> DEFINE g == [u \in B |-> ResultsAt(f[u.left], f[u.right], u, k, v)]
  <2>6. ASSUME NEW u \in B, Height(u) < n - 1 PROVE f[u] = g[u]
    BY <2>5, <2>6 DEF ResultsUpTo
  <2>7. ASSUME NEW u \in B, Height(u) < n PROVE g[u] = ResultsAt(g[u.left], g[u.right], u, k, v)
    <3>1. g[u] = ResultsAt(f[u.left], f[u.right], u, k, v)
      OBVIOUS
    <3> HIDE DEF g
    <3>2. ASSUME u.kind = "branch" PROVE f[u.left] = g[u.left] /\ f[u.right] = g[u.right]
      <4>1. /\ u.left \in B /\ u.right \in B /\ Height(u) \in Int
            /\ Height(u.left) < Height(u) /\ Height(u.right) < Height(u)
        BY <3>2, Heights
      <4>2. Height(u.left) \in Int /\ Height(u.right) \in Int
        BY <4>1, Heights
      <4>3. Height(u.left) < n - 1 /\ Height(u.right) < n - 1
        BY <2>4, <2>7, <4>1, <4>2
      <4>4. QED
        BY <2>6, <4>1, <4>3
    <3>3. Shaped(u)
      BY DEF WellShaped
    <3>4. QED
      BY <3>1, <3>2, <3>3, ResultsSame
  <2>8. ResultsUpTo(g, B, k, v, n)
    <3> HIDE DEF g
    <3> QED BY <2>7 DEF ResultsUpTo
  <2>9. QED
    BY <2>8
<1>2. PICK g : ResultsUpTo(g, B, k, v, Width + 1)
  BY <1>1
<1>3. ASSUME NEW u \in B PROVE Height(u) < Width + 1
  BY Heights
<1> DEFINE h == [u \in B |-> g[u]]
<1>4. ASSUME NEW u \in B PROVE h[u] = ResultsAt(h[u.left], h[u.right], u, k, v)
  <2>1. h[u] = ResultsAt(g[u.left], g[u.right], u, k, v)
    BY <1>2, <1>3 DEF ResultsUpTo
  <2>2. u.kind = "branch" => h[u.left] = g[u.left] /\ h[u.right] = g[u.right]
    BY Heights
  <2>3. Shaped(u)
    BY DEF WellShaped
  <2> HIDE DEF h
  <2>4. QED
    BY <2>1, <2>2, <2>3, ResultsSame
<1>5. h = [u \in B |-> h[u]]
  OBVIOUS
<1> HIDE DEF h
<1>6. IsResults(h, B, k, v)
  BY <1>4, <1>5 DEF IsResults
<1>7. QED
  BY <1>6

\* Each operation does what its recursion says.
LEMMA OperationsStep ==
  ASSUME NEW t, Width \in Nat, WellShaped(Below(t)), NEW k, NEW v
  PROVE  \A u \in Below(t) :
           /\ Founds(t, k)[u] = FoundAt(Founds(t, k)[Onward(u, Route(k))], u, k)
           /\ Puts(t, k, v)[u] = PutAt(Puts(t, k, v)[Onward(u, Route(k))], u, k, v)
           /\ Deletes(t, k)[u] = DeletedAt(Deletes(t, k)[Onward(u, Route(k))], u, k)
           /\ Itemses(t)[u] = ItemsAt(Itemses(t)[u.left], Itemses(t)[u.right], u)
           /\ Paths(t, k)[u] = PathAt(Paths(t, k)[Onward(u, Route(k))], u, k)
<1> DEFINE B == Below(t)
<1>1. PICK f : IsResults(f, B, k, v)
  BY ResultsExist
<1> DEFINE found   == [u \in B |-> f[u].found]
           put     == [u \in B |-> f[u].put]
           deleted == [u \in B |-> f[u].deleted]
           items   == [u \in B |-> f[u].items]
           path    == [u \in B |-> f[u].path]
<1>2. ASSUME NEW u \in B, u.kind = "branch"
      PROVE  /\ Onward(u, Route(k)) \in B /\ u.left \in B /\ u.right \in B
             /\ (IF Direction(Route(k), u.bit) = 1 THEN f[u.right] ELSE f[u.left]) = f[Onward(u, Route(k))]
  BY <1>2, Heights DEF Onward, Side
<1>3. ASSUME NEW u \in B
      PROVE  /\ f[u].found = FoundAt(found[Onward(u, Route(k))], u, k)
             /\ f[u].put = PutAt(put[Onward(u, Route(k))], u, k, v)
             /\ f[u].deleted = DeletedAt(deleted[Onward(u, Route(k))], u, k)
             /\ f[u].items = ItemsAt(items[u.left], items[u.right], u)
             /\ f[u].path = PathAt(path[Onward(u, Route(k))], u, k)
  <2> DEFINE o == Onward(u, Route(k))
             x == [found |-> found[o], put |-> put[o], deleted |-> deleted[o], items |-> items[o], path |-> path[o]]
             l == [x EXCEPT !.items = items[u.left]]
             r == [x EXCEPT !.items = items[u.right]]
  <2>1. CASE u.kind = "branch"
    <3>1. f[u] = ResultsAt(f[u.left], f[u.right], u, k, v)
      BY <1>1 DEF IsResults
    <3>2. /\ found[o] = f[o].found /\ put[o] = f[o].put /\ deleted[o] = f[o].deleted /\ path[o] = f[o].path
          /\ items[u.left] = f[u.left].items /\ items[u.right] = f[u.right].items
      BY <1>2, <2>1
    <3> HIDE DEF found, put, deleted, items, path
    <3>3. QED
      BY <1>2, <2>1, <3>1, <3>2 DEF ResultsAt
  <2>2. CASE u.kind # "branch"
    <3>1. f[u] = ResultsAt(l, r, u, k, v)
      <4>1. Shaped(u) /\ f[u] = ResultsAt(f[u.left], f[u.right], u, k, v)
        BY <1>1 DEF WellShaped, IsResults
      <4> HIDE DEF l, r
      <4>2. QED
        BY <2>2, <4>1, ResultsSame
    <3>2. /\ l.found = found[o] /\ l.put = put[o] /\ l.deleted = deleted[o] /\ l.path = path[o]
          /\ r.found = found[o] /\ r.put = put[o] /\ r.deleted = deleted[o] /\ r.path = path[o]
          /\ l.items = items[u.left] /\ r.items = items[u.right]
      OBVIOUS
    <3> HIDE DEF l, r, found, put, deleted, items, path, o
    <3>3. QED
      BY <3>1, <3>2 DEF ResultsAt, o
  <2>3. QED
    BY <2>1, <2>2
<1>4. IsFound(found, t, k) /\ IsPut(put, t, k, v) /\ IsDeleted(deleted, t, k) /\ IsItems(items, t) /\ IsPath(path, t, k)
  BY <1>3 DEF IsFound, IsPut, IsDeleted, IsItems, IsPath
<1>5. /\ IsFound(Founds(t, k), t, k) /\ IsPut(Puts(t, k, v), t, k, v) /\ IsDeleted(Deletes(t, k), t, k)
      /\ IsItems(Itemses(t), t) /\ IsPath(Paths(t, k), t, k)
  BY <1>4 DEF Founds, Puts, Deletes, Itemses, Paths
<1>6. QED
  BY <1>5 DEF IsFound, IsPut, IsDeleted, IsItems, IsPath

-----------------------------------------------------------------------------
(***************************************************************************)
(* Reading the tree of a map.                                              *)
(***************************************************************************)
\* A branch and a key: which way the key goes, and whether it belongs there.
Directs(m, S, c, k) ==
  /\ TreeAt(m, S).kind = "branch" /\ TreeAt(m, S).bit = c
  /\ Direction(Route(k), c) \in {0, 1}
  /\ Onward(TreeAt(m, S), Route(k)) = TreeAt(m, On(S, c, Direction(Route(k), c)))
  /\ k \in S <=> k \in On(S, c, Direction(Route(k), c))
  /\ (Padded(Route(k), c) = TreeAt(m, S).prefix) <=> Common(S \cup {k}, c)
  /\ k \in S => Padded(Route(k), c) = TreeAt(m, S).prefix

\* A lookup goes to the side where its key is, if it is anywhere.
LEMMA Directed ==
  ASSUME NEW K, Routable(K), NEW m, DOMAIN m \in SUBSET K,
         NEW S \in SUBSET DOMAIN m, NEW c, Splits(S, c), NEW k \in K
  PROVE  Directs(m, S, c, k)
<1>1. Routable(DOMAIN m) /\ Width \in Nat /\ c \in 0..(Width - 1) /\ c \in 0..Width
  BY SubRoutable DEF Routable, Splits
<1>2. TreeAt(m, S).kind = "branch" /\ TreeAt(m, S).bit = c
  BY <1>1, TreeKinds
<1>3. Direction(Route(k), c) \in {0, 1}
  BY <1>1 DEF Routable, Direction
<1>4. Onward(TreeAt(m, S), Route(k)) = TreeAt(m, On(S, c, Direction(Route(k), c)))
  BY <1>1, <1>2, <1>3, SidesOf DEF Onward, Side
<1>5. k \in S <=> k \in On(S, c, Direction(Route(k), c))
  BY DEF On
<1>6. PICK j \in S : TRUE
  BY DEF Splits
<1>7. (Padded(Route(k), c) = TreeAt(m, S).prefix) <=> Agree(Route(k), Route(j), c)
  BY <1>1, <1>6, SidesOf, PaddedAgree
<1>8. ASSUME Agree(Route(k), Route(j), c) PROVE Common(S \cup {k}, c)
  <2>1. \A x \in S : Agree(Route(x), Route(j), c)
    BY <1>6 DEF Splits, Common
  <2>2. \A x \in S \cup {k} : Agree(Route(x), Route(j), c)
    BY <1>8, <2>1
  <2>3. QED
    BY <2>2 DEF Common, Agree
<1>9. Common(S \cup {k}, c) => Agree(Route(k), Route(j), c)
  BY <1>6 DEF Common
<1>10. k \in S => Padded(Route(k), c) = TreeAt(m, S).prefix
  BY <1>1, SidesOf
<1>11. QED
  BY <1>2, <1>3, <1>4, <1>5, <1>7, <1>8, <1>9, <1>10 DEF Directs

\* The sides of a branch that is below t are below t.
LEMMA SidesBelow ==
  ASSUME NEW m, Routable(DOMAIN m), NEW t, Closed(Below(t)),
         NEW S \in SUBSET DOMAIN m, TreeAt(m, S) \in Below(t), NEW c, Splits(S, c), NEW side \in {0, 1}
  PROVE  TreeAt(m, On(S, c, side)) \in Below(t)
<1>1. TreeAt(m, On(S, c, side)) \in Children(TreeAt(m, S))
  BY SidesOf
<1>2. QED
  BY <1>1 DEF Closed

\* Get finds what the map holds.
LEMMA FoundIs ==
  ASSUME NEW K, Routable(K), NEW m, DOMAIN m \in SUBSET K, NEW k \in K,
         NEW t, WellShaped(Below(t)), NEW S \in SUBSET DOMAIN m, TreeAt(m, S) \in Below(t)
  PROVE  Founds(t, k)[TreeAt(m, S)] = (IF k \in S THEN {m[k]} ELSE {})
<1> DEFINE f == Founds(t, k)
           Bad == {T \in SUBSET DOMAIN m : TreeAt(m, T) \in Below(t)
                                           /\ f[TreeAt(m, T)] # (IF k \in T THEN {m[k]} ELSE {})}
<1>1. SUFFICES ASSUME Bad # {} PROVE FALSE
  OBVIOUS
<1>2. Routable(DOMAIN m) /\ Width \in Nat /\ Closed(Below(t))
  BY SubRoutable DEF Routable, WellShaped
<1>3. PICK T \in Bad : \A c : Splits(T, c) => On(T, c, 0) \notin Bad /\ On(T, c, 1) \notin Bad
  <2>1. Bad \in SUBSET SUBSET DOMAIN m
    OBVIOUS
  <2> HIDE DEF Bad
  <2>2. QED
    BY <1>1, <1>2, <2>1, SmallestGroup
<1> DEFINE u == TreeAt(m, T)
<1>4. T \in SUBSET DOMAIN m /\ u \in Below(t) /\ f[u] # (IF k \in T THEN {m[k]} ELSE {})
  OBVIOUS
<1>5. f[u] = FoundAt(f[Onward(u, Route(k))], u, k)
  BY <1>2, <1>4, OperationsStep
<1> HIDE DEF f, u
<1>6. CASE T = {}
  <2>1. u = Empty
    BY <1>2, <1>6, TreeNone DEF u
  <2>2. QED
    BY <1>4, <1>5, <1>6, <2>1 DEF FoundAt, Empty
<1>7. CASE \E j \in T : T = {j}
  <2>1. PICK j \in T : T = {j}
    BY <1>7
  <2>2. u = Leaf(j, m[j])
    BY <1>2, <1>4, <2>1, TreeOne DEF u
  <2>3. f[u] = IF j = k THEN {m[j]} ELSE {}
    BY <1>5, <2>2 DEF FoundAt, Leaf
  <2>4. QED
    BY <1>4, <2>1, <2>3
<1>8. ASSUME NEW c, Splits(T, c) PROVE FALSE
  <2> DEFINE side == Direction(Route(k), c)
             G == On(T, c, side)
  <2>1. /\ u.kind = "branch" /\ u.bit = c /\ side \in {0, 1}
        /\ Onward(u, Route(k)) = TreeAt(m, G)
        /\ k \in T <=> k \in G
        /\ k \in T => Padded(Route(k), c) = u.prefix
    <3>1. Directs(m, T, c, k)
      BY <1>4, <1>8, Directed
    <3>2. QED
      BY <3>1 DEF Directs, u
  <2>2. G \in SUBSET DOMAIN m
    BY <1>4 DEF On
  <2>3. TreeAt(m, G) \in Below(t)
    BY <1>2, <1>4, <1>8, <2>1, SidesBelow DEF u
  <2>4. G \notin Bad
    BY <1>3, <1>8, <2>1
  <2>5. f[TreeAt(m, G)] = (IF k \in G THEN {m[k]} ELSE {})
    BY <2>2, <2>3, <2>4
  <2>6. f[u] = IF Padded(Route(k), c) # u.prefix THEN {} ELSE f[TreeAt(m, G)]
    BY <1>5, <2>1 DEF FoundAt
  <2>7. QED
    BY <1>4, <2>1, <2>5, <2>6
<1>9. QED
  BY <1>2, <1>4, <1>6, <1>7, <1>8, TreeKinds

\* Either side of a split.
LEMMA OneSide ==
  ASSUME NEW S, Routable(S), NEW c, Splits(S, c), NEW side \in {0, 1}
  PROVE  On(S, c, side) \in SUBSET S /\ On(S, c, side) # {} /\ Common(On(S, c, side), c + 1)
<1>1. On(S, c, side) \in SUBSET S
  BY DEF On
<1>2. On(S, c, 0) # {} /\ On(S, c, 1) # {} /\ Common(On(S, c, 0), c + 1) /\ Common(On(S, c, 1), c + 1)
  BY SplitSides
<1>3. QED
  BY <1>1, <1>2

\* Items are the map.
LEMMA ItemsAre ==
  ASSUME NEW m, Routable(DOMAIN m), NEW t, WellShaped(Below(t)),
         NEW S \in SUBSET DOMAIN m, TreeAt(m, S) \in Below(t)
  PROVE  Itemses(t)[TreeAt(m, S)] = Restricted(m, S)
<1> DEFINE f == Itemses(t)
           Bad == {T \in SUBSET DOMAIN m : TreeAt(m, T) \in Below(t) /\ f[TreeAt(m, T)] # Restricted(m, T)}
<1>1. SUFFICES ASSUME Bad # {} PROVE FALSE
  OBVIOUS
<1>2. Width \in Nat /\ Closed(Below(t))
  BY DEF Routable, WellShaped
<1>3. PICK T \in Bad : \A c : Splits(T, c) => On(T, c, 0) \notin Bad /\ On(T, c, 1) \notin Bad
  <2>1. Bad \in SUBSET SUBSET DOMAIN m
    OBVIOUS
  <2> HIDE DEF Bad
  <2>2. QED
    BY <1>1, <2>1, SmallestGroup
<1> DEFINE u == TreeAt(m, T)
<1>4. T \in SUBSET DOMAIN m /\ u \in Below(t) /\ f[u] # Restricted(m, T)
  OBVIOUS
<1>5. f[u] = ItemsAt(f[u.left], f[u.right], u)
  BY <1>2, <1>4, OperationsStep
<1> HIDE DEF f, u
<1>6. CASE T = {}
  <2>1. u = Empty
    BY <1>6, TreeNone DEF u
  <2>2. f[u] = [k \in {} |-> k]
    BY <1>5, <2>1 DEF ItemsAt, Empty
  <2>3. QED
    BY <1>4, <1>6, <2>2 DEF Restricted
<1>7. CASE \E j \in T : T = {j}
  <2>1. PICK j \in T : T = {j}
    BY <1>7
  <2>2. u = Leaf(j, m[j])
    BY <1>4, <2>1, TreeOne DEF u
  <2>3. u.kind = "leaf" /\ u.key = j /\ u.value = m[j]
    BY <2>2 DEF Leaf
  <2>4. f[u] = [k \in {j} |-> m[j]]
    BY <1>5, <2>3 DEF ItemsAt
  <2>5. [k \in {j} |-> m[j]] = [k \in {j} |-> m[k]]
    OBVIOUS
  <2>6. QED
    BY <1>4, <2>1, <2>4, <2>5 DEF Restricted
<1>8. ASSUME NEW c, Splits(T, c) PROVE FALSE
  <2> DEFINE L == On(T, c, 0)
             R == On(T, c, 1)
  <2>1. Routable(T)
    BY <1>4, SubRoutable
  <2>2. L \in SUBSET DOMAIN m /\ R \in SUBSET DOMAIN m /\ L \cup R = T
    BY <1>4, <1>8, <2>1, SplitSides DEF On
  <2>3. TreeAt(m, L) \in Below(t) /\ TreeAt(m, R) \in Below(t)
    BY <1>2, <1>4, <1>8, SidesBelow DEF u
  <2>4. L \notin Bad /\ R \notin Bad
    BY <1>3, <1>8
  <2>5. f[TreeAt(m, L)] = Restricted(m, L) /\ f[TreeAt(m, R)] = Restricted(m, R)
    BY <2>2, <2>3, <2>4
  <2>6. u.kind = "branch" /\ u.left = TreeAt(m, L) /\ u.right = TreeAt(m, R)
    BY <1>4, <1>8, SidesOf, TreeKinds DEF u
  <2>7. f[u] = Joined(Restricted(m, L), Restricted(m, R))
    BY <1>5, <2>5, <2>6 DEF ItemsAt
  <2> HIDE DEF L, R
  <2>8. Joined(Restricted(m, L), Restricted(m, R)) = Restricted(m, T)
    BY <2>2 DEF Joined, Restricted
  <2>9. QED
    BY <1>4, <2>7, <2>8
<1>9. QED
  BY <1>4, <1>6, <1>7, <1>8, TreeKinds

\* The children of a branch of a map's tree pass the routing check.
LEMMA ChildrenFit ==
  ASSUME NEW m, Routable(DOMAIN m), NEW u \in Subtrees(m, DOMAIN m), u.kind = "branch"
  PROVE  ChildFits(u, 0) /\ ChildFits(u, 1)
<1>1. PICK S \in SUBSET DOMAIN m : S # {} /\ u = TreeAt(m, S)
  BY DEF Subtrees
<1>2. PICK c : Splits(S, c)
  BY <1>1, TreeKinds DEF Leaf
<1>3. Routable(S) /\ Width \in Nat /\ c \in 0..(Width - 1) /\ c \in 0..Width
  BY <1>2, SubRoutable DEF Routable, Splits
<1>4. ASSUME NEW side \in {0, 1} PROVE ChildFits(u, side)
  <2> DEFINE G == On(S, c, side)
             w == TreeAt(m, G)
  <2>1. G \in SUBSET S /\ G # {} /\ G \in SUBSET DOMAIN m /\ Common(G, c + 1)
    BY <1>1, <1>2, <1>3, OneSide
  <2>2. Side(u, side) = w /\ u.bit = c /\ \A k \in S : u.prefix = Padded(Route(k), c)
    BY <1>1, <1>2, SidesOf, TreeKinds DEF Side
  <2>3. w \in Children(u)
    BY <1>1, <1>2, SidesOf
  <2>4. w # Empty /\ (w.kind = "branch" => w.bit > u.bit)
    <3>1. Shaped(u)
      BY SubtreesClosed
    <3>2. QED
      BY <2>3, <3>1 DEF Shaped, Empty
  <2>5. \A k \in G : Direction(Route(k), c) = side
    BY DEF On
  <2> HIDE DEF w, G
  <2>6. PICK k \in G : Agree(PrefixOf(w), Route(k), c + 1)
    <3>1. CASE \E j \in G : G = {j}
      <4>1. PICK j \in G : G = {j}
        BY <3>1
      <4>2. w = Leaf(j, m[j])
        BY <2>1, <4>1, TreeOne DEF w
      <4>3. PrefixOf(w) = Route(j)
        BY <4>2 DEF PrefixOf, Leaf
      <4>4. QED
        BY <4>3 DEF Agree
    <3>2. CASE \E d : Splits(G, d)
      <4>1. PICK d : Splits(G, d)
        BY <3>2
      <4>2. PICK j \in G : TRUE
        BY <2>1
      <4>3. w.kind = "branch" /\ w.prefix = Padded(Route(j), d)
        BY <2>1, <4>1, SidesOf, TreeKinds DEF w
      <4>4. d \in 0..Width /\ c + 1 <= d
        BY <1>3, <2>1, <4>1, SplitsLater DEF Splits
      <4>5. Agree(w.prefix, Route(j), d)
        BY <1>3, <4>3, <4>4, PaddedBits
      <4>6. Agree(w.prefix, Route(j), c + 1)
        BY <1>3, <4>4, <4>5 DEF Agree
      <4>7. QED
        BY <4>3, <4>6 DEF PrefixOf
    <3>3. QED
      BY <2>1, <3>1, <3>2, TreeKinds
  <2>7. Padded(PrefixOf(w), c) = u.prefix
    <3>1. Agree(PrefixOf(w), Route(k), c)
      BY <1>3, <2>6 DEF Agree
    <3>2. k \in S
      BY <2>1
    <3>3. QED
      BY <1>3, <2>2, <3>1, <3>2, PaddedAgree
  <2>8. Direction(PrefixOf(w), c) = side
    <3>1. c + 1 \in 1..(c + 1)
      BY <1>3
    <3>2. PrefixOf(w)[c + 1] = Route(k)[c + 1]
      BY <2>6, <3>1 DEF Agree
    <3>3. QED
      BY <2>5, <3>2 DEF Direction
  <2>9. QED
    BY <2>2, <2>4, <2>7, <2>8 DEF ChildFits
<1>5. QED
  BY <1>4

-----------------------------------------------------------------------------
(***************************************************************************)
(* Proofs of inclusion.                                                    *)
(***************************************************************************)
\* The steps of a proof p that leads from node u down to a leaf.
Leads(p, u, leaf, bits) ==
  /\ Len(p) \in Nat /\ DOMAIN p = 1..Len(p)
  /\ \A i \in DOMAIN p :
       /\ p[i].kind = "branch" /\ p[i].bit \in Nat
       /\ p[i].prefix = Padded(bits, p[i].bit)
       /\ p[i].left # Empty /\ p[i].right # Empty
       /\ Onward(p[i], bits) = Hashed(leaf, p, i)
       /\ i > 1 => p[i].bit > p[i-1].bit
  /\ Hashed(leaf, p, 0) = u

\* One more step at the top.
LEMMA OneStepMore ==
  ASSUME NEW p, NEW w, NEW leaf, NEW bits, Leads(p, w, leaf, bits), NEW u,
         u.kind = "branch", u.bit \in Nat, u.prefix = Padded(bits, u.bit),
         u.left # Empty, u.right # Empty, Onward(u, bits) = w,
         w.kind = "branch" => w.bit > u.bit
  PROVE  Leads(<<u>> \o p, u, leaf, bits)
<1> DEFINE q == <<u>> \o p
<1>1. Len(p) \in Nat /\ DOMAIN p = 1..Len(p)
  BY DEF Leads
<1>2. /\ Len(q) = Len(p) + 1 /\ DOMAIN q = 1..(Len(p) + 1)
      /\ q[1] = u
      /\ \A i \in 1..Len(p) : q[i+1] = p[i]
  BY <1>1
<1> HIDE DEF q
<1>3. ASSUME NEW i \in 0..Len(p) PROVE Hashed(leaf, q, i + 1) = Hashed(leaf, p, i)
  <2>1. CASE i = Len(p)
    BY <1>1, <1>2, <2>1 DEF Hashed
  <2>2. CASE i # Len(p)
    <3>1. i + 1 \in 1..Len(p) /\ i + 1 # Len(q)
      <4>1. Len(q) = Len(p) + 1
        BY <1>2
      <4>2. \A n \in Nat : \A j \in 0..n : j # n => j + 1 \in 1..n /\ j + 1 # n + 1
        OBVIOUS
      <4>3. i + 1 \in 1..Len(p) /\ i + 1 # Len(p) + 1
        BY <1>1, <1>3, <2>2, <4>2
      <4>4. QED
        BY <4>1, <4>3
    <3>2. q[i + 1 + 1] = p[i + 1]
      BY <1>2, <3>1
    <3>3. QED
      BY <2>2, <3>1, <3>2 DEF Hashed
  <2>3. QED
    BY <2>1, <2>2
<1>4. Hashed(leaf, q, 0) = u
  BY <1>1, <1>2 DEF Hashed
<1>5. ASSUME NEW i \in DOMAIN q
      PROVE  /\ q[i].kind = "branch" /\ q[i].bit \in Nat
             /\ q[i].prefix = Padded(bits, q[i].bit)
             /\ q[i].left # Empty /\ q[i].right # Empty
             /\ Onward(q[i], bits) = Hashed(leaf, q, i)
             /\ i > 1 => q[i].bit > q[i-1].bit
  <2>1. CASE i = 1
    <3>1. Hashed(leaf, q, 1) = w
      <4>1. 0 \in 0..Len(p) /\ Hashed(leaf, p, 0) = w
        BY <1>1 DEF Leads
      <4>2. Hashed(leaf, q, 0 + 1) = Hashed(leaf, p, 0)
        BY <1>3, <4>1
      <4>3. QED
        BY <4>1, <4>2
    <3>2. QED
      BY <1>2, <2>1, <3>1
  <2>2. CASE i # 1
    <3>1. PICK j : j = i - 1
      OBVIOUS
    <3>2. j \in 1..Len(p) /\ i = j + 1 /\ q[i] = p[j] /\ j \in 0..Len(p)
      BY <1>1, <1>2, <2>2, <3>1
    <3>3. Hashed(leaf, q, i) = Hashed(leaf, p, j)
      BY <1>3, <3>2
    <3>4. /\ p[j].kind = "branch" /\ p[j].bit \in Nat
          /\ p[j].prefix = Padded(bits, p[j].bit)
          /\ p[j].left # Empty /\ p[j].right # Empty
          /\ Onward(p[j], bits) = Hashed(leaf, p, j)
          /\ j > 1 => p[j].bit > p[j-1].bit
      BY <1>1, <3>2 DEF Leads
    <3>5. q[i].bit > q[i-1].bit
      <4>1. CASE j = 1
        <5>1. p[1] = w
          <6>1. Hashed(leaf, p, 0) = p[1]
            BY <1>1, <3>2, <4>1 DEF Hashed
          <6>2. QED
            BY <6>1 DEF Leads
        <5>2. QED
          BY <1>2, <3>2, <3>4, <4>1, <5>1
      <4>2. CASE j # 1
        <5>1. j - 1 \in 1..Len(p) /\ i - 1 = (j - 1) + 1 /\ j > 1
          BY <1>1, <3>2, <4>2
        <5>2. q[i - 1] = p[j - 1]
          BY <1>2, <5>1
        <5>3. QED
          BY <3>2, <3>4, <5>1, <5>2
      <4>3. QED
        BY <4>1, <4>2
    <3>6. QED
      BY <3>2, <3>3, <3>4, <3>5
  <2>3. QED
    BY <2>1, <2>2
<1>6. QED
  BY <1>1, <1>2, <1>4, <1>5 DEF Leads, q

\* The proofs that Prove returns for key k lead to its leaf, and there is one.
LEMMA PathsLead ==
  ASSUME NEW K, Routable(K), NEW m, DOMAIN m \in SUBSET K, NEW k \in K,
         NEW t, WellShaped(Below(t)), NEW S \in SUBSET DOMAIN m, TreeAt(m, S) \in Below(t)
  PROVE  /\ k \in S => Paths(t, k)[TreeAt(m, S)] # {}
         /\ \A p \in Paths(t, k)[TreeAt(m, S)] : k \in S /\ Leads(p, TreeAt(m, S), Leaf(k, m[k]), Route(k))
<1> DEFINE f == Paths(t, k)
           Fine(T) == /\ k \in T => f[TreeAt(m, T)] # {}
                      /\ \A p \in f[TreeAt(m, T)] : k \in T /\ Leads(p, TreeAt(m, T), Leaf(k, m[k]), Route(k))
           Bad == {T \in SUBSET DOMAIN m : TreeAt(m, T) \in Below(t) /\ ~Fine(T)}
<1>1. SUFFICES ASSUME Bad # {} PROVE FALSE
  OBVIOUS
<1>2. Routable(DOMAIN m) /\ Width \in Nat /\ Closed(Below(t))
  BY SubRoutable DEF Routable, WellShaped
<1>3. PICK T \in Bad : \A c : Splits(T, c) => On(T, c, 0) \notin Bad /\ On(T, c, 1) \notin Bad
  <2>1. Bad \in SUBSET SUBSET DOMAIN m
    OBVIOUS
  <2> HIDE DEF Bad
  <2>2. QED
    BY <1>1, <1>2, <2>1, SmallestGroup
<1> DEFINE u == TreeAt(m, T)
<1>4. T \in SUBSET DOMAIN m /\ u \in Below(t) /\ ~Fine(T)
  OBVIOUS
<1>5. f[u] = PathAt(f[Onward(u, Route(k))], u, k)
  BY <1>2, <1>4, OperationsStep
<1> HIDE DEF f
<1>6. CASE T = {}
  <2>1. u = Empty
    BY <1>2, <1>6, TreeNone
  <2> HIDE DEF u
  <2>2. f[u] = {}
    BY <1>5, <2>1 DEF PathAt, Empty
  <2>3. QED
    BY <1>4, <1>6, <2>2 DEF u
<1>7. CASE \E j \in T : T = {j}
  <2>1. PICK j \in T : T = {j}
    BY <1>7
  <2>2. u = Leaf(j, m[j])
    BY <1>2, <1>4, <2>1, TreeOne
  <2> HIDE DEF u
  <2>3. f[u] = IF j = k THEN {<<>>} ELSE {}
    BY <1>5, <2>2 DEF PathAt, Leaf
  <2>4. Leads(<<>>, u, u, Route(k))
    BY DEF Leads, Hashed
  <2>5. QED
    BY <1>4, <2>1, <2>2, <2>3, <2>4 DEF u
<1>8. ASSUME NEW c, Splits(T, c) PROVE FALSE
  <2> DEFINE side == Direction(Route(k), c)
             G == On(T, c, side)
             w == TreeAt(m, G)
  <2>1. /\ u.kind = "branch" /\ u.bit = c /\ side \in {0, 1}
        /\ Onward(u, Route(k)) = w
        /\ k \in T <=> k \in G
        /\ k \in T => Padded(Route(k), c) = u.prefix
    <3>1. Directs(m, T, c, k)
      BY <1>4, <1>8, Directed
    <3>2. QED
      BY <3>1 DEF Directs
  <2>2. G \in SUBSET DOMAIN m
    BY <1>4 DEF On
  <2>3. w \in Below(t)
    BY <1>2, <1>4, <1>8, <2>1, SidesBelow
  <2>4. G \notin Bad
    BY <1>3, <1>8, <2>1
  <2>5. Fine(G)
    BY <2>2, <2>3, <2>4
  <2>6. f[u] = IF Padded(Route(k), c) # u.prefix THEN {} ELSE {<<u>> \o rest : rest \in f[w]}
    <3> HIDE DEF u, w
    <3> QED BY <1>5, <2>1 DEF PathAt
  <2>7. Shaped(u) /\ Children(u) = {u.left, u.right} /\ w \in Children(u)
    <3>1. Shaped(u)
      BY <1>4 DEF WellShaped
    <3>2. QED
      BY <2>1, <3>1 DEF Children, Onward, Side
  <2>8. u.left # Empty /\ u.right # Empty /\ (w.kind = "branch" => w.bit > u.bit) /\ u.bit \in Nat
    BY <2>1, <2>7 DEF Shaped, Empty
  <2>9. ASSUME NEW p \in f[w], Padded(Route(k), c) = u.prefix PROVE Leads(<<u>> \o p, u, Leaf(k, m[k]), Route(k))
    <3>1. Leads(p, w, Leaf(k, m[k]), Route(k))
      BY <2>5, <2>9
    <3> HIDE DEF u, w
    <3>2. QED
      BY <2>1, <2>8, <2>9, <3>1, OneStepMore
  <2>10. \A p \in f[u] : k \in T /\ Leads(p, u, Leaf(k, m[k]), Route(k))
    <3>1. \A p \in f[w] : k \in T
      BY <2>1, <2>5
    <3> HIDE DEF u, w
    <3>2. QED
      BY <2>6, <2>9, <3>1
  <2>11. k \in T => f[u] # {}
    <3>1. k \in T => f[w] # {}
      BY <2>1, <2>5
    <3> HIDE DEF u, w
    <3>2. QED
      BY <2>1, <2>6, <3>1
  <2>12. QED
    BY <1>4, <2>10, <2>11
<1>9. QED
  BY <1>2, <1>4, <1>6, <1>7, <1>8, TreeKinds

\* The steps of any proof ever returned are branches.
Steps(p) == /\ Len(p) \in Nat /\ DOMAIN p = 1..Len(p)
            /\ \A i \in DOMAIN p : p[i].kind = "branch"

\* Whatever is proved under a root is a leaf of that root's tree.
LEMMA ProvenIsLeaf ==
  ASSUME NEW root, Width \in Nat, Closed(Nodes(root)), NEW k, NEW v, NEW p, Steps(p), Verify(root, k, v, p)
  PROVE  Leaf(k, v) \in Nodes(root)
<1> DEFINE leaf == Leaf(k, v)
           Bad == {i \in 0..Len(p) : Hashed(leaf, p, i) \notin Nodes(root)}
<1>1. /\ Len(p) \in Nat /\ DOMAIN p = 1..Len(p)
      /\ \A i \in DOMAIN p : p[i].kind = "branch"
  BY DEF Steps
<1>2. /\ \A i \in DOMAIN p : Side(p[i], Direction(Route(k), p[i].bit)) = Hashed(leaf, p, i)
      /\ root = Hashed(leaf, p, 0)
  BY DEF Verify, FoldProof
<1>3. Bad = {}
  <2>1. SUFFICES ASSUME Bad # {} PROVE FALSE
    OBVIOUS
  <2>2. PICK i \in Bad : \A j \in Bad : ~(j < i)
    <3>1. Bad \in SUBSET Nat
      OBVIOUS
    <3> HIDE DEF Bad
    <3>2. QED
      BY <2>1, <3>1, Smallest
  <2>3. i # 0
    <3>1. CASE Len(p) = 0
      <4>1. root = leaf
        BY <1>2, <3>1 DEF Hashed
      <4>2. root # Empty
        BY <4>1 DEF Leaf, Empty
      <4>3. QED
        BY <1>2, <4>2, RootBelow
    <3>2. CASE Len(p) # 0
      <4>1. root = p[1] /\ 1 \in DOMAIN p
        <5>1. Hashed(leaf, p, 0) = p[0 + 1]
          BY <3>2 DEF Hashed
        <5>2. 1 \in 1..Len(p)
          BY <1>1, <3>2
        <5>3. 0 + 1 = 1
          OBVIOUS
        <5>4. QED
          BY <1>1, <1>2, <5>1, <5>2, <5>3
      <4>2. root # Empty
        BY <1>1, <4>1 DEF Empty
      <4>3. QED
        BY <1>2, <4>2, RootBelow
    <3>3. QED
      BY <3>1, <3>2
  <2>4. i - 1 \in 0..Len(p) /\ i - 1 \notin Bad /\ i \in DOMAIN p /\ i - 1 # Len(p)
    BY <1>1, <2>2, <2>3
  <2>5. p[i] \in Nodes(root)
    <3>1. Hashed(leaf, p, i - 1) \in Nodes(root)
      BY <2>4
    <3>2. Hashed(leaf, p, i - 1) = p[i]
      BY <1>1, <2>4 DEF Hashed
    <3>3. QED
      BY <3>1, <3>2
  <2>6. Hashed(leaf, p, i) \in Children(p[i])
    BY <1>1, <1>2, <2>4 DEF Side, Children
  <2>7. QED
    BY <2>2, <2>5, <2>6 DEF Closed
<1>4. Hashed(leaf, p, Len(p)) \in Nodes(root)
  BY <1>1, <1>3
<1>5. QED
  BY <1>4 DEF Hashed

\* Steps that lead from a root to a leaf verify under that root.
LEMMA LeadsVerifies ==
  ASSUME NEW p, NEW root, NEW k, NEW v, Leads(p, root, Leaf(k, v), Route(k))
  PROVE  Verify(root, k, v, p) /\ Steps(p)
<1>1. /\ Len(p) \in Nat /\ DOMAIN p = 1..Len(p)
      /\ \A i \in DOMAIN p :
           /\ p[i].kind = "branch"
           /\ p[i].prefix = Padded(Route(k), p[i].bit)
           /\ p[i].left # Empty /\ p[i].right # Empty
           /\ Side(p[i], Direction(Route(k), p[i].bit)) = Hashed(Leaf(k, v), p, i)
           /\ i > 1 => p[i].bit > p[i-1].bit
      /\ Hashed(Leaf(k, v), p, 0) = root
  BY DEF Leads, Onward
<1>2. root \in FoldProof(Leaf(k, v), Route(k), p)
  BY <1>1 DEF FoldProof
<1>3. QED
  BY <1>1, <1>2 DEF Verify, Steps

-----------------------------------------------------------------------------
(***************************************************************************)
(* Changing the tree of a map.                                             *)
(***************************************************************************)
\* Where a route leaves a node's prefix.
LEMMA DifferentIs ==
  ASSUME Width \in Nat, NEW a, NEW u
  PROVE  /\ Different(a, u) \in 0..Width
         /\ Agree(a, PrefixOf(u), Different(a, u))
         /\ Different(a, u) < Width => a[Different(a, u) + 1] # PrefixOf(u)[Different(a, u) + 1]
<1> DEFINE p == PrefixOf(u)
           Off == {i \in 0..(Width - 1) : a[i + 1] # p[i + 1]}
           d == Different(a, u)
<1>1. {Width} \cup Off \in SUBSET Nat /\ {Width} \cup Off # {}
  OBVIOUS
<1>2. d \in {Width} \cup Off /\ \A x \in {Width} \cup Off : d <= x
  <2>1. d = Min({Width} \cup Off)
    BY DEF Different
  <2> HIDE DEF d, Off
  <2>2. QED
    BY <1>1, <2>1, MinIs
<1> HIDE DEF d
<1>3. d \in 0..Width
  BY <1>2
<1>4. ASSUME NEW i \in 1..d PROVE a[i] = p[i]
  <2>1. PICK j : j = i - 1
    OBVIOUS
  <2>2. j \in 0..(Width - 1) /\ j < d /\ i = j + 1
    BY <1>3, <2>1
  <2>3. j \notin Off
    BY <1>2, <1>3, <2>2
  <2>4. QED
    BY <2>2, <2>3
<1>5. d < Width => a[d + 1] # p[d + 1]
  BY <1>2
<1> HIDE DEF p
<1>6. Agree(a, p, d)
  BY <1>4 DEF Agree
<1>7. QED
  BY <1>3, <1>5, <1>6 DEF d, p

\* The prefix of a group's tree is shared by the group's routes.
LEMMA PrefixAgrees ==
  ASSUME NEW m, Routable(DOMAIN m), NEW S \in SUBSET DOMAIN m
  PROVE  /\ \A j : S = {j} => PrefixOf(TreeAt(m, S)) = Route(j)
         /\ \A c : Splits(S, c) => \A j \in S : Agree(PrefixOf(TreeAt(m, S)), Route(j), c)
<1>1. ASSUME NEW j, S = {j} PROVE PrefixOf(TreeAt(m, S)) = Route(j)
  <2>1. TreeAt(m, S) = Leaf(j, m[j])
    BY <1>1, TreeOne
  <2>2. QED
    BY <2>1 DEF PrefixOf, Leaf
<1>2. ASSUME NEW c, Splits(S, c), NEW j \in S PROVE Agree(PrefixOf(TreeAt(m, S)), Route(j), c)
  <2>1. c \in 0..Width /\ Width \in Nat
    BY <1>2 DEF Splits, Routable
  <2>2. TreeAt(m, S).kind = "branch" /\ TreeAt(m, S).prefix = Padded(Route(j), c)
    BY <1>2, SidesOf, TreeKinds
  <2>3. QED
    BY <2>1, <2>2, PaddedBits DEF PrefixOf
<1>3. QED
  BY <1>1, <1>2

\* The nodes of a group's tree are its root and those of its two sides.
LEMMA NodesOf ==
  ASSUME NEW m, Routable(DOMAIN m), NEW S \in SUBSET DOMAIN m
  PROVE  /\ S = {} => Nodes(TreeAt(m, S)) = {}
         /\ \A j : S = {j} => Nodes(TreeAt(m, S)) = {TreeAt(m, S)}
         /\ \A c : Splits(S, c) =>
              Nodes(TreeAt(m, S)) = {TreeAt(m, S)} \cup Nodes(TreeAt(m, On(S, c, 0)))
                                                   \cup Nodes(TreeAt(m, On(S, c, 1)))
<1> DEFINE u == TreeAt(m, S)
<1>1. Width \in Nat /\ Closed(Nodes(u)) /\ (u # Empty => u \in Nodes(u)) /\ Empty \notin Nodes(u)
  <2>1. Width \in Nat
    BY DEF Routable
  <2>2. QED
    BY <2>1, TreesShaped, RootBelow
<1>2. ASSUME S = {} PROVE Nodes(u) = {}
  <2>1. u = Empty
    BY <1>2, TreeNone
  <2>2. Closed({}) /\ Children(Empty) = {}
    BY DEF Closed, Children, Empty
  <2> HIDE DEF u
  <2>3. QED
    BY <1>1, <2>1, <2>2, NodesWithin
<1>3. ASSUME NEW j, S = {j} PROVE Nodes(u) = {u}
  <2>1. u = Leaf(j, m[j])
    BY <1>3, TreeOne
  <2>2. Closed({u}) /\ u # Empty
    BY <2>1 DEF Closed, Children, Leaf, Empty
  <2> HIDE DEF u
  <2>3. Nodes(u) \subseteq {u}
    BY <1>1, <2>2, NodesWithin
  <2>4. QED
    BY <1>1, <2>2, <2>3
<1>4. ASSUME NEW c, Splits(S, c)
      PROVE  Nodes(u) = {u} \cup Nodes(TreeAt(m, On(S, c, 0))) \cup Nodes(TreeAt(m, On(S, c, 1)))
  <2> DEFINE L == On(S, c, 0)
             R == On(S, c, 1)
             l == TreeAt(m, L)
             r == TreeAt(m, R)
  <2>1. L \in SUBSET DOMAIN m /\ R \in SUBSET DOMAIN m /\ L # {} /\ R # {}
    <3>1. Routable(S)
      BY SubRoutable
    <3>2. QED
      BY <1>4, <3>1, OneSide
  <2>2. l # Empty /\ r # Empty /\ Closed(Nodes(l)) /\ Closed(Nodes(r))
    BY <2>1, TreeKinds, TreesShaped
  <2>3. l \in Nodes(l) /\ r \in Nodes(r)
    BY <1>1, <2>2, RootBelow
  <2>4. Children(u) = {l, r} /\ u # Empty
    <3>1. u.kind = "branch"
      BY <1>4, TreeKinds
    <3>2. u # Empty
      BY <3>1 DEF Empty
    <3>3. QED
      BY <1>4, <3>2, SidesOf
  <2> HIDE DEF u, l, r
  <2>5. Closed({u} \cup Nodes(l) \cup Nodes(r))
    BY <2>2, <2>3, <2>4 DEF Closed
  <2>6. Nodes(u) \subseteq {u} \cup Nodes(l) \cup Nodes(r)
    BY <1>1, <2>5, NodesWithin
  <2>7. u \in Nodes(u) /\ l \in Nodes(u) /\ r \in Nodes(u)
    BY <1>1, <2>4 DEF Closed
  <2>8. Nodes(l) \subseteq Nodes(u) /\ Nodes(r) \subseteq Nodes(u)
    BY <1>1, <2>7, NodesWithin
  <2>9. QED
    BY <2>6, <2>7, <2>8 DEF u, l, r
<1>5. QED
  BY <1>2, <1>3, <1>4

\* Operation x on node u gives node w and reports exactly what it created.
Wrote(x, u, w) ==
  /\ x.tree = w
  /\ Nodes(w) \subseteq Nodes(u) \cup x.written
  /\ x.written \subseteq Nodes(w)

\* Two maps agree on the keys S.
Same(m, w, S) ==
  /\ S \in SUBSET DOMAIN m /\ S \in SUBSET DOMAIN w
  /\ \A k \in S : m[k] = w[k]

\* A branch with two sides is kept.
LEMMA BranchOfTwo ==
  ASSUME NEW bit, NEW bits, NEW l, NEW r, l # Empty, r # Empty
  PROVE  BranchOf(bit, bits, l, r) = Branch(bit, Padded(bits, bit), l, r)
BY DEF BranchOf, Branch

\* The prefix of a prefix.
LEMMA PaddedTwice ==
  ASSUME NEW a, NEW n \in 0..Width, Width \in Nat
  PROVE  Padded(Padded(a, n), n) = Padded(a, n)
BY PaddedAgree, PaddedBits

\* A key whose route leaves those of a group, all alike till then, before their
\* next bit: a leaf beside the group's tree.
LEMMA BesideWrites ==
  ASSUME NEW m, Routable(DOMAIN m), NEW w, Routable(DOMAIN w),
         NEW S, Same(m, w, S), S # {}, NEW k \in DOMAIN w, k \notin S,
         NEW d \in 0..(Width - 1), d = Different(Route(k), TreeAt(m, S)),
         Common(S, d + 1), NEW i \in S, Agree(Route(k), Route(i), d), Route(k)[d + 1] # Route(i)[d + 1]
  PROVE  Wrote(Beside(TreeAt(m, S), Leaf(k, w[k]), Route(k)), TreeAt(m, S), TreeAt(w, S \cup {k}))
<1> DEFINE u == TreeAt(m, S)
           leaf == Leaf(k, w[k])
           T == S \cup {k}
           side == Direction(Route(k), d)
<1>1. /\ S \in SUBSET DOMAIN m /\ S \in SUBSET DOMAIN w /\ T \in SUBSET DOMAIN w
      /\ Width \in Nat /\ d \in 0..Width /\ d + 1 \in 1..(d + 1)
      /\ Routable(S) /\ Routable(T)
  <2>1. S \in SUBSET DOMAIN m /\ S \in SUBSET DOMAIN w /\ T \in SUBSET DOMAIN w
    BY DEF Same
  <2>2. Width \in Nat /\ d \in 0..Width /\ d + 1 \in 1..(d + 1)
    BY DEF Routable
  <2>3. QED
    BY <2>1, <2>2, SubRoutable
<1>2. \A j \in S : /\ Agree(Route(j), Route(i), d) /\ Agree(Route(k), Route(j), d) /\ Agree(Route(j), Route(k), d)
                   /\ Route(j)[d + 1] = Route(i)[d + 1]
  <2>1. \A n \in 1..d : n \in 1..(d + 1)
    BY <1>1
  <2>2. QED
    BY <1>1, <2>1 DEF Common, Agree
<1>3. Common(T, d)
  <2>1. \A x, y \in S : Agree(Route(x), Route(y), d)
    BY <1>2 DEF Agree
  <2>2. Agree(Route(k), Route(k), d)
    BY DEF Agree
  <2>3. QED
    BY <1>2, <2>1, <2>2 DEF Common
<1>4. Splits(T, d)
  <2>1. i \in T /\ k \in T
    OBVIOUS
  <2>2. QED
    BY <1>3, <2>1 DEF Splits
<1>5. side \in {0, 1} /\ \A j \in S : Direction(Route(j), d) \in {0, 1} /\ Direction(Route(j), d) # side
  <2>1. \A j \in T : Route(j) \in [1..Width -> {0, 1}]
    BY <1>1 DEF Routable
  <2>2. d + 1 \in 1..Width
    BY <1>1
  <2>3. \A j \in T : Route(j)[d + 1] \in {0, 1}
    BY <2>1, <2>2
  <2>4. QED
    BY <1>2, <2>3 DEF Direction
<1>6. \A x \in {0, 1} : On(T, d, x) = IF x = side THEN {k} ELSE S
  BY <1>5 DEF On
<1>7. TreeAt(w, {k}) = leaf /\ TreeAt(w, S) = u
  BY <1>1, TreeOne, TreeSame DEF Same
<1>8. u # Empty /\ leaf # Empty
  BY <1>1, TreeKinds DEF Leaf, Empty
<1> DEFINE l == IF side = 1 THEN u ELSE leaf
           r == IF side = 1 THEN leaf ELSE u
           b == TreeAt(w, T)
<1>9. TreeAt(w, On(T, d, 0)) = l /\ TreeAt(w, On(T, d, 1)) = r
  BY <1>5, <1>6, <1>7
<1>10. b = Branch(d, Padded(Route(k), d), l, r)
  <2>1. k \in T
    OBVIOUS
  <2>2. b = Branch(d, Padded(Route(k), d), TreeAt(w, On(T, d, 0)), TreeAt(w, On(T, d, 1)))
    BY <1>1, <1>4, <2>1, TreeTwo
  <2>3. QED
    BY <1>9, <2>2
<1>11. Beside(u, leaf, Route(k)) = [tree |-> b, written |-> {leaf, b}]
  <2>1. l # Empty /\ r # Empty
    BY <1>8
  <2>2. BranchOf(d, Route(k), l, r) = b
    BY <1>10, <2>1, BranchOfTwo
  <2>3. QED
    BY <2>2 DEF Beside
<1>12. Nodes(b) = {b} \cup Nodes(u) \cup {leaf}
  <2>1. Nodes(b) = {b} \cup Nodes(l) \cup Nodes(r)
    BY <1>1, <1>4, <1>9, NodesOf
  <2>2. Nodes(leaf) = {leaf}
    <3>1. {k} \in SUBSET DOMAIN w
      OBVIOUS
    <3>2. Nodes(TreeAt(w, {k})) = {TreeAt(w, {k})}
      BY <3>1, NodesOf
    <3>3. QED
      BY <1>7, <3>2
  <2> HIDE DEF b, u, leaf, side
  <2>3. QED
    BY <2>1, <2>2
<1> HIDE DEF b, u, leaf
<1>13. Wrote(Beside(u, leaf, Route(k)), u, b)
  BY <1>11, <1>12 DEF Wrote
<1>14. QED
  BY <1>13 DEF b, u, leaf

\* What an operation makes of one side of a group's tree, under the group's branch.
LEMMA WithWrites ==
  ASSUME NEW m, Routable(DOMAIN m), NEW w, Routable(DOMAIN w),
         NEW S \in SUBSET DOMAIN m, NEW c, Splits(S, c), NEW side \in {0, 1},
         NEW T \in SUBSET DOMAIN w, Common(T, c), On(T, c, 1 - side) = On(S, c, 1 - side),
         Same(m, w, On(S, c, 1 - side)),
         NEW x, Wrote(x, TreeAt(m, On(S, c, side)), TreeAt(w, On(T, c, side)))
  PROVE  Wrote(With(TreeAt(m, S), side, x), TreeAt(m, S), TreeAt(w, T))
<1> DEFINE u == TreeAt(m, S)
           O == On(S, c, 1 - side)
           G == On(S, c, side)
           H == On(T, c, side)
           o == TreeAt(m, O)
           g == TreeAt(m, G)
           h == TreeAt(w, H)
           b == TreeAt(w, T)
<1>1. /\ Width \in Nat /\ c \in 0..(Width - 1) /\ c \in 0..Width /\ 1 - side \in {0, 1}
      /\ Routable(S) /\ Routable(T)
  BY SubRoutable DEF Splits, Routable
<1>2. /\ O \in SUBSET S /\ O # {} /\ O \in SUBSET T /\ O \in SUBSET DOMAIN m /\ O \in SUBSET DOMAIN w
      /\ H \in SUBSET T /\ H \in SUBSET DOMAIN w
      /\ G \in SUBSET DOMAIN m
  <2>1. O \in SUBSET S /\ O # {}
    BY <1>1, OneSide
  <2>2. O \in SUBSET T /\ H \in SUBSET T /\ G \in SUBSET S
    BY DEF On
  <2>3. QED
    BY <2>1, <2>2
<1>3. T = H \cup O
  <2>1. \A k \in T : Direction(Route(k), c) \in {0, 1}
    BY <1>1 DEF Routable, Direction
  <2>2. \A k \in T : Direction(Route(k), c) \in {side, 1 - side}
    BY <2>1
  <2>3. QED
    BY <2>2 DEF On
<1>4. TreeAt(w, O) = o /\ o # Empty /\ x.tree = h
  <2>1. TreeAt(w, O) = o
    BY <1>2, TreeSame DEF Same
  <2>2. o # Empty
    BY <1>2, TreeKinds
  <2>3. QED
    BY <2>1, <2>2 DEF Wrote
<1>5. PICK j \in O : TRUE
  BY <1>2
<1>6. /\ u.kind = "branch" /\ u.bit = c /\ u.prefix = Padded(Route(j), c)
      /\ Side(u, side) = g /\ Side(u, 1 - side) = o
      /\ u = Branch(c, Padded(Route(j), c), u.left, u.right)
      /\ u.left = IF side = 1 THEN o ELSE g
      /\ u.right = IF side = 1 THEN g ELSE o
  <2>1. j \in S
    BY <1>2, <1>5
  <2>2. u = Branch(c, Padded(Route(j), c), TreeAt(m, On(S, c, 0)), TreeAt(m, On(S, c, 1)))
    BY <2>1, TreeTwo
  <2>3. u.left = TreeAt(m, On(S, c, 0)) /\ u.right = TreeAt(m, On(S, c, 1))
    BY SidesOf
  <2>4. (side = 1 /\ 1 - side = 0) \/ (side = 0 /\ 1 - side = 1)
    BY <1>1
  <2>5. /\ u.left = IF side = 1 THEN o ELSE g
        /\ u.right = IF side = 1 THEN g ELSE o
    BY <2>3, <2>4
  <2>6. u.kind = "branch" /\ u.bit = c /\ u.prefix = Padded(Route(j), c)
    <3> HIDE DEF u
    <3> QED BY <2>2 DEF Branch
  <2>7. u = Branch(c, Padded(Route(j), c), u.left, u.right)
    BY <2>2, <2>3
  <2> HIDE DEF u, o, g
  <2>8. QED
    BY <1>1, <2>4, <2>5, <2>6, <2>7 DEF Side
<1> DEFINE l == IF side = 1 THEN o ELSE h
           r == IF side = 1 THEN h ELSE o
           made == BranchOf(c, u.prefix, l, r)
<1>7. With(u, side, x) = IF h = g THEN [tree |-> u, written |-> {}]
                         ELSE [tree |-> made, written |-> x.written \cup (IF h = Empty THEN {} ELSE {made})]
  <2> HIDE DEF u, o, g, h
  <2>1. CASE side = 1
    <3>1. BranchOf(u.bit, u.prefix, u.left, x.tree) = made
      BY <1>4, <1>6, <2>1
    <3> HIDE DEF made
    <3>2. QED
      BY <1>4, <1>6, <2>1, <3>1 DEF With
  <2>2. CASE side = 0
    <3>1. BranchOf(u.bit, u.prefix, x.tree, u.right) = made
      BY <1>4, <1>6, <2>2
    <3> HIDE DEF made
    <3>2. QED
      BY <1>4, <1>6, <2>2, <3>1 DEF With
  <2>3. QED
    BY <2>1, <2>2
<1>8. Nodes(u) = {u} \cup Nodes(g) \cup Nodes(o)
  <2>1. Nodes(u) = {u} \cup Nodes(u.left) \cup Nodes(u.right)
    BY NodesOf, SidesOf
  <2> HIDE DEF u, o, g
  <2>2. QED
    BY <1>6, <2>1
<1>9. Nodes(h) \subseteq Nodes(g) \cup x.written /\ x.written \subseteq Nodes(h)
  BY DEF Wrote
<1>10. CASE H = {}
  <2>1. T = O /\ h = Empty /\ b = o
    BY <1>2, <1>3, <1>4, <1>10, TreeNone
  <2>2. Nodes(h) = {}
    BY <1>2, <1>10, NodesOf
  <2>3. g # Empty
    <3>1. G # {}
      BY <1>1, OneSide
    <3>2. QED
      BY <1>2, <3>1, TreeKinds
  <2>4. made = o
    <3> HIDE DEF u, o, g, h
    <3> QED BY <1>1, <1>4, <2>1 DEF BranchOf
  <2>5. With(u, side, x) = [tree |-> o, written |-> x.written]
    <3> HIDE DEF u, o, g, h, made
    <3> QED BY <1>7, <2>1, <2>3, <2>4
  <2> HIDE DEF u, o, g, h, made, b
  <2>6. Wrote(With(u, side, x), u, b)
    BY <1>8, <1>9, <2>1, <2>2, <2>5 DEF Wrote
  <2>7. QED
    BY <2>6 DEF u, b
<1>11. CASE H # {}
  <2>1. h # Empty
    BY <1>2, <1>11, TreeKinds
  <2>2. Splits(T, c)
    <3>1. PICK i \in H : TRUE
      BY <1>11
    <3>2. i \in T /\ j \in T /\ Direction(Route(i), c) = side /\ Direction(Route(j), c) = 1 - side
      BY <1>2, <1>5, <3>1 DEF On
    <3>3. Route(i)[c + 1] # Route(j)[c + 1]
      BY <3>2 DEF Direction
    <3>4. QED
      BY <1>1, <3>2, <3>3 DEF Splits
  <2>3. TreeAt(w, On(T, c, 0)) = l /\ TreeAt(w, On(T, c, 1)) = r
    <3>1. On(T, c, 1 - side) = O
      OBVIOUS
    <3>2. (side = 1 /\ 1 - side = 0) \/ (side = 0 /\ 1 - side = 1)
      BY <1>1
    <3>3. TreeAt(w, On(T, c, 1 - side)) = o
      BY <1>4, <3>1
    <3> HIDE DEF o
    <3>4. QED
      BY <3>2, <3>3
  <2>4. b = Branch(c, Padded(Route(j), c), l, r)
    <3>1. j \in T
      BY <1>2, <1>5
    <3>2. b = Branch(c, Padded(Route(j), c), TreeAt(w, On(T, c, 0)), TreeAt(w, On(T, c, 1)))
      BY <2>2, <3>1, TreeTwo
    <3>3. QED
      BY <2>3, <3>2
  <2>5. Nodes(b) = {b} \cup Nodes(h) \cup Nodes(o)
    <3>1. Nodes(b) = {b} \cup Nodes(l) \cup Nodes(r)
      BY <2>2, <2>3, NodesOf
    <3> HIDE DEF b, o, h
    <3>2. QED
      BY <3>1
  <2>6. made = b
    <3>1. Padded(u.prefix, c) = Padded(Route(j), c)
      BY <1>1, <1>6, PaddedTwice
    <3>2. l # Empty /\ r # Empty
      BY <1>4, <2>1
    <3> HIDE DEF u, o, g, h, b
    <3>3. QED
      BY <2>4, <3>1, <3>2, BranchOfTwo
  <2>7. h = g => b = u
    <3> HIDE DEF u, o, g, h, b
    <3> QED BY <1>6, <2>4
  <2> HIDE DEF u, o, g, h, b, made
  <2>8. CASE h = g
    <3>1. With(u, side, x) = [tree |-> u, written |-> {}]
      BY <1>7, <2>8
    <3>2. QED
      BY <2>7, <2>8, <3>1 DEF Wrote, b, u
  <2>9. CASE h # g
    <3>1. With(u, side, x) = [tree |-> b, written |-> x.written \cup {b}]
      BY <1>7, <2>1, <2>6, <2>9
    <3>2. Wrote(With(u, side, x), u, b)
      BY <1>8, <1>9, <2>5, <3>1 DEF Wrote
    <3>3. QED
      BY <3>2 DEF b, u
  <2>10. QED
    BY <2>8, <2>9
<1>12. QED
  BY <1>10, <1>11

\* The map after a put.
Stored(m, k, v) == [j \in DOMAIN m \cup {k} |-> IF j = k THEN v ELSE m[j]]

\* What is known of it.
IsStored(w, m, k, v) ==
  /\ DOMAIN w = DOMAIN m \cup {k}
  /\ w[k] = v
  /\ \A j \in DOMAIN m : j # k => w[j] = m[j]

\* What the map after a put holds.
LEMMA StoredIs ==
  ASSUME NEW m, NEW k, NEW v
  PROVE  IsStored(Stored(m, k, v), m, k, v)
BY DEF Stored, IsStored

\* What put makes of a tree below the root it started from.
LEMMA AfterPut ==
  ASSUME NEW K, Routable(K), NEW m, DOMAIN m \in SUBSET K, NEW k \in K, NEW v,
         NEW t, WellShaped(Below(t)), NEW S \in SUBSET DOMAIN m, TreeAt(m, S) \in Below(t)
  PROVE  Wrote(Puts(t, k, v)[TreeAt(m, S)], TreeAt(m, S), TreeAt(Stored(m, k, v), S \cup {k}))
<1> DEFINE f == Puts(t, k, v)
           w == Stored(m, k, v)
           Fine(T) == Wrote(f[TreeAt(m, T)], TreeAt(m, T), TreeAt(w, T \cup {k}))
           Bad == {T \in SUBSET DOMAIN m : TreeAt(m, T) \in Below(t) /\ ~Fine(T)}
<1>1. SUFFICES ASSUME Bad # {} PROVE FALSE
  OBVIOUS
<1>2. /\ Routable(DOMAIN m) /\ Width \in Nat /\ Closed(Below(t))
      /\ DOMAIN w = DOMAIN m \cup {k} /\ Routable(DOMAIN w) /\ k \in DOMAIN w
      /\ w[k] = v /\ \A j \in DOMAIN m : j # k => w[j] = m[j]
  <2>1. DOMAIN w = DOMAIN m \cup {k} /\ w[k] = v /\ \A j \in DOMAIN m : j # k => w[j] = m[j]
    <3>1. IsStored(w, m, k, v)
      BY StoredIs
    <3> HIDE DEF w
    <3>2. QED
      BY <3>1 DEF IsStored
  <2>2. Width \in Nat /\ Closed(Below(t))
    BY DEF Routable, WellShaped
  <2> HIDE DEF w
  <2>3. Routable(DOMAIN m) /\ Routable(DOMAIN w)
    BY <2>1, SubRoutable
  <2>4. QED
    BY <2>1, <2>2, <2>3
<1>3. PICK T \in Bad : \A c : Splits(T, c) => On(T, c, 0) \notin Bad /\ On(T, c, 1) \notin Bad
  <2>1. Bad \in SUBSET SUBSET DOMAIN m
    OBVIOUS
  <2> HIDE DEF Bad
  <2>2. QED
    BY <1>1, <1>2, <2>1, SmallestGroup
<1> DEFINE u == TreeAt(m, T)
           leaf == Leaf(k, v)
           d == Different(Route(k), u)
           x == f[Onward(u, Route(k))]
<1>4. T \in SUBSET DOMAIN m /\ u \in Below(t) /\ ~Fine(T) /\ T \in SUBSET K
  OBVIOUS
<1>5. f[u] = PutAt(x, u, k, v)
  BY <1>2, <1>4, OperationsStep
<1> HIDE DEF f, w
<1>6. /\ d \in 0..Width /\ Agree(Route(k), PrefixOf(u), d)
      /\ d < Width => Route(k)[d + 1] # PrefixOf(u)[d + 1]
  BY <1>2, DifferentIs
<1>7. Same(m, w, T \ {k})
  BY <1>2, <1>4 DEF Same
<1>8. TreeAt(w, {k}) = leaf /\ Nodes(leaf) = {leaf}
  <2>1. TreeAt(w, {k}) = leaf
    BY <1>2, TreeOne
  <2>2. Nodes(TreeAt(w, {k})) = {TreeAt(w, {k})}
    BY <1>2, NodesOf
  <2>3. QED
    BY <2>1, <2>2
<1>9. \A y : y = [tree |-> leaf, written |-> {leaf}] => Wrote(y, u, TreeAt(w, {k}))
  <2> HIDE DEF u, leaf
  <2> QED BY <1>8 DEF Wrote
<1>10. CASE T = {}
  <2>1. u = Empty /\ T \cup {k} = {k}
    BY <1>2, <1>10, TreeNone
  <2>2. f[u] = [tree |-> leaf, written |-> {leaf}]
    <3> HIDE DEF x, u
    <3>1. u # leaf /\ u.kind # "leaf"
      BY <2>1 DEF Leaf, Empty
    <3>2. QED
      BY <1>5, <2>1, <3>1 DEF PutAt
  <2> HIDE DEF x, u
  <2>3. QED
    BY <1>4, <1>9, <2>1, <2>2 DEF u
<1>11. CASE T = {k}
  <2>1. u = Leaf(k, m[k]) /\ T \cup {k} = {k}
    BY <1>2, <1>4, <1>11, TreeOne
  <2>2. u.kind = "leaf" /\ u.key = k /\ u # Empty
    <3> HIDE DEF u
    <3> QED BY <2>1 DEF Leaf, Empty
  <2>3. CASE u = leaf
    <3>1. f[u] = [tree |-> leaf, written |-> {}]
      <4> HIDE DEF x, u
      <4> QED BY <1>5, <2>2, <2>3 DEF PutAt, Unchanged
    <3>2. Wrote(f[u], u, TreeAt(w, {k}))
      <4> HIDE DEF x, u, leaf
      <4> QED BY <1>8, <2>3, <3>1 DEF Wrote
    <3>3. QED
      BY <1>4, <2>1, <3>2
  <2>4. CASE u # leaf
    <3>1. f[u] = [tree |-> leaf, written |-> {leaf}]
      <4> HIDE DEF x, u
      <4> QED BY <1>5, <2>2, <2>4 DEF PutAt
    <3>2. Wrote(f[u], u, TreeAt(w, {k}))
      <4> HIDE DEF x, u, leaf
      <4> QED BY <1>9, <3>1
    <3>3. QED
      BY <1>4, <2>1, <3>2
  <2>5. QED
    BY <2>3, <2>4
\* A leaf beside the tree.
<1>12. ASSUME T # {}, k \notin T, d < Width, Common(T, d + 1), NEW i \in T,
              Agree(PrefixOf(u), Route(i), d + 1)
       PROVE  Wrote(Beside(u, leaf, Route(k)), u, TreeAt(w, T \cup {k}))
  <2>1. T \ {k} = T
    BY <1>12
  <2>2. Same(m, w, T)
    BY <1>7, <2>1
  <2>3. d \in 0..(Width - 1) /\ d + 1 \in 1..(d + 1)
    BY <1>2, <1>6, <1>12
  <2>4. PrefixOf(u)[d + 1] = Route(i)[d + 1]
    BY <1>12, <2>3 DEF Agree
  <2>5. Agree(Route(k), Route(i), d)
    <3>1. \A n \in 1..d : n \in 1..(d + 1)
      BY <2>3
    <3>2. QED
      BY <1>6, <1>12, <3>1 DEF Agree
  <2>6. Route(k)[d + 1] # Route(i)[d + 1]
    BY <1>6, <1>12, <2>4
  <2>7. Wrote(Beside(TreeAt(m, T), Leaf(k, w[k]), Route(k)), TreeAt(m, T), TreeAt(w, T \cup {k}))
    BY <1>2, <1>12, <2>2, <2>3, <2>5, <2>6, BesideWrites
  <2>8. QED
    BY <1>2, <2>7
<1>13. CASE \E j \in T : T = {j} /\ j # k
  <2>1. PICK j \in T : T = {j} /\ j # k
    BY <1>13
  <2>2. u = Leaf(j, m[j]) /\ PrefixOf(u) = Route(j)
    BY <1>2, <1>4, <2>1, TreeOne, PrefixAgrees
  <2>3. u.kind = "leaf" /\ u.key # k /\ u # Empty /\ u # leaf
    <3> HIDE DEF u
    <3> QED BY <2>1, <2>2 DEF Leaf, Empty
  <2>4. f[u] = Beside(u, leaf, Route(k))
    <3> HIDE DEF x, u
    <3> QED BY <1>5, <2>3 DEF PutAt
  <2>5. d < Width
    <3>1. PICK i \in 1..Width : Route(k)[i] # Route(j)[i]
      BY <1>4, <2>1, RoutesPart
    <3>2. ~Agree(Route(k), Route(j), Width)
      BY <3>1 DEF Agree
    <3>3. d # Width
      BY <1>6, <2>2, <3>2
    <3>4. QED
      BY <1>2, <1>6, <3>3
  <2>6. Common(T, d + 1) /\ Agree(PrefixOf(u), Route(j), d + 1) /\ k \notin T /\ T # {}
    BY <2>1, <2>2 DEF Common, Agree
  <2>7. Wrote(f[u], u, TreeAt(w, T \cup {k}))
    BY <1>12, <2>4, <2>5, <2>6
  <2>8. QED
    BY <1>4, <2>7
<1>14. ASSUME NEW c, Splits(T, c) PROVE FALSE
  <2> DEFINE side == Direction(Route(k), c)
             G == On(T, c, side)
             H == T \cup {k}
  <2>1. /\ u.kind = "branch" /\ u.bit = c /\ side \in {0, 1}
        /\ Onward(u, Route(k)) = TreeAt(m, G)
        /\ k \in T <=> k \in G
        /\ k \in T => Padded(Route(k), c) = u.prefix
    <3>1. Directs(m, T, c, k)
      BY <1>4, <1>14, Directed
    <3>2. QED
      BY <3>1 DEF Directs
  <2>2. /\ c \in 0..(Width - 1) /\ c \in 0..Width
        /\ \A j \in T : Agree(PrefixOf(u), Route(j), c)
    BY <1>2, <1>4, <1>14, PrefixAgrees DEF Splits
  <2>3. PICK i \in T : TRUE
    BY <1>14 DEF Splits
  <2>4. u # Empty /\ u # leaf /\ u.kind # "leaf"
    BY <2>1 DEF Leaf, Empty
  <2>5. f[u] = IF d < c THEN Beside(u, leaf, Route(k)) ELSE With(u, side, x)
    <3> HIDE DEF x, u
    <3> QED BY <1>5, <2>1, <2>4 DEF PutAt, d
  <2>6. CASE d < c
    <3>1. d < Width /\ d + 1 \in 1..c
      BY <1>2, <1>6, <2>2, <2>6
    <3>2. PrefixOf(u)[d + 1] # Route(k)[d + 1] /\ \A j \in T : PrefixOf(u)[d + 1] = Route(j)[d + 1]
      BY <1>6, <2>2, <3>1 DEF Agree
    <3>3. k \notin T
      BY <3>2
    <3>4. \A n \in 1..(d + 1) : n \in 1..c
      BY <2>2, <1>6, <3>1
    <3>5. Common(T, d + 1)
      BY <1>14, <3>4 DEF Splits, Common, Agree
    <3>6. Agree(PrefixOf(u), Route(i), d + 1)
      BY <2>2, <3>4 DEF Agree
    <3>7. Wrote(f[u], u, TreeAt(w, T \cup {k}))
      BY <1>12, <2>3, <2>5, <2>6, <3>1, <3>3, <3>5, <3>6
    <3>8. QED
      BY <1>4, <3>7
  <2>7. CASE ~(d < c)
    <3>1. \A j \in T : Agree(Route(k), Route(j), c)
      <4>1. \A n \in 1..c : n \in 1..d
        BY <1>2, <1>6, <2>2, <2>7
      <4>2. QED
        BY <1>6, <2>2, <4>1 DEF Agree
    <3>2. Common(H, c)
      BY <1>14, <3>1 DEF Splits, Common, Agree
    <3>3. On(H, c, side) = G \cup {k} /\ On(H, c, 1 - side) = On(T, c, 1 - side)
      <4>1. side # 1 - side
        BY <2>1
      <4>2. QED
        BY <4>1 DEF On
    <3>4. Same(m, w, On(T, c, 1 - side))
      <4>1. side # 1 - side
        BY <2>1
      <4>2. On(T, c, 1 - side) \in SUBSET (T \ {k})
        BY <4>1 DEF On
      <4>3. QED
        BY <1>7, <4>2 DEF Same
    <3>5. Wrote(x, TreeAt(m, G), TreeAt(w, On(H, c, side)))
      <4>1. G \in SUBSET DOMAIN m
        BY <1>4 DEF On
      <4>2. TreeAt(m, G) \in Below(t)
        BY <1>2, <1>4, <1>14, <2>1, SidesBelow
      <4>3. G \notin Bad
        BY <1>3, <1>14, <2>1
      <4>4. Fine(G)
        BY <4>1, <4>2, <4>3
      <4>5. QED
        BY <2>1, <3>3, <4>4
    <3>6. H \in SUBSET DOMAIN w
      BY <1>2, <1>4
    <3> HIDE DEF side, G, H, x
    <3>7. Wrote(With(TreeAt(m, T), side, x), TreeAt(m, T), TreeAt(w, H))
      BY <1>2, <1>4, <1>14, <2>1, <3>2, <3>3, <3>4, <3>5, <3>6, WithWrites DEF G
    <3>8. QED
      BY <1>4, <2>5, <2>7, <3>7 DEF H
  <2>8. QED
    BY <2>6, <2>7
<1>15. QED
  BY <1>2, <1>4, <1>10, <1>11, <1>13, <1>14, TreeKinds

\* What delete makes of it.
LEMMA AfterDelete ==
  ASSUME NEW K, Routable(K), NEW m, DOMAIN m \in SUBSET K, NEW k \in K,
         NEW t, WellShaped(Below(t)), NEW S \in SUBSET DOMAIN m, TreeAt(m, S) \in Below(t)
  PROVE  Wrote(Deletes(t, k)[TreeAt(m, S)], TreeAt(m, S), TreeAt(m, S \ {k}))
<1> DEFINE f == Deletes(t, k)
           Fine(T) == Wrote(f[TreeAt(m, T)], TreeAt(m, T), TreeAt(m, T \ {k}))
           Bad == {T \in SUBSET DOMAIN m : TreeAt(m, T) \in Below(t) /\ ~Fine(T)}
<1>1. SUFFICES ASSUME Bad # {} PROVE FALSE
  OBVIOUS
<1>2. Routable(DOMAIN m) /\ Width \in Nat /\ Closed(Below(t))
  BY SubRoutable DEF Routable, WellShaped
<1>3. PICK T \in Bad : \A c : Splits(T, c) => On(T, c, 0) \notin Bad /\ On(T, c, 1) \notin Bad
  <2>1. Bad \in SUBSET SUBSET DOMAIN m
    OBVIOUS
  <2> HIDE DEF Bad
  <2>2. QED
    BY <1>1, <1>2, <2>1, SmallestGroup
<1> DEFINE u == TreeAt(m, T)
           x == f[Onward(u, Route(k))]
<1>4. T \in SUBSET DOMAIN m /\ u \in Below(t) /\ ~Fine(T) /\ T \in SUBSET K
  OBVIOUS
<1>5. f[u] = DeletedAt(x, u, k)
  BY <1>2, <1>4, OperationsStep
<1> HIDE DEF f
<1>6. ASSUME f[u] = Unchanged(u), k \notin T PROVE FALSE
  <2>1. T \ {k} = T
    BY <1>6
  <2>2. Wrote(f[u], u, u)
    <3> HIDE DEF u
    <3> QED BY <1>6 DEF Wrote, Unchanged
  <2>3. QED
    BY <1>4, <2>1, <2>2
<1>7. CASE T = {}
  <2>1. u = Empty
    BY <1>2, <1>7, TreeNone
  <2>2. f[u] = Unchanged(u)
    <3> HIDE DEF x, u
    <3> QED BY <1>5, <2>1 DEF DeletedAt, Empty
  <2>3. QED
    BY <1>6, <1>7, <2>2
<1>8. CASE \E j \in T : T = {j}
  <2>1. PICK j \in T : T = {j}
    BY <1>8
  <2>2. u = Leaf(j, m[j])
    BY <1>2, <1>4, <2>1, TreeOne
  <2>3. f[u] = IF j = k THEN [tree |-> Empty, written |-> {}] ELSE Unchanged(u)
    <3> HIDE DEF x, u
    <3> QED BY <1>5, <2>2 DEF DeletedAt, Leaf
  <2>4. CASE j = k
    <3>1. T \ {k} = {} /\ TreeAt(m, {}) = Empty /\ Nodes(TreeAt(m, {})) = {}
      BY <1>2, <2>1, <2>4, TreeNone, NodesOf
    <3> HIDE DEF u
    <3>2. Wrote(f[u], u, TreeAt(m, T \ {k}))
      BY <2>3, <2>4, <3>1 DEF Wrote
    <3>3. QED
      BY <1>4, <3>2 DEF u
  <2>5. CASE j # k
    BY <1>6, <2>1, <2>3, <2>5
  <2>6. QED
    BY <2>4, <2>5
<1>9. ASSUME NEW c, Splits(T, c) PROVE FALSE
  <2> DEFINE side == Direction(Route(k), c)
             G == On(T, c, side)
             H == T \ {k}
  <2>1. /\ u.kind = "branch" /\ u.bit = c /\ side \in {0, 1}
        /\ Onward(u, Route(k)) = TreeAt(m, G)
        /\ k \in T <=> k \in G
        /\ k \in T => Padded(Route(k), c) = u.prefix
    <3>1. Directs(m, T, c, k)
      BY <1>4, <1>9, Directed
    <3>2. QED
      BY <3>1 DEF Directs
  <2>2. f[u] = IF Padded(Route(k), c) # u.prefix THEN Unchanged(u) ELSE With(u, side, x)
    <3> HIDE DEF x, u
    <3> QED BY <1>5, <2>1 DEF DeletedAt
  <2>3. CASE Padded(Route(k), c) # u.prefix
    BY <1>6, <2>1, <2>2, <2>3
  <2>4. CASE Padded(Route(k), c) = u.prefix
    <3>1. Common(H, c)
      BY <1>9 DEF Splits, Common
    <3>2. On(H, c, side) = G \ {k} /\ On(H, c, 1 - side) = On(T, c, 1 - side)
      <4>1. side # 1 - side
        BY <2>1
      <4>2. QED
        BY <4>1 DEF On
    <3>3. Same(m, m, On(T, c, 1 - side))
      BY <1>4 DEF Same, On
    <3>4. Wrote(x, TreeAt(m, G), TreeAt(m, On(H, c, side)))
      <4>1. G \in SUBSET DOMAIN m
        BY <1>4 DEF On
      <4>2. TreeAt(m, G) \in Below(t)
        BY <1>2, <1>4, <1>9, <2>1, SidesBelow
      <4>3. G \notin Bad
        BY <1>3, <1>9, <2>1
      <4>4. Fine(G)
        BY <4>1, <4>2, <4>3
      <4>5. QED
        BY <2>1, <3>2, <4>4
    <3>5. H \in SUBSET DOMAIN m
      BY <1>4
    <3> HIDE DEF side, G, H, x
    <3>6. Wrote(With(TreeAt(m, T), side, x), TreeAt(m, T), TreeAt(m, H))
      BY <1>2, <1>4, <1>9, <2>1, <3>1, <3>2, <3>3, <3>4, <3>5, WithWrites DEF G
    <3>7. QED
      BY <1>4, <2>2, <2>4, <3>6 DEF H
  <2>5. QED
    BY <2>3, <2>4
<1>10. QED
  BY <1>2, <1>4, <1>7, <1>8, <1>9, TreeKinds

-----------------------------------------------------------------------------
(***************************************************************************)
(* The operations of the map.                                              *)
(***************************************************************************)
\* A map of some of the keys K.
MapOn(K, m) == DOMAIN m \in SUBSET K /\ m = [k \in DOMAIN m |-> m[k]]

\* What is known of the tree of a map whose keys' routes tell them apart.
LEMMA HeldTree ==
  ASSUME NEW K, Routable(K), NEW m, MapOn(K, m)
  PROVE  /\ Routable(DOMAIN m) /\ Width \in Nat
         /\ DOMAIN m \in SUBSET K /\ DOMAIN m \in SUBSET DOMAIN m
         /\ TreeOf(m) = TreeAt(m, DOMAIN m)
         /\ WellShaped(Below(TreeOf(m))) /\ Closed(Nodes(TreeOf(m)))
         /\ TreeOf(m) \in Below(TreeOf(m))
         /\ Nodes(TreeOf(m)) \subseteq Subtrees(m, DOMAIN m)
<1>1. DOMAIN m \in SUBSET K /\ DOMAIN m \in SUBSET DOMAIN m
  BY DEF MapOn
<1>2. Routable(DOMAIN m) /\ Width \in Nat
  BY <1>1, SubRoutable DEF Routable
<1>3. TreeOf(m) = TreeAt(m, DOMAIN m)
  BY TreeOfIs
<1>4. TreeOf(m) \in Below(TreeOf(m))
  BY <1>2, RootBelow
<1>5. QED
  BY <1>1, <1>2, <1>3, <1>4, TreesShaped, NodesAre

\* Put yields the tree of the map after the put, and reports what it created.
LEMMA PutWrites ==
  ASSUME NEW K, Routable(K), NEW m, MapOn(K, m), NEW k \in K, NEW v
  PROVE  MapOn(K, Stored(m, k, v)) /\ Wrote(Put(TreeOf(m), k, v), TreeOf(m), TreeOf(Stored(m, k, v)))
<1> DEFINE w == Stored(m, k, v)
<1>1. DOMAIN w = DOMAIN m \cup {k} /\ w = [j \in DOMAIN w |-> w[j]]
  BY DEF Stored
<1> HIDE DEF w
<1>2. MapOn(K, w)
  BY <1>1 DEF MapOn
<1>3. TreeOf(w) = TreeAt(w, DOMAIN m \cup {k})
  BY <1>1, TreeOfIs
<1>4. Wrote(Puts(TreeOf(m), k, v)[TreeAt(m, DOMAIN m)], TreeAt(m, DOMAIN m), TreeAt(w, DOMAIN m \cup {k}))
  BY HeldTree, AfterPut DEF w
<1>5. QED
  BY <1>2, <1>3, <1>4, PutIs, TreeOfIs DEF w

\* Delete yields the tree of the map without the key, and reports what it created.
LEMMA DeleteWrites ==
  ASSUME NEW K, Routable(K), NEW m, MapOn(K, m), NEW k \in K
  PROVE  /\ MapOn(K, Restricted(m, DOMAIN m \ {k}))
         /\ Wrote(Delete(TreeOf(m), k), TreeOf(m), TreeOf(Restricted(m, DOMAIN m \ {k})))
<1> DEFINE S == DOMAIN m \ {k}
           w == Restricted(m, S)
<1>1. DOMAIN w = S /\ w = [j \in S |-> w[j]] /\ \A j \in S : w[j] = m[j]
  BY DEF Restricted
<1> HIDE DEF w
<1>2. MapOn(K, w)
  BY <1>1 DEF MapOn
<1>3. Routable(DOMAIN m) /\ Routable(DOMAIN w)
  BY <1>2, HeldTree
<1>4. TreeOf(w) = TreeAt(m, S)
  <2>1. S \in SUBSET DOMAIN m /\ S \in SUBSET DOMAIN w
    BY <1>1
  <2>2. TreeAt(w, S) = TreeAt(m, S)
    BY <1>1, <1>3, <2>1, TreeSame
  <2>3. QED
    BY <1>1, <2>2, TreeOfIs
<1>5. Wrote(Deletes(TreeOf(m), k)[TreeAt(m, DOMAIN m)], TreeAt(m, DOMAIN m), TreeAt(m, S))
  BY HeldTree, AfterDelete
<1>6. QED
  BY <1>2, <1>4, <1>5, DeleteIs, TreeOfIs DEF w

\* A leaf of a map's tree is a record of the map.
LEMMA LeafHeld ==
  ASSUME NEW m, Routable(DOMAIN m), NEW k, NEW v, Leaf(k, v) \in Subtrees(m, DOMAIN m)
  PROVE  k \in DOMAIN m /\ m[k] = v
<1>1. PICK S \in SUBSET DOMAIN m : S # {} /\ Leaf(k, v) = TreeAt(m, S)
  BY DEF Subtrees
<1>2. \A c : ~Splits(S, c)
  BY <1>1, TreeKinds DEF Leaf
<1>3. PICK j \in S : S = {j}
  BY <1>1, <1>2, TreeKinds
<1>4. Leaf(k, v) = Leaf(j, m[j])
  BY <1>1, <1>3, TreeKinds
<1>5. k = j /\ v = m[j]
  BY <1>4 DEF Leaf
<1>6. QED
  BY <1>3, <1>5

\* Prove returns a proof for each key held, and only such as verify.
LEMMA ProveLeads ==
  ASSUME NEW K, Routable(K), NEW m, MapOn(K, m), NEW k \in K
  PROVE  /\ k \in DOMAIN m => Prove(TreeOf(m), k) # {}
         /\ \A p \in Prove(TreeOf(m), k) : k \in DOMAIN m /\ Verify(TreeOf(m), k, m[k], p) /\ Steps(p)
<1>1. Prove(TreeOf(m), k) = Paths(TreeOf(m), k)[TreeAt(m, DOMAIN m)] /\ TreeOf(m) = TreeAt(m, DOMAIN m)
  BY ProveIs, HeldTree
<1> DEFINE P == Paths(TreeOf(m), k)[TreeAt(m, DOMAIN m)]
<1>2. /\ k \in DOMAIN m => P # {}
      /\ \A p \in P : k \in DOMAIN m /\ Leads(p, TreeAt(m, DOMAIN m), Leaf(k, m[k]), Route(k))
  BY HeldTree, PathsLead
<1>3. \A p \in P : Verify(TreeAt(m, DOMAIN m), k, m[k], p) /\ Steps(p)
  BY <1>2, LeadsVerifies
<1>4. QED
  BY <1>1, <1>2, <1>3

\* Whatever verifies under the root of a map is held by the map.
LEMMA VerifiedHeld ==
  ASSUME NEW K, Routable(K), NEW m, MapOn(K, m), NEW k, NEW v, NEW p, Steps(p), Verify(TreeOf(m), k, v, p)
  PROVE  k \in DOMAIN m /\ m[k] = v
<1>1. Leaf(k, v) \in Nodes(TreeOf(m))
  BY HeldTree, ProvenIsLeaf
<1>2. Leaf(k, v) \in Subtrees(m, DOMAIN m) /\ Routable(DOMAIN m)
  BY <1>1, HeldTree
<1>3. QED
  BY <1>2, LeafHeld

\* Lookup and traversal read the map back.
LEMMA HeldReads ==
  ASSUME NEW K, Routable(K), NEW m, MapOn(K, m)
  PROVE  /\ \A k \in K : Get(TreeOf(m), k) = (IF k \in DOMAIN m THEN {m[k]} ELSE {})
         /\ Items(TreeOf(m)) = m
<1>1. PICK t : t = TreeOf(m)
  OBVIOUS
<1>2. /\ Routable(DOMAIN m) /\ DOMAIN m \in SUBSET K /\ DOMAIN m \in SUBSET DOMAIN m
      /\ t = TreeAt(m, DOMAIN m) /\ WellShaped(Below(t)) /\ TreeAt(m, DOMAIN m) \in Below(t)
  BY <1>1, HeldTree
<1>3. ASSUME NEW k \in K PROVE Get(t, k) = (IF k \in DOMAIN m THEN {m[k]} ELSE {})
  <2>1. Founds(t, k)[TreeAt(m, DOMAIN m)] = (IF k \in DOMAIN m THEN {m[k]} ELSE {})
    BY <1>2, FoundIs
  <2>2. QED
    BY <1>2, <2>1, GetIs
<1>4. Items(t) = m
  <2>1. Itemses(t)[TreeAt(m, DOMAIN m)] = Restricted(m, DOMAIN m)
    BY <1>2, ItemsAre
  <2>2. Restricted(m, DOMAIN m) = m
    BY DEF Restricted, MapOn
  <2>3. QED
    BY <1>2, <2>1, <2>2, ItemsIs
<1>5. QED
  BY <1>1, <1>3, <1>4

-----------------------------------------------------------------------------
(***************************************************************************)
(* The theorems.                                                           *)
(***************************************************************************)
\* The tree is that of the records held, and every proof taken is a list of branches.
MapInv ==
  /\ MapOn(Keys, holds)
  /\ tree = TreeOf(holds)
  /\ \A p \in proof : Steps(p)

\* A new map has the invariant.
LEMMA MapInitInv == MapInit => MapInv
<1>1. SUFFICES ASSUME MapInit PROVE MapInv
  OBVIOUS
<1>2. DOMAIN holds = {} /\ holds = [k \in DOMAIN holds |-> holds[k]] /\ tree = Empty /\ proof = {}
  BY <1>1 DEF MapInit
<1>3. MapOn(Keys, holds)
  BY <1>2 DEF MapOn
<1>4. TreeOf(holds) = Empty
  BY <1>2, <1>3, HeldTree, RouteAssumption, TreeNone
<1>5. QED
  BY <1>2, <1>3, <1>4 DEF MapInv

\* The invariant is inductive.
LEMMA MapNextInv == MapInv /\ [MapNext]_mapVars => MapInv'
<1>1. SUFFICES ASSUME MapInv, [MapNext]_mapVars PROVE MapInv'
  OBVIOUS
<1>2. PICK m : m = holds
  OBVIOUS
<1>3. MapOn(Keys, m) /\ tree = TreeOf(m) /\ \A p \in proof : Steps(p)
  BY <1>1, <1>2 DEF MapInv
<1>4. ASSUME NEW k \in Keys, NEW v \in Values, PutRecord(k, v) PROVE MapInv'
  <2>1. tree' = Put(TreeOf(m), k, v).tree /\ holds' = Stored(m, k, v) /\ proof' = proof
    BY <1>2, <1>3, <1>4 DEF PutRecord, Stored
  <2>2. MapOn(Keys, Stored(m, k, v)) /\ Put(TreeOf(m), k, v).tree = TreeOf(Stored(m, k, v))
    BY <1>3, PutWrites, RouteAssumption DEF Wrote
  <2>3. QED
    BY <1>3, <2>1, <2>2 DEF MapInv
<1>5. ASSUME NEW k \in Keys, DeleteRecord(k) PROVE MapInv'
  <2>1. tree' = Delete(TreeOf(m), k).tree /\ holds' = Restricted(m, DOMAIN m \ {k}) /\ proof' = proof
    BY <1>2, <1>3, <1>5 DEF DeleteRecord
  <2>2. /\ MapOn(Keys, Restricted(m, DOMAIN m \ {k}))
        /\ Delete(TreeOf(m), k).tree = TreeOf(Restricted(m, DOMAIN m \ {k}))
    BY <1>3, DeleteWrites, RouteAssumption DEF Wrote
  <2>3. QED
    BY <1>3, <2>1, <2>2 DEF MapInv
<1>6. ASSUME NEW k \in Keys, TakeProof(k) PROVE MapInv'
  <2>1. proof' = Prove(TreeOf(m), k) /\ tree' = TreeOf(m) /\ holds' = m
    BY <1>2, <1>3, <1>6 DEF TakeProof
  <2>2. \A p \in Prove(TreeOf(m), k) : Steps(p)
    BY <1>3, ProveLeads, RouteAssumption
  <2>3. QED
    BY <1>3, <2>1, <2>2 DEF MapInv
<1>7. CASE UNCHANGED mapVars
  BY <1>1, <1>7 DEF MapInv, mapVars
<1>8. QED
  BY <1>1, <1>4, <1>5, <1>6, <1>7 DEF MapNext

THEOREM TreeFollowsRecords == MapSpec => []MapInv
<1>1. QED
  BY MapInitInv, MapNextInv, PTL DEF MapSpec

\* The invariant gives the properties: the root,
LEMMA RootsUnique == MapInv => OneRootPerRecordSet
<1>1. SUFFICES ASSUME MapInv PROVE OneRootPerRecordSet
  OBVIOUS
<1>2. PICK m : m = holds
  OBVIOUS
<1>3. MapOn(Keys, m) /\ tree = TreeOf(m)
  BY <1>1, <1>2 DEF MapInv
<1>4. Routable(DOMAIN m) /\ Nodes(tree) \subseteq Subtrees(m, DOMAIN m)
  BY <1>3, HeldTree, RouteAssumption
<1>5. /\ \A k \in Keys : Get(tree, k) = (IF k \in DOMAIN m THEN {m[k]} ELSE {})
      /\ Items(tree) = m
  BY <1>3, HeldReads, RouteAssumption
<1>6. ASSUME NEW u \in Nodes(tree), u.kind = "branch" PROVE ChildFits(u, 0) /\ ChildFits(u, 1)
  BY <1>4, <1>6, ChildrenFit
<1>7. QED
  BY <1>2, <1>3, <1>5, <1>6 DEF OneRootPerRecordSet

THEOREM RootDeterminedByRecords == MapSpec => []OneRootPerRecordSet
<1>1. QED
  BY TreeFollowsRecords, RootsUnique, PTL

\* the proofs,
LEMMA ProofsSound == MapInv => ProofsShowMembers
<1>1. SUFFICES ASSUME MapInv PROVE ProofsShowMembers
  OBVIOUS
<1>2. PICK m : m = holds
  OBVIOUS
<1>3. MapOn(Keys, m) /\ tree = TreeOf(m) /\ \A p \in proof : Steps(p)
  BY <1>1, <1>2 DEF MapInv
<1>4. ASSUME NEW k \in Keys
      PROVE  /\ k \in DOMAIN m => Prove(tree, k) # {}
             /\ \A p \in Prove(tree, k) : k \in DOMAIN m /\ Verify(tree, k, m[k], p) /\ Steps(p)
  BY <1>3, ProveLeads, RouteAssumption
<1>5. ASSUME NEW k, NEW v, NEW p, Steps(p), Verify(tree, k, v, p) PROVE k \in DOMAIN m /\ m[k] = v
  BY <1>3, <1>5, VerifiedHeld, RouteAssumption
<1>6. ASSUME NEW k \in Keys, NEW v \in Values, NEW p \in Prove(tree, k)
      PROVE  Verify(tree, k, v, p) <=> k \in DOMAIN m /\ m[k] = v
  BY <1>4, <1>5
<1>7. \A k \in DOMAIN m : Prove(tree, k) # {}
  BY <1>3, <1>4 DEF MapOn
<1>8. ASSUME NEW k \in Keys, NEW v \in Values, NEW p \in proof, Verify(tree, k, v, p)
      PROVE  k \in DOMAIN m /\ m[k] = v
  BY <1>3, <1>5, <1>8
<1>9. QED
  BY <1>2, <1>6, <1>7, <1>8 DEF ProofsShowMembers

THEOREM ProofsShowOnlyMembers == MapSpec => []ProofsShowMembers
<1>1. QED
  BY TreeFollowsRecords, ProofsSound, PTL

\* and what is written.
LEMMA WritesSuffice == MapInv => WritesComplete
<1>1. SUFFICES ASSUME MapInv PROVE WritesComplete
  OBVIOUS
<1>2. PICK m : m = holds
  OBVIOUS
<1>3. MapOn(Keys, m) /\ tree = TreeOf(m)
  BY <1>1, <1>2 DEF MapInv
<1>4. ASSUME NEW k \in Keys, NEW v \in Values
      PROVE  /\ Nodes(Put(tree, k, v).tree) \subseteq Nodes(tree) \cup Put(tree, k, v).written
             /\ Put(tree, k, v).written \subseteq Nodes(Put(tree, k, v).tree)
  <2>1. Wrote(Put(tree, k, v), tree, TreeOf(Stored(m, k, v)))
    BY <1>3, PutWrites, RouteAssumption
  <2>2. QED
    BY <2>1 DEF Wrote
<1>5. ASSUME NEW k \in Keys
      PROVE  /\ Nodes(Delete(tree, k).tree) \subseteq Nodes(tree) \cup Delete(tree, k).written
             /\ Delete(tree, k).written \subseteq Nodes(Delete(tree, k).tree)
  <2>1. Wrote(Delete(tree, k), tree, TreeOf(Restricted(m, DOMAIN m \ {k})))
    BY <1>3, DeleteWrites, RouteAssumption
  <2>2. QED
    BY <2>1 DEF Wrote
<1>6. QED
  BY <1>4, <1>5 DEF WritesComplete

THEOREM WritesKeepRootsComplete == MapSpec => []WritesComplete
<1>1. QED
  BY TreeFollowsRecords, WritesSuffice, PTL
===============================================================================
