-------------------------------- MODULE Merkle --------------------------------
(***************************************************************************)
(* The persistent Merkle map: a compressed binary tree (crit-bit tree) of  *)
(* key/value leaves, addressed by the hash of its content.                 *)
(*                                                                         *)
(* A digest is modelled injectively as the content it is the digest of, so *)
(* a tree is its own root hash and equal roots are equal trees.  A key's   *)
(* route (its hash) is a sequence of Width bits; a branch at bit b holds   *)
(* the keys that share their first b bits, kept as a prefix padded with    *)
(* zeros as in the code.                                                   *)
(***************************************************************************)
EXTENDS Integers, Sequences, FiniteSets, FiniteSetsExt

CONSTANTS
  Width,     \* the length of a route
  Route(_)   \* the route of a key

\* Routes have Width bits, and the keys given are told apart by theirs.
Routable(keys) ==
  /\ Width \in Nat
  /\ \A k \in keys : Route(k) \in [1..Width -> {0, 1}]
  /\ \A j, k \in keys : Route(j) = Route(k) => j = k

Empty == [kind |-> "empty"]
Leaf(k, v) == [kind |-> "leaf", key |-> k, value |-> v]

\* The first n bits of a route, the rest zero.
Padded(bits, n) == [i \in 1..Width |-> IF i <= n THEN bits[i] ELSE 0]

\* The bit of a route that a branch at `bit` (counted from zero) decides on.
Direction(bits, bit) == bits[bit + 1]

PrefixOf(t) == IF t.kind = "leaf" THEN Route(t.key) ELSE t.prefix

\* Where a route leaves a node's prefix; Width if nowhere.
Different(bits, t) ==
  Min({Width} \cup {i \in 0..(Width - 1) : bits[i + 1] # PrefixOf(t)[i + 1]})

\* Mutant of BranchOf: a branch that lost one side is kept.
BranchOfOne(bit, bits, left, right) ==
  [kind |-> "branch", bit |-> bit, prefix |-> Padded(bits, bit), left |-> left, right |-> right]

\* A branch with one empty side is its other side.
BranchOf(bit, bits, left, right) ==
  IF left = Empty THEN right
  ELSE IF right = Empty THEN left
  ELSE [kind |-> "branch", bit |-> bit, prefix |-> Padded(bits, bit), left |-> left, right |-> right]

Side(t, side) == IF side = 1 THEN t.right ELSE t.left

\* The child that a route goes on to from branch t.
Onward(t, bits) == Side(t, Direction(bits, t.bit))

Children(t) == IF t.kind = "branch" THEN {t.left, t.right} ELSE {}

\* All nodes of a tree: its root, and the children of its branches, level by level.
Nodes(t) ==
  LET upTo[n \in 0..Width] ==
        IF n = 0 THEN {t} ELSE UNION {{u} \cup Children(u) : u \in upTo[n-1]}
  IN  upTo[Width] \ {Empty}

\* What a traversal of t can come to.
Below(t) == Nodes(t) \cup {Empty}

\* A child lies under its parent's prefix, on its side, deciding on a later bit.
ChildFits(t, side) ==
  LET c == Side(t, side) IN
  /\ c # Empty
  /\ Padded(PrefixOf(c), t.bit) = t.prefix
  /\ Direction(PrefixOf(c), t.bit) = side
  /\ c.kind = "branch" => c.bit > t.bit

-----------------------------------------------------------------------------
\* The value of key k in tree t: {v}, or {} when it has none.
Get(t, k) ==
  LET found[u \in Below(t)] ==
        CASE u.kind = "empty" -> {}
          [] u.kind = "leaf"  -> IF u.key = k THEN {u.value} ELSE {}
          [] OTHER -> IF Padded(Route(k), u.bit) # u.prefix THEN {}
                      ELSE found[Onward(u, Route(k))]
  IN  found[t]

\* Mutant of With: a branch above a change is not reported as written.
WithUnwritten(t, side, u) ==
  [tree |-> IF side = 1 THEN BranchOf(t.bit, t.prefix, t.left, u.tree)
                        ELSE BranchOf(t.bit, t.prefix, u.tree, t.right),
   written |-> u.written]

\* Branch t after the operation u on the child at `side`: t itself if that changed
\* nothing, otherwise a new branch (or the other child, if nothing is left there).
With(t, side, u) ==
  LET b == IF side = 1 THEN BranchOf(t.bit, t.prefix, t.left, u.tree)
                       ELSE BranchOf(t.bit, t.prefix, u.tree, t.right)
  IN  IF u.tree = Side(t, side) THEN [tree |-> t, written |-> {}]
      ELSE [tree |-> b, written |-> u.written \cup (IF u.tree = Empty THEN {} ELSE {b})]

Unchanged(t) == [tree |-> t, written |-> {}]

\* A new leaf beside t, below a branch where its route leaves the prefix of t.
Beside(t, leaf, bits) ==
  LET d == Different(bits, t)
      b == IF Direction(bits, d) = 1 THEN BranchOf(d, bits, t, leaf) ELSE BranchOf(d, bits, leaf, t)
  IN  [tree |-> b, written |-> {leaf, b}]

\* put: the tree with k bound to v, and the nodes created on the way.
Put(t, k, v) ==
  LET bits == Route(k)
      leaf == Leaf(k, v)
      put[u \in Below(t)] ==
        CASE u = Empty -> [tree |-> leaf, written |-> {leaf}]
          [] u = leaf  -> Unchanged(u)
          [] u.kind = "leaf" /\ u.key = k /\ u # leaf -> [tree |-> leaf, written |-> {leaf}]
          [] u.kind = "leaf" /\ u.key # k -> Beside(u, leaf, bits)
          [] OTHER ->
               IF Different(bits, u) < u.bit THEN Beside(u, leaf, bits)
               ELSE With(u, Direction(bits, u.bit), put[Onward(u, bits)])
  IN  put[t]

\* delete: the tree without k, and the nodes created.
Delete(t, k) ==
  LET deleted[u \in Below(t)] ==
        CASE u.kind = "empty"  -> Unchanged(u)
          [] u.kind = "leaf"   -> IF u.key = k THEN [tree |-> Empty, written |-> {}] ELSE Unchanged(u)
          [] OTHER ->
               IF Padded(Route(k), u.bit) # u.prefix THEN Unchanged(u)
               ELSE With(u, Direction(Route(k), u.bit), deleted[Onward(u, Route(k))])
  IN  deleted[t]

Joined(l, r) == [k \in DOMAIN l \cup DOMAIN r |-> IF k \in DOMAIN l THEN l[k] ELSE r[k]]

\* items: the map a tree holds.
Items(t) ==
  LET items[u \in Below(t)] ==
        CASE u.kind = "empty" -> [k \in {} |-> k]
          [] u.kind = "leaf"  -> [k \in {u.key} |-> u.value]
          [] OTHER -> Joined(items[u.left], items[u.right])
  IN  items[t]

-----------------------------------------------------------------------------
\* prove: the branches from the root to k's leaf.  {} when k is absent.
Prove(t, k) ==
  LET path[u \in Below(t)] ==
        CASE u.kind = "empty" -> {}
          [] u.kind = "leaf"  -> IF u.key = k THEN {<<>>} ELSE {}
          [] OTHER -> IF Padded(Route(k), u.bit) # u.prefix THEN {}
                      ELSE {<<u>> \o rest : rest \in path[Onward(u, Route(k))]}
  IN  path[t]

\* What the steps of a proof after the i-th hash up to from a leaf.
Hashed(leaf, proof, i) == IF i = Len(proof) THEN leaf ELSE proof[i + 1]

\* Mutant of FoldProof: a step is not compared with what was hashed so far.
FoldUnchecked(leaf, bits, proof) == {Hashed(leaf, proof, 0)}

\* The root that the steps of a proof, last first, hash up to from a leaf: {} when
\* a step does not hold what was hashed so far on the side the route takes.
FoldProof(leaf, bits, proof) ==
  IF \A i \in DOMAIN proof : Side(proof[i], Direction(bits, proof[i].bit)) = Hashed(leaf, proof, i)
  THEN {Hashed(leaf, proof, 0)} ELSE {}

\* verify: does the proof show that k has value v under the trusted root?
Verify(root, k, v, proof) ==
  LET bits == Route(k) IN
  /\ \A i \in DOMAIN proof :
       /\ i > 1 => proof[i].bit > proof[i-1].bit
       /\ proof[i].prefix = Padded(bits, proof[i].bit)
       /\ proof[i].left # Empty /\ proof[i].right # Empty
  /\ root \in FoldProof(Leaf(k, v), bits, proof)

-----------------------------------------------------------------------------
(***************************************************************************)
(* The reference: the one tree of a map, defined from the routes alone.    *)
(***************************************************************************)
Restricted(m, keys) == [k \in keys |-> m[k]]

CommonBits(keys) ==
  Max({n \in 0..Width : \A j, k \in keys : Padded(Route(j), n) = Padded(Route(k), n)})

TreeOf(m) ==
  LET grown[keys \in SUBSET DOMAIN m] ==
        LET any == CHOOSE k \in keys : TRUE
            bit == CommonBits(keys)
            On(side) == {k \in keys : Direction(Route(k), bit) = side}
        IN  IF keys = {} THEN Empty
            ELSE IF keys = {any} THEN Leaf(any, m[any])
            ELSE [kind |-> "branch", bit |-> bit, prefix |-> Padded(Route(any), bit),
                  left |-> grown[On(0)], right |-> grown[On(1)]]
  IN  grown[DOMAIN m]
=============================================================================
