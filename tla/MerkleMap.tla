------------------------------- MODULE MerkleMap -------------------------------
(***************************************************************************)
(* A Merkle map in use: records are put, replaced and deleted in any       *)
(* order, a reader takes an inclusion proof at some moment and checks it   *)
(* against whatever root is current later.                                 *)
(***************************************************************************)
EXTENDS Merkle

CONSTANTS Keys, Values

\* put refuses a key whose route another key has.
ASSUME RouteAssumption == Routable(Keys)

VARIABLES
  tree,
  holds,    \* the map the tree should hold
  proof     \* {} or {a proof taken at some moment}

mapVars == <<tree, holds, proof>>

MapInit ==
  /\ tree = Empty
  /\ holds = [k \in {} |-> k]
  /\ proof = {}

PutRecord(k, v) ==
  /\ tree' = Put(tree, k, v).tree
  /\ holds' = [j \in DOMAIN holds \cup {k} |-> IF j = k THEN v ELSE holds[j]]
  /\ UNCHANGED proof

DeleteRecord(k) ==
  /\ tree' = Delete(tree, k).tree
  /\ holds' = Restricted(holds, DOMAIN holds \ {k})
  /\ UNCHANGED proof

TakeProof(k) ==
  /\ proof' = Prove(tree, k)
  /\ proof' # {}
  /\ UNCHANGED <<tree, holds>>

MapNext ==
  \/ \E k \in Keys, v \in Values : PutRecord(k, v)
  \/ \E k \in Keys : DeleteRecord(k)
  \/ \E k \in Keys : TakeProof(k)

MapSpec == MapInit /\ [][MapNext]_mapVars
-----------------------------------------------------------------------------
(***************************************************************************)
(* Properties.                                                             *)
(***************************************************************************)
\* One root per record set: the tree is the one its records determine, whatever
\* was put, replaced and deleted before, and so a rebuild in any order has its root;
\* lookup and traversal return exactly the records, and every child passes the
\* routing check of _child, so no traversal is ever refused.
OneRootPerRecordSet ==
  /\ tree = TreeOf(holds)
  /\ \A k \in Keys : Get(tree, k) = (IF k \in DOMAIN holds THEN {holds[k]} ELSE {})
  /\ Items(tree) = holds
  /\ \A t \in Nodes(tree) : t.kind = "branch" => ChildFits(t, 0) /\ ChildFits(t, 1)

\* A fresh proof shows its record and no other value; a proof taken at any earlier
\* moment shows, under the current root, nothing that is not held now.
ProofsShowMembers ==
  /\ \A k \in Keys, v \in Values : \A p \in Prove(tree, k) :
       Verify(tree, k, v, p) <=> k \in DOMAIN holds /\ holds[k] = v
  /\ \A k \in DOMAIN holds : Prove(tree, k) # {}
  /\ \A k \in Keys, v \in Values : \A p \in proof :
       Verify(tree, k, v, p) => k \in DOMAIN holds /\ holds[k] = v

\* Each operation reports as written every node its result has and its argument
\* had not, so that storing what is written keeps every stored root complete, and
\* nothing that the result does not hold.
WritesComplete ==
  LET Complete(r) == /\ Nodes(r.tree) \subseteq Nodes(tree) \cup r.written
                     /\ r.written \subseteq Nodes(r.tree)
  IN  /\ \A k \in Keys, v \in Values : Complete(Put(tree, k, v))
      /\ \A k \in Keys : Complete(Delete(tree, k))
=============================================================================
