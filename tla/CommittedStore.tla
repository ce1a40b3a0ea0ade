---------------------------- MODULE CommittedStore ----------------------------
(***************************************************************************)
(* How projectors 2 and 3 keep their tables: as Merkle maps, one per kind  *)
(* of record and three per belief, whose nodes lie in one table that       *)
(* publication only adds to, and whose roots lie in another.  The trees    *)
(* share nodes with each other and with every earlier state of themselves. *)
(*                                                                         *)
(* The records are those of Reducer; this module writes each delta into    *)
(* the trees and reads the snapshot back out of them.  Keys are tuples.    *)
(***************************************************************************)
EXTENDS Reducer, Merkle

CONSTANTS
  Requests,
  Projector   \* "2" or "3"

ASSUME RequestAssumption == \A r \in Requests : WellFormed(r)

\* The keys that the requests can give the records of each tree.
ClaimsMade == UNION {{r.body.claims[i] : i \in DOMAIN r.body.claims} : r \in Requests}
Mentioned  == {r.body : r \in {q \in Requests : q.type = "entity_mention_recorded"}}

SubjectKeys   == {<<b.subject>> : b \in Mentioned}
MentionKeys   == {<<b.mention>> : b \in Mentioned}
BeliefKeys    == {<<c.belief>> : c \in ClaimsMade}
CandidateKeys == {<<c.candidate>> : c \in ClaimsMade}
EventKeys     == {<<r.id>> : r \in Requests}
ScopeKeys     == {ScopeOf(c) : c \in ClaimsMade}

\* put refuses a key whose route another key of its tree has.
ASSUME KeyAssumption ==
  \A keys \in {SubjectKeys, MentionKeys, BeliefKeys, CandidateKeys, EventKeys, ScopeKeys} : Routable(keys)

VARIABLES
  log,        \* entries [req, recorded]; recorded is not looked at here
  nodes,      \* committed_nodes: the nodes stored
  roots,      \* committed_roots: kind -> root
  headers,    \* projected_beliefs: belief -> header
  relations,  \* candidate_relations
  progress    \* derived_progress; 0 when there is none

committedVars == <<log, nodes, roots, headers, relations, progress>>

Collections == {"candidates", "identity", "dependencies"}
IndexKinds == {"entities", "links", "beliefs", "candidates", "events", "current"}

EmptyTrees == [k \in IndexKinds |-> Empty]
NoCollections == [c \in Collections |-> Empty]

-----------------------------------------------------------------------------
(***************************************************************************)
(* Reading a snapshot out of its trees.                                    *)
(***************************************************************************)
\* The records of a tree whose keys are single identifiers.
Records(t) == LET held == Items(t) IN [id \in {k[1] : k \in DOMAIN held} |-> held[<<id>>]]

Header(trees, b) == Records(trees.beliefs)[b]

CollectionsOf(trees, b) ==
  IF Get(trees.beliefs, <<b>>) = {} THEN NoCollections ELSE Header(trees, b).collections

\* A belief: its header with the members of its three collections.
BeliefOf(header) ==
  [subject      |-> header.subject,
   property     |-> header.property,
   lineage      |-> header.lineage,
   candidates   |-> Records(header.collections.candidates),
   identity     |-> DOMAIN Records(header.collections.identity),
   dependencies |-> DOMAIN Records(header.collections.dependencies)]

\* The complete record tables that trees and the relation table stand for.
Decoded(trees, ended) ==
  [entities   |-> Records(trees.entities),
   links      |-> Records(trees.links),
   beliefs    |-> [b \in DOMAIN Records(trees.beliefs) |-> BeliefOf(Header(trees, b))],
   candidates |-> Records(trees.candidates),
   events     |-> Records(trees.events),
   relations  |-> ended]

\* Every node a root reaches, through branches and through the collection roots
\* that the leaves of the belief index hold.
Reached(trees) ==
  (UNION {Nodes(trees[k]) : k \in IndexKinds}) \cup
  (UNION {UNION {Nodes(Header(trees, b).collections[c]) : c \in Collections} : b \in DOMAIN Records(trees.beliefs)})

\* read_snapshot_for refuses rows without progress, an incomplete set of roots, and
\* a node that is not stored.
Readable ==
  IF progress = 0 THEN roots = NoRows /\ nodes = {} /\ headers = NoRows
  ELSE DOMAIN roots = IndexKinds /\ Reached(roots) \subseteq nodes

Trees == IF progress = 0 THEN EmptyTrees ELSE roots
Snapshot == Decoded(Trees, relations)

-----------------------------------------------------------------------------
(***************************************************************************)
(* Writing a delta into the trees.                                         *)
(***************************************************************************)
\* Operation p after `before`, with the nodes both created.
After(p, before) == [tree |-> p.tree, written |-> before.written \cup p.written]

\* All of rows put into tree t, one after another, with the nodes that creates.
PutAll(t, rows) ==
  LET put[keys \in SUBSET DOMAIN rows] ==
        LET k    == CHOOSE k \in keys : TRUE
            rest == put[keys \ {k}]
        IN  IF keys = {} THEN Unchanged(t) ELSE After(Put(rest.tree, k, rows[k]), rest)
  IN  put[DOMAIN rows]

Keyed(rows) == [k \in {<<id>> : id \in DOMAIN rows} |-> rows[k[1]]]

\* Mutant of Members: a candidate that ended is not replaced in its belief.
MembersAdded(d, r, s, b) ==
  LET mentions == {r.body.claims[i].mention : i \in {j \in DOMAIN r.body.claims : r.body.claims[j].belief = b}}
      events   == Upsert(d.events, Restricted(s.events, {s.links[m].event : m \in mentions}))
  IN  [candidates   |-> Keyed(Restricted(d.candidates, {c \in DOMAIN d.candidates \ DOMAIN s.candidates : d.candidates[c].claim.belief = b})),
       identity     |-> Keyed([m \in mentions |-> [mention |-> m, link |-> s.links[m]]]),
       dependencies |-> Keyed(events)]

\* The members that event r of delta d adds to, or replaces in, the collections of
\* belief b.  The key of an identity record is its whole content.
Members(d, r, s, b) ==
  LET mentions == {r.body.claims[i].mention : i \in {j \in DOMAIN r.body.claims : r.body.claims[j].belief = b}}
      events   == Upsert(d.events, Restricted(s.events, {s.links[m].event : m \in mentions}))
  IN  [candidates   |-> Keyed(Restricted(d.candidates, {c \in DOMAIN d.candidates : d.candidates[c].claim.belief = b})),
       identity     |-> Keyed([m \in mentions |-> [mention |-> m, link |-> s.links[m]]]),
       dependencies |-> Keyed(events)]

\* _finish: the trees after delta d, the nodes created on the way, and the headers
\* the publication has to write, when `put` are the changed collections.
Finished(trees, d, put, head) ==
  LET rows  == [entities |-> Keyed(d.entities), links |-> Keyed(d.links), beliefs |-> Keyed(head),
                candidates |-> Keyed(d.candidates), events |-> Keyed(d.events),
                current |-> [k \in {ScopeOf(head[b]) : b \in DOMAIN head} |->
                               [belief |-> CHOOSE b \in DOMAIN head : ScopeOf(head[b]) = k]]]
      index == [k \in IndexKinds |-> PutAll(trees[k], rows[k])]
  IN  [trees   |-> [k \in IndexKinds |-> index[k].tree],
       written |-> (UNION {index[k].written : k \in IndexKinds}) \cup
                   (UNION {UNION {put[b][c].written : c \in Collections} : b \in DOMAIN put}),
       headers |-> head,
       ended   |-> d.relations]

\* The new header of each belief of d, with the roots of its changed collections.
Headed(d, put) ==
  [b \in DOMAIN put |->
     [subject |-> d.beliefs[b].subject, property |-> d.beliefs[b].property, lineage |-> d.beliefs[b].lineage,
      collections |-> [c \in Collections |-> put[b][c].tree]]]

\* The collections of each belief of d, with event r's members put into them.
Gathered(trees, d, r, s) ==
  [b \in DOMAIN d.beliefs |->
     [c \in Collections |-> PutAll(CollectionsOf(trees, b)[c], Members(d, r, s, b)[c])]]

Assembled(trees, d, put) == Finished(trees, d, put, Headed(d, put))

\* reduce_claims and reduce_transition: event r, of delta d on the records s.
Reduced(trees, d, r, s) == Assembled(trees, d, Gathered(trees, d, r, s))

\* Entry e, of position pos, on the trees.
Committed(trees, ended, e, pos) ==
  LET s == Decoded(trees, ended)
  IN  Reduced(trees, Delta(s, e.req, e.recorded, pos), e.req, s)

\* Mutant of RootChanges: the roots of a first event are written only if changed.
RootChangesOnly(before, after, pos) == {k \in IndexKinds : after[k] # before[k]}

\* Only changed roots are written, but all of them by the first event.
RootChanges(before, after, pos) == {k \in IndexKinds : pos = 1 \/ after[k] # before[k]}

-----------------------------------------------------------------------------
CommittedInit ==
  /\ log = <<>>
  /\ nodes = {} /\ roots = NoRows /\ headers = NoRows /\ relations = NoRows
  /\ progress = 0

\* An append: validated on the snapshot, which must show the whole log.
AcceptRequest(r) ==
  /\ \A i \in DOMAIN log : log[i].req # r
  /\ progress = Len(log)
  /\ Readable
  /\ Admits(Projector, Snapshot, r)
  /\ log' = Append(log, [req |-> r, recorded |-> 0])
  /\ UNCHANGED <<nodes, roots, headers, relations, progress>>

\* publish_for: nodes are added and never changed, headers and roots upserted.
PublishDelta ==
  LET pos == progress + 1 IN
  /\ progress < Len(log)
  /\ Readable
  /\ Admits(Projector, Snapshot, log[pos].req)
  /\ \E c \in {Committed(Trees, relations, log[pos], pos)} :
       /\ nodes' = nodes \cup c.written
       /\ roots' = Upsert(Restricted(c.trees, RootChanges(Trees, c.trees, pos)), roots)
       /\ headers' = Upsert(c.headers, headers)
       /\ relations' = Upsert(c.ended, relations)
  /\ progress' = pos
  /\ UNCHANGED log

\* Mutant of CommittedOn: only the nodes of the latest roots are kept.
CommittedOnPruned(at, c) ==
  [trees   |-> c.trees,
   nodes   |-> Reached(c.trees),
   headers |-> Upsert(c.headers, at.headers),
   ended   |-> Upsert(c.ended, at.ended)]

\* The rows `at` of the projector with c committed on them.
CommittedOn(at, c) ==
  [trees   |-> c.trees,
   nodes   |-> at.nodes \cup c.written,
   headers |-> Upsert(c.headers, at.headers),
   ended   |-> Upsert(c.ended, at.ended)]

\* The first n entries committed one after another on the rows `start` left by the
\* deletion: Recommitted(n, start)[i] is the state after i of them.
Recommitted(n, start) ==
  LET on(rows, i) == CommittedOn(rows, Committed(rows.trees, rows.ended, log[i], i))
      at[i \in 0..n] == IF i = 0 THEN start ELSE on(at[i-1], i)
  IN  at

\* What recovery starts from: all of the projector's rows are deleted.
Emptied == [trees |-> EmptyTrees, nodes |-> {}, headers |-> NoRows, ended |-> NoRows]

\* rebuild_projection up to some cutoff, in one transaction.
RebuildTrees ==
  \E n \in 0..Len(log) :
    \E at \in {Recommitted(n, Emptied)} :
      /\ \A i \in 1..n : Admits(Projector, Decoded(at[i-1].trees, at[i-1].ended), log[i].req)
      /\ nodes' = at[n].nodes
      /\ roots' = IF n = 0 THEN NoRows ELSE at[n].trees
      /\ headers' = at[n].headers
      /\ relations' = at[n].ended
      /\ progress' = n
      /\ UNCHANGED log

CommittedNext ==
  \/ \E r \in Requests : AcceptRequest(r)
  \/ PublishDelta
  \/ RebuildTrees

CommittedSpec == CommittedInit /\ [][CommittedNext]_committedVars
-----------------------------------------------------------------------------
(***************************************************************************)
(* Properties.                                                             *)
(***************************************************************************)
\* The stored trees can always be read: no row without progress, no root missing,
\* and every node that any root reaches is stored - after any sequence of
\* publications, and after a recovery to an earlier event and publications on it.
RootsReachTheirNodes == Readable

\* The trees are an implementation of the record tables of the ledger.
Abstract == INSTANCE Ledger WITH
  Versions  <- {Projector},
  Times     <- {0},
  Conflicts <- LAMBDA q, r : q = r,
  ledger    <- log,
  shown     <- [v \in {Projector} |-> progress],
  tables    <- [v \in {Projector} |-> Snapshot]

TreesImplementLedger == Abstract!Spec
=============================================================================
