------------------------------- MODULE TreeAudit -------------------------------
(***************************************************************************)
(* What the independent verifier does with the node rows of projectors 2   *)
(* and 3: it walks every stored node, rebuilds every root from its leaves, *)
(* and compares each lineage-bearing header, current or superseded, with   *)
(* its own replay of the log.                                              *)
(*                                                                         *)
(* stored, rootRows and headerRows are the node, root and header tables it *)
(* finds.  A node is its own hash here, so a stored node whose hash is not *)
(* that of its content does not occur; a missing one does.                 *)
(***************************************************************************)
EXTENDS CommittedStore, AuditRows

\* The position of a route among all routes, and the keys at both ends of a group.
RouteValue(k) == FoldLeft(LAMBDA n, bit : 2 * n + bit, 0, Route(k))
Extremes(keys) ==
  {k \in keys : \/ \A j \in keys : RouteValue(k) <= RouteValue(j)
                \/ \A j \in keys : RouteValue(k) >= RouteValue(j)}

\* A branch's prefix and side are one interval of routes: its whole child is in it
\* when the two ends are.
MatchesRoute(t, side, members) ==
  /\ members # NoRows
  /\ \A k \in Extremes(DOMAIN members) :
       Padded(Route(k), t.bit) = t.prefix /\ Direction(Route(k), t.bit) = side

\* The members below a node: {} when a node is missing or a branch is malformed.
RECURSIVE MembersOf(_, _)
MembersOf(t, stored) ==
  CASE t = Empty         -> {NoRows}
    [] t # Empty /\ t \notin stored -> {}
    [] t \in stored /\ t.kind = "leaf" -> {Row(t.key, t.value)}
    [] OTHER -> {Upsert(m[1], m[2]) :
                   m \in {m \in MembersOf(t.left, stored) \X MembersOf(t.right, stored) :
                            /\ MatchesRoute(t, 0, m[1]) /\ MatchesRoute(t, 1, m[2])
                            /\ DOMAIN m[1] \cap DOMAIN m[2] = {}}}

\* A root is sound when its nodes are there and its leaves rebuild it.
RootSound(t, stored) == \E m \in MembersOf(t, stored) : TreeOf(m) = t

-----------------------------------------------------------------------------
\* The verifier's own replay: ReplayedLog[i+1] is {the records after i entries}, or
\* {} from the first entry it refuses.
ReplayedLog ==
  FoldLeft(LAMBDA acc, e : Append(acc, UNION {ReplayEntry(s, e.req, e.recorded, Len(acc)) : s \in acc[Len(acc)]}),
           <<{EmptySnapshot}>>, log)

\* The header it computes for belief b of records s: roots rebuilt from members.
HeaderOf(s, b) ==
  [subject |-> s.beliefs[b].subject, property |-> s.beliefs[b].property, lineage |-> s.beliefs[b].lineage,
   collections |->
     [candidates   |-> TreeOf(Keyed(s.beliefs[b].candidates)),
      identity     |-> TreeOf(Keyed([m \in s.beliefs[b].identity |-> [mention |-> m, link |-> s.links[m]]])),
      dependencies |-> TreeOf(Keyed(Restricted(s.events, s.beliefs[b].dependencies)))]]

\* Every version a belief had, with the position of the event that produced it.
History(replayed) ==
  UNION {UNION {{<<b, i, HeaderOf(s, b)>> : b \in {x \in DOMAIN s.beliefs : Last(s.beliefs[x].lineage) = log[i].req.id}}
                  : s \in replayed[i + 1]} : i \in DOMAIN log}

\* The headers in the leaves of retained nodes, of whatever age, by belief.
NodeHeaders(stored) ==
  {<<t.key[1], t.value>> : t \in {n \in stored : n.kind = "leaf" /\ "collections" \in DOMAIN n.value}}

\* The identifiers of the events in a header's dependencies, and the position of the
\* latest of them: the event that produced the header.
DependencyIds(h, stored) ==
  UNION {{k[1] : k \in DOMAIN m} : m \in MembersOf(h.collections.dependencies, stored)}
ProducedAt(ids) == Max({i \in DOMAIN log : log[i].req.id \in ids})

\* The event that produced a header of belief b can be told from its dependencies, and
\* the replay has that version.  Of other headers the lineage is reported as unchecked.
Traceable(b, ids, history) ==
  /\ ids # {} /\ ids \subseteq {log[i].req.id : i \in DOMAIN log}
  /\ LET at == ProducedAt(ids) IN \E x \in history : x[1] = b /\ x[2] = at

\* A header's collections are sound and keyed by their members, and it is the one
\* replayed for the event that produced it.
HeaderSound(b, h, stored, history) ==
  /\ \A c \in Collections : RootSound(h.collections[c], stored)
  /\ \A c \in Collections : \A m \in MembersOf(h.collections[c], stored) : \A k \in DOMAIN m :
       k[1] = (CASE c = "candidates" -> m[k].claim.candidate [] c = "identity" -> m[k].mention [] OTHER -> m[k].id)
  /\ LET ids == DependencyIds(h, stored)
     IN  Traceable(b, ids, history) => <<b, ProducedAt(ids), h>> \in history

\* Mutant of HistoryKept: only the version now in the header table is looked for.
HistoryKeptNow(stored, headerRows, history) == \A b \in DOMAIN headerRows : <<b, headerRows[b]>> \in NodeHeaders(stored)

\* Every version published so far is still in a retained node.
HistoryKept(stored, headerRows, history) ==
  \A v \in history : v[2] <= progress => <<v[1], v[3]>> \in NodeHeaders(stored)

\* The headers to check: those in nodes, and the current ones.
HeadersFound(stored, headerRows) == NodeHeaders(stored) \cup {<<b, headerRows[b]>> : b \in DOMAIN headerRows}

\* load_projection and check_headers on the rows found, given the replay.
TreeFailures(stored, rootRows, headerRows, replayed, history) ==
  LET sound    == \A k \in DOMAIN rootRows : RootSound(rootRows[k], stored)
      scopes(s) == [k \in {ScopeOf(s.beliefs[b]) : b \in DOMAIN s.beliefs} |->
                      [belief |-> CHOOSE b \in DOMAIN s.beliefs : ScopeOf(s.beliefs[b]) = k]]
  IN  IF progress = 0
      THEN Failing({Check("coverage", rootRows = NoRows /\ stored = {} /\ headerRows = NoRows)})
      ELSE Failing({
        Check("merkle", \A t \in stored : MembersOf(t, stored) # {}),
        Check("merkle", DOMAIN rootRows = IndexKinds /\ sound),
        Check("coverage", sound =>
           \A s \in replayed[progress + 1] :
             /\ \A k \in {"entities", "links", "candidates", "events"} : Items(rootRows[k]) = Keyed(s[k])
             /\ Items(rootRows.beliefs) = Keyed(headerRows)
             /\ headerRows = [b \in DOMAIN s.beliefs |-> HeaderOf(s, b)]
             /\ Items(rootRows.current) = scopes(s)),
        Check("lineage", \A x \in HeadersFound(stored, headerRows) : HeaderSound(x[1], x[2], stored, history)),
        Check("lineage", HistoryKept(stored, headerRows, history))})

-----------------------------------------------------------------------------
\* No false alarm: after any publications and recoveries, the stored nodes, roots
\* and headers pass, those of superseded versions included, and no lineage is left
\* unchecked - so incremental path copying and the replay inside one recovery both
\* retain every version's header.
StoredTreesAudit ==
  LET replayed == ReplayedLog
      history  == History(replayed)
  IN  /\ TreeFailures(nodes, roots, headers, replayed, history) = {}
      /\ \A x \in HeadersFound(nodes, headers) : Traceable(x[1], DependencyIds(x[2], nodes), history)

\* The nodes that some published version of some record is read through.
Needed(history) ==
  IF progress = 0 THEN {}
  ELSE Reached(roots) \cup
       UNION {{Leaf(<<v[1]>>, v[3])} \cup UNION {Nodes(v[3].collections[c]) : c \in Collections}
                : v \in {x \in history : x[2] <= progress}}

\* The audit notices the loss of any one node that a current record, or a
\* superseded version of a belief, is read through, and any root that is
\* replaced by another.
LostNodesAreReported ==
  LET replayed == ReplayedLog
      history  == History(replayed)
  IN  /\ \A t \in Needed(history) : TreeFailures(nodes \ {t}, roots, headers, replayed, history) # {}
      /\ \A j, k \in DOMAIN roots : roots[j] # roots[k] =>
           TreeFailures(nodes, [roots EXCEPT ![j] = roots[k]], headers, replayed, history) # {}
=============================================================================
