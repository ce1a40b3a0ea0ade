-------------------------------- MODULE Ledger --------------------------------
(***************************************************************************)
(* What the store promises, with no tables, clocks, hashes or freshness    *)
(* rows: one ledger that only grows, and projectors whose tables are a     *)
(* function of a prefix of it.                                             *)
(*                                                                         *)
(* A request enters the ledger at most once, later than everything in it,  *)
(* and only when a projector that already shows the whole ledger admits it *)
(* there.  A projector shows a prefix all of whose entries it admitted, in *)
(* order, and what it shows is what that prefix determines - however it    *)
(* came to show it.                                                        *)
(***************************************************************************)
EXTENDS Integers, Sequences

CONSTANTS
  Requests,
  Versions,         \* the projectors
  Times,            \* the timestamps an entry may carry
  Conflicts(_, _),  \* two requests that may not both be in the ledger
  Admits(_, _, _),  \* projector, tables, request
  TablesOf(_)       \* the tables a sequence of ledger entries determines

VARIABLES
  ledger,   \* the accepted entries [req, recorded], oldest first
  shown,    \* per projector: how long a prefix it shows
  tables    \* per projector: the tables it shows

Prefix(n) == SubSeq(ledger, 1, n)

Init ==
  /\ ledger = <<>>
  /\ shown = [v \in Versions |-> 0]
  /\ tables = [v \in Versions |-> TablesOf(<<>>)]

Accept(v, r, t) ==
  /\ shown[v] = Len(ledger)
  /\ \A i \in DOMAIN ledger : ~Conflicts(ledger[i].req, r) /\ ledger[i].recorded <= t
  /\ Admits(v, TablesOf(ledger), r)
  /\ ledger' = Append(ledger, [req |-> r, recorded |-> t])
  /\ UNCHANGED <<shown, tables>>

Show(v, n) ==
  /\ \A i \in 1..n : Admits(v, TablesOf(Prefix(i-1)), ledger[i].req)
  /\ shown' = [shown EXCEPT ![v] = n]
  /\ tables' = [tables EXCEPT ![v] = TablesOf(Prefix(n))]
  /\ UNCHANGED ledger

Next ==
  \E v \in Versions :
    \/ \E r \in Requests, t \in Times : Accept(v, r, t)
    \/ \E n \in 0..Len(ledger) : Show(v, n)

Spec == Init /\ [][Next]_<<ledger, shown, tables>>
=============================================================================
