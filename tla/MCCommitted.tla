------------------------------ MODULE MCCommitted ------------------------------
(***************************************************************************)
(* Two subjects, three beliefs, two of them of one subject, one of them    *)
(* with superseded versions; an expiry.  Routes are numbers of four bits.  *)
(***************************************************************************)
EXTENDS TreeAudit, SampleRequests

O5 == Observation("e11", 0, <<[Claim("m1", "s1", "b4", "c8") EXCEPT !.property = "r"]>>)

CommittedRequests == {M1, M2, O1, O4, O5, X1}

\* Keys of one tree have distinct routes; those of different trees may share one.
Number(k) ==
  CASE Len(k) = 2 -> (CASE k[2] = "p" -> 1 [] k[2] = "q" -> 6 [] OTHER -> 3)
    [] k[1] \in {"s1", "m1", "b1", "c1", "e1"} -> 2
    [] k[1] \in {"s2", "m2", "b3", "c3", "e2"} -> 3
    [] k[1] \in {"b4", "c11", "e4"}  -> 11
    [] k[1] \in {"c5", "e15"}  -> 7
    [] k[1] \in {"c6", "e6"}  -> 8
    [] k[1] \in {"c7", "e7"}  -> 13
    [] k[1] \in {"c8", "e8"}  -> 4
    [] k[1] = "e10" -> 0
    [] k[1] = "e11" -> 15

Bits(k) == [i \in 1..4 |-> (Number(k) \div 2^(4 - i)) % 2]
=============================================================================
