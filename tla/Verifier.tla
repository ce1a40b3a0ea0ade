------------------------------- MODULE Verifier -------------------------------
(***************************************************************************)
(* The independent verifier run on a store: Disk is what it reads there.   *)
(* An audit is a pure function of the rows, so the properties are about    *)
(* the audits of the rows a store can reach, and of those rows after one   *)
(* has been damaged, as scripts/mutation_campaign.py does it.              *)
(***************************************************************************)
EXTENDS Store, AuditRows

\* A request is the record of its fields.
ASSUME RecordAssumption == \A r \in Requests : r = [field \in DOMAIN r |-> r[field]]

\* The rows of a store: derived tables name events where Store names positions.
DiskOf(l, tables, applied, index, owners) ==
  [events    |-> [i \in DOMAIN l |-> [position |-> i, req |-> l[i].req, recorded |-> l[i].recorded,
                                      prev |-> l[i].prev, hash |-> EventHash(l[i]), key |-> Key(l[i].req)]],
   payloads  |-> [i \in DOMAIN l |-> [event |-> l[i].req.id, body |-> l[i].req.body]],
   progress  |-> [v \in Versions |-> IF applied[v] = 0 THEN {}
                    ELSE {[position |-> applied[v], event |-> l[applied[v]].req.id]}],
   view      |-> tables,
   latest    |-> [v \in Versions |-> [s \in DOMAIN index[v] |-> l[index[v][s]].req.id]],
   subjectOf |-> owners]

Disk == DiskOf(log, view, progress, latest, subjectOf)

-----------------------------------------------------------------------------
(***************************************************************************)
(* Damage: one row of a disk deleted, duplicated, altered or exchanged.    *)
(***************************************************************************)
Without(f, k) == [x \in DOMAIN f \ {k} |-> f[x]]
Exchanged(f, a, b) == [f EXCEPT ![a] = f[b], ![b] = f[a]]

\* The table f with one row deleted, or the contents of two different rows exchanged.
DamagedTable(f) ==
  {Without(f, k) : k \in DOMAIN f}
    \cup UNION {{Exchanged(f, a, b) : b \in {x \in DOMAIN f : f[x] # f[a]}} : a \in DOMAIN f}

\* The log rows with one deleted or duplicated, one column of one altered or of
\* two exchanged.  An altered key stands for a rehashed row, because hash does
\* not include the key here.
DamagedEvents(rows) ==
  {RemoveAt(rows, i) : i \in DOMAIN rows}
    \cup {Append(rows, [rows[i] EXCEPT !.position = Last(rows).position + 1]) : i \in DOMAIN rows}
    \cup (UNION {{[rows EXCEPT ![i].recorded = @ + 1], [rows EXCEPT ![i].req.id = "forged"],
                 [rows EXCEPT ![i].req.occurred = @ + 1], [rows EXCEPT ![i].key = <<>>],
                 [rows EXCEPT ![i].hash = <<>>],
                 [rows EXCEPT ![i].prev = <<rows[i].hash[1], rows[i].hash[1]>>]} : i \in DOMAIN rows})
    \cup UNION {UNION {{[rows EXCEPT ![i].req = rows[j].req, ![j].req = rows[i].req],
                        [rows EXCEPT ![i].hash = rows[j].hash, ![j].hash = rows[i].hash],
                        [rows EXCEPT ![i].prev = rows[j].prev, ![j].prev = rows[i].prev],
                        [rows EXCEPT ![i].key = rows[j].key, ![j].key = rows[i].key]}
                       : i \in 1..(j-1)} : j \in DOMAIN rows}

DamagedPayloads(rows) ==
  {RemoveAt(rows, i) : i \in DOMAIN rows}
    \cup {Append(rows, rows[i]) : i \in DOMAIN rows}
    \cup {[rows EXCEPT ![i].event = "forged"] : i \in DOMAIN rows}
    \cup UNION {{[rows EXCEPT ![i].body = rows[j].body] : j \in {k \in DOMAIN rows : rows[k].body # rows[i].body}}
                   : i \in DOMAIN rows}

DamagedProgress(checkpoint) ==
  UNION {{{}, {[p EXCEPT !.position = @ + 1]}, {[p EXCEPT !.position = @ - 1]}, {[p EXCEPT !.event = "forged"]}}
           : p \in checkpoint}

DamagedView(s) ==
  (UNION {{[s EXCEPT ![t] = rows] : rows \in DamagedTable(s[t])} : t \in DOMAIN s})
    \cup {[s EXCEPT !.candidates[c].status = IF @ = "live" THEN "expired" ELSE "live"] : c \in DOMAIN s.candidates}
    \cup {[s EXCEPT !.relations[c].position = @ + 1] : c \in DOMAIN s.relations}

\* The disk d with one row damaged that an audit of projector v is about.
Damaged(v, d) ==
  {[d EXCEPT !.events = rows] : rows \in DamagedEvents(d.events)}
    \cup {[d EXCEPT !.payloads = rows] : rows \in DamagedPayloads(d.payloads)}
    \cup {[d EXCEPT !.progress[v] = checkpoint] : checkpoint \in DamagedProgress(d.progress[v])}
    \cup {[d EXCEPT !.view[v] = s] : s \in DamagedView(d.view[v])}
    \cup {[d EXCEPT !.latest[v] = index] : index \in DamagedTable(d.latest[v])}
    \cup {[d EXCEPT !.subjectOf[v] = index] : index \in DamagedTable(d.subjectOf[v])}

-----------------------------------------------------------------------------
(***************************************************************************)
(* Properties.                                                             *)
(***************************************************************************)
Unpublished(v) == (progress[v]+1)..Len(log)

\* No false alarm: whatever the sessions of a store did, an audit of a projector
\* whose freshness rows are kept - not projector 3 before its first selection -
\* finds no failure, reports exactly the unpublished events as pending, and leaves
\* an event unchecked only where a projector meets transitions it has no semantics
\* for.  Two implementations of admission
\* and reduction, the shipped one and the verifier's, agree on every log.
CleanStoreAudits ==
  \A v \in Versions : (v = "3" => log = <<>> \/ ForwardActive) =>
    LET audit == Audit(v, Disk) IN
    /\ audit.failures = {}
    /\ audit.pending = Unpublished(v)
    /\ audit.unchecked # {} => v # "3" /\ \E i \in DOMAIN log : log[i].req.type \in Transitions

\* No escape: one damaged row - of the log, a payload, the checkpoint, a published
\* record or a freshness row - makes the audit fail, or say what it left unchecked.
DamageIsReported ==
  \A v \in Versions : (v = "3" => log = <<>> \/ ForwardActive) =>
    \A d \in Damaged(v, Disk) :
      LET audit == Audit(v, d) IN audit.failures # {} \/ audit.unchecked # {}

\* What the script's own description says (verify_store.py:9-11): events beyond
\* the published progress are pending and do not make the audit fail.
PendingNeverFails ==
  \A v \in Versions :
    LET audit == Audit(v, Disk) IN audit.pending = DOMAIN log => audit.failures = {}
=============================================================================
