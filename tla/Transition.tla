------------------------------ MODULE Transition ------------------------------
(***************************************************************************)
(* scripts/transition_store.py: a working copy of a store is made for      *)
(* projector 3 and proved, while sessions go on using the source.  The     *)
(* tool never takes the writer lock: it hashes the retained import         *)
(* manifests, pins one read snapshot, copies, migrates the copy's schema,  *)
(* proves and audits the copy, and compares the source again before it     *)
(* writes the proof manifest (phase "done").                               *)
(*                                                                         *)
(* A refused check and a death are both Stop: neither leaves a proof, and  *)
(* another try needs new paths.  The comparison of the source file's own   *)
(* digest, which a mere WAL checkpoint changes, is one of them.  A bundle  *)
(* is the log and manifests that module ReportBackup's backup copies; the  *)
(* equality of projectors 2 and 3 is that of the tables kept here.         *)
(***************************************************************************)
EXTENDS Verifier

VARIABLES
  schema,    \* the source's schema version, 4 or 5; projector 3 needs 5
  imports,   \* the manifests retained beside the source, by report
  foreign,   \* history: the reports that entered the source without a manifest
  bundle,    \* {} or {the report bundle backed up for this attempt}
  phase,     \* how far the tool is
  hashed,    \* the manifests it hashed at its start
  pinned,    \* the image of the source it read
  backup,    \* the two copies: an image and the manifests beside it
  working

toolVars == <<phase, hashed, pinned, backup, working>>
transitionVars == <<vars, schema, imports, foreign, bundle, toolVars>>

Reports == UNION {r.report : r \in Requests}
ReportsIn(l) == UNION {l[i].req.report : i \in DOMAIN l}

\* The logical image of the source.
Image == [log |-> log, view |-> view, progress |-> progress, latest |-> latest,
          subjectOf |-> subjectOf, schema |-> schema]

NoImage == [log |-> <<>>]
NoCopy == [image |-> NoImage, imports |-> {}]

TransitionInit ==
  /\ Init
  /\ schema \in {4, 5}
  /\ imports = {} /\ foreign = {} /\ bundle = {}
  /\ phase = "idle" /\ hashed = {} /\ pinned = NoImage /\ backup = NoCopy /\ working = NoCopy

-----------------------------------------------------------------------------
(***************************************************************************)
(* The source in use.  An importer retains a manifest before it submits;   *)
(* another bound producer retains none, and a store restored in part has   *)
(* lost some, which is as if its reports had come without them.  Nothing   *)
(* deletes a manifest beside a store that lives on.                        *)
(***************************************************************************)
Usable == IF schema = 4 THEN Versions \ {"3"} ELSE Versions

SourceUsed ==
  /\ \/ \E v \in Usable, r \in Requests :
          AppendSubmission(v, r) /\ foreign' = foreign \cup (r.report \ imports)
     \/ \E v \in Usable, asOf \in Clock : PublishNext(v, asOf) /\ UNCHANGED foreign
     \/ \E v \in Usable, asOf \in Clock : RebuildProjection(v, asOf) /\ UNCHANGED foreign
  /\ UNCHANGED <<schema, imports, bundle, toolVars>>

RetainManifest ==
  /\ \E p \in Reports : imports' = imports \cup {p}
  /\ UNCHANGED <<vars, schema, foreign, bundle, toolVars>>

\* A backup, which does own the store while it copies.  Only Pin looks at it, so a
\* bundle that still matches at the next attempt may as well be taken then.
TakeBundle ==
  /\ phase \in {"idle", "hashed"}
  /\ bundle' = {[log |-> log, imports |-> imports]}
  /\ UNCHANGED <<vars, schema, imports, foreign, toolVars>>

-----------------------------------------------------------------------------
(***************************************************************************)
(* The tool.                                                               *)
(***************************************************************************)
Begin ==
  /\ phase = "idle" /\ phase' = "hashed"
  /\ hashed' = imports
  /\ UNCHANGED <<vars, schema, imports, foreign, bundle, pinned, backup, working>>

\* Both copies are taken from one pinned snapshot.  A source with reports or
\* manifests needs a bundle, and a bundle given has to match it.
Pin ==
  /\ phase = "hashed" /\ phase' = "pinned"
  /\ \E given \in {{}, bundle} :
       /\ ReportsIn(log) # {} \/ hashed # {} => given # {}
       /\ \A b \in given : b.log = log /\ b.imports = hashed
  /\ pinned' = Image
  /\ backup' = [image |-> Image, imports |-> {}]
  /\ working' = [image |-> Image, imports |-> {}]
  /\ bundle' = {}
  /\ UNCHANGED <<vars, schema, imports, foreign, hashed>>

\* Mutant of WithImports: the directory is not copied beside this copy.
WithImportsForgotten(copy) == copy

\* The manifests as they are when this copy's directory is made.
WithImports(copy) == [copy EXCEPT !.imports = imports]

CopyToBackup ==
  /\ phase = "pinned" /\ phase' = "backed"
  /\ imports = hashed
  /\ backup' = WithImports(backup)
  /\ UNCHANGED <<vars, schema, imports, foreign, bundle, hashed, pinned, working>>

CopyToWorking ==
  /\ phase = "backed" /\ phase' = "copied"
  /\ imports = hashed
  /\ working' = WithImports(working)
  /\ UNCHANGED <<vars, schema, imports, foreign, bundle, hashed, pinned, backup>>

\* migrate_working_copy, from the backup and not from the source: only an exact
\* copy of it is migrated.  A source of schema 5 needs no migration.  The tables are
\* copied in one transaction on a file nobody else uses: it is committed whole, or
\* rolled back and the tool gives up, so that one step and Stop are all there is.
Migrate ==
  /\ phase = "copied" /\ phase' = "migrated"
  /\ backup.image.schema = 4 => working.image = backup.image
  /\ working' = [working EXCEPT !.image.schema = 5]
  /\ UNCHANGED <<vars, schema, imports, foreign, bundle, hashed, pinned, backup>>

\* Mutant of Rebuilt: projector 3's freshness rows are left as they were.
RebuiltRecords(i) ==
  [i EXCEPT !.view["3"] = TablesOf(i.log), !.progress["3"] = Len(i.log)]

\* rebuild_projection of the whole log under projector 3.
Rebuilt(i) ==
  LET active == i.latest["3"] # NoRows IN
  [i EXCEPT !.view["3"] = TablesOf(i.log), !.progress["3"] = Len(i.log),
            !.latest["3"] = IF active THEN @ ELSE i.latest["2"],
            !.subjectOf["3"] = IF active THEN @ ELSE i.subjectOf["2"]]

\* The prefix proof: both projectors accept every event of the copied log.
Prove ==
  LET i == working.image IN
  /\ phase = "migrated" /\ phase' = "rebuilt"
  /\ i.log = pinned.log
  /\ \A n \in DOMAIN i.log : \A v \in {"2", "3"} :
       Admits(v, ReplayOf(i.log, EmptySnapshot)[n-1], i.log[n].req)
  /\ working' = [working EXCEPT !.image = Rebuilt(@)]
  /\ UNCHANGED <<vars, schema, imports, foreign, bundle, hashed, pinned, backup>>

AuditOfCopy ==
  LET i == working.image IN Audit("3", DiskOf(i.log, i.view, i.progress, i.latest, i.subjectOf))

AuditCopy ==
  /\ phase = "rebuilt" /\ phase' = "audited"
  /\ AuditOfCopy.failures = {}
  /\ UNCHANGED <<vars, schema, imports, foreign, bundle, hashed, pinned, backup, working>>

\* The source is read again before the proof is written.
Conclude ==
  /\ phase = "audited" /\ phase' = "done"
  /\ Image = pinned /\ imports = hashed
  /\ UNCHANGED <<vars, schema, imports, foreign, bundle, hashed, pinned, backup, working>>

Stop ==
  /\ phase \notin {"idle", "done"} /\ phase' = "idle"
  /\ hashed' = {} /\ pinned' = NoImage /\ backup' = NoCopy /\ working' = NoCopy
  /\ UNCHANGED <<vars, schema, imports, foreign, bundle>>

TransitionNext ==
  \/ SourceUsed \/ RetainManifest \/ TakeBundle
  \/ Begin \/ Pin \/ CopyToBackup \/ CopyToWorking \/ Migrate \/ Prove \/ AuditCopy \/ Conclude \/ Stop

TransitionSpec == TransitionInit /\ [][TransitionNext]_transitionVars
-----------------------------------------------------------------------------
(***************************************************************************)
(* Properties.                                                             *)
(***************************************************************************)
\* A proof manifest is worth its name whatever sessions and importers did
\* meanwhile: backup and working copy hold one prefix of the source's log, the
\* working copy shows all of it under projector 3 with the records projector 2
\* would show, and beside each copy lie the manifests the proof lists, with one
\* for every report in the copy that did not enter the source without.  Nothing in
\* the tool asks for the latter: it compares the manifests with those it hashed before
\* it read the log, while importers retain manifests and append reports at any time.
ProvenCopyIsComplete ==
  phase = "done" =>
    LET i == working.image IN
    /\ i.log = backup.image.log
    /\ IsPrefix(i.log, log)
    /\ i.schema = 5 /\ backup.image.schema = schema
    /\ i.progress["3"] = Len(i.log)
    /\ i.view["3"] = TablesOf(i.log)
    /\ \A n \in DOMAIN i.log : i.log[n].req.type \notin Transitions
    /\ \A copy \in {backup, working} :
         copy.imports = hashed /\ ReportsIn(copy.image.log) \subseteq copy.imports \cup foreign

\* The tool's own audit never refuses the copy of a healthy store: whatever the
\* source had published, recovered or left pending, and whether or not it ever
\* used projector 3, the rebuilt copy passes with nothing unchecked or pending.
RebuiltCopyAudits ==
  phase = "rebuilt" => AuditOfCopy = [failures |-> {}, unchecked |-> {}, pending |-> {}]
=============================================================================
