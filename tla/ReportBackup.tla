----------------------------- MODULE ReportBackup -----------------------------
(***************************************************************************)
(* Backup and restore of a report store.  A backup owns the store like any *)
(* writer, copies the database, its loaded policy and the retained         *)
(* manifests one after the other, and seals the bundle last with what they *)
(* should be.  A restore checks a sealed bundle and copies it to a fresh   *)
(* destination, the database first.  Either may die between two copies,    *)
(* and the store may be lost with everything beside it.                    *)
(*                                                                         *)
(* One bundle is followed.  A directory that a backup left unsealed is     *)
(* abandoned, the next one goes elsewhere.  The destination of a restore   *)
(* is not used before the restore has returned or died.                    *)
(***************************************************************************)
EXTENDS Importer

CONSTANTS
  BackupVersion,   \* the projector whose progress the bundle states
  MaxLosses        \* bound: how often the store is lost

VARIABLES
  bundle,      \* [store, policy, manifests, copied, seal], each {} or {its contents}
  backup,      \* where the backup is
  restored,    \* the runs whose manifests are restored
  location,    \* "present", "lost", "restoring"
  losses

backupVars == <<bundle, backup, restored, location, losses>>
everyVar == <<log, view, progress, latest, subjectOf, clock,
              manifests, at, owner, bound, cutoff, next, crashes,
              bundle, backup, restored, location, losses>>

NoBundle == [store |-> {}, policy |-> {}, manifests |-> [run \in ImportRuns |-> {}],
             copied |-> {}, seal |-> {}]

BackupInit ==
  /\ ImportInit
  /\ bundle = NoBundle
  /\ backup = "idle"
  /\ restored = {}
  /\ location = "present"
  /\ losses = 0

-----------------------------------------------------------------------------
(***************************************************************************)
(* Backup.                                                                 *)
(***************************************************************************)
BackupSession == [run |-> "backup", artifacts |-> <<>>, version |-> BackupVersion]

ASSUME SessionAssumption == BackupSession \notin Invocations

\* The database file: the log and every projector's tables.
Database == [log |-> log, view |-> view, progress |-> progress, latest |-> latest, subjectOf |-> subjectOf]

TipOf(l) == IF l = <<>> THEN <<>> ELSE EventHash(l[Len(l)])

\* What bundle.json says of the files it was written after.
SealNow(policy) ==
  [definitions |-> policy.definitions, tip |-> TipHash, progress |-> progress[BackupVersion]]

BackupGoes(from, to) == backup = from /\ backup' = to

\* Mutant of OpenBackup: the database is copied under nobody's lock.
OpenBackupUnowned ==
  /\ BackupGoes("idle", "opened")
  /\ bundle.seal = {}
  /\ location = "present"
  /\ owner = {}
  /\ \E config \in Configs :
       /\ Loadable(config)
       /\ HistoryDefined(config)
       /\ bundle' = [NoBundle EXCEPT !.policy = {Loaded(config)}]
  /\ UNCHANGED <<vars, importVars, restored, location, losses>>

\* The backup command loads the policy and opens the store as its writer.
OpenBackup ==
  /\ BackupGoes("idle", "opened")
  /\ bundle.seal = {}
  /\ location = "present"
  /\ owner = {}
  /\ owner' = {BackupSession}
  /\ \E config \in Configs :
       /\ Loadable(config)
       /\ HistoryDefined(config)
       /\ bundle' = [NoBundle EXCEPT !.policy = {Loaded(config)}]
  /\ UNCHANGED <<vars, manifests, at, bound, cutoff, next, crashes, restored, location, losses>>

CopyStore ==
  /\ BackupGoes("opened", "copying")
  /\ bundle' = [bundle EXCEPT !.store = {Database}]
  /\ UNCHANGED <<vars, importVars, restored, location, losses>>

CopyManifest(run) ==
  /\ BackupGoes("copying", "copying")
  /\ run \notin bundle.copied
  /\ bundle' = [bundle EXCEPT !.manifests[run] = manifests[run], !.copied = @ \cup {run}]
  /\ UNCHANGED <<vars, importVars, restored, location, losses>>

\* The digests of all the files and what they should hold are written last.
Seal ==
  /\ BackupGoes("copying", "idle")
  /\ bundle.copied = ImportRuns
  /\ bundle' = [bundle EXCEPT !.seal = {SealNow(policy) : policy \in bundle.policy}]
  /\ owner' = owner \ {BackupSession}
  /\ UNCHANGED <<vars, manifests, at, bound, cutoff, next, crashes, restored, location, losses>>

BackupDies ==
  /\ backup # "idle"
  /\ crashes < MaxCrashes
  /\ crashes' = crashes + 1
  /\ backup' = "idle"
  /\ owner' = owner \ {BackupSession}
  /\ UNCHANGED <<vars, manifests, at, bound, cutoff, next, bundle, restored, location, losses>>

-----------------------------------------------------------------------------
(***************************************************************************)
(* Loss and restore.                                                       *)
(***************************************************************************)
\* The store is lost, with its manifests and everybody who was using it.
LoseStore ==
  /\ location = "present"
  /\ bundle.seal # {}
  /\ losses < MaxLosses
  /\ losses' = losses + 1
  /\ location' = "lost"
  /\ restored' = {}
  /\ log' = <<>>
  /\ view' = [v \in Versions |-> EmptySnapshot]
  /\ progress' = [v \in Versions |-> 0]
  /\ latest' = [v \in Versions |-> NoRows]
  /\ subjectOf' = [v \in Versions |-> NoRows]
  /\ manifests' = [run \in ImportRuns |-> {}]
  /\ at' = [i \in Invocations |-> IF at[i] \in Ended THEN at[i] ELSE "idle"]
  /\ owner' = {}
  /\ backup' = "idle"
  /\ bound' = [i \in Invocations |-> {}]
  /\ cutoff' = [i \in Invocations |-> 0]
  /\ UNCHANGED <<clock, next, crashes, bundle>>

\* Every declaration in the bundle's log has its definition in the bundle's policy,
\* and the files hold what the seal says.
Restorable(b) ==
  \E database \in b.store, policy \in b.policy, seal \in b.seal :
    /\ \A i \in DOMAIN database.log : \A p \in database.log[i].req.report : p.vocabulary \in policy.definitions
    /\ seal.definitions = policy.definitions
    /\ seal.tip = TipOf(database.log)
    /\ seal.progress = database.progress[BackupVersion]

RestoreStore ==
  /\ location = "lost"
  /\ location' = "restoring"
  /\ Restorable(bundle)
  /\ \E database \in bundle.store :
       /\ log' = database.log
       /\ view' = database.view
       /\ progress' = database.progress
       /\ latest' = database.latest
       /\ subjectOf' = database.subjectOf
  /\ UNCHANGED <<clock, importVars, bundle, backup, restored, losses>>

RestoreManifest(run) ==
  /\ location = "restoring"
  /\ run \notin restored
  /\ restored' = restored \cup {run}
  /\ manifests' = [manifests EXCEPT ![run] = bundle.manifests[run]]
  /\ UNCHANGED <<vars, at, owner, bound, cutoff, next, crashes, bundle, backup, location, losses>>

RestoreDone ==
  /\ location = "restoring"
  /\ restored = ImportRuns
  /\ location' = "present"
  /\ UNCHANGED <<vars, importVars, bundle, backup, restored, losses>>

\* The restore dies; what it copied so far is there, and nobody is told.
RestoreDies ==
  /\ location = "restoring"
  /\ crashes < MaxCrashes
  /\ crashes' = crashes + 1
  /\ location' = "present"
  /\ UNCHANGED <<vars, manifests, at, owner, bound, cutoff, next, bundle, backup, restored, losses>>

BackupNext ==
  \/ location = "present" /\ ImportNext /\ UNCHANGED backupVars
  \/ OpenBackup \/ CopyStore \/ Seal \/ BackupDies
  \/ \E run \in ImportRuns : CopyManifest(run) \/ RestoreManifest(run)
  \/ LoseStore \/ RestoreStore \/ RestoreDone \/ RestoreDies

BackupSpec == BackupInit /\ [][BackupNext]_everyVar
-----------------------------------------------------------------------------
(***************************************************************************)
(* Properties.                                                             *)
(***************************************************************************)
IsReportMention(e) == e.req.type = "entity_mention_recorded" /\ e.req.report # {}

\* A sealed bundle shows one moment of the store: it passes the restore's own
\* checks, and every subject its log has for a report scope is retained in its
\* manifests, so a restored store can go on importing.
SealedBundleRestores ==
  bundle.seal # {} =>
    /\ Restorable(bundle)
    /\ \A database \in bundle.store : \A k \in DOMAIN database.log :
         IsReportMention(database.log[k]) =>
           \E run \in ImportRuns : \E m \in bundle.manifests[run] : \E a \in m.associations :
             a.subject = database.log[k].req.body.subject

\* No scope gets a second subject, not even in a store that was lost and restored
\* from an older moment, or restored in part: where a manifest is missing, new
\* imports refuse rather than mint the scope again.
ScopeBootstrappedOnce ==
  \A j, k \in {i \in DOMAIN log : IsReportMention(log[i])} :
    log[j].req.body.text = log[k].req.body.text => j = k
=============================================================================
