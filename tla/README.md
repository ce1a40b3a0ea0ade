# A TLA+ model of the Nyx belief store

Nyx keeps an append-only log of events in SQLite and, beside it, views of the
beliefs those events support. This directory holds TLA+ modules translated from
the Python sources under `src/nyx`, TLC configurations that check them on small
instances, and proofs that TLAPS checks for every instance. Paths below are
relative to the repository; PROJECT.json names, for every definition, the lines
it stands for.

## 1. The system

### Components

| component | state | operations | modelled by |
|---|---|---|---|
| Layer A and append (`storage.py`, `writer.py`, `integrity.py`, `hashing.py`) | tables `events`, `payloads`: a hash chain with stamps | `append_submission` (the ordinary writer path), `safe_append_event` (a pair the caller built) | Store, LegacyStore |
| Reduction under projectors 1 and 2 (`reducer.py`, `committed.py`) | none; a pure function of snapshot and event | `reduce` for mentions and observations | Reducer |
| Projector 3 (`forward.py`, `transition_dependencies.py`) | table `candidate_relations` | `reduce_transition`: correction, replacement, expiry | Reducer |
| Publication, progress, recovery (`storage.py`, `projection.py`) | projected record tables and `derived_progress`, one set per projector | `materialize_pending`, `rebuild_projection` | Store |
| Freshness (`storage.py`, `projection.py`) | `identity_event_index`, `belief_event_index` | written by append; read by `read_belief_status`, `read_identity_status` | Store |
| Writer ownership and sessions (`writer.py`, `skeleton.py`, `ingestion.py`) | the OS lock beside the database; the clock | open, publish, append, publish, read back, close; retry | Writers |
| Legacy projector 0 (`storage.py`, `projection.py`) | `resolved_beliefs`, `entity_event_index` | `_append_legacy_locked`, low-level append, the value fold, publication | LegacyStore |
| Callers of projector 0 (`skeleton.py`) | the retained submission | `record_observation`, `record_correction` | LegacySessions |
| Merkle map (`merkle.py`) | none; persistent trees | put, delete, get, prove, verify | Merkle, MerkleMap |
| Committed nodes (`committed_storage.py`, `committed.py`) | `committed_nodes`, `committed_roots`, `projected_beliefs` | `publish_for`, `read_snapshot_for`, recovery | CommittedStore |
| Report policy and reader (`report_policy.py`, `reports.py`) | the loaded, immutable policy | `load_policy`, `authorize`, `guard`, `_inspect_history`, `_detail` | ReportPolicy |
| Request preparation and importer (`ingestion.py`, `report_importer.py`) | a retained `requests.json` per run | `prepare_artifacts`, `resume_import`, `check_completion` | Importer |
| Backup and restore (`report_backup.py`) | a bundle of files, its seal last | `backup_bundle`, `restore_bundle` | ReportBackup |
| Store transition (`scripts/transition_store.py`, `migrate_working_copy`) | two copies and a proof manifest | copy, migrate, rebuild, audit, compare | Transition |
| Independent verifier (`scripts/verify_store.py`) | none | a second replay and comparison of every row | AuditRows, Verifier, TreeAudit |
| Mutation campaign (`scripts/mutation_campaign.py`) | none | damages one row and expects a failing audit | Verifier, TreeAudit |
| Schema and initialisation (`storage.py`) | `schema_meta` | `init_db` | not modelled: refuses, or changes nothing |
| Shape checks, ids, timestamps, CLI, stubs, other campaigns, probes | none | | not modelled: no state of their own |

### How they interact

A writer process calls `init_db`, which takes the operating system's lock or
raises `WriterBusyError`. It then runs SQLite transactions one after another:
`materialize_pending` publishes each pending event in a transaction of its own,
`append_submission` commits one event, `materialize_pending` publishes again.
Append and publication never share a transaction. An append validates its
request by *reducing* it on the projector's materialized tables, so it depends
on publication having caught up; publication reduces the same event again, on
tables it reads itself; recovery reduces the whole log from genesis. All three
must agree, and they meet only through the database.

Projector 0 is an older generation on the same log. It judges a correction on its
own view, in the same two steps of append and publication; its callers keep the raw
submission rather than a request. Either generation refuses the other's events.

Projectors 2 and 3 also keep their records as Merkle trees: publication adds the
nodes an event's delta needs and moves the roots, recovery deletes and rebuilds them.

Reports come in through one importer. It reads the store, plans every request of a
run, retains the plan in a file, and submits request by request; each submission
passes the guard of a policy that was matched against the whole history when the
store was opened. Backups own the store like a writer and copy the database, the
policy and the manifests one after the other. The transition tool owns nothing: it
reads a store that others go on using, and compares again at its end. The verifier
reads rows, and shares with the program only hashing and tree construction.

Three projectors read one log. Projectors 1 and 2 are frozen: they know two
event types. Projector 3 adds three transitions. Any of them may be selected for
an append, and each keeps its own tables and progress.

### What is hard about it

* **Admission on derived state.** An event is judged against a view that is
  published separately. If the view were not the whole log, an event could be
  committed that every later replay refuses, and the log never forgets.
* **The clock.** `recorded_at` may not go back, the clock may. Publication has
  a cutoff read from that clock, so a clock set back hides the tip of the log.
* **Crashes and retries.** A process may die between commit and publication.
  Its caller submits the retained request again and has to get the same entry.
* **Projector 3's late start.** Its freshness rows do not exist until it is
  first selected; then they start as a copy and have to be complete.
* **Three records of one ending.** A candidate's row, the copy in its belief and
  the relation table are written separately and compared by readers.
* **Frozen projectors meeting transitions.** They must stop, not skip.
* **Two generations, one log.** One committed mixture would stop every writer.
* **Late arrivals under projector 0.** An observation may be older than what its
  belief shows; a correction may not, and is refused before it is committed.
* **Shared tree nodes.** Versions share nodes; a root must reach all of its own,
  and superseded versions stay readable.
* **Plans that grow old.** A retained import was planned on a store that has moved
  on; it must be committed whole and in order, or be refused for a stated reason.
* **Copies made of moving parts.** Backup, restore and transition copy several files
  and may die between any two.
* **Two implementations.** The verifier decides again what the reducers decided.

PROJECT.json lists every hazard with its line and the properties that watch it.

### What makes each component correct

* Log: always passes `verified_log` (LogVerifies); everything in it can be
  replayed (Replayable).
* Views: exactly the replay of the prefix `derived_progress` names
  (ViewIsReplay), however publication, interruption and recovery interleaved.
* Reduction: one belief per (subject, property), candidates held by the belief
  their claim names (OneBeliefPerScope); endings recorded alike in three places
  (EndingsAgree).
* Freshness: nothing affected by a pending event is read without the stale
  label (FreshMeansCurrent).
* Sessions: one at a time (SessionTypeOK), appending at the tip (AppendsAtTip),
  reading their own write (ReadsOwnWrite), one answer per retained request
  (OneAnswerPerRequest), and all of them end (EverySessionEnds).
* Projector 0: an ordinary append never ends the replay of the log (EveryLogFolds) nor
  mixes generations (OneGeneration); beliefs show what occurred last (HeadIsLatest),
  labels are honest (LegacyFreshIsCurrent), and its callers get their event back
  (ReturnsOwnEvent, CommittedIsAnswered, EveryRecordEnds).
* Trees: one root per record set (OneRootPerRecordSet), proofs that show members only
  (ProofsShowMembers), complete writes (WritesComplete); stored roots that reach their
  nodes (RootsReachTheirNodes) and implement the tables (TreesImplementLedger).
* Imports: one subject per scope (OneSubjectPerScope), committed in order
  (RetainedInOrder), refused for a cause (RejectedForCause), complete when submitted
  (SubmittedMeansComplete), under a policy that knows the history
  (BoundPolicyCoversHistory), and readable (ReportsReadable).
* Copies: a sealed bundle restores (SealedBundleRestores), a store restored in part
  does not mint a scope again (ScopeBootstrappedOnce), a proved copy is complete
  (ProvenCopyIsComplete, RebuiltCopyAudits).
* Audits: no false alarm (CleanStoreAudits, StoredTreesAudit) and no escape
  (DamageIsReported, LostNodesAreReported).
* The whole: a ledger that only grows, and prefix-determined views
  (ImplementsLedger).

## 2. The modules

    Tables <- Reducer <- Store <- Writers <- MCWriters
                         Store <- MCStore
                         Store <- ReportPolicy <- Importer <- ReportBackup
              AuditRows, Store <- Verifier <- Transition
      Merkle <- MerkleMap
      Merkle, Reducer <- CommittedStore;  CommittedStore, AuditRows <- TreeAudit
    Tables <- LegacyStore <- LegacySessions
    Ledger (abstract) is instantiated by Store and by CommittedStore

    ReducerProofs (Reducer) <- StoreProofs (Store) <- WritersProofs (Writers)
                               StoreProofs <- VerifierProofs (Transition)
    ReducerProofs <- ImporterProofs (ReportBackup)
    ReducerProofs, MerkleProofs (MerkleMap) <- CommittedProofs (CommittedStore)
    LegacyProofs (LegacySessions)

Every MC module extends one of these with its instance; SampleRequests holds the
requests several of them share.

**Reducer** is the pure part. A *snapshot* is a record of tables, each a function
from identifiers to rows; `Admits(v, s, r)` is the conjunction of all checks a
projector makes before it accepts a request, and `Delta` the rows an accepted
one writes. The older pure reducer (projector 1) and the tree-backed one
(projector 2) write the same records, and are one definition here.
`ReplayOf(l, start)[n]` is the snapshot after n entries, a recursive function so
that it can be reasoned about.

**Store** has one action per SQLite transaction. A transaction that raises rolls
back and is not a step.

| action | code |
|---|---|
| AppendSubmission | `append_submission` with `writer.assign` and `_append_stage_two_locked`; both clock samples |
| SafeAppend | `safe_append_event`: any predecessor hash, any recorded_at |
| PublishNext | one iteration of `materialize_pending` |
| PublishNothing | its last iteration, which still commits projector 3's freshness rows |
| RebuildProjection | `rebuild_projection` |
| ClockMoves | the machine's clock, in either direction |

Hashes are modelled injectively: the hash of an entry is the sequence of all
that was hashed up to it, so two chains have equal tips exactly when they are
equal chains. A request is reduced to what the program compares: `Key` has the
idempotency key's three parts, and the semantic contents are the whole record.
The two projected tables a mention always writes together are one table.

**Writers** puts processes on top. A session has a program counter with one
value between every two transactions or clock readings, `cutoff` is the `as_of` of
its current publication call, and `answers` is a history variable: every log
position the session was told holds its request. A *live* session
(`_record_stage_two`, or an import being resumed) reads the clock for each
publication; one with an explicit `as_of` (`ingestion.submit`) uses its caller's
cutoff both times. `Crash` may strike between any two steps while a session
owns the store; the lock goes with the process and the caller starts again with
the same request. The inner lock (`append_lock`) serialises threads of one process;
a session here is one such critical section.

**Ledger** is the promise: `Accept` adds an entry that conflicts with none, is not
older than any, and that a projector showing the whole ledger admits; `Show`
makes a projector show any prefix whose entries it admitted one by one. Tables
are a function of the prefix. Store is shown to implement it under the mapping
`ledger <- the stamped log, shown <- progress, tables <- view`. It mentions no clock,
hash, freshness row or recovery; recovery is one Show, like a published event.

**LegacyStore** is projector 0: its two append paths (AppendLegacy judges a
correction on the caught-up view, SafeAppendLegacy looks at no view), publication, the
value fold, its index, and as much of a stage-two projector as decides who may share
the log. It starts from a new store or from one an earlier revision left with an
event, with or without its row, and without progress. **LegacySessions** puts its
callers on top, with a lock, a clock and deaths as in Writers. What is retained is a
submission: the event id is looked up in the log or minted.

**Merkle** is the crit-bit tree: a digest is its content, so a tree is its own root, and
an operation is a recursive function over the nodes of the tree it is given. **MerkleMap** puts, replaces, deletes and takes proofs.
**CommittedStore** is projector 3 (or 2) over these trees: `Committed` is
`committed.py`'s delta with the nodes it writes, AcceptRequest, PublishDelta and
RebuildTrees its transactions, and `Snapshot` what `read_snapshot_for` decodes.

**ReportPolicy** is the deployment's policy: a configuration is loaded if it is
unambiguous and resolves, `Authorizes` is `authorize`, `Detailed` the reader.
**Importer** has one action per file operation or transaction of an invocation of the
import command: Deploy, OpenWriter, BeginPreparing, Prepare (one rename), Resume,
SubmitNext, SubmitNew or SubmitRetried, Finish, CheckCompletion, each refusal, and
Dies. Other producers append in between. An identifier is
minted for a run and a serial that the log does not know (`Unused`, `Minting`): a plan that
was never retained was never seen by anybody.
**ReportBackup** adds the backup's and the restore's copies, the loss of the store with
everything beside it, and deaths of each.

**AuditRows** is the verifier as a pure function of rows: `ReadLog`, its own replay
(`ReplayEntry`), `Reconstruction`, `FreshnessHolds`, `RelationsAgree`, put together in
`Audit(v, d)` with failures, what it left unchecked, and what is pending. **Verifier**
lays the store's state out as rows and damages them (`Damaged`); **TreeAudit** does the
same with nodes, roots and headers. **Transition** is the transition tool's steps from
Begin to Conclude over a source that sessions, importers, other producers and a backup
go on using; every refusal of it, and its death, is Stop. The tool compares tip, log
and the digests of the manifests, and never asks that a report have a manifest: those
that came without one (another producer's, or from a store that was restored in part)
are remembered in `foreign`, for ProvenCopyIsComplete to except them and no others.

## 3. The runs

| run | bounds | properties | states |
|---|---|---|---|
| store_contention | 10 requests, MaxClock 1, Threshold 0 | TypeOK, LogVerifies, ViewIsReplay, Replayable, FreshMeansCurrent, EndingsAgree, OneBeliefPerScope, ImplementsLedger | 37,100 |
| sessions_contend | 4 sessions, MaxClock 2, Threshold 1, MaxCrashes 1 | SessionTypeOK, AppendsAtTip, ReadsOwnWrite, OneAnswerPerRequest, EverySessionEnds | 53,400 |
| sessions_forward | 5 sessions under projectors 1, 2 and 3, MaxClock 1, Threshold 0, no crash | ImplementsLedger | 42,700 |
| legacy_store | 9 submissions, 4 event ids (symmetric), MaxClock 1, Threshold 0 | EveryLogFolds, OneGeneration, HeadIsLatest, LegacyFreshIsCurrent | 38,300 |
| legacy_record | 3 callers, 3 event ids, MaxClock 1, Threshold 0, MaxCrashes 1 | ReturnsOwnEvent, CommittedIsAnswered, EveryRecordEnds | 46,400 |
| merkle_map | 4 keys with routes of 3 bits, 2 values | OneRootPerRecordSet, ProofsShowMembers, WritesComplete | 11,200 |
| committed_store | 6 requests, routes of 4 bits, projector 3 | RootsReachTheirNodes, StoredTreesAudit, LostNodesAreReported, TreesImplementLedger | 730 |
| import_runs | 2 runs, 7 configurations, MaxClock 1, MaxCrashes 1 | OneSubjectPerScope, BoundPolicyCoversHistory, SubmittedMeansComplete | 651,700 |
| report_backup | 3 invocations, 2 other requests, MaxCrashes 1, MaxLosses 1 | RetainedInOrder, RejectedForCause, ReportsReadable, SealedBundleRestores, ScopeBootstrappedOnce | 477,500 |
| store_audits | 8 requests, ordinary appends, MaxClock 0 | CleanStoreAudits, DamageIsReported | 2,300 |
| pending_audits | as store_audits | PendingNeverFails (violated) | |
| transition_proof | 4 requests, MaxClock 0 | ProvenCopyIsComplete, RebuiltCopyAudits | 311,500 |

What each shows:

* *store_contention*: two observations bring rival beliefs for one scope, one is
  submitted again under a fresh event id, a mention is submitted with other
  contents, a correction (also a backdated one), a replacement and an expiry contend
  for the same target, and a second subject has no part in it; all through both
  append paths, interleaved with publication and recovery of all three projectors at
  every cutoff. Projector 3 starts before, between or after the appends. Since
  admission limits how many of these can be in one log together, the log's length
  needs no bound.
* *sessions_contend*: two sessions submit requests under the same event id, a third
  an observation that needs the mention, a fourth recovers the view; the clock
  moves by up to twice the threshold, so that clamped stamps, refusals at
  the first and at the second sample, and explicit cutoffs before the tip occur.
* *sessions_forward*: an expiry enters the log under projector 3, and a session of
  projector 2 and a recovery of projector 1 meet it. These are the runs in which
  publication and recovery are refused.
* *legacy_store*: observations of one belief that arrive late or at one instant,
  corrections before, at and after them, an origin that is not worked, a second belief and
  a stage-two event, under both append paths. The low-level path may commit what no
  replay takes (the code documents that), so EveryLogFolds and OneGeneration speak
  of the ordinary appends among them.
* *legacy_record*: an observation, the same submission as a correction, and a
  correction that is backdated once either is in the log; a caller may die anywhere. The
  store may be one that an earlier revision left with one event and without progress;
  where that event has a row, the code cannot tell what the row counts (`Unproven`) and
  refuses every caller, also one whose submission is that very event: the
  exception of CommittedIsAnswered.
* *merkle_map*: keys that part at the first and only at the last bit of their routes.
* *committed_store*: three beliefs, two of one subject and one with superseded
  versions, and an expiry; a recovery may go back to any event and publication go on
  from there. From each of these stores, each needed node is lost in turn and each
  root exchanged. The verifier leaves the lineage of a header unchecked when it cannot
  tell the event that produced it (`Traceable`); StoredTreesAudit says that no
  header of these stores is left so.
* *import_runs*: two revisions of one artifact, prepared in either order, under
  configurations that load, that do not, that no longer admit the vocabulary, that match fewer
  inputs or that define it differently.
* *report_backup*: the same imports, one run used again with other artifacts, a rival
  producer and one that relabels a mention, a backup at any moment, a loss after it, a
  restore that may die half-way, and imports that go on in what was restored. All
  invocations of this run have one configuration, so of RejectedForCause's two causes only
  the second, a belief established meanwhile, occurs in it.
* *store_audits*: projectors 1 to 3 are audited in every reachable store, then every
  row of it is deleted, duplicated, altered or exchanged. The clock stands still here,
  because stamps play no part beyond their order in the log, which
  store_contention checks; partial publication comes from publishing one event at a time.
* *pending_audits* is the one violation: see the findings below.
* *transition_proof*: a source of schema 4 or 5, in use while the tool runs, whose reports
  have a manifest or come without one.

Bounds, by name: `MaxClock` (readings 0..MaxClock, enough for earlier, equal and
later stamps and for a tip beyond the threshold), `Threshold`, `MaxCrashes` (one
crash reaches each point between two steps, since anybody may crash at any; what
a second adds to the sessions is covered by the proofs, which do not bound it),
`MaxLosses`, `Serials` (how often a run may be planned
anew; plans that were not retained left nothing behind), and the sets of requests, sessions, runs, event ids and keys. Deadlock is not checked except in
merkle_map: a store whose every request is in the log, sessions that have all ended and a
finished tool have legitimately stopped.

Every property has a mutant: an operator that changes one definition as a
plausible bug would (a dropped check, a cutoff read once, a table not deleted, a
lock kept by a dead process), under which TLC finds the property violated. The
mutants sit next to what they mutate.

### Finding

`verify_store.py` says of itself that "events beyond validated stored publication
progress are reported as pending, without affecting exit status", and the
repository's README that frozen writers do not add projector 3's freshness index to
stores that have never used it. `check_freshness` requires that index whenever
projector 3 is audited. So auditing projector 3 of a store that only projectors 1
or 2 have written fails on every subject, although all its events are pending for 3;
audits of 0, 1 and 2 pass in the corresponding state. Run pending_audits has the
counterexample; CleanStoreAudits shows that once 3 is active there is no false alarm.

### Fairness

`SessionSpec` has weak fairness of each session's steps and nothing else: a
process that can continue is eventually scheduled, and a caller told that the
store is busy, or that the clock is skewed, tries again, as the retained-request
protocol of `ingestion.py` asks. The clock is not fair and crashes are not
forced to stop (they are bounded by MaxCrashes, without which no program would
end). A clock that stays behind the tip forever makes every append refuse, which
is the documented behaviour (`ClockSkewError` is a refusal without a latch), so
EverySessionEnds assumes that the clock is eventually right for good and asserts
that then nothing was latched. `RecordSpec` has the same fairness for the callers of
projector 0, and EveryRecordEnds the same assumption. Neither run uses symmetry. Imports,
backups and transitions are commands a person runs again or does not, so nothing is
claimed to end there.

## 4. The proofs

TLAPS checks them for every set of requests, submissions, sessions, invocations and
configurations, every clock bound and threshold, any number of crashes and losses, and
any log length. What they assume of the constants, TLC evaluates in every run:

| assumption | what it says | why the code justifies it |
|---|---|---|
| ClockAssumption, LegacyClockAssumption | the clock's bound and the threshold are naturals | they bound the model |
| RequestAssumption | a request has the fields of its type | `ingestion.py` and the reducers refuse payloads of another shape |
| JobAssumption, CallerAssumption | a session has a job, a legacy caller an event of projector 0 | `skeleton.py` makes no others |
| RouteAssumption, KeyAssumption | routes have Width bits and tell the keys of one tree apart | a route is a SHA-256, and `put` refuses a routing collision |
| RecordAssumption | a request is a function of its field names and nothing else | it is decoded from one JSON object |
| SubmissionAssumption | instants are ordered; only events of projector 0 name its beliefs | `timestamps.py`; the filler of the others is no identifier |
| ArtifactAssumption | the artifacts of one invocation are distinct | `prepare_artifacts` refuses others |
| SelectionAssumption | reports go to projectors 1 and 2 | `selected` and the parser of the command |
| ProducerAssumption | only the importer submits mentions of report scopes | `prepare_artifacts` is the only producer of them in the repository |
| IdentifierAssumption | nobody else mints what the importer mints | `ids.py` mints UUIDv7s, of 74 random bits |
| SessionAssumption | the backup is not an import | two commands |

| theorem | property |
|---|---|
| StoreProofs: TypeCorrect | TypeOK |
| LogAlwaysVerifies | LogVerifies |
| ViewsAreReplays | ViewIsReplay |
| CommittedIsReplayable | Replayable |
| StoreImplementsLedger | ImplementsLedger, of Store |
| BeliefsHaveScopes | OneBeliefPerScope |
| EndingsAlwaysAgree | EndingsAgree |
| FreshReadsAreCurrent | FreshMeansCurrent |
| WritersProofs: SessionTypeCorrect | SessionTypeOK |
| SessionsImplementLedger | ImplementsLedger, of the sessions |
| LiveSessionsAppendAtTip | AppendsAtTip |
| LiveSessionsReadOwnWrite | ReadsOwnWrite |
| RetriesGetOneAnswer | OneAnswerPerRequest |
| LegacyProofs: AppendsFold | EveryLogFolds |
| AppendsNeverMix | OneGeneration |
| LegacyFreshReads | LegacyFreshIsCurrent |
| LatestEventShows | HeadIsLatest |
| CallersSeeTheirEvent | ReturnsOwnEvent |
| RefusalsAreFinal | CommittedIsAnswered |
| VerifierProofs: StoresAuditClean | CleanStoreAudits |
| ProofsAreComplete | ProvenCopyIsComplete |
| RebuiltCopiesAudit | RebuiltCopyAudits |
| ImporterProofs: PoliciesCoverHistory | BoundPolicyCoversHistory |
| ScopesKeepTheirSubject | OneSubjectPerScope |
| ManifestsCommitInOrder | RetainedInOrder, of the imports |
| ImportsComplete | SubmittedMeansComplete |
| SealedBundlesRestore | SealedBundleRestores |
| ScopesBootstrapOnce | ScopeBootstrappedOnce |
| RestoredManifestsCommitInOrder | RetainedInOrder, with losses and restores |
| AdmittedReportsReadable | ReportsReadable |
| MerkleProofs: RootDeterminedByRecords | OneRootPerRecordSet |
| ProofsShowOnlyMembers | ProofsShowMembers |
| WritesKeepRootsComplete | WritesComplete |
| CommittedProofs: StoredTreesReadable | RootsReachTheirNodes |
| TreesAreTheLedger | TreesImplementLedger |

### The store (StoreProofs, WritersProofs)

What a mention, claim or transition must satisfy and what it writes is not unfolded
in what follows: of `Admits`, `Delta` and `Upsert` these proofs use only that the projectors
differ on transitions alone, that a table keeps its other rows, and that both are
functions of their arguments. These theorems would survive any change to the rules of
reduction.

1. *Replay.* A recursive function over the log is first shown to exist and to
   satisfy its recursion (`ReplaySteps`), then to depend on nothing but the entries
   it replays (`ReplayPrefix`). Both are inductions by least counterexample, since
   the library's induction theorems take an operator as a parameter.
2. *Kinds of step.* `StepKinds` reduces every transaction to one of four: append a
   checked entry, advance a projector by one event, recover it to a prefix, or
   leave log and views alone. Each later proof has one case per kind.
3. *Views.* ViewIsReplay is not inductive alone. A recovery replays on emptied
   tables, which is a replay from genesis only if the tables are those of a
   snapshot; and the refinement needs to know that everything shown was admitted.
   The invariant `ReplayInv` is TypeOK, ViewIsReplay and `ShownAdmitted` (every entry
   a projector shows was admitted by it on the replay before it).
4. *Replayable* follows because an append is admitted on a view that shows the whole
   log, hence on the replay; and because the projectors differ only on
   transitions (`AdmissionAgrees`).
5. *Ledger.* An append is an Accept: no retained entry conflicts, and the tip's stamp
   is the latest (`StampsOrdered`). The other kinds are Shows, or stutters.
6. *Sessions.* `StoreStep` shows that a session's step is a transaction of the store,
   so 1-5 carry over. `Turns` describes every step as a change of one session's
   place and the lock, from which mutual exclusion follows. The invariant
   `SessionInv` adds, per session, `Knows`: the cutoff of a live session covers the
   tip from the clock reading to the end of publication (nobody else can append,
   by mutual exclusion, and LiveAsOf is clamped to the tip); hence, when publication
   finds nothing pending, the projector shows the whole log; and every answer is
   an entry that holds the session's own request. LogVerifies then makes that
   entry unique.

### What the records say (ReducerProofs, StoreProofs)

Here the rules of reduction are the point. ReducerProofs has no state: it is about one
admitted request, then about a replay; the second half of StoreProofs applies it to views.

1. *One delta.* What an accepted mention, observation, correction, replacement and expiry
   adds to each table, and that it keeps `Consistent`: one belief per scope, each
   candidate held by a belief of its own scope, and a belief's copies equal to the
   candidate rows. One belief per scope alone is not kept by an append: that a claim
   of another belief cannot enter a scope rests on where the candidates are.
2. *One replay.* `Consistent` and `EndingsHold` (the three records of every ending agree,
   and nothing else ended) hold of a replay of admitted entries, by induction over the
   log. Views are such replays (`ShownAdmitted`), which gives OneBeliefPerScope and
   EndingsAgree without a further invariant.
3. *Freshness.* FreshMeansCurrent compares a view with a log it has not caught up with, and
   looks at index rows only. `FreshInv` says what the rows are worth: of every projector
   that keeps them, they own exactly the beliefs a replay of the whole log has, with their
   subjects, and no entry touches a belief or a mention after the position its subject's
   row gives. Projector 3's appear at its first selection as a copy of projector 2's, and
   are complete because the two replays have the same beliefs until a transition enters.
4. *Provenance.* `Sourced`, used by the imports: each row of a replay names the entry it
   comes from, and each entry without transitions still has its rows, unchanged.

### Projector 0 (LegacyProofs)

`LegacyInv` has the type of the log, the generations each projector has applied,
`ViewIsFold` (the view is the value fold of the applied prefix, except in a store
inherited without progress), `IndexAhead` (no event of a belief is later than
its index row says), stamps in order, and no two events with an id or a key in
common. EveryLogFolds and OneGeneration speak of ordinary appends, and of logs that were
sound before them: such an append sees a caught-up view, hence the fold of the whole log,
and checks exactly what the next fold will ask. A low-level append checks none of it and
can end both. HeadIsLatest adds `HeadsHold`: a row of the fold carries an event
of its belief, and none that occurred later.

For the callers, `RecordInv` adds that the log either folds or is the one event an
earlier revision left without progress (`Blocked`), and `WhereItIs` for each
place a caller can be in. The two properties need opposite things: a caller who returns
holds a row that counts its event (`Supports`), which lasts because the log only
grows; and a caller who is refused is `Doomed`, a reason that can no longer go
away (its key is taken, the belief shows a later event, the store is blocked). A blocked
store refuses whoever asks, so RefusalsAreFinal says nothing of it.

### Audits (VerifierProofs)

CleanStoreAudits says that two programs agree on every log: the projectors, which reduce a
request as a whole, and the verifier, which assembles the records claim by claim.

1. *One entry* (`EntryReplays`). On a table of whole rows whose references resolve
   (`Tabular`, `Referenced`), the verifier's replay of an admitted entry has exactly one
   outcome, and it is the reducer's. The step per claim is `NextClaimReplays`: after n
   claims the verifier holds what the reducer would have written for the first n alone
   (`WithClaims`), beliefs with several claims, several versions and endings included.
2. *One log* (`ReconstructionIs`). By induction over the entries, the reconstruction is the
   store's replay, in full and up to the published position, and it stops only where a
   frozen projector meets a transition; `LogPasses` gives the checks of the chain itself.
3. *The freshness rows.* The verifier recomputes them from the whole log and wants
   equality, where FreshMeansCurrent wants only that they are late enough. `ExactRows` says
   that they are what an index of the log has, no more and no less (`ExactGrows` for an
   append, `ExactActivate` for projector 3's late start), which needs that every belief
   was observed by an entry that names its owner.
4. *The audit.* `AuditInv` is FreshInv, LogVerifies and ExactRows. `ReadyIsClean` is about
   rows alone: of any log that is sound, admitted and indexed exactly, and tables that are
   its replay, the audit is clean. CleanStoreAudits, and so StoresAuditClean, does not speak
   of projector 3 before its first selection, where the audit does fail (see the finding). It is stated without the store's variables, because the
   transition tool audits rows that no store of the model holds.

### Transition (VerifierProofs)

`TransitionInv` follows the phases: what was pinned is a prefix of what the source's log
is now, although others append to it; each later phase adds one fact about the copies. The
tool's last comparison is with the source of that moment, and passes only if the prefix
still is the log and the manifests are still those hashed.

Nothing in the tool relates reports to manifests, so that part is a fact about the source
(`ReportsKept`): each report in its log has its manifest, unless it came without one. It
lasts because an import retains its manifest before it submits and manifests are not
removed (`ManifestsGrow`), and the prefix that the tool has proved inherits it
(`ReportsOfPrefix`).

RebuiltCopyAudits adds `CopyInv`: what was pinned is the rows of a store as AuditInv
describes them, and stays so however the source moves on; the rebuild replays its whole log
under projector 3, and the migration leaves that projector either the rows it had or a copy of
projector 2's, which are exact for it as well. Then `ReadyIsClean` applies.

### Imports and backups (ImporterProofs)

`ImportStep` of an invocation is first reduced to entering, working inside, or leaving a
session, so that the lock gives mutual exclusion (`Sessions`). Then:

* *BoundPolicyCoversHistory* (`BoundInv`): somebody who works keeps everybody else's
  reports out, and its own requests pass the guard of the policy it is bound to.
* *OneSubjectPerScope* (`SubjectInv`): every mention in the log is one that some
  retained manifest plans, and the manifests have one association per scope. The
  second part is inductive because preparation reads all manifests, but only with
  `PlansSound`: what a plan contains, which is proved of `Planned` itself.
* *RetainedInOrder* (`OrderInv`): identifiers are unique in the log (a mint is unused, and
  nobody else's), so an entry that holds a planned request was submitted by its run; whoever
  works at request n has committed all before it (`Submitted`), although it may
  be resuming what another invocation began.
* *SubmittedMeansComplete* (`CompleteInv`): at the completion check the projector shows the
  whole log and `Linked` holds of every association. This takes the order above, stamps that
  do not go back and conflicts that are never committed (`LogKept`, which make the last cutoff
  cover the log), views that are replays in which reports have their rows (`Grounded`), and
  that each association of a manifest is already shown by the log or introduced by
  one of its requests (`PlansKnown`).

The last part is about the same properties when the store may vanish. `BackupInv` holds
of the store what can be said of any store (`Coherent`), and the same of the bundle once it
is sealed, because restoring makes it the store. The pieces that are only true
before a loss are conditional on there being no seal (`NeverLost`). A backup that is copying
owns the store, so that what it has copied is still what the store holds (`CopiesHold`).
`BackupOrder` does the same for the order of commits, and `BackupRead` for ReportsReadable:
with `Sourced`, the reader finds the report, its mention, its subject and the claims it
asks for in every view, and finds them consistent.

### Merkle map (MerkleProofs)

The invariant is short, `MapInv`: the tree is `TreeOf` the records held, and proofs are lists
of branches. The work is in what the operations do to such a tree.

1. *Groups.* A group of two or more keys splits at one bit, the first on which their routes
   differ (`SplitsSomewhere`, `SplitsOnce`), and its sides split later or not at all. `TreeAt`
   is the tree of a group: a branch at that bit over the trees of its sides (`TreeTwo`). So
   branches decide on later and later bits, `Nodes` is complete after Width levels, and every
   node of a map's tree is the tree of some group (`NodesAre`).
2. *Recursions.* Get, Put, Delete, Items and Prove recur over the nodes of whatever tree they
   are given. On a tree in which bits grow downwards all five have a solution
   (`ResultsExist`), hence satisfy their equations (`OperationsStep`).
3. *Operations.* Each statement about an operation is shown of a smallest group for
   which it might fail (`SmallestGroup`). `AfterPut` and `AfterDelete` say that the result
   is the tree of the changed group and that exactly the created nodes are reported
   (`Wrote`); a leaf beside a node (`BesideWrites`) and a branch over a changed side, which
   collapses when the side is emptied (`WithWrites`), are the two cases.
4. *Proofs.* The steps of a returned proof lead from the root to the leaf (`PathsLead`), and
   whatever verifies ends in a leaf that is a node of the root (`ProvenIsLeaf`), for any list
   of branches. That includes proofs taken long ago, of a tree that no longer is.

### Committed trees (CommittedProofs)

A projector keeps nine kinds of tree, three of them once per belief, and all their nodes lie
in one table. The two theorems say that nothing is lost between a delta and those rows, for
any number of entries and any recovery in between.

1. *Putting rows* (`PutsAll`, `PutsTable`). `_finish` puts row after row. By induction over
   the set of keys, the result is the tree of the map with those rows, and what it
   needs beyond the old tree's nodes is among the nodes created.
2. *What events write* (`AdmittedFits`). A put is only as good as its keys, and a
   belief's header only as good as the collections it names. `DeltaFits` says of each kind of
   admitted event that its rows have keys of their trees and that a belief's new
   row is its old one with exactly the candidates, mentions and events that
   `reduce_claims` adds to its collections. A transition also replaces candidates that
   ended, in the table and in the belief's collection; that both are replaced by the same
   rows needs the tables to be `Consistent`, as ReducerProofs shows them to be.
3. *One commit* (`CommittedHolds`). `TreesHeld` says that each tree, and each collection that a
   stored header names, is the tree of some finite map. Of such trees, the commit of an
   admitted entry gives trees that decode to the published tables, and every
   node they reach was reached before or is written. A header that the delta does not
   touch keeps its collections (`HeadersAfter`).
4. *The invariant.* `CommittedInv` says that the trees show the replay of the first
   `progress` entries (`TreesAt`), that these were admitted, and that the rows
   of an unpublished projector are absent. A publication is one commit, in which writing
   the changed roots alone makes all roots those of the new trees (`RootsPublished`); a
   recovery is a sequence of commits from nothing (`RecommittedShows`). Earlier
   versions' nodes are in the table too, but no claim is made of them.

### Not proved

* EverySessionEnds and EveryRecordEnds: liveness, beyond this prover.
* RejectedForCause: needs that no two plans, in whatever order they are committed, can
  obstruct each other except by the stated causes (see the plan).
* StoredTreesAudit, LostNodesAreReported: the verifier walks the stored nodes by a recursion
  of its own (`MembersOf`), which would have to be shown to agree with `Items` on every tree
  with and without a node; CommittedProofs has the trees they are about.
* DamageIsReported: needs that no damage to a row escapes all of the verifier's checks, one
  case for each kind of damage, and it holds only of forged values that no request has.

## 5. What is left out, and why

* Wording of text fields, verifiability and origin labels, JSON shape checks: no
  property distinguishes them. `projected_as_of` is outside every lineage hash.
* Redaction refuses in this revision, and so does `transition_dependencies` for
  records no code path writes. `upsert_belief` is called by tests only.
* Corruption of the database while the program runs: the checks that compare stored
  hashes (`_pending_events`, `_recorded_pair`, `_read_snapshot`) hold in every state of
  Store (LogVerifies, ViewIsReplay), so their refusals are not reachable steps there.
  Damage is what Verifier and TreeAudit are about.
* `init_db`'s comparison of table definitions, and the DDL of the migration: single
  transactions without a choice. The migration is one step of Transition: its table by
  table copy is one transaction on a file nobody else has open, so that a death inside it
  leaves the copy as it was and is a Stop.
* `immune.py`, `ids.py`, `timestamps.py`, `config.py`, `events.py`: shape checks and
  constants. `ordering.py` and `state_machine.py` are declared, not implemented.
  `cli.py` formats what the status reads say.
* Crash and replay campaigns, probes, `seed_store.py` and `check_docs.py`: drivers and
  measurements; what the campaigns drive is modelled.
* The extraction of literals from a document, Git objects, spans: an artifact is a
  scope, a content and the properties it states.
* The verifier's legacy replay (projector 0), its shape checks of each row, and what it
  reports as unchecked of every store, whatever is in it (`projected_as_of`, the
  collections and lineage that projector 1 does not have). A node
  that was only ever intermediate within one event, which neither a root nor a header
  refers to, can be lost without notice; LostNodesAreReported does not speak of it.
* The destination of a restore is not used before the restore has returned or died,
  and the transition tool's comparison of file digests, which a WAL checkpoint
  of an unchanged source also fails, is one of its Stops.
* Low-level `safe_append_event` is in Store and LegacyStore, but no session uses it.

## 6. Plan

1. RejectedForCause. Besides ImporterProofs: whoever appends shows the whole log; a plan's
   scopes come before their reports; the subjects, candidates and beliefs an import mints
   are nobody else's; and what an artifact states is stated once and is in
   the vocabulary it was planned under.
2. StoredTreesAudit, from CommittedProofs: the verifier's walk over the nodes of a tree of a
   map finds the map.
3. The verifier's replay of projector 0 over LegacyStore.
