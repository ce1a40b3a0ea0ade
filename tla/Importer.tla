------------------------------- MODULE Importer -------------------------------
(***************************************************************************)
(* The report importer: invocations of the import command.  One loads the  *)
(* deployment's policy, opens the store, publishes what is pending, plans  *)
(* all requests of its run, retains them in a manifest file beside the     *)
(* store, submits them one by one and checks that they are all published.  *)
(* A manifest that is already there is resumed, never planned again.  A    *)
(* process may die between any two transactions or file operations.        *)
(*                                                                         *)
(* Identifiers are minted as tuples that name their minter, a run and a    *)
(* serial, and what they are for.  An identifier that died with its        *)
(* process before it was retained was never seen, so minting it again is   *)
(* the same as minting another; one that is in the log is not minted again *)
(* although the manifest that retained it was lost.                        *)
(***************************************************************************)
EXTENDS ReportPolicy, SequencesExt

CONSTANTS
  Invocations,   \* [run, artifacts, version]; a run may be invoked differently
  Serials,       \* bound: how often a run may be planned
  MaxCrashes

\* An invocation names distinct artifacts: prepare_artifacts refuses others.  No
\* blob is the mark "-" of what is minted for a scope.
ASSUME ArtifactAssumption ==
  \A i \in Invocations :
    /\ i.artifacts \in Seq(ToSet(i.artifacts))
    /\ \A k \in DOMAIN i.artifacts : i.artifacts[k].blob # "-"
    /\ \A k, l \in DOMAIN i.artifacts :
         i.artifacts[k].scope = i.artifacts[l].scope /\ i.artifacts[k].blob = i.artifacts[l].blob => k = l

\* selected: reports are for projectors 1 and 2.  What a content states is a sequence.
ASSUME SelectionAssumption ==
  \A i \in Invocations :
    /\ i.version \in ReportVersions
    /\ \A k \in DOMAIN i.artifacts : i.artifacts[k].literals \in Seq(ToSet(i.artifacts[k].literals))

\* Only the importer gives report scopes their mentions.
ASSUME ProducerAssumption ==
  \A r \in Requests : r.type = "entity_mention_recorded" => r.report = {}

\* new_event_id never mints what somebody else has minted.
ASSUME IdentifierAssumption ==
  \A r \in Requests, i \in Invocations, n \in Serials : r.id[1] # <<i.run, n>>

VARIABLES
  manifests,   \* run -> {} or {its retained manifest}
  at,          \* where each invocation is
  owner,       \* {} or {the owner of the store}
  bound,       \* invocation -> {} or {its policy}
  cutoff,      \* invocation -> as_of of its current materialize_pending
  next,        \* invocation -> the request it submits next
  crashes

importVars == <<manifests, at, owner, bound, cutoff, next, crashes>>
allVars == <<log, view, progress, latest, subjectOf, clock,
             manifests, at, owner, bound, cutoff, next, crashes>>

Ended == {"completed", "refused", "unprepared", "rejected", "incomplete"}

ImportRuns == {i.run : i \in Invocations}

ImportInit ==
  /\ Init
  /\ manifests = [run \in ImportRuns |-> {}]
  /\ at = [i \in Invocations |-> "idle"]
  /\ owner = {}
  /\ bound = [i \in Invocations |-> {}]
  /\ cutoff = [i \in Invocations |-> 0]
  /\ next = [i \in Invocations |-> 1]
  /\ crashes = 0

Goes(i, from, to) == at[i] = from /\ at' = [at EXCEPT ![i] = to]

\* What a process knows goes with it.
Forgets(i) ==
  /\ bound' = [bound EXCEPT ![i] = {}]
  /\ cutoff' = [cutoff EXCEPT ![i] = 0]

\* The connection is closed.
Closes(i, from, to) ==
  /\ Goes(i, from, to)
  /\ Forgets(i)
  /\ owner' = {}
  /\ next' = [next EXCEPT ![i] = 1]

-----------------------------------------------------------------------------
(***************************************************************************)
(* Deployment.                                                             *)
(***************************************************************************)
\* ReportDeployment: the policy is loaded, and the history inspected, before the
\* store is owned.
Deploy(i) ==
  /\ Goes(i, "idle", "bound")
  /\ \E config \in Configs :
       /\ Loadable(config)
       /\ HistoryDefined(config)
       /\ bound' = [bound EXCEPT ![i] = {Loaded(config)}]
  /\ UNCHANGED <<vars, manifests, owner, cutoff, next, crashes>>

\* Mutant of OpenWriter: the history is not inspected again.
OpenWriterOnce(i) ==
  /\ Goes(i, "bound", "opened")
  /\ owner = {}
  /\ owner' = {i}
  /\ next' = [next EXCEPT ![i] = 1]
  /\ UNCHANGED <<vars, manifests, bound, cutoff, crashes>>

\* Mutant of OpenWriter: a run that died goes on after the request it was at.
OpenWriterBehind(i) ==
  /\ Goes(i, "bound", "opened")
  /\ owner = {}
  /\ \A policy \in bound[i] : HistoryDefined(policy)
  /\ owner' = {i}
  /\ next' = [next EXCEPT ![i] = IF crashes > 0 THEN @ + 1 ELSE 1]
  /\ UNCHANGED <<vars, manifests, bound, cutoff, crashes>>

OpenWriter(i) ==
  /\ Goes(i, "bound", "opened")
  /\ owner = {}
  /\ \A policy \in bound[i] : HistoryDefined(policy)
  /\ owner' = {i}
  /\ next' = [next EXCEPT ![i] = 1]
  /\ UNCHANGED <<vars, manifests, bound, cutoff, crashes>>

\* The history has moved past the policy since it was loaded.
OpenRefused(i) ==
  /\ Closes(i, "bound", "refused")
  /\ owner = {}
  /\ \E policy \in bound[i] : ~HistoryDefined(policy)
  /\ UNCHANGED <<vars, manifests, crashes>>

-----------------------------------------------------------------------------
(***************************************************************************)
(* Publication.                                                            *)
(***************************************************************************)
LiveAsOf == IF log # <<>> /\ log[Len(log)].recorded > clock THEN log[Len(log)].recorded ELSE clock

Samples(i) == cutoff' = [cutoff EXCEPT ![i] = LiveAsOf]

PublishOne(i) ==
  /\ at[i] \in {"draining", "before", "after", "finishing"}
  /\ PublishNext(i.version, cutoff[i])
  /\ UNCHANGED importVars

\* Nothing is pending any more at the cutoff.
PublishDone(i) ==
  /\ PublishNothing(i.version, cutoff[i])
  /\ \/ Goes(i, "draining", "preparing") /\ UNCHANGED next
     \/ Goes(i, "before", "appending") /\ UNCHANGED next
     \/ Goes(i, "after", "resuming") /\ next' = [next EXCEPT ![i] = @ + 1]
     \/ Goes(i, "finishing", "checking") /\ UNCHANGED next
  /\ UNCHANGED <<manifests, owner, bound, cutoff, crashes>>

-----------------------------------------------------------------------------
(***************************************************************************)
(* Preparation.                                                            *)
(***************************************************************************)
Minted(minter, kind, scope, property) == <<minter, kind, scope, property>>

\* The serials under which nothing in the log was minted for the run of i.
Unused(i) == {n \in Serials : \A j \in DOMAIN log : log[j].req.id[1] # <<i.run, n>>}

\* Invocation i when it mints under serial n.
Minting(i, n) == [run |-> <<i.run, n>>, artifacts |-> i.artifacts, version |-> i.version]

RetainedManifests == UNION {manifests[run] : run \in ImportRuns}

RetainedAssociations == UNION {m.associations : m \in RetainedManifests}

\* _association: the mention, its link and its subject are published, for the scope.
Associated(v, a) ==
  /\ a.mention \in DOMAIN view[v].links
  /\ view[v].links[a.mention].subject = a.subject
  /\ TextOf(v, a.mention) = a.scope
  /\ a.subject \in DOMAIN view[v].entities
  /\ view[v].entities[a.subject].mention = a.mention

\* Mutant of RetentionSound: associations not yet published are relied upon.
RetentionUnchecked(v) == TRUE

\* Mutant of RetentionSound: the log is not compared with the manifests.
RetentionOfManifests(v) ==
  /\ \A a, b \in RetainedAssociations : a.scope = b.scope => a = b
  /\ \A a \in RetainedAssociations : Associated(v, a)

\* _retained: no scope has two associations, all of them are published under v, and
\* every report mention in the log is one of them.
RetentionSound(v) ==
  /\ \A a, b \in RetainedAssociations : a.scope = b.scope => a = b
  /\ \A a \in RetainedAssociations : Associated(v, a)
  /\ \A k \in DOMAIN log :
       log[k].req.type = "entity_mention_recorded" =>
         \A p \in log[k].req.report :
           [scope |-> p.scope, mention |-> log[k].req.body.mention,
            subject |-> log[k].req.body.subject] \in RetainedAssociations

\* Mutant of AssociationOf: every run mints its own.
AssociationMinted(minter, scope) ==
  [scope |-> scope, mention |-> Minted(minter, "m", scope, "-"), subject |-> Minted(minter, "s", scope, "-")]

\* The association of a scope: the retained one, or a new one.
AssociationOf(minter, scope) ==
  LET known == {a \in RetainedAssociations : a.scope = scope}
  IN  IF known # {} THEN CHOOSE a \in known : TRUE
      ELSE [scope |-> scope, mention |-> Minted(minter, "m", scope, "-"), subject |-> Minted(minter, "s", scope, "-")]

ReportOf(policy, artifact, located) ==
  {[vocabulary |-> vocabulary, artifact |-> artifact, scope |-> artifact.scope, located |-> located] :
     vocabulary \in Declarations(policy)}

BootstrapRequest(i, policy, a, artifact) ==
  [id |-> Minted(i.run, "e", artifact.scope, "-"), type |-> "entity_mention_recorded",
   occurred |-> clock, actor |-> "adr-importer", refs |-> {{a.subject}},
   report |-> ReportOf(policy, artifact, {}),
   body |-> [mention |-> a.mention, subject |-> a.subject, text |-> artifact.scope,
             claims |-> <<>>, targets |-> {}, belief |-> <<>>, basis |-> "none"]]

\* The claim of a literal names the current belief of its scope, or else a belief
\* that the run mints once for all of its artifacts.
LiteralClaim(i, a, artifact, property) ==
  LET current == CurrentBeliefs(view[i.version], <<a.subject, property>>)
  IN  [mention |-> a.mention, subject |-> a.subject, property |-> property,
       belief |-> IF current # {} THEN CHOOSE b \in current : TRUE ELSE Minted(i.run, "b", artifact.scope, property),
       candidate |-> Minted(i.run, "c", <<artifact.scope, artifact.blob>>, property), value |-> artifact.blob]

ReportRequest(i, policy, a, artifact) ==
  LET claims == [k \in DOMAIN artifact.literals |-> LiteralClaim(i, a, artifact, artifact.literals[k])] IN
  [id |-> Minted(i.run, "e", artifact.scope, artifact.blob), type |-> "observation_recorded",
   occurred |-> clock, actor |-> "adr-importer", refs |-> {{a.subject}},
   report |-> ReportOf(policy, artifact, {claims[k].candidate : k \in DOMAIN claims}),
   body |-> [mention |-> <<>>, subject |-> <<>>, text |-> "none",
             claims |-> claims, targets |-> {}, belief |-> <<>>, basis |-> "none"]]

\* The requests of the k-th artifact: a mention if its scope is new to the store
\* and to the run, and an observation if it states anything.
RequestsOf(i, policy, k) ==
  LET artifact == i.artifacts[k]
      a     == AssociationOf(i.run, artifact.scope)
      fresh == /\ a \notin RetainedAssociations
               /\ \A j \in 1..(k - 1) : i.artifacts[j].scope # artifact.scope
  IN  (IF fresh THEN <<BootstrapRequest(i, policy, a, artifact)>> ELSE <<>>)
      \o (IF artifact.literals # <<>> THEN <<ReportRequest(i, policy, a, artifact)>> ELSE <<>>)

Planned(i, policy) ==
  [version      |-> i.version,
   associations |-> {AssociationOf(i.run, i.artifacts[k].scope) : k \in DOMAIN i.artifacts},
   requests     |-> FlattenSeq([k \in DOMAIN i.artifacts |-> RequestsOf(i, policy, k)])]

\* The artifacts of a retained manifest are those of this invocation, except that
\* one that states nothing need not appear in any request.
SameArtifacts(i, m) ==
  LET observed == {p.artifact : p \in UNION {m.requests[k].report : k \in DOMAIN m.requests}}
      expected == ToSet(i.artifacts)
  IN  /\ observed \subseteq expected
      /\ {artifact \in expected : artifact.literals # <<>>} \subseteq observed
      /\ {a.scope : a \in m.associations} = {artifact.scope : artifact \in expected}

\* Every artifact is one of the reviewed public inputs.
Reviewed(i) == \A policy \in bound[i] : ToSet(i.artifacts) \subseteq policy.artifacts

\* The command is run to prepare: a manifest that is already there is compared,
\* otherwise what is pending is published first.
BeginPreparing(i) ==
  /\ Goes(i, "opened", IF manifests[i.run] = {} THEN "draining" ELSE "preparing")
  /\ Samples(i)
  /\ UNCHANGED <<vars, manifests, owner, bound, next, crashes>>

\* The manifest reaches its place by one rename, complete or not at all.
Prepare(i) ==
  /\ Goes(i, "preparing", "resuming")
  /\ Reviewed(i)
  /\ manifests[i.run] = {}
  /\ RetentionSound(i.version)
  /\ Unused(i) # {}
  /\ \E policy \in bound[i] :
       /\ Declarations(policy) # {}
       /\ \E n \in {CHOOSE n \in Unused(i) : TRUE} :
            manifests' = [manifests EXCEPT ![i.run] = {Planned(Minting(i, n), policy)}]
  /\ UNCHANGED <<vars, owner, bound, cutoff, next, crashes>>

PrepareRetained(i) ==
  /\ Goes(i, "preparing", "resuming")
  /\ Reviewed(i)
  /\ \E m \in manifests[i.run] : m.version = i.version /\ SameArtifacts(i, m)
  /\ UNCHANGED <<vars, manifests, owner, bound, cutoff, next, crashes>>

PrepareRefused(i) ==
  /\ Closes(i, "preparing", "unprepared")
  /\ \/ ~Reviewed(i)
     \/ manifests[i.run] = {} /\ ~RetentionSound(i.version)
     \/ manifests[i.run] = {} /\ \E policy \in bound[i] : Declarations(policy) = {}
     \/ \E m \in manifests[i.run] : ~(m.version = i.version /\ SameArtifacts(i, m))
  /\ UNCHANGED <<vars, manifests, crashes>>

-----------------------------------------------------------------------------
(***************************************************************************)
(* Submission.                                                             *)
(***************************************************************************)
\* The command is run with --resume.
Resume(i) ==
  /\ Goes(i, "opened", "resuming")
  /\ \E m \in manifests[i.run] : m.version = i.version
  /\ UNCHANGED <<vars, manifests, owner, bound, cutoff, next, crashes>>

\* The request submitted next: {r}, or {} when all of them were.
Due(i) == {m.requests[next[i]] : m \in {x \in manifests[i.run] : next[i] <= Len(x.requests)}}

SubmitNext(i) ==
  /\ Goes(i, "resuming", "before")
  /\ Due(i) # {}
  /\ Samples(i)
  /\ UNCHANGED <<vars, manifests, owner, bound, next, crashes>>

\* The row found under the request's identities, if there is one, is its own.
Committed(r) == \E k \in DOMAIN log : Retained(r) = {k} /\ log[k].req = r

\* The policy admits the request, or nobody asks.
Admitted(i, r) == Retained(r) = {} /\ Guard(bound[i], i.version, r)

\* The clock is not too far behind the tip.
InStep(reading) == AssignedStamp - reading <= Threshold

SubmitNew(i) ==
  /\ Goes(i, "appending", "after")
  /\ \E r \in Due(i) : Admitted(i, r) /\ AppendSubmission(i.version, r)
  /\ UNCHANGED <<manifests, owner, bound, cutoff, next, crashes>>

\* A committed request is answered before any policy is asked.
SubmitRetried(i) ==
  /\ Goes(i, "appending", "after")
  /\ \E r \in Due(i) : Committed(r)
  /\ UNCHANGED <<vars, manifests, owner, bound, cutoff, next, crashes>>

SubmitRefused(i) ==
  /\ Closes(i, "appending", "rejected")
  /\ \E r \in Due(i) :
       \/ Retained(r) # {} /\ ~Committed(r)
       \/ Retained(r) = {} /\ ~Guard(bound[i], i.version, r)
       \/ Admitted(i, r) /\ InStep(clock) /\ ~Appendable(i.version, Assign(r))
  /\ UNCHANGED <<vars, manifests, crashes>>

\* ClockSkewError at either sample; the command is run again.
SubmitSkewed(i) ==
  /\ Closes(i, "appending", "idle")
  /\ clock' \in Clock
  /\ \E r \in Due(i) :
       /\ Admitted(i, r)
       /\ ~InStep(clock) \/ (Appendable(i.version, Assign(r)) /\ ~InStep(clock'))
  /\ UNCHANGED <<log, view, progress, latest, subjectOf, manifests, crashes>>

\* Mutant of Finish: the last publication uses the cutoff of the last submission.
FinishAtOldCutoff(i) ==
  /\ Goes(i, "resuming", "finishing")
  /\ Due(i) = {}
  /\ UNCHANGED <<vars, manifests, owner, bound, cutoff, next, crashes>>

\* All were submitted: publish up to a tip recorded after the last cutoff.
Finish(i) ==
  /\ Goes(i, "resuming", "finishing")
  /\ Due(i) = {}
  /\ Samples(i)
  /\ UNCHANGED <<vars, manifests, owner, bound, next, crashes>>

\* Request r is committed and each of its claims is published, as it claimed it and
\* resting on r alone.
Imported(v, r) ==
  /\ Committed(r)
  /\ \A k \in DOMAIN r.body.claims :
       LET c == r.body.claims[k] IN
       /\ c.candidate \in DOMAIN view[v].candidates
       /\ view[v].candidates[c.candidate].claim = c
       /\ view[v].candidates[c.candidate].event = r.id

\* check_completion.
Complete(v, m) ==
  /\ progress[v] = Len(log)
  /\ \A a \in m.associations : Associated(v, a)
  /\ \A k \in DOMAIN m.requests : Imported(v, m.requests[k])

CheckCompletion(i) ==
  /\ \E m \in manifests[i.run] :
       Closes(i, "checking", IF Complete(i.version, m) THEN "completed" ELSE "incomplete")
  /\ UNCHANGED <<vars, manifests, crashes>>

-----------------------------------------------------------------------------
\* The process dies; the lock goes with it, the manifest stays.
Dies(i) ==
  /\ at[i] \notin {"idle"} \cup Ended
  /\ crashes < MaxCrashes
  /\ crashes' = crashes + 1
  /\ at' = [at EXCEPT ![i] = "idle"]
  /\ owner' = owner \ {i}
  /\ Forgets(i)
  /\ UNCHANGED <<vars, manifests, next>>

\* Other sessions, of which those that submit reports are bound to a policy.
OtherAppends(v, r) ==
  /\ owner = {}
  /\ \/ r.report = {}
     \/ \E config \in Configs : Loadable(config) /\ HistoryDefined(config) /\ Authorizes(Loaded(config), v, r)
  /\ AppendSubmission(v, r)
  /\ UNCHANGED importVars

OtherPublishes(v) ==
  /\ owner = {}
  /\ PublishNext(v, LiveAsOf)
  /\ UNCHANGED importVars

ImportStep(i) ==
  \/ Deploy(i) \/ OpenWriter(i) \/ OpenRefused(i)
  \/ PublishOne(i) \/ PublishDone(i)
  \/ BeginPreparing(i) \/ Prepare(i) \/ PrepareRetained(i) \/ PrepareRefused(i)
  \/ Resume(i) \/ SubmitNext(i) \/ SubmitNew(i) \/ SubmitRetried(i) \/ SubmitRefused(i)
  \/ SubmitSkewed(i) \/ Finish(i) \/ CheckCompletion(i)

ImportNext ==
  \/ \E i \in Invocations : ImportStep(i) \/ Dies(i)
  \/ \E v \in ReportVersions, r \in Requests : OtherAppends(v, r)
  \/ \E v \in ReportVersions : OtherPublishes(v)
  \/ ClockMoves /\ UNCHANGED importVars

ImportSpec == ImportInit /\ [][ImportNext]_allVars
-----------------------------------------------------------------------------
(***************************************************************************)
(* Properties.                                                             *)
(***************************************************************************)
\* A scope has one subject for ever, whoever imported it first, died, and was
\* resumed before or after others were prepared: the retained associations never
\* disagree, and neither do the mentions in the log.
OneSubjectPerScope ==
  LET recorded == {[scope |-> log[k].req.body.text, mention |-> log[k].req.body.mention,
                    subject |-> log[k].req.body.subject] :
                      k \in {j \in DOMAIN log : /\ log[j].req.type = "entity_mention_recorded"
                                                /\ log[j].req.report # {}}}
  IN  /\ recorded \subseteq RetainedAssociations
      /\ \A a, b \in RetainedAssociations : a.scope = b.scope => a = b

\* A policy that is bound to an open store has the definition of every vocabulary
\* in the log: nobody can append under another policy in between.
BoundPolicyCoversHistory ==
  \A i \in owner : \A policy \in bound[i] : HistoryDefined(policy)

\* An import that submitted all of its requests is never told it is incomplete,
\* whatever the clock did after the last cutoff was read.
SubmittedMeansComplete == \A i \in Invocations : at[i] # "incomplete"

\* A manifest is committed from its first request on and in its order, without a gap
\* and without a repetition, however often its run died and was resumed.
RetainedInOrder ==
  \A m \in RetainedManifests :
    LET positions(k) == {j \in DOMAIN log : log[j].req = m.requests[k]}
        committed    == {k \in DOMAIN m.requests : positions(k) # {}}
    IN  /\ committed = 1..Cardinality(committed)
        /\ \A k, l \in committed : k < l => \A p \in positions(k), q \in positions(l) : p < q
        /\ \A k \in committed : Cardinality(positions(k)) = 1

\* A retained run is rejected for one of two reasons only: its policy does not admit
\* a request that is still to be committed, or somebody else has meanwhile
\* established a belief for a scope for which the run had planned its own.
RejectedForCause ==
  [][\A i \in Invocations : at[i] # "rejected" /\ at'[i] = "rejected" =>
       \E r \in Due(i) :
         \/ \E policy \in bound[i], p \in r.report : p.vocabulary \notin policy.admitted \/ p.artifact \notin policy.artifacts
         \/ \E k \in DOMAIN r.body.claims :
              CurrentBeliefs(view[i.version], ScopeOf(r.body.claims[k])) \ {r.body.claims[k].belief} # {}]_allVars
=============================================================================
