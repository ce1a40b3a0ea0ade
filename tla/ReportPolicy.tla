----------------------------- MODULE ReportPolicy -----------------------------
(***************************************************************************)
(* Reports: events that say what a pinned public artifact stated, the      *)
(* deployment policy that admits them, and the reader of their details.    *)
(*                                                                         *)
(* A request carries report = {}, or {p} when its source.config declares   *)
(* a vocabulary, with p = [vocabulary, artifact, scope, located]: the      *)
(* declaration, the artifact, the subject scope it claims, the candidates  *)
(* it locates in the text.  An artifact is [scope, blob, literals]: the    *)
(* scope of its repository and path, its pinned content, and the sequence  *)
(* of properties that content states.  The body of a mention has a text.   *)
(*                                                                         *)
(* Not here: JSON and Git syntax, spans, and the one extractor, kind and   *)
(* origin there is; a request that is malformed in one of these is refused *)
(* before it reaches the store.                                            *)
(***************************************************************************)
EXTENDS Store

CONSTANTS
  Configs    \* configuration directories a deployment may be started with

ReportVersions == {"1", "2"}

-----------------------------------------------------------------------------
(***************************************************************************)
(* Policies.  A configuration is [definitions, admitted, inputs]: inputs   *)
(* are its public entries, each as the set of artifacts its prefix matches *)
(* at its commit.  A vocabulary is [identity, digest, properties].         *)
(***************************************************************************)
\* There are definitions, and no identity has two of them.
Unambiguous(config) ==
  /\ config.definitions # {}
  /\ \A d, e \in config.definitions : d.identity = e.identity => d = e

\* Every admitted declaration has its definition.
Resolved(config) == config.admitted \subseteq config.definitions

\* Every public entry matches something.
Matched(config) == {} \notin config.inputs

\* _load_policy: all of the configuration, or nothing.
Loadable(config) == Unambiguous(config) /\ Resolved(config) /\ Matched(config)

Loaded(config) ==
  [definitions |-> config.definitions, admitted |-> config.admitted, artifacts |-> UNION config.inputs]

\* Every declaration in the log has its definition in the policy.
HistoryDefined(policy) ==
  \A i \in DOMAIN log : \A p \in log[i].req.report : p.vocabulary \in policy.definitions

\* The one vocabulary that producers of this revision declare.
Declarations(policy) == {d \in policy.admitted : d.identity = "nyx.adr-reports"}

-----------------------------------------------------------------------------
(***************************************************************************)
(* Admission.                                                              *)
(***************************************************************************)
TextOf(v, m) == view[v].events[view[v].links[m].event].body.text

\* Mutant of NamesScope: any published mention will do.
NamesAnyScope(v, c, scope) == c.mention \in DOMAIN view[v].links

\* The claim's mention is published, with this scope as its text, for its subject.
NamesScope(v, c, scope) ==
  /\ c.mention \in DOMAIN view[v].links
  /\ TextOf(v, c.mention) = scope
  /\ view[v].links[c.mention].subject = c.subject

Authorizes(policy, v, r) ==
  /\ v \in ReportVersions
  /\ \E p \in r.report :
       /\ p.vocabulary \in policy.admitted
       /\ p.artifact \in policy.artifacts
       /\ p.scope = p.artifact.scope
       /\ \/ /\ r.type = "entity_mention_recorded"
             /\ p.located = {}
             /\ r.body.text = p.scope
          \/ /\ r.type = "observation_recorded"
             /\ r.body.claims # <<>>
             /\ \A i \in DOMAIN r.body.claims :
                  /\ r.body.claims[i].property \in p.vocabulary.properties
                  /\ NamesScope(v, r.body.claims[i], p.scope)
             /\ \A i, j \in DOMAIN r.body.claims :
                  r.body.claims[i].candidate = r.body.claims[j].candidate => i = j
             /\ p.located = {r.body.claims[i].candidate : i \in DOMAIN r.body.claims}

\* The guard of both append paths.  A connection has bound = {} or {its policy}.
Guard(bound, v, r) == \A policy \in bound : Authorizes(policy, v, r)

-----------------------------------------------------------------------------
(***************************************************************************)
(* The reader.                                                             *)
(***************************************************************************)
\* A supporting event of a published record: in the published prefix, and stored
\* in the projector's tables as it is in the log.
Published(v, id) ==
  /\ id \in DOMAIN view[v].events
  /\ \E i \in 1..progress[v] : log[i].req.id = id /\ log[i].req = view[v].events[id]

\* _detail: the report details of candidate c can be given.
Detailed(v, c) ==
  LET row == view[v].candidates[c]  claim == row.claim  r == view[v].events[row.event] IN
  /\ Published(v, row.event)
  /\ r.type = "observation_recorded"
  /\ \E i \in DOMAIN r.body.claims : r.body.claims[i] = claim
  /\ \E p \in r.report :
       /\ c \in p.located
       /\ claim.mention \in DOMAIN view[v].links
       /\ claim.subject \in DOMAIN view[v].entities
       /\ view[v].links[claim.mention].subject = claim.subject
       /\ view[v].entities[claim.subject].mention = claim.mention
       /\ view[v].entities[claim.subject].event = view[v].links[claim.mention].event
       /\ Published(v, view[v].links[claim.mention].event)
       /\ TextOf(v, claim.mention) = p.scope
       /\ p.scope = p.artifact.scope
  /\ claim.belief \in DOMAIN view[v].beliefs
  /\ ScopeOf(view[v].beliefs[claim.belief]) = ScopeOf(claim)
  /\ c \in DOMAIN view[v].beliefs[claim.belief].candidates
  /\ view[v].beliefs[claim.belief].candidates[c] = row

\* Every report that was admitted and published can be read with its details:
\* no combination of imports, other producers and projectors leaves one whose
\* mention, subject, belief or event does not belong to it.
ReportsReadable ==
  \A v \in ReportVersions : \A c \in DOMAIN view[v].candidates :
    view[v].events[view[v].candidates[c].event].report # {} => Detailed(v, c)
=============================================================================
