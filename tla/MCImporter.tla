------------------------------ MODULE MCImporter ------------------------------
(***************************************************************************)
(* Two runs import two revisions of one artifact, under projectors 1 and   *)
(* 2; one of them also imports an artifact that states nothing, and its    *)
(* run identifier is used once more with other artifacts.  Another session *)
(* writes about the same subject, and another producer cites a mention of  *)
(* the wrong scope.                                                        *)
(***************************************************************************)
EXTENDS Importer

First  == [scope |-> "s1", blob |-> "x1", literals |-> <<"title">>]
Second == [scope |-> "s1", blob |-> "x2", literals |-> <<"title">>]
Silent == [scope |-> "s2", blob |-> "z1", literals |-> <<>>]

RunA == [run |-> "A", artifacts |-> <<First>>, version |-> "1"]
RunB == [run |-> "B", artifacts |-> <<Second, Silent>>, version |-> "2"]
Reused == [run |-> "B", artifacts |-> <<First>>, version |-> "2"]

TwoRuns == {RunA, RunB}
ThreeInvocations == {RunA, RunB, Reused}

Reports == [identity |-> "nyx.adr-reports", digest |-> "d1", properties |-> {"title"}]
Redefined == [Reports EXCEPT !.digest = "d2"]

Public == {First, Second, Silent}
Current == [definitions |-> {Reports}, admitted |-> {Reports}, inputs |-> {Public}]
Retired == [Current EXCEPT !.admitted = {}]
Narrowed == [Current EXCEPT !.inputs = {{First}}]
Replaced == [definitions |-> {Redefined}, admitted |-> {Redefined}, inputs |-> {Public}]
\* These three cannot be loaded.
Ambiguous == [Current EXCEPT !.definitions = {Reports, Redefined}]
Unresolved == [Current EXCEPT !.admitted = {Redefined}]
Unmatched == [Current EXCEPT !.inputs = {Public, {}}]

OneConfig == {Current}
AllConfigs == {Current, Retired, Narrowed, Replaced, Ambiguous, Unresolved, Unmatched}

OtherObservation(name, report, mention, subject) ==
  [id |-> <<<<"X", 0>>, "e", name, "-">>, type |-> "observation_recorded",
   occurred |-> 0, actor |-> "x", refs |-> {}, report |-> report,
   body |-> [mention |-> <<>>, subject |-> <<>>, text |-> "none",
             claims |-> <<[mention |-> mention, subject |-> subject, property |-> "title",
                           belief |-> <<<<"X", 0>>, "b", name, "-">>, candidate |-> <<<<"X", 0>>, "c", name, "-">>,
                           value |-> name]>>,
             targets |-> {}, belief |-> <<>>, basis |-> "none"]]

MentionOf(run, scope) == <<<<run, 0>>, "m", scope, "-">>
SubjectOf(run, scope) == <<<<run, 0>>, "s", scope, "-">>

\* An ordinary session establishes its own belief about the subject of run A.
Rival == OtherObservation("rival", {}, MentionOf("A", "s1"), SubjectOf("A", "s1"))

\* A bound producer reports on s1, citing the mention of s2.
Relabelled == OtherObservation("relabelled",
  {[vocabulary |-> Reports, artifact |-> First, scope |-> "s1", located |-> {<<<<"X", 0>>, "c", "relabelled", "-">>}]},
  MentionOf("B", "s2"), SubjectOf("B", "s2"))

Others == {Rival, Relabelled}
NoOthers == {}
=============================================================================
