------------------------------ MODULE LocalInputs ------------------------------
(***************************************************************************)
(* How the two files that stand in for a cluster and for an SCM provider   *)
(* are read: clusters.go, and the loading and selecting of pullrequests.go *)
(*                                                                         *)
(* A file is a sequence of YAML documents.  In a clusters file each is     *)
(*   [kind, namespace, name, labelled, data, stringData, items],           *)
(* with items for lists only; in a pull requests file each is a sequence   *)
(* of pull requests                                                        *)
(*   [repo, number, branch, labels, misspelt],                             *)
(* misspelt if it has a field that is none of a pull request's.            *)
(***************************************************************************)
EXTENDS Integers, SequencesExt

CONSTANTS Documents,  \* of clusters files, with everything in their lists
          Depth,      \* of each, how deep lists are nested in it: a text has an end
          Namespace   \* of the ApplicationSet, where Argo CD runs

Sequence(s) == s \in Seq(Range(s))

\* Kinds: "" if there is none, "null" an empty document, "broken" no YAML at all.
ASSUME DocumentAssumption ==
  /\ Depth \in [Documents -> Nat]
  /\ \A d \in Documents :
       /\ Sequence(d.items) /\ Range(d.items) \subseteq Documents
       /\ \A n \in DOMAIN d.items : Depth[d.items[n]] < Depth[d]

ListKinds == {"List", "SecretList"}   \* kinds that end in List

Read(list) == [ok |-> TRUE, list |-> list]
Rejected == [ok |-> FALSE, list |-> <<>>]

\* One rejected part rejects the whole.
Together(parts) ==
  IF \A n \in DOMAIN parts : parts[n].ok
  THEN Read(FlattenSeq([n \in DOMAIN parts |-> parts[n].list])) ELSE Rejected

\* What a sequence has at some places.
OnlyAt(places, list) ==
  FlattenSeq([n \in DOMAIN list |-> IF n \in places THEN <<list[n]>> ELSE <<>>])

\* One map laid over another.
Merged(over, under) ==
  [key \in DOMAIN over \union DOMAIN under |-> IF key \in DOMAIN over THEN over[key] ELSE under[key]]

-----------------------------------------------------------------------------
\* Cluster secrets

\* Mutant of mergeStringData: what the secret was exported with wins.
KeepData(data, stringData) == Merged(data, stringData)

mergeStringData(data, stringData) == Merged(stringData, data)

\* Every secret is moved to where the cluster generator looks.
ClusterSecret(doc) ==
  [namespace |-> Namespace, name |-> doc.name,
   data |-> mergeStringData(doc.data, doc.stringData)]

\* What a document holds, given what is read of those in its list.
SecretsOf(read, doc) ==
  CASE doc.kind = "null" -> Read(<<>>)
    [] doc.kind \in ListKinds -> Together([n \in DOMAIN doc.items |-> read[doc.items[n]]])
    [] doc.kind \in {"", "Secret"} /\ doc.labelled -> Read(<<ClusterSecret(doc)>>)
    [] OTHER -> Rejected

clusterSecretsFromDocument[doc \in Documents] == SecretsOf(clusterSecretsFromDocument, doc)

loadClusterSecrets(contents) ==
  Together([n \in DOMAIN contents |-> clusterSecretsFromDocument[contents[n]]])

-----------------------------------------------------------------------------
\* Pull requests

Valid(pull) == ~pull.misspelt /\ pull.number > 0 /\ pull.branch # ""

loadPullRequests(contents) ==
  Together([n \in DOMAIN contents |->
              IF \A k \in DOMAIN contents[n] : Valid(contents[n][k])
              THEN Read(contents[n]) ELSE Rejected])

\* A generator names its providers, [repo, labels] each, in "providers"; upstream and the
\* stand-in use the first of them in this order.
ProviderOrder ==
  <<"github", "gitlab", "gitea", "bitbucketServer", "bitbucket", "azuredevops">>

FirstOf(order, providers) ==
  LET set == {n \in DOMAIN order : order[n] \in DOMAIN providers}
  IN  IF set = {} THEN "none" ELSE order[CHOOSE n \in set : \A m \in set : n <= m]

pullRequestRepo(generator) ==
  generator.providers[FirstOf(ProviderOrder, generator.providers)].repo

\* Only four providers filter by labels, and only they are looked at.
pullRequestLabels(generator) ==
  LET provider == FirstOf(<<"github", "gitlab", "gitea", "azuredevops">>, generator.providers)
  IN  IF provider = "none" THEN {} ELSE generator.providers[provider].labels

\* Mutant of Reported: a pull request that names no repository is reported for none.
ReportedOnlyByName(generator, pull) ==
  /\ pull.repo = pullRequestRepo(generator)
  /\ pullRequestLabels(generator) \subseteq pull.labels

\* What the provider would report (newMockPullRequestService).
Reported(generator, pull) ==
  /\ pull.repo \in {"", pullRequestRepo(generator)}
  /\ pullRequestLabels(generator) \subseteq pull.labels

\* What ListPullRequests lets through: everything, or what one of the filters matches.
PassesFilters(generator, pull) ==
  generator.filters = {} \/ \E matching \in generator.filters : pull.branch \in matching

Selected(generator, pulls) ==
  OnlyAt({n \in DOMAIN pulls : Reported(generator, pulls[n]) /\ PassesFilters(generator, pulls[n])},
         pulls)
=============================================================================
