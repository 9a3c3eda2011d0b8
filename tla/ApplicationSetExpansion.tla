------------------------ MODULE ApplicationSetExpansion ------------------------
(***************************************************************************)
(* GenerateApplications (applicationset.go): one ApplicationSet, expanded  *)
(* by the upstream controller's code over local stand-ins for what it      *)
(* would ask a cluster, an SCM provider or a repo-server.                  *)
(*                                                                         *)
(* The cluster secrets are read before the generators are called, and the  *)
(* pull requests when the first pullRequest generator is, which for the    *)
(* second generator of a matrix may be several calls later, or never.      *)
(* Somebody may edit that file in between (an edit of the other is before  *)
(* it is read or makes no difference).  A generator yields parameter sets, *)
(* and an Application is a row of them: one from each generator of a       *)
(* matrix, or the one it was made of.                                      *)
(***************************************************************************)
EXTENDS LocalInputs, TLC

CONSTANTS AppSets,       \* [generators, goTemplate] each
          ClustersFiles, \* what the clusters file may hold, sequences of Documents
          PullsFiles,    \* what the pull requests file may hold
          MaxEdits       \* how often somebody edits the latter meanwhile

(* A generator is
     [kind |-> "list", elements]         and git, over a checkout that stays as it is
     [kind |-> "clusters"]               with no selector
     [kind |-> "pullRequest", providers, filters, values]
     [kind |-> "remote"]                 one that cannot be rendered locally
     [kind |-> "matrix", generators]     two of those above (with any other number of
                                         them upstream fails, as "remote" does)
   goTemplate is "none", "go" or "strict" (with the option missingkey=error).  The keys of
   values are those under which the parameters are looked up without Go templates. *)

ParamNames == {"number", "branch", "labels"}

PlainGenerator(generator) ==
  /\ generator.kind \in {"list", "clusters", "pullRequest", "remote"}
  /\ generator.kind = "list" => Sequence(generator.elements)
  /\ generator.kind = "pullRequest" => DOMAIN generator.values \intersect ParamNames = {}

ASSUME AppSetAssumption ==
  \A set \in AppSets : Sequence(set.generators) /\ \A n \in DOMAIN set.generators :
    LET generator == set.generators[n]
    IN  \/ PlainGenerator(generator)
        \/ /\ generator.kind = "matrix"
           /\ Sequence(generator.generators) /\ Len(generator.generators) = 2
           /\ \A k \in 1 .. 2 : PlainGenerator(generator.generators[k])

ASSUME FileAssumption ==
  /\ \A contents \in ClustersFiles : Sequence(contents) /\ Range(contents) \subseteq Documents
  /\ \A contents \in PullsFiles : Sequence(contents) /\ \A n \in DOMAIN contents : Sequence(contents[n])
  /\ MaxEdits \in Nat

VARIABLES input,            \* the arguments: [appSet, hasClusters, hasPulls], the last two
                            \* whether the options name a file
          clustersFile, pullsFile, \* what the files hold now
          status,           \* "start", "generate", "ok", "error" or "panic"
          secrets,          \* in the client the cluster generator asks
          pulls, loaded,    \* the pullRequest generator's
          clustersUsed, pullRequestsUsed,
          agenda,           \* generators to call: [of, row, todo]
          apps, firstError, \* what upstream has generated, and whether something failed
          warnings,
          edits,            \* how often the file was edited
          pullsSeen,        \* history: what the pull requests file has held
          calls             \* history: the pullRequest generators called, with the result

appSet == input.appSet
hasClusters == input.hasClusters
hasPulls == input.hasPulls

files == <<clustersFile, pullsFile, edits, pullsSeen>>
pullRequestVars == <<pulls, loaded, pullRequestsUsed>>
vars == <<input, files, pullRequestVars, status, secrets, clustersUsed, agenda, apps,
          firstError, warnings, calls>>

Parts(generator) == IF generator.kind = "matrix" THEN generator.generators ELSE <<generator>>

Init ==
  /\ input \in [appSet : AppSets, hasClusters : BOOLEAN, hasPulls : BOOLEAN]
  /\ clustersFile \in ClustersFiles
  /\ pullsFile \in PullsFiles /\ pullsSeen = {pullsFile}
  /\ edits = 0 /\ status = "start" /\ secrets = <<>>
  /\ pulls = <<>> /\ loaded = FALSE /\ clustersUsed = FALSE /\ pullRequestsUsed = FALSE
  /\ agenda = [n \in DOMAIN appSet.generators |->
                 [of |-> n, row |-> <<>>, todo |-> Parts(appSet.generators[n])]]
  /\ apps = <<>> /\ firstError = FALSE /\ warnings = {} /\ calls = <<>>

-----------------------------------------------------------------------------
\* The client

AllSecrets == IF hasClusters THEN loadClusterSecrets(clustersFile) ELSE Read(<<>>)

DistinctNames(list) ==
  \A m, n \in DOMAIN list :
    list[m].name = list[n].name /\ list[m].namespace = list[n].namespace => m = n

LoadClusters ==
  /\ status = "start" /\ AllSecrets.ok /\ DistinctNames(AllSecrets.list)
  /\ secrets' = AllSecrets.list /\ status' = "generate"
  /\ UNCHANGED <<input, files, pullRequestVars, clustersUsed, agenda, apps, firstError,
                 warnings, calls>>

End(how) ==
  /\ status' = how
  /\ UNCHANGED <<input, files, pullRequestVars, secrets, clustersUsed, agenda, apps,
                 firstError, warnings, calls>>

RejectClusters == status = "start" /\ ~AllSecrets.ok /\ End("error")

\* The fake client panics when it is built with two objects of one name.
BuildPanics ==
  status = "start" /\ AllSecrets.ok /\ ~DistinctNames(AllSecrets.list) /\ End("panic")

-----------------------------------------------------------------------------
\* What generators yield

Element(e) == [from |-> "list", params |-> e]
Cluster(secret) == [from |-> "clusters", params |-> secret]
InCluster == Cluster([namespace |-> Namespace, name |-> "in-cluster", data |-> <<>>])
PullRequest(params) == [from |-> "pulls", params |-> params]

Renders(template, params, goTemplate) ==
  template \in DOMAIN params \/ goTemplate # "strict"
Replace(template, params) ==
  IF template \in DOMAIN params THEN params[template] ELSE "unresolved"

\* With Go templates the values are below one parameter, otherwise one parameter each.
WithValues(rendered, params, goTemplate) ==
  IF DOMAIN rendered = {} THEN params
  ELSE Merged(params, IF goTemplate = "none" THEN rendered ELSE [name \in {"values"} |-> rendered])

\* Mutant of appendValues: each value is added as soon as it is rendered.
AppendOneByOne(values, params, goTemplate) ==
  LET made == FoldSet(LAMBDA key, sofar : sofar @@ (key :> Replace(values[key], sofar)),
                      params, DOMAIN values)
  IN  WithValues([key \in DOMAIN values |-> made[key]], params, goTemplate)

appendValues(values, params, goTemplate) ==
  WithValues([key \in DOMAIN values |-> Replace(values[key], params)], params, goTemplate)

FormatInt(number) == ToString(number)

ParamsOf(pull, goTemplate) ==
  [name \in IF goTemplate = "none" THEN ParamNames \ {"labels"} ELSE ParamNames |->
     CASE name = "number" -> FormatInt(pull.number)
       [] name = "branch" -> pull.branch
       [] name = "labels" -> pull.labels]

Yield(params) == [ok |-> TRUE, params |-> params]
Failure == [ok |-> FALSE, params |-> <<>>]

GenerateParams(generator, mocks, goTemplate) ==
  LET selected == Selected(generator, mocks)
      params   == [n \in DOMAIN selected |-> ParamsOf(selected[n], goTemplate)]
      values   == generator.values
  IN  IF DOMAIN generator.providers = {}
         \/ \E n \in DOMAIN selected, key \in DOMAIN values :
              ~Renders(values[key], params[n], goTemplate)
      THEN Failure
      ELSE Yield([n \in DOMAIN selected |->
                    PullRequest(appendValues(values, params[n], goTemplate))])

-----------------------------------------------------------------------------
\* The calls

item == Head(agenda)
called == Head(item.todo)
Calling(kind) == status = "generate" /\ agenda # <<>> /\ called.kind = kind

Rows(result) == [n \in DOMAIN result |-> Append(item.row, result[n])]

\* The generator called has yielded result: rows that are complete become Applications,
\* the others go on to the next generator of the matrix.
Proceed(result) ==
  IF Len(item.todo) = 1
  THEN apps' = apps \o Rows(result) /\ agenda' = Tail(agenda)
  ELSE /\ agenda' = [n \in DOMAIN result |->
                       [item EXCEPT !.row = Rows(result)[n], !.todo = Tail(item.todo)]]
                      \o Tail(agenda)
       /\ UNCHANGED apps

OtherItems == OnlyAt({n \in DOMAIN agenda : agenda[n].of # item.of}, agenda)

\* A matrix is given up, and with it what it has made; the next generator is called.
GiveUp ==
  /\ firstError' = TRUE
  /\ agenda' = OtherItems
  /\ UNCHANGED apps

\* Mutant of Handle: what fails contributes nothing.
PassOver(result) ==
  IF result.ok THEN Proceed(result.params) /\ UNCHANGED firstError
  ELSE agenda' = OtherItems /\ UNCHANGED <<apps, firstError>>

Handle(result) ==
  IF result.ok THEN Proceed(result.params) /\ UNCHANGED firstError ELSE GiveUp

CallList ==
  /\ Calling("list")
  /\ Handle(Yield([n \in DOMAIN called.elements |-> Element(called.elements[n])]))
  /\ UNCHANGED <<input, files, pullRequestVars, status, secrets, clustersUsed, warnings, calls>>

\* Mutant of CallClusters: that it was asked is noted only if there were secrets.
CallClustersUnseen ==
  /\ Calling("clusters")
  /\ clustersUsed' = (secrets # <<>>)
  /\ Handle(Yield(<<InCluster>> \o [n \in DOMAIN secrets |-> Cluster(secrets[n])]))
  /\ UNCHANGED <<input, files, pullRequestVars, status, secrets, warnings, calls>>

CallClusters ==
  /\ Calling("clusters")
  /\ clustersUsed' = TRUE
  /\ Handle(Yield(<<InCluster>> \o [n \in DOMAIN secrets |-> Cluster(secrets[n])]))
  /\ UNCHANGED <<input, files, pullRequestVars, status, secrets, warnings, calls>>

CallRemote ==
  /\ Calling("remote")
  /\ Handle(Failure)
  /\ UNCHANGED <<input, files, pullRequestVars, status, secrets, clustersUsed, warnings, calls>>

\* The file is read once, but read again after it was rejected.
mockedPullRequests ==
  IF ~loaded /\ hasPulls
  THEN LET now == loadPullRequests(pullsFile)
       IN  [ok |-> now.ok, pulls |-> IF now.ok THEN now.list ELSE pulls, loaded |-> now.ok]
  ELSE [ok |-> TRUE, pulls |-> pulls, loaded |-> loaded]

CallPullRequest ==
  /\ Calling("pullRequest")
  /\ pullRequestsUsed' = TRUE
  /\ \E mocked \in {mockedPullRequests} :
       /\ pulls' = mocked.pulls /\ loaded' = mocked.loaded
       /\ \E result \in {IF mocked.ok THEN GenerateParams(called, mocked.pulls, appSet.goTemplate)
                          ELSE Failure} :
            /\ Handle(result)
            /\ calls' = IF result.ok
                        THEN Append(calls, [generator |-> called, params |-> result.params])
                        ELSE calls
  /\ UNCHANGED <<input, files, status, secrets, clustersUsed, warnings>>

\* The messages about a file that would have made a difference.
Warnings ==
  {w \in {"clusters"} : clustersUsed /\ ~hasClusters}
    \union {w \in {"pulls"} : pullRequestsUsed /\ ~hasPulls}

Return ==
  /\ status = "generate" /\ agenda = <<>> /\ ~firstError
  /\ status' = "ok" /\ warnings' = Warnings
  /\ UNCHANGED <<input, files, pullRequestVars, secrets, clustersUsed, agenda, apps,
                 firstError, calls>>

\* Upstream returns what it has along with the error; nothing of it is kept.
ReturnError ==
  /\ status = "generate" /\ agenda = <<>> /\ firstError
  /\ status' = "error" /\ apps' = <<>>
  /\ UNCHANGED <<input, files, pullRequestVars, secrets, clustersUsed, agenda, firstError,
                 warnings, calls>>

-----------------------------------------------------------------------------
\* Somebody saves the pull requests file.
Edit ==
  /\ status \in {"start", "generate"}
  /\ edits < MaxEdits /\ edits' = edits + 1
  /\ pullsFile' \in PullsFiles /\ pullsSeen' = pullsSeen \union {pullsFile'}
  /\ UNCHANGED <<input, clustersFile, pullRequestVars, status, secrets, clustersUsed, agenda,
                 apps, firstError, warnings, calls>>

ExpandStep ==
  \/ LoadClusters \/ RejectClusters \/ BuildPanics
  \/ CallList \/ CallClusters \/ CallRemote \/ CallPullRequest
  \/ Return \/ ReturnError

Next == ExpandStep \/ Edit

\* One thread expands; nobody has to edit anything.
Spec == Init /\ [][Next]_vars /\ WF_vars(ExpandStep)

-----------------------------------------------------------------------------
\* The contract

\* What one call yields, given versions of the files.
ResultOf(generator, goTemplate, held, list) ==
  CASE generator.kind = "list" ->
         Yield([n \in DOMAIN generator.elements |-> Element(generator.elements[n])])
    [] generator.kind = "clusters" ->
         Yield(<<InCluster>> \o [n \in DOMAIN list |-> Cluster(list[n])])
    [] generator.kind = "pullRequest" -> IF held.ok THEN GenerateParams(generator, held.list, goTemplate)
                                         ELSE Failure
    [] OTHER -> Failure

\* The rows of a generator, or of a matrix, the second of it varying fastest and not
\* called at all if the first yields nothing.
RowsOf(parts, goTemplate, held, list) ==
  LET first  == ResultOf(parts[1], goTemplate, held, list)
      second == ResultOf(parts[2], goTemplate, held, list)
  IN  IF ~first.ok \/ (Len(parts) = 2 /\ first.params # <<>> /\ ~second.ok)
      THEN Failure
      ELSE Yield(IF Len(parts) = 1
                 THEN [n \in DOMAIN first.params |-> <<first.params[n]>>]
                 ELSE FlattenSeq([m \in DOMAIN first.params |->
                        [n \in DOMAIN second.params |-> <<first.params[m], second.params[n]>>]]))

Expansion(set, held, list) ==
  LET results == [n \in DOMAIN set.generators |->
                    RowsOf(Parts(set.generators[n]), set.goTemplate, held, list)]
  IN  IF \A n \in DOMAIN results : results[n].ok
      THEN [how |-> "ok", apps |-> FlattenSeq([n \in DOMAIN results |-> results[n].params])]
      ELSE [how |-> "error", apps |-> <<>>]

Expected(arguments, held, heldClusters) ==
  LET list == IF arguments.hasClusters THEN loadClusterSecrets(heldClusters) ELSE Read(<<>>)
      all  == IF arguments.hasPulls THEN loadPullRequests(held) ELSE Read(<<>>)
  IN  CASE ~list.ok -> [how |-> "error", apps |-> <<>>]
        [] list.ok /\ ~DistinctNames(list.list) -> [how |-> "panic", apps |-> <<>>]
        [] OTHER      -> Expansion(arguments.appSet, all, list.list)

Pending == [how |-> "pending", apps |-> <<>>]

outcome == IF status \in {"start", "generate"} THEN Pending ELSE [how |-> status, apps |-> apps]

Contract == INSTANCE ExpansionContract

\* An expansion, calls and edits interleaved, has the outcome of one version of each
\* file: no Application is made of two, none is lost, and no failure is swallowed.
ImplementsContract == Contract!Spec

-----------------------------------------------------------------------------
\* Everything in a clusters file that is neither a list nor nothing, in the order it is there.
LeavesOf(leaves, doc) ==
  CASE doc.kind = "null"         -> <<>>
    [] doc.kind \in ListKinds    -> FlattenSeq([n \in DOMAIN doc.items |-> leaves[doc.items[n]]])
    [] doc.kind \notin ListKinds \union {"null"} -> <<doc>>
documentLeaves[doc \in Documents] == LeavesOf(documentLeaves, doc)

Leaves(contents) == FlattenSeq([n \in DOMAIN contents |-> documentLeaves[contents[n]]])

\* A secret the cluster generator can use, with every key it was written with.
IsSecretOf(secret, leaf) ==
  /\ leaf.kind \in {"", "Secret"} /\ leaf.labelled
  /\ secret.name = leaf.name /\ secret.namespace = Namespace
  /\ \A key \in DOMAIN leaf.stringData : secret.data[key] = leaf.stringData[key]
  /\ \A key \in DOMAIN leaf.data \ DOMAIN leaf.stringData : secret.data[key] = leaf.data[key]

\* "Every secret is moved into namespace so that the generator finds it": once the file
\* is accepted, whatever it holds, at whatever depth of its lists, is in the client.
\* (No cluster has two secrets of one name in one namespace.)
EverySecretFound ==
  hasClusters /\ status \notin {"start", "error"} /\ DistinctNames(Leaves(clustersFile)) =>
    /\ Len(secrets) = Len(Leaves(clustersFile))
    /\ \A n \in DOMAIN secrets : IsSecretOf(secrets[n], Leaves(clustersFile)[n])

\* That holds unless two secrets of different namespaces have one name.
EverySecretFoundUnlessNamesCollide ==
  IF status = "panic"
  THEN \E m, n \in DOMAIN Leaves(clustersFile) :
         m # n /\ Leaves(clustersFile)[m].name = Leaves(clustersFile)[n].name
  ELSE EverySecretFound

\* What the provider a generator uses would report to it.
IntendedFor(generator, pull) ==
  LET provider == FirstOf(ProviderOrder, generator.providers)
      used     == generator.providers[provider]
  IN  /\ pull.repo \in {"", used.repo}
      /\ provider \notin {"bitbucket", "bitbucketServer"} => used.labels \subseteq pull.labels
      /\ PassesFilters(generator, pull)

\* "The labels the provider itself filters on": every pullRequest generator reports the
\* pull requests meant for its repository, of one and the same version of the file.
EveryRepoItsPullRequests ==
  \E held \in pullsSeen : \A n \in DOMAIN calls :
    {calls[n].params[k].params["number"] : k \in DOMAIN calls[n].params} =
      {FormatInt(pull.number) :
         pull \in {pull \in Range(IF hasPulls THEN FlattenSeq(held) ELSE <<>>) :
                     IntendedFor(calls[n].generator, pull)}}

\* That holds for generators that configure one provider.
EveryRepoItsPullRequestsIfOneProvider ==
  (\A n \in DOMAIN calls : \E provider \in Range(ProviderOrder) :
     DOMAIN calls[n].generator.providers = {provider}) => EveryRepoItsPullRequests

\* "Every value is rendered against the parameters before any of them is added": what a
\* value is does not depend on the other values, nor on the order of a map.
ValuesFromParametersOnly ==
  \A n \in DOMAIN calls : \A k \in DOMAIN calls[n].params :
    LET params   == calls[n].params[k].params
        values   == calls[n].generator.values
        known    == IF appSet.goTemplate = "none" THEN ParamNames \ {"labels"} ELSE ParamNames
        Value(key) == IF appSet.goTemplate = "none" THEN params[key] ELSE params["values"][key]
    IN  \A key \in DOMAIN values :
          Value(key) = IF values[key] \in known THEN params[values[key]] ELSE "unresolved"

\* An expansion that a file might have changed, had one been named, says so.
WarnedWhenLess ==
  LET More(arguments, heldPulls, heldClusters) ==
        LET expected == Expected(arguments, heldPulls, heldClusters)
        IN  expected.how = "ok" /\ expected.apps # apps
  IN  status = "ok" =>
        /\ ~hasPulls /\ (\E held \in PullsFiles :
                           More([input EXCEPT !.hasPulls = TRUE], held, clustersFile))
             => "pulls" \in warnings
        /\ ~hasClusters /\ (\A heldPulls \in pullsSeen : \E held \in ClustersFiles :
                              More([input EXCEPT !.hasClusters = TRUE], heldPulls, held))
             => "clusters" \in warnings

=============================================================================
