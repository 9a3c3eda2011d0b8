----------------------- MODULE MCApplicationSetExpansion -----------------------
(***************************************************************************)
(* Small ApplicationSets, clusters files and pull requests files.          *)
(***************************************************************************)
EXTENDS ApplicationSetExpansion

Doc(kind) == [kind |-> kind, namespace |-> "argocd", name |-> "", labelled |-> FALSE,
              data |-> <<>>, stringData |-> <<>>, items |-> <<>>]
Secret(name) == [Doc("Secret") EXCEPT !.name = name, !.labelled = TRUE,
                                      !.data = "server" :> "exported"]
Written(name) == [Secret(name) EXCEPT !.kind = "", !.stringData = "server" :> "written"]
ListOf(items) == [Doc("List") EXCEPT !.items = items]

East == Secret("east")
West == Written("west")
Inner == ListOf(<<Doc("null"), West>>)
Outer == [ListOf(<<East, Inner>>) EXCEPT !.kind = "SecretList"]
OtherEast == [East EXCEPT !.namespace = "team"]
Unlabelled == [East EXCEPT !.labelled = FALSE]

MCDocuments ==
  {East, OtherEast, West, Inner, Outer, Unlabelled, ListOf(<<>>),
   Doc("null"), Doc("broken"), Doc("ConfigMap")}

MCDepth == [d \in MCDocuments |-> CASE d = Outer -> 2 [] d = Inner -> 1 [] OTHER -> 0]

MCClustersFiles ==
  {<<>>, <<Doc("null"), Outer>>, <<West, East>>, <<East, ListOf(<<>>)>>,
   <<East, Inner, OtherEast>>,
   <<Outer, Unlabelled>>, <<East, Doc("ConfigMap")>>, <<Doc("broken")>>}

Pull(number, repo) ==
  [repo |-> repo, number |-> number, branch |-> "topic", labels |-> {}, misspelt |-> FALSE]

MCPullsFiles ==
  {<<>>, <<<<Pull(1, ""), Pull(2, "shop/web")>>>>,
   << <<[Pull(1, "shop/web") EXCEPT !.labels = {"preview"}]>>,
      <<Pull(3, "shop/api"), [Pull(4, "shop/web") EXCEPT !.branch = "main"]>> >>,
   <<<<Pull(0, "")>>>>, << <<Pull(1, "")>>, <<[Pull(2, "") EXCEPT !.branch = ""]>> >>,
   <<<<[Pull(1, "") EXCEPT !.misspelt = TRUE]>>>>}

Provider(repo, labels) == [repo |-> repo, labels |-> labels]

PullRequests(providers, filters, values) ==
  [kind |-> "pullRequest", providers |-> providers, filters |-> filters, values |-> values]

Web == PullRequests("github" :> Provider("shop/web", {}), {{"topic"}},
                    ("values.a" :> "branch") @@ ("values.b" :> "values.a"))
WebPreviews == PullRequests("gitlab" :> Provider("shop/web", {"preview"}), {},
                            ("values.a" :> "values.b") @@ ("values.b" :> "number"))
Api == PullRequests("bitbucket" :> Provider("shop/api", {}), {}, <<>>)
TwoProviders == PullRequests(("bitbucket" :> Provider("shop/web", {})) @@
                             ("azuredevops" :> Provider("shop/api", {"preview"})), {}, <<>>)
NoProvider == PullRequests(<<>>, {}, <<>>)

List(elements) == [kind |-> "list", elements |-> elements]
Clusters == [kind |-> "clusters"]
Remote == [kind |-> "remote"]
Matrix(first, second) == [kind |-> "matrix", generators |-> <<first, second>>]

MCAppSets ==
  [generators : {<<Web, Clusters, WebPreviews>>, <<Matrix(Clusters, Web), Api>>,
                 <<Matrix(Web, Clusters), List(<<"x">>)>>,
                 <<Matrix(List(<<>>), Clusters), Matrix(List(<<"x", "y">>), WebPreviews)>>,
                 <<Matrix(Clusters, Remote), List(<<"x">>)>>, <<NoProvider, Clusters>>,
                 <<TwoProviders>>, <<>>},
   goTemplate : {"none", "go", "strict"}]
=============================================================================
