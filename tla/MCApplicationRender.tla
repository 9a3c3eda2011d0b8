------------------------- MODULE MCApplicationRender -------------------------
(***************************************************************************)
(* Small Applications for ApplicationRender: one or two sources picked     *)
(* from a list in which each source brings one complication, and three     *)
(* sources where it takes three (two definitions of a kind and a resource  *)
(* of it; a referring source with two to refer to).                        *)
(***************************************************************************)
EXTENDS ApplicationRender

\* Types in the order of their apiVersion and kind.
ConfigMap == 1
Pod == 2
Definition == 3
Job == 4
WidgetV1 == 5
WidgetV2 == 6
ClusterRole == 7

MCGroupKind(type) == IF type = WidgetV2 THEN WidgetV1 ELSE type
MCClusterKinds == {Definition, ClusterRole}
MCNormalURL(url) == IF url = "https://Host/repo.git" THEN "https://host/repo" ELSE url

Object(type, ns, name, body) ==
  [type |-> type, ns |-> ns, name |-> name, gen |-> FALSE,
   defines |-> 0, cluster |-> FALSE, body |-> body]
Generated(type, body) == [Object(type, NoNs, NoName, body) EXCEPT !.gen = TRUE]
WidgetDefinition(cluster, body) ==
  [Object(Definition, NoNs, 1, body) EXCEPT !.defines = WidgetV1, !.cluster = cluster]

MCObjects ==
  [type : 1 .. 7, ns : 0 .. 2, name : 0 .. 2, gen : BOOLEAN,
   defines : {0, WidgetV1}, cluster : BOOLEAN, body : 0 .. 9]

MCBlocks == [vars : SUBSET {"values", "charts", "bad!"}, skipTests : BOOLEAN, other : BOOLEAN]
Block(names) == [vars |-> names, skipTests |-> FALSE, other |-> FALSE]

Plain(objs) ==
  [repo |-> "https://host/repo", ref |-> "no ref", path |-> "inside", chart |-> "no chart",
   helm |-> NoBlock, dir |-> "Directory", objs |-> objs, tests |-> <<>>]

Chart == [Plain(<<Object(WidgetV1, 1, 1, 1)>>) EXCEPT
            !.chart = "chart", !.path = "none", !.tests = <<Object(Pod, NoNs, 1, 1)>>]
OwnChart == [Plain(<<Object(ClusterRole, 1, 1, 2)>>) EXCEPT
               !.dir = "Helm", !.helm = Block({"values"}), !.tests = <<Object(Pod, NoNs, 1, 2)>>]
Kustomized == [Plain(<<Object(WidgetV2, NoNs, 1, 3), Object(ConfigMap, 1, 2, 3)>>)
                 EXCEPT !.dir = "Kustomize"]
ClusterWidgets == Plain(<<WidgetDefinition(TRUE, 4), Object(ConfigMap, NoNs, 1, 4)>>)
NamespacedWidgets == Plain(<<Object(ConfigMap, 1, 1, 5), WidgetDefinition(FALSE, 5)>>)
Jobs == Plain(<<Generated(Job, 6), Generated(Job, 7)>>)
\* What the checkout root would render to if it were rendered by mistake.
Values == [Plain(<<Object(ConfigMap, NoNs, 1, 8)>>) EXCEPT
             !.repo = "https://Host/repo.git", !.ref = "values", !.path = "none"]

Menu ==
  {Plain(<<Object(ConfigMap, NoNs, 1, 0), Object(ConfigMap, 2, 1, 0)>>),
   Chart, [Chart EXCEPT !.helm = [Block({}) EXCEPT !.skipTests = TRUE]],
   OwnChart, Kustomized, ClusterWidgets, NamespacedWidgets, Jobs, Values,
   [ClusterWidgets EXCEPT !.ref = "values"],          \* rendered, and referred to
   [Kustomized EXCEPT !.helm = Block({})],            \* an empty helm block
   [Kustomized EXCEPT !.helm = Block({"charts"})],
   [Chart EXCEPT !.ref = "charts"],                   \* not to be referred to
   [Values EXCEPT !.ref = "bad!"],
   [Kustomized EXCEPT !.path = "outside"],
   [OwnChart EXCEPT !.repo = "no repo"]}

App(sources) ==
  [sources |-> sources, destination |-> 1, manifest |-> Object(WidgetV1, 2, 2, 9)]

MCApplications ==
  {App(<<>>)} \union {App(<<s>>) : s \in Menu} \union {App(<<s, t>>) : s, t \in Menu}
    \union {App(<<s, t, u>>) :
              s, t, u \in {Kustomized, OwnChart, ClusterWidgets, NamespacedWidgets, Values}}
    \union {App(<<Values, [Values EXCEPT !.ref = "charts"]>>)}   \* nothing to render

MCOptions == [includeTests : BOOLEAN, includeApplications : BOOLEAN, sizeValid : BOOLEAN]

\* The few Applications that show how the order depends on names.
OrderApplications == {App(<<s, t>>) : s, t \in {Kustomized, ClusterWidgets, Jobs}}
=============================================================================
