---------------------------- MODULE MCTemplateRun ----------------------------
(***************************************************************************)
(* Small trees for TemplateRun: two or three files of up to two documents. *)
(***************************************************************************)
EXTENDS TemplateRun

App(name, place) ==
  [name |-> name, place |-> place, renders |-> TRUE, objects |-> <<name>>, warnings |-> <<>>,
   sources |-> 1]

\* One that renders to two objects out of three sources and warns, one that renders to
\* nothing, and one that does not render.
Warning(name) == [App(name, 1) EXCEPT !.objects = <<name, "more">>, !.warnings = <<name>>,
                                      !.sources = 3]
Void == [App("void", 2) EXCEPT !.objects = <<>>]
Failing == [App("failing", 1) EXCEPT !.renders = FALSE]

Doc(kind) == [kind |-> kind, valid |-> TRUE, app |-> Void, generators |-> <<>>]
Application(app) == [Doc("Application") EXCEPT !.app = app]
Set(list) == [Doc("ApplicationSet") EXCEPT !.generators = list]


List(list) == [s \in SUBSET Supplies |-> [reaches |-> {}, apps |-> list]]
\* The in-cluster entry, and a cluster that sorts before it.
Clusters ==
  [s \in SUBSET Supplies |->
     [reaches |-> {"clusters"},
      apps |-> <<App("in-cluster", 3)>> \o
               IF "clusters" \in s THEN <<App("cluster", 1)>> ELSE <<>>]]
PullRequests ==
  [s \in SUBSET Supplies |->
     [reaches |-> {"pulls"}, apps |-> IF "pulls" \in s THEN <<Warning("preview")>> ELSE <<>>]]
\* A matrix asks its second generator only if the first has something.
PullRequestsByClusters ==
  [s \in SUBSET Supplies |->
     IF "pulls" \in s
     THEN [reaches |-> {"clusters", "pulls"}, apps |-> <<App("one", 2), App("other", 2)>>]
     ELSE [reaches |-> {"pulls"}, apps |-> <<>>]]
Remote == [s \in SUBSET Supplies |-> [reaches |-> {"remote"}, apps |-> <<>>]]

\* What a file may hold.
Contents ==
  {<<>>, <<Doc("empty"), Application(Warning("a"))>>,
   <<Application(App("b", 2)), Doc("other"), Application(Void)>>,
   <<Set(<<Clusters, PullRequests>>), Application(App("c", 1))>>,
   <<Set(<<List(<<App("e", 2), App("d", 1)>>)>>)>>,
   <<Set(<<PullRequestsByClusters>>)>>,
   <<Set(<<Remote>>)>>, <<Doc("broken")>>, <<Application(Failing)>>,
   <<[Application(Void) EXCEPT !.valid = FALSE]>>}

File(path, docs) == [path |-> path, scanned |-> TRUE, docs |-> docs]

\* Two files, and one between them the walk leaves out.
MCTrees ==
  {{File(1, s), File(3, t), [File(2, <<Application(Void)>>) EXCEPT !.scanned = FALSE]}
     : s, t \in Contents}
    \union {{}}

MCCommands ==
  [mode : {"app", "dir"}, path : {1}, clusters : {"none", "good", "bad"},
   pulls : {"none", "good", "bad"}]
    \union {[mode |-> "wrong", path |-> 1, clusters |-> "none", pulls |-> "none"]}
=============================================================================
