-------------------------- MODULE MCRenderToDirectory --------------------------
(***************************************************************************)
(* Small trees for RenderToDirectory: two files, with an Application, an   *)
(* ApplicationSet, something that fails, or nothing.                       *)
(***************************************************************************)
EXTENDS RenderToDirectory

MCLower(kind) == IF kind = "ConfigMap" THEN "configmap" ELSE kind

Object(ns, stem) == [kind |-> "ConfigMap", ns |-> ns, stem |-> stem, numbers |-> <<>>]

App(name, objects) ==
  [name |-> name, place |-> 1, renders |-> TRUE, objects |-> objects, warnings |-> <<>>,
   sources |-> 1]

Web == App("web", <<Object("x", "a"), Object("y", "a")>>)
Api == App("api", <<Object("x", "a")>>)
Void == App("void", <<>>)
Failing == [Void EXCEPT !.renders = FALSE]

Doc(kind) == [kind |-> kind, valid |-> TRUE, app |-> Void, generators |-> <<>>]
Application(a) == [Doc("Application") EXCEPT !.app = a]
Set(list) ==
  [Doc("ApplicationSet") EXCEPT
     !.generators = <<[s \in SUBSET {"clusters", "pulls"} |-> [reaches |-> {}, apps |-> list]]>>]

Contents ==
  {<<>>, <<Application(Api)>>, <<Set(<<Web, Void>>)>>, <<Doc("other"), Application(Web)>>,
   <<Application(Failing)>>}

File(path, docs) == [path |-> path, scanned |-> TRUE, docs |-> docs]

MCTrees == {{File(1, s), File(2, t)} : s, t \in Contents}

MCCommands == [mode : {"app", "dir"}, path : {1}, clusters : {"none"}, pulls : {"none"}]
=============================================================================
