----------------------------- MODULE TemplateRun -----------------------------
(***************************************************************************)
(* A run of the command (main.go, Template in renderer.go): from the       *)
(* manifest named with --app, or the tree named with --dir, to the YAML    *)
(* stream on stdout.  Files are read one after the other, each is split    *)
(* into documents, an Application is rendered, an ApplicationSet is        *)
(* expanded and every Application it generates rendered, and the results   *)
(* are merged: Application into document, document into file, file into    *)
(* run.  The first error ends the run with nothing printed.                *)
(*                                                                         *)
(* How one Application is rendered is ApplicationRender's matter.  Here it *)
(* renders to its objects and warnings, or not at all.                     *)
(*                                                                         *)
(* A file is a record                                                      *)
(*   path     its position among all paths in sort order                   *)
(*   scanned  whether --dir comes across it: a .yaml or .yml file in no    *)
(*            hidden directory                                             *)
(*   docs     its documents                                                *)
(* and a document, besides its kind ("Application", "ApplicationSet",      *)
(* "other", "broken" when it has none to be read, "empty"), has            *)
(*   valid       whether it parses as what its kind says                   *)
(*   app         the Application                                           *)
(*   generators  the generators of the ApplicationSet                      *)
(* A generator is what it makes of the mock files it is supplied with: the *)
(* kinds of generators that are reached, nested ones included, and the     *)
(* Applications that come of it.                                           *)
(***************************************************************************)
EXTENDS Naturals, FiniteSets, SequencesExt

CONSTANTS Commands,  \* how the command is called, see command
          Trees      \* sets of files

Supplies == {"clusters", "pulls"}  \* what there are mock files for

IsSequence(list) == list \in Seq(Range(list))

IsApplication(app) ==
  /\ IsSequence(app.objects) /\ IsSequence(app.warnings)
  /\ app.sources \in Nat /\ app.place \in Nat

ASSUME TreeAssumption ==
  \A tree \in Trees :
    /\ \A f, g \in tree : f.path \in Nat /\ (f.path = g.path => f = g)
    /\ \A f \in tree : IsSequence(f.docs)
    /\ \A f \in tree : \A d \in DOMAIN f.docs :
         /\ f.docs[d].kind = "Application" => IsApplication(f.docs[d].app)
         /\ f.docs[d].kind = "ApplicationSet" =>
              /\ IsSequence(f.docs[d].generators)
              /\ \A g \in DOMAIN f.docs[d].generators, supplied \in SUBSET Supplies :
                   LET apps == f.docs[d].generators[g][supplied].apps
                   IN  IsSequence(apps) /\ \A k \in DOMAIN apps : IsApplication(apps[k])

VARIABLES command,    \* mode: "app", "dir" or "wrong", by the flags given
                      \* path: what --app names
                      \* clusters, pulls: whether the mock file is "none", "good" or "bad"
          tree,       \* the files there are
          pc,         \* what the run is about to do
          files,      \* the files it has yet to read
          documents,  \* the places of the documents of the file at hand it has yet to look at
          apps,       \* the Applications of the document at hand it has yet to render
          document,   \* the results so far of the document at hand,
          file,       \* of the file at hand
          run,        \* and of the run
          stdout,     \* the objects printed
          exit        \* "success", "failure", or "none" while it runs

vars == <<command, tree, pc, files, documents, apps, document, file, run, stdout, exit>>

\* A TemplateResult.
EmptyResult == [objects |-> <<>>, warnings |-> <<>>, sources |-> 0, count |-> 0, apps |-> <<>>]

\* Mutant of Merge: the warnings of the other result are lost.
MergeWithoutWarnings(r, other) ==
  [objects |-> r.objects \o other.objects, warnings |-> r.warnings,
   sources |-> r.sources + other.sources, count |-> r.count + other.count,
   apps |-> r.apps \o other.apps]

\* Mutant of Merge: the grouping by Application is that of the first result.
MergeUngrouped(r, other) ==
  [objects |-> r.objects \o other.objects, warnings |-> r.warnings \o other.warnings,
   sources |-> r.sources + other.sources, count |-> r.count + other.count,
   apps |-> IF r.apps = <<>> THEN other.apps ELSE r.apps]

Merge(r, other) ==
  [objects |-> r.objects \o other.objects, warnings |-> r.warnings \o other.warnings,
   sources |-> r.sources + other.sources, count |-> r.count + other.count,
   apps |-> r.apps \o other.apps]

\* What renderApplication returns for an Application that renders.
Rendering(app) ==
  [objects |-> app.objects, warnings |-> app.warnings, sources |-> app.sources, count |-> 1,
   apps |-> <<app>>]

Init ==
  /\ command \in Commands /\ tree \in Trees
  /\ pc = "dispatch" /\ files = {} /\ documents = {} /\ apps = <<>>
  /\ document = EmptyResult /\ file = EmptyResult /\ run = EmptyResult
  /\ stdout = <<>> /\ exit = "none"

Input == <<command, tree>>
Work == <<files, documents, apps, document, file, run>>

\* An error comes back from wherever it happens; main reports it and exits.
ExitWithError ==
  /\ pc' = "exited" /\ exit' = "failure"
  /\ UNCHANGED <<Input, Work, stdout>>

-----------------------------------------------------------------------------
\* The files to be rendered: the one named, or all that the walk comes across.
Named == {f \in tree : IF command.mode = "dir" THEN f.scanned ELSE f.path = command.path}

Dispatch ==
  /\ pc = "dispatch" /\ command.mode \in {"app", "dir"}
  /\ files' = Named
  /\ pc' = "file"
  /\ UNCHANGED <<Input, documents, apps, document, file, run, stdout, exit>>

\* The flags are wrong, or the directory cannot be walked.
DispatchFails == pc = "dispatch" /\ ExitWithError

\* The file at hand: they are read in the order of their paths.
current == CHOOSE f \in files : \A g \in files : f.path <= g.path

OpenFile ==
  /\ pc = "file" /\ files # {}
  /\ documents' = {d \in DOMAIN current.docs : current.docs[d].kind # "empty"}
  /\ file' = EmptyResult
  /\ pc' = "document"
  /\ UNCHANGED <<Input, files, apps, document, run, stdout, exit>>

\* A file that cannot be read, or that is not there, or not YAML.
OpenFails ==
  /\ pc = "file"
  /\ files # {} \/ (command.mode = "app" /\ Named = {})
  /\ ExitWithError

-----------------------------------------------------------------------------
\* templateDocuments

AtDocument == pc = "document" /\ documents # {}
doc == current.docs[Min(documents)]

Renderable == doc.kind \in {"Application", "ApplicationSet"}

\* A tree may hold anything ...
SkipDocument ==
  /\ AtDocument /\ ~Renderable /\ command.mode = "dir"
  /\ documents' = documents \ {Min(documents)}
  /\ UNCHANGED <<Input, pc, files, apps, document, file, run, stdout, exit>>

\* ... but a file that was named may not, and what calls itself an Application or
\* an ApplicationSet has to be one.
RejectDocument ==
  /\ AtDocument
  /\ IF Renderable THEN ~doc.valid ELSE command.mode = "app"
  /\ ExitWithError

StartApplication ==
  /\ AtDocument /\ doc.kind = "Application" /\ doc.valid
  /\ apps' = <<doc.app>> /\ document' = EmptyResult
  /\ pc' = "render"
  /\ UNCHANGED <<Input, files, documents, file, run, stdout, exit>>

Supplied == {m \in Supplies : command[m] = "good"}

\* The kinds of generators an ApplicationSet reaches, and what they generate.
Reached(set) == UNION {set.generators[g][Supplied].reaches : g \in DOMAIN set.generators}
Generated(set) ==
  FlattenSeq([g \in DOMAIN set.generators |-> set.generators[g][Supplied].apps])

\* The cluster secrets are loaded whatever the generators are, the pull requests
\* when one asks for them.  What needs a live service is refused.
Expands(set) ==
  /\ command.clusters # "bad"
  /\ command.pulls = "bad" => "pulls" \notin Reached(set)
  /\ "remote" \notin Reached(set)

\* A generator that came to see less than on a cluster is warned about.
Limited(set) == {m \in Supplies : command[m] = "none" /\ m \in Reached(set)}
limits(set) ==
  LET one(m) == IF m \in Limited(set) THEN <<m>> ELSE <<>>
  IN  one("clusters") \o one("pulls")

\* Mutant of SortedApplications: they stay as they were generated.
AsGenerated(generated) == {generated}

\* The generators draw on maps: of Applications with one namespace and name any may
\* come first.
SortedApplications(generated) ==
  {[k \in DOMAIN generated |-> generated[order[k]]] :
     order \in {o \in [DOMAIN generated -> DOMAIN generated] :
                  \A p, q \in DOMAIN o : p < q =>
                    o[p] # o[q] /\ generated[o[p]].place <= generated[o[q]].place}}

\* GenerateApplications, and the sort in renderApplicationSet.
ExpandSet ==
  /\ AtDocument /\ doc.kind = "ApplicationSet" /\ doc.valid /\ Expands(doc)
  /\ apps' \in SortedApplications(Generated(doc))
  /\ document' = [EmptyResult EXCEPT !.warnings = limits(doc)]
  /\ pc' = "render"
  /\ UNCHANGED <<Input, files, documents, file, run, stdout, exit>>

\* Also a template that does not come out well fails the whole set.
ExpandFails == AtDocument /\ doc.kind = "ApplicationSet" /\ doc.valid /\ ExitWithError

RenderNext ==
  /\ pc = "render" /\ apps # <<>> /\ Head(apps).renders
  /\ document' = Merge(document, Rendering(Head(apps)))
  /\ apps' = Tail(apps)
  /\ UNCHANGED <<Input, pc, files, documents, file, run, stdout, exit>>

RenderFails == pc = "render" /\ apps # <<>> /\ ExitWithError

\* Mutant of MergeDocument: the result of the file starts over.
ReplaceByDocument ==
  /\ pc = "render" /\ apps = <<>>
  /\ file' = document /\ documents' = documents \ {Min(documents)}
  /\ pc' = "document"
  /\ UNCHANGED <<Input, files, apps, document, run, stdout, exit>>

MergeDocument ==
  /\ pc = "render" /\ apps = <<>>
  /\ file' = Merge(file, document) /\ documents' = documents \ {Min(documents)}
  /\ pc' = "document"
  /\ UNCHANGED <<Input, files, apps, document, run, stdout, exit>>

MergeFile ==
  /\ pc = "document" /\ documents = {}
  /\ run' = IF command.mode = "dir" THEN Merge(run, file) ELSE file
  /\ files' = files \ {current}
  /\ pc' = "file"
  /\ UNCHANGED <<Input, documents, apps, document, file, stdout, exit>>

-----------------------------------------------------------------------------
\* WriteManifests

StartPrinting ==
  /\ pc = "file" /\ files = {}
  /\ command.mode = "app" => Named # {}
  /\ pc' = "print"
  /\ UNCHANGED <<Input, Work, stdout, exit>>

PrintObject ==
  /\ pc = "print" /\ Len(stdout) < Len(run.objects)
  /\ stdout' = Append(stdout, run.objects[Len(stdout) + 1])
  /\ UNCHANGED <<Input, Work, pc, exit>>

\* Mutant of PrintFails: the error is dropped.
PrintFailsSilently ==
  /\ pc = "print"
  /\ pc' = "exited" /\ exit' = "success"
  /\ UNCHANGED <<Input, Work, stdout>>

\* stdout may be closed on the other end.
PrintFails == pc = "print" /\ ExitWithError

Printed ==
  /\ pc = "print" /\ Len(stdout) = Len(run.objects)
  /\ pc' = "exited" /\ exit' = "success"
  /\ UNCHANGED <<Input, Work, stdout>>

Next ==
  \/ Dispatch \/ DispatchFails \/ OpenFile \/ OpenFails
  \/ SkipDocument \/ RejectDocument \/ StartApplication \/ ExpandSet \/ ExpandFails
  \/ RenderNext \/ RenderFails \/ MergeDocument \/ MergeFile
  \/ StartPrinting \/ PrintObject \/ PrintFails \/ Printed

Spec == Init /\ [][Next]_vars

-----------------------------------------------------------------------------
\* The Applications there are to render, by file, document and place in it.
Emitted(f, d) ==
  CASE f.docs[d].kind = "Application" -> <<f.docs[d].app>>
    [] f.docs[d].kind = "ApplicationSet" -> Generated(f.docs[d])
    [] OTHER -> <<>>

Emissions ==
  UNION {{[file |-> f, doc |-> e[1], n |-> e[2], app |-> Emitted(f, e[1])[e[2]]] :
            e \in UNION {{d} \X DOMAIN Emitted(f, d) : d \in DOMAIN f.docs}} : f \in Named}

Rendered == pc = "print" \/ exit = "success"

\* A run that succeeds has rendered every Application that the named file or tree
\* declares or generates, once each: none is lost or repeated where results are
\* merged, and none that fails is passed over.
EveryApplicationOnce ==
  Rendered =>
    \A app \in Range(run.apps) \union {e.app : e \in Emissions} :
      Cardinality({k \in DOMAIN run.apps : run.apps[k] = app})
        = Cardinality({e \in Emissions : e.app = app})

Precedes(e, f) ==
  \/ e.file.path < f.file.path
  \/ e.file = f.file /\ e.doc < f.doc
  \/ e.file = f.file /\ e.doc = f.doc /\ e.app.place < f.app.place

\* "The same tree always produces the same output", as far as files, documents and
\* the Applications of a set go: neither the walk nor the generators have a say.
InTreeOrder ==
  Rendered =>
    \A p, q \in DOMAIN run.apps : p < q =>
      \E e, f \in Emissions :
        e # f /\ e.app = run.apps[p] /\ f.app = run.apps[q] /\ ~Precedes(f, e)

SourcesOf(list) ==
  LET upTo[k \in 0 .. Len(list)] == IF k = 0 THEN 0 ELSE upTo[k - 1] + list[k].sources
  IN  upTo[Len(list)]

\* What is printed and what --output-dir saves agree: the objects are those of the
\* Applications one after the other, and the counts add up.
GroupedByApplication ==
  \A r \in {document, file, run} :
    /\ r.objects = FlattenSeq([k \in DOMAIN r.apps |-> r.apps[k].objects])
    /\ r.count = Len(r.apps)
    /\ r.sources = SourcesOf(r.apps)

\* No warning is lost on the way up: those of the Applications come out with them,
\* and so does one for each generator that saw less than it would on a cluster.
WarningsKept ==
  Rendered =>
    /\ \A k \in DOMAIN run.apps : Range(run.apps[k].warnings) \subseteq Range(run.warnings)
    /\ \A f \in Named : \A d \in DOMAIN f.docs :
         f.docs[d].kind = "ApplicationSet" => Limited(f.docs[d]) \subseteq Range(run.warnings)

\* Output is all or, but for a failing stdout, nothing: no object is printed before
\* everything has been rendered, and a run that succeeds has printed them all.
OutputWhole ==
  /\ stdout # <<>> => files = {} /\ documents = {} /\ apps = <<>>
  /\ exit = "success" => stdout = run.objects

=============================================================================
