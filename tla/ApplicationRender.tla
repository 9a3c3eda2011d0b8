-------------------------- MODULE ApplicationRender --------------------------
(***************************************************************************)
(* renderApplication (renderer.go): one Application, from its sources to   *)
(* the objects it renders to.                                              *)
(*                                                                         *)
(* First buildRequestsFromApplication turns each source that renders       *)
(* anything into a request (pc = "build").  Then each request is rendered: *)
(* its type is detected, a Kustomize source gets a throwaway overlay       *)
(* directory to be edited instead of the checkout, and GenerateManifests   *)
(* is called (pc = "detect", "overlay", "fill", "generate").  Last, what   *)
(* was generated is normalised, sorted and returned.  Overlay directories  *)
(* are removed by deferred calls, that is only on return.  Any step may    *)
(* fail, and a failure returns at once.                                    *)
(*                                                                         *)
(* GetAppSourceType, GenerateManifests and NormalizeTargetObjects are Argo *)
(* CD's; they are modelled as the code uses them.                          *)
(***************************************************************************)
EXTENDS RefSources, TargetObjects

CONSTANTS Charts,        \* charts a source may name
          Blocks,        \* helm blocks a source may have
          Objects,       \* manifests the tools render
          Applications,  \* the Applications to render
          Options,       \* TemplateOptions
          Nothing        \* no result

Contents == {"Helm", "Kustomize", "Directory"}

\* What the program may be asked to render.
Sources ==
  [repo : Repos \union {NoRepo}, ref : Refs \union {NoRef},
   path : {"none", "inside", "outside"}, chart : Charts \union {NoChart},
   helm : Blocks \union {NoBlock}, dir : Contents,
   objs : Seq(Objects), tests : Seq(Objects)]

ASSUME BlockAssumption ==
  Blocks = [vars : SUBSET Refs, skipTests : BOOLEAN, other : BOOLEAN] /\ NoBlock \notin Blocks

ASSUME ChartAssumption == NoChart \notin Charts

ASSUME ObjectAssumption ==
  \A o \in Objects :
    {"type", "ns", "name"} \subseteq DOMAIN o /\ {o.type, o.ns, o.name} \subseteq Nat

ASSUME ApplicationAssumption ==
  \A a \in Applications : a.sources \in Seq(Sources) /\ a.destination \in Nat

\* What a result is made of: objects, in whatever namespace, and Applications.
Namespaces == {o.ns : o \in Objects} \union {NoNs} \union {a.destination : a \in Applications}
InNamespace(o, ns) == [o EXCEPT !.ns = ns]
Resources ==
  {InNamespace(o, ns) : o \in Objects, ns \in Namespaces}
    \union {a.manifest : a \in Applications}

ASSUME NothingAssumption == Nothing \notin Seq(Resources)

VARIABLES app,        \* the Application
          opts,       \* the TemplateOptions
          pc,         \* what renderApplication is about to do
          i,          \* the source, then the request, it is at
          requests,   \* the requests built so far
          sourceType, \* appSourceType of the request at hand
          manifests,  \* allManifests
          tempDirs,   \* requests whose overlay directory is on disk
          deferred,   \* requests whose overlay directory is removed on return
          calls,      \* history: how GenerateManifests was called
          result,     \* Objects of the TemplateResult
          warnings    \* resources its warnings name

vars == <<app, opts, pc, i, requests, sourceType, manifests, tempDirs, deferred,
          calls, result, warnings>>

input == <<app, opts>>
output == <<result, warnings>>

source == app.sources[i]
request == requests[i]
multi == Multi(app.sources)
targets == refTargets(app.sources)

\* Argo CD's GetAppSourceType: a helm block with anything in it makes a source a
\* Helm one, whatever its directory holds.
GetAppSourceType(s, holds) ==
  IF s.helm # NoBlock /\ (s.helm.vars # {} \/ s.helm.skipTests \/ s.helm.other)
  THEN "Helm" ELSE holds

\* The type of a source as it stands in the manifest.
NativeType(n) ==
  GetAppSourceType(app.sources[n],
                   IF IsHelm(app.sources[n]) THEN "Helm" ELSE app.sources[n].dir)

\* Argo CD's GenerateManifests: a chart's tests come along unless its block drops
\* them; a source rendered by a tool that is not its own comes out empty.
GenerateManifests(r, holds) ==
  LET type == GetAppSourceType(r.source, holds)
  IN  IF type # NativeType(r.index) THEN <<>>
      ELSE IF type = "Helm" /\ (r.source.helm = NoBlock \/ ~r.source.helm.skipTests)
           THEN r.source.objs \o r.source.tests ELSE r.source.objs

Init ==
  /\ app \in Applications /\ opts \in Options
  /\ pc = "start" /\ i = 1
  /\ requests = <<>> /\ sourceType = "none" /\ manifests = <<>>
  /\ tempDirs = {} /\ deferred = {} /\ calls = <<>>
  /\ result = Nothing /\ warnings = {}

\* Returning, with or without an error, runs the deferred os.RemoveAll calls.
ReturnError ==
  /\ pc' = "failed"
  /\ tempDirs' = tempDirs \ deferred
  /\ UNCHANGED <<input, i, requests, sourceType, manifests, deferred, calls, output>>

-----------------------------------------------------------------------------
\* absRepoRoot, LoadHelmCapabilities, and what is checked of the sources as a whole.
Start ==
  /\ pc = "start"
  /\ app.sources # <<>> /\ ~refTargetsFails(app.sources)
  /\ pc' = "build"
  /\ UNCHANGED <<input, i, requests, sourceType, manifests, tempDirs, deferred, calls, output>>

\* The repository root, the capabilities file, or the sources may be no good.
StartFails == pc = "start" /\ ReturnError

-----------------------------------------------------------------------------
\* buildRequestsFromApplication

Building == pc = "build" /\ i <= Len(app.sources)

SkipRefOnly ==
  /\ Building
  /\ source.repo # NoRepo /\ isRefOnlySource(source, multi)
  /\ i' = i + 1
  /\ UNCHANGED <<input, pc, requests, sourceType, manifests, tempDirs, deferred, calls, output>>

Acceptable ==
  /\ source.repo # NoRepo /\ ~isRefOnlySource(source, multi)
  /\ validateRefs(source, targets, multi)
  /\ IsHelm(source) \/ source.path # "outside"

\* A source without a repoURL, with a bad reference, or with a bad path.
RejectSource ==
  /\ Building
  /\ ~Acceptable /\ ~(source.repo # NoRepo /\ isRefOnlySource(source, multi))
  /\ ReturnError

\* The request for a chart is for the directory downloadHelmChart left it in.
AddRequest ==
  /\ Building /\ Acceptable
  /\ requests' = Append(requests,
       IF IsHelm(source)
       THEN [index |-> i, source |-> [source EXCEPT !.path = "inside", !.chart = NoChart],
             where |-> "cache", contents |-> "Helm"]
       ELSE [index |-> i, source |-> source, where |-> "checkout", contents |-> source.dir])
  /\ i' = i + 1
  /\ UNCHANGED <<input, pc, sourceType, manifests, tempDirs, deferred, calls, output>>

DownloadFails == Building /\ Acceptable /\ IsHelm(source) /\ ReturnError

BuildDone ==
  /\ pc = "build" /\ i > Len(app.sources) /\ requests # <<>>
  /\ pc' = "detect" /\ i' = 1
  /\ UNCHANGED <<input, requests, sourceType, manifests, tempDirs, deferred, calls, output>>

NothingToRender ==
  pc = "build" /\ i > Len(app.sources) /\ requests = <<>> /\ ReturnError

-----------------------------------------------------------------------------
\* The loop over the requests

\* The request with its source's chart tests dropped.
SkippingTests(r) ==
  LET block == IF r.source.helm = NoBlock
               THEN [vars |-> {}, skipTests |-> TRUE, other |-> FALSE]
               ELSE [r.source.helm EXCEPT !.skipTests = TRUE]
  IN  [r EXCEPT !.source.helm = block]

\* Mutant of Detect: the tests are dropped before the type is known.
DropTestsFirst ==
  /\ pc = "detect" /\ i <= Len(requests)
  /\ requests' = IF opts.includeTests THEN requests
                 ELSE [requests EXCEPT ![i] = SkippingTests(@)]
  /\ sourceType' = GetAppSourceType(request.source, request.contents)
  /\ pc' = IF sourceType' = "Kustomize" THEN "overlay" ELSE "generate"
  /\ UNCHANGED <<input, i, manifests, tempDirs, deferred, calls, output>>

Detect ==
  /\ pc = "detect" /\ i <= Len(requests)
  /\ sourceType' = GetAppSourceType(request.source, request.contents)
  /\ requests' = IF ~opts.includeTests /\ sourceType' = "Helm"
                 THEN [requests EXCEPT ![i] = SkippingTests(@)] ELSE requests
  /\ pc' = IF sourceType' = "Kustomize" THEN "overlay" ELSE "generate"
  /\ UNCHANGED <<input, i, manifests, tempDirs, deferred, calls, output>>

DetectFails == pc = "detect" /\ i <= Len(requests) /\ ReturnError

\* kustomizeOverlay, up to the point where the directory exists ...
MakeOverlay ==
  /\ pc = "overlay"
  /\ tempDirs' = tempDirs \union {i}
  /\ pc' = "fill"
  /\ UNCHANGED <<input, i, requests, sourceType, manifests, deferred, calls, output>>

MakeOverlayFails == pc = "overlay" /\ ReturnError

\* Mutant of FillOverlay: the directory is remembered under its source's number.
FillBySource ==
  /\ pc = "fill"
  /\ deferred' = deferred \union {request.index}
  /\ pc' = "generate"
  /\ UNCHANGED <<input, i, requests, sourceType, manifests, tempDirs, calls, output>>

\* ... and the rest of it, after which the caller defers its removal.
FillOverlay ==
  /\ pc = "fill"
  /\ deferred' = deferred \union {i}
  /\ pc' = "generate"
  /\ UNCHANGED <<input, i, requests, sourceType, manifests, tempDirs, calls, output>>

\* Mutant of FillOverlayFails: it returns without removing its directory.
FillLeaks == pc = "fill" /\ ReturnError

\* Every failure from there on removes the directory before it returns.
FillOverlayFails ==
  /\ pc = "fill" /\ pc' = "failed"
  /\ tempDirs' = (tempDirs \ {i}) \ deferred
  /\ UNCHANGED <<input, i, requests, sourceType, manifests, deferred, calls, output>>

\* An overlay pulls in a kustomization, and is one itself.
contents == IF sourceType = "Kustomize" THEN "Kustomize" ELSE request.contents

unresolved ==
  IF request.source.helm = NoBlock THEN {}
  ELSE {name \in request.source.helm.vars : ~Resolves(name, targets, newRefPaths(targets))}

\* Mutant of Call: appPath is still the checkout's, not the overlay's.
CallInCheckout ==
  [index |-> request.index,
   type |-> GetAppSourceType(request.source, contents),
   where |-> request.where, exists |-> TRUE, unresolved |-> unresolved]

\* How GenerateManifests is called.
Call ==
  [index |-> request.index,
   type |-> GetAppSourceType(request.source, contents),
   where |-> IF sourceType = "Kustomize" THEN "overlay" ELSE request.where,
   exists |-> (sourceType = "Kustomize" => i \in tempDirs),
   unresolved |-> unresolved]

Generate ==
  /\ pc = "generate" /\ opts.sizeValid
  /\ manifests' = manifests \o GenerateManifests(request, contents)
  /\ calls' = Append(calls, Call)
  /\ i' = i + 1 /\ pc' = "detect"
  /\ UNCHANGED <<input, requests, sourceType, tempDirs, deferred, output>>

\* A MaxManifestSize that does not parse always fails, the tool sometimes does.
GenerateFails == pc = "generate" /\ ReturnError

-----------------------------------------------------------------------------
\* Normalisation, deduplication, sorting, and the result

placed == Placed(manifests, app.destination)

conditions ==
  {[gk |-> GroupKind(placed[j].type), ns |-> placed[j].ns, name |-> placed[j].name]
     : j \in Repeated(placed)}

Return ==
  /\ pc = "detect" /\ i > Len(requests)
  /\ \E order \in SortedOrders(placed) :
       LET sorted == [p \in DOMAIN order |-> placed[order[p]]]
       IN  result' = IF opts.includeApplications THEN <<app.manifest>> \o sorted ELSE sorted
  /\ warnings' = conditions
  /\ pc' = "done" /\ tempDirs' = tempDirs \ deferred
  /\ UNCHANGED <<input, i, requests, sourceType, manifests, deferred, calls>>

\* Setting the tracking label, or converting the Application, may fail.
ReturnFails == pc = "detect" /\ i > Len(requests) /\ ReturnError

Returned == pc \in {"done", "failed"}

Next ==
  \/ Start \/ StartFails
  \/ SkipRefOnly \/ RejectSource \/ AddRequest \/ DownloadFails
  \/ BuildDone \/ NothingToRender
  \/ Detect \/ DetectFails
  \/ MakeOverlay \/ MakeOverlayFails \/ FillOverlay \/ FillOverlayFails
  \/ Generate \/ GenerateFails
  \/ Return \/ ReturnFails

\* The program is one thread; the tools it runs are assumed to come back.
Spec == Init /\ [][Next]_vars /\ WF_vars(Next)

-----------------------------------------------------------------------------
\* Each variable ranges over what the code can put in it.
TypeOK ==
  /\ app \in Applications /\ opts \in Options
  /\ pc \in {"start", "build", "detect", "overlay", "fill", "generate", "done", "failed"}
  /\ i \in Nat \ {0}
  /\ requests \in Seq([index : DOMAIN app.sources, source : Sources,
                       where : {"cache", "checkout"}, contents : Contents])
  /\ sourceType \in Contents \union {"none"}
  /\ tempDirs \subseteq DOMAIN requests /\ deferred \subseteq DOMAIN requests
  /\ calls \in Seq([index : DOMAIN app.sources, type : Contents,
                    where : {"cache", "checkout", "overlay"}, exists : BOOLEAN,
                    unresolved : SUBSET Refs])
  /\ Len(calls) <= Len(requests)

\* No overlay directory outlives the call of renderApplication that made it, on
\* any of the paths that return (the defer in the loop, and the os.RemoveAll of
\* each failure inside kustomizeOverlay).
OverlaysReleased == Returned => tempDirs = {}

\* GenerateManifests runs `kustomize edit` where it is pointed at, so a Kustomize
\* source is only ever rendered in an overlay directory that is still there.
CheckoutUntouched ==
  \A k \in DOMAIN calls :
    calls[k].type = "Kustomize" => calls[k].where = "overlay" /\ calls[k].exists

\* Dropping the chart tests never retypes a source: GenerateManifests finds it to
\* be of the type the manifest and the directory say it is.
SourceTypeKept == \A k \in DOMAIN calls : calls[k].type = NativeType(calls[k].index)

\* No source of an Application with several is rendered with a $name that resolves
\* to nothing: it would be read as a path below the checkout root.
RefsResolve == multi => \A k \in DOMAIN calls : calls[k].unresolved = {}

\* "sortObjects puts the rendered manifests in a stable order": rendering the same
\* Application again could not have given another order.
StableOrder == pc = "done" => Cardinality(SortedOrders(placed)) = 1

\* That holds of an Application all of whose objects have a name.
NamedObjectsStable ==
  (pc = "done" /\ \A j \in DOMAIN placed : placed[j].name # NoName) =>
    Cardinality(SortedOrders(placed)) = 1

\* renderApplication implements the contract: the objects are those the sources
\* render to, last one winning, in place and in order, or there is an error.
outcome == CASE pc = "done" -> "ok" [] pc = "failed" -> "error" [] OTHER -> "pending"

Contract == INSTANCE RenderContract WITH objects <- result

KeepsContract == Contract!Spec

-----------------------------------------------------------------------------
\* The inductive invariant behind the safety properties above.

Looping == pc \in {"detect", "overlay", "fill", "generate"}
AtRequest == pc \in {"overlay", "fill", "generate"}

\* The loops go through sources and requests one by one.
Progress ==
  /\ pc = "start" => i = 1
  /\ pc \in {"start", "build"} => calls = <<>> /\ tempDirs = {} /\ deferred = {}
  /\ Looping => Len(calls) = i - 1 /\ i <= Len(requests) + 1
  /\ AtRequest => i <= Len(requests)

\* A directory is on disk from MkdirTemp to return, and is deferred all the while
\* except inside kustomizeOverlay.
OverlaysTracked ==
  /\ ~Returned => tempDirs = deferred \union IF pc = "fill" THEN {i} ELSE {}
  /\ Returned => tempDirs = {}
  /\ pc = "generate" /\ sourceType = "Kustomize" => i \in tempDirs

\* A request is of the type of its source, also once its tests are dropped.
TypesTracked ==
  /\ \A k \in DOMAIN requests :
       GetAppSourceType(requests[k].source, requests[k].contents) = NativeType(requests[k].index)
  /\ AtRequest => sourceType = NativeType(request.index)

\* A request refers to declared sources only.
RefsDeclared ==
  multi => \A k \in DOMAIN requests :
             requests[k].source.helm # NoBlock =>
               requests[k].source.helm.vars \subseteq DOMAIN targets

RenderInv ==
  /\ TypeOK /\ Progress /\ OverlaysTracked /\ TypesTracked /\ RefsDeclared
  /\ CheckoutUntouched /\ SourceTypeKept /\ RefsResolve

-----------------------------------------------------------------------------
\* What it takes besides that every step is one the contract allows.

SourceChecked(n) ==
  LET s == app.sources[n]
  IN  /\ s.repo # NoRepo
      /\ \/ isRefOnlySource(s, multi)
         \/ validateRefs(s, targets, multi) /\ (IsHelm(s) \/ s.path # "outside")

\* The first n sources are fine, and those that render have their requests, in order.
Requested(n) ==
  /\ \A j \in 1 .. n : SourceChecked(j)
  /\ {requests[k].index : k \in DOMAIN requests} = {j \in Contract!Rendered(app) : j <= n}
  /\ \A k, l \in DOMAIN requests : k < l => requests[k].index < requests[l].index

SourcesTracked ==
  /\ pc = "start" => requests = <<>>
  /\ pc = "build" => i <= Len(app.sources) + 1 /\ Requested(i - 1)
  /\ Looping => requests # <<>> /\ Requested(Len(app.sources))
  /\ pc = "build" \/ Looping => ~refTargetsFails(app.sources)

\* A request renders what its source does, its tests left out when they should be.
TestsTracked ==
  /\ \A k \in DOMAIN requests :
       LET r == requests[k].source
           s == app.sources[requests[k].index]
       IN  /\ r.objs = s.objs /\ r.tests = s.tests
           /\ \/ r.helm = s.helm
              \/ ~opts.includeTests /\ r.helm # NoBlock /\ r.helm.skipTests
  /\ AtRequest /\ sourceType = "Helm" /\ ~opts.includeTests =>
       request.source.helm # NoBlock /\ request.source.helm.skipTests

\* h tells of each manifest in m, in order, which of those of the sources js it is.
ListsEmissions(h, m, a, o, js) ==
  LET those == {e \in Contract!Emissions(a, o) : e[1] \in js}
  IN  /\ h \in [DOMAIN m -> those]
      /\ \A e \in those : \E p \in DOMAIN m : h[p] = e
      /\ \A p, q \in DOMAIN m : p < q => Contract!Later(h[q], h[p])
      /\ \A p \in DOMAIN m : m[p] = Contract!Emitted(a, h[p])

\* What has been generated is what the requests so far emit.
ManifestsTracked ==
  /\ pc \in {"start", "build"} => manifests = <<>>
  /\ Looping =>
       LET js == {requests[k].index : k \in 1 .. (i - 1)}
       IN  \E h \in [DOMAIN manifests -> Contract!Emissions(app, opts)] :
             ListsEmissions(h, manifests, app, opts, js)

ContractInv == SourcesTracked /\ TestsTracked /\ ManifestsTracked
=============================================================================
