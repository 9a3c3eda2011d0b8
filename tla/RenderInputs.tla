----------------------------- MODULE RenderInputs -----------------------------
(***************************************************************************)
(* What a render takes from outside the checkout and nothing pins: the     *)
(* Helm capabilities file (capabilities.go), which every Application loads *)
(* anew, and the charts of registries, which are asked for with a version  *)
(* or without one (downloadHelmChart in renderer.go) and are then cached   *)
(* for good.  Meanwhile somebody edits the file, and registries publish.        *)
(*                                                                         *)
(* Several runs share the cache.  How it is filled is ChartCache's matter; *)
(* here an entry appears in one step.                                      *)
(***************************************************************************)
EXTENDS Naturals, Sequences

CONSTANTS Applications, \* sequences of sources [chart, version, kube, api], as one run
                        \* renders them one after the other
          Charts,       \* the charts they name
          Contents,     \* of the capabilities file: [kube, api, misspelt]
          Newest,       \* the last version a registry publishes
          MaxRuns, MaxFileEdits

\* A version is a number, or AnyVersion where none is asked for (or a range that all are in).
AnyVersion == 0
\* Versions of Kubernetes, "" for none, that ParseGeneric does not accept.
Nonsense == {"nonsense"}

\* (A prover is not told that "" is a string.)
Text == STRING \union {""}

ChartSources == [chart : Charts, version : Nat, kube : Text, api : Seq(STRING)]

ASSUME InputAssumption ==
  /\ Applications \in Seq(Seq(ChartSources) \ {<<>>}) \ {<<>>}
  /\ \A c \in Contents : c.kube \in Text /\ c.api \in Seq(STRING) /\ c.misspelt \in BOOLEAN
  /\ {Newest, MaxRuns} \subseteq Nat \ {0} /\ MaxFileEdits \in Nat

VARIABLES hasFile,  \* whether the option names a capabilities file
          file,     \* what it holds now
          registry, \* the newest version of each chart there is
          cache,    \* [<<chart, version asked for>> -> version], grows
          app,      \* the Application that is rendered
          caps,     \* its capabilities
          requests, \* [source, got] for its sources so far
          rendered, \* the Helm calls of this run: [app, source, got, kube, api]
          phase,    \* "start", "build", "generate", "done" or "failed"
          runs, fileEdits,
          fileHeld, \* history: what the file has held since the Application began
          first     \* history: what was newest when each entry was made

outside == <<hasFile, file, registry, fileEdits, fileHeld>>
inputVars == <<outside, cache, app, caps, requests, rendered, phase, runs, first>>

NoCaps == [kube |-> "", api |-> <<>>]

InputsInit ==
  /\ hasFile \in BOOLEAN /\ file \in Contents /\ registry = [c \in Charts |-> 1]
  /\ cache = <<>> /\ app = 1 /\ caps = NoCaps /\ requests = <<>> /\ rendered = <<>>
  /\ phase = "start" /\ runs = 1 /\ fileEdits = 0 /\ fileHeld = {file} /\ first = <<>>

Fail ==
  /\ phase' = "failed"
  /\ UNCHANGED <<outside, cache, app, caps, requests, rendered, runs, first>>

-----------------------------------------------------------------------------
\* LoadHelmCapabilities

Acceptable(contents) ==
  /\ ~contents.misspelt
  /\ contents.kube \notin Nonsense /\ \A n \in DOMAIN contents.api : contents.api[n] # ""

LoadCapabilities ==
  /\ phase = "start" /\ (hasFile => Acceptable(file))
  /\ caps' = IF hasFile THEN [kube |-> file.kube, api |-> file.api] ELSE NoCaps
  /\ requests' = <<>> /\ phase' = "build"
  /\ UNCHANGED <<outside, cache, app, rendered, runs, first>>

RejectCapabilities == phase = "start" /\ hasFile /\ ~Acceptable(file) /\ Fail

-----------------------------------------------------------------------------
\* buildRequestsFromApplication, downloadHelmChart

sources == Applications[app]
source == sources[Len(requests) + 1]
Building == phase = "build" /\ Len(requests) < Len(sources)

chartDir(s) == <<s.chart, s.version>>

Request(got) == requests' = Append(requests, [source |-> source, got |-> got])

UseCached ==
  /\ Building /\ chartDir(source) \in DOMAIN cache
  /\ Request(cache[chartDir(source)])
  /\ UNCHANGED <<outside, cache, app, caps, rendered, phase, runs, first>>

\* helm pull takes the version named with --version, or the newest without.
Pulled(s) == IF s.version = AnyVersion THEN registry[s.chart] ELSE s.version

\* Mutant of Pull: the chart is not kept.
PullUncached ==
  LET dir == chartDir(source)
  IN  /\ Building /\ Pulled(source) <= registry[source.chart]
      /\ Request(Pulled(source))
      /\ first' = [d \in DOMAIN first \union {dir} |->
                     IF d \in DOMAIN first THEN first[d] ELSE registry[source.chart]]
      /\ UNCHANGED <<outside, cache, app, caps, rendered, phase, runs>>

Pull ==
  LET dir == chartDir(source)
  IN  /\ Building /\ dir \notin DOMAIN cache
      /\ Pulled(source) <= registry[source.chart]
      /\ Request(Pulled(source))
      /\ cache' = [d \in DOMAIN cache \union {dir} |->
                     IF d = dir THEN Pulled(source) ELSE cache[d]]
      /\ first' = [d \in DOMAIN first \union {dir} |->
                     IF d = dir THEN registry[source.chart] ELSE first[d]]
      /\ UNCHANGED <<outside, app, caps, rendered, phase, runs>>

PullFails == Building /\ chartDir(source) \notin DOMAIN cache /\ Fail

BuildDone ==
  /\ phase = "build" /\ Len(requests) = Len(sources)
  /\ phase' = "generate"
  /\ UNCHANGED <<outside, cache, app, caps, requests, rendered, runs, first>>

-----------------------------------------------------------------------------
\* The Helm calls, from the requests: applyTo put the capabilities on each.

OrDefault(own, default, none) == IF own # none THEN own ELSE default

Helm(request) ==
  [app |-> app, source |-> request.source, got |-> request.got,
   kube |-> OrDefault(request.source.kube, caps.kube, ""),
   api  |-> OrDefault(request.source.api, caps.api, <<>>)]

\* Mutant of Generate: the file is asked again for every source.
GenerateReloading ==
  LET Now(request) ==
        [Helm(request) EXCEPT
           !.kube = OrDefault(request.source.kube, IF hasFile THEN file.kube ELSE "", "")]
  IN  /\ phase = "generate" /\ requests # <<>>
      /\ rendered' = Append(rendered, Now(Head(requests)))
      /\ requests' = Tail(requests)
      /\ UNCHANGED <<outside, cache, app, caps, phase, runs, first>>

Generate ==
  /\ phase = "generate" /\ requests # <<>>
  /\ rendered' = Append(rendered, Helm(Head(requests)))
  /\ requests' = Tail(requests)
  /\ UNCHANGED <<outside, cache, app, caps, phase, runs, first>>

GenerateFails == phase = "generate" /\ requests # <<>> /\ Fail

\* The next Application of the run, or its end.
NextApplication ==
  /\ phase = "generate" /\ requests = <<>>
  /\ IF app < Len(Applications)
     THEN phase' = "start" /\ app' = app + 1 /\ fileHeld' = {file}
     ELSE phase' = "done" /\ UNCHANGED <<app, fileHeld>>
  /\ UNCHANGED <<hasFile, file, registry, fileEdits, cache, caps, requests, rendered, runs, first>>

RunAgain ==
  /\ phase \in {"done", "failed"} /\ runs < MaxRuns
  /\ runs' = runs + 1 /\ app' = 1 /\ phase' = "start"
  /\ caps' = NoCaps /\ requests' = <<>> /\ rendered' = <<>> /\ fileHeld' = {file}
  /\ UNCHANGED <<hasFile, file, registry, fileEdits, cache, first>>

-----------------------------------------------------------------------------
EditFile ==
  /\ fileEdits < MaxFileEdits /\ fileEdits' = fileEdits + 1
  /\ file' \in Contents /\ fileHeld' = fileHeld \union {file'}
  /\ UNCHANGED <<hasFile, registry, cache, app, caps, requests, rendered, phase, runs, first>>

Publish ==
  /\ \E c \in Charts : registry[c] < Newest /\ registry' = [registry EXCEPT ![c] = @ + 1]
  /\ UNCHANGED <<hasFile, file, fileEdits, fileHeld, cache, app, caps, requests, rendered, phase,
                 runs, first>>

InputsNext ==
  \/ LoadCapabilities \/ RejectCapabilities
  \/ UseCached \/ Pull \/ PullFails \/ BuildDone
  \/ Generate \/ GenerateFails \/ NextApplication \/ RunAgain
  \/ EditFile \/ Publish

InputsSpec == InputsInit /\ [][InputsNext]_inputVars

-----------------------------------------------------------------------------
\* What is asked of helm for a source that has been resolved, and what it is run with.
Requests == [source : ChartSources, got : Nat]
Calls == [app : Nat, source : ChartSources, got : Nat, kube : Text, api : Seq(STRING)]

\* Each variable ranges over what the code, the registries and the editor put in it.
TypeOK ==
  /\ hasFile \in BOOLEAN /\ file \in fileHeld /\ fileHeld \subseteq Contents
  /\ registry \in [Charts -> 1 .. Newest]
  /\ app \in DOMAIN Applications
  /\ caps \in [kube : Text, api : Seq(STRING)]
  /\ requests \in Seq(Requests) /\ rendered \in Seq(Calls)
  /\ Len(requests) <= Len(sources)
  /\ phase \in {"start", "build", "generate", "done", "failed"}
  /\ runs \in 1 .. MaxRuns /\ fileEdits \in 0 .. MaxFileEdits

\* Every source gets the version it names, or without one the version that was newest
\* when it was first asked for, in this run or an earlier one: the same ever after.
VersionsFixed ==
  \A n \in DOMAIN rendered :
    LET s == rendered[n].source
    IN  rendered[n].got = IF s.version # AnyVersion THEN s.version ELSE first[<<s.chart, AnyVersion>>]

\* "A misspelled key would be indistinguishable from a cluster that really is missing
\* the CRD": with a file, a source that pins nothing is never rendered with Helm's own
\* defaults unless the file asks for that, and all sources of an Application are
\* rendered with one version of the file.
OneClusterPerApplication ==
  phase \notin {"start", "failed"} =>
    \E c \in IF hasFile THEN fileHeld ELSE {[kube |-> "", api |-> <<>>, misspelt |-> FALSE]} :
      /\ ~c.misspelt /\ c.kube \notin Nonsense /\ "" \notin {c.api[n] : n \in DOMAIN c.api}
      /\ \A n \in DOMAIN rendered :
           LET r == rendered[n]
           IN  r.app = app =>
                 /\ r.kube = IF r.source.kube # "" THEN r.source.kube ELSE c.kube
                 /\ r.api = IF r.source.api # <<>> THEN r.source.api ELSE c.api
=============================================================================
