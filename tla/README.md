# Verification of local-argocd-renderer

The renderer turns Argo CD Applications and ApplicationSets into the manifests a
cluster would get, without a cluster. This directory holds TLA+ models of it, the
TLC runs that check them, and proofs that TLAPS checks.

    tlc -config ApplicationRender.cfg MCApplicationRender
    tlapm ApplicationRenderProofs.tla

`PROJECT.json` lists runs, theorems, hazards and findings, and maps every definition to
the lines it models.

## Inventory

| Component | Code | State it keeps | Operations | What makes it correct |
|---|---|---|---|---|
| Application renderer | `renderer.go` 308-502, 547-574, 684-832 | requests, manifests, overlay directories on disk, deferred removals | build requests, detect the type, drop tests, make an overlay, generate, normalise, sort | overlays go on every return path; the checkout is never edited; a source keeps its tool; either all resources or an error |
| References between sources | `refsource.go` | the targets and paths tables | collect, validate, look up | a `$name` never resolves to nothing; a source that is only referred to is not rendered |
| Scope, deduplication, order | `scope.go`, `sortObjects` | scopes of CRDs of the render | `IsNamespaced`, normalise, sort | last definition and last manifest win; one order |
| Chart cache | `downloadHelmChart` | a directory shared by all runs of the program | look up, `helm pull`, rename | an entry is its chart, whole, and stays |
| Template pipeline | `renderer.go` 101-307, 519-545, 576-682, `main.go` | results per document, file and run | scan, split, dispatch, merge, print | every Application once, in order, with its warnings, or nothing |
| ApplicationSet expansion | `applicationset.go` | which generators were reached | stand in for client, repository and provider; expand, warn | limited generators are warned about; nothing is made of two versions of a file |
| Output directory | `main.go` 118-181 | counters, files | save | no object is written over another; a repeated run repairs |
| Pull request generator | `pullrequests.go` | pull requests loaded once | load, filter, parameters, values | file read once; only matching pull requests |
| Cluster secrets | `clusters.go` | - | load, unwrap lists, move namespace | no secret lost |
| Helm capabilities | `capabilities.go` | - | load, validate, apply | bad files rejected before rendering; one cluster per Application |
| Repository stand-in | `repos.go` | - | `GetFiles`, `GetDirectories` | as the repo-server |
| Self-update | `selfupdate.go` | the binary and its mode | check, pre-flight, install, chmod | never backwards; a binary in place; mode restored |

`main` calls the template pipeline, which calls the expansion for an ApplicationSet and the
renderer for each Application; the renderer calls the chart cache while it builds requests
and Argo CD's code for each of them. The expansion reads mock files and the checkout through
the loaders. The results go to stdout or to the output directory. Self-update is a path of
its own in `main`.

One process is one thread. What is concurrent is several processes (a Makefile, CI jobs)
sharing the chart cache and its extraction directories, with the `helm` processes they
start, which outlive a killed parent; several updates of one binary; and somebody who edits
mock files, the capabilities file or the checkout, and registries that publish, while a
render goes on. What is hard elsewhere is partial failure (every call into Argo CD, helm or
the file system may fail, and a run may be killed and repeated), order (Go maps, an unstable
sort), and values that change meaning on the way (a helm block that retypes a source, a URL
under two spellings, a definition that comes after the resource it scopes).

## Modules

| Module | Models |
|---|---|
| `RefSources` | `refsource.go`, as operators on a sequence of sources |
| `TargetObjects` | `scope.go`, the normalisation, `sortObjects`, as operators on a sequence of manifests |
| `ApplicationRender` | `renderApplication` step by step; uses the two above |
| `RenderContract` | what rendering one Application promises, as one step |
| `TemplateRun` | the command, from flags to stdout, over files and documents |
| `SaveManifests` | `--output-dir`, over repeated runs |
| `RenderToDirectory` | `TemplateRun` and `SaveManifests` composed |
| `ChartCache` | `downloadHelmChart` in several runs, and their helms |
| `ChartStore` | what the cache promises its callers |
| `RenderInputs` | the capabilities file, and charts without a version, over Applications and runs |
| `LocalInputs` | the mock files and what is selected from them, as operators |
| `ApplicationSetExpansion` | `GenerateApplications` call by call; uses `LocalInputs` |
| `ExpansionContract` | what an expansion promises, as one step |
| `FileLists` | the four ways files and directories are collected |
| `SelfUpdate` | `--self-update` and `--check-update` in several runs |
| `MC...` | small instances for TLC |
| `InputsProofs` | proofs about `FileLists`, `ApplicationSetExpansion` and `RenderInputs` |
| other `...Proofs` | proofs about the module before "Proofs" |
| `DataLemmas` | what those proofs share: induction, flattening, the listing of a finite set in an order |

**ApplicationRender.** `pc` is where `renderApplication` is: `build` in the loop of
`buildRequestsFromApplication`, `detect`, `overlay`, `fill` and `generate` in its own,
and `i` counts sources, then requests. `tempDirs` are the overlay directories on disk and
`deferred` the ones a `defer` will remove, so that the time in between, inside
`kustomizeOverlay`, is a state of its own. `calls` records how `GenerateManifests` was
called. An object is its sort keys, the kind it defines if it is a CRD, and a body. Every
failure is an action that returns at once. `GetAppSourceType`, `GenerateManifests` and
`NormalizeTargetObjects` are Argo CD's and modelled as the code and its comments use
them. In particular a non-empty helm block makes a source a Helm one, and what is
rendered by a tool other than the source's own comes out empty. `request.ApplicationSource`
is a copy of the source, but `Helm` a pointer shared with the Application; the model
takes the copy to be deep, as the merge of source parameters in `GetAppSourceType` makes
it. JSON that does not parse is not modelled: manifests are JSON when they leave
`GenerateManifests`.

`KeepsContract` refines `RenderContract`, which is written differently on purpose: it
names every manifest by source, part and place, and says declaratively which survive,
where they are placed, which Applications can be rendered at all, and that there is an
outcome, with no loops, requests or reference tables. Its `Safety` is proved, see Proofs.

**ChartCache.** `pc[r]` and `helm[r]` are a run and its helm process; `extract[b]` is the
directory helm extracts a chart with base name `b` to and `entry[c]` the cache entry of
chart `c`, each as a set of at most one directory. A directory maps files to the charts
whose data they hold and the helms that have them open, and is carried along as a value by
rename, so that a helm writes into files it opened wherever they are now. `helm pull --untar`
is external: stat, mkdir, then open and write per file, failing or being killed anywhere.
`crowded` is a history variable: the base names that two helms were extracting at the
same time. The hash is taken to be injective.

**TemplateRun.** `document`, `file` and `run` are the three `TemplateResult`s under
construction. `files` and `documents` are what is left of the sorted files and of the
documents of the `current` one; the least is next. A generator is data: what it reaches and generates, by the mock files it is
given. Rendering one Application is a step that gives its objects or fails; that is
`ApplicationRender`'s contract. The three entry points for a single Application or
ApplicationSet call the same functions and are not told apart.

**SaveManifests.** A name is a stem and the numbers it ends in, so that "a" with the
counter 2 and "a-2" are the same file, as they are on disk. A file on disk says which
attempt wrote it, and which object it holds, none if the write failed half way. The command
is run again into the same directory, for the same or another tree, after a success, a
failure or a kill (`RunAgain`); `before` is what was on disk then and `earlier` what the
attempts before have rendered.

**RenderToDirectory** takes `main`, the documents and the merging from `TemplateRun` and,
where that would print, `Begin`s to save what it has merged. `Applications` is all that
can come out of the trees. Only the directory is carried
from a run to the next; the tree is edited in between.

**RenderInputs.** `caps` is loaded by `LoadCapabilities` at the beginning of each
Application, from what `file` holds then; `EditFile` changes it at any time. `cache` maps a chart
and the version asked for, `AnyVersion` if none was, to the version pulled. An entry appears in one
step here: `ChartCache` has the steps.

**LocalInputs and ApplicationSetExpansion.** `clusterSecretsFromDocument` recurses through
lists (`Depth` says how deep those of a document are nested, because a text has an end),
nulls are passed over, and one rejected document rejects the file. `agenda` is what
upstream's code has yet to call: an `item` is a row of parameters with the generators of its
matrix that it still has to go through. `CallPullRequest` loads the pull requests when it is
first called, and again if the file was rejected; `Edit` changes that file between any two
calls. The clusters file is read once, before all, so edits of it make no difference.
`ExpansionContract` says that the outcome, once there, is that of one version of each file,
by `Expected`, which multiplies out the matrices with no agenda or flags.
Simplifications: a matrix is of leaf generators, with no parameters of the first in the
second; there are no merge generators and no selectors; the Git generator is a list, because
the checkout it reads is the business of `FileLists`; a template is the name of a parameter;
of a pull request's parameters number, branch and labels are kept.

**FileLists.** A path is a sequence of names, which are numbers in alphabetical order;
`PathRank` is the order of whole paths as strings, which differs. `toVisit` has what was
listed and not yet looked at; a walk puts a directory's children at the front when it enters
it. `RemoveEntry` and `AddEntry` are the user's edits, and `throughout` and `ever` keep what
there was all the time and at any. What a glob matches is given by `Matching`.

**SelfUpdate.** `pc[r]` goes through `selfUpdate` and, from `open` to `clean`, the updater
library, one file operation per step. `binary`, `new` and `old` are the three names in the
directory; a file holds contents, a mode and the runs that have it open, and stays the same
file when it is renamed. Releases are numbers, and a build is some commits ahead of one.
`mishaps` is a history: that updates `overlap`ped, or one was killed between the two renames
(`swap`), or failed or was killed before the mode was back (`chmod`). Looking up the
executable's path and its mode is one step.

## Runs

| Run | Bounds | Shows |
|---|---|---|
| `application_render` | one or two sources out of 16, three out of 5, two that are only referred to; all options | all safety properties, refinement of the contract with its termination |
| `application_render_order` | two sources out of 3 | violated: `StableOrder` |
| `template_run` | two files of up to two documents out of ten contents, one file the walk leaves out, every combination of mock files | what is merged and printed |
| `chart_cache` | 3 runs, 2 versions of a chart, 1 file | entries whole, abandoned pulls stay, refinement of `ChartStore` |
| `chart_cache_calls` | 2 runs, 2 charts of different base names, 2 files | charts do not mix across base names; calls return |
| `save_manifests` | none, one or two Applications, of one name too, with selections of 6 and 4 objects; 2 attempts | no file written over, with exceptions; saving only adds; repeating repairs |
| `save_manifests_numbered` | selections of 4 objects | violated: `DistinctFiles` |
| `render_to_directory` | two files of five contents, 2 runs | every object of the tree on disk, nothing before all is rendered, runs end |
| `render_inputs` | 2 Applications of 2 sources, 2 runs, 2 edits among 5 contents, 3 versions | versions fixed, one cluster per Application |
| `expansion` | 8 lists of generators, 3 kinds of templates, 8 clusters files, 6 pull requests files, 1 edit | secrets found, pull requests selected, values, warnings, refinement of the contract |
| `file_lists` | 11 entries over three levels, 2 edits, each of the four uses | nothing missed, nothing else, order |
| `self_update` | 2 runs, started any number of times, 2 releases, 3 builds | what is installed, its version and its mode; updates end |

The bounds are the smallest in which each complication meets each other: two sources are
enough for a reference and for a duplicate, three for two definitions and a resource of
the kind; two runs for every race on a directory, three for an orphan beside two live
ones; a file of a chart is written in two steps, so that one file is enough for a chart that
is half there, and two for one that has only some of its files. Two attempts at saving are
the failed one and the one that repairs it. One edit of the pull requests file falls between
any two calls, and a second would be seen by nobody who has not loaded it anew; two edits of
the capabilities file change it and change it back. Two updates are an overlap. A run calls
the cache, or updates, any number of times.
The processes of `chart_cache` are symmetric; runs that check liveness use no symmetry
(the contract of `chart_cache` is a safety property). Runs that end stop, hence no deadlock
check.

Fairness: `ApplicationRender`, `ApplicationSetExpansion` and `RenderToDirectory` are one
thread, so weak fairness of its steps says that it keeps going and that tools come back.
`ChartCache` has weak fairness for each run and each helm, `SelfUpdate` for each run, and
none of them for calls, failures by themselves, kills, edits and publishing. The code waits
for helm and for GitHub without a timeout of its own, so that these come back is an
assumption and not a result. That it repeats nothing for ever is one: see the mutants of
`EveryCallReturns`, `RunsEnd` and `UpdatesEnd`.

Each property of a passing run has a mutant, a plausible wrong version of one definition
beside the right one, under which TLC finds it violated.

## Findings

Shown by runs that TLC finds violated:

- `DistinctFiles`: "Distinct objects must never share a filename" (`determinism_test.go:95`)
  does not hold of ConfigMaps `a` in `x`, `a-2` in `x` and `a` in `y`: the last is counted
  second and written to `configmap-a-2.yaml` over the object named so.
  `DistinctFilesUnlessNumbered` is what does hold.
- `StableOrder`: `sortObjects` promises "a stable order" (`renderer.go:504`). Objects with a
  `generateName` and no name compare equal, and come out of a map.
  `NamedObjectsStable` is what does hold.

Conditions of properties that hold, each a weakness of the code that TLC shows when the
condition is dropped (check the definition named instead, with the same configuration):

- `EveryEntryFound` without "UnlessRootHidden": `GetDirectories` tests the root of its walk
  for a hidden name before it recognises it as the root (`repos.go:89`). With a checkout in a
  directory like `.worktree` a Git directory generator yields nothing and nothing is said,
  although "every directory below the repository root" is promised (`repos.go:72`).
  `manifestFiles` makes the exception (`renderer.go:585`).
- `EverySecretFound` without "UnlessNamesCollide": secrets are "moved into namespace so that
  the generator [...] finds it" (`clusters.go:26`). Two of one name from two namespaces are then
  two objects of one name, and the fake client panics (`applicationset.go:143`).
- `EveryRepoItsPullRequests` without "IfOneProvider": of a generator with Bitbucket and Azure
  DevOps the repository is that of the one and the labels are those of the other
  (`pullrequests.go:127`, `pullrequests.go:113`), which the provider used does not filter on.
- `ModePreserved` without "overlap": "the file mode is preserved" (`README.md:126`). A second
  update that reads the mode after the first has installed, with 0755, and before it has put
  the mode back, restores 0755. Overlapping updates may also install a file that both have
  written to, or an older release; but a binary stays in place (`BinaryInPlace`).
- `WholeUnlessCrowded`: two runs pulling two versions of a chart at the same time can leave a
  cache entry that mixes them.

And `AbandonedStays`: a pull that fails half way blocks its base name until somebody removes
the directory. `RetryRepairs` is about runs for the same tree: files that only another tree
had, whole or torn, stay in the output directory, as `SavingOnlyAdds` says.

## Proofs

Every invariant the runs check is also a theorem, for every value of the constants the
named assumptions admit, and so are the action properties and the safety part of the three
refinements.

None of the properties proved is inductive. Each module's theorem `Invariant` (in
`ChartCacheProofs` and `TemplateRunProofs`, the steps of the theorems; in
`RenderToDirectoryProofs`, `Composed`; in `InputsProofs` `CollectInvariant`,
`ExpansionInvariant` and `InputsInvariant`) has the strengthening and its three parts: it holds
initially, every action preserves it, and it implies the property.

*DataLemmas.* The induction theorems of the library take an operator, which the provers
cannot instantiate. That a set of numbers has a least element needs none: the library has
it for the well-founded order of finite sets by inclusion, and n is the set of the numbers
below it. `LeastElement` and `NatSetInduction` follow, for a set in place of the predicate,
and with these what `FlattenSeq`, a recursive function, does to every sequence of sequences
(`FlattenType`, `FlattenConcat`), and that a finite set can be listed in an order in one way
and no other (`ListExists`, `ListUnique`). `SortSeq` and `SelectSeq`, which the library defines
by a choice of permutation and by recursion, are not used where something is proved:
`Sorted` and `OnlyAt` say the same.

*TemplateRunProofs*, for any trees and calls of the command, from `TreeAssumption`: paths
tell the files of a tree apart, and documents, generators, Applications and what these
render to come in sequences. `PlaceInv` has what is at hand at each place of the run. A list
of Applications `Enumerates` a set of emissions when it has each of them once, and none
before one that precedes it; `OrderInv` says that `run.apps` so lists the files dealt with,
`file.apps` the documents dealt with, and `document.apps` with `apps` the one at hand.
Merging keeps that (`EnumeratesConcat`), and so does the sort that may put those of one name
in any order (`EnumeratesSorted`). `EveryApplicationOnce` follows with the cardinalities
that a bijection keeps, and `InTreeOrder` with the order. `Grouped` and `Warns` are what
merging two results keeps of each, and `OutputInv` is that what has been printed is a
beginning of what there is to print.

*RenderToDirectoryProofs*, for any trees, calls and number of runs, from
`ApplicationAssumption`: that of `TemplateRun`, and Applications have names and objects with
kinds and names. The proofs of `TemplateRun` and `SaveManifests` are instantiated, their
assumptions proved of the instances, and every step of the composition is shown to be one of
either or to leave it alone; a kill ends a run from anywhere (`EndKeeps`), and another begins
as the first did. `LinkInv` ties the two: saving goes on where printing would, and then, and
after a success, what is saved is what was rendered. With `OrderInv` of the one and
`SavedInv` and `WrittenInv` of the other it gives `EveryObjectOnDisk` and
`NothingSavedBeforeAllRendered`.

*ApplicationRenderProofs*, for any Applications, sources, kinds, URLs and options, from the
assumptions on constants in `RefSources` and `ApplicationRender` (a helm block is a record
of references and two flags; an Application has a sequence of sources). `RenderInv` adds

- `Progress`: `Len(calls) = i - 1` in the loop, so a step appends the call of request `i`;
- `OverlaysTracked`: `tempDirs` is `deferred`, plus `i` while inside `kustomizeOverlay`.
  With that every return empties it, which gives `OverlaysReleased`, and in `generate` the
  overlay is there, which gives `CheckoutUntouched`;
- `TypesTracked`: each request has the type of its source, also after its tests were
  dropped, because that happens to Helm sources only and sets a field that itself makes
  one. A source seen as Kustomize has an empty helm block, so the overlay is of the
  same type. This gives `SourceTypeKept`;
- `RefsDeclared`: `validateRefs` let through declared names only, and every declared name
  has a path under its normalised URL. This gives `RefsResolve`;
- `ManifestsTyped`: the manifests are a sequence of objects, with numbers for the keys of
  the sort (`ObjectAssumption`). Of those that are kept each has another place, and if names
  tell them apart `Before` orders them strictly, so that by `ListUnique` there is one way to
  sort them. This gives `NamedObjectsStable`.

`ImplementsContract` says that every step of `ApplicationRender` is one of `RenderContract`
or leaves all the contract speaks of alone. It takes `ContractInv` on top of `RenderInv`:

- `SourcesTracked`: the sources passed so far are fine by `validateRefs` and the path
  checks, and the indexes of the requests are those of the sources that render, ascending.
  So what gets as far as being rendered is `WellFormed` (`BuiltWellFormed`);
- `TestsTracked`: a request renders what its source does, and when its tests are to be left
  out its block says so by the time it is rendered. So each call generates what the contract
  has that source emit (`GeneratesProduced`);
- `ManifestsTracked`: some function tells of each manifest generated so far which emission
  it is, onto those of the sources done and later ones later (`ListingsConcat`: a source's
  emissions can be put after those of the sources before it).

On return that function makes the rest a matter of data. By it the last definition of a kind
among the manifests is the last among the emissions (`SameScope`), so an object is placed the
same (`SameObject`), is the same resource as another (`SameResources`), is kept and warned of
(`SameChoice`, `SameWarnings`), and any order `sortObjects` may leave is one of the surviving
emissions, each as often as it should be, sorted (`SameResult`). `NothingAssumption` says that the absence
of a result is no list of objects. `ReturningKeepsContract` adds the outcome, for a call that
comes back: that every call does is liveness, and TLC's.

*ChartCacheProofs*, for any finite or infinite set of runs, any charts and number of files,
from `FilesAssumption`: type correctness, `ReturnedEntryExists`, `OnlySameBaseMixes`,
`AbandonedStays`, the refinement of `ChartStore`, and `WholeUnlessCrowded`. `AllFit`
strengthens `OnlySameBaseMixes`: a directory extracted for a base name holds data, and open
files, of that name's charts and helms alone, and a helm's run keeps its chart while it works
(`HelmHasRun`). `WholeInv` strengthens `WholeUnlessCrowded`: while a base name is not
crowded one run at most uses its directory (`OneUser`), every file before the one that run's
helm is `at` is whole and its own chart's, every later one is not there (`SoFar`, `AtFile`),
and once the helm has succeeded all are (`Progress`).

*InputsProofs, FileLists*, for any checkout of finitely many entries, any hidden names,
patterns and order of paths, and any number of changes, from `EntryAssumption`: a path
has one entry and the directories it leads through are there, as on disk. `CollectInv` has

- `OrderOK`: what is still `toVisit` is spread over paths none of which is below another, in
  their order, and what was found comes before all of it. Entering a directory puts its
  children, ordered by name (`Sorted`), where it was (`ApartBelow`), so this is kept however
  the tree changes;
- `CompleteOK`: every entry that is wanted and has always been there was found, or is at or
  below one of those to be visited. For a step down that takes the directories on its path
  to be there all the time as well (`CheckoutOK`), and not to be hidden;
- `VisitOK`, `FoundOK`: what is to be visited is in sight, what was found is wanted;
- `SortedOK`: the last sort of `manifestFiles`.

These give `EveryEntryFoundUnlessRootHidden`, `NothingElseFound` and `InOrderOfPath`.

*InputsProofs, ApplicationSetExpansion*, for any ApplicationSets of the generators modelled,
any clusters and pull requests files and any number of edits, from `DocumentAssumption`,
`AppSetAssumption` and `FileAssumption`: data come in sequences, the lists in a document end,
a matrix has two generators, and no value has a name that a parameter has (the code puts
"values." before them). `ExpansionInv` has

- `PullsOK`, `CallsOK`: what is used of the pull requests file is what one version of it
  said, loaded by the first generator that asked, and every generator called was answered
  from it;
- `TrackOK`: until a generator fails, what was made followed by what the agenda will come to
  is what all the generators come to (`ComesTo`), and this for all versions of the files that
  agree with what was seen so far (`Agreeing`): for any at the beginning, and only for those
  that were read once every generator has asked. A matrix half way is some items with a row
  begun; that these flatten to the rest of the product, and that an item given up takes with
  it just its own generator's, are the lemmas on `ItemResults`;
- `FailedOK`: once something failed, some version of the file explains the error.

With an empty agenda `TrackOK` says that the outcome is `Expected` of one version. So every
step is one of `ExpansionContract` or leaves what it speaks of alone (`ExpansionIsSafe`):
calls and edits are its `Edit` or stutter, and the return is its `Expand`.
`EndingKeepsContract` adds the outcome, for an expansion that ends. That `TrackOK` is about
all the versions that agree also gives `WarnedWhenLess`: where no warning is given, no
generator asked for the file, so that any contents of it would have come to the same.
`ValuesFromParametersOnly` and `EveryRepoItsPullRequestsIfOneProvider` follow from `CallsOK`.
For `EverySecretFoundUnlessNamesCollide` the clusters file is followed down its lists. The
two functions that go through them, of secrets and of leaves, are defined by recursion; that
they satisfy their equations is proved with `NatSetInduction` on the depth of documents
(`SecretsBelowExist`, `LeavesBelowExist` and that they are unique), and that they match,
secret for leaf, by another induction.

*InputsProofs, RenderInputs*, for any Applications, file contents, versions and numbers of
runs, from `InputAssumption`. `CacheInv`: an entry has the version asked for, or what was
newest when it was made; `VersionInv`: so has every request and call. `CapsInv`: `caps` is
what the file has held, acceptably, since the Application began, and all its calls took what
they do not pin from it. These give `VersionsFixed` and `OneClusterPerApplication`.

*SaveManifestsProofs*, for any rendered results with sequences of objects, from
`ResultAssumption`. `SeenInv`: a counter is the number of earlier objects with that base
name, as a cardinality, so that of two objects with one base name the later has the greater
counter; where no name ends in a number, equal paths then mean equal objects. `SavedInv`:
every object before the present one is on disk under its path, and if only one result was
ever saved every file on disk is under the path of one of its objects. These give
`DistinctFilesUnlessNumbered`, `SavingOnlyAdds` and `RetryRepairs`.

*SelfUpdateProofs*, for any number of runs, releases and builds, from `BuildAssumption`.
`Alone`: unless updates overlapped one is under way at most, and runs that only check get no
further than looking. `TargetInv`: a run beyond that has found a newer release. `FilesInv`:
the binary and the old file are one build each, and the new one is the target when it is
moved in, whatever killed runs have left. `VersionInv` and `ModeInv` follow the version and
the mode through the three names. They give `InstalledWhole`, `NeverBackwards` and
`ModePreserved`. `BinaryInPlace` needs no more than the type invariant and holds of
overlapping updates too. `OwnedInv` and `OpenInv` (who only checks, or was not allowed to
go on, has no file open) give `KeepsHandsOff`.

Model-checked only: liveness under fairness, beyond the prover. These are
`EveryCallReturns`, `RunsEnd` and `UpdatesEnd`, and the termination that `RenderContract` and
`ExpansionContract` promise, which `ReturningKeepsContract` and `EndingKeepsContract` assume
of a call. What TLC finds violated (see Findings) is of course no theorem.

## Not modelled

Argo CD, helm, kustomize, git, the updater library and the ApplicationSet controller
themselves, other than as above; YAML; the text of warnings and errors and the order of
warnings; slugs, short SHAs and what they do to a library's globals; Go templates beyond
naming a parameter; merge generators, matrices of matrices, selectors; the patterns of
globs; modes of files other than the binary; `--version`, the log level; interrupts of a
render (the overlay directories of a killed run stay in the system's temp directory, as
`defer` does not run). These are formatting, or code that is not in the repository.

## Plan

Done: the core (`ApplicationRender`, `TemplateRun`, `ChartCache`), what was left of the
components (`SelfUpdate`, `LocalInputs`, `ApplicationSetExpansion`, `FileLists`,
`RenderInputs`), the composition `RenderToDirectory`, and proofs of all components. What
could be added:

1. Merge generators and parameters of a first generator in the second of a matrix, with
   `ItemResults` of an item whose row the second is called with.
2. `ApplicationRender` calling `RenderInputs`' capabilities and cache in one composition.
