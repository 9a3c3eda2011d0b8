------------------------------- MODULE FileLists -------------------------------
(***************************************************************************)
(* The four ways the program collects files and directories:               *)
(*                                                                         *)
(*   "manifests"    manifestFiles (renderer.go), for --dir                 *)
(*   "directories"  GetDirectories (repos.go), for the Git generator       *)
(*   "files"        GetFiles (repos.go), for the Git generator             *)
(*   "mocks"        yamlFiles (clusters.go) and the loop of its callers,   *)
(*                  for cluster secrets and pull requests in a directory   *)
(*                                                                         *)
(* The first two walk the tree: filepath.WalkDir visits an entry, and if   *)
(* it is a directory lists it and visits what it listed, in the order of   *)
(* the names.  The others list first and then look at what they listed.    *)
(* The tree is a checkout, in which somebody may be working: entries come  *)
(* and go between the steps.                                               *)
(***************************************************************************)
EXTENDS Naturals, SequencesExt

CONSTANTS Entries,    \* all there may be: [path, kind], paths are sequences of names,
                      \* names are numbers in the order of the alphabet
          Hidden,     \* names that start with a dot
          Matching,   \* entries the pattern of a Git generator matches
          PathRank,   \* where each comes when whole paths are sorted as strings
          Starts,     \* sets of entries there may be at first
          MaxChanges  \* how often somebody changes the checkout meanwhile

Kinds == {"directory", "yaml", "other", "dangling"}   \* the last a link named .yaml

ASSUME EntryAssumption ==
  /\ \A e \in Entries : e.path \in Seq(Nat) \ {<<>>} /\ e.kind \in Kinds
  /\ \A e, f \in Entries : e.path = f.path => e = f
  /\ PathRank \in [Entries -> Nat] /\ \A e, f \in Entries : PathRank[e] = PathRank[f] => e = f
  /\ Matching \subseteq Entries
  /\ \A start \in Starts : start \subseteq Entries /\ IsFiniteSet(start)
  /\ \A start \in Starts : \A e \in start : \A n \in 1 .. Len(e.path) - 1 :
       [path |-> SubSeq(e.path, 1, n), kind |-> "directory"] \in start
  /\ MaxChanges \in Nat

VARIABLES use,        \* what files are collected for
          rootHidden, \* whether the name of the root itself starts with a dot
          tree,       \* the entries there are
          toVisit,    \* entries still to be looked at
          found,      \* what was collected
          stage,      \* "start", "walk", "read", "ok" or "error"
          changes,    \* how often the checkout was changed
          throughout, \* history: entries that have been there all the time
          ever        \* history: entries that have been there at some time

listVars == <<use, rootHidden, tree, toVisit, found, stage, changes, throughout, ever>>
checkout == <<use, rootHidden, tree, changes, throughout, ever>>

Root == [path |-> <<>>, kind |-> "directory"]

Walks == {"manifests", "directories"}

CollectInit ==
  /\ use \in {"manifests", "directories", "files", "mocks"} /\ rootHidden \in BOOLEAN
  /\ tree \in Starts /\ throughout = tree /\ ever = tree
  /\ toVisit = <<>> /\ found = <<>> /\ stage = "start" /\ changes = 0

Children(e) == {c \in tree : Front(c.path) = e.path}

\* The elements of a set in the order of their keys, which are different: the nth has
\* n - 1 before it.
Sorted(set, key) ==
  [n \in 1 .. Cardinality(set) |->
     CHOOSE e \in set : Cardinality({d \in set : key[d] < key[e]}) = n - 1]

ByName(entries) == Sorted(entries, [e \in entries |-> Last(e.path)])

\* An error ends it: what was found until then is not returned.
CollectFails == stage' = "error" /\ UNCHANGED <<checkout, toVisit, found>>

-----------------------------------------------------------------------------
\* The walks

StartWalk ==
  /\ stage = "start" /\ use \in Walks
  /\ toVisit' = <<Root>> /\ stage' = "walk"
  /\ UNCHANGED <<checkout, found>>

Visiting == stage = "walk" /\ toVisit # <<>>
entry == Head(toVisit)
isDir == entry.kind = "directory"
hidden == IF entry = Root THEN rootHidden ELSE Last(entry.path) \in Hidden

\* manifestFiles makes an exception for the directory it was pointed at.
Skipped == isDir /\ hidden /\ (use = "directories" \/ entry # Root)

SkipHidden ==
  /\ Visiting /\ Skipped
  /\ toVisit' = Tail(toVisit)
  /\ UNCHANGED <<checkout, found, stage>>

Enter ==
  /\ Visiting /\ isDir /\ ~Skipped
  /\ entry \in tree \union {Root}
  /\ found' = IF use = "directories" /\ entry # Root THEN Append(found, entry) ELSE found
  /\ toVisit' = ByName(Children(entry)) \o Tail(toVisit)
  /\ UNCHANGED <<checkout, stage>>

\* Mutant of WalkFails: a directory that cannot be listed is passed over.
PassOverDirectory ==
  /\ Visiting /\ isDir /\ ~Skipped
  /\ toVisit' = Tail(toVisit)
  /\ UNCHANGED <<checkout, found, stage>>

\* A directory that is gone, or may not be listed, fails the walk.
WalkFails == Visiting /\ isDir /\ ~Skipped /\ CollectFails

VisitFile ==
  /\ Visiting /\ ~isDir
  /\ found' = IF use = "manifests" /\ entry.kind # "other" THEN Append(found, entry) ELSE found
  /\ toVisit' = Tail(toVisit)
  /\ UNCHANGED <<checkout, stage>>

-----------------------------------------------------------------------------
\* The lists

\* GetFiles returns a map: the order in which it reads what matches does not matter.
List ==
  /\ stage = "start" /\ use \notin Walks
  /\ IF use = "mocks"
     THEN toVisit' = ByName({e \in Children(Root) : e.kind \in {"yaml", "dangling"}})
     ELSE toVisit' = SetToSeq(Matching \intersect tree)
  /\ stage' = "read"
  /\ UNCHANGED <<checkout, found>>

ListFails == stage = "start" /\ CollectFails

Reading == stage = "read" /\ toVisit # <<>>

\* GetFiles keeps files only.
SkipDirectory ==
  /\ Reading /\ use = "files" /\ isDir
  /\ toVisit' = Tail(toVisit)
  /\ UNCHANGED <<checkout, found, stage>>

\* Mutant of ReadEntry: whether it is still there is not looked at.
ReadStale ==
  /\ Reading /\ ~isDir
  /\ found' = Append(found, entry) /\ toVisit' = Tail(toVisit)
  /\ UNCHANGED <<checkout, stage>>

ReadEntry ==
  /\ Reading /\ ~isDir
  /\ entry \in tree /\ entry.kind # "dangling"
  /\ found' = Append(found, entry) /\ toVisit' = Tail(toVisit)
  /\ UNCHANGED <<checkout, stage>>

\* It is gone, or cannot be read.
ReadFails == Reading /\ CollectFails

\* Mutant of Finish: what was collected is left in the order of the walk.
FinishUnsorted ==
  /\ stage \in {"walk", "read"} /\ toVisit = <<>>
  /\ stage' = "ok"
  /\ UNCHANGED <<checkout, toVisit, found>>

\* The places of what was found, sorted.
byPath == Sorted(DOMAIN found, [n \in DOMAIN found |-> PathRank[found[n]]])

\* manifestFiles sorts the paths once more, as strings: "apps-old/x" before "apps/x".
Finish ==
  /\ stage \in {"walk", "read"} /\ toVisit = <<>>
  /\ stage' = "ok"
  /\ found' = IF use = "manifests" THEN [n \in DOMAIN found |-> found[byPath[n]]] ELSE found
  /\ UNCHANGED <<checkout, toVisit>>

-----------------------------------------------------------------------------
\* Somebody works in the checkout.

Edited ==
  /\ stage \in {"start", "walk", "read"}
  /\ changes < MaxChanges /\ changes' = changes + 1

RemoveEntry ==
  /\ Edited
  /\ \E e \in tree : tree' = {d \in tree : ~IsPrefix(e.path, d.path)}
  /\ throughout' = throughout \intersect tree'
  /\ UNCHANGED <<use, rootHidden, toVisit, found, stage, ever>>

AddEntry ==
  /\ Edited
  /\ \E e \in Entries \ tree :
       /\ Front(e.path) \in {d.path : d \in {d \in tree \union {Root} : d.kind = "directory"}}
       /\ tree' = tree \union {e}
  /\ ever' = ever \union tree'
  /\ UNCHANGED <<use, rootHidden, toVisit, found, stage, throughout>>

CollectStep ==
  \/ StartWalk \/ SkipHidden \/ Enter \/ WalkFails \/ VisitFile
  \/ List \/ ListFails \/ SkipDirectory \/ ReadEntry \/ ReadFails \/ Finish

CollectNext == CollectStep \/ RemoveEntry \/ AddEntry

CollectSpec == CollectInit /\ [][CollectNext]_listVars

-----------------------------------------------------------------------------
\* The directories on the way to an entry, and the entry itself if it is one.
DirectoryNames(e) == Range(IF e.kind = "directory" THEN e.path ELSE Front(e.path))

InSight(e) == DirectoryNames(e) \intersect Hidden = {}

\* What each use is after.
Wanted(e) ==
  CASE use = "manifests"   -> e.kind \in {"yaml", "dangling"} /\ InSight(e)
    [] use = "directories" -> e.kind = "directory" /\ InSight(e)
    [] use = "files"       -> e \in Matching /\ e.kind # "directory"
    [] use = "mocks"       -> e.kind # "directory" /\ e.kind # "other" /\ Len(e.path) = 1

\* "Every directory below the repository root": what is there all the time is found.
EveryEntryFound == stage = "ok" => {e \in throughout : Wanted(e)} \subseteq Range(found)

\* That holds unless the Git generator is given a checkout in a hidden directory.
EveryEntryFoundUnlessRootHidden ==
  ~(use = "directories" /\ rootHidden) => EveryEntryFound

\* Nothing is found that is not wanted, was never there, or was found before; and a
\* file whose contents were taken was there when they were.
NothingElseFound ==
  /\ \A n \in DOMAIN found : found[n] \in ever /\ Wanted(found[n])
  /\ \A m, n \in DOMAIN found : found[m] = found[n] => m = n
  /\ \A n \in DOMAIN found : use \notin Walks => found[n].kind # "dangling"

Precedes(p, q) ==
  \E n \in 1 .. Len(q) :
    /\ SubSeq(p, 1, n - 1) = SubSeq(q, 1, n - 1) /\ n <= Len(p) + 1
    /\ n <= Len(p) => p[n] < q[n]

\* "Sorted so that a render of the same tree keeps producing the same output"
\* (manifestFiles): files come in the order of their paths as strings, and directories
\* and mocks in that of the names on their paths, whatever order the disk has them in.
InOrderOfPath ==
  stage = "ok" /\ use # "files" =>
    \A m, n \in DOMAIN found : m < n =>
      IF use = "manifests" THEN PathRank[found[m]] < PathRank[found[n]]
      ELSE Precedes(found[m].path, found[n].path)

=============================================================================
