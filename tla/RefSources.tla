----------------------------- MODULE RefSources -----------------------------
(***************************************************************************)
(* spec.sources[].ref (refsource.go): a source of an Application with      *)
(* several sources may take value files out of a sibling source, by naming *)
(* that sibling's `ref` as $name.  Which source a $name stands for, which  *)
(* sources exist only to be referred to, and which references are rejected *)
(* before anything is rendered, are decided by the operators below.        *)
(*                                                                         *)
(* A source is a record                                                    *)
(*   repo   its repoURL, or NoRepo when the manifest leaves it out         *)
(*   ref    its ref, or NoRef                                              *)
(*   path   "none", "inside" a directory of the checkout, or "outside":    *)
(*          absolute, escaping the root, or not a directory                *)
(*   chart  the chart it names in a registry, or NoChart                   *)
(*   helm   its helm block: NoBlock or [vars, skipTests, other], where     *)
(*          vars are the $names its valueFiles and fileParameters begin    *)
(*          with, and other says that some other field of it is set        *)
(*   dir    what the directory it resolves to holds (see ApplicationRender)*)
(*   objs, tests   what the tool renders it to (see ApplicationRender)     *)
(***************************************************************************)
EXTENDS Naturals, Sequences

CONSTANTS Repos,        \* spellings of repository URLs
          NoRepo,       \* an empty repoURL
          Refs,         \* values of spec.sources[].ref, and of the $names
          NoRef,        \* an empty ref
          LegalRefs,    \* the Refs that refKeyPattern matches
          NoChart,      \* an empty chart
          NoBlock,      \* no helm block (a nil pointer)
          NormalURL(_)  \* git.NormalizeGitURL

ASSUME RefAssumption ==
  NoRepo \notin Repos /\ NoRef \notin Refs /\ LegalRefs \subseteq Refs

Multi(sources) == Len(sources) > 1
IsRef(s) == s.ref # NoRef
IsHelm(s) == s.chart # NoChart

isRefOnlySource(s, multi) == multi /\ IsRef(s) /\ s.path = "none" /\ ~IsHelm(s)

Referable(sources) == {i \in DOMAIN sources : Multi(sources) /\ IsRef(sources[i])}

\* refTargets gives up on a ref it cannot use as a $name, and on a second
\* source with the ref of an earlier one.
refTargetsFails(sources) ==
  \E i \in Referable(sources) :
    \/ sources[i].ref \notin LegalRefs
    \/ \E j \in Referable(sources) : j < i /\ sources[j].ref = sources[i].ref

\* The map from each $name to the source that declared it.
refTargets(sources) ==
  [name \in {sources[i].ref : i \in Referable(sources)} |->
     LET s == sources[CHOOSE i \in Referable(sources) : sources[i].ref = name]
     IN  [repo |-> s.repo, chart |-> s.chart]]

\* Every $name of the helm block must be declared, by a source without a chart.
validateRefs(s, targets, multi) ==
  (multi /\ s.helm # NoBlock) =>
    \A name \in s.helm.vars :
      name \in DOMAIN targets /\ targets[name].chart = NoChart

\* Mutant of newRefPaths: the paths go in under the URL as it is spelled.
PathsBySpelling(targets) == {targets[name].repo : name \in DOMAIN targets}

\* The normalised URLs newRefPaths has a path for; the path is the checkout root
\* for every one of them.
newRefPaths(targets) == {NormalURL(targets[name].repo) : name \in DOMAIN targets}

\* What the repo-server makes of a $name while it renders: the declared target's
\* repository, looked up (GetPath) under its normalised URL.
Resolves(name, targets, paths) ==
  name \in DOMAIN targets /\ NormalURL(targets[name].repo) \in paths
=============================================================================
