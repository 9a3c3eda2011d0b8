------------------------------ MODULE ChartCache ------------------------------
(***************************************************************************)
(* downloadHelmChart (renderer.go): the cache of charts pulled from        *)
(* registries, a directory that every run of the program shares.           *)
(*                                                                         *)
(* A call looks its entry up under a hash of repoURL, chart and version.   *)
(* When it is not there it has `helm pull --untar` extract the chart next  *)
(* to the entries, into a directory named after the last segment of the    *)
(* chart's name alone, and renames that directory to the entry.  Nothing   *)
(* locks the directory: between any two steps of one run, others may take  *)
(* theirs, a run may be killed (its helm goes on), and so may a helm.      *)
(*                                                                         *)
(* helm is external.  What is modelled of it: it fetches the archive,      *)
(* refuses if the directory it is to extract into exists, creates it, and  *)
(* writes file after file, each opened (truncated) and then filled.  An    *)
(* open file stays the same file when its directory is renamed.            *)
(***************************************************************************)
EXTENDS Naturals, FiniteSets

CONSTANTS Runs,     \* runs of the program, each with at most one helm at a time
          Charts,   \* records [repo, chart, version] that runs ask for
          Base(_),  \* path.Base of a chart's name
          Files     \* a chart consists of the files 1 .. Files

ASSUME FilesAssumption == Files \in Nat \ {0}

FileNames == 1 .. Files
Bases == {Base(c) : c \in Charts}

\* A directory maps the files it holds to the charts whose data is in them and to
\* the runs whose helm has them open.
Directories ==
  UNION {[present -> [from : SUBSET Charts, open : SUBSET Runs]] : present \in SUBSET FileNames}

\* A slot holds one directory or, as a set, none.
Slots == {{}} \union {{d} : d \in Directories}

EmptyDirectory == [f \in {} |-> [from |-> {}, open |-> {}]]

VARIABLES pc,       \* what each run is doing
          chart,    \* the chart of its latest call
          helm,     \* what its helm process is doing
          at,       \* the file that helm is at
          extract,  \* the extraction directory of each base name
          entry,    \* the cache entry of each chart
          crowded   \* history: base names two helms were extracting to at once

vars == <<pc, chart, helm, at, extract, entry, crowded>>

Idle == {"idle", "hit", "pulled", "failed"}
Working == {"fetch", "mkdir", "open", "write"}

Init ==
  /\ pc = [r \in Runs |-> "idle"]
  /\ chart \in [Runs -> Charts]
  /\ helm = [r \in Runs |-> "none"] /\ at = [r \in Runs |-> 1]
  /\ extract = [b \in Bases |-> {}]
  /\ entry = [c \in Charts |-> {}]
  /\ crowded = {}

\* Mutant of chartDir: the name of the chart is not part of the hash.
ChartDirWithoutName(c) == CHOOSE d \in Charts : d.repo = c.repo /\ d.version = c.version

\* The entry of a chart: the hash keeps repoURL, chart and version apart.
chartDir(c) == c

base(r) == Base(chart[r])

\* A run uses its base's directory from the moment its helm found it free until
\* it is renamed, or the helm has failed; or for as long as an orphaned helm works.
Using(r) ==
  \/ helm[r] \in {"mkdir", "open", "write"}
  \/ helm[r] = "ok" /\ pc[r] = "pull"

-----------------------------------------------------------------------------
\* A run asks for a chart.
Call(r) ==
  /\ pc[r] \in Idle
  /\ \E c \in Charts : chart' = [chart EXCEPT ![r] = c]
  /\ pc' = [pc EXCEPT ![r] = "lookup"]
  /\ UNCHANGED <<helm, at, extract, entry, crowded>>

\* There may be no cache directory, and none to be made.
NoCacheDir(r) ==
  /\ pc[r] = "lookup"
  /\ pc' = [pc EXCEPT ![r] = "failed"]
  /\ UNCHANGED <<chart, helm, at, extract, entry, crowded>>

Hit(r) ==
  /\ pc[r] = "lookup" /\ entry[chartDir(chart[r])] # {}
  /\ pc' = [pc EXCEPT ![r] = "hit"]
  /\ UNCHANGED <<chart, helm, at, extract, entry, crowded>>

Miss(r) ==
  /\ pc[r] = "lookup" /\ entry[chartDir(chart[r])] = {}
  /\ pc' = [pc EXCEPT ![r] = "pull"]
  /\ helm' = [helm EXCEPT ![r] = "fetch"]
  /\ UNCHANGED <<chart, at, extract, entry, crowded>>

\* Mutant of PullFailed: whatever helm left is taken for the chart.
RenameAnyway(r) ==
  /\ pc[r] = "pull" /\ helm[r] = "failed"
  /\ entry' = IF extract[base(r)] = {} THEN entry
              ELSE [entry EXCEPT ![chartDir(chart[r])] = extract[base(r)]]
  /\ extract' = [extract EXCEPT ![base(r)] = {}]
  /\ pc' = [pc EXCEPT ![r] = "failed"]
  /\ helm' = [helm EXCEPT ![r] = "none"]
  /\ UNCHANGED <<chart, at, crowded>>

\* Mutant of PullFailed: the pull is tried again.
RetryPull(r) ==
  /\ pc[r] = "pull" /\ helm[r] = "failed"
  /\ helm' = [helm EXCEPT ![r] = "fetch"]
  /\ UNCHANGED <<pc, chart, at, extract, entry, crowded>>

PullFailed(r) ==
  /\ pc[r] = "pull" /\ helm[r] = "failed"
  /\ pc' = [pc EXCEPT ![r] = "failed"]
  /\ helm' = [helm EXCEPT ![r] = "none"]
  /\ UNCHANGED <<chart, at, extract, entry, crowded>>

\* rename(2) needs a source, and replaces no directory but an empty one.
CanRename(r) ==
  extract[base(r)] # {} /\ entry[chartDir(chart[r])] \in {{}, {EmptyDirectory}}

Rename(r) ==
  /\ pc[r] = "pull" /\ helm[r] = "ok" /\ CanRename(r)
  /\ entry' = [entry EXCEPT ![chartDir(chart[r])] = extract[base(r)]]
  /\ extract' = [extract EXCEPT ![base(r)] = {}]
  /\ pc' = [pc EXCEPT ![r] = "pulled"]
  /\ helm' = [helm EXCEPT ![r] = "none"]
  /\ UNCHANGED <<chart, at, crowded>>

\* Mutant of RenameFails: the error of os.Rename is not looked at.
RenameErrorIgnored(r) ==
  /\ pc[r] = "pull" /\ helm[r] = "ok" /\ ~CanRename(r)
  /\ pc' = [pc EXCEPT ![r] = "pulled"]
  /\ helm' = [helm EXCEPT ![r] = "none"]
  /\ UNCHANGED <<chart, at, extract, entry, crowded>>

RenameFails(r) ==
  /\ pc[r] = "pull" /\ helm[r] = "ok" /\ ~CanRename(r)
  /\ pc' = [pc EXCEPT ![r] = "failed"]
  /\ helm' = [helm EXCEPT ![r] = "none"]
  /\ UNCHANGED <<chart, at, extract, entry, crowded>>

\* Nothing stops the helm of a run that is killed.
Kill(r) ==
  /\ pc[r] # "killed"
  /\ pc' = [pc EXCEPT ![r] = "killed"]
  /\ UNCHANGED <<chart, helm, at, extract, entry, crowded>>

-----------------------------------------------------------------------------
\* The helm process of a run

HelmStat(r) ==
  /\ helm[r] = "fetch"
  /\ helm' = [helm EXCEPT ![r] = IF extract[base(r)] = {} THEN "mkdir" ELSE "failed"]
  /\ crowded' = IF extract[base(r)] = {} /\ \E q \in Runs \ {r} : Using(q) /\ base(q) = base(r)
                THEN crowded \union {base(r)} ELSE crowded
  /\ UNCHANGED <<pc, chart, at, extract, entry>>

HelmMkdir(r) ==
  /\ helm[r] = "mkdir"
  /\ helm' = [helm EXCEPT ![r] = "open"]
  /\ extract' = [extract EXCEPT ![base(r)] = IF @ = {} THEN {EmptyDirectory} ELSE @]
  /\ UNCHANGED <<pc, chart, at, entry, crowded>>

\* Opening a file truncates it.
Opened(d, r) ==
  [f \in DOMAIN d \union {at[r]} |->
     IF f # at[r] THEN d[f]
     ELSE [from |-> {}, open |-> {r} \union IF f \in DOMAIN d THEN d[f].open ELSE {}]]

\* The directory is created again if it has been renamed away.
HelmOpen(r) ==
  /\ helm[r] = "open"
  /\ extract' = [extract EXCEPT ![base(r)] =
       IF @ = {} THEN {Opened(EmptyDirectory, r)} ELSE {Opened(d, r) : d \in @}]
  /\ helm' = [helm EXCEPT ![r] = "write"]
  /\ UNCHANGED <<pc, chart, at, entry, crowded>>

\* The data goes to the file that was opened, whichever directory it is in now.
WrittenIn(d, r) ==
  [f \in DOMAIN d |->
     IF r \in d[f].open THEN [from |-> d[f].from \union {chart[r]}, open |-> d[f].open \ {r}]
                        ELSE d[f]]

Written(slot, r) == {WrittenIn(d, r) : d \in slot}

\* Mutant of HelmWrite: it goes on past the last file.
HelmWritesPastEnd(r) ==
  /\ helm[r] = "write"
  /\ extract' = [b \in Bases |-> Written(extract[b], r)]
  /\ entry' = [c \in Charts |-> Written(entry[c], r)]
  /\ helm' = [helm EXCEPT ![r] = "open"] /\ at' = [at EXCEPT ![r] = @ + 1]
  /\ UNCHANGED <<pc, chart, crowded>>

HelmWrite(r) ==
  /\ helm[r] = "write"
  /\ extract' = [b \in Bases |-> Written(extract[b], r)]
  /\ entry' = [c \in Charts |-> Written(entry[c], r)]
  /\ helm' = [helm EXCEPT ![r] = IF at[r] < Files THEN "open" ELSE "ok"]
  /\ at' = [at EXCEPT ![r] = IF @ < Files THEN @ + 1 ELSE 1]
  /\ UNCHANGED <<pc, chart, crowded>>

ClosedIn(d, r) == [f \in DOMAIN d |-> [from |-> d[f].from, open |-> d[f].open \ {r}]]

Closed(slot, r) == {ClosedIn(d, r) : d \in slot}

\* helm fails, or is killed, wherever it is; the file it was at stays as it is.
HelmFails(r) ==
  /\ helm[r] \in Working
  /\ helm' = [helm EXCEPT ![r] = "failed"]
  /\ at' = [at EXCEPT ![r] = 1]
  /\ extract' = [b \in Bases |-> Closed(extract[b], r)]
  /\ entry' = [c \in Charts |-> Closed(entry[c], r)]
  /\ UNCHANGED <<pc, chart, crowded>>

-----------------------------------------------------------------------------
RunStep(r) ==
  NoCacheDir(r) \/ Hit(r) \/ Miss(r) \/ PullFailed(r) \/ Rename(r) \/ RenameFails(r)

HelmStep(r) == HelmStat(r) \/ HelmMkdir(r) \/ HelmOpen(r) \/ HelmWrite(r)

Next == \E r \in Runs : Call(r) \/ RunStep(r) \/ Kill(r) \/ HelmStep(r) \/ HelmFails(r)

\* A run that is not killed goes on, and helm is assumed to: the code waits for it
\* without a timeout.  Nothing makes a run call, and nothing makes helm fail.
Fairness == \A r \in Runs : WF_vars(RunStep(r)) /\ WF_vars(HelmStep(r))

Spec == Init /\ [][Next]_vars /\ Fairness

-----------------------------------------------------------------------------
\* Each variable ranges over what runs, helms and directories can be in.
TypeOK ==
  /\ pc \in [Runs -> Idle \union {"lookup", "pull", "killed"}]
  /\ chart \in [Runs -> Charts]
  /\ helm \in [Runs -> Working \union {"none", "ok", "failed"}]
  /\ at \in [Runs -> FileNames]
  /\ extract \in [Bases -> Slots]
  /\ entry \in [Charts -> Slots]
  /\ crowded \subseteq Bases

\* A call that returns a directory returns one that exists, whether it found it,
\* renamed it there, or lost the race for it.
ReturnedEntryExists ==
  \A r \in Runs : pc[r] \in {"hit", "pulled"} => entry[chartDir(chart[r])] # {}

\* Whatever runs do to each other, an entry holds no data of a chart whose name ends
\* in another segment: only charts that share an extraction directory can mix.
OnlySameBaseMixes ==
  \A c \in Charts : \A d \in entry[chartDir(c)] : \A f \in DOMAIN d :
    \A other \in d[f].from : Base(other) = Base(c)

Whole(c) == [f \in FileNames |-> [from |-> {c}, open |-> {}]]

\* Unless two helms once got past the check for an existing directory of the same
\* name together, every entry is its chart, complete: failed and killed pulls, lost
\* renames and orphaned helms never publish anything else.
WholeUnlessCrowded ==
  \A c \in Charts : Base(c) \notin crowded => entry[chartDir(c)] \subseteq {Whole(c)}

\* What an abandoned pull leaves behind is never published, nor removed: os.Rename
\* and helm leave it alone, so no chart of that name is ever pulled again.
AbandonedStays ==
  [][\A b \in Bases :
       (extract[b] # {} /\ ~\E r \in Runs : Using(r) /\ base(r) = b)
         => extract'[b] = extract[b]]_vars

\* A call returns unless its run is killed: every way helm and os.Rename can fail
\* ends the call, and none makes it wait for another run.
EveryCallReturns ==
  \A r \in Runs : pc[r] \in {"lookup", "pull"} ~> pc[r] \notin {"lookup", "pull"}

\* The cache keeps the promise of ChartStore.
Store == INSTANCE ChartStore WITH
           published <- {c \in Charts : entry[chartDir(c)] # {}},
           asked <- chart,
           answer <- [r \in Runs |-> CASE pc[r] \in {"hit", "pulled"} -> "entry"
                                       [] pc[r] \in {"idle", "failed"} -> "refused"
                                       [] pc[r] = "killed" -> "gone"
                                       [] OTHER -> "none"]

KeepsStorePromise == Store!Spec

-----------------------------------------------------------------------------
\* The inductive invariant behind OnlySameBaseMixes and AbandonedStays: only a run
\* that waits for its helm, or was killed meanwhile, has one; and a directory extracted
\* for a base name has data, and open files, of that name's charts and helms alone.

HelmHasRun == \A r \in Runs : helm[r] # "none" => pc[r] \in {"pull", "killed"}

Fits(d, b) ==
  \A f \in DOMAIN d :
    /\ \A c \in d[f].from : Base(c) = b
    /\ \A r \in d[f].open : base(r) = b /\ helm[r] = "write"

AllFit ==
  /\ \A b \in Bases : \A d \in extract[b] : Fits(d, b)
  /\ \A c \in Charts : \A d \in entry[c] : Fits(d, Base(c))
=============================================================================
