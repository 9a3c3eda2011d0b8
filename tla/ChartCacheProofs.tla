--------------------------- MODULE ChartCacheProofs ---------------------------
(***************************************************************************)
(* Proofs about ChartCache for any number of runs, charts and files.       *)
(***************************************************************************)
EXTENDS ChartCache, TLAPS

File == [from : SUBSET Charts, open : SUBSET Runs]

\* What it takes to be a directory.
LEMMA DirectoryIntro ==
  ASSUME NEW present \in SUBSET FileNames, NEW d \in [present -> File]
  PROVE  d \in Directories
  BY DEF Directories, File

\* What there is to know of one.
LEMMA DirectoryElim ==
  ASSUME NEW d \in Directories
  PROVE  DOMAIN d \in SUBSET FileNames /\ d \in [DOMAIN d -> File]
  BY DEF Directories, File

LEMMA EmptyIsDirectory == EmptyDirectory \in Directories
<1>1. EmptyDirectory \in [{} -> File]
  BY DEF EmptyDirectory
<1> QED
  BY <1>1, DirectoryIntro

\* Opening, writing and closing a file leave a directory a directory.
LEMMA OpenedIsDirectory ==
  ASSUME TypeOK, NEW d \in Directories, NEW r \in Runs
  PROVE  Opened(d, r) \in Directories
<1>1. at[r] \in FileNames
  BY DEF TypeOK
<1>2. DOMAIN d \union {at[r]} \in SUBSET FileNames
  BY <1>1, DirectoryElim
<1>3. Opened(d, r) \in [DOMAIN d \union {at[r]} -> File]
  <2> SUFFICES ASSUME NEW f \in DOMAIN d \union {at[r]}
               PROVE  (IF f # at[r] THEN d[f]
                       ELSE [from |-> {},
                             open |-> {r} \union IF f \in DOMAIN d THEN d[f].open ELSE {}]) \in File
    BY DEF Opened
  <2>1. f \in DOMAIN d => d[f] \in File
    BY DirectoryElim
  <2> QED
    BY <2>1 DEF File
<1> QED
  BY <1>2, <1>3, DirectoryIntro

LEMMA WrittenIsSlot ==
  ASSUME TypeOK, NEW slot \in Slots, NEW r \in Runs
  PROVE  Written(slot, r) \in Slots
<1>1. ASSUME NEW d \in Directories
      PROVE  WrittenIn(d, r) \in Directories
  <2>1. DOMAIN d \in SUBSET FileNames /\ \A f \in DOMAIN d : d[f] \in File
    BY DirectoryElim
  <2>2. chart[r] \in Charts
    BY DEF TypeOK
  <2>3. WrittenIn(d, r) \in [DOMAIN d -> File]
    BY <2>1, <2>2 DEF File, WrittenIn
  <2> QED
    BY <2>1, <2>3, DirectoryIntro
<1>2. CASE slot = {}
  BY <1>2 DEF Written, Slots
<1>3. CASE slot # {}
  <2>1. PICK d \in Directories : slot = {d}
    BY <1>3 DEF Slots
  <2> QED
    BY <1>1, <2>1 DEF Written, Slots
<1> QED
  BY <1>2, <1>3

LEMMA ClosedIsSlot ==
  ASSUME NEW slot \in Slots, NEW r \in Runs
  PROVE  Closed(slot, r) \in Slots
<1>1. ASSUME NEW d \in Directories
      PROVE  ClosedIn(d, r) \in Directories
  <2>1. DOMAIN d \in SUBSET FileNames /\ \A f \in DOMAIN d : d[f] \in File
    BY DirectoryElim
  <2>2. ClosedIn(d, r) \in [DOMAIN d -> File]
    BY <2>1 DEF File, ClosedIn
  <2> QED
    BY <2>1, <2>2, DirectoryIntro
<1>2. CASE slot = {}
  BY <1>2 DEF Closed, Slots
<1>3. CASE slot # {}
  <2>1. PICK d \in Directories : slot = {d}
    BY <1>3 DEF Slots
  <2> QED
    BY <1>1, <2>1 DEF Closed, Slots
<1> QED
  BY <1>2, <1>3

-----------------------------------------------------------------------------
LEMMA InitTypeOK == Init => TypeOK
  BY FilesAssumption DEF Init, TypeOK, Idle, Working, Slots, FileNames, Bases

\* The variables a step changes stay in their types, action by action.
LEMMA NextTypeOK == TypeOK /\ [Next]_vars => TypeOK'
<1> SUFFICES ASSUME TypeOK, [Next]_vars
             PROVE  TypeOK'
  OBVIOUS
<1> USE DEF TypeOK, Idle, Working
<1>base. \A r \in Runs : base(r) \in Bases
  BY DEF base, Bases
<1>1. ASSUME NEW r \in Runs, Call(r) PROVE TypeOK'
  BY <1>1 DEF Call
<1>2. ASSUME NEW r \in Runs, NoCacheDir(r) PROVE TypeOK'
  BY <1>2 DEF NoCacheDir
<1>3. ASSUME NEW r \in Runs, Hit(r) PROVE TypeOK'
  BY <1>3 DEF Hit
<1>4. ASSUME NEW r \in Runs, Miss(r) PROVE TypeOK'
  BY <1>4 DEF Miss
<1>5. ASSUME NEW r \in Runs, PullFailed(r) PROVE TypeOK'
  BY <1>5 DEF PullFailed
<1>6. ASSUME NEW r \in Runs, Rename(r) PROVE TypeOK'
  BY <1>6, <1>base DEF Rename, chartDir, Slots
<1>7. ASSUME NEW r \in Runs, RenameFails(r) PROVE TypeOK'
  BY <1>7 DEF RenameFails
<1>8. ASSUME NEW r \in Runs, Kill(r) PROVE TypeOK'
  BY <1>8 DEF Kill
<1>9. ASSUME NEW r \in Runs, HelmStat(r) PROVE TypeOK'
  BY <1>9, <1>base DEF HelmStat
<1>10. ASSUME NEW r \in Runs, HelmMkdir(r) PROVE TypeOK'
  BY <1>10, <1>base, EmptyIsDirectory DEF HelmMkdir, Slots
<1>11. ASSUME NEW r \in Runs, HelmOpen(r) PROVE TypeOK'
  <2> DEFINE new == IF extract[base(r)] = {} THEN {Opened(EmptyDirectory, r)}
                    ELSE {Opened(d, r) : d \in extract[base(r)]}
  <2>1. new \in Slots
    <3>1. CASE extract[base(r)] = {}
      BY <3>1, EmptyIsDirectory, OpenedIsDirectory DEF Slots
    <3>2. CASE extract[base(r)] # {}
      <4>1. PICK d \in Directories : extract[base(r)] = {d}
        BY <3>2, <1>base DEF Slots
      <4> QED
        BY <4>1, OpenedIsDirectory DEF Slots
    <3> QED
      BY <3>1, <3>2
  <2>2. extract' = [extract EXCEPT ![base(r)] = new]
    BY <1>11 DEF HelmOpen
  <2>3. extract' \in [Bases -> Slots]
    BY <2>1, <2>2, <1>base
  <2> QED
    BY <1>11, <2>3 DEF HelmOpen
<1>12. ASSUME NEW r \in Runs, HelmWrite(r) PROVE TypeOK'
  <2>1. extract' \in [Bases -> Slots] /\ entry' \in [Charts -> Slots]
    BY <1>12, WrittenIsSlot DEF HelmWrite
  <2>2. at' \in [Runs -> FileNames]
    BY <1>12, FilesAssumption DEF HelmWrite, FileNames
  <2> QED
    BY <1>12, <2>1, <2>2 DEF HelmWrite
<1>13. ASSUME NEW r \in Runs, HelmFails(r) PROVE TypeOK'
  <2>1. extract' \in [Bases -> Slots] /\ entry' \in [Charts -> Slots]
    BY <1>13, ClosedIsSlot DEF HelmFails
  <2>2. at' \in [Runs -> FileNames]
    BY <1>13, FilesAssumption DEF HelmFails, FileNames
  <2> QED
    BY <1>13, <2>1, <2>2 DEF HelmFails
<1>14. CASE UNCHANGED vars
  BY <1>14 DEF vars
<1> QED
  BY <1>1, <1>2, <1>3, <1>4, <1>5, <1>6, <1>7, <1>8, <1>9, <1>10, <1>11, <1>12, <1>13, <1>14
  DEF Next, RunStep, HelmStep

\* Type correctness, for any number of runs, charts and files.
THEOREM TypeCorrect == Spec => []TypeOK
  BY InitTypeOK, NextTypeOK, PTL DEF Spec

-----------------------------------------------------------------------------
\* What a step may do to the entries: a directory that is there stays, though its
\* open files may be written to or closed, and only a rename adds one.

LEMMA WrittenSame ==
  ASSUME NEW slot, NEW r PROVE (Written(slot, r) = {}) <=> (slot = {})
  BY DEF Written

LEMMA ClosedSame ==
  ASSUME NEW slot, NEW r PROVE (Closed(slot, r) = {}) <=> (slot = {})
  BY DEF Closed

\* No step takes an entry away, and a step that adds one adds it for the run that
\* returns it.
LEMMA EntriesGrow ==
  ASSUME TypeOK, [Next]_vars
  PROVE  \A c \in Charts : entry[c] # {} => entry'[c] # {}
<1> USE DEF TypeOK
<1>1. ASSUME NEW r \in Runs, Rename(r) PROVE \A c \in Charts : entry[c] # {} => entry'[c] # {}
  <2>1. extract[base(r)] # {} /\ chartDir(chart[r]) \in Charts
    BY <1>1 DEF Rename, CanRename, chartDir
  <2> QED
    BY <1>1, <2>1 DEF Rename
<1>2. ASSUME NEW r \in Runs, HelmWrite(r) PROVE \A c \in Charts : entry[c] # {} => entry'[c] # {}
  BY <1>2, WrittenSame DEF HelmWrite
<1>3. ASSUME NEW r \in Runs, HelmFails(r) PROVE \A c \in Charts : entry[c] # {} => entry'[c] # {}
  BY <1>3, ClosedSame DEF HelmFails
<1>4. ASSUME NEW r \in Runs,
             \/ Call(r) \/ NoCacheDir(r) \/ Hit(r) \/ Miss(r) \/ PullFailed(r) \/ RenameFails(r)
             \/ Kill(r) \/ HelmStat(r) \/ HelmMkdir(r) \/ HelmOpen(r)
      PROVE  entry' = entry
  BY <1>4 DEF Call, NoCacheDir, Hit, Miss, PullFailed, RenameFails, Kill, HelmStat, HelmMkdir, HelmOpen
<1>5. CASE UNCHANGED vars
  BY <1>5 DEF vars
<1> QED
  BY <1>1, <1>2, <1>3, <1>4, <1>5 DEF Next, RunStep, HelmStep

LEMMA ReturnedStep ==
  ASSUME TypeOK, TypeOK', ReturnedEntryExists, [Next]_vars
  PROVE  ReturnedEntryExists'
<1> SUFFICES ASSUME NEW q \in Runs, pc'[q] \in {"hit", "pulled"}
             PROVE  entry'[chartDir(chart'[q])] # {}
  BY DEF ReturnedEntryExists, chartDir
<1> USE DEF TypeOK, chartDir
<1>1. CASE pc[q] \in {"hit", "pulled"} /\ chart'[q] = chart[q]
  BY <1>1, EntriesGrow DEF ReturnedEntryExists
<1>2. ASSUME NEW r \in Runs, Call(r) PROVE entry'[chart'[q]] # {}
  BY <1>1, <1>2 DEF Call
<1>3. ASSUME NEW r \in Runs, Hit(r) PROVE entry'[chart'[q]] # {}
  BY <1>1, <1>3 DEF Hit
<1>4. ASSUME NEW r \in Runs, Rename(r) PROVE entry'[chart'[q]] # {}
  <2>1. CASE q = r
    BY <1>4, <2>1 DEF Rename, CanRename
  <2>2. CASE q # r
    BY <1>1, <1>4, <2>2 DEF Rename
  <2> QED
    BY <2>1, <2>2
<1>5. ASSUME NEW r \in Runs,
             \/ NoCacheDir(r) \/ Miss(r) \/ PullFailed(r) \/ RenameFails(r) \/ Kill(r)
             \/ HelmStat(r) \/ HelmMkdir(r) \/ HelmOpen(r) \/ HelmWrite(r) \/ HelmFails(r)
      PROVE  entry'[chart'[q]] # {}
  <2>1. pc[q] \in {"hit", "pulled"} /\ chart'[q] = chart[q]
    BY <1>5 DEF NoCacheDir, Miss, PullFailed, RenameFails, Kill, HelmStat, HelmMkdir,
                HelmOpen, HelmWrite, HelmFails
  <2> QED
    BY <1>1, <2>1
<1>6. CASE UNCHANGED vars
  BY <1>1, <1>6 DEF vars
<1> QED
  BY <1>2, <1>3, <1>4, <1>5, <1>6 DEF Next, RunStep, HelmStep

\* Whatever the other runs do, a call that returns a directory returns one that is
\* there, and it stays there while the run uses it.
THEOREM ReturnedEntries == Spec => []ReturnedEntryExists
<1>1. Init => ReturnedEntryExists
  BY DEF Init, ReturnedEntryExists
<1>2. TypeOK /\ TypeOK' /\ ReturnedEntryExists /\ [Next]_vars => ReturnedEntryExists'
  BY ReturnedStep
<1> QED
  BY <1>1, <1>2, TypeCorrect, PTL DEF Spec

-----------------------------------------------------------------------------
\* Which charts can mix.

LEMMA HelmHasRunStep ==
  ASSUME TypeOK, HelmHasRun, [Next]_vars
  PROVE  HelmHasRun'
<1> USE DEF TypeOK, HelmHasRun, Idle, Working
<1>1. ASSUME NEW r \in Runs,
             Call(r) \/ NoCacheDir(r) \/ Hit(r) \/ Miss(r) \/ PullFailed(r)
      PROVE  HelmHasRun'
  BY <1>1 DEF Call, NoCacheDir, Hit, Miss, PullFailed
<1>2. ASSUME NEW r \in Runs, Rename(r) \/ RenameFails(r) \/ Kill(r)
      PROVE  HelmHasRun'
  BY <1>2 DEF Rename, RenameFails, Kill
<1>3. ASSUME NEW r \in Runs,
             HelmStat(r) \/ HelmMkdir(r) \/ HelmOpen(r) \/ HelmWrite(r) \/ HelmFails(r)
      PROVE  HelmHasRun'
  BY <1>3 DEF HelmStat, HelmMkdir, HelmOpen, HelmWrite, HelmFails
<1>4. CASE UNCHANGED vars
  BY <1>4 DEF vars
<1> QED
  BY <1>1, <1>2, <1>3, <1>4 DEF Next, RunStep, HelmStep

\* A directory goes on fitting while the helms that have its files open do.
LEMMA FitsStays ==
  ASSUME NEW d \in Directories, NEW b, Fits(d, b),
         \A q \in Runs : helm[q] = "write" => helm'[q] = "write" /\ chart'[q] = chart[q]
  PROVE  Fits(d, b)'
<1>1. \A f \in DOMAIN d : d[f].open \subseteq Runs
  BY DirectoryElim DEF File
<1> QED
  BY <1>1 DEF Fits, base

\* A helm that writes to the file it has open, or lets go of it, leaves a directory fit.
LEMMA FitsAfterHelm ==
  ASSUME TypeOK, NEW d \in Directories, NEW b, Fits(d, b), NEW r \in Runs,
         \A q \in Runs \ {r} : helm'[q] = helm[q],
         chart' = chart, NEW e
  PROVE  /\ helm[r] = "write" /\ e = WrittenIn(d, r) => Fits(e, b)'
         /\ e = ClosedIn(d, r) => Fits(e, b)'
<1>1. \A f \in DOMAIN d : d[f] \in File
  BY DirectoryElim
<1>2. ASSUME NEW f \in DOMAIN d
      PROVE  /\ \A q \in d[f].open \ {r} : base(q)' = b /\ helm'[q] = "write"
             /\ r \in d[f].open => base(r) = b
  BY <1>1 DEF Fits, base, File
<1>3. ASSUME e = ClosedIn(d, r) PROVE Fits(e, b)'
  BY <1>1, <1>2, <1>3 DEF Fits, ClosedIn, File
<1>4. ASSUME helm[r] = "write", e = WrittenIn(d, r) PROVE Fits(e, b)'
  BY <1>1, <1>2, <1>4 DEF Fits, WrittenIn, File, base
<1> QED
  BY <1>3, <1>4

LEMMA SlotElim ==
  ASSUME NEW slot \in Slots PROVE \A d \in slot : d \in Directories
  BY DEF Slots

LEMMA AllFitStep ==
  ASSUME TypeOK, HelmHasRun, AllFit, [Next]_vars
  PROVE  AllFit'
<1> USE DEF TypeOK
<1>base. \A r \in Runs : base(r) \in Bases
  BY DEF base, Bases
<1>dir. /\ \A b \in Bases : \A d \in extract[b] : d \in Directories
        /\ \A c \in Charts : \A d \in entry[c] : d \in Directories
  BY SlotElim
<1>stay. ASSUME \A q \in Runs : helm[q] = "write" => helm'[q] = "write" /\ chart'[q] = chart[q]
         PROVE  /\ \A b \in Bases : \A d \in extract[b] : Fits(d, b)'
                /\ \A c \in Charts : \A d \in entry[c] : Fits(d, Base(c))'
  BY <1>stay, <1>dir, FitsStays DEF AllFit
<1>1. ASSUME NEW r \in Runs, Call(r) PROVE AllFit'
  <2>1. \A q \in Runs : helm[q] = "write" => helm'[q] = "write" /\ chart'[q] = chart[q]
    BY <1>1 DEF Call, HelmHasRun, Idle
  <2> QED
    BY <1>1, <1>stay, <2>1 DEF Call, AllFit
<1>2. ASSUME NEW r \in Runs,
             \/ NoCacheDir(r) \/ Hit(r) \/ Miss(r) \/ PullFailed(r) \/ RenameFails(r)
             \/ Kill(r) \/ HelmStat(r)
      PROVE  AllFit'
  <2>1. \A q \in Runs : helm[q] = "write" => helm'[q] = "write" /\ chart'[q] = chart[q]
    BY <1>2 DEF NoCacheDir, Hit, Miss, PullFailed, RenameFails, Kill, HelmStat, HelmHasRun
  <2>2. extract' = extract /\ entry' = entry
    BY <1>2 DEF NoCacheDir, Hit, Miss, PullFailed, RenameFails, Kill, HelmStat
  <2> QED
    BY <1>stay, <2>1, <2>2 DEF AllFit
<1>3. ASSUME NEW r \in Runs, Rename(r) PROVE AllFit'
  <2>1. \A q \in Runs : helm[q] = "write" => helm'[q] = "write" /\ chart'[q] = chart[q]
    BY <1>3 DEF Rename
  <2>2. base(r) = Base(chart[r]) /\ chart[r] \in Charts
    BY DEF base
  <2>3. \A b \in Bases : extract'[b] \subseteq extract[b]
    BY <1>3, <1>base DEF Rename
  <2>4. \A c \in Charts : entry'[c] = IF c = chart[r] THEN extract[base(r)] ELSE entry[c]
    BY <1>3, <2>2 DEF Rename, chartDir
  <2> QED
    BY <1>stay, <1>base, <2>1, <2>2, <2>3, <2>4 DEF AllFit
<1>4. ASSUME NEW r \in Runs, HelmMkdir(r) PROVE AllFit'
  <2>1. \A q \in Runs : helm[q] = "write" => helm'[q] = "write" /\ chart'[q] = chart[q]
    BY <1>4 DEF HelmMkdir
  <2>2. \A b \in Bases : extract'[b] \subseteq extract[b] \union {EmptyDirectory}
    BY <1>4, <1>base DEF HelmMkdir
  <2>3. \A b : Fits(EmptyDirectory, b)'
    BY DEF Fits, EmptyDirectory
  <2>4. entry' = entry
    BY <1>4 DEF HelmMkdir
  <2> QED
    BY <1>stay, <2>1, <2>2, <2>3, <2>4 DEF AllFit
<1>5. ASSUME NEW r \in Runs, HelmOpen(r) PROVE AllFit'
  <2>1. /\ \A q \in Runs : helm[q] = "write" => helm'[q] = "write" /\ chart'[q] = chart[q]
        /\ helm'[r] = "write" /\ chart' = chart /\ entry' = entry
    BY <1>5 DEF HelmOpen
  <2>2. PICK b \in Bases : b = base(r)
    BY <1>base
  <2>3. ASSUME NEW d \in Directories, Fits(d, b), NEW e, e = Opened(d, r)
        PROVE  Fits(e, b)'
    <3>1. \A f \in DOMAIN d : d[f] \in File
      BY DirectoryElim
    <3>2. \A f \in DOMAIN d : \A q \in d[f].open : base(q)' = b /\ helm'[q] = "write"
      BY <2>1, <2>3, <3>1 DEF Fits, File, base
    <3>3. base(r)' = b
      BY <2>1, <2>2 DEF base
    <3> QED
      BY <2>1, <2>3, <3>1, <3>2, <3>3 DEF Fits, Opened, File
  <2>4. Fits(EmptyDirectory, b)
    BY DEF Fits, EmptyDirectory
  <2>5. ASSUME NEW e \in extract'[b] PROVE Fits(e, b)'
    <3>1. \E d \in Directories : Fits(d, b) /\ e = Opened(d, r)
      BY <1>5, <1>dir, <2>2, <2>4, EmptyIsDirectory DEF HelmOpen, AllFit
    <3> QED
      BY <2>3, <3>1
  <2>6. \A a \in Bases \ {b} : extract'[a] = extract[a]
    BY <1>5, <2>2 DEF HelmOpen
  <2> QED
    BY <1>stay, <2>1, <2>5, <2>6 DEF AllFit
<1>6. ASSUME NEW r \in Runs, HelmWrite(r) PROVE AllFit'
  <2>1. helm[r] = "write" /\ chart' = chart /\ \A q \in Runs \ {r} : helm'[q] = helm[q]
    BY <1>6 DEF HelmWrite
  <2>2. ASSUME NEW b \in Bases, NEW e \in extract'[b] PROVE Fits(e, b)'
    <3>1. \E d \in extract[b] : e = WrittenIn(d, r)
      BY <1>6 DEF HelmWrite, Written
    <3> QED
      BY <1>dir, <2>1, <3>1, FitsAfterHelm DEF AllFit
  <2>3. ASSUME NEW c \in Charts, NEW e \in entry'[c] PROVE Fits(e, Base(c))'
    <3>1. \E d \in entry[c] : e = WrittenIn(d, r)
      BY <1>6 DEF HelmWrite, Written
    <3> QED
      BY <1>dir, <2>1, <3>1, FitsAfterHelm DEF AllFit
  <2> QED
    BY <2>2, <2>3 DEF AllFit
<1>7. ASSUME NEW r \in Runs, HelmFails(r) PROVE AllFit'
  <2>1. chart' = chart /\ \A q \in Runs \ {r} : helm'[q] = helm[q]
    BY <1>7 DEF HelmFails
  <2>2. ASSUME NEW b \in Bases, NEW e \in extract'[b] PROVE Fits(e, b)'
    <3>1. \E d \in extract[b] : e = ClosedIn(d, r)
      BY <1>7 DEF HelmFails, Closed
    <3> QED
      BY <1>dir, <2>1, <3>1, FitsAfterHelm DEF AllFit
  <2>3. ASSUME NEW c \in Charts, NEW e \in entry'[c] PROVE Fits(e, Base(c))'
    <3>1. \E d \in entry[c] : e = ClosedIn(d, r)
      BY <1>7 DEF HelmFails, Closed
    <3> QED
      BY <1>dir, <2>1, <3>1, FitsAfterHelm DEF AllFit
  <2> QED
    BY <2>2, <2>3 DEF AllFit
<1>8. CASE UNCHANGED vars
  <2>1. \A q \in Runs : helm[q] = "write" => helm'[q] = "write" /\ chart'[q] = chart[q]
    BY <1>8 DEF vars
  <2> QED
    BY <1>8, <1>stay, <2>1 DEF AllFit, vars
<1> QED
  BY <1>1, <1>2, <1>3, <1>4, <1>5, <1>6, <1>7, <1>8 DEF Next, RunStep, HelmStep

LEMMA FitInvariant == Spec => [](TypeOK /\ HelmHasRun /\ AllFit)
<1>1. Init => HelmHasRun /\ AllFit
  BY DEF Init, HelmHasRun, AllFit
<1>2. TypeOK /\ HelmHasRun /\ AllFit /\ [Next]_vars => HelmHasRun' /\ AllFit'
  BY HelmHasRunStep, AllFitStep
<1> QED
  BY <1>1, <1>2, TypeCorrect, PTL DEF Spec

\* No interleaving of runs, kills and orphaned helms puts data of one chart into the
\* entry of another whose name ends in a different segment.
THEOREM SameBase == Spec => []OnlySameBaseMixes
<1>1. AllFit => OnlySameBaseMixes
  BY DEF AllFit, Fits, OnlySameBaseMixes, chartDir
<1> QED
  BY <1>1, FitInvariant, PTL

-----------------------------------------------------------------------------
\* What becomes of an extraction directory nobody uses.

\* A helm that has none of a directory's files open leaves it as it is.
LEMMA UntouchedDirectory ==
  ASSUME NEW d \in Directories, NEW r \in Runs, \A f \in DOMAIN d : r \notin d[f].open
  PROVE  WrittenIn(d, r) = d /\ ClosedIn(d, r) = d
<1>1. d \in [DOMAIN d -> File]
  BY DirectoryElim
<1>2. \A f \in DOMAIN d : d[f] = [from |-> d[f].from, open |-> d[f].open \ {r}]
  BY <1>1 DEF File
<1>3. WrittenIn(d, r) = d
  BY <1>1 DEF WrittenIn
<1>4. ClosedIn(d, r) = d
  BY <1>1, <1>2 DEF ClosedIn
<1> QED
  BY <1>3, <1>4

LEMMA AbandonedStep ==
  ASSUME TypeOK, AllFit, [Next]_vars, NEW b \in Bases,
         extract[b] # {}, \A r \in Runs : Using(r) => base(r) # b
  PROVE  extract'[b] = extract[b]
<1> USE DEF TypeOK
<1>1. ASSUME NEW r \in Runs,
             \/ Call(r) \/ NoCacheDir(r) \/ Hit(r) \/ Miss(r) \/ PullFailed(r) \/ RenameFails(r)
             \/ Kill(r) \/ HelmStat(r)
      PROVE  extract'[b] = extract[b]
  BY <1>1 DEF Call, NoCacheDir, Hit, Miss, PullFailed, RenameFails, Kill, HelmStat
<1>2. ASSUME NEW r \in Runs, Rename(r) \/ HelmMkdir(r) \/ HelmOpen(r)
      PROVE  extract'[b] = extract[b]
  <2>1. base(r) # b
    BY <1>2 DEF Rename, HelmMkdir, HelmOpen, Using
  <2> QED
    BY <1>2, <2>1 DEF Rename, HelmMkdir, HelmOpen
<1>3. ASSUME NEW r \in Runs, HelmWrite(r) \/ HelmFails(r)
      PROVE  extract'[b] = extract[b]
  <2>1. ASSUME NEW d \in extract[b]
        PROVE  d \in Directories /\ \A f \in DOMAIN d : r \notin d[f].open
    BY <2>1, SlotElim DEF AllFit, Fits, Using
  <2>2. Written(extract[b], r) = extract[b] /\ Closed(extract[b], r) = extract[b]
    BY <2>1, UntouchedDirectory DEF Written, Closed
  <2> QED
    BY <1>3, <2>2 DEF HelmWrite, HelmFails
<1>4. CASE UNCHANGED vars
  BY <1>4 DEF vars
<1> QED
  BY <1>1, <1>2, <1>3, <1>4 DEF Next, RunStep, HelmStep

\* Once a pull has been abandoned, by a failing helm, a lost rename or a kill, what
\* it extracted is there for good: no run publishes it, and none removes it.
THEOREM Abandoned == Spec => AbandonedStays
<1>1. TypeOK /\ AllFit /\ [Next]_vars =>
        [\A b \in Bases :
           (extract[b] # {} /\ ~\E r \in Runs : Using(r) /\ base(r) = b)
             => extract'[b] = extract[b]]_vars
  BY AbandonedStep
<1> QED
  BY <1>1, FitInvariant, PTL DEF Spec, AbandonedStays

-----------------------------------------------------------------------------
\* The promise of ChartStore

\* The answer a run has, as Store sees it.
Answer(r) == CASE pc[r] \in {"hit", "pulled"} -> "entry"
               [] pc[r] \in {"idle", "failed"} -> "refused"
               [] pc[r] = "killed" -> "gone"
               [] OTHER -> "none"

Entries == {c \in Charts : entry[chartDir(c)] # {}}

Answers == [r \in Runs |-> Answer(r)]

LEMMA StoreInit == Init => Store!Init
<1> SUFFICES ASSUME Init PROVE Store!Init
  OBVIOUS
<1>1. Entries = {}
  BY DEF Init, Entries, chartDir
<1>2. Answers = [r \in Runs |-> "refused"]
  BY DEF Init, Answers, Answer
<1> QED
  BY <1>1, <1>2 DEF Init, Store!Init, Entries, Answers, Answer

\* Which entries there are changes with a rename only.
LEMMA SameEntries ==
  ASSUME TypeOK, NEW r \in Runs,
         \/ Call(r) \/ NoCacheDir(r) \/ Hit(r) \/ Miss(r) \/ PullFailed(r) \/ RenameFails(r)
         \/ Kill(r) \/ HelmStat(r) \/ HelmMkdir(r) \/ HelmOpen(r) \/ HelmWrite(r) \/ HelmFails(r)
  PROVE  \A c \in Charts : entry'[chartDir(c)] # {} <=> entry[chartDir(c)] # {}
<1>1. CASE HelmWrite(r) \/ HelmFails(r)
  BY <1>1, WrittenSame, ClosedSame DEF HelmWrite, HelmFails, chartDir
<1>2. CASE ~(HelmWrite(r) \/ HelmFails(r))
  BY <1>2 DEF Call, NoCacheDir, Hit, Miss, PullFailed, RenameFails, Kill, HelmStat,
              HelmMkdir, HelmOpen
<1> QED
  BY <1>1, <1>2

\* A step of Store in terms of Entries and Answers.
LEMMA StoreStep ==
  ASSUME NEW r \in Runs,
         \/ \E c \in Charts : /\ Answers[r] \in {"entry", "refused"}
                              /\ chart' = [chart EXCEPT ![r] = c]
                              /\ Answers' = [Answers EXCEPT ![r] = "none"]
                              /\ Entries' = Entries
         \/ /\ Answers[r] = "none" /\ Entries' = Entries \union {chart[r]}
            /\ Answers' = [Answers EXCEPT ![r] = "entry"] /\ chart' = chart
         \/ /\ Answers[r] = "none" /\ Entries' = Entries
            /\ Answers' = [Answers EXCEPT ![r] = "refused"] /\ chart' = chart
         \/ /\ Answers' = [Answers EXCEPT ![r] = "gone"]
            /\ Entries' = Entries /\ chart' = chart
         \/ Answers' = Answers /\ Entries' = Entries /\ chart' = chart
  PROVE  [Store!Next]_(Store!storeVars)
  BY DEF Store!Next, Store!Ask, Store!Give, Store!Refuse, Store!Leave, Store!storeVars,
         Entries, Answers, Answer

LEMMA AnswersChange ==
  ASSUME TypeOK, NEW r \in Runs, NEW p, pc' = [pc EXCEPT ![r] = p]
  PROVE  Answers' = [Answers EXCEPT ![r] = Answer(r)']
<1>1. ASSUME NEW q \in Runs, q # r PROVE Answer(q)' = Answer(q)
  BY <1>1 DEF TypeOK, Answer
<1> QED
  BY <1>1 DEF Answers

LEMMA StoreNext ==
  ASSUME TypeOK, TypeOK', [Next]_vars
  PROVE  [Store!Next]_(Store!storeVars)
<1> USE DEF TypeOK
<1>same. ASSUME NEW r \in Runs,
             \/ Call(r) \/ NoCacheDir(r) \/ Hit(r) \/ Miss(r) \/ PullFailed(r) \/ RenameFails(r)
             \/ Kill(r) \/ HelmStat(r) \/ HelmMkdir(r) \/ HelmOpen(r) \/ HelmWrite(r) \/ HelmFails(r)
         PROVE  Entries' = Entries
  BY <1>same, SameEntries DEF Entries
<1>1. ASSUME NEW r \in Runs, Call(r) PROVE [Store!Next]_(Store!storeVars)
  <2>1. Answers[r] \in {"entry", "refused"} /\ Answer(r)' = "none"
    BY <1>1 DEF Call, Idle, Answers, Answer
  <2>2. Answers' = [Answers EXCEPT ![r] = "none"]
    BY <1>1, <2>1, AnswersChange DEF Call
  <2> QED
    BY <1>1, <1>same, <2>1, <2>2, StoreStep DEF Call
<1>2. ASSUME NEW r \in Runs, NoCacheDir(r) \/ PullFailed(r) \/ RenameFails(r)
      PROVE  [Store!Next]_(Store!storeVars)
  <2>1. Answers[r] = "none" /\ Answer(r)' = "refused" /\ chart' = chart
    BY <1>2 DEF NoCacheDir, PullFailed, RenameFails, Answers, Answer
  <2>2. Answers' = [Answers EXCEPT ![r] = "refused"]
    BY <1>2, <2>1, AnswersChange DEF NoCacheDir, PullFailed, RenameFails
  <2> QED
    BY <1>2, <1>same, <2>1, <2>2, StoreStep
<1>3. ASSUME NEW r \in Runs, Hit(r) PROVE [Store!Next]_(Store!storeVars)
  <2>1. Answers[r] = "none" /\ Answer(r)' = "entry" /\ chart' = chart
    BY <1>3 DEF Hit, Answers, Answer
  <2>2. Answers' = [Answers EXCEPT ![r] = "entry"]
    BY <1>3, <2>1, AnswersChange DEF Hit
  <2>3. Entries' = Entries \union {chart[r]}
    BY <1>3, <1>same DEF Hit, Entries
  <2> QED
    BY <2>1, <2>2, <2>3, StoreStep
<1>4. ASSUME NEW r \in Runs, Rename(r) PROVE [Store!Next]_(Store!storeVars)
  <2>1. Answers[r] = "none" /\ Answer(r)' = "entry" /\ chart' = chart
    BY <1>4 DEF Rename, Answers, Answer
  <2>2. Answers' = [Answers EXCEPT ![r] = "entry"]
    BY <1>4, <2>1, AnswersChange DEF Rename
  <2>3. Entries' = Entries \union {chart[r]}
    BY <1>4 DEF Rename, CanRename, Entries, chartDir
  <2> QED
    BY <2>1, <2>2, <2>3, StoreStep
<1>5. ASSUME NEW r \in Runs, Kill(r) PROVE [Store!Next]_(Store!storeVars)
  <2>1. Answer(r)' = "gone" /\ chart' = chart
    BY <1>5 DEF Kill, Answer
  <2>2. Answers' = [Answers EXCEPT ![r] = "gone"]
    BY <1>5, <2>1, AnswersChange DEF Kill
  <2> QED
    BY <1>5, <1>same, <2>1, <2>2, StoreStep
<1>6. ASSUME NEW r \in Runs, Miss(r) PROVE [Store!Next]_(Store!storeVars)
  <2>1. Answer(r)' = Answers[r] /\ chart' = chart
    BY <1>6 DEF Miss, Answers, Answer
  <2>2. Answers' = [Answers EXCEPT ![r] = Answers[r]]
    BY <1>6, <2>1, AnswersChange DEF Miss
  <2>3. Answers' = Answers
    BY <2>2 DEF Answers
  <2> QED
    BY <1>6, <1>same, <2>1, <2>3, StoreStep
<1>7. ASSUME NEW r \in Runs,
             HelmStat(r) \/ HelmMkdir(r) \/ HelmOpen(r) \/ HelmWrite(r) \/ HelmFails(r)
      PROVE  [Store!Next]_(Store!storeVars)
  <2>1. pc' = pc /\ chart' = chart
    BY <1>7 DEF HelmStat, HelmMkdir, HelmOpen, HelmWrite, HelmFails
  <2>2. Answers' = Answers
    BY <2>1 DEF Answers, Answer
  <2> QED
    BY <1>7, <1>same, <2>1, <2>2, StoreStep
<1>8. CASE UNCHANGED vars
  BY <1>8 DEF vars, Store!storeVars, chartDir
<1> QED
  BY <1>1, <1>2, <1>3, <1>4, <1>5, <1>6, <1>7, <1>8 DEF Next, RunStep, HelmStep

\* The cache implements ChartStore: a call is answered with an entry that exists by
\* then or refused, and what is published stays published.
THEOREM StoreImplemented == Spec => KeepsStorePromise
<1>1. Init => Store!Init
  BY StoreInit
<1>2. TypeOK /\ TypeOK' /\ [Next]_vars => [Store!Next]_(Store!storeVars)
  BY StoreNext
<1> QED
  BY <1>1, <1>2, TypeCorrect, PTL DEF Spec, KeepsStorePromise, Store!Spec

-----------------------------------------------------------------------------
\* Unless a base name is crowded, one helm at a time extracts to its directory, and
\* what is there is what that helm has written so far, file after file.

AtInv == \A r \in Runs : helm[r] \notin {"open", "write"} => at[r] = 1

OneUser ==
  \A q, r \in Runs : Using(q) /\ Using(r) /\ base(q) = base(r) /\ base(r) \notin crowded => q = r

FullFile(c) == [from |-> {c}, open |-> {}]
SoFar(r) == [f \in 1 .. at[r] - 1 |-> FullFile(chart[r])]
AtFile(r) ==
  [f \in 1 .. at[r] |-> IF f < at[r] THEN FullFile(chart[r]) ELSE [from |-> {}, open |-> {r}]]

Progress(r) ==
  /\ helm[r] = "mkdir" => extract[base(r)] = {}
  /\ helm[r] = "open" => extract[base(r)] = {SoFar(r)}
  /\ helm[r] = "write" => extract[base(r)] = {AtFile(r)}
  /\ helm[r] = "ok" /\ pc[r] = "pull" => extract[base(r)] = {Whole(chart[r])}

WholeInv ==
  /\ AtInv /\ OneUser /\ WholeUnlessCrowded
  /\ \A r \in Runs : base(r) \notin crowded => Progress(r)

Others(r) ==
  \A q \in Runs \ {r} : pc'[q] = pc[q] /\ chart'[q] = chart[q] /\ helm'[q] = helm[q] /\ at'[q] = at[q]

\* What a run does that leaves the directories that others use alone.
LEMMA WholeFrame ==
  ASSUME WholeInv, NEW r \in Runs, Others(r), crowded \subseteq crowded',
         \A q \in Runs \ {r} : Using(q) /\ base(q) \notin crowded' => extract'[base(q)] = extract[base(q)],
         helm'[r] \notin {"open", "write"} => at'[r] = 1,
         Using(r)' => \A q \in Runs \ {r} : Using(q) /\ base(q) = base(r)' => base(q) \in crowded',
         WholeUnlessCrowded', base(r)' \notin crowded' => Progress(r)'
  PROVE  WholeInv'
<1>1. AtInv'
  BY DEF WholeInv, AtInv, Others
<1>2. \A q \in Runs \ {r} : base(q)' = base(q) /\ (Using(q)' <=> Using(q))
  BY DEF Others, base, Using
<1>3. OneUser'
  BY <1>2 DEF WholeInv, OneUser
<1>4. ASSUME NEW q \in Runs \ {r}, base(q)' \notin crowded' PROVE Progress(q)'
  <2>1. Progress(q)
    BY <1>2, <1>4 DEF WholeInv
  <2>2. SoFar(q)' = SoFar(q) /\ AtFile(q)' = AtFile(q)
    BY DEF SoFar, AtFile, Others
  <2>3. Using(q) => extract'[base(q)] = extract[base(q)]
    BY <1>2, <1>4
  <2>4. pc'[q] = pc[q] /\ chart'[q] = chart[q] /\ helm'[q] = helm[q]
    BY DEF Others
  <2> QED
    BY <1>2, <2>1, <2>2, <2>3, <2>4 DEF Progress, Using
<1> QED
  BY <1>1, <1>3, <1>4 DEF WholeInv

\* Files that r does not have open stay as they are when it writes or closes its own.
LEMMA OtherSlots ==
  ASSUME TypeOK, AllFit, WholeInv, NEW r \in Runs
  PROVE  /\ \A b \in Bases : b # base(r) =>
              Written(extract[b], r) = extract[b] /\ Closed(extract[b], r) = extract[b]
         /\ \A c \in Charts : Base(c) \notin crowded =>
              Written(entry[c], r) = entry[c] /\ Closed(entry[c], r) = entry[c]
<1>1. ASSUME NEW d \in Directories, \A f \in DOMAIN d : r \notin d[f].open
      PROVE  WrittenIn(d, r) = d /\ ClosedIn(d, r) = d
  <2>1. \A f \in DOMAIN d : d[f] \in File /\ d[f].open \ {r} = d[f].open
    BY <1>1, DirectoryElim
  <2>2. \A f \in DOMAIN d : [from |-> d[f].from, open |-> d[f].open \ {r}] = d[f]
    BY <2>1 DEF File
  <2>3. d = [f \in DOMAIN d |-> d[f]]
    BY DirectoryElim
  <2> QED
    BY <1>1, <2>2, <2>3 DEF WrittenIn, ClosedIn
<1>2. ASSUME NEW slot \in Slots, \A d \in slot : \A f \in DOMAIN d : r \notin d[f].open
      PROVE  Written(slot, r) = slot /\ Closed(slot, r) = slot
  <2>1. \A d \in slot : d \in Directories
    BY DEF Slots
  <2> QED
    BY <1>1, <1>2, <2>1 DEF Written, Closed
<1>3. ASSUME NEW b \in Bases, b # base(r)
      PROVE  Written(extract[b], r) = extract[b] /\ Closed(extract[b], r) = extract[b]
  <2>1. extract[b] \in Slots
    BY DEF TypeOK
  <2>2. \A d \in extract[b] : \A f \in DOMAIN d : r \notin d[f].open
    BY <1>3 DEF AllFit, Fits
  <2> QED
    BY <1>2, <2>1, <2>2
<1>4. ASSUME NEW c \in Charts, Base(c) \notin crowded
      PROVE  Written(entry[c], r) = entry[c] /\ Closed(entry[c], r) = entry[c]
  <2>1. entry[c] \in Slots
    BY DEF TypeOK
  <2>2. \A d \in entry[c] : \A f \in DOMAIN d : d[f].open = {}
    BY <1>4 DEF WholeInv, WholeUnlessCrowded, Whole, chartDir
  <2> QED
    BY <1>2, <2>1, <2>2
<1> QED
  BY <1>3, <1>4

LEMMA WholeInit == Init => WholeInv
  BY DEF Init, WholeInv, AtInv, OneUser, Using, WholeUnlessCrowded, chartDir, Progress

LEMMA WholeStep == TypeOK /\ HelmHasRun /\ AllFit /\ WholeInv /\ [Next]_vars => WholeInv'
<1> SUFFICES ASSUME TypeOK, HelmHasRun, AllFit, WholeInv, [Next]_vars PROVE WholeInv'
  OBVIOUS
<1>1. \A r \in Runs : base(r) \in Bases /\ chart[r] \in Charts
  BY DEF TypeOK, base, Bases
\* A run whose helm has ended, is waiting or begins, with the directories as they are.
<1>2. ASSUME NEW r \in Runs, Others(r), UNCHANGED <<extract, entry, crowded>>, ~Using(r)',
             at'[r] = at[r], helm[r] \notin {"open", "write"}, helm'[r] \notin {"mkdir", "open", "write"}
      PROVE  WholeInv'
  <2>1. WholeUnlessCrowded'
    BY <1>2 DEF WholeInv, WholeUnlessCrowded, chartDir
  <2>2. Progress(r)'
    BY <1>2 DEF Progress, Using
  <2>3. at'[r] = 1
    BY <1>2 DEF WholeInv, AtInv
  <2> QED
    BY <1>2, <2>1, <2>2, <2>3, WholeFrame
<1>3. ASSUME NEW r \in Runs, Call(r) \/ NoCacheDir(r) \/ Hit(r) \/ Miss(r) \/ PullFailed(r) \/ RenameFails(r)
      PROVE  WholeInv'
  <2>1. Others(r)
    BY <1>3 DEF Call, NoCacheDir, Hit, Miss, PullFailed, RenameFails, Others, TypeOK
  <2>2. UNCHANGED <<extract, entry, crowded, at>>
    BY <1>3 DEF Call, NoCacheDir, Hit, Miss, PullFailed, RenameFails
  <2>3. helm[r] \in {"none", "failed", "ok"}
    BY <1>3 DEF Call, NoCacheDir, Hit, Miss, PullFailed, RenameFails, HelmHasRun, Idle
  <2>4. helm'[r] \in {"none", "fetch"}
    BY <1>3 DEF Call, NoCacheDir, Hit, Miss, PullFailed, RenameFails, HelmHasRun, Idle, TypeOK
  <2>5. ~Using(r)'
    BY <2>4 DEF Using
  <2> QED
    BY <1>2, <2>1, <2>2, <2>3, <2>4, <2>5
<1>4. ASSUME NEW r \in Runs, Kill(r) PROVE WholeInv'
  <2>1. Others(r) /\ UNCHANGED <<chart, helm, at, extract, entry, crowded>> /\ pc'[r] = "killed"
    BY <1>4 DEF Kill, Others, TypeOK
  <2>2. WholeUnlessCrowded'
    BY <2>1 DEF WholeInv, WholeUnlessCrowded, chartDir
  <2>3. base(r)' = base(r) /\ SoFar(r)' = SoFar(r) /\ AtFile(r)' = AtFile(r)
    BY <2>1 DEF base, SoFar, AtFile
  <2>4. base(r)' \notin crowded' => Progress(r)'
    BY <2>1, <2>3 DEF WholeInv, Progress
  <2>5. Using(r)' => Using(r)
    BY <2>1 DEF Using
  <2>6. Using(r)' => \A q \in Runs \ {r} : Using(q) /\ base(q) = base(r)' => base(q) \in crowded'
    BY <2>1, <2>3, <2>5 DEF WholeInv, OneUser
  <2>7. helm'[r] \notin {"open", "write"} => at'[r] = 1
    BY <2>1 DEF WholeInv, AtInv
  <2> QED
    BY <2>1, <2>2, <2>4, <2>6, <2>7, WholeFrame
\* A run that uses its directory, alone unless it is crowded.
<1>5. ASSUME NEW r \in Runs, Others(r), Using(r), UNCHANGED <<chart, crowded>>,
             \A b \in Bases \ {base(r)} : extract'[b] = extract[b],
             helm'[r] \notin {"open", "write"} => at'[r] = 1,
             WholeUnlessCrowded', base(r) \notin crowded => Progress(r)'
      PROVE  WholeInv'
  <2>1. base(r)' = base(r)
    BY <1>5 DEF base
  <2>2. \A q \in Runs \ {r} : Using(q) /\ base(q) = base(r) => base(q) \in crowded
    BY <1>5 DEF WholeInv, OneUser
  <2> QED
    BY <1>1, <1>5, <2>1, <2>2, WholeFrame
<1>6. ASSUME NEW r \in Runs, Rename(r) PROVE WholeInv'
  <2>1. Others(r) /\ Using(r) /\ UNCHANGED <<chart, crowded, at>> /\ helm'[r] = "none"
    BY <1>6 DEF Rename, Others, Using, TypeOK
  <2>2. \A b \in Bases \ {base(r)} : extract'[b] = extract[b]
    BY <1>6 DEF Rename, TypeOK
  <2>3. WholeUnlessCrowded'
    <3>1. base(r) \notin crowded => extract[base(r)] = {Whole(chart[r])}
      BY <1>6 DEF Rename, WholeInv, Progress
    <3>2. \A c \in Charts : entry'[c] = IF c = chart[r] THEN extract[base(r)] ELSE entry[c]
      BY <1>1, <1>6 DEF Rename, chartDir, TypeOK
    <3> QED
      BY <2>1, <3>1, <3>2 DEF WholeInv, WholeUnlessCrowded, chartDir, base
  <2>4. Progress(r)'
    BY <2>1 DEF Progress
  <2>5. at'[r] = 1
    BY <1>6, <2>1 DEF WholeInv, AtInv, Rename
  <2> QED
    BY <1>5, <2>1, <2>2, <2>3, <2>4, <2>5
<1>7. ASSUME NEW r \in Runs, HelmStat(r) PROVE WholeInv'
  <2>1. Others(r) /\ UNCHANGED <<pc, chart, at, extract, entry>> /\ at[r] = 1
    BY <1>7 DEF HelmStat, Others, TypeOK, WholeInv, AtInv
  <2>2. crowded \subseteq crowded'
    BY <1>7 DEF HelmStat
  <2>3. WholeUnlessCrowded'
    BY <2>1, <2>2 DEF WholeInv, WholeUnlessCrowded, chartDir
  <2>4. helm'[r] = IF extract[base(r)] = {} THEN "mkdir" ELSE "failed"
    BY <1>7 DEF HelmStat, TypeOK
  <2>5. base(r)' = base(r)
    BY <2>1 DEF base
  <2>6. Progress(r)'
    BY <2>1, <2>4, <2>5 DEF Progress
  <2>7. ASSUME Using(r)', NEW q \in Runs \ {r}, Using(q), base(q) = base(r) PROVE base(q) \in crowded'
    <3>1. extract[base(r)] = {}
      BY <2>4, <2>7 DEF Using
    <3> QED
      BY <1>7, <2>7, <3>1 DEF HelmStat
  <2> QED
    BY <2>1, <2>2, <2>3, <2>5, <2>6, <2>7, WholeFrame
<1>8. ASSUME NEW r \in Runs, HelmMkdir(r) PROVE WholeInv'
  <2>1. /\ Others(r) /\ Using(r) /\ UNCHANGED <<pc, chart, at, entry, crowded>> /\ helm'[r] = "open"
        /\ helm[r] = "mkdir"
    BY <1>8 DEF HelmMkdir, Others, Using, TypeOK
  <2>2. /\ \A b \in Bases \ {base(r)} : extract'[b] = extract[b]
        /\ extract[base(r)] = {} => extract'[base(r)] = {EmptyDirectory}
    BY <1>1, <1>8 DEF HelmMkdir, TypeOK
  <2>3. WholeUnlessCrowded'
    BY <2>1 DEF WholeInv, WholeUnlessCrowded, chartDir
  <2>4. at'[r] = 1 /\ base(r)' = base(r)
    BY <2>1 DEF WholeInv, AtInv, base
  <2>5. SoFar(r)' = EmptyDirectory
    BY <2>4 DEF SoFar, EmptyDirectory
  <2>6. base(r) \notin crowded => Progress(r)'
    BY <2>1, <2>2, <2>4, <2>5 DEF WholeInv, Progress
  <2> QED
    BY <1>5, <2>1, <2>2, <2>3, <2>4, <2>6
<1>9. ASSUME NEW r \in Runs, HelmOpen(r) PROVE WholeInv'
  <2>1. /\ Others(r) /\ Using(r) /\ UNCHANGED <<pc, chart, at, entry, crowded>> /\ helm'[r] = "write"
        /\ helm[r] = "open"
    BY <1>9 DEF HelmOpen, Others, Using, TypeOK
  <2>2. /\ \A b \in Bases \ {base(r)} : extract'[b] = extract[b]
        /\ extract[base(r)] = {SoFar(r)} => extract'[base(r)] = {Opened(SoFar(r), r)}
    BY <1>1, <1>9 DEF HelmOpen, TypeOK
  <2>3. WholeUnlessCrowded'
    BY <2>1 DEF WholeInv, WholeUnlessCrowded, chartDir
  <2>4. base(r)' = base(r)
    BY <2>1 DEF base
  <2>5. Opened(SoFar(r), r) = AtFile(r)'
    <3>1. at[r] \in Nat \ {0}
      BY DEF TypeOK, FileNames
    <3>2. DOMAIN SoFar(r) = 1 .. at[r] - 1 /\ DOMAIN SoFar(r) \union {at[r]} = 1 .. at[r]
      BY <3>1 DEF SoFar
    <3>3. ASSUME NEW f \in 1 .. at[r]
          PROVE  (IF f # at[r] THEN SoFar(r)[f]
                  ELSE [from |-> {},
                        open |-> {r} \union IF f \in DOMAIN SoFar(r) THEN SoFar(r)[f].open ELSE {}])
                 = (IF f < at[r] THEN FullFile(chart[r]) ELSE [from |-> {}, open |-> {r}])
      <4>1. CASE f # at[r]
        BY <3>1, <4>1 DEF SoFar
      <4>2. CASE f = at[r]
        <5>1. f \notin DOMAIN SoFar(r) /\ ~(f < at[r])
          BY <3>1, <3>2, <4>2
        <5>2. {r} \union {} = {r}
          OBVIOUS
        <5> QED
          BY <4>2, <5>1, <5>2
      <4> QED
        BY <4>1, <4>2
    <3> QED
      BY <2>1, <3>2, <3>3 DEF Opened, AtFile
  <2>6. base(r) \notin crowded => Progress(r)'
    BY <2>1, <2>2, <2>4, <2>5 DEF WholeInv, Progress
  <2> QED
    BY <1>5, <2>1, <2>2, <2>3, <2>6
<1>10. ASSUME NEW r \in Runs, HelmWrite(r) PROVE WholeInv'
  <2>1. /\ Others(r) /\ Using(r) /\ UNCHANGED <<pc, chart, crowded>> /\ helm[r] = "write"
        /\ helm'[r] = IF at[r] < Files THEN "open" ELSE "ok"
        /\ at'[r] = IF at[r] < Files THEN at[r] + 1 ELSE 1
    BY <1>10 DEF HelmWrite, Others, Using, TypeOK
  <2>2. /\ \A b \in Bases \ {base(r)} : extract'[b] = extract[b]
        /\ extract'[base(r)] = Written(extract[base(r)], r)
    BY <1>1, <1>10, OtherSlots DEF HelmWrite
  <2>3. WholeUnlessCrowded'
    <3>1. \A c \in Charts : Base(c) \notin crowded => entry'[c] = entry[c]
      BY <1>10, OtherSlots DEF HelmWrite
    <3> QED
      BY <2>1, <3>1 DEF WholeInv, WholeUnlessCrowded, chartDir
  <2>4. base(r)' = base(r)
    BY <2>1 DEF base
  <2>5. Written({AtFile(r)}, r) = {[f \in 1 .. at[r] |-> FullFile(chart[r])]}
    <3>1. WrittenIn(AtFile(r), r) = [f \in 1 .. at[r] |-> FullFile(chart[r])]
      <4>1. DOMAIN AtFile(r) = 1 .. at[r]
        BY DEF AtFile
      <4>2. ASSUME NEW f \in 1 .. at[r]
            PROVE  (IF r \in AtFile(r)[f].open
                    THEN [from |-> AtFile(r)[f].from \union {chart[r]}, open |-> AtFile(r)[f].open \ {r}]
                    ELSE AtFile(r)[f]) = FullFile(chart[r])
        <5>1. CASE f < at[r]
          BY <5>1 DEF AtFile, FullFile
        <5>2. CASE ~(f < at[r])
          <6>1. AtFile(r)[f].from = {} /\ AtFile(r)[f].open = {r}
            BY <5>2 DEF AtFile
          <6>2. {} \union {chart[r]} = {chart[r]} /\ {r} \ {r} = {}
            OBVIOUS
          <6> QED
            BY <6>1, <6>2 DEF FullFile
        <5> QED
          BY <5>1, <5>2
      <4> QED
        BY <4>1, <4>2 DEF WrittenIn
    <3> QED
      BY <3>1 DEF Written
  <2>6. base(r) \notin crowded => extract'[base(r)] = {[f \in 1 .. at[r] |-> FullFile(chart[r])]}
    BY <2>1, <2>2, <2>5 DEF WholeInv, Progress
  <2>7. at[r] \in 1 .. Files /\ Files \in Nat
    BY FilesAssumption DEF TypeOK, FileNames
  <2>8. base(r) \notin crowded => Progress(r)'
    <3>1. CASE at[r] < Files
      <4>1. SoFar(r)' = [f \in 1 .. at[r] |-> FullFile(chart[r])]
        BY <2>1, <2>7, <3>1 DEF SoFar
      <4> QED
        BY <2>1, <2>4, <2>6, <3>1, <4>1 DEF Progress
    <3>2. CASE ~(at[r] < Files)
      <4>1. Whole(chart[r]) = [f \in 1 .. at[r] |-> FullFile(chart[r])]
        BY <2>7, <3>2 DEF Whole, FileNames, FullFile
      <4> QED
        BY <2>1, <2>4, <2>6, <3>2, <4>1 DEF Progress
    <3> QED
      BY <3>1, <3>2
  <2> QED
    BY <1>5, <2>1, <2>2, <2>3, <2>8
<1>11. ASSUME NEW r \in Runs, HelmFails(r) PROVE WholeInv'
  <2>1. /\ Others(r) /\ UNCHANGED <<pc, chart, crowded>> /\ helm[r] \in Working
        /\ helm'[r] = "failed" /\ at'[r] = 1
    BY <1>11 DEF HelmFails, Others, TypeOK
  <2>2. \A b \in Bases \ {base(r)} : extract'[b] = extract[b]
    BY <1>11, OtherSlots DEF HelmFails
  <2>3. WholeUnlessCrowded'
    <3>1. \A c \in Charts : Base(c) \notin crowded => entry'[c] = entry[c]
      BY <1>11, OtherSlots DEF HelmFails
    <3> QED
      BY <2>1, <3>1 DEF WholeInv, WholeUnlessCrowded, chartDir
  <2>4. Progress(r)' /\ ~Using(r)'
    BY <2>1 DEF Progress, Using
  <2>5. CASE Using(r)
    BY <1>5, <2>1, <2>2, <2>3, <2>4, <2>5
  <2>6. CASE ~Using(r)
    <3>1. helm[r] = "fetch"
      BY <2>1, <2>6 DEF Using, Working
    <3>2. extract'[base(r)] = extract[base(r)]
      <4>1. \A d \in extract[base(r)] : d \in Directories /\ \A f \in DOMAIN d : r \notin d[f].open
        BY <1>1, <3>1 DEF AllFit, Fits, TypeOK, Slots
      <4>2. \A d \in extract[base(r)] : ClosedIn(d, r) = d
        <5> SUFFICES ASSUME NEW d \in extract[base(r)] PROVE ClosedIn(d, r) = d
          OBVIOUS
        <5>1. \A f \in DOMAIN d : d[f] \in File /\ d[f].open \ {r} = d[f].open
          BY <4>1, DirectoryElim
        <5>2. \A f \in DOMAIN d : [from |-> d[f].from, open |-> d[f].open \ {r}] = d[f]
          BY <5>1 DEF File
        <5>3. d = [f \in DOMAIN d |-> d[f]]
          BY <4>1, DirectoryElim
        <5> QED
          BY <5>2, <5>3 DEF ClosedIn
      <4> QED
        BY <1>1, <1>11, <4>2 DEF HelmFails, Closed
    <3>3. \A b \in Bases : extract'[b] = extract[b]
      BY <2>2, <3>2
    <3> QED
      BY <1>1, <2>1, <2>3, <2>4, <3>3, WholeFrame
  <2> QED
    BY <2>5, <2>6
<1>12. CASE UNCHANGED vars
  BY <1>12 DEF vars, WholeInv, AtInv, OneUser, Using, base, WholeUnlessCrowded, chartDir, Progress,
               SoFar, AtFile
<1> QED
  BY <1>3, <1>4, <1>6, <1>7, <1>8, <1>9, <1>10, <1>11, <1>12 DEF Next, RunStep, HelmStep

\* Unless two helms once extracted to the directory of a base name together, every
\* entry for a chart of that name is the chart, complete.
THEOREM WholeEntries == Spec => []WholeUnlessCrowded
<1>1. Init /\ TypeOK => WholeInv
  BY WholeInit
<1>2. TypeOK /\ HelmHasRun /\ AllFit /\ WholeInv /\ [Next]_vars => WholeInv'
  BY WholeStep
<1>3. WholeInv => WholeUnlessCrowded
  BY DEF WholeInv
<1> QED
  BY <1>1, <1>2, <1>3, FitInvariant, PTL DEF Spec
=============================================================================
