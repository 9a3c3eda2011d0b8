------------------------------ MODULE SelfUpdate ------------------------------
(***************************************************************************)
(* --self-update and --check-update (selfupdate.go): a run replaces the    *)
(* binary it was started from with the newest release.                     *)
(*                                                                         *)
(* A run refuses to update a build that is no release, asks for the newest *)
(* release with a binary for the platform, makes sure that the binary can  *)
(* be replaced, notes its mode, has the updater install the release, and   *)
(* puts the mode back.  Several runs may be at it at once, any of them may *)
(* be killed, and releases come and go all the while.                      *)
(*                                                                         *)
(* The updater is a library.  What is modelled of it: it downloads the     *)
(* release and verifies its checksum, writes it to a file beside the       *)
(* binary, with mode 0755, moves the binary away, moves the new one in,    *)
(* and removes the old one, or moves it back if that failed.  The names of *)
(* the two files depend on the binary's alone.  An open file stays the     *)
(* same file when it is renamed.                                           *)
(***************************************************************************)
EXTENDS Naturals

CONSTANTS Runs,     \* runs of the program
          Releases, \* numbers of the releases that may be published, in order
          Builds    \* what was built: see below

\* A build is of the commit "ahead" commits after that of a release: a release
\* itself if there are none.  "Bytes" that are no release at all count as release 0.
ASSUME BuildAssumption == Releases \subseteq Nat \ {0} /\ Builds \subseteq [release : Nat, ahead : Nat]

Released(n) == [release |-> n, ahead |-> 0]
Garbage == Released(0)
Contents == Builds \union {Released(n) : n \in Releases} \union {Garbage}

Modes == {"0700", "0755"}

\* A file has the data of some contents in it and is open for writing by some runs.
\* The run that truncated it last and has not written all of it yet leaves it short.
Files == [from : SUBSET Contents, mode : Modes, open : SUBSET Runs, short : SUBSET Runs]

\* A name in the directory has one file or, as a set, none.
Slots == {{}} \union {{f} : f \in Files}

Holding(build, mode) == [from |-> {build}, mode |-> mode, open |-> {}, short |-> {}]

VARIABLES place,     \* where the binary is: "managed", "unwritable" or "writable"
          published, \* releases to be found
          binary,    \* the binary
          new,       \* the file that becomes it
          old,       \* the file that was it
          pc,        \* what each run is about to do
          checkOnly, \* whether it only reports what it finds
          current,   \* the version stamped into it
          target,    \* the release it found
          mode,      \* the mode it is going to restore
          given,     \* history: the mode the binary was installed with
          mishaps    \* history: "overlap" of updates, killed in "swap" or before "chmod"

directory == <<binary, new, old>>
vars == <<place, published, directory, pc, checkOnly, current, target, mode, given, mishaps>>

Init ==
  /\ place \in {"managed", "unwritable", "writable"}
  /\ published \in SUBSET Releases
  /\ given \in Modes
  /\ binary \in {{Holding(b, given)} : b \in Builds}
  /\ new = {} /\ old = {}
  /\ pc = [r \in Runs |-> "idle"] /\ checkOnly = [r \in Runs |-> FALSE]
  /\ current \in [Runs -> {CHOOSE b \in Builds : TRUE}]
  /\ target = current
  /\ mode = [r \in Runs |-> "0755"]
  /\ mishaps = {}

Ended == {"idle", "done", "failed", "broken", "killed"}
Active(r) == pc[r] \notin Ended
Updating(r) == Active(r) /\ ~checkOnly[r]

-----------------------------------------------------------------------------
\* Mutant of isReleaseVersion: any version is as good as another.
AnyVersion(build) == TRUE

\* A version as git describe stamps it is not one of a release.
isReleaseVersion(build) == build.ahead = 0

\* In semver a build ahead of a release is a prerelease of it.
LessOrEqual(latest, build) ==
  latest < build.release \/ (latest = build.release /\ build.ahead = 0)

Goto(r, where) == pc' = [pc EXCEPT ![r] = where]

\* A run is started from the binary, if that is fit to be.
Start(r, check) ==
  /\ pc[r] \in Ended
  /\ \E f \in binary : \E b \in f.from :
       /\ f = Holding(b, f.mode) /\ b # Garbage
       /\ current' = [current EXCEPT ![r] = b]
  /\ Goto(r, "detect")
  /\ checkOnly' = [checkOnly EXCEPT ![r] = check]
  /\ mishaps' = IF ~check /\ \E q \in Runs : Updating(q) THEN mishaps \union {"overlap"}
                ELSE mishaps
  /\ UNCHANGED <<place, published, directory, target, mode, given>>

\* Only the run's place in selfUpdate changes.
Step(r, from, to) ==
  /\ pc[r] = from /\ Goto(r, to)
  /\ UNCHANGED <<place, published, directory, checkOnly, current, target, mode, given, mishaps>>

RefuseBuild(r) == ~isReleaseVersion(current[r]) /\ Step(r, "detect", "failed")

\* DetectLatest finds nothing, or fails.
DetectFails(r) == isReleaseVersion(current[r]) /\ Step(r, "detect", "failed")

Detect(r) ==
  /\ pc[r] = "detect" /\ isReleaseVersion(current[r])
  /\ \E latest \in published :
       /\ \A n \in published : n <= latest
       /\ IF LessOrEqual(latest, current[r]) \/ checkOnly[r]
          THEN Goto(r, "done") /\ UNCHANGED target
          ELSE Goto(r, "stat") /\ target' = [target EXCEPT ![r] = Released(latest)]
  /\ UNCHANGED <<place, published, directory, checkOnly, current, mode, given, mishaps>>

-----------------------------------------------------------------------------
\* replaceableMode

\* Mutant of Stat: nobody asks whose the binary is.
StatAny(r) ==
  /\ pc[r] = "stat"
  /\ \E f \in binary : mode' = [mode EXCEPT ![r] = f.mode]
  /\ Goto(r, "probe")
  /\ UNCHANGED <<place, published, directory, checkOnly, current, target, given, mishaps>>

Stat(r) ==
  /\ pc[r] = "stat" /\ place # "managed"
  /\ \E f \in binary : mode' = [mode EXCEPT ![r] = f.mode]
  /\ Goto(r, "probe")
  /\ UNCHANGED <<place, published, directory, checkOnly, current, target, given, mishaps>>

\* The binary may be a package manager's, or not to be found.
StatFails(r) == Step(r, "stat", "failed")

\* A file is created beside the binary, and removed again.
Probe(r) == place # "unwritable" /\ Step(r, "probe", "download")

ProbeFails(r) == Step(r, "probe", "failed")

-----------------------------------------------------------------------------
\* UpdateTo: nothing is written before what was downloaded has been verified.

\* Mutant of Download: what was downloaded is installed unseen.
DownloadUnverified(r) ==
  /\ pc[r] = "download" /\ Goto(r, "open")
  /\ target' = [target EXCEPT ![r] = Garbage]
  /\ UNCHANGED <<place, published, directory, checkOnly, current, mode, given, mishaps>>

Download(r) == Step(r, "download", "open")

\* The release is gone, or does not match its checksum.
DownloadFails(r) == Step(r, "download", "failed")

OpenNew(r) ==
  /\ pc[r] = "open" /\ Goto(r, "write")
  /\ new' = IF new = {} THEN {[from |-> {}, mode |-> "0755", open |-> {r}, short |-> {r}]}
            ELSE {[f EXCEPT !.from = {}, !.open = @ \union {r}, !.short = {r}] : f \in new}
  /\ UNCHANGED <<place, published, binary, old, checkOnly, current, target, mode, given, mishaps>>

\* What r writes goes to the file it opened, whatever its name is now.
Written(slot, r) ==
  {IF r \in f.open
   THEN [f EXCEPT !.from = @ \union {target[r]}, !.open = @ \ {r}, !.short = @ \ {r}]
   ELSE f : f \in slot}

WriteNew(r) ==
  /\ pc[r] = "write" /\ Goto(r, "unlink")
  /\ binary' = Written(binary, r) /\ new' = Written(new, r) /\ old' = Written(old, r)
  /\ UNCHANGED <<place, published, checkOnly, current, target, mode, given, mishaps>>

\* r closes its file having written some of its data or, with is empty, none.
Cut(slot, r, with) ==
  {IF r \in f.open THEN [f EXCEPT !.from = @ \union with, !.open = @ \ {r}] ELSE f : f \in slot}

CutShort(r) ==
  \E with \in {{}, {target[r]}} :
    binary' = Cut(binary, r, with) /\ new' = Cut(new, r, with) /\ old' = Cut(old, r, with)

WriteFails(r) ==
  /\ pc[r] = "write" /\ Goto(r, "failed")
  /\ CutShort(r)
  /\ UNCHANGED <<place, published, checkOnly, current, target, mode, given, mishaps>>

\* An old file that is in the way is removed ...
RemoveOld(r) ==
  /\ pc[r] = "unlink" /\ Goto(r, "away")
  /\ old' = {}
  /\ UNCHANGED <<place, published, binary, new, checkOnly, current, target, mode, given, mishaps>>

\* ... the binary is moved there ...
MoveAway(r) ==
  /\ pc[r] = "away" /\ binary # {} /\ Goto(r, "in")
  /\ old' = binary /\ binary' = {}
  /\ UNCHANGED <<place, published, new, checkOnly, current, target, mode, given, mishaps>>

\* Opening the new file fails, or moving the binary away.
InstallFails(r) == Step(r, "open", "failed") \/ Step(r, "away", "failed")

\* ... and the new file is moved in.
MoveIn(r) ==
  /\ pc[r] = "in" /\ new # {} /\ Goto(r, "clean")
  /\ binary' = new /\ new' = {}
  /\ UNCHANGED <<place, published, old, checkOnly, current, target, mode, given, mishaps>>

MoveInFails(r) == Step(r, "in", "rollback")

\* Mutant of RollBack: the old file is not moved back.
GiveUp(r) == Step(r, "rollback", "failed")

RollBack(r) ==
  /\ pc[r] = "rollback" /\ old # {} /\ Goto(r, "failed")
  /\ binary' = old /\ old' = {}
  /\ UNCHANGED <<place, published, new, checkOnly, current, target, mode, given, mishaps>>

\* Mutant of RollBackFails: the run tries to move the new file in once more.
MoveInAgain(r) == Step(r, "rollback", "in")

\* The error then says that the binary may be missing.
RollBackFails(r) == Step(r, "rollback", "broken")

Clean(r) ==
  /\ pc[r] = "clean" /\ Goto(r, "chmod")
  /\ old' = {}
  /\ UNCHANGED <<place, published, binary, new, checkOnly, current, target, mode, given, mishaps>>

-----------------------------------------------------------------------------
\* Mutant of Chmod: the installed mode is left as it is.
LeaveMode(r) == binary # {} /\ Step(r, "chmod", "done")

Chmod(r) ==
  /\ pc[r] = "chmod" /\ binary # {} /\ Goto(r, "done")
  /\ binary' = {[f EXCEPT !.mode = mode[r]] : f \in binary}
  /\ UNCHANGED <<place, published, new, old, checkOnly, current, target, mode, given, mishaps>>

ChmodFails(r) ==
  /\ pc[r] = "chmod" /\ Goto(r, "failed")
  /\ mishaps' = mishaps \union {"chmod"}
  /\ UNCHANGED <<place, published, directory, checkOnly, current, target, mode, given>>

\* A run may be killed anywhere, and leaves things as they are.
Kill(r) ==
  /\ Active(r) /\ Goto(r, "killed")
  /\ CutShort(r)
  /\ mishaps' = mishaps \union CASE pc[r] \in {"in", "rollback"} -> {"swap"}
                                 [] pc[r] \in {"clean", "chmod"} -> {"chmod"}
                                 [] OTHER -> {}
  /\ UNCHANGED <<place, published, checkOnly, current, target, mode, given>>

\* Releases are published and withdrawn.
Publish ==
  /\ published' \in SUBSET Releases
  /\ UNCHANGED <<place, directory, pc, checkOnly, current, target, mode, given, mishaps>>

RunStep(r) ==
  \/ RefuseBuild(r) \/ Detect(r) \/ DetectFails(r)
  \/ Stat(r) \/ StatFails(r) \/ Probe(r) \/ ProbeFails(r)
  \/ Download(r) \/ DownloadFails(r) \/ OpenNew(r) \/ WriteNew(r) \/ WriteFails(r)
  \/ RemoveOld(r) \/ MoveAway(r) \/ InstallFails(r) \/ MoveIn(r) \/ MoveInFails(r)
  \/ RollBack(r) \/ RollBackFails(r) \/ Clean(r) \/ Chmod(r) \/ ChmodFails(r)

Next ==
  \/ Publish
  \/ \E r \in Runs : RunStep(r) \/ Kill(r) \/ \E check \in BOOLEAN : Start(r, check)

\* A run goes on as long as GitHub answers; nothing makes it start, or be killed.
Spec == Init /\ [][Next]_vars /\ \A r \in Runs : WF_vars(RunStep(r))

-----------------------------------------------------------------------------
\* Each variable ranges over what the runs can put in it.
TypeOK ==
  /\ place \in {"managed", "unwritable", "writable"}
  /\ published \subseteq Releases
  /\ binary \in Slots /\ new \in Slots /\ old \in Slots
  /\ pc \in [Runs -> Ended \union
       {"detect", "stat", "probe", "download", "open", "write", "unlink", "away",
        "in", "rollback", "clean", "chmod"}]
  /\ checkOnly \in [Runs -> BOOLEAN]
  /\ current \in [Runs -> Contents] /\ target \in [Runs -> Contents]
  /\ mode \in [Runs -> Modes]
  /\ given \in Modes
  /\ mishaps \subseteq {"overlap", "swap", "chmod"}

\* Unless updates overlapped, what is in place is all of one build: not half a
\* download, not what a killed run left beside it, not what failed its checksum.
InstalledWhole ==
  "overlap" \notin mishaps =>
    \A f \in binary : \E b \in Builds \union {Released(n) : n \in Releases} :
      f = Holding(b, f.mode)

\* Even when updates overlap the binary is there, but for the moment between the two
\* moves, unless a run was killed just then or is the one that says it may be missing.
BinaryInPlace ==
  binary = {} => "swap" \in mishaps \/ \E r \in Runs : pc[r] \in {"in", "rollback", "broken"}

Older(a, b) == a.release < b.release \/ (a.release = b.release /\ a.ahead < b.ahead)

\* "Updating such a build would quietly move it backwards": unless updates overlapped,
\* what is put in the place of the binary is newer, whatever the version stamped into it
\* and whatever is published and withdrawn meanwhile.
NeverBackwards ==
  "overlap" \notin mishaps =>
    \A r \in Runs : pc[r] = "clean" =>
      \A f \in old, g \in binary : \A b \in f.from, c \in g.from : Older(b, c)

\* A binary a package manager owns is left alone, and a run that only checks leaves
\* every file alone.
KeepsHandsOff ==
  [][/\ place = "managed" => UNCHANGED directory
     /\ \A r \in Runs : checkOnly[r] /\ pc'[r] # pc[r] => UNCHANGED directory]_vars

\* Unless updates overlapped, or one was killed or failed before it could put the mode
\* back, the binary has the mode it was installed with.
ModePreserved ==
  mishaps \intersect {"overlap", "chmod"} = {} =>
    \A f \in binary : f.mode = given \/ \E r \in Runs : pc[r] \in {"clean", "chmod"}

\* An update comes to an end unless it is killed.
UpdatesEnd == \A r \in Runs : Active(r) ~> ~Active(r)
=============================================================================
