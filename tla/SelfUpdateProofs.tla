--------------------------- MODULE SelfUpdateProofs ---------------------------
(***************************************************************************)
(* Proofs about SelfUpdate for any runs, releases and builds, however many *)
(* runs there are and however often they are started and killed.           *)
(***************************************************************************)
EXTENDS SelfUpdate, TLAPS

AllPlaces == Ended \union
  {"detect", "stat", "probe", "download", "open", "write", "unlink", "away",
   "in", "rollback", "clean", "chmod"}

LEMMA ContentsTyped ==
  /\ Builds \subseteq Contents /\ Garbage \in Contents
  /\ \A n \in Releases : Released(n) \in Contents
  BY DEF Contents

LEMMA SlotOfOne == \A f \in Files : {f} \in Slots
  BY DEF Slots

LEMMA EmptySlot == {} \in Slots
  BY DEF Slots

LEMMA FileOfSlot == \A slot \in Slots : slot = {} \/ \E f \in Files : slot = {f}
  BY DEF Slots

LEMMA WrittenTyped ==
  ASSUME TypeOK, NEW slot \in Slots, NEW r \in Runs
  PROVE  Written(slot, r) \in Slots
<1>1. CASE slot = {}
  BY <1>1, EmptySlot DEF Written
<1>2. ASSUME NEW f \in Files, slot = {f} PROVE Written(slot, r) \in Slots
  <2> DEFINE g == [f EXCEPT !.from = @ \union {target[r]}, !.open = @ \ {r}, !.short = @ \ {r}]
  <2>1. target[r] \in Contents
    BY DEF TypeOK
  <2>2. g \in Files
    BY <2>1 DEF Files
  <2>3. Written(slot, r) = {g} \/ Written(slot, r) = {f}
    BY <1>2 DEF Written
  <2> QED
    BY <2>2, <2>3, SlotOfOne
<1> QED
  BY <1>1, <1>2, FileOfSlot

LEMMA CutTyped ==
  ASSUME TypeOK, NEW slot \in Slots, NEW r \in Runs, NEW with \in {{}, {target[r]}}
  PROVE  Cut(slot, r, with) \in Slots
<1>1. CASE slot = {}
  BY <1>1, EmptySlot DEF Cut
<1>2. ASSUME NEW f \in Files, slot = {f} PROVE Cut(slot, r, with) \in Slots
  <2> DEFINE g == [f EXCEPT !.from = @ \union with, !.open = @ \ {r}]
  <2>1. with \subseteq Contents
    BY DEF TypeOK
  <2>2. g \in Files
    BY <2>1 DEF Files
  <2>3. Cut(slot, r, with) = {g} \/ Cut(slot, r, with) = {f}
    BY <1>2 DEF Cut
  <2> QED
    BY <2>2, <2>3, SlotOfOne
<1> QED
  BY <1>1, <1>2, FileOfSlot

LEMMA CutShortTyped ==
  ASSUME TypeOK, NEW r \in Runs, CutShort(r)
  PROVE  binary' \in Slots /\ new' \in Slots /\ old' \in Slots
<1>1. PICK with \in {{}, {target[r]}} :
        binary' = Cut(binary, r, with) /\ new' = Cut(new, r, with) /\ old' = Cut(old, r, with)
  BY DEF CutShort
<1>2. binary \in Slots /\ new \in Slots /\ old \in Slots
  BY DEF TypeOK
<1> QED
  BY <1>1, <1>2, CutTyped

LEMMA HoldingTyped == \A b \in Contents, m \in Modes : Holding(b, m) \in Files
  BY DEF Holding, Files

LEMMA InitTypes == Init => TypeOK
<1> SUFFICES ASSUME Init PROVE TypeOK
  OBVIOUS
<1>1. PICK b \in Builds : binary = {Holding(b, given)}
  BY DEF Init
<1>2. binary \in Slots /\ new \in Slots /\ old \in Slots
  BY <1>1, ContentsTyped, HoldingTyped, SlotOfOne, EmptySlot DEF Init
<1>3. (CHOOSE c \in Builds : TRUE) \in Contents
  BY <1>1, ContentsTyped
<1> QED
  BY <1>2, <1>3 DEF Init, TypeOK, Ended, Modes

\* Every action but Publish and Start is a step of one run to another place.
LEMMA TypesStep == TypeOK /\ [Next]_vars => TypeOK'
<1> SUFFICES ASSUME TypeOK, [Next]_vars PROVE TypeOK'
  OBVIOUS
<1>0. \A f \in binary : f \in Files
  BY FileOfSlot DEF TypeOK
<1>1. CASE Publish
  BY <1>1 DEF Publish, TypeOK, directory
<1>2. ASSUME NEW r \in Runs, NEW check \in BOOLEAN, Start(r, check) PROVE TypeOK'
  <2>1. PICK f \in binary : \E b \in f.from :
          f = Holding(b, f.mode) /\ b # Garbage /\ current' = [current EXCEPT ![r] = b]
    BY <1>2 DEF Start
  <2>2. f.from \subseteq Contents
    BY <1>0, <2>1 DEF Files
  <2>3. current' \in [Runs -> Contents]
    BY <2>1, <2>2 DEF TypeOK
  <2> QED
    BY <1>2, <2>3 DEF Start, TypeOK, Goto, directory
<1>3. ASSUME NEW r \in Runs, NEW from, NEW to \in AllPlaces, Step(r, from, to) PROVE TypeOK'
  BY <1>3 DEF Step, TypeOK, Goto, directory, AllPlaces
<1>4. ASSUME NEW r \in Runs, Detect(r) PROVE TypeOK'
  BY <1>4, ContentsTyped DEF Detect, TypeOK, Goto, directory, Ended
<1>5. ASSUME NEW r \in Runs, Stat(r) PROVE TypeOK'
  <2>1. \A f \in binary : f.mode \in Modes
    BY <1>0 DEF Files
  <2>2. mode' \in [Runs -> Modes]
    BY <1>5, <2>1 DEF Stat, TypeOK
  <2> QED
    BY <1>5, <2>2 DEF Stat, TypeOK, Goto, directory
<1>6. ASSUME NEW r \in Runs, OpenNew(r) PROVE TypeOK'
  <2>1. new' \in Slots
    <3>1. CASE new = {}
      <4>1. [from |-> {}, mode |-> "0755", open |-> {r}, short |-> {r}] \in Files
        BY DEF Files, Modes
      <4> QED
        BY <1>6, <3>1, <4>1, SlotOfOne DEF OpenNew
    <3>2. ASSUME NEW f \in Files, new = {f} PROVE new' \in Slots
      <4>1. [f EXCEPT !.from = {}, !.open = @ \union {r}, !.short = {r}] \in Files
        BY DEF Files
      <4>2. new' = {[f EXCEPT !.from = {}, !.open = @ \union {r}, !.short = {r}]}
        BY <1>6, <3>2 DEF OpenNew
      <4> QED
        BY <4>1, <4>2, SlotOfOne
    <3> QED
      BY <3>1, <3>2, FileOfSlot DEF TypeOK
  <2> QED
    BY <1>6, <2>1 DEF OpenNew, TypeOK, Goto
<1>7. ASSUME NEW r \in Runs, WriteNew(r) PROVE TypeOK'
  <2>1. binary' \in Slots /\ new' \in Slots /\ old' \in Slots
    BY <1>7, WrittenTyped DEF WriteNew, TypeOK
  <2> QED
    BY <1>7, <2>1 DEF WriteNew, TypeOK, Goto
<1>8. ASSUME NEW r \in Runs, WriteFails(r) PROVE TypeOK'
  <2>1. binary' \in Slots /\ new' \in Slots /\ old' \in Slots
    BY <1>8, CutShortTyped DEF WriteFails
  <2> QED
    BY <1>8, <2>1 DEF WriteFails, TypeOK, Goto, Ended
<1>9. ASSUME NEW r \in Runs, RemoveOld(r) \/ Clean(r) PROVE TypeOK'
  BY <1>9, EmptySlot DEF RemoveOld, Clean, TypeOK, Goto
<1>10. ASSUME NEW r \in Runs, MoveAway(r) \/ MoveIn(r) \/ RollBack(r) PROVE TypeOK'
  BY <1>10, EmptySlot DEF MoveAway, MoveIn, RollBack, TypeOK, Goto, Ended
<1>11. ASSUME NEW r \in Runs, Chmod(r) PROVE TypeOK'
  <2>1. PICK f \in Files : binary = {f}
    BY <1>11, FileOfSlot DEF Chmod, TypeOK
  <2>2. [f EXCEPT !.mode = mode[r]] \in Files
    BY DEF Files, TypeOK
  <2>3. binary' = {[f EXCEPT !.mode = mode[r]]}
    BY <1>11, <2>1 DEF Chmod
  <2>4. binary' \in Slots
    BY <2>2, <2>3, SlotOfOne
  <2> QED
    BY <1>11, <2>4 DEF Chmod, TypeOK, Goto, Ended
<1>12. ASSUME NEW r \in Runs, ChmodFails(r) PROVE TypeOK'
  BY <1>12 DEF ChmodFails, TypeOK, Goto, Ended, directory
<1>13. ASSUME NEW r \in Runs, Kill(r) PROVE TypeOK'
  <2>1. binary' \in Slots /\ new' \in Slots /\ old' \in Slots
    BY <1>13, CutShortTyped DEF Kill
  <2>2. mishaps' \subseteq {"overlap", "swap", "chmod"}
    BY <1>13 DEF Kill, TypeOK
  <2> QED
    BY <1>13, <2>1, <2>2 DEF Kill, TypeOK, Goto, Ended
<1>14. CASE UNCHANGED vars
  BY <1>14 DEF vars, directory, TypeOK
<1>15. ASSUME NEW r \in Runs, RunStep(r) PROVE TypeOK'
  BY <1>3, <1>4, <1>5, <1>6, <1>7, <1>8, <1>9, <1>10, <1>11, <1>12, <1>15
     DEF RunStep, RefuseBuild, DetectFails, StatFails, Probe, ProbeFails, Download,
         DownloadFails, InstallFails, MoveInFails, RollBackFails, AllPlaces, Ended
<1> QED
  BY <1>1, <1>2, <1>13, <1>14, <1>15 DEF Next

\* Each variable ranges over what the runs can put in it.
THEOREM TypeCorrect == Spec => []TypeOK
  BY InitTypes, TypesStep, PTL DEF Spec

-----------------------------------------------------------------------------
\* What an action is, for the invariants below.

Apart == "overlap" \notin mishaps
Asleep == Ended \union {"detect"}

\* The steps that touch no file and set no variable but the place of the run.
Moves ==
  {<<"detect", "failed">>, <<"stat", "failed">>, <<"probe", "download">>, <<"probe", "failed">>,
   <<"download", "open">>, <<"download", "failed">>, <<"open", "failed">>, <<"away", "failed">>,
   <<"in", "rollback">>, <<"rollback", "broken">>}

LEMMA StepCases ==
  ASSUME NEW r \in Runs, RunStep(r)
  PROVE  \/ \E m \in Moves : Step(r, m[1], m[2])
         \/ Detect(r) \/ Stat(r) \/ OpenNew(r) \/ WriteNew(r) \/ WriteFails(r)
         \/ RemoveOld(r) \/ MoveAway(r) \/ MoveIn(r) \/ RollBack(r) \/ Clean(r)
         \/ Chmod(r) \/ ChmodFails(r)
<1>1. ASSUME NEW m \in Moves, Step(r, m[1], m[2]) PROVE \E n \in Moves : Step(r, n[1], n[2])
  BY <1>1
<1>2. ASSUME NEW a, NEW b, <<a, b>> \in Moves, Step(r, a, b)
      PROVE  \E n \in Moves : Step(r, n[1], n[2])
  <2>1. <<a, b>>[1] = a /\ <<a, b>>[2] = b
    OBVIOUS
  <2> QED
    BY <1>2, <2>1
<1>3. RefuseBuild(r) \/ DetectFails(r) => Step(r, "detect", "failed")
  BY DEF RefuseBuild, DetectFails
<1>4. Probe(r) => Step(r, "probe", "download")
  BY DEF Probe
<1> QED
  BY <1>2, <1>3, <1>4
     DEF RunStep, Moves, StatFails, ProbeFails, Download, DownloadFails, InstallFails,
         MoveInFails, RollBackFails

\* A mishap is not forgotten.
LEMMA MishapsGrow ==
  ASSUME [Next]_vars
  PROVE  mishaps \subseteq mishaps'
<1>1. ASSUME NEW r \in Runs, RunStep(r) PROVE mishaps \subseteq mishaps'
  BY <1>1, StepCases
     DEF Step, Detect, Stat, OpenNew, WriteNew, WriteFails, RemoveOld, MoveAway, MoveIn, RollBack,
         Clean, Chmod, ChmodFails
<1>2. ASSUME NEW r \in Runs, NEW check \in BOOLEAN, Start(r, check) PROVE mishaps \subseteq mishaps'
  BY <1>2 DEF Start
<1>3. ASSUME NEW r \in Runs, Kill(r) PROVE mishaps \subseteq mishaps'
  BY <1>3 DEF Kill
<1> QED
  BY <1>1, <1>2, <1>3 DEF Next, Publish, vars

\* A run that only checks does not get beyond that, and unless updates overlapped there
\* is one at most.
Alone ==
  /\ \A r \in Runs : checkOnly[r] => pc[r] \in Asleep
  /\ Apart => \A q, r \in Runs : Updating(q) /\ Updating(r) => q = r

LEMMA InitAlone == Init => Alone
  BY DEF Init, Alone, Asleep, Ended, Updating, Active

LEMMA AloneStep == TypeOK /\ Alone /\ [Next]_vars => Alone'
<1> SUFFICES ASSUME TypeOK, Alone, [Next]_vars PROVE Alone'
  OBVIOUS
<1> USE DEF Alone, TypeOK
<1>1. Apart' => Apart
  BY MishapsGrow DEF Apart
<1>2. ASSUME NEW r \in Runs, NEW to \in AllPlaces, Goto(r, to), checkOnly' = checkOnly,
             pc[r] \notin Ended, pc[r] = "detect" /\ checkOnly[r] => to \in Asleep
      PROVE  Alone'
  <2>1. \A q \in Runs : pc'[q] = IF q = r THEN to ELSE pc[q]
    BY <1>2 DEF Goto
  <2>2. \A q \in Runs : Updating(q)' => Updating(q)
    BY <1>2, <2>1 DEF Updating, Active
  <2> QED
    BY <1>1, <1>2, <2>1, <2>2 DEF Asleep
<1>3. ASSUME NEW r \in Runs, NEW check \in BOOLEAN, Start(r, check) PROVE Alone'
  <2>1. /\ \A q \in Runs : pc'[q] = IF q = r THEN "detect" ELSE pc[q]
        /\ \A q \in Runs : checkOnly'[q] = IF q = r THEN check ELSE checkOnly[q]
    BY <1>3 DEF Start, Goto
  <2>2. \A q \in Runs : checkOnly'[q] => pc'[q] \in Asleep
    BY <2>1 DEF Asleep
  <2>3. ASSUME Apart', ~check PROVE \A q \in Runs : ~Updating(q)
    BY <1>3, <2>3 DEF Start, Apart
  <2>4. \A q \in Runs : q # r /\ Updating(q)' => Updating(q)
    BY <2>1 DEF Updating, Active
  <2>5. check => ~Updating(r)'
    BY <2>1 DEF Updating
  <2> QED
    BY <1>1, <2>2, <2>3, <2>4, <2>5
<1>4. ASSUME NEW r \in Runs, RunStep(r) PROVE Alone'
  <2>1. ASSUME NEW m \in Moves, Step(r, m[1], m[2]) PROVE Alone'
    <3>1. m[1] \notin Ended /\ m[2] \in AllPlaces /\ (m[1] = "detect" => m[2] \in Asleep)
      BY <2>1 DEF Moves, Ended, AllPlaces, Asleep
    <3> QED
      BY <1>2, <2>1, <3>1 DEF Step
  <2>2. CASE Detect(r)
    BY <1>2, <2>2 DEF Detect, AllPlaces, Asleep, Ended
  <2>3. CASE Stat(r) \/ OpenNew(r) \/ WriteNew(r) \/ WriteFails(r) \/ RemoveOld(r) \/ MoveAway(r)
    BY <1>2, <2>3 DEF Stat, OpenNew, WriteNew, WriteFails, RemoveOld, MoveAway, AllPlaces, Ended
  <2>4. CASE MoveIn(r) \/ RollBack(r) \/ Clean(r) \/ Chmod(r) \/ ChmodFails(r)
    BY <1>2, <2>4 DEF MoveIn, RollBack, Clean, Chmod, ChmodFails, AllPlaces, Ended
  <2> QED
    BY <1>4, <2>1, <2>2, <2>3, <2>4, StepCases
<1>5. ASSUME NEW r \in Runs, Kill(r) PROVE Alone'
  BY <1>2, <1>5 DEF Kill, Active, AllPlaces, Asleep, Ended
<1>6. CASE Publish \/ UNCHANGED vars
  BY <1>6 DEF Publish, vars, Asleep, Apart, Updating, Active
<1> QED
  BY <1>3, <1>4, <1>5, <1>6 DEF Next

\* While one run is at it the others touch nothing.
LEMMA OthersAsleep ==
  ASSUME TypeOK, Alone, Apart, NEW r \in Runs, pc[r] \notin Asleep
  PROVE  \A q \in Runs : q # r => pc[q] \in Asleep /\ (pc[q] = "detect" => checkOnly[q])
<1>1. Updating(r)
  BY DEF Alone, Updating, Active, Asleep
<1>2. \A q \in Runs : q # r => ~Updating(q)
  BY <1>1 DEF Alone
<1>3. \A q \in Runs : q # r => checkOnly[q] \/ pc[q] \in Ended
  BY <1>2 DEF Updating, Active
<1>4. \A q \in Runs : checkOnly[q] => pc[q] \in Asleep
  BY DEF Alone
<1> QED
  BY <1>3, <1>4 DEF Asleep, Ended

\* A run that installs has found a release newer than itself.
Targeted ==
  {"stat", "probe", "download", "open", "write", "unlink", "away", "in", "rollback", "clean", "chmod"}

TargetInv ==
  \A r \in Runs : pc[r] \in Targeted =>
    target[r] \in {Released(n) : n \in Releases} /\ Older(current[r], target[r])

LEMMA TargetStep == TypeOK /\ TargetInv /\ [Next]_vars => TargetInv'
<1> SUFFICES ASSUME TypeOK, TargetInv, [Next]_vars PROVE TargetInv'
  OBVIOUS
<1> USE DEF TypeOK, TargetInv
<1>1. ASSUME NEW r \in Runs, NEW to, Goto(r, to), target' = target, current' = current,
             to \in Targeted => pc[r] \in Targeted
      PROVE  TargetInv'
  BY <1>1 DEF Goto
<1>2. ASSUME NEW r \in Runs, Detect(r) PROVE TargetInv'
  <2>1. PICK latest \in published :
          IF LessOrEqual(latest, current[r]) \/ checkOnly[r]
          THEN Goto(r, "done") /\ UNCHANGED target
          ELSE Goto(r, "stat") /\ target' = [target EXCEPT ![r] = Released(latest)]
    BY <1>2 DEF Detect
  <2>2. current' = current
    BY <1>2 DEF Detect
  <2>3. CASE Goto(r, "done") /\ UNCHANGED target
    BY <1>1, <2>2, <2>3 DEF Targeted
  <2>4. CASE /\ ~LessOrEqual(latest, current[r])
             /\ Goto(r, "stat") /\ target' = [target EXCEPT ![r] = Released(latest)]
    <3>1. latest \in Nat /\ latest \in Releases
      BY BuildAssumption
    <3>2. current[r].release \in Nat
      BY BuildAssumption DEF Contents, Released, Garbage
    <3>3. current[r].release < latest \/ (current[r].release = latest /\ current[r].ahead # 0)
      BY <2>4, <3>1, <3>2 DEF LessOrEqual
    <3>4. isReleaseVersion(current[r])
      BY <1>2 DEF Detect
    <3>5. Older(current[r], Released(latest))
      BY <3>3, <3>4 DEF Older, Released, isReleaseVersion
    <3> QED
      BY <2>2, <2>4, <3>1, <3>5 DEF Goto
  <2> QED
    BY <2>1, <2>3, <2>4
<1>3. ASSUME NEW r \in Runs, NEW check \in BOOLEAN, Start(r, check) PROVE TargetInv'
  <2>1. target' = target /\ pc' = [pc EXCEPT ![r] = "detect"]
    BY <1>3 DEF Start, Goto
  <2>2. PICK b : current' = [current EXCEPT ![r] = b]
    BY <1>3 DEF Start
  <2>3. \A q \in Runs : q # r => pc'[q] = pc[q] /\ current'[q] = current[q]
    BY <2>1, <2>2
  <2>4. pc'[r] \notin Targeted
    BY <2>1 DEF Targeted
  <2> QED
    BY <2>1, <2>3, <2>4
<1>4. ASSUME NEW r \in Runs, RunStep(r) PROVE TargetInv'
  <2>1. ASSUME NEW m \in Moves, Step(r, m[1], m[2]) PROVE TargetInv'
    <3>1. m[2] \in Targeted => m[1] \in Targeted
      BY DEF Moves, Targeted
    <3> QED
      BY <1>1, <2>1, <3>1 DEF Step
  <2>2. CASE Stat(r) \/ OpenNew(r) \/ WriteNew(r) \/ WriteFails(r) \/ RemoveOld(r) \/ MoveAway(r)
    BY <1>1, <2>2 DEF Stat, OpenNew, WriteNew, WriteFails, RemoveOld, MoveAway, Targeted
  <2>3. CASE MoveIn(r) \/ RollBack(r) \/ Clean(r) \/ Chmod(r) \/ ChmodFails(r)
    BY <1>1, <2>3 DEF MoveIn, RollBack, Clean, Chmod, ChmodFails, Targeted
  <2> QED
    BY <1>2, <1>4, <2>1, <2>2, <2>3, StepCases
<1>5. ASSUME NEW r \in Runs, Kill(r) PROVE TargetInv'
  BY <1>1, <1>5 DEF Kill, Targeted
<1>6. CASE Publish \/ UNCHANGED vars
  BY <1>6 DEF Publish, vars
<1> QED
  BY <1>3, <1>4, <1>5, <1>6 DEF Next

-----------------------------------------------------------------------------
\* The files: what is in place or was is whole, and a file that is not is the new one,
\* open in the run that writes it or left behind by one that did.

Good == Builds \union {Released(n) : n \in Releases}
Sound(f) == \E b \in Good : f = Holding(b, f.mode)
Empty(f, r) == f = [from |-> {}, mode |-> f.mode, open |-> {r}, short |-> {r}]

FilesInv ==
  Apart =>
    /\ \A f \in binary \union old : Sound(f)
    /\ \A f \in new : \A q \in f.open : pc[q] = "write"
    /\ \A r \in Runs : pc[r] = "write" => \A f \in new : Empty(f, r)
    /\ \A r \in Runs : pc[r] \in {"unlink", "away", "in", "rollback"} =>
         \A f \in new : f = Holding(target[r], f.mode)

LEMMA InitFiles == Init => FilesInv
<1> SUFFICES ASSUME Init PROVE FilesInv
  OBVIOUS
<1>1. PICK b \in Builds : binary = {Holding(b, given)}
  BY DEF Init
<1>2. \A f \in binary : Sound(f)
  BY <1>1 DEF Sound, Good, Holding
<1> QED
  BY <1>2 DEF Init, FilesInv

\* Sound files are shut.
LEMMA SoundIsShut == \A f : Sound(f) => f.open = {} /\ f.short = {}
  BY DEF Sound, Holding

LEMMA ShutStays ==
  ASSUME NEW slot, NEW r \in Runs, \A f \in slot : r \notin f.open
  PROVE  Written(slot, r) = slot /\ \A with : Cut(slot, r, with) = slot
  BY DEF Written, Cut

LEMMA TypeOfFiles ==
  ASSUME TypeOK
  PROVE  \A f \in binary \union new \union old :
           f = [from |-> f.from, mode |-> f.mode, open |-> f.open, short |-> f.short]
           /\ f.open \subseteq Runs /\ f.mode \in Modes
<1>1. \A f \in binary \union new \union old : f \in Files
  BY FileOfSlot DEF TypeOK
<1> QED
  BY <1>1 DEF Files

LEMMA FilesStep == TypeOK /\ Alone /\ TargetInv /\ FilesInv /\ [Next]_vars => FilesInv'
<1> SUFFICES ASSUME TypeOK, Alone, TargetInv, FilesInv, [Next]_vars, Apart' PROVE FilesInv'
  BY DEF FilesInv
<1>1. Apart
  BY MishapsGrow DEF Apart
<1>2. /\ \A f \in binary \union old : Sound(f) /\ f.open = {}
      /\ \A f \in new : \A q \in f.open : pc[q] = "write"
      /\ \A r \in Runs : pc[r] = "write" => \A f \in new : Empty(f, r)
      /\ \A r \in Runs : pc[r] \in {"unlink", "away", "in", "rollback"} =>
           \A f \in new : f = Holding(target[r], f.mode)
  BY <1>1, SoundIsShut DEF FilesInv
<1>3. ASSUME NEW r \in Runs, NEW to, Goto(r, to) PROVE \A q \in Runs : pc'[q] = IF q = r THEN to ELSE pc[q]
  BY <1>3 DEF Goto, TypeOK
<1>4. ASSUME NEW r \in Runs, pc[r] \notin Asleep PROVE \A q \in Runs : q # r => pc[q] \in Asleep
  BY <1>1, <1>4, OthersAsleep
<1>5. \A f \in new : f.open \subseteq Runs
  BY TypeOfFiles
\* A step that touches no file.
<1>6. ASSUME NEW r \in Runs, NEW to, Goto(r, to), UNCHANGED directory,
             \A q \in Runs : q # r => target'[q] = target[q],
             pc[r] # "write", to # "write",
             to \in {"unlink", "away", "in", "rollback"} =>
               target'[r] = target[r] /\ pc[r] \in {"unlink", "away", "in", "rollback"}
      PROVE  FilesInv'
  <2>1. \A q \in Runs : pc'[q] = IF q = r THEN to ELSE pc[q]
    BY <1>3, <1>6
  <2>2. binary' = binary /\ new' = new /\ old' = old
    BY <1>6 DEF directory
  <2>3. \A f \in new' : \A q \in f.open : pc'[q] = "write"
    BY <1>2, <1>5, <1>6, <2>1, <2>2
  <2>4. \A q \in Runs : pc'[q] = "write" => \A f \in new' : Empty(f, q)
    BY <1>2, <1>6, <2>1, <2>2
  <2>5. \A q \in Runs : pc'[q] \in {"unlink", "away", "in", "rollback"} =>
          \A f \in new' : f = Holding(target'[q], f.mode)
    BY <1>2, <1>6, <2>1, <2>2
  <2> QED
    BY <1>2, <2>2, <2>3, <2>4, <2>5 DEF FilesInv
\* A run that closes its file, if it has one open, and ends.
<1>7. ASSUME NEW r \in Runs, NEW to \in Ended, CutShort(r), Goto(r, to), target' = target
      PROVE  FilesInv'
  <2>1. \A q \in Runs : pc'[q] = IF q = r THEN to ELSE pc[q]
    BY <1>3, <1>7
  <2>2. to \notin {"write", "unlink", "away", "in", "rollback"}
    BY DEF Ended
  <2>3. PICK with : binary' = Cut(binary, r, with) /\ new' = Cut(new, r, with) /\ old' = Cut(old, r, with)
    BY <1>7 DEF CutShort
  <2>4. binary' = binary /\ old' = old
    BY <1>2, <2>3, ShutStays
  <2>5. CASE \A f \in new : r \notin f.open
    <3>1. new' = new
      BY <2>3, <2>5, ShutStays
    <3>2. \A f \in new' : \A q \in f.open : pc'[q] = "write"
      BY <1>2, <1>5, <2>1, <2>5, <3>1
    <3>3. \A q \in Runs : pc'[q] = "write" => \A f \in new' : Empty(f, q)
      BY <1>2, <2>1, <2>2, <3>1
    <3>4. \A q \in Runs : pc'[q] \in {"unlink", "away", "in", "rollback"} =>
            \A f \in new' : f = Holding(target'[q], f.mode)
      BY <1>2, <1>7, <2>1, <2>2, <3>1
    <3> QED
      BY <1>2, <2>4, <3>2, <3>3, <3>4 DEF FilesInv
  <2>6. CASE \E f \in new : r \in f.open
    <3>1. pc[r] = "write"
      BY <1>2, <2>6
    <3>2. \A q \in Runs : pc'[q] \notin {"write", "unlink", "away", "in", "rollback"}
      BY <1>4, <2>1, <2>2, <3>1 DEF Asleep, Ended
    <3>3. \A f \in new : f.open = {r}
      BY <1>2, <3>1 DEF Empty
    <3>4. \A g \in new' : g.open = {}
      <4>1. ASSUME NEW f \in new PROVE [f EXCEPT !.from = @ \union with, !.open = @ \ {r}].open = {}
        <5>1. f = [from |-> f.from, mode |-> f.mode, open |-> f.open, short |-> f.short]
          BY TypeOfFiles
        <5> QED
          BY <3>3, <5>1
      <4> QED
        BY <2>3, <3>3, <4>1 DEF Cut
    <3> QED
      BY <1>2, <2>4, <3>2, <3>4 DEF FilesInv
  <2> QED
    BY <2>5, <2>6
<1>8. ASSUME NEW r \in Runs, OpenNew(r) PROVE FilesInv'
  <2>1. \A q \in Runs : pc'[q] = IF q = r THEN "write" ELSE pc[q]
    BY <1>3, <1>8 DEF OpenNew
  <2>2. pc[r] = "open" /\ binary' = binary /\ old' = old /\ target' = target
    BY <1>8 DEF OpenNew
  <2>3. \A q \in Runs : q # r => pc[q] \in Asleep
    BY <1>4, <2>2 DEF Asleep, Ended
  <2>4. \A f \in new : f.open = {}
    BY <1>2, <1>5, <2>2, <2>3 DEF Asleep, Ended
  <2>5. \A g \in new' : Empty(g, r) /\ g.open = {r}
    <3>1. ASSUME NEW f \in new, NEW g, g = [f EXCEPT !.from = {}, !.open = @ \union {r}, !.short = {r}]
          PROVE  Empty(g, r) /\ g.open = {r}
      <4>1. f = [from |-> f.from, mode |-> f.mode, open |-> f.open, short |-> f.short]
        BY TypeOfFiles
      <4>2. g = [from |-> {}, mode |-> f.mode, open |-> {r}, short |-> {r}]
        BY <2>4, <3>1, <4>1
      <4> QED
        BY <4>2 DEF Empty
    <3>2. ASSUME NEW g, g = [from |-> {}, mode |-> "0755", open |-> {r}, short |-> {r}]
          PROVE  Empty(g, r) /\ g.open = {r}
      BY <3>2 DEF Empty
    <3>3. \A g \in new' :
            \/ g = [from |-> {}, mode |-> "0755", open |-> {r}, short |-> {r}]
            \/ \E f \in new : g = [f EXCEPT !.from = {}, !.open = @ \union {r}, !.short = {r}]
      BY <1>8 DEF OpenNew
    <3> QED
      BY <3>1, <3>2, <3>3
  <2>6. \A q \in Runs : q # r => pc'[q] \notin {"write", "unlink", "away", "in", "rollback"}
    BY <2>1, <2>3 DEF Asleep, Ended
  <2> QED
    BY <1>2, <2>1, <2>2, <2>5, <2>6 DEF FilesInv
<1>9. ASSUME NEW r \in Runs, WriteNew(r) PROVE FilesInv'
  <2>1. \A q \in Runs : pc'[q] = IF q = r THEN "unlink" ELSE pc[q]
    BY <1>3, <1>9 DEF WriteNew
  <2>2. /\ pc[r] = "write" /\ target' = target
        /\ binary' = Written(binary, r) /\ new' = Written(new, r) /\ old' = Written(old, r)
    BY <1>9 DEF WriteNew
  <2>3. binary' = binary /\ old' = old
    BY <1>2, <2>2, ShutStays
  <2>4. \A q \in Runs : q # r => pc'[q] \notin {"write", "unlink", "away", "in", "rollback"}
    BY <1>4, <2>1, <2>2 DEF Asleep, Ended
  <2>5. \A g \in new' : g = Holding(target[r], g.mode)
    <3>1. ASSUME NEW f \in new, NEW g,
                 g = [f EXCEPT !.from = @ \union {target[r]}, !.open = @ \ {r}, !.short = @ \ {r}]
          PROVE  g = Holding(target[r], g.mode)
      <4>1. f = [from |-> {}, mode |-> f.mode, open |-> {r}, short |-> {r}]
        BY <1>2, <2>2 DEF Empty
      <4>2. g = [from |-> f.from \union {target[r]}, mode |-> f.mode,
                 open |-> f.open \ {r}, short |-> f.short \ {r}]
        BY <3>1, <4>1
      <4>3. f.from = {} /\ f.open = {r} /\ f.short = {r}
        BY <4>1
      <4>4. /\ f.from \union {target[r]} = {target[r]}
            /\ f.open \ {r} = {} /\ f.short \ {r} = {}
        BY <4>3
      <4> QED
        BY <4>2, <4>4 DEF Holding
    <3>2. \A f \in new : r \in f.open
      BY <1>2, <2>2 DEF Empty
    <3> QED
      BY <2>2, <3>1, <3>2 DEF Written
  <2>6. \A g \in new' : g.open = {}
    BY <2>5 DEF Holding
  <2> QED
    BY <1>2, <2>1, <2>2, <2>3, <2>4, <2>5, <2>6 DEF FilesInv
\* A run that has written the new file moves or changes files.
<1>10. ASSUME NEW r \in Runs, NEW to, Goto(r, to), pc[r] \in {"unlink", "away", "in", "rollback", "clean", "chmod"},
              \A f \in binary' \union old' : Sound(f), new' \subseteq new, target' = target,
              to \in {"unlink", "away", "in", "rollback"} =>
                pc[r] \in {"unlink", "away", "in", "rollback"},
              to # "write"
       PROVE  FilesInv'
  <2>1. \A q \in Runs : pc'[q] = IF q = r THEN to ELSE pc[q]
    BY <1>3, <1>10
  <2>2. \A q \in Runs : q # r => pc[q] \in Asleep
    BY <1>4, <1>10 DEF Asleep, Ended
  <2>3. \A q \in Runs : pc[q] # "write" /\ pc'[q] # "write"
    BY <1>10, <2>1, <2>2 DEF Asleep, Ended
  <2>4. \A f \in new' : f.open = {}
    BY <1>2, <1>5, <1>10, <2>3
  <2>5. \A q \in Runs : pc'[q] \in {"unlink", "away", "in", "rollback"} =>
          \A f \in new' : f = Holding(target'[q], f.mode)
    BY <1>2, <1>10, <2>1
  <2> QED
    BY <1>10, <2>3, <2>4, <2>5 DEF FilesInv
<1>11. ASSUME NEW r \in Runs, RemoveOld(r) \/ Clean(r) \/ MoveAway(r) \/ RollBack(r) PROVE FilesInv'
  <2>1. \A f \in binary' \union old' : Sound(f)
    BY <1>2, <1>11 DEF RemoveOld, Clean, MoveAway, RollBack
  <2> QED
    BY <1>10, <1>11, <2>1 DEF RemoveOld, Clean, MoveAway, RollBack
<1>12. ASSUME NEW r \in Runs, MoveIn(r) PROVE FilesInv'
  <2>1. pc[r] = "in" /\ binary' = new /\ old' = old
    BY <1>12 DEF MoveIn
  <2>2. target[r] \in Good
    BY <2>1 DEF TargetInv, Targeted, Good
  <2>3. \A f \in binary' \union old' : Sound(f)
    BY <1>2, <2>1, <2>2 DEF Sound
  <2> QED
    BY <1>10, <1>12, <2>3 DEF MoveIn
<1>13. ASSUME NEW r \in Runs, Chmod(r) PROVE FilesInv'
  <2>1. ASSUME NEW f \in binary PROVE Sound([f EXCEPT !.mode = mode[r]])
    <3>1. PICK b \in Good : f = Holding(b, f.mode)
      BY <1>2 DEF Sound
    <3>2. [f EXCEPT !.mode = mode[r]] = Holding(b, mode[r])
      <4>1. f = [from |-> {b}, mode |-> f.mode, open |-> {}, short |-> {}]
        BY <3>1 DEF Holding
      <4> QED
        BY <4>1 DEF Holding
    <3>3. Holding(b, mode[r]).mode = mode[r]
      BY DEF Holding
    <3> QED
      BY <3>2, <3>3 DEF Sound
  <2>2. \A f \in binary' \union old' : Sound(f)
    BY <1>2, <1>13, <2>1 DEF Chmod
  <2> QED
    BY <1>10, <1>13, <2>2 DEF Chmod
<1>14. ASSUME NEW r \in Runs, RunStep(r) PROVE FilesInv'
  <2>1. ASSUME NEW m \in Moves, Step(r, m[1], m[2]) PROVE FilesInv'
    <3>1. /\ m[1] # "write" /\ m[2] # "write"
          /\ m[2] \in {"unlink", "away", "in", "rollback"} =>
               m[1] \in {"unlink", "away", "in", "rollback"}
      BY DEF Moves
    <3> QED
      BY <1>6, <2>1, <3>1 DEF Step
  <2>2. CASE Detect(r)
    <3>1. \A q \in Runs : q # r => target'[q] = target[q]
      BY <2>2 DEF Detect, TypeOK
    <3> QED
      BY <1>6, <2>2, <3>1 DEF Detect
  <2>3. CASE Stat(r) \/ ChmodFails(r)
    BY <1>6, <2>3 DEF Stat, ChmodFails
  <2>4. CASE WriteFails(r)
    BY <1>7, <2>4 DEF WriteFails, Ended
  <2> QED
    BY <1>8, <1>9, <1>11, <1>12, <1>13, <1>14, <2>1, <2>2, <2>3, <2>4, StepCases
<1>15. ASSUME NEW r \in Runs, NEW check \in BOOLEAN, Start(r, check) PROVE FilesInv'
  BY <1>6, <1>15 DEF Start, Ended
<1>16. ASSUME NEW r \in Runs, Kill(r) PROVE FilesInv'
  BY <1>7, <1>16 DEF Kill, Ended
<1>17. CASE Publish \/ UNCHANGED vars
  BY <1>2, <1>17 DEF Publish, vars, directory, FilesInv
<1> QED
  BY <1>14, <1>15, <1>16, <1>17 DEF Next

-----------------------------------------------------------------------------
\* Unless updates overlap, the binary is the version that the run about to replace it
\* was started as.
Untouched == {"detect", "stat", "probe", "download", "open", "write", "unlink", "away"}

VersionInv ==
  Apart =>
    \A r \in Runs : ~checkOnly[r] =>
      /\ pc[r] \in Untouched => \A f \in binary : f.from = {current[r]}
      /\ pc[r] \in {"in", "rollback", "clean"} => \A f \in old : f.from = {current[r]}
      /\ pc[r] = "clean" => \A f \in binary : f.from = {target[r]}

LEMMA InitVersion == Init => VersionInv
  BY DEF Init, VersionInv, Untouched

LEMMA VersionStep ==
  TypeOK /\ Alone /\ FilesInv /\ VersionInv /\ [Next]_vars => VersionInv'
<1> SUFFICES ASSUME TypeOK, Alone, FilesInv, VersionInv, [Next]_vars, Apart' PROVE VersionInv'
  BY DEF VersionInv
<1>1. Apart
  BY MishapsGrow DEF Apart
<1>2. \A r \in Runs : ~checkOnly[r] =>
      /\ pc[r] \in Untouched => \A f \in binary : f.from = {current[r]}
      /\ pc[r] \in {"in", "rollback", "clean"} => \A f \in old : f.from = {current[r]}
      /\ pc[r] = "clean" => \A f \in binary : f.from = {target[r]}
  BY <1>1 DEF VersionInv
<1>3. ASSUME NEW r \in Runs, NEW to, Goto(r, to) PROVE \A q \in Runs : pc'[q] = IF q = r THEN to ELSE pc[q]
  BY <1>3 DEF Goto, TypeOK
<1>4. ASSUME NEW r \in Runs, pc[r] \notin Asleep
      PROVE  \A q \in Runs : q # r /\ ~checkOnly[q] =>
               pc[q] \notin Untouched \union {"in", "rollback", "clean"}
  BY <1>1, <1>4, OthersAsleep DEF Asleep, Ended, Untouched
\* A step that touches no file but, perhaps, one that is being written.
<1>5. ASSUME NEW r \in Runs, NEW to, Goto(r, to), binary' = binary, old' = old,
             checkOnly' = checkOnly, current' = current,
             \A q \in Runs : q # r => target'[q] = target[q],
             to \in Untouched => pc[r] \in Untouched,
             to \in {"in", "rollback", "clean"} => pc[r] \in {"in", "rollback", "clean"},
             to # "clean"
      PROVE  VersionInv'
  <2>1. \A q \in Runs : pc'[q] = IF q = r THEN to ELSE pc[q]
    BY <1>3, <1>5
  <2> QED
    BY <1>2, <1>5, <2>1 DEF VersionInv
<1>6. \A f \in binary \union old : f.open = {}
  BY <1>1, SoundIsShut DEF FilesInv
<1>7. ASSUME NEW r \in Runs, CutShort(r) PROVE binary' = binary /\ old' = old
  BY <1>6, <1>7, ShutStays DEF CutShort
<1>8. ASSUME NEW r \in Runs, WriteNew(r) PROVE VersionInv'
  <2>1. binary' = binary /\ old' = old
    BY <1>6, <1>8, ShutStays DEF WriteNew
  <2> QED
    BY <1>5, <1>8, <2>1 DEF WriteNew, Untouched
\* The moves.
<1>9. ASSUME NEW r \in Runs, NEW to, Goto(r, to), pc[r] \notin Asleep, checkOnly' = checkOnly,
             to \notin Untouched,
             to \in {"in", "rollback", "clean"} => \A f \in old' : f.from = {current'[r]},
             to = "clean" => \A f \in binary' : f.from = {target'[r]}
      PROVE  VersionInv'
  <2>1. \A q \in Runs : pc'[q] = IF q = r THEN to ELSE pc[q]
    BY <1>3, <1>9
  <2>2. \A q \in Runs : q # r /\ ~checkOnly'[q] =>
          pc'[q] \notin Untouched \union {"in", "rollback", "clean"}
    BY <1>4, <1>9, <2>1
  <2> QED
    BY <1>9, <2>1, <2>2 DEF VersionInv
<1>10. ASSUME NEW r \in Runs, pc[r] \notin Asleep PROVE ~checkOnly[r]
  BY <1>10 DEF Alone
<1>11. ASSUME NEW r \in Runs, RunStep(r) PROVE VersionInv'
  <2>1. ASSUME NEW m \in Moves, Step(r, m[1], m[2]) PROVE VersionInv'
    <3>1. /\ m[2] \in Untouched => m[1] \in Untouched
          /\ m[2] \in {"in", "rollback", "clean"} => m[1] \in {"in", "rollback", "clean"}
          /\ m[2] # "clean"
      BY DEF Moves, Untouched
    <3> QED
      BY <1>5, <2>1, <3>1 DEF Step, directory
  <2>2. CASE Detect(r)
    <3>1. \A q \in Runs : q # r => target'[q] = target[q]
      BY <2>2 DEF Detect, TypeOK
    <3> QED
      BY <1>5, <2>2, <3>1 DEF Detect, directory, Untouched
  <2>3. CASE Stat(r) \/ ChmodFails(r)
    BY <1>5, <2>3 DEF Stat, ChmodFails, directory, Untouched
  <2>4. CASE OpenNew(r)
    BY <1>5, <2>4 DEF OpenNew, Untouched
  <2>5. CASE WriteFails(r)
    BY <1>5, <1>7, <2>5 DEF WriteFails, Untouched
  <2>6. CASE RemoveOld(r)
    <3>1. \A q \in Runs : pc'[q] = IF q = r THEN "away" ELSE pc[q]
      BY <1>3, <2>6 DEF RemoveOld
    <3>2. pc[r] \in Untouched /\ pc[r] \notin Asleep
      BY <2>6 DEF RemoveOld, Untouched, Asleep, Ended
    <3>3. \A q \in Runs : q # r /\ ~checkOnly[q] => pc[q] \notin Untouched \union {"in", "rollback", "clean"}
      BY <1>4, <3>2
    <3> QED
      BY <1>2, <2>6, <3>1, <3>2, <3>3 DEF RemoveOld, VersionInv
  <2>7. CASE MoveAway(r)
    <3>1. pc[r] = "away" /\ old' = binary /\ current' = current
      BY <2>7 DEF MoveAway
    <3>2. \A f \in old' : f.from = {current'[r]}
      BY <1>2, <1>10, <3>1 DEF Untouched, Asleep, Ended
    <3> QED
      BY <1>9, <2>7, <3>2 DEF MoveAway, Asleep, Ended, Untouched
  <2>8. CASE MoveIn(r)
    <3>1. pc[r] = "in" /\ old' = old /\ current' = current /\ binary' = new /\ target' = target
      BY <2>8 DEF MoveIn
    <3>2. \A f \in old' : f.from = {current'[r]}
      BY <1>2, <1>10, <3>1 DEF Asleep, Ended
    <3>3. \A f \in binary' : f.from = {target'[r]}
      BY <1>1, <3>1 DEF FilesInv, Holding
    <3> QED
      BY <1>9, <2>8, <3>2, <3>3 DEF MoveIn, Asleep, Ended, Untouched
  <2>9. CASE RollBack(r)
    BY <1>9, <2>9 DEF RollBack, Asleep, Ended, Untouched
  <2>10. CASE Clean(r)
    BY <1>9, <2>10 DEF Clean, Asleep, Ended, Untouched
  <2>11. CASE Chmod(r)
    BY <1>9, <2>11 DEF Chmod, Asleep, Ended, Untouched
  <2> QED
    BY <1>8, <1>11, <2>1, <2>2, <2>3, <2>4, <2>5, <2>6, <2>7, <2>8, <2>9, <2>10, <2>11, StepCases
<1>12. ASSUME NEW r \in Runs, NEW check \in BOOLEAN, Start(r, check) PROVE VersionInv'
  <2>1. PICK f \in binary : \E b \in f.from :
          f = Holding(b, f.mode) /\ current' = [current EXCEPT ![r] = b]
    BY <1>12 DEF Start
  <2>2. \A g \in binary : g = f
    BY FileOfSlot, <2>1 DEF TypeOK
  <2>3. f.from = {current'[r]}
    BY <2>1 DEF Holding, TypeOK
  <2>4. /\ \A q \in Runs : pc'[q] = IF q = r THEN "detect" ELSE pc[q]
        /\ \A q \in Runs : q # r => checkOnly'[q] = checkOnly[q] /\ current'[q] = current[q]
        /\ binary' = binary /\ old' = old /\ target' = target
    BY <1>3, <1>12, <2>1 DEF Start, TypeOK, directory
  <2> QED
    BY <1>2, <2>2, <2>3, <2>4 DEF VersionInv
<1>13. ASSUME NEW r \in Runs, Kill(r) PROVE VersionInv'
  BY <1>5, <1>7, <1>13 DEF Kill, Untouched
<1>14. CASE Publish \/ UNCHANGED vars
  BY <1>2, <1>14 DEF Publish, vars, directory, VersionInv
<1> QED
  BY <1>11, <1>12, <1>13, <1>14 DEF Next

-----------------------------------------------------------------------------
\* The mode, but for the moment between the installing and the restoring of it.
Noted == {"probe", "download", "open", "write", "unlink", "away", "in", "rollback", "clean", "chmod"}

ModeInv ==
  Apart /\ "chmod" \notin mishaps =>
    /\ (\E r \in Runs : pc[r] \in {"clean", "chmod"}) \/ \A f \in binary : f.mode = given
    /\ \A r \in Runs : pc[r] \in Noted => mode[r] = given
    /\ \A r \in Runs : pc[r] \in {"in", "rollback"} => \A f \in old : f.mode = given

LEMMA InitMode == Init => ModeInv
  BY DEF Init, ModeInv, Noted, Holding

LEMMA ModeStep == TypeOK /\ Alone /\ FilesInv /\ ModeInv /\ [Next]_vars => ModeInv'
<1> SUFFICES ASSUME TypeOK, Alone, FilesInv, ModeInv, [Next]_vars, Apart', "chmod" \notin mishaps'
             PROVE  ModeInv'
  BY DEF ModeInv
<1>1. Apart /\ "chmod" \notin mishaps
  BY MishapsGrow DEF Apart
<1>2. /\ (\E r \in Runs : pc[r] \in {"clean", "chmod"}) \/ \A f \in binary : f.mode = given
      /\ \A r \in Runs : pc[r] \in Noted => mode[r] = given
      /\ \A r \in Runs : pc[r] \in {"in", "rollback"} => \A f \in old : f.mode = given
  BY <1>1 DEF ModeInv
<1>3. ASSUME NEW r \in Runs, NEW to, Goto(r, to) PROVE \A q \in Runs : pc'[q] = IF q = r THEN to ELSE pc[q]
  BY <1>3 DEF Goto, TypeOK
<1>4. ASSUME NEW r \in Runs, pc[r] \notin Asleep
      PROVE  \A q \in Runs : q # r => pc[q] \notin Noted
  BY <1>1, <1>4, OthersAsleep DEF Asleep, Ended, Noted
<1>5. ASSUME NEW r \in Runs, NEW to, Goto(r, to), binary' = binary, old' = old,
             mode' = mode, given' = given,
             pc[r] \notin {"clean", "chmod"}, to \notin {"clean", "chmod"},
             to \in Noted => mode[r] = given,
             to \in {"in", "rollback"} => pc[r] \in {"in", "rollback"}
      PROVE  ModeInv'
  <2>1. \A q \in Runs : pc'[q] = IF q = r THEN to ELSE pc[q]
    BY <1>3, <1>5
  <2>2. (\E q \in Runs : pc[q] \in {"clean", "chmod"}) => \E q \in Runs : pc'[q] \in {"clean", "chmod"}
    BY <1>5, <2>1
  <2> QED
    BY <1>2, <1>5, <2>1, <2>2 DEF ModeInv
<1>6. \A f \in binary \union old : f.open = {}
  BY <1>1, SoundIsShut DEF FilesInv
<1>7. ASSUME NEW r \in Runs, CutShort(r) PROVE binary' = binary /\ old' = old
  BY <1>6, <1>7, ShutStays DEF CutShort
<1>8. ASSUME NEW r \in Runs, WriteNew(r) PROVE ModeInv'
  <2>1. binary' = binary /\ old' = old
    BY <1>6, <1>8, ShutStays DEF WriteNew
  <2> QED
    BY <1>2, <1>5, <1>8, <2>1 DEF WriteNew, Noted
<1>9. ASSUME NEW r \in Runs, NEW to, Goto(r, to), pc[r] \in Noted, mode' = mode, given' = given,
             to \in {"clean", "chmod"} \/ \A f \in binary' : f.mode = given,
             to \in {"in", "rollback"} => \A f \in old' : f.mode = given
      PROVE  ModeInv'
  <2>1. \A q \in Runs : pc'[q] = IF q = r THEN to ELSE pc[q]
    BY <1>3, <1>9
  <2>2. \A q \in Runs : q # r => pc'[q] \notin Noted
    BY <1>4, <1>9, <2>1 DEF Asleep, Ended, Noted
  <2> QED
    BY <1>2, <1>9, <2>1, <2>2 DEF ModeInv, Noted
<1>10. ASSUME NEW r \in Runs, pc[r] \in Noted \ {"clean", "chmod"} PROVE \A f \in binary : f.mode = given
  BY <1>2, <1>4, <1>10 DEF Noted, Asleep, Ended
<1>11. ASSUME NEW r \in Runs, RunStep(r) PROVE ModeInv'
  <2>1. ASSUME NEW m \in Moves, Step(r, m[1], m[2]) PROVE ModeInv'
    <3>1. /\ m[1] \notin {"clean", "chmod"} /\ m[2] \notin {"clean", "chmod"}
          /\ m[2] \in Noted => m[1] \in Noted
          /\ m[2] \in {"in", "rollback"} => m[1] \in {"in", "rollback"}
      BY DEF Moves, Noted
    <3> QED
      BY <1>2, <1>5, <2>1, <3>1 DEF Step, directory
  <2>2. CASE Detect(r)
    BY <1>5, <2>2 DEF Detect, directory, Noted
  <2>3. CASE Stat(r)
    <3>1. PICK f \in binary : mode' = [mode EXCEPT ![r] = f.mode]
      BY <2>3 DEF Stat
    <3>2. \A q \in Runs : pc'[q] = IF q = r THEN "probe" ELSE pc[q]
      BY <1>3, <2>3 DEF Stat
    <3>3. \A q \in Runs : q # r => pc[q] \notin Noted
      BY <1>4, <2>3 DEF Stat, Asleep, Ended
    <3>4. pc[r] = "stat" /\ binary' = binary /\ given' = given
      BY <2>3 DEF Stat, directory
    <3>5. \A f2 \in binary : f2.mode = given
      BY <1>2, <3>3, <3>4 DEF Noted
    <3>6. mode'[r] = given
      BY <3>1, <3>5 DEF TypeOK
    <3> QED
      BY <3>2, <3>3, <3>4, <3>5, <3>6 DEF ModeInv, Noted
  <2>4. CASE OpenNew(r)
    BY <1>2, <1>5, <2>4 DEF OpenNew, Noted
  <2>5. CASE WriteFails(r)
    BY <1>5, <1>7, <2>5 DEF WriteFails, Noted
  <2>6. CASE RemoveOld(r)
    BY <1>9, <1>10, <2>6 DEF RemoveOld, Noted
  <2>7. CASE MoveAway(r)
    BY <1>9, <1>10, <2>7 DEF MoveAway, Noted
  <2>8. CASE MoveIn(r)
    BY <1>9, <2>8 DEF MoveIn, Noted
  <2>9. CASE RollBack(r)
    BY <1>2, <1>9, <2>9 DEF RollBack, Noted
  <2>10. CASE Clean(r)
    BY <1>9, <2>10 DEF Clean, Noted
  <2>11. CASE Chmod(r)
    <3>1. pc[r] = "chmod" /\ mode[r] = given
      BY <1>2, <2>11 DEF Chmod, Noted
    <3>2. \A f \in binary : [f EXCEPT !.mode = mode[r]].mode = mode[r]
      BY TypeOfFiles
    <3>3. \A f \in binary' : f.mode = given
      BY <2>11, <3>1, <3>2 DEF Chmod
    <3> QED
      BY <1>9, <2>11, <3>3 DEF Chmod, Noted
  <2>12. CASE ChmodFails(r)
    BY <2>12 DEF ChmodFails
  <2> QED
    BY <1>8, <1>11, <2>1, <2>2, <2>3, <2>4, <2>5, <2>6, <2>7, <2>8, <2>9, <2>10, <2>11, <2>12, StepCases
<1>12. ASSUME NEW r \in Runs, NEW check \in BOOLEAN, Start(r, check) PROVE ModeInv'
  BY <1>5, <1>12 DEF Start, Ended, Noted, directory
<1>13. ASSUME NEW r \in Runs, Kill(r) PROVE ModeInv'
  <2>1. pc[r] \notin {"clean", "chmod"}
    BY <1>13 DEF Kill
  <2> QED
    BY <1>5, <1>7, <1>13, <2>1 DEF Kill, Noted
<1>14. CASE Publish \/ UNCHANGED vars
  BY <1>2, <1>14 DEF Publish, vars, directory, ModeInv
<1> QED
  BY <1>11, <1>12, <1>13, <1>14 DEF Next

-----------------------------------------------------------------------------
LEMMA CutLeavesFiles ==
  ASSUME NEW r \in Runs, CutShort(r)
  PROVE  binary' = {} => binary = {}
<1>1. PICK with : binary' = Cut(binary, r, with)
  BY DEF CutShort
<1>2. \A f \in binary : \E g : g \in Cut(binary, r, with)
  BY DEF Cut
<1> QED
  BY <1>1, <1>2

LEMMA PlaceStep == TypeOK /\ BinaryInPlace /\ [Next]_vars => BinaryInPlace'
<1> SUFFICES ASSUME TypeOK, BinaryInPlace, [Next]_vars PROVE BinaryInPlace'
  OBVIOUS
<1> DEFINE Gone == {"in", "rollback", "broken"}
<1>1. mishaps \subseteq mishaps'
  BY MishapsGrow
<1>2. ASSUME NEW r \in Runs, NEW to, Goto(r, to), binary' = {} => binary = {},
             \/ pc[r] \notin Gone \/ to \in Gone
             \/ binary' # {} \/ "swap" \in mishaps'
      PROVE  BinaryInPlace'
  <2>1. \A q \in Runs : pc'[q] = IF q = r THEN to ELSE pc[q]
    BY <1>2 DEF Goto, TypeOK
  <2> QED
    BY <1>1, <1>2, <2>1 DEF BinaryInPlace
<1>3. ASSUME NEW r \in Runs, RunStep(r) PROVE BinaryInPlace'
  <2>1. ASSUME NEW m \in Moves, Step(r, m[1], m[2]) PROVE BinaryInPlace'
    <3>1. m[1] \notin Gone \/ m[2] \in Gone
      BY DEF Moves
    <3> QED
      BY <1>2, <2>1, <3>1 DEF Step, directory
  <2>2. CASE Detect(r) \/ Stat(r) \/ OpenNew(r) \/ RemoveOld(r) \/ Clean(r) \/ ChmodFails(r)
    BY <1>2, <2>2 DEF Detect, Stat, OpenNew, RemoveOld, Clean, ChmodFails, directory
  <2>3. CASE WriteNew(r)
    BY <1>2, <2>3 DEF WriteNew, Written
  <2>4. CASE WriteFails(r)
    <3>1. binary' = {} => binary = {}
      BY <2>4, CutLeavesFiles DEF WriteFails
    <3> QED
      BY <1>2, <2>4, <3>1 DEF WriteFails
  <2>5. CASE MoveAway(r)
    <3>1. pc'[r] = "in"
      BY <2>5 DEF MoveAway, Goto, TypeOK
    <3> QED
      BY <3>1 DEF BinaryInPlace
  <2>6. CASE MoveIn(r) \/ RollBack(r)
    BY <2>6 DEF MoveIn, RollBack, BinaryInPlace
  <2>7. CASE Chmod(r)
    BY <1>2, <2>7 DEF Chmod
  <2> QED
    BY <1>3, <2>1, <2>2, <2>3, <2>4, <2>5, <2>6, <2>7, StepCases
<1>4. ASSUME NEW r \in Runs, NEW check \in BOOLEAN, Start(r, check) PROVE BinaryInPlace'
  BY <1>2, <1>4 DEF Start, directory
<1>5. ASSUME NEW r \in Runs, Kill(r) PROVE BinaryInPlace'
  <2>1. binary' = {} => binary = {}
    BY <1>5, CutLeavesFiles DEF Kill
  <2>2. Goto(r, "killed")
    BY <1>5 DEF Kill
  <2>3. pc[r] # "broken"
    BY <1>5 DEF Kill, Active, Ended
  <2>4. pc[r] \in {"in", "rollback"} => "swap" \in mishaps'
    BY <1>5 DEF Kill
  <2> QED
    BY <1>2, <2>1, <2>2, <2>3, <2>4
<1>6. CASE Publish \/ UNCHANGED vars
  BY <1>6 DEF Publish, vars, directory, BinaryInPlace
<1> QED
  BY <1>3, <1>4, <1>5, <1>6 DEF Next

-----------------------------------------------------------------------------
IInv ==
  /\ TypeOK /\ Alone /\ TargetInv /\ FilesInv /\ VersionInv /\ ModeInv /\ BinaryInPlace

\* What holds of runs, files, versions and modes, however many runs there are.
THEOREM Invariant == Spec => []IInv
<1>1. Init => IInv
  <2>1. Init => TargetInv /\ BinaryInPlace
    BY DEF Init, TargetInv, Targeted, BinaryInPlace
  <2> QED
    BY <2>1, InitTypes, InitAlone, InitFiles, InitVersion, InitMode DEF IInv
<1>2. IInv /\ [Next]_vars => IInv'
  BY TypesStep, AloneStep, TargetStep, FilesStep, VersionStep, ModeStep, PlaceStep DEF IInv
<1> QED
  BY <1>1, <1>2, PTL DEF Spec

\* Unless updates overlapped, what is in place is all of one build, of any release.
THEOREM Whole == Spec => []InstalledWhole
<1>1. IInv => InstalledWhole
  BY DEF IInv, FilesInv, Apart, Sound, Good, InstalledWhole
<1> QED
  BY <1>1, Invariant, PTL

\* The binary is in place, whatever fails and even when updates overlap, but for a run
\* that is between its moves, was killed there or says that it may be missing.
THEOREM InPlace == Spec => []BinaryInPlace
<1>1. IInv => BinaryInPlace
  BY DEF IInv
<1> QED
  BY <1>1, Invariant, PTL

\* Unless updates overlapped, one only ever replaces a binary by a newer release.
THEOREM Forwards == Spec => []NeverBackwards
<1>1. IInv => NeverBackwards
  <2> SUFFICES ASSUME IInv, Apart, NEW r \in Runs, pc[r] = "clean",
                      NEW f \in old, NEW g \in binary, NEW b \in f.from, NEW c \in g.from
               PROVE  Older(b, c)
    BY DEF NeverBackwards, Apart
  <2>1. ~checkOnly[r]
    BY DEF IInv, Alone, Asleep, Ended
  <2>2. b = current[r] /\ c = target[r]
    BY <2>1 DEF IInv, VersionInv
  <2> QED
    BY <2>2 DEF IInv, TargetInv, Targeted
<1> QED
  BY <1>1, Invariant, PTL

\* Unless updates overlapped or one did not get to it, the mode is what it was.
THEOREM ModeKept == Spec => []ModePreserved
<1>1. IInv => ModePreserved
  BY DEF IInv, ModeInv, Apart, ModePreserved
<1> QED
  BY <1>1, Invariant, PTL

-----------------------------------------------------------------------------
\* A run gets no further than to look whose the binary is when it is a package manager's.
OwnedInv == place = "managed" => \A r \in Runs : pc[r] \in Asleep \union {"stat"}

LEMMA OwnedStep == TypeOK /\ OwnedInv /\ [Next]_vars => OwnedInv'
<1> SUFFICES ASSUME TypeOK, OwnedInv, [Next]_vars PROVE OwnedInv'
  OBVIOUS
<1>1. ASSUME NEW r \in Runs, NEW to, Goto(r, to), place' = place,
             place = "managed" => to \in Asleep \union {"stat"}
      PROVE  OwnedInv'
  BY <1>1 DEF Goto, TypeOK, OwnedInv, Asleep
<1>2. ASSUME NEW r \in Runs, RunStep(r) PROVE OwnedInv'
  <2>1. ASSUME NEW m \in Moves, Step(r, m[1], m[2]) PROVE OwnedInv'
    <3>1. m[1] \in Asleep \union {"stat"} => m[2] \in Asleep
      BY DEF Moves, Asleep, Ended
    <3> QED
      BY <1>1, <2>1, <3>1 DEF Step, OwnedInv
  <2>2. CASE Detect(r) \/ Stat(r) \/ WriteFails(r) \/ RollBack(r) \/ Chmod(r) \/ ChmodFails(r)
    BY <1>1, <2>2 DEF Detect, Stat, WriteFails, RollBack, Chmod, ChmodFails, Asleep, Ended
  <2>3. CASE OpenNew(r) \/ WriteNew(r) \/ RemoveOld(r) \/ MoveAway(r) \/ MoveIn(r) \/ Clean(r)
    BY <1>1, <2>3 DEF OpenNew, WriteNew, RemoveOld, MoveAway, MoveIn, Clean, OwnedInv, Asleep, Ended
  <2> QED
    BY <1>2, <2>1, <2>2, <2>3, StepCases
<1>3. ASSUME NEW r \in Runs, NEW check \in BOOLEAN, Start(r, check) PROVE OwnedInv'
  BY <1>1, <1>3 DEF Start, Asleep
<1>4. ASSUME NEW r \in Runs, Kill(r) PROVE OwnedInv'
  BY <1>1, <1>4 DEF Kill, Asleep, Ended
<1>5. CASE Publish \/ UNCHANGED vars
  BY <1>5 DEF Publish, vars, OwnedInv, Asleep
<1> QED
  BY <1>2, <1>3, <1>4, <1>5 DEF Next

\* A run has a file open only while it writes it, overlap or not.
AllFiles == binary \union new \union old
OpenInv == \A f \in AllFiles : \A q \in f.open : pc[q] = "write"

LEMMA OpenAfterWriting ==
  ASSUME TypeOK, NEW slot \in {binary, new, old}, NEW r \in Runs
  PROVE  /\ \A g \in Written(slot, r) : \E f \in slot : g.open = f.open \ {r}
         /\ \A with : \A g \in Cut(slot, r, with) : \E f \in slot : g.open = f.open \ {r}
<1>1. ASSUME NEW f \in slot
      PROVE  /\ r \notin f.open => f.open = f.open \ {r}
             /\ [f EXCEPT !.from = @ \union {target[r]}, !.open = @ \ {r}, !.short = @ \ {r}].open
                  = f.open \ {r}
             /\ \A with : [f EXCEPT !.from = @ \union with, !.open = @ \ {r}].open = f.open \ {r}
  <2>1. f = [from |-> f.from, mode |-> f.mode, open |-> f.open, short |-> f.short]
    BY TypeOfFiles
  <2> QED
    BY <2>1
<1>2. \A g \in Written(slot, r) : \E f \in slot :
        \/ r \notin f.open /\ g = f
        \/ g = [f EXCEPT !.from = @ \union {target[r]}, !.open = @ \ {r}, !.short = @ \ {r}]
  BY DEF Written
<1>3. ASSUME NEW with
      PROVE  \A g \in Cut(slot, r, with) : \E f \in slot :
               \/ r \notin f.open /\ g = f
               \/ g = [f EXCEPT !.from = @ \union with, !.open = @ \ {r}]
  BY DEF Cut
<1>4. ASSUME NEW g \in Written(slot, r) PROVE \E f \in slot : g.open = f.open \ {r}
  <2>1. PICK f \in slot :
          \/ r \notin f.open /\ g = f
          \/ g = [f EXCEPT !.from = @ \union {target[r]}, !.open = @ \ {r}, !.short = @ \ {r}]
    BY <1>2
  <2>2. g.open = f.open \ {r}
    BY <1>1, <2>1
  <2> QED
    BY <2>2
<1>5. ASSUME NEW with, NEW g \in Cut(slot, r, with) PROVE \E f \in slot : g.open = f.open \ {r}
  <2>1. PICK f \in slot :
          (r \notin f.open /\ g = f) \/ g = [f EXCEPT !.from = @ \union with, !.open = @ \ {r}]
    BY <1>3
  <2>2. g.open = f.open \ {r}
    BY <1>1, <2>1
  <2> QED
    BY <2>2
<1> QED
  BY <1>4, <1>5

LEMMA OpenStep == TypeOK /\ OpenInv /\ [Next]_vars => OpenInv'
<1> SUFFICES ASSUME TypeOK, OpenInv, [Next]_vars PROVE OpenInv'
  OBVIOUS
<1>1. ASSUME NEW r \in Runs, NEW to, Goto(r, to),
             \A g \in AllFiles' : \A q \in g.open :
               IF q = r THEN to = "write" ELSE \E f \in AllFiles : q \in f.open
      PROVE  OpenInv'
  <2>1. \A f \in AllFiles : f.open \subseteq Runs
    BY TypeOfFiles DEF AllFiles
  <2>2. \A q \in Runs : pc'[q] = IF q = r THEN to ELSE pc[q]
    BY <1>1 DEF Goto, TypeOK
  <2> QED
    BY <1>1, <2>1, <2>2 DEF OpenInv
<1>2. ASSUME NEW r \in Runs, NEW to, Goto(r, to), pc[r] # "write", AllFiles' \subseteq AllFiles
      PROVE  OpenInv'
  BY <1>1, <1>2 DEF OpenInv
<1>3. ASSUME NEW r \in Runs, NEW to, Goto(r, to),
             \A g \in AllFiles' : \E f \in AllFiles : g.open = f.open \ {r}
      PROVE  OpenInv'
  BY <1>1, <1>3
<1>4. ASSUME NEW r \in Runs, CutShort(r)
      PROVE  \A g \in AllFiles' : \E f \in AllFiles : g.open = f.open \ {r}
  BY <1>4, OpenAfterWriting DEF CutShort, AllFiles
<1>5. ASSUME NEW r \in Runs, WriteNew(r) PROVE OpenInv'
  <2>1. \A g \in AllFiles' : \E f \in AllFiles : g.open = f.open \ {r}
    BY <1>5, OpenAfterWriting DEF WriteNew, AllFiles
  <2> QED
    BY <1>3, <1>5, <2>1 DEF WriteNew
<1>6. ASSUME NEW r \in Runs, OpenNew(r) PROVE OpenInv'
  <2>1. \A g \in new' : g.open = {r} \/ \E f \in new : g.open = f.open \union {r}
    <3>1. ASSUME NEW f \in new
          PROVE  [f EXCEPT !.from = {}, !.open = @ \union {r}, !.short = {r}].open = f.open \union {r}
      <4>1. f = [from |-> f.from, mode |-> f.mode, open |-> f.open, short |-> f.short]
        BY TypeOfFiles
      <4> QED
        BY <4>1
    <3>2. CASE new = {}
      BY <1>6, <3>2 DEF OpenNew
    <3>3. CASE new # {}
      BY <1>6, <3>1, <3>3 DEF OpenNew
    <3> QED
      BY <3>2, <3>3
  <2> QED
    <3>1. AllFiles' = binary \union new' \union old
      BY <1>6 DEF OpenNew, AllFiles
    <3>2. \A g \in AllFiles' : \A q \in g.open : q # r => \E f \in AllFiles : q \in f.open
      BY <2>1, <3>1 DEF AllFiles
    <3> QED
      BY <1>1, <1>6, <3>2 DEF OpenNew
<1>7. ASSUME NEW r \in Runs, Chmod(r) PROVE OpenInv'
  <2>1. \A f \in binary : [f EXCEPT !.mode = mode[r]].open = f.open
    BY TypeOfFiles
  <2>2. \A g \in AllFiles' : \E f \in AllFiles : g.open = f.open
    BY <1>7, <2>1 DEF Chmod, AllFiles
  <2>3. pc[r] = "chmod"
    BY <1>7 DEF Chmod
  <2> QED
    BY <1>1, <1>7, <2>2, <2>3 DEF Chmod, OpenInv
<1>8. ASSUME NEW r \in Runs, RunStep(r) PROVE OpenInv'
  <2>1. ASSUME NEW m \in Moves, Step(r, m[1], m[2]) PROVE OpenInv'
    <3>1. m[1] # "write"
      BY DEF Moves
    <3> QED
      BY <1>2, <2>1, <3>1 DEF Step, directory, AllFiles
  <2>2. CASE Detect(r) \/ Stat(r) \/ ChmodFails(r)
    BY <1>2, <2>2 DEF Detect, Stat, ChmodFails, directory, AllFiles
  <2>3. CASE RemoveOld(r) \/ MoveAway(r) \/ MoveIn(r) \/ RollBack(r) \/ Clean(r)
    BY <1>2, <2>3 DEF RemoveOld, MoveAway, MoveIn, RollBack, Clean, AllFiles
  <2>4. CASE WriteFails(r)
    BY <1>3, <1>4, <2>4 DEF WriteFails
  <2> QED
    BY <1>5, <1>6, <1>7, <1>8, <2>1, <2>2, <2>3, <2>4, StepCases
<1>9. ASSUME NEW r \in Runs, NEW check \in BOOLEAN, Start(r, check) PROVE OpenInv'
  BY <1>2, <1>9 DEF Start, Ended, directory, AllFiles
<1>10. ASSUME NEW r \in Runs, Kill(r) PROVE OpenInv'
  BY <1>3, <1>4, <1>10 DEF Kill
<1>11. CASE Publish \/ UNCHANGED vars
  BY <1>11 DEF Publish, vars, directory, AllFiles, OpenInv
<1> QED
  BY <1>8, <1>9, <1>10, <1>11 DEF Next

\* Files are touched only in the places that follow the probing.
LEMMA EarlyLeavesFiles ==
  ASSUME TypeOK, OpenInv, NEW r \in Runs, NEW check \in BOOLEAN, pc[r] \in Asleep \union {"stat"},
         RunStep(r) \/ Kill(r) \/ Start(r, check)
  PROVE  UNCHANGED directory
<1>1. CASE RunStep(r)
  <2>1. \/ \E m \in Moves : Step(r, m[1], m[2])
        \/ Detect(r) \/ Stat(r)
    BY <1>1, StepCases
       DEF OpenNew, WriteNew, WriteFails, RemoveOld, MoveAway, MoveIn, RollBack, Clean, Chmod,
           ChmodFails, Asleep, Ended
  <2> QED
    BY <2>1 DEF Step, Detect, Stat
<1>2. CASE Kill(r)
  <2>1. \A f \in AllFiles : r \notin f.open
    BY DEF OpenInv, Asleep, Ended
  <2>2. PICK with : binary' = Cut(binary, r, with) /\ new' = Cut(new, r, with) /\ old' = Cut(old, r, with)
    BY <1>2 DEF Kill, CutShort
  <2> QED
    BY <2>1, <2>2, ShutStays DEF AllFiles, directory
<1>3. CASE Start(r, check)
  BY <1>3 DEF Start
<1> QED
  BY <1>1, <1>2, <1>3

HandsOffInv == TypeOK /\ Alone /\ OpenInv /\ OwnedInv

\* A binary that a package manager owns, and whoever only checks, leave every file alone.
THEOREM HandsOff == Spec => KeepsHandsOff
<1>1. Init => HandsOffInv
  <2>1. Init => OpenInv
    BY DEF Init, OpenInv, AllFiles, Holding
  <2>2. Init => OwnedInv
    BY DEF Init, OwnedInv, Asleep, Ended
  <2> QED
    BY <2>1, <2>2, InitTypes, InitAlone DEF HandsOffInv
<1>2. HandsOffInv /\ [Next]_vars => HandsOffInv'
  BY TypesStep, AloneStep, OpenStep, OwnedStep DEF HandsOffInv
<1>3. ASSUME HandsOffInv, Next
      PROVE  /\ place = "managed" => UNCHANGED directory
             /\ \A r \in Runs : checkOnly[r] /\ pc'[r] # pc[r] => UNCHANGED directory
  <2>1. CASE Publish
    BY <2>1 DEF Publish
  <2>2. ASSUME NEW r \in Runs, NEW check \in BOOLEAN, RunStep(r) \/ Kill(r) \/ Start(r, check)
        PROVE  /\ place = "managed" => UNCHANGED directory
               /\ \A q \in Runs : checkOnly[q] /\ pc'[q] # pc[q] => UNCHANGED directory
    <3>1. pc[r] \in Asleep \union {"stat"} => UNCHANGED directory
      BY <1>3, <2>2, EarlyLeavesFiles DEF HandsOffInv
    <3>2. place = "managed" => pc[r] \in Asleep \union {"stat"}
      BY <1>3 DEF HandsOffInv, OwnedInv
    <3>3. checkOnly[r] => pc[r] \in Asleep \union {"stat"}
      BY <1>3 DEF HandsOffInv, Alone
    <3>4. \E to : Goto(r, to)
      BY <2>2, StepCases
         DEF Kill, Start, Step, Detect, Stat, OpenNew, WriteNew, WriteFails, RemoveOld, MoveAway,
             MoveIn, RollBack, Clean, Chmod, ChmodFails
    <3>5. \A q \in Runs : pc'[q] # pc[q] => q = r
      BY <1>3, <3>4 DEF Goto, HandsOffInv, TypeOK
    <3> QED
      BY <3>1, <3>2, <3>3, <3>5
  <2> QED
    BY <1>3, <2>1, <2>2 DEF Next
<1>4. HandsOffInv /\ [Next]_vars =>
        [/\ place = "managed" => UNCHANGED directory
         /\ \A r \in Runs : checkOnly[r] /\ pc'[r] # pc[r] => UNCHANGED directory]_vars
  BY <1>3
<1> QED
  BY <1>1, <1>2, <1>4, PTL DEF Spec, KeepsHandsOff
=============================================================================
