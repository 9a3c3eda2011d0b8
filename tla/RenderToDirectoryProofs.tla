------------------------ MODULE RenderToDirectoryProofs ------------------------
(***************************************************************************)
(* Proofs about RenderToDirectory, for any trees and any number of runs:   *)
(* those about TemplateRun and SaveManifests are composed.  A run renders  *)
(* as TemplateRun does until it has all, and then saves as SaveManifests   *)
(* does, so that the invariants of both hold throughout, and what is saved *)
(* is what has been rendered.                                              *)
(***************************************************************************)
EXTENDS RenderToDirectory, TLAPS

\* The proofs about the two, and so the two once more.
R == INSTANCE TemplateRunProofs
S == INSTANCE SaveManifestsProofs
       WITH files <- disk, Results <- Seq(Applications), MaxAttempts <- 0

LEMMA TreesAssumed == R!TreeAssumption
BY ApplicationAssumption
DEF R!TreeAssumption, Render!TreeAssumption, R!Supplies, Render!Supplies, R!IsSequence,
    Render!IsSequence, R!IsApplication, Render!IsApplication, R!Range, Render!Range

LEMMA ResultsAssumed == S!ResultAssumption
<1> SUFFICES ASSUME NEW res \in Seq(Applications)
             PROVE  /\ res \in Seq({res[k] : k \in DOMAIN res})
                    /\ \A k \in DOMAIN res :
                         res[k].name \in STRING /\ res[k].objects \in Seq(S!Manifests)
  BY DEF S!ResultAssumption
<1>1. DOMAIN res = 1 .. Len(res) /\ Len(res) \in Nat /\ \A k \in DOMAIN res : res[k] \in Applications
  OBVIOUS
<1> DEFINE D == {res[k] : k \in DOMAIN res}
<1>2. \A k \in DOMAIN res : res[k] \in D
  OBVIOUS
<1> HIDE DEF D
<1>3. res = [k \in 1 .. Len(res) |-> res[k]]
  OBVIOUS
<1>4. res \in Seq(D)
  BY <1>1, <1>2, <1>3
<1> QED
  BY <1>1, <1>4, ApplicationAssumption DEF D, S!Manifests, Save!Manifests

LEMMA AttemptsAssumed == S!AttemptAssumption
BY DEF S!AttemptAssumption

-----------------------------------------------------------------------------
\* What the two call the same is the same.
LEMMA SameNames ==
  /\ Render!Named = R!Named /\ Render!current = R!current /\ Render!doc = R!doc
  /\ Render!EmptyResult = R!EmptyResult
  /\ \A r, other : Render!Merge(r, other) = R!Merge(r, other)
  /\ \A a : Render!Rendering(a) = R!Rendering(a)
  /\ \A set : Render!Generated(set) = R!Generated(set) /\ Render!Reached(set) = R!Reached(set)
  /\ \A set : Render!limits(set) = R!limits(set)
  /\ \A list : Render!SortedApplications(list) = R!SortedApplications(list)
  /\ \A T : Render!Min(T) = R!Min(T)
<1>1. Render!Named = R!Named
  BY DEF R!Named, Render!Named
<1>2. \A T : Render!Min(T) = R!Min(T)
  BY DEF R!Min, Render!Min
<1>3. Render!current = R!current
  BY DEF R!current, Render!current
<1>4. Render!doc = R!doc
  BY <1>2, <1>3 DEF R!doc, Render!doc
<1>5. Render!EmptyResult = R!EmptyResult
  BY DEF R!EmptyResult, Render!EmptyResult
<1>6. \A r, other : Render!Merge(r, other) = R!Merge(r, other)
  BY DEF R!Merge, Render!Merge
<1>7. \A a : Render!Rendering(a) = R!Rendering(a)
  BY DEF R!Rendering, Render!Rendering
<1>8. Render!Supplied = R!Supplied
  BY DEF R!Supplied, Render!Supplied, R!Supplies, Render!Supplies
<1>9. \A s : Render!FlattenSeq(s) = R!FlattenSeq(s)
  BY DEF R!FlattenSeq, Render!FlattenSeq
<1>10. \A set : Render!Generated(set) = R!Generated(set) /\ Render!Reached(set) = R!Reached(set)
  BY <1>8, <1>9 DEF R!Generated, Render!Generated, R!Reached, Render!Reached
<1>11. \A set : Render!limits(set) = R!limits(set)
  BY <1>10 DEF R!limits, Render!limits, R!Limited, Render!Limited, R!Supplies, Render!Supplies
<1>12. \A list : Render!SortedApplications(list) = R!SortedApplications(list)
  BY DEF R!SortedApplications, Render!SortedApplications
<1> QED
  BY <1>1, <1>2, <1>3, <1>4, <1>5, <1>6, <1>7, <1>10, <1>11, <1>12

\* So what there is to render is the same.
LEMMA SameEmissions == Render!Emissions = R!Emissions
<1>1. \A f, d : Render!Emitted(f, d) = R!Emitted(f, d)
  BY SameNames DEF R!Emitted, Render!Emitted
<1> QED
  BY <1>1, SameNames DEF R!Emissions, Render!Emissions

-----------------------------------------------------------------------------
\* A step that renders is one of TemplateRun.
LEMMA SameInit == Init => R!Init
BY DEF Init, R!Init, Render!Init, R!EmptyResult, Render!EmptyResult

LEMMA RenderSteps == RenderStep \/ StartSaving => R!Next
<1> USE SameNames DEF R!Input, Render!Input, R!Work, Render!Work
<1>1. Render!Dispatch => R!Dispatch
  BY DEF R!Dispatch, Render!Dispatch
<1>2. Render!OpenFile => R!OpenFile
  BY DEF R!OpenFile, Render!OpenFile
<1>3. Render!SkipDocument => R!SkipDocument
  BY DEF R!SkipDocument, Render!SkipDocument, R!AtDocument, Render!AtDocument, R!Renderable,
         Render!Renderable
<1>4. Render!StartApplication => R!StartApplication
  BY DEF R!StartApplication, Render!StartApplication, R!AtDocument, Render!AtDocument
<1>5. Render!ExpandSet => R!ExpandSet
  BY DEF R!ExpandSet, Render!ExpandSet, R!AtDocument, Render!AtDocument, R!Expands, Render!Expands
<1>6. Render!RenderNext => R!RenderNext
  BY DEF R!RenderNext, Render!RenderNext
<1>7. Render!MergeDocument => R!MergeDocument
  BY DEF R!MergeDocument, Render!MergeDocument
<1>8. Render!MergeFile => R!MergeFile
  BY DEF R!MergeFile, Render!MergeFile
<1>9. Render!StartPrinting => R!StartPrinting
  BY DEF R!StartPrinting, Render!StartPrinting
<1> QED
  BY <1>1, <1>2, <1>3, <1>4, <1>5, <1>6, <1>7, <1>8, <1>9 DEF RenderStep, StartSaving, R!Next

\* What there is to render is among what can come out of the trees.
LEMMA EmittedAreApplications ==
  ASSUME tree \in Trees
  PROVE  R!Candidates \subseteq Applications
<1> SUFFICES ASSUME NEW e \in R!Emissions PROVE e.app \in Applications
  BY DEF R!Candidates
<1> DEFINE f == e.file
           d == e.doc
<1>1. /\ f \in tree /\ d \in DOMAIN f.docs
      /\ e.n \in DOMAIN R!Emitted(f, d) /\ e.app = R!Emitted(f, d)[e.n]
  BY TreesAssumed, R!EmissionFact DEF R!Named, R!TreeAssumption
<1>2. ApplicationsOf(f.docs[d]) \subseteq Applications
  BY <1>1 DEF Applications
<1>3. CASE f.docs[d].kind = "Application"
  BY <1>1, <1>2, <1>3 DEF R!Emitted, ApplicationsOf
<1>4. CASE f.docs[d].kind = "ApplicationSet"
  <2> DEFINE A == ApplicationsOf(f.docs[d])
             G == f.docs[d].generators
             s == [g \in DOMAIN G |-> G[g][R!Supplied].apps]
  <2>1. R!Supplied \in SUBSET R!Supplies /\ R!Supplies = Render!Supplies
    BY DEF R!Supplied, R!Supplies, Render!Supplies
  <2>2. R!IsSequence(G) /\ \A g \in DOMAIN G : R!IsSequence(s[g])
    <3>1. /\ R!IsSequence(G)
          /\ \A g \in DOMAIN G, supplied \in SUBSET R!Supplies :
               R!IsSequence(G[g][supplied].apps)
      BY <1>1, <1>4, TreesAssumed DEF R!TreeAssumption
    <3> HIDE DEF G
    <3> QED
      BY <2>1, <3>1
  <2>3. \A g \in DOMAIN G : \A k \in DOMAIN s[g] : s[g][k] \in A
    <3> DEFINE B == {Render!Range(G[g][supplied].apps) :
                       g \in DOMAIN G, supplied \in SUBSET Render!Supplies}
    <3>1. A = UNION B
      BY <1>4 DEF ApplicationsOf
    <3>2. ASSUME NEW g \in DOMAIN G, NEW k \in DOMAIN s[g] PROVE s[g][k] \in A
      <4>1. Render!Range(G[g][R!Supplied].apps) \in B
        <5>1. R!Supplied \in SUBSET Render!Supplies
          BY <2>1
        <5> HIDE DEF G
        <5> QED BY <5>1
      <4>2. s[g][k] \in Render!Range(G[g][R!Supplied].apps)
        BY DEF Render!Range
      <4> HIDE DEF B, A, s
      <4> QED
        BY <3>1, <4>1, <4>2
    <3> QED
      BY <3>2
  <2>4. \A g \in DOMAIN G : s[g] \in Seq(A)
    <3> SUFFICES ASSUME NEW g \in DOMAIN G PROVE s[g] \in Seq(A)
      OBVIOUS
    <3> DEFINE t == s[g]
    <3>1. t \in Seq(R!Range(t)) /\ \A k \in DOMAIN t : t[k] \in A
      BY <2>2, <2>3 DEF R!IsSequence
    <3> HIDE DEF t, A
    <3>2. t \in Seq(A)
      <4> DEFINE n == Len(t)
      <4>1. n \in Nat /\ DOMAIN t = 1 .. n /\ t = [k \in 1 .. n |-> t[k]]
        BY <3>1
      <4> HIDE DEF n
      <4>2. t \in [1 .. n -> A]
        BY <3>1, <4>1
      <4> QED
        BY <4>1, <4>2, R!SeqDef
    <3> QED
      BY <3>2 DEF t
  <2>5. s \in Seq(Seq(A))
    <3>1. Len(G) \in Nat /\ DOMAIN G = 1 .. Len(G)
      <4> HIDE DEF G, s
      <4> QED BY <2>2 DEF R!IsSequence
    <3> DEFINE n == Len(G)
               B == Seq(A)
    <3>2. s \in [1 .. n -> B]
      BY <2>4, <3>1
    <3>3. n \in Nat
      BY <3>1
    <3> HIDE DEF B, s, n
    <3>4. s \in Seq(B)
      BY <3>2, <3>3, R!SeqDef
    <3> QED
      BY <3>4 DEF B
  <2>6. R!FlattenSeq(s) \in Seq(A)
    <3> HIDE DEF A, s
    <3> QED
      BY <2>5, TreesAssumed, R!FlattenType DEF R!TreeAssumption
  <2>7. R!Emitted(f, d) = R!FlattenSeq(s)
    BY <1>4 DEF R!Emitted, R!Generated
  <2> HIDE DEF A, s
  <2>8. e.app \in A
    BY <1>1, <2>6, <2>7
  <2> QED
    BY <1>2, <2>8 DEF A
<1>5. CASE f.docs[d].kind \notin {"Application", "ApplicationSet"}
  BY <1>1, <1>5 DEF R!Emitted
<1> QED
  BY <1>3, <1>4, <1>5

-----------------------------------------------------------------------------
\* Rendering is as far as TemplateRun says ...
RunInv == R!TypeInv /\ R!PlaceInv /\ R!OrderInv

\* ... saving as far as SaveManifests says ...
SaveInv == S!TypeOK /\ S!SeenInv /\ S!SavedInv /\ S!WrittenInv

\* ... and what is saved is what has been rendered.
LinkInv ==
  /\ status = "saving" <=> pc = "print"
  /\ pc = "print" \/ exit = "success" => result = run.apps
  /\ exit = "success" => status = "saved"

IInv == RunInv /\ SaveInv /\ LinkInv

LEMMA RunBegins == R!Init => RunInv
BY TreesAssumed, R!InitType, R!InitOrder DEF R!TreeAssumption, RunInv

LEMMA RunContinues == RunInv /\ [R!Next]_(R!vars) => RunInv'
BY TreesAssumed, R!StepType, R!StepOrder DEF R!TreeAssumption, RunInv

LEMMA RunEnds ==
  ASSUME RunInv, UNCHANGED <<inputAndWork, stdout>>, pc' = "exited",
         exit' = "failure" \/ (pc = "print" /\ exit' = "success")
  PROVE  RunInv'
<1>1. UNCHANGED <<R!Input, R!Work, stdout>>
  BY DEF inputAndWork, R!Input, R!Work
<1> QED
  BY <1>1, TreesAssumed, R!EndKeeps DEF R!TreeAssumption, RunInv

LEMMA RunStarts == RunAgain => RunInv'
<1>1. RunAgain => R!Init'
  BY SameNames DEF RunAgain, R!Init
<1> QED
  BY <1>1, RunBegins, PTL

LEMMA StepRun == RunInv /\ LinkInv /\ [Next]_vars => RunInv'
<1> SUFFICES ASSUME RunInv, LinkInv, [Next]_vars PROVE RunInv'
  OBVIOUS
<1>1. CASE RenderStep \/ StartSaving
  BY <1>1, RenderSteps, RunContinues
<1>2. CASE RenderFails \/ Kill \/ SavingFails \/ Saved
  <2>1. /\ UNCHANGED <<inputAndWork, stdout>> /\ pc' = "exited"
        /\ exit' = "failure" \/ (pc = "print" /\ exit' = "success")
    BY <1>2
    DEF RenderFails, Kill, SavingFails, Saved, Save!AllSaved, LinkInv, Render!ExitWithError, Render!DispatchFails,
        Render!OpenFails, Render!RejectDocument, Render!ExpandFails, Render!RenderFails,
        Render!Input, Render!Work, inputAndWork
  <2> QED
    BY <2>1, RunEnds
<1>3. CASE SaveStep \/ UNCHANGED vars
  <2>1. UNCHANGED R!vars
    BY <1>3 DEF SaveStep, vars, renderVars, R!vars
  <2> QED
    BY <2>1, RunContinues
<1>4. CASE RunAgain
  BY <1>4, RunStarts
<1> QED
  BY <1>1, <1>2, <1>3, <1>4 DEF Next, RunStep

-----------------------------------------------------------------------------
\* What the two call the same in saving is the same.
LEMMA SameSaving ==
  /\ Save!MakeDirectory \/ Save!SaveObject \/ Save!NextApplication \/ Save!AllSaved
       \/ Save!SaveFails \/ Save!Kill => S!Next
  /\ \A rendered : Save!Begin(rendered) => S!Begin(rendered)
  /\ Save!Unambiguous => S!Unambiguous
<1> USE DEF S!Saving, Save!Saving, S!Objects, Save!Objects, S!run, Save!run
<1>1. \A o : Save!base(o) = S!base(o)
  BY DEF S!base, Save!base
<1>2. Save!object = S!object
  BY DEF S!object, Save!object
<1>3. \A b : Save!Count(b) = S!Count(b)
  BY DEF S!Count, Save!Count
<1>4. \A b, c : Save!filename(b, c) = S!filename(b, c)
  BY DEF S!filename, Save!filename
<1>5. Save!path = S!path
  BY <1>1, <1>2, <1>3, <1>4 DEF S!path, Save!path
<1>6. \A g, key, value : Save!Put(g, key, value) = S!Put(g, key, value)
  BY DEF S!Put, Save!Put
<1>7. Save!MakeDirectory => S!MakeDirectory
  BY DEF S!MakeDirectory, Save!MakeDirectory
<1>8. Save!SaveObject => S!SaveObject
  BY <1>1, <1>2, <1>3, <1>5, <1>6 DEF S!SaveObject, Save!SaveObject
<1>9. Save!NextApplication => S!NextApplication
  BY DEF S!NextApplication, Save!NextApplication
<1>10. Save!AllSaved => S!AllSaved
  BY DEF S!AllSaved, Save!AllSaved
<1>11. Save!SaveFails => S!SaveFails
  BY <1>5, <1>6 DEF S!SaveFails, Save!SaveFails
<1>12. Save!Kill => S!Kill
  BY DEF S!Kill, Save!Kill
<1>13. \A rendered : Save!Begin(rendered) => S!Begin(rendered)
  BY DEF S!Begin, Save!Begin
<1>14. Save!Unambiguous => S!Unambiguous
  BY <1>1 DEF S!Unambiguous, Save!Unambiguous
<1> QED
  BY <1>7, <1>8, <1>9, <1>10, <1>11, <1>12, <1>13, <1>14 DEF S!Next

LEMMA SaveContinues == SaveInv /\ [S!Next]_(S!vars) => SaveInv'
BY ResultsAssumed, AttemptsAssumed, S!TypesStep, S!SeenStep, S!SavedStep, S!WrittenStep
DEF S!ResultAssumption, S!AttemptAssumption, SaveInv

LEMMA SaveStarts ==
  ASSUME SaveInv, NEW rendered \in Seq(Applications), Save!Begin(rendered)
  PROVE  SaveInv'
<1>1. S!Begin(rendered)
  BY SameSaving
<1>2. S!TypeOK' /\ S!SavedInv' /\ S!WrittenInv'
  BY <1>1, ResultsAssumed, AttemptsAssumed, S!TypesBegin, S!SavedBegin, S!WrittenBegin
  DEF S!ResultAssumption, S!AttemptAssumption, SaveInv
<1>3. S!SeenInv'
  BY <1>1 DEF S!Begin, S!SeenInv
<1> QED
  BY <1>2, <1>3 DEF SaveInv

LEMMA SaveInit == Init => SaveInv
<1> SUFFICES ASSUME Init PROVE SaveInv
  OBVIOUS
<1>1. result = <<>> /\ app = 1 /\ next = 0 /\ seen = <<>> /\ disk = <<>> /\ status = "saved"
      /\ attempt = 0 /\ earlier = {}
  BY DEF Init
<1>2. S!TypeOK
  BY <1>1 DEF S!TypeOK
<1>3. S!SeenInv
  BY <1>1 DEF S!SeenInv
<1>4. S!SavedInv
  <2>1. DOMAIN result = {} /\ DOMAIN disk = {} /\ Len(result) = 0
    BY <1>1
  <2>2. \A k, n : ~S!Saved(k, n)
    BY <2>1 DEF S!Saved
  <2> QED
    BY <1>1, <2>1, <2>2 DEF S!SavedInv
<1>5. S!WrittenInv
  BY <1>1 DEF S!WrittenInv
<1> QED
  BY <1>2, <1>3, <1>4, <1>5 DEF SaveInv

LEMMA StepSave == RunInv /\ SaveInv /\ [Next]_vars => SaveInv'
<1> SUFFICES ASSUME RunInv, SaveInv, [Next]_vars PROVE SaveInv'
  OBVIOUS
<1>1. CASE UNCHANGED saveVars
  <2>1. UNCHANGED S!vars
    BY <1>1 DEF saveVars, S!vars, S!run
  <2> QED
    BY <2>1, SaveContinues
<1>2. CASE StartSaving
  <2>1. run.apps \in Seq(R!Candidates) /\ R!Candidates \subseteq Applications
    BY EmittedAreApplications DEF RunInv, R!TypeInv, R!Results
  <2>2. run.apps \in Seq(Applications)
    BY <2>1
  <2> QED
    BY <1>2, <2>2, SaveStarts DEF StartSaving
<1>3. CASE SaveStep \/ Saved \/ SavingFails \/ (Kill /\ status = "saving")
  <2>1. S!Next
    BY <1>3, SameSaving DEF SaveStep, Saved, SavingFails, Kill
  <2> QED
    BY <2>1, SaveContinues
<1> QED
  BY <1>1, <1>2, <1>3 DEF Next, RunStep, RenderStep, RenderFails, Kill, RunAgain, vars

LEMMA StepLink == RunInv /\ LinkInv /\ [Next]_vars => LinkInv'
<1> SUFFICES ASSUME RunInv, LinkInv, [Next]_vars PROVE LinkInv'
  OBVIOUS
<1>0. pc # "exited" => exit = "none"
  BY DEF RunInv, R!PlaceInv
<1>1. CASE RenderStep
  <2>1. UNCHANGED saveVars /\ pc \notin {"print", "exited"} /\ pc' # "print" /\ exit' = exit
    BY <1>1
    DEF RenderStep, Render!Dispatch, Render!OpenFile, Render!SkipDocument, Render!AtDocument,
        Render!StartApplication, Render!ExpandSet, Render!RenderNext, Render!MergeDocument,
        Render!MergeFile
  <2> QED
    BY <1>0, <2>1 DEF LinkInv, saveVars
<1>2. CASE RenderFails
  <2>1. UNCHANGED saveVars /\ pc # "print" /\ pc' = "exited" /\ exit' = "failure"
    BY <1>2
    DEF RenderFails, Render!DispatchFails, Render!OpenFails, Render!RejectDocument,
        Render!AtDocument, Render!ExpandFails, Render!RenderFails, Render!ExitWithError
  <2> QED
    BY <2>1 DEF LinkInv, saveVars
<1>3. CASE StartSaving
  <2>1. /\ pc = "file" /\ pc' = "print" /\ exit' = exit /\ run' = run
        /\ result' = run.apps /\ status' = "saving"
    BY <1>3 DEF StartSaving, Render!StartPrinting, Save!Begin, Render!Work
  <2> QED
    BY <1>0, <2>1 DEF LinkInv
<1>4. CASE SaveStep
  <2>1. UNCHANGED renderVars /\ result' = result /\ status' = status
    BY <1>4 DEF SaveStep, Save!MakeDirectory, Save!SaveObject, Save!NextApplication
  <2> QED
    BY <2>1 DEF LinkInv, renderVars
<1>5. CASE Saved
  <2>1. /\ status = "saving" /\ status' = "saved" /\ result' = result /\ run' = run
        /\ pc' = "exited" /\ exit' = "success"
    BY <1>5 DEF Saved, Save!AllSaved, inputAndWork
  <2> QED
    BY <2>1 DEF LinkInv
<1>6. CASE SavingFails
  BY <1>6 DEF SavingFails, Save!SaveFails, Render!ExitWithError, LinkInv
<1>7. CASE Kill
  BY <1>7 DEF Kill, Save!Kill, Render!ExitWithError, LinkInv, saveVars
<1>8. CASE RunAgain
  BY <1>8 DEF RunAgain, LinkInv, saveVars
<1>9. CASE UNCHANGED vars
  BY <1>9 DEF vars, renderVars, saveVars, LinkInv
<1> QED
  BY <1>1, <1>2, <1>3, <1>4, <1>5, <1>6, <1>7, <1>8, <1>9 DEF Next, RunStep

\* What TemplateRun and SaveManifests maintain is maintained when the one is followed by
\* the other, over any number of runs, and what is saved is what has been rendered.
THEOREM Composed == Spec => []IInv
<1>1. Init => IInv
  BY SameInit, RunBegins, SaveInit DEF IInv, LinkInv, Init, Render!Init
<1>2. IInv /\ [Next]_vars => IInv'
  BY StepRun, StepSave, StepLink DEF IInv
<1> QED
  BY <1>1, <1>2, PTL DEF Spec

-----------------------------------------------------------------------------
\* What has been rendered when a run begins to save is all there is to render.
LEMMA AllRendered ==
  ASSUME RunInv, pc = "print" \/ exit = "success"
  PROVE  /\ \A e \in R!Emissions : \E k \in DOMAIN run.apps : run.apps[k] = e.app
         /\ \A k \in DOMAIN run.apps : \E e \in R!Emissions : e.app = run.apps[k]
<1>1. R!Enumerates(run.apps, R!Emissions)
  BY DEF RunInv, R!OrderInv, R!Rendered
<1>2. PICK h : R!IsOrderOf(h, run.apps, R!Emissions)
  BY <1>1 DEF R!Enumerates
<1> QED
  BY <1>2 DEF R!IsOrderOf

\* Nothing is written before everything the tree declares or generates has been rendered:
\* saveManifests is called when Template has returned, and not when it fails.
THEOREM RenderedBeforeSaved == Spec => NothingSavedBeforeAllRendered
<1>1. IInv /\ [Next]_vars =>
        (disk' # disk => \A e \in Render!Emissions : e.app \in {run.apps[k] : k \in DOMAIN run.apps})
  <2> SUFFICES ASSUME IInv, [Next]_vars, disk' # disk
               PROVE  \A e \in Render!Emissions : e.app \in {run.apps[k] : k \in DOMAIN run.apps}
    OBVIOUS
  <2>1. pc = "print"
    BY DEF Next, RunStep, RenderStep, RenderFails, StartSaving, Save!Begin, SaveStep,
           Save!MakeDirectory, Save!SaveObject, Save!NextApplication, Save!Saving, Saved,
           Save!AllSaved, SavingFails, Save!SaveFails, Kill, Save!Kill, RunAgain, saveVars, vars,
           IInv, LinkInv
  <2> QED
    BY <2>1, AllRendered, SameEmissions DEF IInv
<1> QED
  BY <1>1, Composed, PTL DEF Spec, NothingSavedBeforeAllRendered

\* From the tree to the directory: what a run that succeeds has saved is there object by
\* object, and it has written nothing else.
THEOREM DirectoryComplete == Spec => []EveryObjectOnDisk
<1>1. IInv => EveryObjectOnDisk
  <2> DEFINE written == {p \in DOMAIN disk : disk[p][1] = attempt}
  <2> SUFFICES ASSUME IInv, exit = "success", Save!Unambiguous
               PROVE  /\ \A e \in Render!Emissions : \A n \in DOMAIN e.app.objects :
                           \E p \in written :
                             disk[p][2] > 0 /\ disk[p][3] = n /\ result[disk[p][2]] = e.app
                      /\ \A p \in written : \E e \in Render!Emissions :
                           p[1] = e.app.name /\ disk[p][3] \in DOMAIN e.app.objects
    BY DEF EveryObjectOnDisk
  <2>1. result = run.apps /\ status = "saved" /\ S!Unambiguous
    BY SameSaving DEF IInv, LinkInv
  <2>2. result \in Seq(Applications) /\ app > Len(result) /\ app \in Nat
    BY <2>1 DEF IInv, SaveInv, S!TypeOK, S!SavedInv
  <2>3. \A k \in DOMAIN result : \A n \in DOMAIN result[k].objects :
          /\ S!PathIn(result, k, n) \in DOMAIN disk
          /\ disk[S!PathIn(result, k, n)] = <<attempt, k, n>>
    BY <2>1, <2>2 DEF IInv, SaveInv, S!SavedInv, S!Saved
  <2>4. \A p \in written :
          /\ disk[p][2] \in DOMAIN result /\ p[1] = result[disk[p][2]].name
          /\ disk[p][3] \in DOMAIN result[disk[p][2]].objects
    BY <2>1 DEF IInv, SaveInv, S!SavedInv, S!WrittenInv
  <2>5. ASSUME NEW e \in R!Emissions, NEW n \in DOMAIN e.app.objects
        PROVE  \E p \in written :
                 disk[p][2] > 0 /\ disk[p][3] = n /\ result[disk[p][2]] = e.app
    <3>1. PICK k \in DOMAIN result : result[k] = e.app
      BY <2>1, AllRendered DEF IInv
    <3> DEFINE p == S!PathIn(result, k, n)
    <3>2. p \in DOMAIN disk /\ disk[p] = <<attempt, k, n>>
      BY <2>3, <3>1
    <3>3. k > 0
      BY <2>2
    <3> HIDE DEF p
    <3>4. disk[p][1] = attempt /\ disk[p][2] = k /\ disk[p][3] = n
      BY <3>2
    <3> QED
      BY <3>1, <3>2, <3>3, <3>4
  <2>6. ASSUME NEW p \in written
        PROVE  \E e \in R!Emissions : p[1] = e.app.name /\ disk[p][3] \in DOMAIN e.app.objects
    <3>1. PICK e \in R!Emissions : e.app = result[disk[p][2]]
      BY <2>1, <2>4, AllRendered DEF IInv
    <3> QED
      BY <2>4, <3>1
  <2> QED
    BY <2>5, <2>6, SameEmissions
<1> QED
  BY <1>1, Composed, PTL
=============================================================================
