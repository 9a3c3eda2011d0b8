--------------------------- MODULE RenderToDirectory ---------------------------
(***************************************************************************)
(* The command with --output-dir: TemplateRun up to where it would print,  *)
(* and then SaveManifests instead.  It is run again and again, for a tree  *)
(* that somebody edits in between, and may fail or be killed on the way;   *)
(* the directory is all that outlives a run.                               *)
(***************************************************************************)
EXTENDS Naturals, Sequences

CONSTANTS Commands, Trees, \* as in TemplateRun
          Lower(_),        \* as in SaveManifests
          MaxRuns          \* how often the command is run

VARIABLES command, tree, pc, files, documents, apps, document, file, run, stdout, exit,
          result, app, next, seen, disk, status, attempt, earlier, before,
          runs     \* how often the command has been run

Render == INSTANCE TemplateRun

\* All that can come out of a document, whatever mock files are supplied.
ApplicationsOf(content) ==
  CASE content.kind = "Application" -> {content.app}
    [] content.kind = "ApplicationSet" ->
         UNION {Render!Range(content.generators[g][supplied].apps) :
                  g \in DOMAIN content.generators, supplied \in SUBSET Render!Supplies}
    [] OTHER -> {}

Applications ==
  UNION {UNION {UNION {ApplicationsOf(f.docs[d]) : d \in DOMAIN f.docs} : f \in t} : t \in Trees}

Save == INSTANCE SaveManifests
          WITH files <- disk, Results <- Seq(Applications), MaxAttempts <- 0

\* What saveManifests is handed has names, kinds and namespaces.
ASSUME ApplicationAssumption ==
  /\ Render!TreeAssumption
  /\ \A a \in Applications : a.name \in STRING /\ a.objects \in Seq(Save!Manifests)

inputAndWork == <<command, tree, files, documents, apps, document, file, run>>
renderVars ==
  <<command, tree, pc, files, documents, apps, document, file, run, stdout, exit>>
saveVars == <<result, app, next, seen, disk, status, attempt, earlier, before>>
vars == <<renderVars, saveVars, runs>>

Init ==
  /\ Render!Init
  /\ result = <<>> /\ app = 1 /\ next = 0 /\ seen = <<>> /\ disk = <<>> /\ status = "saved"
  /\ attempt = 0 /\ earlier = {} /\ before = <<>>
  /\ runs = 1

RenderStep ==
  /\ \/ Render!Dispatch \/ Render!OpenFile
     \/ Render!SkipDocument \/ Render!StartApplication \/ Render!ExpandSet
     \/ Render!RenderNext \/ Render!MergeDocument \/ Render!MergeFile
  /\ UNCHANGED <<saveVars, runs>>

RenderFails ==
  /\ \/ Render!DispatchFails \/ Render!OpenFails
     \/ Render!RejectDocument \/ Render!ExpandFails \/ Render!RenderFails
  /\ UNCHANGED <<saveVars, runs>>

\* Mutant of StartSaving: each file of the tree is saved when it is rendered.
StartSavingEarly ==
  /\ pc = "file" /\ run.apps # <<>>
  /\ pc' = "print" /\ Save!Begin(run.apps)
  /\ UNCHANGED <<inputAndWork, stdout, exit, runs>>

StartSaving ==
  /\ Render!StartPrinting /\ Save!Begin(run.apps)
  /\ UNCHANGED runs

\* Mutant of SaveStep: an Application without objects is never left.
SaveStepNonEmpty ==
  /\ Save!MakeDirectory \/ Save!SaveObject \/ (next > 1 /\ Save!NextApplication)
  /\ UNCHANGED <<renderVars, runs>>

SaveStep ==
  /\ Save!MakeDirectory \/ Save!SaveObject \/ Save!NextApplication
  /\ UNCHANGED <<renderVars, runs>>

\* main returns, with nothing printed.
Saved ==
  /\ Save!AllSaved
  /\ pc' = "exited" /\ exit' = "success"
  /\ UNCHANGED <<inputAndWork, stdout, runs>>

\* Mutant of SavingFails: the error is not handed on.
SavingFailsSilently ==
  /\ Save!SaveFails
  /\ pc' = "exited" /\ exit' = "success"
  /\ UNCHANGED <<inputAndWork, stdout, runs>>

SavingFails ==
  /\ Save!SaveFails /\ Render!ExitWithError
  /\ UNCHANGED runs

Kill ==
  /\ pc # "exited" /\ Render!ExitWithError
  /\ IF status = "saving" THEN Save!Kill ELSE UNCHANGED saveVars
  /\ UNCHANGED runs

\* Nothing but the directory is left of the run before.
RunAgain ==
  /\ pc = "exited" /\ runs < MaxRuns
  /\ command' \in Commands /\ tree' \in Trees
  /\ pc' = "dispatch" /\ files' = {} /\ documents' = {} /\ apps' = <<>>
  /\ document' = Render!EmptyResult /\ file' = Render!EmptyResult /\ run' = Render!EmptyResult
  /\ stdout' = <<>> /\ exit' = "none"
  /\ runs' = runs + 1
  /\ UNCHANGED saveVars

RunStep ==
  \/ RenderStep \/ RenderFails \/ StartSaving \/ SaveStep \/ Saved \/ SavingFails

Next == RunStep \/ Kill \/ RunAgain

\* One thread.  Nobody has to run it again.
Spec == Init /\ [][Next]_vars /\ WF_vars(RunStep)

-----------------------------------------------------------------------------

\* From the tree to the directory: after a run that succeeds there is a file for every
\* object of every Application the tree declares or generates, and this run has left no
\* file that holds anything else, or that is not whole.
EveryObjectOnDisk ==
  exit = "success" /\ Save!Unambiguous =>
    LET written == {p \in DOMAIN disk : disk[p][1] = attempt}
    IN  /\ \A e \in Render!Emissions : \A n \in DOMAIN e.app.objects :
             \E p \in written : disk[p][2] > 0 /\ disk[p][3] = n /\ result[disk[p][2]] = e.app
        /\ \A p \in written : \E e \in Render!Emissions :
             p[1] = e.app.name /\ disk[p][3] \in DOMAIN e.app.objects

\* Nothing is written before everything the tree declares or generates has been
\* rendered, so that a run whose rendering fails leaves the directory as it found it.
NothingSavedBeforeAllRendered ==
  [][disk' # disk => \A e \in Render!Emissions : e.app \in {run.apps[k] : k \in DOMAIN run.apps}]_vars

\* A run comes to an end, also one that saves.
RunsEnd == (pc = "dispatch") ~> (pc = "exited")
=============================================================================
