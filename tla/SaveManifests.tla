---------------------------- MODULE SaveManifests ----------------------------
(***************************************************************************)
(* --output-dir (main.go): saveManifests writes each rendered object to a  *)
(* file of its own, <dir>/<application>/<kind>-<name>.yaml, Application by *)
(* Application and object by object.  An object whose kind and name an     *)
(* earlier object of its Application had gets a counter in its filename.   *)
(*                                                                         *)
(* A name is split where a counter would be looked for: "a-2" is the stem  *)
(* "a" with the numbers <<2>>, and no name at all is the stem "" alone.    *)
(*                                                                         *)
(* The directory outlives the run: after one that was saved, that failed   *)
(* or that was killed the command is run again, perhaps for another tree.  *)
(***************************************************************************)
EXTENDS Naturals, Sequences

CONSTANTS Results,     \* rendered Applications: sequences of records with name and objects
          Lower(_),    \* strings.ToLower on a kind
          MaxAttempts  \* how often the command is run

\* Every object has a kind, possibly "", a namespace and a name.
Manifests == [kind : STRING, ns : STRING, stem : STRING, numbers : Seq(Nat)]

ASSUME ResultAssumption ==
  \A res \in Results :
    /\ res \in Seq({res[k] : k \in DOMAIN res})
    /\ \A k \in DOMAIN res : res[k].name \in STRING /\ res[k].objects \in Seq(Manifests)

ASSUME AttemptAssumption == MaxAttempts \in Nat

VARIABLES result,  \* what was rendered
          app,     \* the Application being saved
          next,    \* the object of it to be saved next, 0 before its directory exists
          seen,    \* how often each base name came up in this Application
          files,   \* what is on disk: [path -> <<attempt, application, object>>],
                   \* the last two 0 for a file that is not whole
          status,  \* "saving", "saved" or "failed"
          attempt, \* which run of the command this is
          earlier, \* history: what was rendered in the runs before
          before   \* history: what was on disk when this one began to save

run == <<attempt, earlier, before>>
vars == <<result, app, next, seen, files, status, run>>

Objects == result[app].objects
object == Objects[next]

\* The filename without counter and extension.
base(o) ==
  [kind |-> IF o.kind = "" THEN "unknown" ELSE Lower(o.kind),
   stem |-> o.stem, numbers |-> o.numbers]

Count(b) == IF b \in DOMAIN seen THEN seen[b] ELSE 0

filename(b, count) == IF count > 1 THEN [b EXCEPT !.numbers = Append(@, count)] ELSE b

path == <<result[app].name, filename(base(object), Count(base(object)) + 1)>>

Put(f, key, value) == [k \in DOMAIN f \union {key} |-> IF k = key THEN value ELSE f[k]]

Init ==
  /\ result \in Results
  /\ app = 1 /\ next = 0
  /\ seen = <<>> /\ files = <<>> /\ status = "saving"
  /\ attempt = 1 /\ earlier = {} /\ before = files

Saving == status = "saving" /\ app <= Len(result)

\* Mutant of MakeDirectory: the directory is emptied first.
MakeDirectoryAnew ==
  /\ Saving /\ next = 0
  /\ next' = 1 /\ seen' = <<>>
  /\ files' = [p \in {p \in DOMAIN files : p[1] # result[app].name} |-> files[p]]
  /\ UNCHANGED <<result, app, status, run>>

MakeDirectory ==
  /\ Saving /\ next = 0
  /\ next' = 1 /\ seen' = <<>>
  /\ UNCHANGED <<result, app, files, status, run>>

\* Mutant of SaveObject: the counter is kept per kind.
SaveCountingKinds ==
  LET b == base(object)
      kind == [b EXCEPT !.stem = "", !.numbers = <<>>]
  IN  /\ Saving /\ next \in DOMAIN Objects
      /\ seen' = Put(seen, kind, Count(kind) + 1)
      /\ files' = Put(files, <<result[app].name, filename(b, Count(kind) + 1)>>, <<attempt, app, next>>)
      /\ next' = next + 1
      /\ UNCHANGED <<result, app, status, run>>

\* Mutant of SaveObject: a file that is there already is left alone.
SaveIfNew ==
  /\ Saving /\ next \in DOMAIN Objects
  /\ seen' = Put(seen, base(object), Count(base(object)) + 1)
  /\ files' = IF path \in DOMAIN files THEN files ELSE Put(files, path, <<attempt, app, next>>)
  /\ next' = next + 1
  /\ UNCHANGED <<result, app, status, run>>

SaveObject ==
  /\ Saving /\ next \in DOMAIN Objects
  /\ seen' = Put(seen, base(object), Count(base(object)) + 1)
  /\ files' = Put(files, path, <<attempt, app, next>>)
  /\ next' = next + 1
  /\ UNCHANGED <<result, app, status, run>>

NextApplication ==
  /\ Saving /\ next > Len(Objects)
  /\ app' = app + 1 /\ next' = 0
  /\ UNCHANGED <<result, seen, files, status, run>>

AllSaved ==
  /\ status = "saving" /\ app > Len(result)
  /\ status' = "saved"
  /\ UNCHANGED <<result, app, next, seen, files, run>>

\* os.MkdirAll, yaml.Marshal or os.WriteFile fails, the last perhaps after it
\* truncated the file.  What was written before stays.
SaveFails ==
  /\ Saving
  /\ next = 0 \/ next \in DOMAIN Objects
  /\ status' = "failed"
  /\ files' = files \/ (next > 0 /\ files' = Put(files, path, <<attempt, 0, 0>>))
  /\ UNCHANGED <<result, app, next, seen, run>>

\* The command is killed between two files (within one, it is as if writing failed).
Kill ==
  /\ status = "saving"
  /\ status' = "failed"
  /\ UNCHANGED <<result, app, next, seen, files, run>>

\* saveManifests is called with what another run has rendered.
Begin(rendered) ==
  /\ result' = rendered
  /\ app' = 1 /\ next' = 0 /\ seen' = <<>> /\ status' = "saving"
  /\ attempt' = attempt + 1 /\ earlier' = earlier \union {result} /\ before' = files
  /\ UNCHANGED files

RunAgain == status # "saving" /\ attempt < MaxAttempts /\ \E other \in Results : Begin(other)

Next ==
  \/ MakeDirectory \/ SaveObject \/ NextApplication \/ AllSaved
  \/ SaveFails \/ Kill \/ RunAgain

Spec == Init /\ [][Next]_vars

-----------------------------------------------------------------------------
\* Each variable ranges over what the code can put in it.
TypeOK ==
  /\ result \in Results
  /\ app \in 1 .. Len(result) + 1
  /\ next \in Nat
  /\ app <= Len(result) => next <= Len(Objects) + 1
  /\ next > 0 => \A b \in DOMAIN seen : seen[b] \in 1 .. next - 1
  /\ attempt \in Nat /\ \A p \in DOMAIN files : files[p][1] \in 1 .. attempt
  /\ status \in {"saving", "saved", "failed"} /\ (status = "saving" => attempt > 0)

\* The objects written so far.
Written ==
  UNION {{<<attempt, k, n>> : n \in {n \in DOMAIN result[k].objects : k < app \/ n < next}}
           : k \in {k \in DOMAIN result : k <= app}}

\* "Distinct objects must never share a filename": what was written is not written
\* over by a later object.
DistinctFiles ==
  status # "failed" => \A w \in Written : \E p \in DOMAIN files : files[p] = w

\* No Application has the name of another, and in none of them both a kind and name
\* come up twice and a name ends in a number.
Unambiguous ==
  /\ \A j, k \in DOMAIN result : result[j].name = result[k].name => j = k
  /\ \A k \in DOMAIN result :
       LET objects == result[k].objects
       IN  \/ \A m, n \in DOMAIN objects : base(objects[m]) = base(objects[n]) => m = n
           \/ \A n \in DOMAIN objects : objects[n].numbers = <<>>

\* Without that every object has a file to itself: one named "a-2" has its own, and so
\* has each of those with the same kind and name in several namespaces.
DistinctFilesUnlessNumbered == Unambiguous => DistinctFiles

\* What was on disk before is there still, but for what this run has written.
SavingOnlyAdds ==
  \A p \in DOMAIN before :
    p \in DOMAIN files /\ (files[p] = before[p] \/ files[p][1] = attempt)

\* A run that succeeds leaves nothing of those before it that rendered the same and
\* failed, or were killed, on the way: no old file, and none that is not whole.
RetryRepairs ==
  status = "saved" /\ earlier \subseteq {result} =>
    \A p \in DOMAIN files : files[p][1] = attempt /\ files[p][2] > 0
=============================================================================
