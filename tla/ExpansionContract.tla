--------------------------- MODULE ExpansionContract ---------------------------
(***************************************************************************)
(* What expanding an ApplicationSet promises, whatever happens meanwhile   *)
(* to the pull requests file: the Applications are those of one version of *)
(* it, there at some time during the expansion, and a generator that fails *)
(* fails it all.                                                           *)
(***************************************************************************)
CONSTANTS Expected(_, _, _),  \* the outcome for arguments and versions of both files
          Pending             \* no outcome yet

VARIABLES input, pullsFile, clustersFile, \* the arguments and the files as they are now
          pullsSeen,                      \* what the first has been since the start
          outcome

vars == <<input, pullsFile, clustersFile, pullsSeen, outcome>>

Init ==
  /\ pullsSeen = {pullsFile} /\ outcome = Pending

Edit ==
  /\ outcome = Pending
  /\ pullsSeen' = pullsSeen \union {pullsFile'}
  /\ UNCHANGED <<input, clustersFile, outcome>>

Expand ==
  /\ outcome = Pending
  /\ \E pulls \in pullsSeen : outcome' = Expected(input, pulls, clustersFile)
  /\ UNCHANGED <<input, pullsFile, clustersFile, pullsSeen>>

Next == Edit \/ Expand

Safety == Init /\ [][Next]_vars

\* There is an outcome at last, whoever edits the file.
Spec == Safety /\ <>(outcome # Pending)
=============================================================================
