------------------------------ MODULE MCFileLists ------------------------------
(***************************************************************************)
(* A small checkout for FileLists: a directory with a directory in it, a   *)
(* hidden directory, a hidden file, and files of each kind.                *)
(***************************************************************************)
EXTENDS FileLists

\* Names in the order of the alphabet; the first two start with a dot.
DotGit == 1
DotFile == 2
Apps == 3
AppsOld == 4
Base == 5
Readme == 6
Values == 7

MCHidden == {DotGit, DotFile}

Directory(path) == [path |-> path, kind |-> "directory"]
Yaml(path) == [path |-> path, kind |-> "yaml"]

MCEntries ==
  {Directory(<<DotGit>>), Yaml(<<DotGit, Values>>), Yaml(<<DotFile>>),
   Directory(<<Apps>>), Yaml(<<Apps, Values>>), Directory(<<AppsOld>>), Yaml(<<AppsOld, Values>>),
   Directory(<<Apps, Base>>), [path |-> <<Apps, Base, Values>>, kind |-> "dangling"],
   [path |-> <<Readme>>, kind |-> "other"], Yaml(<<Values>>)}

\* A pattern like apps/**, and what it matches.
MCMatching == {e \in MCEntries : Head(e.path) = Apps}

\* "apps-old" comes after "apps" among names, but what is in it before "apps/values.yaml"
\* among whole paths, because "-" comes before "/".
MCPathRank ==
  [e \in MCEntries |->
    LET digit(n) == IF n \notin DOMAIN e.path THEN 0
                    ELSE IF e.path[n] = AppsOld THEN Apps ELSE e.path[n]
        rank     == 100 * digit(1) + 10 * digit(2) + digit(3)
    IN  IF Head(e.path) = AppsOld /\ Len(e.path) > 1 THEN rank - 60 ELSE rank + Head(e.path)]

MCStarts == {MCEntries, {e \in MCEntries : Len(e.path) = 1}, {}}
=============================================================================
