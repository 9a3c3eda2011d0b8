----------------------------- MODULE MCSelfUpdate -----------------------------
(***************************************************************************)
(* Releases and builds for SelfUpdate: a release, a build of a commit that *)
(* came after it, and the next release.                                    *)
(***************************************************************************)
EXTENDS SelfUpdate

TwoReleases == {1, 2}

MCBuilds == {[release |-> 1, ahead |-> 0], [release |-> 1, ahead |-> 3],
             [release |-> 2, ahead |-> 0]}
=============================================================================
