------------------------------ MODULE ChartStore ------------------------------
(***************************************************************************)
(* What the chart cache promises its callers: a call for a chart ends      *)
(* either refused or with the chart's entry, which was published by then   *)
(* and stays published.                                                    *)
(***************************************************************************)
CONSTANTS Runs, Charts

VARIABLES published,  \* charts that have an entry
          asked,      \* the chart each run asked for last
          answer      \* what it heard: "none" yet, "entry", "refused" or "gone"

storeVars == <<published, asked, answer>>

Init ==
  /\ published = {} /\ asked \in [Runs -> Charts]
  /\ answer = [r \in Runs |-> "refused"]

Ask(r, c) ==
  /\ answer[r] \in {"entry", "refused"}
  /\ asked' = [asked EXCEPT ![r] = c]
  /\ answer' = [answer EXCEPT ![r] = "none"]
  /\ UNCHANGED published

\* A chart not there yet is published by the call that is answered with it.
Give(r) ==
  /\ answer[r] = "none"
  /\ published' = published \union {asked[r]}
  /\ answer' = [answer EXCEPT ![r] = "entry"]
  /\ UNCHANGED asked

Refuse(r) ==
  /\ answer[r] = "none"
  /\ answer' = [answer EXCEPT ![r] = "refused"]
  /\ UNCHANGED <<published, asked>>

\* The caller may be killed at any time.
Leave(r) ==
  /\ answer' = [answer EXCEPT ![r] = "gone"]
  /\ UNCHANGED <<published, asked>>

Next ==
  \E r \in Runs : (\E c \in Charts : Ask(r, c)) \/ Give(r) \/ Refuse(r) \/ Leave(r)

Spec == Init /\ [][Next]_storeVars
=============================================================================
