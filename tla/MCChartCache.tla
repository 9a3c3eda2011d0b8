----------------------------- MODULE MCChartCache -----------------------------
(***************************************************************************)
(* Charts for ChartCache: two versions of one chart share a base name, as  *)
(* do charts at two OCI paths with the same last segment.                  *)
(***************************************************************************)
EXTENDS ChartCache, TLC

Hello(version) == [repo |-> "https://charts", chart |-> "hello", version |-> version]
World(version) == [Hello(version) EXCEPT !.chart = "world"]

MCBase(c) == c.chart

\* Two charts.
TwoBases == {Hello(1), World(1)}

\* Two versions of one chart.
OneBase == {Hello(1), Hello(2)}

RunSymmetry == Permutations(Runs)
=============================================================================
