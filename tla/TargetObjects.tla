---------------------------- MODULE TargetObjects ----------------------------
(***************************************************************************)
(* From the manifests the sources of one Application rendered to, to the   *)
(* objects that Application comes out as: each is given or stripped of its *)
(* namespace (scope.go, and NormalizeTargetObjects of the Argo CD          *)
(* application controller), the last of several manifests of one resource  *)
(* is kept, and what is left is sorted (sortObjects).                      *)
(*                                                                         *)
(* An object is a record                                                   *)
(*   type      the position of its (apiVersion, kind) in sort order        *)
(*   ns, name  positions in sort order too, NoNs and NoName when empty     *)
(*   gen       whether it has a generateName                               *)
(*   defines   the group and kind a CustomResourceDefinition declares,     *)
(*             NoKind for everything else and for a CRD too broken to read *)
(*   cluster   whether that CRD's scope is Cluster                         *)
(*   body      the rest of it                                              *)
(***************************************************************************)
EXTENDS Integers, Sequences, FiniteSets

CONSTANTS GroupKind(_),  \* the group and kind of a type, its version dropped
          ClusterKinds,  \* clusterScopedKinds: the built-in ones
          NoKind

NoNs == 0
NoName == 0

\* Mutant of IsNamespaced: the first of several definitions decides.
FirstDefinitionDecides(objs, gk) ==
  LET definitions == {j \in DOMAIN objs : objs[j].defines = gk}
      first == CHOOSE j \in definitions : \A k \in definitions : k >= j
  IN  IF gk # NoKind /\ definitions # {} THEN ~objs[first].cluster
                                         ELSE gk \notin ClusterKinds

\* The CRDs among the manifests speak for their own kind, the last one of
\* several winning; any other kind is namespaced unless the table has it.
IsNamespaced(objs, gk) ==
  LET definitions == {j \in DOMAIN objs : objs[j].defines = gk}
      last == CHOOSE j \in definitions : \A k \in definitions : k <= j
  IN  IF gk # NoKind /\ definitions # {} THEN ~objs[last].cluster
                                         ELSE gk \notin ClusterKinds

Placed(objs, destination) ==
  [j \in DOMAIN objs |->
     [objs[j] EXCEPT !.ns =
        CASE ~IsNamespaced(objs, GroupKind(objs[j].type)) -> NoNs
          [] IsNamespaced(objs, GroupKind(objs[j].type)) /\ @ = NoNs -> destination
          [] OTHER -> @]]

\* What NormalizeTargetObjects takes two manifests for the same resource by. One
\* with a generateName in place of a name is told apart by its position.
ResourceKey(o, j) ==
  <<GroupKind(o.type), o.ns, o.name, IF o.name = NoName /\ o.gen THEN j ELSE 0>>

SameResource(placed, j, k) == ResourceKey(placed[j], j) = ResourceKey(placed[k], k)

\* The manifests that survive: the last of each resource.
Kept(placed) ==
  {j \in DOMAIN placed : \A k \in DOMAIN placed : k > j => ~SameResource(placed, j, k)}

\* The manifests whose resource gets a RepeatedResourceWarning.
Repeated(placed) ==
  {j \in DOMAIN placed : \E k \in DOMAIN placed \ {j} : SameResource(placed, j, k)}

\* Mutant of Before: the namespace is not compared.
BeforeInAnyNamespace(a, b) ==
  \/ a.type < b.type
  \/ a.type = b.type /\ a.name < b.name

\* The comparison of sortObjects.
Before(a, b) ==
  \/ a.type < b.type
  \/ a.type = b.type /\ a.ns < b.ns
  \/ a.type = b.type /\ a.ns = b.ns /\ a.name < b.name

\* Every order NormalizeTargetObjects (it ranges over a map) followed by sortObjects
\* (slices.SortFunc, which is not stable) may leave the kept manifests in.
SortedOrders(placed) ==
  {order \in [1 .. Cardinality(Kept(placed)) -> Kept(placed)] :
     \A p, q \in DOMAIN order : p < q => /\ order[p] # order[q]
                                         /\ ~Before(placed[order[q]], placed[order[p]])}
=============================================================================
