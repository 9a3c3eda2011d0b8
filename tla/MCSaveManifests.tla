--------------------------- MODULE MCSaveManifests ---------------------------
(***************************************************************************)
(* Rendered Applications for SaveManifests.  The objects of one come       *)
(* sorted and without repetition, as renderApplication leaves them.        *)
(***************************************************************************)
EXTENDS SaveManifests

MCLower(kind) == IF kind = "ConfigMap" THEN "configmap" ELSE kind

Object(kind, ns, stem) == [kind |-> kind, ns |-> ns, stem |-> stem, numbers |-> <<>>]

\* In the order sortObjects gives them.
Sorted ==
  <<Object("", "x", "a"),
    Object("ConfigMap", "x", ""), Object("ConfigMap", "x", ""),
    Object("ConfigMap", "x", "a"), Object("ConfigMap", "x", "a-b"),
    Object("ConfigMap", "y", "a")>>

\* The same, and one whose name ends in a number.
SortedNumbered ==
  <<Object("ConfigMap", "x", "a"), [Object("ConfigMap", "x", "a") EXCEPT !.numbers = <<2>>],
    Object("ConfigMap", "y", "a"), Object("ConfigMap", "z", "a")>>

\* The objects of a list at some of its places.
Selections(list) ==
  {SelectSeq([k \in DOMAIN list |-> <<k, list[k]>>], LAMBDA e : e[1] \in places)
     : places \in SUBSET DOMAIN list}

Choices(list) == {[k \in DOMAIN s |-> s[k][2]] : s \in Selections(list)}

App(name, objects) == [name |-> name, objects |-> objects]

\* No Application, one with objects of telling names, or two with the same or some of
\* the same objects, which may share a name as well: some of the objects are no longer
\* there when another tree is saved later.
MCResults ==
  {<<>>} \union {<<App("one", s)>> : s \in Choices(SortedNumbered)}
    \union {<<App("one", s), App("two", t)>> :
              s \in {Sorted, SubSeq(Sorted, 2, 3), SubSeq(Sorted, 4, 6)},
              t \in {<<>>, Sorted, SubSeq(Sorted, 4, 6)}}
    \union {<<App("one", s), App("one", SubSeq(Sorted, 4, 6))>> :
              s \in {Sorted, SubSeq(Sorted, 4, 5)}}

\* One Application whose objects have telling names.
NumberedResults == {<<App("one", s)>> : s \in Choices(SortedNumbered)}
=============================================================================
