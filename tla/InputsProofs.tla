----------------------------- MODULE InputsProofs -----------------------------
(***************************************************************************)
(* Proofs about what the program takes in:                                 *)
(*                                                                         *)
(*   FileLists                for any checkout of finitely many entries,   *)
(*                            and any number of changes                    *)
(*   ApplicationSetExpansion  for any generators, documents and files, and *)
(*                            any number of edits                          *)
(*   RenderInputs             for any Applications, charts, registries and *)
(*                            contents of the capabilities file, and any   *)
(*                            number of runs and edits                     *)
(***************************************************************************)
EXTENDS FileLists, ApplicationSetExpansion, RenderInputs, DataLemmas

-----------------------------------------------------------------------------
(* FileLists *)

\* A path goes on where another ends, or the first name in which they differ is less.
Above(p, q) == Len(p) < Len(q) /\ \A k \in 1 .. Len(p) : p[k] = q[k]
Apart(p, q) ==
  \E n \in 1 .. Len(p) : n <= Len(q) /\ p[n] < q[n] /\ \A k \in 1 .. n - 1 : p[k] = q[k]
Earlier(p, q) == Above(p, q) \/ Apart(p, q)

\* A path is another, or goes on where that ends.
Below(q, p) == Len(p) <= Len(q) /\ \A k \in 1 .. Len(p) : p[k] = q[k]

\* Names in the order of the alphabet are numbers.
Paths == Seq(Nat)

\* A path that comes earlier precedes the other in the order of the names.
LEMMA EarlierPrecedes ==
  ASSUME NEW p \in Paths, NEW q \in Paths, Earlier(p, q)
  PROVE  Precedes(p, q)
<1>1. CASE Above(p, q)
  <2> DEFINE n == Len(p) + 1
  <2>1. n \in 1 .. Len(q) /\ n <= Len(p) + 1 /\ ~(n <= Len(p))
    BY <1>1 DEF Above, Paths
  <2>2. SubSeq(p, 1, n - 1) = SubSeq(q, 1, n - 1)
    BY <1>1 DEF Above, Paths
  <2> QED BY <2>1, <2>2 DEF Precedes
<1>2. CASE Apart(p, q)
  <2>1. PICK n \in 1 .. Len(p) : n <= Len(q) /\ p[n] < q[n] /\ \A k \in 1 .. n - 1 : p[k] = q[k]
    BY <1>2 DEF Apart
  <2>2. SubSeq(p, 1, n - 1) = SubSeq(q, 1, n - 1)
    BY <2>1 DEF Paths
  <2> QED BY <2>1, <2>2 DEF Precedes, Paths
<1> QED BY <1>1, <1>2 DEF Earlier

\* It is another path.
LEMMA EarlierDiffers ==
  ASSUME NEW p \in Paths, NEW q \in Paths, Earlier(p, q)
  PROVE  p # q
BY DEF Earlier, Above, Apart, Paths

\* What is below paths that are apart is apart.
LEMMA ApartBelow ==
  ASSUME NEW p \in Paths, NEW q \in Paths, NEW r \in Paths, NEW s \in Paths,
         Apart(p, q), Below(r, p), Below(s, q)
  PROVE  Apart(r, s)
<1>1. PICK n \in 1 .. Len(p) : n <= Len(q) /\ p[n] < q[n] /\ \A k \in 1 .. n - 1 : p[k] = q[k]
  BY DEF Apart
<1>2. n \in 1 .. Len(r) /\ n <= Len(s) /\ r[n] = p[n] /\ s[n] = q[n]
  BY <1>1 DEF Below, Paths
<1>3. \A k \in 1 .. n - 1 : r[k] = s[k]
  <2> TAKE k \in 1 .. n - 1
  <2>1. k \in 1 .. Len(p) /\ k \in 1 .. Len(q) /\ p[k] = q[k]
    BY <1>1 DEF Paths
  <2> QED BY <2>1 DEF Below
<1> QED BY <1>1, <1>2, <1>3 DEF Apart

\* What comes earlier than a path comes earlier than what is below it.
LEMMA EarlierBelow ==
  ASSUME NEW p \in Paths, NEW q \in Paths, NEW r \in Paths, Earlier(p, q), Below(r, q)
  PROVE  Earlier(p, r)
<1>1. CASE Above(p, q)
  BY <1>1 DEF Above, Below, Earlier, Paths
<1>2. CASE Apart(p, q)
  <2>1. Below(p, p)
    BY DEF Below, Paths
  <2> QED BY <1>2, <2>1, ApartBelow DEF Earlier
<1> QED BY <1>1, <1>2 DEF Earlier

\* A child is below its directory; of two of them the one with the lesser name is earlier.
LEMMA ChildBelow ==
  ASSUME NEW p \in Paths, NEW c \in Paths \ {<<>>}, Front(c) = p
  PROVE  /\ Above(p, c) /\ Below(c, p) /\ Len(c) = Len(p) + 1 /\ Last(c) = c[Len(c)]
         /\ Last(c) \in Nat
BY DEF Above, Below, Paths, Front, Last

\* Of two entries of a directory the one with the lesser name is earlier.
LEMMA SiblingsApart ==
  ASSUME NEW p \in Paths, NEW c \in Paths \ {<<>>}, NEW d \in Paths \ {<<>>},
         Front(c) = p, Front(d) = p, Last(c) < Last(d)
  PROVE  Apart(c, d)
<1>1. Above(p, c) /\ Above(p, d) /\ Len(c) = Len(p) + 1 /\ Len(d) = Len(p) + 1
      /\ Last(c) = c[Len(c)] /\ Last(d) = d[Len(d)]
  BY ChildBelow
<1>2. Len(p) \in Nat
  BY DEF Paths
<1> QED BY <1>1, <1>2 DEF Apart, Above

\* Two entries of a directory with one name have one path.
LEMMA SiblingsSame ==
  ASSUME NEW c \in Paths \ {<<>>}, NEW d \in Paths \ {<<>>}, Front(c) = Front(d), Last(c) = Last(d)
  PROVE  c = d
<1> DEFINE p == Front(c)
<1>1. p \in Paths
  BY DEF Paths, Front
<1>2. Above(p, c) /\ Above(p, d) /\ Len(c) = Len(p) + 1 /\ Len(d) = Len(p) + 1
      /\ Last(c) = c[Len(c)] /\ Last(d) = d[Len(d)]
  BY <1>1, ChildBelow
<1>3. Len(p) \in Nat
  BY <1>1 DEF Paths
<1>4. \A k \in 1 .. Len(c) : c[k] = d[k]
  <2> TAKE k \in 1 .. Len(c)
  <2>1. CASE k \in 1 .. Len(p)
    BY <1>2, <2>1 DEF Above
  <2>2. CASE k = Len(c)
    BY <1>2, <2>2
  <2> QED BY <1>2, <1>3, <2>1, <2>2
<1> QED BY <1>2, <1>4 DEF Paths
-----------------------------------------------------------------------------
\* The nth of a set has n - 1 elements before it, so Sorted lists the set in order.
LEMMA SortedIs ==
  ASSUME NEW set, IsFiniteSet(set), NEW key, \A e \in set : key[e] \in Nat,
         \A d, e \in set : key[d] = key[e] => d = e
  PROVE  /\ Sorted(set, key) \in [1 .. Cardinality(set) -> set]
         /\ \A e \in set : \E n \in 1 .. Cardinality(set) : Sorted(set, key)[n] = e
         /\ \A m, n \in 1 .. Cardinality(set) : m < n => key[Sorted(set, key)[m]] < key[Sorted(set, key)[n]]
<1> DEFINE N == Cardinality(set)
           R == {pair \in set \X set : key[pair[1]] < key[pair[2]]}
           Before(e) == {d \in set : key[d] < key[e]}
<1>1. N \in Nat
  BY FS_CardinalityType
<1>2. StrictlyOrders(R, set)
  BY DEF StrictlyOrders
<1>3. PICK o : ListsInOrder(o, R, set)
  BY <1>2, ListExists
<1>4. o \in [1 .. N -> set] /\ \A m, n \in 1 .. N : m < n => key[o[m]] < key[o[n]]
  BY <1>3 DEF ListsInOrder
<1>5. \A e \in set : \E n \in 1 .. N : o[n] = e
  <2>1. \A m, n \in 1 .. N : o[m] = o[n] => m = n
    <3> SUFFICES ASSUME NEW m \in 1 .. N, NEW n \in 1 .. N, o[m] = o[n], m # n PROVE FALSE
      OBVIOUS
    <3>1. m < n \/ n < m
      BY <1>1
    <3>2. key[o[m]] \in Nat /\ key[o[n]] \in Nat
      BY <1>4
    <3> QED BY <1>4, <3>1, <3>2
  <2>2. o \in Injection(1 .. N, set)
    BY <1>4, <2>1 DEF Injection, IsInjective
  <2>3. IsFiniteSet(1 .. N) /\ Cardinality(1 .. N) = N
    BY <1>1, FS_Interval
  <2>4. o \in Surjection(1 .. N, set)
    BY <2>2, <2>3, FS_Injection
  <2> QED BY <2>4 DEF Surjection
<1>6. \A n \in 1 .. N : Cardinality(Before(o[n])) = n - 1
  <2> TAKE n \in 1 .. N
  <2>1. Before(o[n]) = {o[m] : m \in 1 .. n - 1}
    <3>1. ASSUME NEW d \in Before(o[n]) PROVE d \in {o[m] : m \in 1 .. n - 1}
      <4>1. PICK m \in 1 .. N : o[m] = d
        BY <1>5
      <4>2. m < n
        <5> SUFFICES ASSUME n <= m PROVE FALSE
          BY <1>1
        <5>1. key[o[n]] <= key[o[m]]
          BY <1>4
        <5> QED BY <5>1, <4>1, <1>4
      <4> QED BY <4>1, <4>2, <1>1
    <3>2. ASSUME NEW m \in 1 .. n - 1 PROVE o[m] \in Before(o[n])
      BY <1>1, <1>4
    <3> QED BY <3>1, <3>2
  <2> DEFINE g == [m \in 1 .. n - 1 |-> o[m]]
  <2>2. g \in Bijection(1 .. n - 1, Before(o[n]))
    <3>1. \A m, k \in 1 .. n - 1 : o[m] = o[k] => m = k
      <4> SUFFICES ASSUME NEW m \in 1 .. n - 1, NEW k \in 1 .. n - 1, o[m] = o[k], m # k PROVE FALSE
        OBVIOUS
      <4>1. m \in 1 .. N /\ k \in 1 .. N /\ (m < k \/ k < m)
        BY <1>1
      <4>2. key[o[m]] \in Nat /\ key[o[k]] \in Nat
        BY <1>4, <4>1
      <4> QED BY <1>4, <4>1, <4>2
    <3>2. g \in [1 .. n - 1 -> Before(o[n])] /\ \A d \in Before(o[n]) : \E m \in 1 .. n - 1 : g[m] = d
      BY <2>1
    <3> HIDE DEF Before
    <3> QED BY <3>1, <3>2 DEF Bijection, Injection, Surjection, IsInjective
  <2>3. n - 1 \in Nat /\ IsFiniteSet(1 .. n - 1) /\ Cardinality(1 .. n - 1) = n - 1
    <3>1. n - 1 \in Nat /\ n - 1 \in Int /\ 1 \in Int
      BY <1>1
    <3>2. IsFiniteSet(1 .. n - 1) /\ Cardinality(1 .. n - 1) = IF 1 > n - 1 THEN 0 ELSE (n - 1) - 1 + 1
      BY <3>1, FS_Interval
    <3> QED BY <3>1, <3>2
  <2> QED BY <2>2, <2>3, FS_Bijection DEF ExistsBijection
<1>7. \A n \in 1 .. N : Sorted(set, key)[n] = o[n]
  <2> TAKE n \in 1 .. N
  <2>1. o[n] \in set /\ Cardinality(Before(o[n])) = n - 1
    BY <1>4, <1>6
  <2>2. ASSUME NEW e \in set, Cardinality(Before(e)) = n - 1 PROVE e = o[n]
    <3>1. PICK m \in 1 .. N : o[m] = e
      BY <1>5
    <3>2. m - 1 = n - 1
      BY <1>6, <2>2, <3>1
    <3> QED BY <3>1, <3>2, <1>1
  <2>3. Sorted(set, key)[n] = CHOOSE e \in set : Cardinality(Before(e)) = n - 1
    BY DEF Sorted
  <2> HIDE DEF Before
  <2> QED BY <2>1, <2>2, <2>3
<1>8. Sorted(set, key) = [n \in 1 .. N |-> Sorted(set, key)[n]]
  BY DEF Sorted
<1>9. Sorted(set, key) = o
  BY <1>4, <1>7, <1>8
<1> QED BY <1>4, <1>5, <1>9

-----------------------------------------------------------------------------
\* The orders the argument is about: of a list, of two, and of what a list holds.
Spread(list) == \A m, n \in DOMAIN list : m < n => Apart(list[m].path, list[n].path)
InOrder(list) == \A m, n \in DOMAIN list : m < n => Earlier(list[m].path, list[n].path)
Ahead(done, list) ==
  \A m \in DOMAIN done : \A n \in DOMAIN list : Earlier(done[m].path, list[n].path)
Different(list) == \A m, n \in DOMAIN list : list[m] = list[n] => m = n

\* What has been in the checkout all the time is there with the directories it is in.
CheckoutOK ==
  /\ use \in Walks \union {"files", "mocks"} /\ rootHidden \in BOOLEAN
  /\ throughout \subseteq tree /\ tree \subseteq ever /\ ever \subseteq Entries
  /\ IsFiniteSet(tree)
  /\ \A e \in throughout : \A n \in 1 .. Len(e.path) - 1 :
       [path |-> SubSeq(e.path, 1, n), kind |-> "directory"] \in throughout

\* Walks walk and lists are read, and at the end nothing is left to visit.
StageOK ==
  /\ stage \in {"start", "walk", "read", "ok", "error"}
  /\ stage = "walk" => use \in Walks
  /\ stage = "read" => use \notin Walks
  /\ stage = "start" => toVisit = <<>> /\ found = <<>>
  /\ stage = "ok" => toVisit = <<>>

\* What is still to be visited is not in a hidden directory, or is what was listed.
VisitOK ==
  /\ toVisit \in Seq(ever \union {Root})
  /\ \A n \in DOMAIN toVisit :
       /\ use \in Walks => Range(Front(toVisit[n].path)) \intersect Hidden = {}
       /\ use = "files" => toVisit[n] \in Matching
       /\ use = "mocks" => Wanted(toVisit[n])

\* What was found is what it is collected for.
FoundOK ==
  /\ found \in Seq(ever)
  /\ \A n \in DOMAIN found :
       Wanted(found[n]) /\ (use \notin Walks => found[n].kind # "dangling")

\* Everything in order: what was found comes before what is still to be visited.
OrderOK ==
  /\ use # "files" =>
       /\ Spread(toVisit) /\ Ahead(found, toVisit)
       /\ ~(stage = "ok" /\ use = "manifests") => InOrder(found)
  /\ use = "files" =>
       /\ Different(toVisit) /\ Different(found)
       /\ \A m \in DOMAIN found : \A n \in DOMAIN toVisit : found[m] # toVisit[n]

\* Manifests are sorted once more at the end.
SortedOK ==
  stage = "ok" /\ use = "manifests" =>
    \A m, n \in DOMAIN found : m < n => PathRank[found[m]] < PathRank[found[n]]

\* The walk will come to e, or the list holds it.
Awaited(e) ==
  \E n \in DOMAIN toVisit :
    IF use \in Walks THEN Below(e.path, toVisit[n].path) ELSE toVisit[n] = e

\* Nothing is passed over: what is wanted has been found, or is still to come.
CompleteOK ==
  ~(use = "directories" /\ rootHidden) /\ stage \notin {"start", "error"} =>
    \A e \in throughout : Wanted(e) => e \in Range(found) \/ Awaited(e)

\* The argument for all four ways of collecting.
CollectInv ==
  /\ CheckoutOK /\ StageOK /\ VisitOK /\ FoundOK /\ OrderOK /\ SortedOK /\ CompleteOK

\* Where a walk may be.
Places == Entries \union {Root}

-----------------------------------------------------------------------------
\* Entries and the root have paths of their own.
LEMMA PlaceFacts ==
  /\ \A e \in Places : e.path \in Paths
  /\ \A e \in Entries : e.path \in Paths \ {<<>>} /\ e.kind \in Kinds /\ e # Root
  /\ \A e, f \in Places : e.path = f.path => e = f
  /\ Root.path = <<>> /\ Root.kind = "directory"
<1>1. \A e \in Entries : e.path \in Paths \ {<<>>} /\ e.kind \in Kinds
  BY EntryAssumption DEF Paths
<1>2. Root.path = <<>> /\ Root.kind = "directory" /\ <<>> \in Paths
  BY DEF Root, Paths
<1>3. \A e \in Entries : e # Root /\ e.path # Root.path
  BY <1>1, <1>2
<1>4. \A e, f \in Entries : e.path = f.path => e = f
  BY EntryAssumption
<1> QED BY <1>1, <1>2, <1>3, <1>4 DEF Places

\* What comes after the first.
LEMMA RestIs ==
  ASSUME NEW S, NEW t \in Seq(S), t # <<>>
  PROVE  /\ 1 \in DOMAIN t /\ Head(t) = t[1] /\ Head(t) \in S /\ Tail(t) \in Seq(S)
         /\ \A n \in DOMAIN Tail(t) : n + 1 \in DOMAIN t /\ Tail(t)[n] = t[n + 1] /\ n \in Nat /\ 1 < n + 1
         /\ \A n \in DOMAIN t : n = 1 \/ (n - 1 \in DOMAIN Tail(t) /\ Tail(t)[n - 1] = t[n])
OBVIOUS

\* The places in two lists put together.
LEMMA ConcatPlaces ==
  ASSUME NEW S, NEW a \in Seq(S), NEW b \in Seq(S)
  PROVE  /\ a \o b \in Seq(S)
         /\ \A n \in DOMAIN (a \o b) :
              \/ n \in DOMAIN a /\ (a \o b)[n] = a[n]
              \/ n > Len(a) /\ n - Len(a) \in DOMAIN b /\ (a \o b)[n] = b[n - Len(a)]
         /\ \A n \in DOMAIN a : n \in DOMAIN (a \o b) /\ (a \o b)[n] = a[n]
         /\ \A n \in DOMAIN b : Len(a) + n \in DOMAIN (a \o b) /\ (a \o b)[Len(a) + n] = b[n]
         /\ DOMAIN (a \o b) \subseteq Nat /\ DOMAIN a = 1 .. Len(a) /\ Len(a) \in Nat
OBVIOUS

\* What a list something was appended to holds, and where.
LEMMA AppendPlaces ==
  ASSUME NEW S, NEW a \in Seq(S), NEW x \in S
  PROVE  /\ Append(a, x) \in Seq(S) /\ Range(Append(a, x)) = Range(a) \union {x}
         /\ \A n \in DOMAIN Append(a, x) :
              \/ n \in DOMAIN a /\ Append(a, x)[n] = a[n]
              \/ n = Len(a) + 1 /\ Append(a, x)[n] = x
         /\ DOMAIN a = 1 .. Len(a) /\ Len(a) \in Nat
         /\ DOMAIN Append(a, x) = 1 .. Len(a) + 1
<1>1. /\ Append(a, x) \in Seq(S) /\ DOMAIN a = 1 .. Len(a) /\ Len(a) \in Nat
      /\ DOMAIN Append(a, x) = 1 .. Len(a) + 1
      /\ \A n \in 1 .. Len(a) : Append(a, x)[n] = a[n]
      /\ Append(a, x)[Len(a) + 1] = x
  OBVIOUS
<1>2. Range(Append(a, x)) = Range(a) \union {x}
  <2>1. ASSUME NEW y \in Range(Append(a, x)) PROVE y \in Range(a) \union {x}
    <3>1. PICK n \in 1 .. Len(a) + 1 : Append(a, x)[n] = y
      BY <1>1, <2>1 DEF Range
    <3>2. n = Len(a) + 1 \/ n \in 1 .. Len(a)
      BY <1>1
    <3> QED BY <1>1, <3>1, <3>2 DEF Range
  <2>2. ASSUME NEW y \in Range(a) \union {x} PROVE y \in Range(Append(a, x))
    <3>1. CASE y \in Range(a)
      <4>1. PICK n \in 1 .. Len(a) : a[n] = y
        BY <1>1, <3>1 DEF Range
      <4> QED BY <1>1, <4>1 DEF Range
    <3>2. CASE y = x
      <4>1. Len(a) + 1 \in 1 .. Len(a) + 1
        BY <1>1
      <4> QED BY <1>1, <3>2, <4>1 DEF Range
    <3> QED BY <2>2, <3>1, <3>2
  <2> QED BY <2>1, <2>2
<1> QED BY <1>1, <1>2

-----------------------------------------------------------------------------
\* The first of what is to be visited may be found, and what is in it comes in its place:
\* the order stays.
LEMMA OrderStep ==
  ASSUME NEW f \in Seq(Entries), NEW t \in Seq(Places), t # <<>>, NEW new \in Seq(Entries),
         Spread(t), Ahead(f, t), InOrder(f), Spread(new),
         \A k \in DOMAIN new : Above(Head(t).path, new[k].path),
         NEW g, g = f \/ (Head(t) \in Entries /\ g = Append(f, Head(t)))
  PROVE  Spread(new \o Tail(t)) /\ Ahead(g, new \o Tail(t)) /\ InOrder(g)
<1> DEFINE h == Head(t)
           r == Tail(t)
           u == new \o r
<1>1. /\ 1 \in DOMAIN t /\ h = t[1] /\ h \in Places /\ r \in Seq(Places)
      /\ \A n \in DOMAIN r : n + 1 \in DOMAIN t /\ r[n] = t[n + 1] /\ n \in Nat /\ 1 < n + 1
  BY RestIs
<1>2. /\ u \in Seq(Places)
      /\ \A n \in DOMAIN u :
           \/ n \in DOMAIN new /\ u[n] = new[n]
           \/ n > Len(new) /\ n - Len(new) \in DOMAIN r /\ u[n] = r[n - Len(new)]
      /\ DOMAIN u \subseteq Nat /\ DOMAIN new = 1 .. Len(new) /\ Len(new) \in Nat
  <2>1. new \in Seq(Places)
    BY DEF Places
  <2> HIDE DEF r
  <2> QED BY <1>1, <2>1, ConcatPlaces
<1> HIDE DEF r, u
<1>3. \A k \in DOMAIN new : Above(h.path, new[k].path) /\ Below(new[k].path, h.path)
                            /\ new[k].path \in Paths
  BY PlaceFacts DEF Above, Below
<1>4. h.path \in Paths /\ \A n \in DOMAIN r : r[n] \in Places /\ r[n].path \in Paths
  BY <1>1, PlaceFacts
<1>5. \A n \in DOMAIN r : Apart(h.path, r[n].path)
  BY <1>1 DEF Spread
<1>6. \A k \in DOMAIN new : \A n \in DOMAIN r : Apart(new[k].path, r[n].path)
  <2> TAKE k \in DOMAIN new
  <2> TAKE n \in DOMAIN r
  <2>1. Below(r[n].path, r[n].path)
    BY <1>4 DEF Below, Paths
  <2> QED BY <1>3, <1>4, <1>5, <2>1, ApartBelow
<1>7. Spread(u)
  <2> SUFFICES ASSUME NEW m \in DOMAIN u, NEW n \in DOMAIN u, m < n PROVE Apart(u[m].path, u[n].path)
    BY DEF Spread
  <2>1. CASE m \in DOMAIN new /\ u[m] = new[m] /\ n \in DOMAIN new /\ u[n] = new[n]
    BY <2>1 DEF Spread
  <2>2. CASE m \in DOMAIN new /\ u[m] = new[m] /\ n - Len(new) \in DOMAIN r /\ u[n] = r[n - Len(new)]
    BY <2>2, <1>6
  <2>3. CASE /\ m - Len(new) \in DOMAIN r /\ u[m] = r[m - Len(new)]
             /\ n - Len(new) \in DOMAIN r /\ u[n] = r[n - Len(new)]
    <3>1. (m - Len(new)) + 1 < (n - Len(new)) + 1
      BY <1>2
    <3> QED BY <1>1, <2>3, <3>1 DEF Spread
  <2>4. ~(m > Len(new) /\ n \in DOMAIN new)
    BY <1>2
  <2> QED BY <1>2, <2>1, <2>2, <2>3, <2>4
<1>8. Ahead(f, u)
  <2> SUFFICES ASSUME NEW m \in DOMAIN f, NEW n \in DOMAIN u PROVE Earlier(f[m].path, u[n].path)
    BY DEF Ahead
  <2>1. f[m].path \in Paths /\ Earlier(f[m].path, h.path)
    BY <1>1, PlaceFacts DEF Ahead
  <2>2. CASE n \in DOMAIN new /\ u[n] = new[n]
    BY <1>3, <1>4, <2>1, <2>2, EarlierBelow
  <2>3. CASE n - Len(new) \in DOMAIN r /\ u[n] = r[n - Len(new)]
    BY <1>1, <2>3 DEF Ahead
  <2> QED BY <1>2, <2>2, <2>3
<1>9. ASSUME Head(t) \in Entries, g = Append(f, Head(t)) PROVE Ahead(g, u) /\ InOrder(g)
  <2>1. /\ \A n \in DOMAIN g : (n \in DOMAIN f /\ g[n] = f[n]) \/ (n = Len(f) + 1 /\ g[n] = h)
        /\ DOMAIN f = 1 .. Len(f) /\ Len(f) \in Nat /\ DOMAIN g = 1 .. Len(f) + 1
    <3> DEFINE G == Append(f, Head(t))
    <3>1. /\ \A n \in DOMAIN G : (n \in DOMAIN f /\ G[n] = f[n]) \/ (n = Len(f) + 1 /\ G[n] = Head(t))
          /\ DOMAIN f = 1 .. Len(f) /\ Len(f) \in Nat /\ DOMAIN G = 1 .. Len(f) + 1
      <4> HIDE DEF h
      <4>1. Head(t) \in Entries
        BY <1>9
      <4> QED BY <4>1, AppendPlaces
    <3>2. g = G
      BY <1>9
    <3> HIDE DEF G
    <3> QED BY <3>1, <3>2
  <2>2. \A n \in DOMAIN u : Earlier(h.path, u[n].path)
    BY <1>2, <1>3, <1>5 DEF Earlier
  <2>3. \A m \in DOMAIN f : Earlier(f[m].path, h.path)
    BY <1>1 DEF Ahead
  <2>4. Ahead(g, u)
    BY <1>8, <2>1, <2>2 DEF Ahead
  <2>5. InOrder(g)
    <3> SUFFICES ASSUME NEW m \in DOMAIN g, NEW n \in DOMAIN g, m < n PROVE Earlier(g[m].path, g[n].path)
      BY DEF InOrder
    <3>1. m \in DOMAIN f /\ g[m] = f[m]
      BY <2>1
    <3> QED BY <2>1, <2>3, <3>1 DEF InOrder
  <2> QED BY <2>4, <2>5
<1> QED BY <1>7, <1>8, <1>9 DEF u, r

-----------------------------------------------------------------------------
\* What is in a directory, listed by name: each below it and apart from the others.
LEMMA ByNameIs ==
  ASSUME CheckoutOK, NEW e \in Places, NEW set, set \subseteq Children(e)
  PROVE  /\ ByName(set) \in Seq(set) /\ ByName(set) \in Seq(Entries)
         /\ \A c \in set : \E k \in DOMAIN ByName(set) : ByName(set)[k] = c
         /\ Spread(ByName(set))
         /\ \A k \in DOMAIN ByName(set) : Above(e.path, ByName(set)[k].path)
<1> DEFINE key == [c \in set |-> Last(c.path)]
           new == ByName(set)
           N == Cardinality(set)
<1>1. e.path \in Paths /\ set \subseteq Entries /\ IsFiniteSet(set) /\ N \in Nat
      /\ \A c \in set : c.path \in Paths \ {<<>>} /\ Front(c.path) = e.path
  <2>1. set \subseteq tree /\ tree \subseteq Entries /\ \A c \in set : Front(c.path) = e.path
    BY DEF Children, CheckoutOK
  <2>2. IsFiniteSet(set)
    BY <2>1, FS_Subset DEF CheckoutOK
  <2> QED BY <2>1, <2>2, PlaceFacts, FS_CardinalityType
<1>2. \A c \in set : key[c] = Last(c.path) /\ key[c] \in Nat /\ Above(e.path, c.path)
  BY <1>1, ChildBelow
<1>3. \A c, d \in set : key[c] = key[d] => c = d
  <2> SUFFICES ASSUME NEW c \in set, NEW d \in set, key[c] = key[d] PROVE c = d
    OBVIOUS
  <2>1. c.path = d.path
    BY <1>1, SiblingsSame
  <2>2. c \in Places /\ d \in Places
    BY <1>1 DEF Places
  <2> QED BY <2>1, <2>2, PlaceFacts
<1>4. /\ new \in [1 .. N -> set]
      /\ \A c \in set : \E k \in 1 .. N : new[k] = c
      /\ \A m, n \in 1 .. N : m < n => key[new[m]] < key[new[n]]
  <2>1. new = Sorted(set, key)
    BY DEF ByName
  <2> HIDE DEF key, new
  <2> QED BY <1>1, <1>2, <1>3, <2>1, SortedIs
<1> HIDE DEF key, new, N
<1>5. new \in Seq(set) /\ new \in Seq(Entries) /\ DOMAIN new = 1 .. N
  BY <1>1, <1>4
<1>6. Spread(new)
  <2> SUFFICES ASSUME NEW m \in 1 .. N, NEW n \in 1 .. N, m < n PROVE Apart(new[m].path, new[n].path)
    BY <1>5 DEF Spread
  <2>1. Last(new[m].path) < Last(new[n].path) /\ new[m] \in set /\ new[n] \in set
    BY <1>2, <1>4
  <2> QED BY <1>1, <2>1, SiblingsApart
<1> QED BY <1>2, <1>4, <1>5, <1>6 DEF new

\* What is wanted depends on what it is collected for only.
LEMMA WantedStays ==
  ASSUME use' = use
  PROVE  \A e : Wanted(e)' <=> Wanted(e)
BY DEF Wanted

\* A walk goes on: to what is in the first, or past it.
LEMMA WalkStep ==
  ASSUME CollectInv, stage = "walk", toVisit # <<>>, UNCHANGED <<checkout, stage>>,
         NEW new \in Seq(Entries), Spread(new),
         \A k \in DOMAIN new :
           /\ new[k] \in tree /\ Above(entry.path, new[k].path)
           /\ Range(Front(new[k].path)) \intersect Hidden = {},
         toVisit' = new \o Tail(toVisit),
         found' = found \/ (entry \in Entries /\ Wanted(entry) /\ found' = Append(found, entry)),
         \A e \in throughout :
           Wanted(e) /\ ~(use = "directories" /\ rootHidden) /\ Below(e.path, entry.path) =>
             \/ e = entry /\ found' = Append(found, entry)
             \/ \E k \in DOMAIN new : Below(e.path, new[k].path)
  PROVE  CollectInv'
<1> DEFINE r == Tail(toVisit)
<1>1. CheckoutOK /\ StageOK /\ VisitOK /\ FoundOK /\ OrderOK /\ CompleteOK
  BY DEF CollectInv
<1>2. use \in Walks /\ use # "files" /\ use # "mocks"
  BY <1>1 DEF StageOK, Walks
<1>3. /\ use' = use /\ rootHidden' = rootHidden /\ tree' = tree /\ throughout' = throughout
      /\ ever' = ever /\ stage' = "walk"
  BY DEF checkout
<1>4. CheckoutOK'
  BY <1>1, <1>3 DEF CheckoutOK
<1>5. StageOK' /\ SortedOK'
  BY <1>2, <1>3 DEF StageOK, SortedOK
<1>6. /\ 1 \in DOMAIN toVisit /\ entry = toVisit[1] /\ entry \in ever \union {Root} /\ r \in Seq(ever \union {Root})
      /\ \A n \in DOMAIN r : n + 1 \in DOMAIN toVisit /\ r[n] = toVisit[n + 1] /\ n \in Nat /\ 1 < n + 1
      /\ \A n \in DOMAIN toVisit : n = 1 \/ (n - 1 \in DOMAIN r /\ r[n - 1] = toVisit[n])
  BY <1>1, RestIs DEF VisitOK, entry
<1>7. /\ new \in Seq(ever \union {Root}) /\ toVisit' \in Seq(ever \union {Root})
      /\ \A n \in DOMAIN toVisit' :
           \/ n \in DOMAIN new /\ toVisit'[n] = new[n]
           \/ n - Len(new) \in DOMAIN r /\ toVisit'[n] = r[n - Len(new)]
      /\ \A n \in DOMAIN new : n \in DOMAIN toVisit' /\ toVisit'[n] = new[n]
      /\ \A n \in DOMAIN r : Len(new) + n \in DOMAIN toVisit' /\ toVisit'[Len(new) + n] = r[n]
  <2>1. \A k \in DOMAIN new : new[k] \in ever \union {Root}
    BY <1>1 DEF CheckoutOK
  <2>2. new \in Seq(ever \union {Root})
    BY <2>1
  <2> HIDE DEF r
  <2>3. toVisit' = new \o r
    BY DEF r
  <2> DEFINE u == new \o r
  <2>4. /\ u \in Seq(ever \union {Root})
        /\ \A n \in DOMAIN u :
             \/ n \in DOMAIN new /\ u[n] = new[n]
             \/ n - Len(new) \in DOMAIN r /\ u[n] = r[n - Len(new)]
        /\ \A n \in DOMAIN new : n \in DOMAIN u /\ u[n] = new[n]
        /\ \A n \in DOMAIN r : Len(new) + n \in DOMAIN u /\ u[Len(new) + n] = r[n]
    BY <1>6, <2>2, ConcatPlaces
  <2>5. toVisit' = u
    BY <2>3
  <2> HIDE DEF u
  <2> QED BY <2>2, <2>4, <2>5
<1>8. VisitOK'
  <2> SUFFICES ASSUME NEW n \in DOMAIN toVisit'
               PROVE  Range(Front(toVisit'[n].path)) \intersect Hidden = {}
    BY <1>2, <1>3, <1>7 DEF VisitOK
  <2>1. CASE n \in DOMAIN new /\ toVisit'[n] = new[n]
    BY <2>1
  <2>2. CASE n - Len(new) \in DOMAIN r /\ toVisit'[n] = r[n - Len(new)]
    BY <1>1, <1>2, <1>6, <2>2 DEF VisitOK
  <2> QED BY <1>7, <2>1, <2>2
<1>9. entry \in Entries => entry \in ever
  BY <1>6, PlaceFacts
<1>10. FoundOK'
  <2>1. CASE found' = found
    BY <1>1, <1>3, <2>1, WantedStays DEF FoundOK
  <2>2. CASE entry \in Entries /\ Wanted(entry) /\ found' = Append(found, entry)
    <3>1. found \in Seq(ever)
      BY <1>1 DEF FoundOK
    <3>2. found' \in Seq(ever) /\ \A n \in DOMAIN found' : found'[n] = entry \/ (n \in DOMAIN found /\ found'[n] = found[n])
      BY <1>9, <2>2, <3>1, AppendPlaces
    <3>3. \A n \in DOMAIN found' : Wanted(found'[n])
      BY <1>1, <2>2, <3>2 DEF FoundOK
    <3> QED BY <1>2, <1>3, <3>2, <3>3, WantedStays DEF FoundOK
  <2> QED BY <2>1, <2>2
<1>11. OrderOK'
  <2>1. found \in Seq(Entries) /\ toVisit \in Seq(Places)
    BY <1>1 DEF FoundOK, VisitOK, CheckoutOK, Places
  <2>2. Spread(toVisit) /\ Ahead(found, toVisit) /\ InOrder(found)
    BY <1>1, <1>2 DEF OrderOK
  <2>3. Spread(toVisit') /\ Ahead(found', toVisit') /\ InOrder(found')
    BY <2>1, <2>2, OrderStep DEF entry
  <2> QED BY <1>2, <1>3, <2>3 DEF OrderOK, Spread, Ahead, InOrder
<1>12. CompleteOK'
  <2> SUFFICES ASSUME ~(use = "directories" /\ rootHidden), NEW e \in throughout, Wanted(e)
               PROVE  e \in Range(found') \/ Awaited(e)'
    BY <1>3, WantedStays DEF CompleteOK
  <2>1. e \in Range(found) \/ Awaited(e)
    BY <1>1 DEF CompleteOK
  <2>2. Range(found) \subseteq Range(found') /\ (found' = Append(found, entry) => entry \in Range(found') \/ entry = Root)
    <3>1. CASE found' = found /\ found' # Append(found, entry)
      BY <3>1
    <3>2. CASE found' = Append(found, entry)
      <4>1. found \in Seq(ever \union {Root})
        BY <1>1 DEF FoundOK
      <4> QED BY <1>6, <3>2, <4>1, AppendPlaces
    <3> QED BY <3>1, <3>2
  <2>3. CASE e \in Range(found)
    BY <2>2, <2>3
  <2>4. CASE Awaited(e)
    <3>1. PICK n \in DOMAIN toVisit : Below(e.path, toVisit[n].path)
      BY <1>2, <2>4 DEF Awaited
    <3>2. CASE n = 1
      <4>1. Below(e.path, entry.path)
        BY <1>6, <3>1, <3>2
      <4>2. CASE e = entry /\ found' = Append(found, entry)
        <5>1. e # Root
          BY <1>1, PlaceFacts DEF CheckoutOK
        <5> QED BY <2>2, <4>2, <5>1
      <4>3. CASE \E k \in DOMAIN new : Below(e.path, new[k].path)
        BY <1>2, <1>3, <1>7, <4>3 DEF Awaited
      <4> QED BY <4>1, <4>2, <4>3
    <3>3. CASE n - 1 \in DOMAIN r /\ r[n - 1] = toVisit[n]
      BY <1>2, <1>3, <1>7, <3>1, <3>3 DEF Awaited
    <3> QED BY <1>6, <3>2, <3>3
  <2> QED BY <2>1, <2>3, <2>4
<1> QED BY <1>4, <1>5, <1>8, <1>10, <1>11, <1>12 DEF CollectInv

-----------------------------------------------------------------------------
\* Paths as long, with the same names, are the same.
LEMMA SamePath ==
  ASSUME NEW p \in Paths, NEW q \in Paths, Len(p) = Len(q), \A k \in 1 .. Len(q) : p[k] = q[k]
  PROVE  p = q
BY DEF Paths

\* A path without its last name.
LEMMA FrontIs ==
  ASSUME NEW p \in Paths \ {<<>>}
  PROVE  /\ Front(p) \in Paths /\ Len(Front(p)) = Len(p) - 1 /\ Last(p) = p[Len(p)]
         /\ \A k \in 1 .. Len(p) - 1 : Front(p)[k] = p[k]
         /\ DOMAIN p = 1 .. Len(p) /\ DOMAIN Front(p) = 1 .. Len(p) - 1 /\ Len(p) \in Nat /\ Len(p) > 0
<1>1. Len(p) \in Nat /\ Len(p) > 0 /\ DOMAIN p = 1 .. Len(p)
  BY DEF Paths
<1>2. Front(p) \in Paths /\ Len(Front(p)) = Len(p) - 1
      /\ \A k \in 1 .. Len(p) - 1 : Front(p)[k] = p[k]
  <2> DEFINE m == Len(p) - 1
  <2>1. m \in Nat /\ m <= Len(p) /\ p \in Seq(Nat)
    BY <1>1 DEF Paths
  <2>2. Front(p) = SubSeq(p, 1, m)
    BY DEF Front
  <2> HIDE DEF m
  <2>3. /\ SubSeq(p, 1, m) \in Seq(Nat) /\ Len(SubSeq(p, 1, m)) = m
        /\ \A k \in 1 .. m : SubSeq(p, 1, m)[k] = p[k]
    BY <2>1
  <2> QED BY <2>2, <2>3 DEF Paths, m
<1>3. DOMAIN Front(p) = 1 .. Len(Front(p))
  BY <1>2 DEF Paths
<1> QED BY <1>1, <1>2, <1>3 DEF Last

\* The names on a path are those on the way to its last, and its last.
LEMMA NamesOf ==
  ASSUME NEW p \in Paths \ {<<>>}
  PROVE  Range(p) = Range(Front(p)) \union {Last(p)} /\ Front(p) \in Paths /\ Len(Front(p)) = Len(p) - 1
<1>1. /\ Front(p) \in Paths /\ Len(Front(p)) = Len(p) - 1 /\ Last(p) = p[Len(p)]
      /\ \A k \in 1 .. Len(p) - 1 : Front(p)[k] = p[k]
      /\ DOMAIN p = 1 .. Len(p) /\ DOMAIN Front(p) = 1 .. Len(p) - 1 /\ Len(p) \in Nat /\ Len(p) > 0
  BY FrontIs
<1>2. ASSUME NEW x \in Range(p) PROVE x \in Range(Front(p)) \union {Last(p)}
  <2>1. PICK k \in 1 .. Len(p) : p[k] = x
    BY <1>1, <1>2 DEF Range
  <2>2. k = Len(p) \/ k \in 1 .. Len(p) - 1
    BY <1>1
  <2> QED BY <1>1, <2>1, <2>2 DEF Range
<1>3. ASSUME NEW x \in Range(Front(p)) \union {Last(p)} PROVE x \in Range(p)
  <2>1. CASE x \in Range(Front(p))
    <3>1. PICK k \in 1 .. Len(p) - 1 : Front(p)[k] = x
      BY <1>1, <2>1 DEF Range
    <3>2. k \in 1 .. Len(p) /\ p[k] = x
      BY <1>1, <3>1
    <3> QED BY <1>1, <3>2 DEF Range
  <2>2. CASE x = Last(p)
    BY <1>1, <2>2 DEF Range
  <2> QED BY <1>3, <2>1, <2>2
<1> QED BY <1>1, <1>2, <1>3

\* The last name of a path is one of those on the paths below it.
LEMMA NameBelow ==
  ASSUME NEW p \in Paths \ {<<>>}, NEW q \in Paths, Below(q, p)
  PROVE  Last(p) \in Range(q) /\ (Len(p) < Len(q) => Last(p) \in Range(Front(q)))
<1>1. /\ Last(p) = p[Len(p)] /\ Len(p) \in 1 .. Len(q) /\ q[Len(p)] = p[Len(p)]
      /\ DOMAIN q = 1 .. Len(q) /\ Len(p) \in Nat /\ Len(q) \in Nat
  BY DEF Below, Last, Paths
<1>2. Last(p) \in Range(q)
  BY <1>1 DEF Range
<1>3. ASSUME Len(p) < Len(q) PROVE Last(p) \in Range(Front(q))
  <2>1. Len(p) \in 1 .. Len(q) - 1
    BY <1>1, <1>3
  <2>2. DOMAIN Front(q) = 1 .. Len(q) - 1 /\ \A k \in 1 .. Len(q) - 1 : Front(q)[k] = q[k]
    BY <1>1 DEF Front, Paths
  <2> QED BY <1>1, <2>1, <2>2 DEF Range
<1> QED BY <1>2, <1>3

\* A path as long as one it is below is that path.
LEMMA BelowSame ==
  ASSUME NEW p \in Paths, NEW q \in Paths, Below(q, p), ~(Len(p) < Len(q))
  PROVE  q = p
BY DEF Below, Paths

\* The directories an entry is in were there as long as it was.
LEMMA AncestorIs ==
  ASSUME CheckoutOK, NEW e \in throughout, NEW n \in 1 .. Len(e.path) - 1
  PROVE  LET d == [path |-> SubSeq(e.path, 1, n), kind |-> "directory"]
         IN  /\ d \in throughout /\ d.kind = "directory" /\ d.path \in Paths /\ Len(d.path) = n
             /\ \A k \in 1 .. n : d.path[k] = e.path[k]
             /\ Below(e.path, d.path)
<1> DEFINE d == [path |-> SubSeq(e.path, 1, n), kind |-> "directory"]
<1>1. d \in throughout /\ d.kind = "directory" /\ d.path = SubSeq(e.path, 1, n)
  BY DEF CheckoutOK
<1>2. e.path \in Paths
  BY PlaceFacts DEF CheckoutOK
<1>3. d.path \in Paths /\ Len(d.path) = n /\ \A k \in 1 .. n : d.path[k] = e.path[k]
  BY <1>1, <1>2 DEF Paths
<1>4. Below(e.path, d.path)
  BY <1>2, <1>3 DEF Below, Paths
<1> HIDE DEF d
<1> QED BY <1>1, <1>3, <1>4 DEF d

\* Where the walk is.
LEMMA EntryIs ==
  ASSUME CollectInv, Visiting
  PROVE  /\ stage = "walk" /\ toVisit # <<>> /\ use \in {"manifests", "directories"}
         /\ entry \in Places /\ entry.path \in Paths /\ (entry # Root => entry \in Entries /\ entry.path # <<>>)
         /\ Range(Front(entry.path)) \intersect Hidden = {}
         /\ throughout \subseteq Entries /\ <<>> \o Tail(toVisit) = Tail(toVisit)
         /\ \A e \in throughout : e.path \in Paths /\ e \in Places
<1>1. VisitOK /\ StageOK /\ CheckoutOK
  BY DEF CollectInv
<1>2. stage = "walk" /\ toVisit # <<>> /\ use \in Walks
  BY <1>1 DEF Visiting, StageOK
<1>3. toVisit \in Seq(ever \union {Root}) /\ ever \union {Root} \subseteq Places
  BY <1>1 DEF VisitOK, CheckoutOK, Places
<1>4. 1 \in DOMAIN toVisit /\ entry = toVisit[1] /\ entry \in Places
  BY <1>2, <1>3, RestIs DEF entry
<1>5. <<>> \o Tail(toVisit) = Tail(toVisit)
  BY <1>2, <1>3
<1>6. throughout \subseteq Entries /\ throughout \subseteq Places
  BY <1>1 DEF CheckoutOK, Places
<1>7. Range(Front(entry.path)) \intersect Hidden = {}
  BY <1>1, <1>2, <1>4 DEF VisitOK
<1> QED BY <1>2, <1>4, <1>5, <1>6, <1>7, PlaceFacts DEF Walks, Places

\* A hidden directory is passed over: nothing in it is wanted.
LEMMA SkipHiddenCollects == CollectInv /\ SkipHidden => CollectInv'
<1> SUFFICES ASSUME CollectInv, SkipHidden PROVE CollectInv'
  OBVIOUS
<1>1. Visiting /\ Skipped /\ toVisit' = Tail(toVisit) /\ found' = found /\ UNCHANGED <<checkout, stage>>
  BY DEF SkipHidden
<1>2. /\ stage = "walk" /\ toVisit # <<>> /\ use \in {"manifests", "directories"}
      /\ entry \in Places /\ entry.path \in Paths /\ (entry # Root => entry \in Entries /\ entry.path # <<>>)
      /\ <<>> \o Tail(toVisit) = Tail(toVisit)
      /\ \A e \in throughout : e.path \in Paths /\ e \in Places
  BY <1>1, EntryIs
<1>3. ASSUME NEW e \in throughout, Wanted(e), ~(use = "directories" /\ rootHidden),
             Below(e.path, entry.path)
      PROVE  FALSE
  <2>1. CASE entry = Root
    BY <1>1, <1>2, <1>3, <2>1 DEF Skipped, hidden
  <2>2. CASE entry # Root
    <3>1. Last(entry.path) \in Hidden /\ entry.kind = "directory"
      BY <1>1, <2>2 DEF Skipped, hidden, isDir
    <3>2. Last(entry.path) \in Range(e.path)
          /\ (Len(entry.path) < Len(e.path) => Last(entry.path) \in Range(Front(e.path)))
      BY <1>2, <1>3, <2>2, NameBelow
    <3>3. Last(entry.path) \notin DirectoryNames(e)
      BY <1>2, <1>3, <3>1 DEF Wanted, InSight
    <3>4. e.kind # "directory" /\ use = "manifests" /\ ~(Len(entry.path) < Len(e.path))
      BY <1>2, <1>3, <3>2, <3>3 DEF DirectoryNames, Wanted
    <3>5. e = entry
      BY <1>2, <1>3, <3>4, BelowSame, PlaceFacts
    <3> QED BY <3>1, <3>4, <3>5
  <2> QED BY <2>1, <2>2
<1> DEFINE new == <<>>
<1>4. new \in Seq(Entries) /\ DOMAIN new = {} /\ Spread(new)
  BY DEF Spread
<1>5. toVisit' = new \o Tail(toVisit)
  BY <1>1, <1>2
<1> HIDE DEF new
<1> QED BY <1>1, <1>2, <1>3, <1>4, <1>5, WalkStep

\* A file is collected if it is wanted, and nothing is below it.
LEMMA VisitFileCollects == CollectInv /\ VisitFile => CollectInv'
<1> SUFFICES ASSUME CollectInv, VisitFile PROVE CollectInv'
  OBVIOUS
<1>1. /\ Visiting /\ entry.kind # "directory" /\ toVisit' = Tail(toVisit) /\ UNCHANGED <<checkout, stage>>
      /\ found' = IF use = "manifests" /\ entry.kind # "other" THEN Append(found, entry) ELSE found
  BY DEF VisitFile, isDir
<1>2. /\ stage = "walk" /\ toVisit # <<>> /\ use \in {"manifests", "directories"}
      /\ entry \in Places /\ entry.path \in Paths /\ (entry # Root => entry \in Entries /\ entry.path # <<>>)
      /\ Range(Front(entry.path)) \intersect Hidden = {}
      /\ <<>> \o Tail(toVisit) = Tail(toVisit)
      /\ \A e \in throughout : e.path \in Paths /\ e \in Places
  BY <1>1, EntryIs
<1>3. entry \in Entries /\ entry.path # <<>> /\ entry.kind \in {"yaml", "other", "dangling"}
  BY <1>1, <1>2, PlaceFacts DEF Kinds
<1>4. found' = found \/ (entry \in Entries /\ Wanted(entry) /\ found' = Append(found, entry))
  BY <1>1, <1>2, <1>3 DEF Wanted, InSight, DirectoryNames
<1>5. ASSUME NEW e \in throughout, Wanted(e), Below(e.path, entry.path)
      PROVE  e = entry /\ found' = Append(found, entry)
  <2>1. CASE Len(entry.path) < Len(e.path)
    <3> DEFINE n == Len(entry.path)
               d == [path |-> SubSeq(e.path, 1, n), kind |-> "directory"]
    <3>1. n \in 1 .. Len(e.path) - 1
      BY <1>2, <1>3, <1>5, <2>1 DEF Paths
    <3>2. d \in throughout /\ d.kind = "directory" /\ d.path \in Paths /\ Len(d.path) = n
          /\ \A k \in 1 .. n : d.path[k] = e.path[k]
      <4>1. CheckoutOK
        BY DEF CollectInv
      <4> HIDE DEF n
      <4> QED BY <3>1, <4>1, AncestorIs
    <3>3. d.path = entry.path
      <4>1. \A k \in 1 .. n : d.path[k] = entry.path[k]
        BY <1>5, <3>2 DEF Below
      <4> HIDE DEF d
      <4> QED BY <1>2, <3>2, <4>1, SamePath
    <3> HIDE DEF d
    <3>4. d = entry
      BY <1>2, <3>2, <3>3, PlaceFacts
    <3> QED BY <1>1, <3>2, <3>4
  <2>2. CASE ~(Len(entry.path) < Len(e.path))
    <3>1. e = entry
      BY <1>2, <1>5, <2>2, BelowSame, PlaceFacts
    <3> QED BY <1>1, <1>2, <1>5, <3>1 DEF Wanted
  <2> QED BY <2>1, <2>2
<1> DEFINE new == <<>>
<1>6. new \in Seq(Entries) /\ DOMAIN new = {} /\ Spread(new)
  BY DEF Spread
<1>7. toVisit' = new \o Tail(toVisit)
  BY <1>1, <1>2
<1> HIDE DEF new
<1> QED BY <1>1, <1>2, <1>4, <1>5, <1>6, <1>7, WalkStep

\* A directory is entered: what is wanted below it is below something in it.
LEMMA EnterCollects == CollectInv /\ Enter => CollectInv'
<1> SUFFICES ASSUME CollectInv, Enter PROVE CollectInv'
  OBVIOUS
<1>1. /\ Visiting /\ entry.kind = "directory" /\ ~Skipped /\ UNCHANGED <<checkout, stage>>
      /\ toVisit' = ByName(Children(entry)) \o Tail(toVisit)
      /\ found' = IF use = "directories" /\ entry # Root THEN Append(found, entry) ELSE found
  BY DEF Enter, isDir
<1>2. /\ stage = "walk" /\ toVisit # <<>> /\ use \in {"manifests", "directories"}
      /\ entry \in Places /\ entry.path \in Paths /\ (entry # Root => entry \in Entries /\ entry.path # <<>>)
      /\ Range(Front(entry.path)) \intersect Hidden = {}
      /\ throughout \subseteq Entries
      /\ \A e \in throughout : e.path \in Paths /\ e \in Places
  BY <1>1, EntryIs
<1>3. Range(entry.path) \intersect Hidden = {}
  <2>1. CASE entry = Root
    BY <2>1, PlaceFacts DEF Range
  <2>2. CASE entry # Root
    <3>1. Last(entry.path) \notin Hidden
      BY <1>1, <2>2 DEF Skipped, hidden, isDir
    <3> QED BY <1>2, <2>2, <3>1, NamesOf
  <2> QED BY <2>1, <2>2
<1>4. found' = found \/ (entry \in Entries /\ Wanted(entry) /\ found' = Append(found, entry))
  BY <1>1, <1>2, <1>3 DEF Wanted, InSight, DirectoryNames
<1> DEFINE new == ByName(Children(entry))
<1>5. CheckoutOK
  BY DEF CollectInv
<1>6. /\ new \in Seq(Entries) /\ Spread(new)
      /\ \A c \in Children(entry) : \E k \in DOMAIN new : new[k] = c
      /\ \A k \in DOMAIN new : new[k] \in Children(entry) /\ Above(entry.path, new[k].path)
  <2>1. /\ new \in Seq(Children(entry)) /\ new \in Seq(Entries) /\ Spread(new)
        /\ \A c \in Children(entry) : \E k \in DOMAIN new : new[k] = c
        /\ \A k \in DOMAIN new : Above(entry.path, new[k].path)
    BY <1>2, <1>5, ByNameIs
  <2> HIDE DEF new
  <2> QED BY <2>1
<1>7. toVisit' = new \o Tail(toVisit)
  BY <1>1
<1> HIDE DEF new
<1>8. \A k \in DOMAIN new : /\ new[k] \in tree /\ Above(entry.path, new[k].path)
                            /\ Range(Front(new[k].path)) \intersect Hidden = {}
  BY <1>3, <1>6 DEF Children
<1>9. ASSUME NEW e \in throughout, Wanted(e), Below(e.path, entry.path)
      PROVE  \/ e = entry /\ found' = Append(found, entry)
             \/ \E k \in DOMAIN new : Below(e.path, new[k].path)
  <2> DEFINE n == Len(entry.path) + 1
  <2>1. CASE ~(Len(entry.path) < Len(e.path))
    <3>1. e = entry
      BY <1>2, <1>9, <2>1, BelowSame, PlaceFacts
    <3>2. e # Root
      BY <1>2, PlaceFacts
    <3> QED BY <1>1, <1>2, <1>9, <3>1, <3>2 DEF Wanted
  <2>2. CASE n = Len(e.path)
    <3>1. Front(e.path) = entry.path
      <4>1. e.path \in Paths \ {<<>>}
        BY <1>2, PlaceFacts
      <4>2. /\ Front(e.path) \in Paths /\ Len(Front(e.path)) = Len(entry.path)
            /\ \A k \in 1 .. Len(e.path) - 1 : Front(e.path)[k] = e.path[k]
        <5>1. Len(e.path) - 1 = Len(entry.path)
          BY <1>2, <2>2 DEF Paths
        <5> QED BY <4>1, <5>1, FrontIs
      <4>3. \A k \in 1 .. Len(entry.path) : Front(e.path)[k] = entry.path[k]
        <5>1. Len(e.path) - 1 = Len(entry.path)
          BY <1>2, <2>2 DEF Paths
        <5> QED BY <1>9, <4>2, <5>1 DEF Below
      <4> QED BY <1>2, <4>2, <4>3, SamePath
    <3>2. e \in Children(entry)
      BY <1>5, <3>1 DEF Children, CheckoutOK
    <3>3. Below(e.path, e.path)
      BY <1>2 DEF Below, Paths
    <3> QED BY <1>6, <3>2, <3>3
  <2>3. CASE n < Len(e.path)
    <3> DEFINE d == [path |-> SubSeq(e.path, 1, n), kind |-> "directory"]
    <3>1. n \in 1 .. Len(e.path) - 1 /\ n > 0
      BY <1>2, <2>3 DEF Paths
    <3>2. /\ d \in throughout /\ d.path \in Paths /\ Len(d.path) = n
          /\ \A k \in 1 .. n : d.path[k] = e.path[k]
          /\ Below(e.path, d.path)
      <4> HIDE DEF n
      <4> QED BY <1>5, <3>1, AncestorIs
    <3> HIDE DEF d
    <3>3. Front(d.path) = entry.path
      <4>2. /\ Front(d.path) \in Paths /\ Len(Front(d.path)) = Len(entry.path)
            /\ \A k \in 1 .. n - 1 : Front(d.path)[k] = d.path[k]
        <5>1. d.path # <<>> /\ Len(d.path) - 1 = Len(entry.path)
          BY <1>2, <3>1, <3>2 DEF Paths
        <5> QED BY <3>2, <5>1, FrontIs
      <4>3. \A k \in 1 .. Len(entry.path) : Front(d.path)[k] = entry.path[k]
        <5> TAKE k \in 1 .. Len(entry.path)
        <5>1. k \in 1 .. n - 1 /\ k \in 1 .. n
          BY <1>2 DEF Paths
        <5>2. Front(d.path)[k] = d.path[k] /\ d.path[k] = e.path[k]
          BY <3>2, <4>2, <5>1
        <5> QED BY <1>9, <5>2 DEF Below
      <4> QED BY <1>2, <4>2, <4>3, SamePath
    <3>4. d \in Children(entry)
      BY <1>5, <3>2, <3>3 DEF Children, CheckoutOK
    <3> QED BY <1>6, <3>2, <3>4
  <2>4. Len(entry.path) \in Nat /\ Len(e.path) \in Nat
    BY <1>2 DEF Paths
  <2> QED BY <2>1, <2>2, <2>3, <2>4
<1> QED BY <1>1, <1>2, <1>4, <1>6, <1>7, <1>8, <1>9, WalkStep

-----------------------------------------------------------------------------
\* Before anything is collected.
LEMMA CollectBegins == CollectInit => CollectInv
<1> SUFFICES ASSUME CollectInit PROVE CollectInv
  OBVIOUS
<1>1. tree \in Starts /\ throughout = tree /\ ever = tree /\ toVisit = <<>> /\ found = <<>> /\ stage = "start"
      /\ use \in {"manifests", "directories", "files", "mocks"} /\ rootHidden \in BOOLEAN
  BY DEF CollectInit
<1>2. CheckoutOK
  <2>1. /\ tree \subseteq Entries /\ IsFiniteSet(tree)
        /\ \A e \in tree : \A n \in 1 .. Len(e.path) - 1 :
             [path |-> SubSeq(e.path, 1, n), kind |-> "directory"] \in tree
    BY <1>1, EntryAssumption
  <2> QED BY <1>1, <2>1 DEF CheckoutOK, Walks
<1>3. StageOK /\ SortedOK /\ CompleteOK
  BY <1>1 DEF StageOK, SortedOK, CompleteOK
<1>4. VisitOK /\ FoundOK
  BY <1>1 DEF VisitOK, FoundOK
<1>5. OrderOK
  BY <1>1 DEF OrderOK, Spread, Ahead, InOrder, Different
<1> QED BY <1>2, <1>3, <1>4, <1>5 DEF CollectInv

\* The walk begins at the root, which everything is below.
LEMMA StartWalkCollects == CollectInv /\ StartWalk => CollectInv'
<1> SUFFICES ASSUME CollectInv, StartWalk PROVE CollectInv'
  OBVIOUS
<1>1. CheckoutOK /\ StageOK /\ FoundOK
  BY DEF CollectInv
<1>2. /\ use \in Walks /\ toVisit' = <<Root>> /\ stage' = "walk" /\ found' = found /\ found = <<>>
      /\ use' = use /\ rootHidden' = rootHidden /\ tree' = tree /\ throughout' = throughout /\ ever' = ever
  BY <1>1 DEF StartWalk, StageOK, checkout
<1>3. CheckoutOK'
  BY <1>1, <1>2 DEF CheckoutOK
<1>4. StageOK' /\ SortedOK'
  BY <1>2 DEF StageOK, SortedOK
<1>5. toVisit' \in Seq(ever' \union {Root}) /\ DOMAIN toVisit' = {1} /\ toVisit'[1] = Root
  BY <1>2
<1>6. Range(Front(Root.path)) = {}
  BY PlaceFacts DEF Range, Front
<1>7. VisitOK'
  BY <1>2, <1>5, <1>6 DEF VisitOK, Walks
<1>8. FoundOK'
  BY <1>2 DEF FoundOK
<1>9. OrderOK'
  BY <1>2, <1>5 DEF OrderOK, Spread, Ahead, InOrder, Walks
<1>10. CompleteOK'
  <2>1. \A e \in throughout : Below(e.path, Root.path)
    <3>1. \A e \in throughout : e.path \in Paths
      BY <1>1, PlaceFacts DEF CheckoutOK
    <3> QED BY <3>1, PlaceFacts DEF Below, Paths
  <2> QED BY <1>2, <1>5, <2>1 DEF CompleteOK, Awaited
<1> QED BY <1>3, <1>4, <1>7, <1>8, <1>9, <1>10 DEF CollectInv

\* What comes of listing, whichever way it was listed.
LEMMA ListStep ==
  ASSUME CollectInv, stage = "start", use \in {"files", "mocks"}, stage' = "read", UNCHANGED <<checkout, found>>,
         toVisit' \in Seq(ever), use = "files" => Different(toVisit'),
         use = "mocks" => Spread(toVisit'),
         \A n \in DOMAIN toVisit' : /\ use = "files" => toVisit'[n] \in Matching
                                    /\ use = "mocks" => Wanted(toVisit'[n]),
         \A e \in throughout : Wanted(e) => \E n \in DOMAIN toVisit' : toVisit'[n] = e
  PROVE  CollectInv'
<1>1. CheckoutOK /\ StageOK
  BY DEF CollectInv
<1>2. /\ use \notin Walks /\ found' = found /\ found = <<>>
      /\ use' = use /\ rootHidden' = rootHidden /\ tree' = tree /\ throughout' = throughout /\ ever' = ever
  BY <1>1 DEF StageOK, checkout, Walks
<1>3. CheckoutOK'
  BY <1>1, <1>2 DEF CheckoutOK
<1>4. StageOK' /\ SortedOK'
  BY <1>2 DEF StageOK, SortedOK
<1>5. toVisit' \in Seq(ever' \union {Root})
  BY <1>2
<1>6. VisitOK'
  BY <1>2, <1>5, WantedStays DEF VisitOK
<1>7. FoundOK'
  BY <1>2 DEF FoundOK
<1>8. OrderOK'
  BY <1>2 DEF OrderOK, Spread, Ahead, InOrder, Different
<1>9. CompleteOK'
  BY <1>2, WantedStays DEF CompleteOK, Awaited
<1> QED BY <1>3, <1>4, <1>6, <1>7, <1>8, <1>9 DEF CollectInv

\* What is listed is all that is wanted.
LEMMA ListCollects == CollectInv /\ List => CollectInv'
<1> SUFFICES ASSUME CollectInv, List PROVE CollectInv'
  OBVIOUS
<1>1. CheckoutOK
  BY DEF CollectInv
<1>2. stage = "start" /\ stage' = "read" /\ UNCHANGED <<checkout, found>> /\ use \in {"files", "mocks"}
  BY <1>1 DEF List, CheckoutOK, Walks
<1>3. throughout \subseteq tree /\ tree \subseteq ever /\ ever \subseteq Entries
  BY <1>1 DEF CheckoutOK
<1>4. CASE use = "mocks"
  <2> DEFINE set == {e \in Children(Root) : e.kind \in {"yaml", "dangling"}}
             new == ByName(set)
  <2>1. toVisit' = new
    BY <1>4 DEF List
  <2>2. /\ new \in Seq(set) /\ Spread(new)
        /\ \A c \in set : \E k \in DOMAIN new : new[k] = c
    <3>1. set \subseteq Children(Root) /\ Root \in Places
      BY DEF Places
    <3> HIDE DEF set
    <3> QED BY <1>1, <3>1, ByNameIs
  <2> HIDE DEF new
  <2>3. new \in Seq(ever)
    BY <1>3, <2>2 DEF Children
  <2>4. \A k \in DOMAIN new : Wanted(new[k])
    <3> TAKE k \in DOMAIN new
    <3>1. new[k] \in set /\ new[k] \in Entries /\ new[k].path \in Paths \ {<<>>}
      BY <1>3, <2>2, <2>3, PlaceFacts
    <3>2. Front(new[k].path) = <<>>
      BY <3>1, PlaceFacts DEF Children
    <3>3. Len(new[k].path) = 1
      <4>1. Len(Front(new[k].path)) = Len(new[k].path) - 1 /\ Len(new[k].path) \in Nat
        BY <3>1, FrontIs
      <4> QED BY <3>2, <4>1
    <3> QED BY <1>4, <3>1, <3>3 DEF Wanted
  <2>5. \A e \in throughout : Wanted(e) => e \in set
    <3> SUFFICES ASSUME NEW e \in throughout, Wanted(e) PROVE e \in set
      OBVIOUS
    <3>1. e \in Entries /\ e.path \in Paths \ {<<>>} /\ e.kind \in Kinds
      BY <1>3, PlaceFacts
    <3>2. Len(e.path) = 1 /\ e.kind \in {"yaml", "dangling"}
      BY <1>4, <3>1 DEF Wanted, Kinds
    <3>3. Front(e.path) \in Paths /\ Len(Front(e.path)) = 0
      BY <3>1, <3>2, FrontIs
    <3>4. Front(e.path) = Root.path
      BY <3>3, PlaceFacts DEF Paths
    <3> QED BY <1>3, <3>2, <3>4 DEF Children
  <2> HIDE DEF set
  <2> QED BY <1>2, <1>4, <2>1, <2>2, <2>3, <2>4, <2>5, ListStep
<1>5. CASE use = "files"
  <2> DEFINE set == Matching \intersect tree
             new == SetToSeq(set)
             N == Cardinality(set)
  <2>1. toVisit' = new
    BY <1>5 DEF List
  <2>2. IsFiniteSet(set) /\ N \in Nat
    BY <1>1, FS_Subset, FS_CardinalityType DEF CheckoutOK
  <2> HIDE DEF set
  <2>3. new \in [1 .. N -> set] /\ IsInjective(new)
    <3>1. \E f : f \in Bijection(1 .. N, set)
      BY <2>2, FS_CardinalityType DEF ExistsBijection
    <3>2. \E f \in [1 .. N -> set] : IsInjective(f)
      BY <3>1 DEF Bijection, Injection
    <3>3. new = CHOOSE f \in [1 .. N -> set] : IsInjective(f)
      BY DEF SetToSeq
    <3> HIDE DEF new, N
    <3> QED BY <3>2, <3>3
  <2> HIDE DEF new
  <2>4. \A e \in set : \E n \in 1 .. N : new[n] = e
    <3>1. IsFiniteSet(1 .. N) /\ Cardinality(1 .. N) = N
      BY <2>2, FS_Interval
    <3>2. new \in Injection(1 .. N, set)
      BY <2>3 DEF Injection
    <3>3. new \in Surjection(1 .. N, set)
      BY <2>2, <3>1, <3>2, FS_Injection
    <3> QED BY <3>3 DEF Surjection
  <2>5. new \in Seq(set) /\ DOMAIN new = 1 .. N
    BY <2>2, <2>3
  <2>6. new \in Seq(ever) /\ \A n \in DOMAIN new : new[n] \in Matching
    <3>1. set \subseteq ever /\ set \subseteq Matching
      BY <1>3 DEF set
    <3>2. \A n \in DOMAIN new : new[n] \in set
      BY <2>3, <2>5
    <3> QED BY <2>5, <3>1, <3>2
  <2>7. Different(new)
    BY <2>3 DEF Different, IsInjective
  <2>8. \A e \in throughout : Wanted(e) => e \in set
    BY <1>3, <1>5 DEF Wanted, set
  <2> QED BY <1>2, <1>5, <2>1, <2>4, <2>5, <2>6, <2>7, <2>8, ListStep
<1> QED BY <1>2, <1>4, <1>5

\* An error, which may come at any time, keeps what there is.
LEMMA CollectFailsCollects == CollectInv /\ stage # "ok" /\ CollectFails => CollectInv'
<1> SUFFICES ASSUME CollectInv, stage # "ok", CollectFails PROVE CollectInv'
  OBVIOUS
<1>1. CheckoutOK /\ StageOK /\ VisitOK /\ FoundOK /\ OrderOK
  BY DEF CollectInv
<1>2. /\ stage' = "error" /\ toVisit' = toVisit /\ found' = found
      /\ use' = use /\ rootHidden' = rootHidden /\ tree' = tree /\ throughout' = throughout /\ ever' = ever
  BY DEF CollectFails, checkout
<1>3. CheckoutOK' /\ StageOK' /\ SortedOK' /\ CompleteOK'
  BY <1>1, <1>2 DEF CheckoutOK, StageOK, SortedOK, CompleteOK
<1>4. VisitOK'
  BY <1>1, <1>2, WantedStays DEF VisitOK
<1>5. FoundOK'
  BY <1>1, <1>2, WantedStays DEF FoundOK
<1>6. OrderOK'
  BY <1>1, <1>2 DEF OrderOK, Spread, Ahead, InOrder, Different
<1> QED BY <1>3, <1>4, <1>5, <1>6 DEF CollectInv

-----------------------------------------------------------------------------
\* The first of what was listed is read, or passed over if it is not wanted.
LEMMA ReadStep ==
  ASSUME CollectInv, stage = "read", toVisit # <<>>, UNCHANGED <<checkout, stage>>,
         toVisit' = Tail(toVisit),
         \/ found' = found /\ ~Wanted(entry)
         \/ found' = Append(found, entry) /\ Wanted(entry) /\ entry.kind # "dangling"
  PROVE  CollectInv'
<1> DEFINE r == Tail(toVisit)
<1>1. CheckoutOK /\ StageOK /\ VisitOK /\ FoundOK /\ OrderOK /\ CompleteOK
  BY DEF CollectInv
<1>2. use \notin Walks /\ use \in {"files", "mocks"}
  BY <1>1 DEF StageOK, CheckoutOK
<1>3. /\ use' = use /\ rootHidden' = rootHidden /\ tree' = tree /\ throughout' = throughout
      /\ ever' = ever /\ stage' = "read"
  BY DEF checkout
<1>4. CheckoutOK'
  BY <1>1, <1>3 DEF CheckoutOK
<1>5. StageOK' /\ SortedOK'
  BY <1>2, <1>3 DEF StageOK, SortedOK
<1>6. /\ 1 \in DOMAIN toVisit /\ entry = toVisit[1] /\ entry \in ever \union {Root} /\ r \in Seq(ever \union {Root})
      /\ \A n \in DOMAIN r : n + 1 \in DOMAIN toVisit /\ r[n] = toVisit[n + 1] /\ n \in Nat /\ 1 < n + 1
      /\ \A n \in DOMAIN toVisit : n = 1 \/ (n - 1 \in DOMAIN r /\ r[n - 1] = toVisit[n])
      /\ toVisit \in Seq(ever \union {Root})
  BY <1>1, RestIs DEF VisitOK, entry
<1> HIDE DEF r
<1>7. toVisit' = r
  BY DEF r
<1>8. VisitOK'
  BY <1>1, <1>2, <1>3, <1>6, <1>7, WantedStays DEF VisitOK
<1>9. entry \in ever /\ entry \in Entries
  <2>1. entry # Root
    <3>1. CASE use = "mocks"
      BY <1>1, <1>6, <3>1, PlaceFacts DEF VisitOK, Wanted
    <3>2. CASE use = "files"
      BY <1>1, <1>6, <3>2, PlaceFacts, EntryAssumption DEF VisitOK
    <3> QED BY <1>2, <3>1, <3>2
  <2> QED BY <1>1, <1>6, <2>1 DEF CheckoutOK
<1>10. found \in Seq(ever)
  BY <1>1 DEF FoundOK
<1>11. CASE found' = found /\ ~Wanted(entry)
  <2>1. FoundOK'
    BY <1>1, <1>3, <1>11, WantedStays DEF FoundOK
  <2>2. OrderOK'
    <3>1. CASE use = "files"
      BY <1>1, <1>3, <1>6, <1>7, <1>11, <3>1 DEF OrderOK, Different
    <3>2. CASE use = "mocks"
      <4>1. entry \in ever /\ Wanted(entry)
        BY <1>1, <1>6, <1>9, <3>2 DEF VisitOK
      <4> QED BY <1>11, <4>1
    <3> QED BY <1>2, <3>1, <3>2
  <2>3. CompleteOK'
    <3> SUFFICES ASSUME NEW e \in throughout, Wanted(e), e \notin Range(found)
                 PROVE  \E n \in DOMAIN r : r[n] = e
      BY <1>2, <1>3, <1>7, <1>11, WantedStays DEF CompleteOK, Awaited
    <3>1. PICK n \in DOMAIN toVisit : toVisit[n] = e
      BY <1>1, <1>2 DEF CompleteOK, Awaited, Walks
    <3> QED BY <1>6, <1>11, <3>1
  <2> QED BY <1>4, <1>5, <1>8, <2>1, <2>2, <2>3 DEF CollectInv
<1>12. CASE found' = Append(found, entry) /\ Wanted(entry) /\ entry.kind # "dangling"
  <2>1. /\ found' \in Seq(ever) /\ Range(found') = Range(found) \union {entry}
        /\ \A n \in DOMAIN found' : (n \in DOMAIN found /\ found'[n] = found[n]) \/ (n = Len(found) + 1 /\ found'[n] = entry)
    BY <1>9, <1>10, <1>12, AppendPlaces
  <2>2. FoundOK'
    BY <1>1, <1>3, <1>12, <2>1, WantedStays DEF FoundOK
  <2>3. OrderOK'
    <3>1. CASE use = "files"
      <4>1. Different(toVisit) /\ Different(found) /\ \A m \in DOMAIN found : \A n \in DOMAIN toVisit : found[m] # toVisit[n]
        BY <1>1, <3>1 DEF OrderOK
      <4>2. Different(r)
        BY <1>6, <4>1 DEF Different
      <4>3. Different(found')
        BY <1>6, <2>1, <4>1 DEF Different
      <4>4. ASSUME NEW m \in DOMAIN found', NEW n \in DOMAIN r PROVE found'[m] # r[n]
        <5>1. r[n] # entry
          BY <1>6, <4>1 DEF Different
        <5> QED BY <1>6, <2>1, <4>1, <5>1
      <4> QED BY <1>3, <1>7, <3>1, <4>2, <4>3, <4>4 DEF OrderOK, Different
    <3>2. CASE use = "mocks"
      <4> DEFINE new == <<>>
      <4>1. new \in Seq(Entries) /\ DOMAIN new = {} /\ Spread(new)
        BY DEF Spread
      <4>2. found \in Seq(Entries) /\ toVisit \in Seq(Places)
        BY <1>1 DEF FoundOK, VisitOK, CheckoutOK, Places
      <4>3. Spread(toVisit) /\ Ahead(found, toVisit) /\ InOrder(found)
        BY <1>1, <3>2 DEF OrderOK
      <4>4. new \o Tail(toVisit) = r
        BY <1>6 DEF r
      <4>5. Head(toVisit) \in Entries /\ found' = Append(found, Head(toVisit))
        BY <1>9, <1>12 DEF entry
      <4> HIDE DEF new
      <4>6. Spread(r) /\ Ahead(found', r) /\ InOrder(found')
        BY <4>1, <4>2, <4>3, <4>4, <4>5, OrderStep
      <4> QED BY <1>3, <1>7, <3>2, <4>6 DEF OrderOK, Spread, Ahead, InOrder
    <3> QED BY <1>2, <3>1, <3>2
  <2>4. CompleteOK'
    <3> SUFFICES ASSUME NEW e \in throughout, Wanted(e), e \notin Range(found), e # entry
                 PROVE  \E n \in DOMAIN r : r[n] = e
      BY <1>2, <1>3, <1>7, <2>1, WantedStays DEF CompleteOK, Awaited
    <3>1. PICK n \in DOMAIN toVisit : toVisit[n] = e
      BY <1>1, <1>2 DEF CompleteOK, Awaited, Walks
    <3> QED BY <1>6, <3>1
  <2> QED BY <1>4, <1>5, <1>8, <2>2, <2>3, <2>4 DEF CollectInv
<1> QED BY <1>11, <1>12

\* A directory among what the pattern matches is not wanted.
LEMMA SkipDirectoryCollects == CollectInv /\ SkipDirectory => CollectInv'
<1> SUFFICES ASSUME CollectInv, SkipDirectory PROVE CollectInv'
  OBVIOUS
<1>1. /\ stage = "read" /\ toVisit # <<>> /\ UNCHANGED <<checkout, stage>> /\ found' = found
      /\ toVisit' = Tail(toVisit) /\ use = "files" /\ entry.kind = "directory"
  BY DEF SkipDirectory, Reading, isDir
<1>2. ~Wanted(entry)
  BY <1>1 DEF Wanted
<1> QED BY <1>1, <1>2, ReadStep

\* What is read is wanted, and there.
LEMMA ReadEntryCollects == CollectInv /\ ReadEntry => CollectInv'
<1> SUFFICES ASSUME CollectInv, ReadEntry PROVE CollectInv'
  OBVIOUS
<1>1. /\ stage = "read" /\ toVisit # <<>> /\ UNCHANGED <<checkout, stage>> /\ found' = Append(found, entry)
      /\ toVisit' = Tail(toVisit) /\ entry.kind # "directory" /\ entry.kind # "dangling"
  BY DEF ReadEntry, Reading, isDir
<1>2. CheckoutOK /\ StageOK /\ VisitOK
  BY DEF CollectInv
<1>3. use \in {"files", "mocks"} /\ 1 \in DOMAIN toVisit /\ entry = toVisit[1]
  BY <1>1, <1>2, RestIs DEF StageOK, CheckoutOK, VisitOK, entry
<1>4. Wanted(entry)
  BY <1>1, <1>2, <1>3 DEF VisitOK, Wanted
<1> QED BY <1>1, <1>4, ReadStep

\* What was collected is returned, of manifests in the order of their paths.
LEMMA FinishCollects == CollectInv /\ Finish => CollectInv'
<1> SUFFICES ASSUME CollectInv, Finish PROVE CollectInv'
  OBVIOUS
<1>1. CheckoutOK /\ StageOK /\ VisitOK /\ FoundOK /\ OrderOK /\ CompleteOK
  BY DEF CollectInv
<1>2. /\ stage \in {"walk", "read"} /\ stage' = "ok" /\ toVisit = <<>> /\ toVisit' = <<>>
      /\ use' = use /\ rootHidden' = rootHidden /\ tree' = tree /\ throughout' = throughout /\ ever' = ever
      /\ found' = IF use = "manifests" THEN [n \in DOMAIN found |-> found[byPath[n]]] ELSE found
  BY DEF Finish, checkout
<1>3. CheckoutOK' /\ StageOK'
  BY <1>1, <1>2 DEF CheckoutOK, StageOK
<1>4. VisitOK'
  BY <1>2 DEF VisitOK
<1>5. \A e \in throughout : Wanted(e) /\ ~(use = "directories" /\ rootHidden) => e \in Range(found)
  BY <1>1, <1>2 DEF CompleteOK, Awaited
<1>6. CASE use # "manifests"
  <2>1. FoundOK' /\ SortedOK'
    BY <1>1, <1>2, <1>6, WantedStays DEF FoundOK, SortedOK
  <2>2. OrderOK'
    BY <1>1, <1>2, <1>6 DEF OrderOK, Spread, Ahead, InOrder, Different
  <2>3. CompleteOK'
    BY <1>2, <1>5, <1>6, WantedStays DEF CompleteOK
  <2> QED BY <1>3, <1>4, <2>1, <2>2, <2>3 DEF CollectInv
<1>7. CASE use = "manifests"
  <2> DEFINE N == Len(found)
             key == [n \in DOMAIN found |-> PathRank[found[n]]]
             p == byPath
  <2>1. N \in Nat /\ DOMAIN found = 1 .. N /\ \A n \in 1 .. N : found[n] \in ever /\ found[n] \in Entries
    BY <1>1 DEF FoundOK, CheckoutOK
  <2>2. InOrder(found)
    BY <1>1, <1>2, <1>7 DEF OrderOK
  <2>3. \A m, n \in 1 .. N : found[m] = found[n] => m = n
    <3> SUFFICES ASSUME NEW m \in 1 .. N, NEW n \in 1 .. N, found[m] = found[n], m < n PROVE FALSE
      BY <2>1
    <3>1. Earlier(found[m].path, found[n].path)
      BY <2>1, <2>2 DEF InOrder
    <3>2. found[m].path \in Paths
      BY <2>1, PlaceFacts
    <3> QED BY <3>1, <3>2, EarlierDiffers
  <2>4. \A n \in 1 .. N : key[n] = PathRank[found[n]] /\ key[n] \in Nat
    BY <2>1, EntryAssumption
  <2>5. \A m, n \in 1 .. N : key[m] = key[n] => m = n
    BY <2>1, <2>3, <2>4, EntryAssumption
  <2>6. IsFiniteSet(1 .. N) /\ Cardinality(1 .. N) = N
    BY <2>1, FS_Interval
  <2>7. p = Sorted(1 .. N, key)
    BY <2>1 DEF byPath
  <2> HIDE DEF key, p
  <2>8. /\ p \in [1 .. N -> 1 .. N]
        /\ \A e \in 1 .. N : \E n \in 1 .. N : p[n] = e
        /\ \A m, n \in 1 .. N : m < n => key[p[m]] < key[p[n]]
    BY <2>4, <2>5, <2>6, <2>7, SortedIs
  <2>9. /\ DOMAIN found' = 1 .. N /\ found' = [n \in 1 .. N |-> found[p[n]]]
        /\ \A n \in 1 .. N : found'[n] = found[p[n]] /\ p[n] \in 1 .. N
    BY <1>2, <1>7, <2>1, <2>8 DEF p
  <2>10. found' \in Seq(ever)
    BY <2>1, <2>9
  <2>11. Range(found') = Range(found)
    <3>1. ASSUME NEW x \in Range(found) PROVE x \in Range(found')
      <4>1. PICK k \in 1 .. N : found[k] = x
        BY <2>1, <3>1 DEF Range
      <4>2. PICK n \in 1 .. N : p[n] = k
        BY <2>8
      <4> QED BY <2>9, <4>1, <4>2 DEF Range
    <3>2. ASSUME NEW x \in Range(found') PROVE x \in Range(found)
      BY <2>1, <2>9, <3>2 DEF Range
    <3> QED BY <3>1, <3>2
  <2>12. FoundOK'
    BY <1>1, <1>2, <1>7, <2>1, <2>9, <2>10, WantedStays DEF FoundOK, Walks
  <2>13. SortedOK'
    <3>1. ASSUME NEW m \in 1 .. N, NEW n \in 1 .. N, m < n PROVE PathRank[found'[m]] < PathRank[found'[n]]
      <4>1. p[m] \in 1 .. N /\ p[n] \in 1 .. N /\ key[p[m]] < key[p[n]]
        BY <2>8, <3>1
      <4>2. found'[m] = found[p[m]] /\ found'[n] = found[p[n]]
        BY <2>9
      <4>3. key[p[m]] = PathRank[found[p[m]]] /\ key[p[n]] = PathRank[found[p[n]]]
        BY <2>4, <4>1
      <4> QED BY <4>1, <4>2, <4>3
    <3> HIDE DEF N
    <3> QED BY <2>9, <3>1 DEF SortedOK
  <2>14. OrderOK'
    BY <1>2, <1>7 DEF OrderOK, Spread, Ahead
  <2>15. CompleteOK'
    BY <1>2, <1>5, <1>7, <2>11, WantedStays DEF CompleteOK
  <2> QED BY <1>3, <1>4, <2>12, <2>13, <2>14, <2>15 DEF CollectInv
<1> QED BY <1>6, <1>7

-----------------------------------------------------------------------------
\* What the checkout may become between two steps of the program.
LEMMA CheckoutChanges ==
  ASSUME CollectInv, CheckoutOK', UNCHANGED <<use, rootHidden, toVisit, found, stage>>,
         stage \in {"start", "walk", "read"}, throughout' \subseteq throughout, ever \subseteq ever'
  PROVE  CollectInv'
<1>1. StageOK /\ VisitOK /\ FoundOK /\ OrderOK /\ CompleteOK
  BY DEF CollectInv
<1>2. toVisit' = toVisit /\ found' = found /\ stage' = stage /\ use' = use /\ rootHidden' = rootHidden
  OBVIOUS
<1>3. StageOK' /\ SortedOK'
  BY <1>1, <1>2 DEF StageOK, SortedOK
<1>4. VisitOK'
  <2>1. toVisit \in Seq(ever' \union {Root})
    BY <1>1 DEF VisitOK
  <2> QED BY <1>1, <1>2, <2>1, WantedStays DEF VisitOK
<1>5. FoundOK'
  <2>1. found \in Seq(ever')
    BY <1>1 DEF FoundOK
  <2> QED BY <1>1, <1>2, <2>1, WantedStays DEF FoundOK
<1>6. OrderOK'
  BY <1>1, <1>2 DEF OrderOK, Spread, Ahead, InOrder, Different
<1>7. CompleteOK'
  BY <1>1, <1>2, WantedStays DEF CompleteOK, Awaited
<1> QED BY <1>3, <1>4, <1>5, <1>6, <1>7 DEF CollectInv

\* What goes, goes with all that is in it: what stays has its directories.
LEMMA RemoveEntryCollects == CollectInv /\ RemoveEntry => CollectInv'
<1> SUFFICES ASSUME CollectInv, RemoveEntry PROVE CollectInv'
  OBVIOUS
<1>1. CheckoutOK
  BY DEF CollectInv
<1>2. /\ stage \in {"start", "walk", "read"} /\ throughout' = throughout \intersect tree'
      /\ UNCHANGED <<use, rootHidden, toVisit, found, stage, ever>>
  BY DEF RemoveEntry, Edited
<1>3. PICK gone \in tree : tree' = {d \in tree : ~IsPrefix(gone.path, d.path)}
  BY DEF RemoveEntry
<1>4. throughout' \subseteq tree' /\ tree' \subseteq ever' /\ ever' \subseteq Entries /\ IsFiniteSet(tree')
  BY <1>1, <1>2, <1>3, FS_Subset DEF CheckoutOK
<1>5. ASSUME NEW e \in throughout', NEW n \in 1 .. Len(e.path) - 1
      PROVE  [path |-> SubSeq(e.path, 1, n), kind |-> "directory"] \in throughout'
  <2> DEFINE d == [path |-> SubSeq(e.path, 1, n), kind |-> "directory"]
             p == gone.path
  <2>1. e \in throughout /\ ~IsPrefix(p, e.path)
    BY <1>2, <1>3, <1>5
  <2>2. /\ d \in throughout /\ d.path \in Paths /\ Len(d.path) = n
        /\ \A k \in 1 .. n : d.path[k] = e.path[k]
    BY <1>1, <1>5, <2>1, AncestorIs
  <2>3. e.path \in Paths /\ p \in Paths
    BY <1>1, <2>1, PlaceFacts DEF CheckoutOK
  <2> HIDE DEF d, p
  <2>4. ASSUME IsPrefix(p, d.path) PROVE FALSE
    <3>1. Len(p) <= n /\ SubSeq(p, 1, Len(p)) = SubSeq(d.path, 1, Len(p)) /\ Len(p) \in Nat
      BY <2>2, <2>3, <2>4 DEF IsPrefix, Paths
    <3>2. SubSeq(d.path, 1, Len(p)) = SubSeq(e.path, 1, Len(p)) /\ Len(p) <= Len(e.path)
      BY <1>5, <2>2, <2>3, <3>1 DEF Paths
    <3> QED BY <2>1, <3>1, <3>2 DEF IsPrefix
  <2>5. d \in tree'
    BY <1>1, <1>3, <2>2, <2>4 DEF CheckoutOK, p
  <2> QED BY <1>2, <2>2, <2>5 DEF d
<1>6. CheckoutOK'
  BY <1>1, <1>2, <1>4, <1>5 DEF CheckoutOK
<1> QED BY <1>2, <1>6, CheckoutChanges

\* What comes was not there all the time.
LEMMA AddEntryCollects == CollectInv /\ AddEntry => CollectInv'
<1> SUFFICES ASSUME CollectInv, AddEntry PROVE CollectInv'
  OBVIOUS
<1>1. CheckoutOK
  BY DEF CollectInv
<1>2. /\ stage \in {"start", "walk", "read"} /\ ever' = ever \union tree'
      /\ UNCHANGED <<use, rootHidden, toVisit, found, stage, throughout>>
  BY DEF AddEntry, Edited
<1>3. PICK new \in Entries : tree' = tree \union {new}
  BY DEF AddEntry
<1>4. IsFiniteSet(tree')
  BY <1>1, <1>3, FS_AddElement DEF CheckoutOK
<1>5. CheckoutOK'
  BY <1>1, <1>2, <1>3, <1>4 DEF CheckoutOK
<1> QED BY <1>2, <1>5, CheckoutChanges

\* Whatever happens, the argument holds after it.
LEMMA CollectStepKeeps == CollectInv /\ [CollectNext]_listVars => CollectInv'
<1> SUFFICES ASSUME CollectInv, [CollectNext]_listVars PROVE CollectInv'
  OBVIOUS
<1>1. CASE StartWalk
  BY <1>1, StartWalkCollects
<1>2. CASE SkipHidden
  BY <1>2, SkipHiddenCollects
<1>3. CASE Enter
  BY <1>3, EnterCollects
<1>4. CASE WalkFails \/ ListFails \/ ReadFails
  <2>1. stage # "ok" /\ CollectFails
    BY <1>4 DEF WalkFails, ListFails, ReadFails, Visiting, Reading
  <2> QED BY <2>1, CollectFailsCollects
<1>5. CASE VisitFile
  BY <1>5, VisitFileCollects
<1>6. CASE List
  BY <1>6, ListCollects
<1>7. CASE SkipDirectory
  BY <1>7, SkipDirectoryCollects
<1>8. CASE ReadEntry
  BY <1>8, ReadEntryCollects
<1>9. CASE Finish
  BY <1>9, FinishCollects
<1>10. CASE RemoveEntry
  BY <1>10, RemoveEntryCollects
<1>11. CASE AddEntry
  BY <1>11, AddEntryCollects
<1>12. CASE UNCHANGED listVars
  <2>1. /\ use' = use /\ rootHidden' = rootHidden /\ tree' = tree /\ toVisit' = toVisit /\ found' = found
        /\ stage' = stage /\ throughout' = throughout /\ ever' = ever
    BY <1>12 DEF listVars
  <2>2. CheckoutOK' /\ StageOK' /\ SortedOK'
    BY <2>1 DEF CollectInv, CheckoutOK, StageOK, SortedOK
  <2>3. VisitOK' /\ FoundOK'
    <3>1. VisitOK /\ FoundOK
      BY DEF CollectInv
    <3>2. VisitOK'
      BY <2>1, <3>1, WantedStays DEF VisitOK
    <3>3. FoundOK'
      BY <2>1, <3>1, WantedStays DEF FoundOK
    <3> QED BY <3>2, <3>3
  <2>4. OrderOK'
    BY <2>1 DEF CollectInv, OrderOK, Spread, Ahead, InOrder, Different
  <2>5. CompleteOK'
    BY <2>1, WantedStays DEF CollectInv, CompleteOK, Awaited
  <2> QED BY <2>2, <2>3, <2>4, <2>5 DEF CollectInv
<1> QED BY <1>1, <1>2, <1>3, <1>4, <1>5, <1>6, <1>7, <1>8, <1>9, <1>10, <1>11, <1>12
        DEF CollectNext, CollectStep

\* However the checkout changes meanwhile, what is wanted has been found or is still to
\* come, in order (filepath.WalkDir, and the lists the other uses go through).
THEOREM CollectInvariant == CollectSpec => []CollectInv
<1>1. CollectInit => CollectInv
  BY CollectBegins
<1>2. CollectInv /\ [CollectNext]_listVars => CollectInv'
  BY CollectStepKeeps
<1> QED BY <1>1, <1>2, PTL DEF CollectSpec

\* manifestFiles, GetDirectories, GetFiles and yamlFiles return all they are after of what
\* is in the checkout all the time, but for a Git generator on a hidden root.
THEOREM EveryEntryIsFound == CollectSpec => []EveryEntryFoundUnlessRootHidden
<1>1. CollectInv => EveryEntryFoundUnlessRootHidden
  <2> SUFFICES ASSUME CollectInv, ~(use = "directories" /\ rootHidden), stage = "ok",
                      NEW e \in throughout, Wanted(e)
               PROVE  e \in Range(found)
    BY DEF EveryEntryFoundUnlessRootHidden, EveryEntryFound
  <2>1. toVisit = <<>>
    BY DEF CollectInv, StageOK
  <2> QED BY <2>1 DEF CollectInv, CompleteOK, Awaited
<1> QED BY <1>1, CollectInvariant, PTL

\* They return nothing else, and nothing twice.
THEOREM NothingElseIsFound == CollectSpec => []NothingElseFound
<1>1. CollectInv => NothingElseFound
  <2> SUFFICES ASSUME CollectInv PROVE NothingElseFound
    OBVIOUS
  <2>1. CheckoutOK /\ FoundOK /\ OrderOK /\ SortedOK
    BY DEF CollectInv
  <2>2. found \in Seq(ever) /\ DOMAIN found \subseteq Nat
    BY <2>1 DEF FoundOK
  <2>3. \A n \in DOMAIN found : found[n] \in Entries /\ found[n].path \in Paths /\ PathRank[found[n]] \in Nat
    BY <2>1, <2>2, PlaceFacts, EntryAssumption DEF CheckoutOK
  <2>4. ASSUME NEW m \in DOMAIN found, NEW n \in DOMAIN found, m < n PROVE found[m] # found[n]
    <3>1. CASE use = "files"
      BY <2>1, <2>2, <2>4, <3>1 DEF OrderOK, Different
    <3>2. CASE stage = "ok" /\ use = "manifests"
      BY <2>1, <2>3, <2>4, <3>2 DEF SortedOK
    <3>3. CASE use # "files" /\ ~(stage = "ok" /\ use = "manifests")
      <4>1. Earlier(found[m].path, found[n].path)
        BY <2>1, <2>4, <3>3 DEF OrderOK, InOrder
      <4> QED BY <2>3, <4>1, EarlierDiffers
    <3> QED BY <3>1, <3>2, <3>3
  <2>5. \A m, n \in DOMAIN found : found[m] = found[n] => m = n
    BY <2>2, <2>4
  <2> QED BY <2>1, <2>2, <2>5 DEF NothingElseFound, FoundOK
<1> QED BY <1>1, CollectInvariant, PTL

\* Files come in the order of their paths (sort.Strings in manifestFiles), directories and
\* mocks in that of the names on them, however deep they are.
THEOREM InOrderOfPaths == CollectSpec => []InOrderOfPath
<1>1. CollectInv => InOrderOfPath
  <2> SUFFICES ASSUME CollectInv, stage = "ok", use # "files",
                      NEW m \in DOMAIN found, NEW n \in DOMAIN found, m < n
               PROVE  IF use = "manifests" THEN PathRank[found[m]] < PathRank[found[n]]
                      ELSE Precedes(found[m].path, found[n].path)
    BY DEF InOrderOfPath
  <2>1. CASE use = "manifests"
    BY <2>1 DEF CollectInv, SortedOK
  <2>2. CASE use # "manifests"
    <3>1. Earlier(found[m].path, found[n].path)
      BY <2>2 DEF CollectInv, OrderOK, InOrder
    <3>2. found[m].path \in Paths /\ found[n].path \in Paths
      BY PlaceFacts DEF CollectInv, FoundOK, CheckoutOK
    <3> QED BY <2>2, <3>1, <3>2, EarlierPrecedes
  <2> QED BY <2>1, <2>2
<1> QED BY <1>1, CollectInvariant, PTL

-----------------------------------------------------------------------------
(* ApplicationSetExpansion *)

\* Sequences of whatever

\* A sequence over a set is a sequence.
LEMMA SequenceOver ==
  ASSUME NEW S, NEW s \in Seq(S)
  PROVE  Sequence(s) /\ Range(s) \subseteq S
<1>1. DOMAIN s = 1 .. Len(s) /\ Len(s) \in Nat /\ \A n \in 1 .. Len(s) : s[n] \in S
  OBVIOUS
<1>2. s \in [1 .. Len(s) -> Range(s)]
  BY <1>1 DEF Range
<1> QED
  BY <1>1, <1>2 DEF Sequence, Range

\* What a sequence is, whatever it is over.
LEMMA SequenceProperties ==
  ASSUME NEW s, Sequence(s)
  PROVE  /\ Len(s) \in Nat /\ DOMAIN s = 1 .. Len(s) /\ s = [n \in 1 .. Len(s) |-> s[n]]
         /\ (s = <<>> <=> Len(s) = 0)
BY DEF Sequence

\* A function on the first numbers is one.
LEMMA SequenceOf ==
  ASSUME NEW n \in Nat, NEW f, f = [k \in 1 .. n |-> f[k]]
  PROVE  Sequence(f) /\ Len(f) = n /\ DOMAIN f = 1 .. n
<1>1. f \in [1 .. n -> Range(f)] /\ DOMAIN f = 1 .. n
  BY DEF Range
<1>2. f \in Seq(Range(f))
  BY <1>1
<1>3. Len(f) = n
  BY <1>1, <1>2
<1> QED
  BY <1>1, <1>2, <1>3 DEF Sequence

\* Sequences, all of them, of sequences over one set.
LEMMA SequencesOver ==
  ASSUME NEW s, Sequence(s), NEW S, \A n \in DOMAIN s : Sequence(s[n]) /\ Range(s[n]) \subseteq S
  PROVE  s \in Seq(Seq(S))
<1>1. ASSUME NEW n \in DOMAIN s PROVE s[n] \in Seq(S)
  BY SeqMonotonic DEF Sequence
<1> QED
  BY <1>1, SequenceProperties

\* What the sequences of a sequence hold.
Joined(s) == UNION {Range(s[n]) : n \in DOMAIN s}

\* A sequence of sequences is one over the set of what they hold.
LEMMA SequencesOverJoined ==
  ASSUME NEW s, Sequence(s), \A n \in DOMAIN s : Sequence(s[n])
  PROVE  s \in Seq(Seq(Joined(s)))
<1>1. \A n \in DOMAIN s : Range(s[n]) \subseteq Joined(s)
  BY DEF Joined
<1> QED
  BY <1>1, SequencesOver

\* What comes of flattening.
LEMMA FlattenSequence ==
  ASSUME NEW s, Sequence(s), \A n \in DOMAIN s : Sequence(s[n])
  PROVE  Sequence(FlattenSeq(s))
BY SequencesOverJoined, FlattenType, SequenceOver

\* Two sequences put together: the second comes after the first.
LEMMA ConcatSequence ==
  ASSUME NEW s, NEW t, Sequence(s), Sequence(t)
  PROVE  /\ Sequence(s \o t) /\ Len(s \o t) = Len(s) + Len(t)
         /\ \A n \in DOMAIN (s \o t) : (s \o t)[n] = IF n <= Len(s) THEN s[n] ELSE t[n - Len(s)]
<1> DEFINE S == Range(s) \union Range(t)
<1>1. s \in Seq(S) /\ t \in Seq(S)
  BY SeqMonotonic DEF Sequence
<1>2. /\ s \o t \in Seq(S) /\ Len(s \o t) = Len(s) + Len(t)
      /\ \A n \in 1 .. (Len(s) + Len(t)) : (s \o t)[n] = IF n <= Len(s) THEN s[n] ELSE t[n - Len(s)]
  BY <1>1, ConcatProperties
<1> HIDE DEF S
<1>3. Sequence(s \o t)
  BY <1>2, SequenceOver
<1>4. DOMAIN (s \o t) = 1 .. (Len(s) + Len(t))
  BY <1>2, <1>3, SequenceProperties
<1> QED
  BY <1>2, <1>3, <1>4

\* Three sequences may be put together in either order.
LEMMA ConcatAssociates ==
  ASSUME NEW s, NEW t, NEW u, Sequence(s), Sequence(t), Sequence(u)
  PROVE  (s \o t) \o u = s \o (t \o u)
<1> DEFINE S == Range(s) \union Range(t) \union Range(u)
<1>1. s \in Seq(S) /\ t \in Seq(S) /\ u \in Seq(S)
  BY SeqMonotonic DEF Sequence
<1> HIDE DEF S
<1> QED
  BY <1>1, ConcatAssociative

\* Nothing put to a sequence leaves it.
LEMMA ConcatNone ==
  ASSUME NEW s, Sequence(s)
  PROVE  s \o <<>> = s /\ <<>> \o s = s
BY ConcatEmptySeq DEF Sequence

\* Two lists of sequences may be put together before or after they are flattened.
LEMMA FlattenTogether ==
  ASSUME NEW s, NEW t, Sequence(s), Sequence(t),
         \A n \in DOMAIN s : Sequence(s[n]), \A n \in DOMAIN t : Sequence(t[n])
  PROVE  FlattenSeq(s \o t) = FlattenSeq(s) \o FlattenSeq(t)
<1> DEFINE S == Joined(s) \union Joined(t)
<1>1. s \in Seq(Seq(S)) /\ t \in Seq(Seq(S))
  BY SequencesOver DEF Joined
<1> HIDE DEF S
<1> QED
  BY <1>1, FlattenConcat

\* The first of a sequence before the rest of it.
LEMMA HeadBeforeTail ==
  ASSUME NEW s, Sequence(s), s # <<>>
  PROVE  /\ Sequence(Tail(s)) /\ s = <<Head(s)>> \o Tail(s) /\ Head(s) = s[1]
         /\ Len(Tail(s)) = Len(s) - 1 /\ \A n \in DOMAIN Tail(s) : n + 1 \in DOMAIN s /\ Tail(s)[n] = s[n + 1]
         /\ 1 \in DOMAIN s
<1> DEFINE S == Range(s)
<1>1. s \in Seq(S)
  BY DEF Sequence
<1>2. /\ Tail(s) \in Seq(S) /\ Head(s) = s[1] /\ Len(Tail(s)) = Len(s) - 1 /\ Len(s) \in Nat \ {0}
      /\ \A n \in 1 .. Len(Tail(s)) : Tail(s)[n] = s[n + 1]
  BY <1>1, HeadTailProperties
<1>3. <<Head(s)>> \in Seq(S) /\ Len(<<Head(s)>>) = 1
  BY <1>1, <1>2
<1> HIDE DEF S
<1>4. /\ <<Head(s)>> \o Tail(s) \in Seq(S) /\ Len(<<Head(s)>> \o Tail(s)) = Len(s)
      /\ \A n \in 1 .. Len(s) : (<<Head(s)>> \o Tail(s))[n] = IF n <= 1 THEN s[1] ELSE Tail(s)[n - 1]
  BY <1>2, <1>3, ConcatProperties
<1>5. ASSUME NEW n \in 1 .. Len(s) PROVE (<<Head(s)>> \o Tail(s))[n] = s[n]
  <2>1. CASE n <= 1
    BY <1>2, <1>4, <2>1
  <2>2. CASE ~(n <= 1)
    <3>1. n - 1 \in 1 .. Len(Tail(s)) /\ (n - 1) + 1 = n
      BY <1>2, <2>2
    <3>2. Tail(s)[n - 1] = s[(n - 1) + 1]
      BY <1>2, <3>1
    <3> QED BY <1>4, <2>2, <3>1, <3>2
  <2> QED BY <2>1, <2>2
<1>6. s = <<Head(s)>> \o Tail(s)
  <2> DEFINE u == <<Head(s)>> \o Tail(s)
  <2>1. u \in Seq(S) /\ Len(s) = Len(u) /\ \A n \in 1 .. Len(s) : s[n] = u[n]
    BY <1>4, <1>5
  <2> HIDE DEF u
  <2>2. s = u
    BY <1>1, <2>1, SeqEqual
  <2> QED BY <2>2 DEF u
<1>7. Sequence(Tail(s))
  BY <1>2, SequenceOver
<1>8. DOMAIN s = 1 .. Len(s) /\ DOMAIN Tail(s) = 1 .. Len(Tail(s))
  BY <1>7, SequenceProperties
<1> QED
  BY <1>2, <1>6, <1>7, <1>8

-----------------------------------------------------------------------------
\* What the files hold

\* What loadPullRequests may return, and what a run without a file uses instead.
Versions == {Read(<<>>)} \union {loadPullRequests(held) : held \in PullsFiles}
SecretLists == {<<>>} \union {loadClusterSecrets(held).list : held \in ClustersFiles}

\* Nothing is a sequence.
LEMMA NoneIsSequence == Sequence(<<>>)
BY DEF Sequence

\* Parts read one by one are read only if every one is, and into one list.
LEMMA TogetherIs ==
  ASSUME NEW parts, Sequence(parts),
         \A n \in DOMAIN parts : parts[n].ok => Sequence(parts[n].list)
  PROVE  /\ Together(parts) = [ok |-> Together(parts).ok, list |-> Together(parts).list]
         /\ Together(parts).ok \in BOOLEAN
         /\ Sequence(Together(parts).list)
         /\ ~Together(parts).ok => Together(parts).list = <<>>
         /\ Together(parts).ok <=> \A n \in DOMAIN parts : parts[n].ok
<1>1. CASE \A n \in DOMAIN parts : parts[n].ok
  <2> DEFINE lists == [n \in DOMAIN parts |-> parts[n].list]
  <2>1. Sequence(lists) /\ DOMAIN lists = DOMAIN parts
    <3>1. lists = [n \in 1 .. Len(parts) |-> lists[n]] /\ Len(parts) \in Nat
      BY SequenceProperties
    <3> HIDE DEF lists
    <3>2. Sequence(lists) /\ DOMAIN lists = 1 .. Len(parts)
      BY <3>1, SequenceOf
    <3> QED BY <3>2, SequenceProperties
  <2>2. \A n \in DOMAIN lists : Sequence(lists[n])
    BY <1>1
  <2>3. Together(parts) = Read(FlattenSeq(lists))
    BY <1>1 DEF Together
  <2> HIDE DEF lists
  <2>4. Sequence(FlattenSeq(lists))
    BY <2>1, <2>2, FlattenSequence
  <2> QED BY <1>1, <2>3, <2>4 DEF Read
<1>2. CASE ~(\A n \in DOMAIN parts : parts[n].ok)
  <2>1. Together(parts) = Rejected
    BY <1>2 DEF Together
  <2> QED BY <1>2, <2>1, NoneIsSequence DEF Rejected
<1> QED BY <1>1, <1>2

\* A version of the pull requests file holds a list, empty where it cannot be read.
LEMMA VersionIs ==
  ASSUME NEW v \in Versions
  PROVE  v = [ok |-> v.ok, list |-> v.list] /\ v.ok \in BOOLEAN /\ Sequence(v.list)
<1>1. CASE v = Read(<<>>)
  BY <1>1, NoneIsSequence DEF Read
<1>2. CASE \E held \in PullsFiles : v = loadPullRequests(held)
  <2>1. PICK held \in PullsFiles : v = loadPullRequests(held)
    BY <1>2
  <2>2. Sequence(held) /\ \A n \in DOMAIN held : Sequence(held[n])
    BY FileAssumption
  <2> DEFINE parts == [n \in DOMAIN held |->
                         IF \A k \in DOMAIN held[n] : Valid(held[n][k])
                         THEN Read(held[n]) ELSE Rejected]
  <2>3. v = Together(parts)
    BY <2>1 DEF loadPullRequests
  <2>4. \A n \in DOMAIN parts : parts[n].ok => Sequence(parts[n].list)
    BY <2>2 DEF Read, Rejected
  <2>5. Sequence(parts)
    <3>1. parts = [n \in 1 .. Len(held) |-> parts[n]] /\ Len(held) \in Nat
      BY <2>2, SequenceProperties
    <3> HIDE DEF parts
    <3> QED BY <3>1, SequenceOf
  <2> HIDE DEF parts
  <2> QED BY <2>3, <2>4, <2>5, TogetherIs
<1> QED BY <1>1, <1>2 DEF Versions

\* f reads the documents nested less than n deep as clusterSecretsFromDocument does.
SecretsBelow(f, n) == \A doc \in Documents : Depth[doc] < n => f[doc] = SecretsOf(f, doc)

\* What a document is read as depends on how its items are read only.
LEMMA SameItems ==
  ASSUME NEW f, NEW g, NEW doc, \A n \in DOMAIN doc.items : f[doc.items[n]] = g[doc.items[n]]
  PROVE  SecretsOf(f, doc) = SecretsOf(g, doc)
<1>1. [n \in DOMAIN doc.items |-> f[doc.items[n]]] = [n \in DOMAIN doc.items |-> g[doc.items[n]]]
  OBVIOUS
<1> QED BY <1>1 DEF SecretsOf

\* Items are documents, and nested less deep than the list they are in.
LEMMA DepthFact ==
  /\ \A doc \in Documents : Depth[doc] \in Nat /\ Sequence(doc.items)
  /\ \A doc \in Documents : \A n \in DOMAIN doc.items :
       doc.items[n] \in Documents /\ Depth[doc.items[n]] < Depth[doc]
BY DocumentAssumption DEF Range

\* There is a function that reads the documents nested to any depth.
LEMMA SecretsBelowExist == \A n \in Nat : \E f : SecretsBelow(f, n)
<1> DEFINE T == {n \in Nat : \E f : SecretsBelow(f, n)}
<1>1. 0 \in T
  <2>1. SecretsBelow(<<>>, 0)
    BY DepthFact DEF SecretsBelow
  <2> QED BY <2>1
<1>2. ASSUME NEW n \in Nat, n \in T PROVE n + 1 \in T
  <2>1. PICK f : SecretsBelow(f, n)
    BY <1>2
  <2> DEFINE g == [doc \in Documents |-> IF Depth[doc] = n THEN SecretsOf(f, doc) ELSE f[doc]]
  <2>2. ASSUME NEW doc \in Documents, Depth[doc] < n + 1 PROVE g[doc] = SecretsOf(g, doc)
    <3>1. \A k \in DOMAIN doc.items : g[doc.items[k]] = f[doc.items[k]]
      BY DepthFact, <2>2
    <3>2. SecretsOf(g, doc) = SecretsOf(f, doc)
      <4> HIDE DEF g
      <4> QED BY <3>1, SameItems
    <3>3. Depth[doc] # n => f[doc] = SecretsOf(f, doc)
      BY DepthFact, <2>1, <2>2 DEF SecretsBelow
    <3>4. g[doc] = IF Depth[doc] = n THEN SecretsOf(f, doc) ELSE f[doc]
      OBVIOUS
    <3> HIDE DEF g
    <3> QED BY <3>2, <3>3, <3>4
  <2> HIDE DEF g
  <2>3. SecretsBelow(g, n + 1)
    BY <2>2 DEF SecretsBelow
  <2> QED BY <2>3
<1> HIDE DEF T
<1>3. \A n \in Nat : n \in T
  BY <1>1, <1>2, NatSetInduction
<1> QED BY <1>3 DEF T

\* Any two of them read a document alike.
LEMMA SecretsBelowUnique ==
  ASSUME NEW m \in Nat, NEW n \in Nat, NEW f, NEW g, SecretsBelow(f, m), SecretsBelow(g, n),
         NEW doc \in Documents, Depth[doc] < m, Depth[doc] < n
  PROVE  f[doc] = g[doc]
<1> DEFINE Same(d) == Depth[d] < m /\ Depth[d] < n => f[d] = g[d]
           T == {k \in Nat : \A d \in Documents : Depth[d] < k => Same(d)}
<1>1. 0 \in T
  BY DepthFact
<1>2. ASSUME NEW k \in Nat, k \in T PROVE k + 1 \in T
  <2> SUFFICES ASSUME NEW d \in Documents, Depth[d] < k + 1, Depth[d] < m, Depth[d] < n
               PROVE  f[d] = g[d]
    OBVIOUS
  <2>1. ASSUME NEW j \in DOMAIN d.items PROVE f[d.items[j]] = g[d.items[j]]
    <3>1. /\ d.items[j] \in Documents /\ Depth[d.items[j]] < Depth[d]
          /\ Depth[d.items[j]] \in Nat /\ Depth[d] \in Nat
      BY DepthFact
    <3>2. Depth[d.items[j]] < k /\ Depth[d.items[j]] < m /\ Depth[d.items[j]] < n
      BY <3>1
    <3> QED BY <1>2, <3>1, <3>2
  <2>2. SecretsOf(f, d) = SecretsOf(g, d)
    BY <2>1, SameItems
  <2>3. f[d] = SecretsOf(f, d) /\ g[d] = SecretsOf(g, d)
    BY DEF SecretsBelow
  <2> QED BY <2>2, <2>3
<1> HIDE DEF T
<1>3. \A k \in Nat : k \in T
  BY <1>1, <1>2, NatSetInduction
<1>4. m \in T
  BY <1>3
<1> QED BY <1>4 DEF T

\* A text has an end, so the recursion of clusterSecretsFromDocument has one.
LEMMA SecretsFromDocument ==
  \A doc \in Documents :
    clusterSecretsFromDocument[doc] = SecretsOf(clusterSecretsFromDocument, doc)
<1> DEFINE Upto(n) == CHOOSE f : SecretsBelow(f, n)
           F == [doc \in Documents |-> Upto(Depth[doc] + 1)[doc]]
           Is(h) == h = [doc \in Documents |-> SecretsOf(h, doc)]
<1>1. \A n \in Nat : SecretsBelow(Upto(n), n)
  BY SecretsBelowExist
<1> HIDE DEF Upto
<1>2. ASSUME NEW doc \in Documents PROVE F[doc] = SecretsOf(F, doc)
  <2> DEFINE f == Upto(Depth[doc] + 1)
  <2>1. Depth[doc] \in Nat /\ Depth[doc] + 1 \in Nat /\ SecretsBelow(f, Depth[doc] + 1)
    BY <1>1, DepthFact
  <2>2. ASSUME NEW n \in DOMAIN doc.items PROVE F[doc.items[n]] = f[doc.items[n]]
    <3> DEFINE d == doc.items[n]
    <3>1. d \in Documents /\ Depth[d] < Depth[doc] /\ Depth[d] \in Nat
      BY DepthFact
    <3>2. F[d] = Upto(Depth[d] + 1)[d] /\ SecretsBelow(Upto(Depth[d] + 1), Depth[d] + 1)
      BY <1>1, <3>1
    <3> HIDE DEF d, F, f
    <3>3. Upto(Depth[d] + 1)[d] = f[d]
      BY <2>1, <3>1, <3>2, SecretsBelowUnique
    <3> QED BY <3>2, <3>3 DEF d
  <2>3. F[doc] = f[doc]
    OBVIOUS
  <2> HIDE DEF F, f
  <2>4. SecretsOf(F, doc) = SecretsOf(f, doc)
    BY <2>2, SameItems
  <2>5. f[doc] = SecretsOf(f, doc)
    BY <2>1 DEF SecretsBelow
  <2> QED BY <2>3, <2>4, <2>5
<1>3. Is(F)
  <2>1. F = [doc \in Documents |-> F[doc]]
    OBVIOUS
  <2> HIDE DEF F
  <2> QED BY <1>2, <2>1
<1>4. clusterSecretsFromDocument = CHOOSE h : Is(h)
  BY Zenon DEF clusterSecretsFromDocument
<1> HIDE DEF Is, F
<1>5. Is(clusterSecretsFromDocument)
  BY <1>3, <1>4
<1> QED BY <1>5 DEF Is

\* What is read of a document.
LEMMA DocumentRead ==
  ASSUME NEW doc \in Documents
  PROVE  LET read == clusterSecretsFromDocument[doc]
         IN  /\ read = [ok |-> read.ok, list |-> read.list] /\ read.ok \in BOOLEAN
             /\ Sequence(read.list) /\ (~read.ok => read.list = <<>>)
<1> DEFINE IsRead(read) ==
             /\ read = [ok |-> read.ok, list |-> read.list] /\ read.ok \in BOOLEAN
             /\ Sequence(read.list) /\ (~read.ok => read.list = <<>>)
           f == clusterSecretsFromDocument
           T == {k \in Nat : \A d \in Documents : Depth[d] < k => IsRead(f[d])}
<1>1. 0 \in T
  BY DepthFact
<1>2. ASSUME NEW k \in Nat, k \in T PROVE k + 1 \in T
  <2> SUFFICES ASSUME NEW d \in Documents, Depth[d] < k + 1 PROVE IsRead(f[d])
    <3> HIDE DEF IsRead
    <3> QED OBVIOUS
  <2>0. Depth[d] \in Nat /\ Sequence(d.items)
    BY DepthFact
  <2>1. ASSUME NEW j \in DOMAIN d.items PROVE IsRead(f[d.items[j]])
    <3>1. d.items[j] \in Documents /\ Depth[d.items[j]] < Depth[d] /\ Depth[d.items[j]] \in Nat
      BY DepthFact
    <3>2. Depth[d.items[j]] < k
      BY <2>0, <3>1
    <3> HIDE DEF IsRead, f
    <3> QED BY <1>2, <3>1, <3>2
  <2>2. f[d] = SecretsOf(f, d)
    BY SecretsFromDocument
  <2> DEFINE parts == [n \in DOMAIN d.items |-> f[d.items[n]]]
  <2>3. Sequence(parts)
    <3>1. parts = [n \in 1 .. Len(d.items) |-> parts[n]] /\ Len(d.items) \in Nat
      BY <2>0, SequenceProperties
    <3> HIDE DEF parts
    <3> QED BY <3>1, SequenceOf
  <2>4. \A n \in DOMAIN parts : parts[n].ok => Sequence(parts[n].list)
    BY <2>1
  <2> HIDE DEF f
  <2>5. IsRead(Together(parts))
    <3> HIDE DEF parts
    <3> QED BY <2>3, <2>4, TogetherIs
  <2>6. IsRead(Read(<<>>)) /\ IsRead(Rejected) /\ IsRead(Read(<<ClusterSecret(d)>>))
    <3>1. Sequence(<<ClusterSecret(d)>>)
      <4> DEFINE s == <<ClusterSecret(d)>>
      <4>1. s \in Seq({ClusterSecret(d)})
        OBVIOUS
      <4> HIDE DEF s
      <4>2. Sequence(s)
        BY <4>1, SequenceOver
      <4> QED BY <4>2 DEF s
    <3> QED BY <3>1, NoneIsSequence DEF Read, Rejected
  <2> HIDE DEF IsRead
  <2> QED BY <2>2, <2>5, <2>6 DEF SecretsOf
<1> HIDE DEF T
<1>3. \A k \in Nat : k \in T
  BY <1>1, <1>2, NatSetInduction
<1>4. Depth[doc] \in Nat /\ Depth[doc] + 1 \in T
  BY <1>3, DepthFact
<1> QED BY <1>4 DEF T

\* What documents and files are read as is a sequence.
LEMMA SecretListIs ==
  ASSUME NEW list \in SecretLists
  PROVE  Sequence(list)
<1>1. CASE list = <<>>
  BY <1>1, NoneIsSequence
<1>2. CASE \E held \in ClustersFiles : list = loadClusterSecrets(held).list
  <2>1. PICK held \in ClustersFiles : list = loadClusterSecrets(held).list
    BY <1>2
  <2>2. Sequence(held) /\ \A n \in DOMAIN held : held[n] \in Documents
    BY FileAssumption DEF Range
  <2> DEFINE parts == [n \in DOMAIN held |-> clusterSecretsFromDocument[held[n]]]
  <2>3. \A n \in DOMAIN parts : parts[n].ok => Sequence(parts[n].list)
    BY <2>2, DocumentRead
  <2>4. Sequence(parts)
    <3>1. parts = [n \in 1 .. Len(held) |-> parts[n]] /\ Len(held) \in Nat
      BY <2>2, SequenceProperties
    <3> HIDE DEF parts
    <3> QED BY <3>1, SequenceOf
  <2>5. loadClusterSecrets(held) = Together(parts)
    BY DEF loadClusterSecrets
  <2> HIDE DEF parts
  <2> QED BY <2>1, <2>3, <2>4, <2>5, TogetherIs
<1> QED BY <1>1, <1>2 DEF SecretLists

\* Flattening starts with the first.
LEMMA FlattenFirst ==
  ASSUME NEW s, Sequence(s), s # <<>>, \A n \in DOMAIN s : Sequence(s[n])
  PROVE  FlattenSeq(s) = Head(s) \o FlattenSeq(Tail(s))
<1>1. /\ s = <<Head(s)>> \o Tail(s) /\ Sequence(Tail(s)) /\ Sequence(Head(s))
      /\ \A n \in DOMAIN Tail(s) : Sequence(Tail(s)[n])
  BY HeadBeforeTail
<1> DEFINE h == <<Head(s)>>
<1>2. Sequence(h) /\ DOMAIN h = {1} /\ h[1] = Head(s)
  <2>1. h \in Seq({Head(s)})
    OBVIOUS
  <2>2. DOMAIN h = {1} /\ h[1] = Head(s)
    OBVIOUS
  <2> HIDE DEF h
  <2> QED BY <2>1, <2>2, SequenceOver
<1>3. FlattenSeq(h) = Head(s)
  <2>1. Head(s) \in Seq(Range(Head(s)))
    BY <1>1 DEF Sequence
  <2> QED BY <2>1, FlattenOne
<1>4. FlattenSeq(h \o Tail(s)) = FlattenSeq(h) \o FlattenSeq(Tail(s))
  <2> HIDE DEF h
  <2> QED BY <1>1, <1>2, FlattenTogether
<1> QED BY <1>1, <1>3, <1>4

\* Two sequences put together hold what one of them holds.
LEMMA ConcatRange ==
  ASSUME NEW s, NEW t, Sequence(s), Sequence(t)
  PROVE  Range(s \o t) = Range(s) \union Range(t)
<1>1. /\ Len(s) \in Nat /\ DOMAIN s = 1 .. Len(s) /\ Len(t) \in Nat /\ DOMAIN t = 1 .. Len(t)
      /\ DOMAIN (s \o t) = 1 .. (Len(s) + Len(t))
      /\ \A n \in DOMAIN (s \o t) : (s \o t)[n] = IF n <= Len(s) THEN s[n] ELSE t[n - Len(s)]
  BY ConcatSequence, SequenceProperties
<1> DEFINE u == s \o t
<1>2. ASSUME NEW n \in DOMAIN s PROVE n \in DOMAIN u /\ u[n] = s[n]
  BY <1>1
<1>3. ASSUME NEW n \in DOMAIN t PROVE n + Len(s) \in DOMAIN u /\ u[n + Len(s)] = t[n]
  BY <1>1
<1>4. ASSUME NEW n \in DOMAIN u PROVE u[n] \in Range(s) \union Range(t)
  BY <1>1 DEF Range
<1> HIDE DEF u
<1>5. Range(u) = Range(s) \union Range(t)
  BY <1>2, <1>3, <1>4 DEF Range
<1> QED BY <1>5 DEF u

\* What is in a flattened sequence is in one of its parts.
LEMMA FlattenRange ==
  ASSUME NEW s, Sequence(s), \A n \in DOMAIN s : Sequence(s[n])
  PROVE  Range(FlattenSeq(s)) = Joined(s)
<1> DEFINE Parts1(t) == Sequence(t) /\ \A n \in DOMAIN t : Sequence(t[n])
           S == Seq(Range(s))
           T == {k \in Nat : \A t \in S : Parts1(t) /\ Len(t) = k =>
                                            Range(FlattenSeq(t)) = Joined(t)}
<1>1. 0 \in T
  <2> SUFFICES ASSUME NEW t \in S, Parts1(t), Len(t) = 0 PROVE Range(FlattenSeq(t)) = Joined(t)
    OBVIOUS
  <2>1. t = <<>>
    BY SequenceProperties
  <2>2. Range(<<>>) = {} /\ Joined(<<>>) = {}
    BY DEF Range, Joined
  <2> QED BY <2>1, <2>2, FlattenEmpty
<1>2. ASSUME NEW k \in Nat, k \in T PROVE k + 1 \in T
  <2> SUFFICES ASSUME NEW t \in S, Parts1(t), Len(t) = k + 1
               PROVE  Range(FlattenSeq(t)) = Joined(t)
    OBVIOUS
  <2>1. t # <<>>
    BY SequenceProperties
  <2>2. /\ Parts1(Tail(t)) /\ Len(Tail(t)) = k /\ Sequence(Head(t)) /\ Head(t) = t[1] /\ 1 \in DOMAIN t
        /\ \A n \in DOMAIN Tail(t) : n + 1 \in DOMAIN t /\ Tail(t)[n] = t[n + 1]
    <3>1. /\ Sequence(Tail(t)) /\ Head(t) = t[1] /\ Len(Tail(t)) = Len(t) - 1 /\ 1 \in DOMAIN t
          /\ \A n \in DOMAIN Tail(t) : n + 1 \in DOMAIN t /\ Tail(t)[n] = t[n + 1]
      BY <2>1, HeadBeforeTail
    <3>2. Len(Tail(t)) = k
      BY <3>1
    <3> QED BY <3>1, <3>2
  <2>3. Tail(t) \in S
    BY <2>1
  <2>4. Range(FlattenSeq(Tail(t))) = Joined(Tail(t))
    BY <1>2, <2>2, <2>3
  <2>5. FlattenSeq(t) = Head(t) \o FlattenSeq(Tail(t)) /\ Sequence(FlattenSeq(Tail(t)))
    BY <2>1, <2>2, FlattenFirst, FlattenSequence
  <2>6. Range(FlattenSeq(t)) = Range(t[1]) \union Joined(Tail(t))
    BY <2>2, <2>4, <2>5, ConcatRange
  <2>7. ASSUME NEW n \in DOMAIN t PROVE n = 1 \/ (n - 1 \in DOMAIN Tail(t) /\ Tail(t)[n - 1] = t[n])
    <3>1. DOMAIN t = 1 .. (k + 1) /\ DOMAIN Tail(t) = 1 .. k
      BY <2>2, SequenceProperties
    <3>2. n = 1 \/ n - 1 \in DOMAIN Tail(t)
      BY <3>1
    <3>3. n - 1 + 1 = n
      BY <3>1
    <3> QED BY <2>2, <3>2, <3>3
  <2>8. Joined(t) = Range(t[1]) \union Joined(Tail(t))
    <3>1. \A x : x \in Joined(t) <=> \E n \in DOMAIN t : x \in Range(t[n])
      BY DEF Joined
    <3>2. \A x : x \in Joined(Tail(t)) <=> \E n \in DOMAIN Tail(t) : x \in Range(Tail(t)[n])
      BY DEF Joined
    <3> QED BY <2>2, <2>7, <3>1, <3>2
  <2> QED BY <2>6, <2>8
<1> HIDE DEF T
<1>3. \A k \in Nat : k \in T
  BY <1>1, <1>2, NatSetInduction
<1>4. s \in S /\ Len(s) \in T
  BY <1>3, SequenceProperties DEF Sequence
<1> QED BY <1>4 DEF T

\* One thing is a sequence.
LEMMA OneIsSequence ==
  ASSUME NEW x
  PROVE  Sequence(<<x>>) /\ Range(<<x>>) = {x} /\ Len(<<x>>) = 1
<1> DEFINE s == <<x>>
<1>1. s \in Seq({x}) /\ DOMAIN s = {1} /\ s[1] = x /\ Len(s) = 1
  OBVIOUS
<1> HIDE DEF s
<1>2. Sequence(s) /\ Range(s) = {x}
  BY <1>1, SequenceOver DEF Range
<1> QED BY <1>1, <1>2 DEF s

\* What is kept of a list is what the places kept hold.
LEMMA OnlyAtIs ==
  ASSUME NEW list, Sequence(list), NEW places, places \subseteq DOMAIN list
  PROVE  Sequence(OnlyAt(places, list)) /\ Range(OnlyAt(places, list)) = {list[n] : n \in places}
<1> DEFINE parts == [n \in DOMAIN list |-> IF n \in places THEN <<list[n]>> ELSE <<>>]
<1>1. Sequence(parts) /\ DOMAIN parts = DOMAIN list
  <2>1. parts = [n \in 1 .. Len(list) |-> parts[n]] /\ Len(list) \in Nat
    BY SequenceProperties
  <2>2. DOMAIN parts = DOMAIN list
    OBVIOUS
  <2> HIDE DEF parts
  <2> QED BY <2>1, <2>2, SequenceOf
<1>2. \A n \in DOMAIN parts : /\ Sequence(parts[n])
                              /\ Range(parts[n]) = IF n \in places THEN {list[n]} ELSE {}
  <2> SUFFICES ASSUME NEW n \in DOMAIN list
               PROVE  /\ Sequence(parts[n])
                      /\ Range(parts[n]) = IF n \in places THEN {list[n]} ELSE {}
    OBVIOUS
  <2>1. parts[n] = IF n \in places THEN <<list[n]>> ELSE <<>>
    OBVIOUS
  <2>2. Range(<<>>) = {}
    BY DEF Range
  <2> HIDE DEF parts
  <2> QED BY <2>1, <2>2, OneIsSequence, NoneIsSequence
<1>3. OnlyAt(places, list) = FlattenSeq(parts)
  BY DEF OnlyAt
<1> HIDE DEF parts
<1>4. Sequence(FlattenSeq(parts)) /\ Range(FlattenSeq(parts)) = Joined(parts)
  BY <1>1, <1>2, FlattenSequence, FlattenRange
<1>5. Joined(parts) = {list[n] : n \in places}
  <2>1. \A x : x \in Joined(parts) <=> \E n \in DOMAIN list : x \in Range(parts[n])
    BY <1>1 DEF Joined
  <2> QED BY <1>1, <1>2, <2>1
<1> QED BY <1>3, <1>4, <1>5

-----------------------------------------------------------------------------
\* What generators yield

\* What is made of a sequence one by one is a sequence as long.
LEMMA MapIsSequence ==
  ASSUME NEW s, Sequence(s), NEW f, f = [n \in DOMAIN s |-> f[n]]
  PROVE  Sequence(f) /\ Len(f) = Len(s) /\ DOMAIN f = DOMAIN s
<1>1. Len(s) \in Nat /\ DOMAIN s = 1 .. Len(s)
  BY SequenceProperties
<1> QED BY <1>1, SequenceOf

\* What a call of a generator comes to: parameters, or a failure without any.
IsResult(result) ==
  /\ result = [ok |-> result.ok, params |-> result.params] /\ result.ok \in BOOLEAN
  /\ Sequence(result.params) /\ (~result.ok => result.params = <<>>)

\* A generator that fails yields nothing.
LEMMA FailureIs == IsResult(Failure) /\ ~Failure.ok /\ Failure.params = <<>>
BY NoneIsSequence DEF IsResult, Failure

\* A generator that does not fail yields parameters.
LEMMA YieldIs ==
  ASSUME NEW params, Sequence(params)
  PROVE  IsResult(Yield(params)) /\ Yield(params).ok /\ Yield(params).params = params
BY DEF IsResult, Yield

\* A provider reports the pull requests of its repository that pass its filters.
LEMMA SelectedIs ==
  ASSUME NEW generator, NEW list, Sequence(list)
  PROVE  /\ Sequence(Selected(generator, list))
         /\ Range(Selected(generator, list)) =
              {pull \in Range(list) : Reported(generator, pull) /\ PassesFilters(generator, pull)}
<1> DEFINE places == {n \in DOMAIN list : Reported(generator, list[n]) /\ PassesFilters(generator, list[n])}
<1>1. Selected(generator, list) = OnlyAt(places, list)
  BY DEF Selected
<1>2. {list[n] : n \in places} =
        {pull \in Range(list) : Reported(generator, pull) /\ PassesFilters(generator, pull)}
  BY DEF Range
<1>3. places \subseteq DOMAIN list
  OBVIOUS
<1> HIDE DEF places
<1> QED BY <1>1, <1>2, <1>3, OnlyAtIs

\* What any generator comes to is parameters or a failure.
LEMMA ResultIs ==
  ASSUME NEW generator, PlainGenerator(generator), NEW goTemplate, NEW held \in Versions,
         NEW list \in SecretLists
  PROVE  IsResult(ResultOf(generator, goTemplate, held, list))
<1> DEFINE R == ResultOf(generator, goTemplate, held, list)
<1>1. CASE generator.kind = "list"
  <2> DEFINE f == [n \in DOMAIN generator.elements |-> Element(generator.elements[n])]
  <2>1. Sequence(f)
    <3>1. Sequence(generator.elements) /\ f = [n \in DOMAIN generator.elements |-> f[n]]
      BY <1>1 DEF PlainGenerator
    <3> HIDE DEF f
    <3> QED BY <3>1, MapIsSequence
  <2>2. R = Yield(f)
    BY <1>1 DEF ResultOf
  <2> HIDE DEF f, R
  <2> QED BY <2>1, <2>2, YieldIs DEF R
<1>2. CASE generator.kind = "clusters"
  <2> DEFINE f == [n \in DOMAIN list |-> Cluster(list[n])]
  <2>1. Sequence(f)
    <3>1. Sequence(list) /\ f = [n \in DOMAIN list |-> f[n]]
      BY SecretListIs
    <3> HIDE DEF f
    <3> QED BY <3>1, MapIsSequence
  <2>2. R = Yield(<<InCluster>> \o f)
    BY <1>2 DEF ResultOf
  <2> HIDE DEF f, R
  <2>3. Sequence(<<InCluster>> \o f)
    BY <2>1, OneIsSequence, ConcatSequence
  <2> QED BY <2>2, <2>3, YieldIs DEF R
<1>3. CASE generator.kind = "pullRequest"
  <2> DEFINE G == GenerateParams(generator, held.list, goTemplate)
  <2>1. IsResult(G)
    <3> DEFINE selected == Selected(generator, held.list)
               params == [n \in DOMAIN selected |-> ParamsOf(selected[n], goTemplate)]
               f == [n \in DOMAIN selected |->
                       PullRequest(appendValues(generator.values, params[n], goTemplate))]
    <3>1. Sequence(held.list)
      BY VersionIs
    <3>2. G = Failure \/ G = Yield(f)
      BY DEF GenerateParams
    <3>3. f = [n \in DOMAIN selected |-> f[n]]
      OBVIOUS
    <3>4. Sequence(selected)
      BY <3>1, SelectedIs
    <3> HIDE DEF f, selected, G
    <3>5. Sequence(f)
      BY <3>3, <3>4, MapIsSequence
    <3> QED BY <3>2, <3>5, YieldIs, FailureIs
  <2>2. R = IF held.ok THEN G ELSE Failure
    BY <1>3 DEF ResultOf
  <2> HIDE DEF R, G
  <2> QED BY <2>1, <2>2, FailureIs DEF R
<1>4. CASE generator.kind = "remote"
  <2>1. R = Failure
    BY <1>4 DEF ResultOf
  <2> HIDE DEF R
  <2> QED BY <2>1, FailureIs DEF R
<1> QED BY <1>1, <1>2, <1>3, <1>4 DEF PlainGenerator

\* Of a matrix no generator is called yet, or the first.
ItemOK(i) ==
  /\ i = [of |-> i.of, row |-> i.row, todo |-> i.todo]
  /\ Sequence(i.row) /\ Sequence(i.todo) /\ Len(i.todo) \in {1, 2}
  /\ \A n \in DOMAIN i.todo : PlainGenerator(i.todo[n])
  /\ Len(i.todo) = 2 => i.row = <<>>

\* What an item of the agenda will come to.
ItemResult(i, goTemplate, held, list) ==
  IF Len(i.todo) = 2 THEN RowsOf(i.todo, goTemplate, held, list)
  ELSE LET result == ResultOf(i.todo[1], goTemplate, held, list)
       IN  IF result.ok THEN Yield([n \in DOMAIN result.params |-> Append(i.row, result.params[n])])
           ELSE Failure

\* So for every item.
ItemResults(items, goTemplate, held, list) ==
  [n \in DOMAIN items |-> ItemResult(items[n], goTemplate, held, list)]

\* Whether none of several calls fails, and what their parameters are together.
AllOk(results) == \A n \in DOMAIN results : results[n].ok
Combined(results) == FlattenSeq([n \in DOMAIN results |-> results[n].params])

\* So is what a list of generators, or a matrix of two, comes to.
LEMMA RowsIs ==
  ASSUME NEW parts, Sequence(parts), Len(parts) \in {1, 2}, \A n \in DOMAIN parts : PlainGenerator(parts[n]),
         NEW goTemplate, NEW held \in Versions, NEW list \in SecretLists
  PROVE  IsResult(RowsOf(parts, goTemplate, held, list))
<1> DEFINE outer == ResultOf(parts[1], goTemplate, held, list)
           inner == ResultOf(parts[2], goTemplate, held, list)
           single == [n \in DOMAIN outer.params |-> <<outer.params[n]>>]
           With(m) == [n \in DOMAIN inner.params |-> <<outer.params[m], inner.params[n]>>]
           pairs == [m \in DOMAIN outer.params |-> With(m)]
           R == RowsOf(parts, goTemplate, held, list)
<1>1. 1 \in DOMAIN parts /\ (Len(parts) = 2 => 2 \in DOMAIN parts)
  BY SequenceProperties
<1>2. R = Failure \/ (Len(parts) = 1 /\ R = Yield(single))
        \/ (Len(parts) = 2 /\ R = Yield(FlattenSeq(pairs)))
  BY DEF RowsOf
<1>3. IsResult(outer) /\ (Len(parts) = 2 => IsResult(inner))
  BY <1>1, ResultIs
<1>4. Sequence(single)
  <2>1. Sequence(outer.params) /\ single = [n \in DOMAIN outer.params |-> single[n]]
    BY <1>3 DEF IsResult
  <2> HIDE DEF outer, single
  <2> QED BY <2>1, MapIsSequence
<1>5. ASSUME Len(parts) = 2 PROVE Sequence(FlattenSeq(pairs))
  <2>1. Sequence(outer.params) /\ Sequence(inner.params)
    BY <1>3, <1>5 DEF IsResult
  <2>2. pairs = [m \in DOMAIN outer.params |-> pairs[m]] /\ \A m \in DOMAIN outer.params : pairs[m] = With(m)
    OBVIOUS
  <2>3. ASSUME NEW m PROVE Sequence(With(m))
    <3> DEFINE w == With(m)
    <3>1. w = [n \in DOMAIN inner.params |-> w[n]]
      OBVIOUS
    <3> HIDE DEF w, inner, outer
    <3>2. Sequence(w)
      BY <2>1, <3>1, MapIsSequence
    <3> QED BY <3>2 DEF w
  <2> HIDE DEF outer, inner, pairs, With
  <2>4. Sequence(pairs) /\ DOMAIN pairs = DOMAIN outer.params
    BY <2>1, <2>2, MapIsSequence
  <2>5. \A m \in DOMAIN pairs : Sequence(pairs[m])
    BY <2>2, <2>3, <2>4
  <2> QED BY <2>4, <2>5, FlattenSequence
<1> HIDE DEF outer, inner, single, pairs, R
<1>6. IsResult(R)
  BY <1>2, <1>4, <1>5, YieldIs, FailureIs
<1> QED BY <1>6 DEF R

\* So is what an item of the agenda comes to.
LEMMA ItemResultIs ==
  ASSUME NEW i, ItemOK(i), NEW goTemplate, NEW held \in Versions, NEW list \in SecretLists
  PROVE  IsResult(ItemResult(i, goTemplate, held, list))
<1>1. CASE Len(i.todo) = 2
  BY <1>1, RowsIs DEF ItemOK, ItemResult
<1>2. CASE Len(i.todo) # 2
  <2> DEFINE result == ResultOf(i.todo[1], goTemplate, held, list)
             rows == [n \in DOMAIN result.params |-> Append(i.row, result.params[n])]
  <2>1. 1 \in DOMAIN i.todo
    BY <1>2, SequenceProperties DEF ItemOK
  <2>2. IsResult(result)
    BY <2>1, ResultIs DEF ItemOK
  <2>3. ItemResult(i, goTemplate, held, list) = IF result.ok THEN Yield(rows) ELSE Failure
    BY <1>2 DEF ItemResult
  <2>4. rows = [n \in DOMAIN result.params |-> rows[n]]
    OBVIOUS
  <2> HIDE DEF result, rows
  <2>5. Sequence(rows)
    BY <2>2, <2>4, MapIsSequence DEF IsResult
  <2> QED BY <2>3, <2>5, YieldIs, FailureIs
<1> QED BY <1>1, <1>2

\* What several results combine to is a sequence.
LEMMA CombinedIs ==
  ASSUME NEW r, Sequence(r), \A n \in DOMAIN r : IsResult(r[n])
  PROVE  LET p == [n \in DOMAIN r |-> r[n].params]
         IN  /\ Sequence(p) /\ Len(p) = Len(r) /\ (\A n \in DOMAIN p : Sequence(p[n]))
             /\ Sequence(Combined(r))
<1> DEFINE p == [n \in DOMAIN r |-> r[n].params]
<1>1. p = [n \in DOMAIN r |-> p[n]] /\ Combined(r) = FlattenSeq(p) /\ \A n \in DOMAIN r : p[n] = r[n].params
  BY DEF Combined
<1>2. \A n \in DOMAIN r : Sequence(r[n].params)
  BY DEF IsResult
<1> HIDE DEF p
<1>3. Sequence(p) /\ Len(p) = Len(r) /\ \A n \in DOMAIN p : Sequence(p[n])
  BY <1>1, <1>2, MapIsSequence
<1>4. Sequence(Combined(r))
  BY <1>1, <1>3, FlattenSequence
<1> QED BY <1>3, <1>4 DEF p

\* Results may be put together before or after they are combined.
LEMMA CombinedTogether ==
  ASSUME NEW r, NEW s, Sequence(r), Sequence(s),
         \A n \in DOMAIN r : IsResult(r[n]), \A n \in DOMAIN s : IsResult(s[n])
  PROVE  /\ Combined(r \o s) = Combined(r) \o Combined(s)
         /\ AllOk(r \o s) <=> AllOk(r) /\ AllOk(s)
<1> DEFINE t == r \o s
           p(q) == [n \in DOMAIN q |-> q[n].params]
<1>1. /\ Sequence(t) /\ Len(t) = Len(r) + Len(s) /\ DOMAIN t = 1 .. (Len(r) + Len(s))
      /\ \A n \in DOMAIN t : t[n] = IF n <= Len(r) THEN r[n] ELSE s[n - Len(r)]
      /\ Len(r) \in Nat /\ Len(s) \in Nat /\ DOMAIN r = 1 .. Len(r) /\ DOMAIN s = 1 .. Len(s)
  BY ConcatSequence, SequenceProperties
<1>2. /\ Sequence(p(r)) /\ Len(p(r)) = Len(r) /\ (\A n \in DOMAIN p(r) : Sequence(p(r)[n]))
      /\ Sequence(p(s)) /\ Len(p(s)) = Len(s) /\ (\A n \in DOMAIN p(s) : Sequence(p(s)[n]))
  <2> HIDE DEF p
  <2> QED BY CombinedIs DEF p
<1> DEFINE pr == p(r)
           ps == p(s)
           pt == p(t)
<1>3. /\ \A n \in DOMAIN r : pr[n] = r[n].params
      /\ \A n \in DOMAIN s : ps[n] = s[n].params
      /\ pt = [n \in DOMAIN t |-> t[n].params]
  OBVIOUS
<1>4. Combined(t) = FlattenSeq(pt) /\ Combined(r) = FlattenSeq(pr) /\ Combined(s) = FlattenSeq(ps)
  BY DEF Combined
<1>5. (\A n \in DOMAIN pr : Sequence(pr[n])) /\ \A n \in DOMAIN ps : Sequence(ps[n])
  BY <1>2
<1>6. Sequence(pr) /\ Sequence(ps) /\ Len(pr) = Len(r) /\ Len(ps) = Len(s)
  BY <1>2
<1>7. ASSUME NEW n \in DOMAIN r PROVE n \in DOMAIN t /\ t[n] = r[n]
  BY <1>1
<1>8. ASSUME NEW n \in DOMAIN s PROVE n + Len(r) \in DOMAIN t /\ t[n + Len(r)] = s[n]
  BY <1>1
<1>9. ASSUME NEW n \in DOMAIN t
      PROVE  \/ n \in DOMAIN r /\ t[n] = r[n] /\ n <= Len(r)
             \/ n - Len(r) \in DOMAIN s /\ t[n] = s[n - Len(r)] /\ ~(n <= Len(r))
  BY <1>1
<1> HIDE DEF p, pr, ps, pt, t
<1>10. pt = pr \o ps
  <2>1. /\ Sequence(pr \o ps) /\ Len(pr \o ps) = Len(r) + Len(s)
        /\ \A n \in DOMAIN (pr \o ps) : (pr \o ps)[n] = IF n <= Len(r) THEN pr[n] ELSE ps[n - Len(r)]
    BY <1>6, ConcatSequence
  <2>2. DOMAIN (pr \o ps) = DOMAIN t /\ (pr \o ps) = [n \in DOMAIN (pr \o ps) |-> (pr \o ps)[n]]
    BY <1>1, <2>1, SequenceProperties
  <2>3. ASSUME NEW n \in DOMAIN t PROVE (pr \o ps)[n] = t[n].params
    BY <1>3, <1>9, <2>1, <2>2
  <2> QED BY <1>3, <2>2, <2>3
<1>11. FlattenSeq(pr \o ps) = FlattenSeq(pr) \o FlattenSeq(ps)
  BY <1>5, <1>6, FlattenTogether
<1>12. Combined(t) = Combined(r) \o Combined(s)
  BY <1>4, <1>10, <1>11
<1>13. AllOk(t) <=> AllOk(r) /\ AllOk(s)
  BY <1>7, <1>8, <1>9 DEF AllOk
<1> QED BY <1>12, <1>13 DEF t

\* Every item of the agenda comes to a result.
LEMMA ResultsAre ==
  ASSUME NEW items, Sequence(items), \A n \in DOMAIN items : ItemOK(items[n]),
         NEW goTemplate, NEW held \in Versions, NEW list \in SecretLists
  PROVE  LET r == ItemResults(items, goTemplate, held, list)
         IN  /\ Sequence(r) /\ DOMAIN r = DOMAIN items /\ Len(r) = Len(items)
             /\ \A n \in DOMAIN r : IsResult(r[n]) /\ r[n] = ItemResult(items[n], goTemplate, held, list)
<1> DEFINE r == ItemResults(items, goTemplate, held, list)
<1>1. /\ r = [n \in DOMAIN items |-> r[n]]
      /\ \A n \in DOMAIN items : r[n] = ItemResult(items[n], goTemplate, held, list)
  BY DEF ItemResults
<1>2. \A n \in DOMAIN items : IsResult(ItemResult(items[n], goTemplate, held, list))
  BY ItemResultIs
<1> HIDE DEF r
<1>3. Sequence(r) /\ DOMAIN r = DOMAIN items /\ Len(r) = Len(items)
  BY <1>1, MapIsSequence
<1> QED BY <1>1, <1>2, <1>3 DEF r

\* Items may be put together before or after they come to their results.
LEMMA ResultsTogether ==
  ASSUME NEW x, NEW y, Sequence(x), Sequence(y),
         NEW goTemplate, NEW held, NEW list
  PROVE  ItemResults(x \o y, goTemplate, held, list) =
           ItemResults(x, goTemplate, held, list) \o ItemResults(y, goTemplate, held, list)
<1> DEFINE Result(i) == ItemResult(i, goTemplate, held, list)
           t == x \o y
           rx == [n \in DOMAIN x |-> Result(x[n])]
           ry == [n \in DOMAIN y |-> Result(y[n])]
           rt == [n \in DOMAIN t |-> Result(t[n])]
<1>1. /\ Sequence(t) /\ Len(t) = Len(x) + Len(y) /\ DOMAIN t = 1 .. (Len(x) + Len(y))
      /\ \A n \in DOMAIN t : t[n] = IF n <= Len(x) THEN x[n] ELSE y[n - Len(x)]
      /\ Len(x) \in Nat /\ Len(y) \in Nat /\ DOMAIN x = 1 .. Len(x) /\ DOMAIN y = 1 .. Len(y)
  BY ConcatSequence, SequenceProperties
<1>2. rx = [n \in DOMAIN x |-> rx[n]] /\ ry = [n \in DOMAIN y |-> ry[n]]
  OBVIOUS
<1>3. (\A n \in DOMAIN x : rx[n] = Result(x[n])) /\ (\A n \in DOMAIN y : ry[n] = Result(y[n]))
  OBVIOUS
<1>4. /\ ItemResults(t, goTemplate, held, list) = rt
      /\ ItemResults(x, goTemplate, held, list) = rx
      /\ ItemResults(y, goTemplate, held, list) = ry
  BY DEF ItemResults
<1>5. rt = [n \in DOMAIN t |-> Result(t[n])]
  OBVIOUS
<1> HIDE DEF rx, ry, rt, t, Result
<1>6. Sequence(rx) /\ Len(rx) = Len(x) /\ Sequence(ry) /\ Len(ry) = Len(y)
  BY <1>2, MapIsSequence
<1>7. /\ Sequence(rx \o ry) /\ Len(rx \o ry) = Len(x) + Len(y)
      /\ \A n \in DOMAIN (rx \o ry) : (rx \o ry)[n] = IF n <= Len(x) THEN rx[n] ELSE ry[n - Len(x)]
  BY <1>6, ConcatSequence
<1>8. DOMAIN (rx \o ry) = DOMAIN t /\ (rx \o ry) = [n \in DOMAIN (rx \o ry) |-> (rx \o ry)[n]]
  BY <1>1, <1>7, SequenceProperties
<1>9. ASSUME NEW n \in DOMAIN t PROVE (rx \o ry)[n] = Result(t[n])
  <2>1. \/ n \in DOMAIN x /\ t[n] = x[n] /\ n <= Len(x)
        \/ n - Len(x) \in DOMAIN y /\ t[n] = y[n - Len(x)] /\ ~(n <= Len(x))
    BY <1>1
  <2> QED BY <1>3, <1>7, <1>8, <2>1
<1>10. rt = rx \o ry
  BY <1>5, <1>8, <1>9
<1> QED BY <1>4, <1>10 DEF t

\* What goes on to the second generator of a matrix, and what is complete.
Onward(i, params) ==
  IF Len(i.todo) = 1 THEN <<>>
  ELSE [n \in DOMAIN params |-> [i EXCEPT !.row = Append(i.row, params[n]), !.todo = Tail(i.todo)]]
Complete(i, params) ==
  IF Len(i.todo) = 1 THEN [n \in DOMAIN params |-> Append(i.row, params[n])] ELSE <<>>

\* After the first of two comes the second.
LEMMA TailOfTwo ==
  ASSUME NEW s, Sequence(s), Len(s) = 2
  PROVE  Tail(s) = <<s[2]>>
<1> DEFINE t == Tail(s)
<1>1. s # <<>>
  BY SequenceProperties
<1>2. Sequence(t) /\ Len(t) = 1 /\ \A n \in DOMAIN t : t[n] = s[n + 1]
  <2>1. Sequence(t) /\ Len(t) = Len(s) - 1 /\ \A n \in DOMAIN t : t[n] = s[n + 1]
    BY <1>1, HeadBeforeTail
  <2> QED BY <2>1
<1> HIDE DEF t
<1>3. t = [n \in 1 .. 1 |-> t[n]] /\ DOMAIN t = 1 .. 1
  BY <1>2, SequenceProperties
<1>4. t[1] = s[1 + 1]
  BY <1>2, <1>3
<1>5. t = [n \in 1 .. 1 |-> s[2]]
  BY <1>3, <1>4
<1>6. <<s[2]>> = [n \in 1 .. 1 |-> s[2]]
  OBVIOUS
<1> QED BY <1>5, <1>6 DEF t

\* What has no places is empty.
LEMMA NothingInNone ==
  ASSUME NEW s, Sequence(s)
  PROVE  s = <<>> <=> DOMAIN s = {}
<1>1. Len(s) \in Nat /\ DOMAIN s = 1 .. Len(s) /\ (s = <<>> <=> Len(s) = 0)
  BY SequenceProperties
<1>2. Len(s) = 0 => 1 .. Len(s) = {}
  BY <1>1
<1>3. Len(s) # 0 => 1 \in 1 .. Len(s)
  BY <1>1
<1> QED BY <1>1, <1>2, <1>3

\* Appending to one thing makes two.
LEMMA AppendTwo == \A x, y : Append(<<x>>, y) = <<x, y>>
<1> SUFFICES ASSUME NEW x, NEW y PROVE Append(<<x>>, y) = <<x, y>>
  OBVIOUS
<1> DEFINE S == {x, y}
           a == Append(<<x>>, y)
           b == <<x, y>>
<1>1. <<x>> \in Seq(S) /\ y \in S /\ Len(<<x>>) = 1 /\ <<x>>[1] = x
  OBVIOUS
<1>2. /\ Len(a) = 2 /\ a[1] = x /\ a[2] = y /\ a \in Seq(S)
  BY <1>1, AppendProperties
<1>3. Len(b) = 2 /\ b[1] = x /\ b[2] = y /\ b \in Seq(S)
  OBVIOUS
<1> HIDE DEF a, b
<1>4. a = b
  BY <1>2, <1>3, SeqEqual
<1> QED BY <1>4 DEF a, b

\* What Yield and Failure hold.
LEMMA ResultParts ==
  /\ \A params : Yield(params).ok = TRUE /\ Yield(params).params = params
  /\ Failure.ok = FALSE /\ Failure.params = <<>>
BY DEF Yield, Failure

\* An item has one generator to call, or the two of a matrix and no row yet.
LEMMA ItemFacts ==
  ASSUME NEW i, ItemOK(i)
  PROVE  /\ 1 \in DOMAIN i.todo /\ PlainGenerator(i.todo[1]) /\ Head(i.todo) = i.todo[1]
         /\ Len(i.todo) = 1 \/ Len(i.todo) = 2
         /\ Len(i.todo) = 2 =>
              /\ 2 \in DOMAIN i.todo /\ PlainGenerator(i.todo[2]) /\ i.row = <<>>
              /\ Tail(i.todo) = <<i.todo[2]>>
<1>1. Sequence(i.todo) /\ Len(i.todo) \in {1, 2} /\ DOMAIN i.todo = 1 .. Len(i.todo)
  BY SequenceProperties DEF ItemOK
<1>2. i.todo # <<>>
  BY <1>1, SequenceProperties
<1>3. ASSUME Len(i.todo) = 2 PROVE Tail(i.todo) = <<i.todo[2]>>
  BY <1>1, <1>3, TailOfTwo
<1>4. Head(i.todo) = i.todo[1]
  BY <1>1, <1>2, HeadBeforeTail
<1> QED BY <1>1, <1>3, <1>4 DEF ItemOK

\* What the first generator of a matrix yields goes on to the second, row by row.
LEMMA OnwardIs ==
  ASSUME NEW i, ItemOK(i), NEW params, Sequence(params)
  PROVE  /\ Sequence(Onward(i, params)) /\ \A n \in DOMAIN Onward(i, params) : ItemOK(Onward(i, params)[n])
         /\ Sequence(Complete(i, params))
         /\ Len(i.todo) = 2 =>
              /\ DOMAIN Onward(i, params) = DOMAIN params
              /\ \A n \in DOMAIN params : /\ Onward(i, params)[n].todo = <<i.todo[2]>>
                                          /\ Onward(i, params)[n].row = <<params[n]>>
<1>1. CASE Len(i.todo) = 1
  <2> DEFINE c == [n \in DOMAIN params |-> Append(i.row, params[n])]
  <2>1. Onward(i, params) = <<>> /\ Complete(i, params) = c
    BY <1>1 DEF Onward, Complete
  <2>2. c = [n \in DOMAIN params |-> c[n]]
    OBVIOUS
  <2> HIDE DEF c
  <2>3. Sequence(c)
    BY <2>2, MapIsSequence
  <2>4. DOMAIN <<>> = {}
    OBVIOUS
  <2> QED BY <1>1, <2>1, <2>3, <2>4, NoneIsSequence
<1>2. CASE Len(i.todo) = 2
  <2> DEFINE o == [n \in DOMAIN params |-> [i EXCEPT !.row = Append(i.row, params[n]), !.todo = Tail(i.todo)]]
  <2>1. Onward(i, params) = o /\ Complete(i, params) = <<>>
    BY <1>2 DEF Onward, Complete
  <2>2. o = [n \in DOMAIN params |-> o[n]] /\ DOMAIN o = DOMAIN params
    OBVIOUS
  <2>3. Tail(i.todo) = <<i.todo[2]>> /\ i.row = <<>> /\ PlainGenerator(i.todo[2])
    BY <1>2, ItemFacts
  <2>4. i = [of |-> i.of, row |-> i.row, todo |-> i.todo]
    BY DEF ItemOK
  <2>5. ASSUME NEW n \in DOMAIN params
        PROVE  o[n] = [of |-> i.of, row |-> <<params[n]>>, todo |-> <<i.todo[2]>>]
    <3>1. Append(<<>>, params[n]) = <<params[n]>>
      OBVIOUS
    <3>2. o[n] = [i EXCEPT !.row = Append(i.row, params[n]), !.todo = Tail(i.todo)]
      OBVIOUS
    <3> HIDE DEF o
    <3>3. o[n] = [i EXCEPT !.row = <<params[n]>>, !.todo = <<i.todo[2]>>]
      BY <2>3, <3>1, <3>2
    <3> QED BY <2>4, <3>3
  <2> HIDE DEF o
  <2>6. ASSUME NEW n \in DOMAIN params PROVE ItemOK(o[n])
    <3> DEFINE row == <<params[n]>>
               todo == <<i.todo[2]>>
    <3>1. /\ Sequence(row) /\ Sequence(todo) /\ Len(todo) = 1 /\ DOMAIN todo = {1} /\ todo[1] = i.todo[2]
      BY OneIsSequence
    <3> HIDE DEF row, todo
    <3>2. o[n] = [of |-> i.of, row |-> row, todo |-> todo]
      BY <2>5 DEF row, todo
    <3> QED BY <2>3, <3>1, <3>2 DEF ItemOK
  <2>7. Sequence(o)
    BY <2>2, MapIsSequence
  <2>8. ASSUME NEW n \in DOMAIN params PROVE o[n].todo = <<i.todo[2]>> /\ o[n].row = <<params[n]>>
    <3> DEFINE row == <<params[n]>>
               todo == <<i.todo[2]>>
    <3> HIDE DEF row, todo
    <3>1. o[n] = [of |-> i.of, row |-> row, todo |-> todo]
      BY <2>5 DEF row, todo
    <3>2. o[n].todo = todo /\ o[n].row = row
      BY <3>1
    <3> QED BY <3>2 DEF row, todo
  <2> QED BY <2>1, <2>2, <2>6, <2>7, <2>8, NoneIsSequence
<1> QED BY <1>1, <1>2, ItemFacts

\* What the second generator of a matrix yields for each row of the first is what the
\* matrix yields.
LEMMA MatrixOnward ==
  ASSUME NEW i, ItemOK(i), Len(i.todo) = 2,
         NEW goTemplate, NEW held \in Versions, NEW list \in SecretLists,
         ResultOf(i.todo[1], goTemplate, held, list).ok
  PROVE  LET params == ResultOf(i.todo[1], goTemplate, held, list).params
             r == ItemResults(Onward(i, params), goTemplate, held, list)
             matrix == ItemResult(i, goTemplate, held, list)
         IN  /\ AllOk(r) <=> matrix.ok
             /\ matrix.ok => Combined(r) = matrix.params
<1> DEFINE outer == ResultOf(i.todo[1], goTemplate, held, list)
           inner == ResultOf(i.todo[2], goTemplate, held, list)
           params == outer.params
           o == Onward(i, params)
           r == ItemResults(o, goTemplate, held, list)
           matrix == ItemResult(i, goTemplate, held, list)
           Pairs(m) == [n \in DOMAIN inner.params |-> <<params[m], inner.params[n]>>]
           pairs == [m \in DOMAIN params |-> Pairs(m)]
<1>1. IsResult(outer) /\ IsResult(inner)
  BY ItemFacts, ResultIs
<1>2. /\ Sequence(o) /\ DOMAIN o = DOMAIN params
      /\ \A n \in DOMAIN params : ItemOK(o[n]) /\ o[n].todo = <<i.todo[2]>> /\ o[n].row = <<params[n]>>
  <2> HIDE DEF outer, o
  <2> QED BY <1>1, OnwardIs DEF IsResult, o
<1>3. matrix = IF params # <<>> /\ ~inner.ok THEN Failure ELSE Yield(FlattenSeq(pairs))
  BY DEF ItemResult, RowsOf
<1>4. /\ DOMAIN r = DOMAIN o
      /\ \A n \in DOMAIN o : r[n] = ItemResult(o[n], goTemplate, held, list)
      /\ Combined(r) = FlattenSeq([n \in DOMAIN r |-> r[n].params])
  BY DEF ItemResults, Combined
<1>5. ASSUME NEW n \in DOMAIN params
      PROVE  r[n] = IF inner.ok THEN Yield(Pairs(n)) ELSE Failure
  <2> DEFINE rows == [k \in DOMAIN inner.params |-> Append(<<params[n]>>, inner.params[k])]
  <2>1. Len(o[n].todo) = 1 /\ o[n].todo[1] = i.todo[2] /\ o[n].row = <<params[n]>>
    <3>1. o[n].todo = <<i.todo[2]>> /\ o[n].row = <<params[n]>>
      BY <1>2
    <3>2. Len(<<i.todo[2]>>) = 1 /\ <<i.todo[2]>>[1] = i.todo[2]
      OBVIOUS
    <3> HIDE DEF o, params
    <3> QED BY <3>1, <3>2
  <2>2. ItemResult(o[n], goTemplate, held, list) = IF inner.ok THEN Yield(rows) ELSE Failure
    <3> HIDE DEF o, params
    <3> QED BY <2>1 DEF ItemResult
  <2>4. rows = Pairs(n)
    <3> HIDE DEF outer, inner, params
    <3> QED BY AppendTwo
  <2> HIDE DEF rows, Pairs, r, o, params, inner
  <2> QED BY <1>2, <1>4, <2>2, <2>4
<1>6. DOMAIN r = DOMAIN params
  BY <1>2, <1>4
<1>7. params = <<>> <=> DOMAIN params = {}
  <2> HIDE DEF outer
  <2>1. Sequence(params)
    BY <1>1 DEF IsResult
  <2> HIDE DEF params
  <2> QED BY <2>1, NothingInNone
<1>8. pairs = [m \in DOMAIN params |-> Pairs(m)]
  OBVIOUS
<1> HIDE DEF outer, inner, params, o, r, matrix, pairs, Pairs
<1>9. \A n \in DOMAIN params : r[n].ok <=> inner.ok
  BY <1>5, ResultParts
<1>10. AllOk(r) <=> matrix.ok
  <2>1. matrix.ok <=> ~(params # <<>> /\ ~inner.ok)
    BY <1>3 DEF Yield, Failure
  <2> QED BY <1>6, <1>7, <1>9, <2>1 DEF AllOk
<1>11. ASSUME matrix.ok PROVE Combined(r) = matrix.params
  <2>1. \A n \in DOMAIN params : inner.ok
    <3>1. params = <<>> \/ inner.ok
      BY <1>3, <1>11 DEF Failure
    <3> QED BY <1>7, <3>1
  <2>2. \A n \in DOMAIN params : r[n].params = Pairs(n)
    BY <1>5, <2>1, ResultParts
  <2>3. [n \in DOMAIN r |-> r[n].params] = pairs
    BY <1>6, <1>8, <2>2
  <2>4. matrix = Yield(FlattenSeq(pairs))
    BY <1>3, <1>11 DEF Failure
  <2> QED BY <1>4, <2>3, <2>4 DEF Yield
<1> QED BY <1>10, <1>11 DEF matrix, r, o, params, outer

\* A generator is called: what the agenda comes to is what is complete now and what the
\* agenda comes to then.
LEMMA Advance ==
  ASSUME NEW items, Sequence(items), items # <<>>, \A n \in DOMAIN items : ItemOK(items[n]),
         NEW goTemplate, NEW held \in Versions, NEW list \in SecretLists,
         ResultOf(items[1].todo[1], goTemplate, held, list).ok
  PROVE  LET params == ResultOf(items[1].todo[1], goTemplate, held, list).params
             r == ItemResults(items, goTemplate, held, list)
             next == ItemResults(Onward(items[1], params) \o Tail(items), goTemplate, held, list)
         IN  /\ AllOk(r) <=> AllOk(next)
             /\ AllOk(r) => Combined(r) = Complete(items[1], params) \o Combined(next)
<1> DEFINE i == items[1]
           outer == ResultOf(i.todo[1], goTemplate, held, list)
           params == outer.params
           R(x) == ItemResults(x, goTemplate, held, list)
           on == Onward(i, params)
           head == ItemResult(i, goTemplate, held, list)
           rest == R(Tail(items))
           ron == R(on)
<1>1. /\ Sequence(Tail(items)) /\ items = <<i>> \o Tail(items) /\ ItemOK(i)
      /\ \A n \in DOMAIN Tail(items) : ItemOK(Tail(items)[n])
  BY HeadBeforeTail
<1>2. IsResult(outer)
  BY <1>1, ItemFacts, ResultIs
<1>3. Sequence(on) /\ \A n \in DOMAIN on : ItemOK(on[n])
  <2> HIDE DEF outer, i
  <2> QED BY <1>1, <1>2, OnwardIs DEF IsResult
<1>4. IsResult(head)
  BY <1>1, ItemResultIs
<1>5. Sequence(rest) /\ \A n \in DOMAIN rest : IsResult(rest[n])
  <2> HIDE DEF i
  <2> QED BY <1>1, ResultsAre
<1>6. Sequence(ron) /\ \A n \in DOMAIN ron : IsResult(ron[n])
  <2> HIDE DEF on
  <2> QED BY <1>3, ResultsAre
<1>7. R(items) = <<head>> \o rest
  <2>1. R(<<i>>) = <<head>>
    <3> DEFINE s == <<i>>
    <3>1. DOMAIN s = {1} /\ s[1] = i
      OBVIOUS
    <3>2. <<head>> = [n \in {1} |-> head]
      OBVIOUS
    <3> HIDE DEF s, head
    <3>3. R(s) = [n \in {1} |-> head]
      BY <3>1 DEF ItemResults, head
    <3> QED BY <3>2, <3>3 DEF s
  <2>2. R(<<i>> \o Tail(items)) = R(<<i>>) \o R(Tail(items))
    <3> HIDE DEF i
    <3> QED BY <1>1, OneIsSequence, ResultsTogether
  <2> HIDE DEF head
  <2> QED BY <1>1, <2>1, <2>2
<1>8. R(on \o Tail(items)) = ron \o rest
  <2> HIDE DEF on, i
  <2> QED BY <1>1, <1>3, ResultsTogether
<1>9. \/ /\ Len(i.todo) = 1 /\ on = <<>>
         /\ head = Yield(Complete(i, params))
      \/ /\ Len(i.todo) = 2 /\ Complete(i, params) = <<>>
         /\ AllOk(ron) <=> head.ok
         /\ head.ok => Combined(ron) = head.params
  <2>1. ASSUME Len(i.todo) = 1 PROVE on = <<>> /\ head = Yield(Complete(i, params))
    BY <2>1 DEF Onward, Complete, ItemResult
  <2>2. ASSUME Len(i.todo) = 2
        PROVE  /\ Complete(i, params) = <<>>
               /\ AllOk(ron) <=> head.ok
               /\ head.ok => Combined(ron) = head.params
    <3>1. Complete(i, params) = <<>>
      BY <2>2 DEF Complete
    <3>2. /\ AllOk(ron) <=> head.ok
          /\ head.ok => Combined(ron) = head.params
      BY <1>1, <2>2, MatrixOnward
    <3> QED BY <3>1, <3>2
  <2> HIDE DEF outer, params, on, head, ron
  <2> QED BY <1>1, <2>1, <2>2, ItemFacts
<1> DEFINE one == <<head>>
           made == Complete(i, params)
<1>10. Sequence(one) /\ (AllOk(one) <=> head.ok) /\ (\A n \in DOMAIN one : IsResult(one[n]))
       /\ Combined(one) = head.params
  <2>1. DOMAIN one = {1} /\ one[1] = head
    OBVIOUS
  <2> HIDE DEF head
  <2>2. Sequence(one)
    BY OneIsSequence
  <2>3. [n \in DOMAIN one |-> one[n].params] = <<head.params>>
    BY <2>1
  <2>4. head.params \in Seq(Range(head.params))
    BY <1>4 DEF IsResult, Sequence
  <2>5. Combined(one) = head.params
    BY <2>3, <2>4, FlattenOne DEF Combined
  <2> HIDE DEF one
  <2>6. (AllOk(one) <=> head.ok)
    BY <1>4, <2>1 DEF AllOk, IsResult
  <2> QED BY <1>4, <2>1, <2>2, <2>5, <2>6
<1>11. Sequence(made)
  <2> HIDE DEF outer, i
  <2> QED BY <1>1, <1>2, OnwardIs DEF IsResult
<1>12. AllOk(<<>>) /\ Combined(<<>>) = <<>> /\ R(<<>>) = <<>>
  BY FlattenEmpty DEF AllOk, Combined, ItemResults
<1> HIDE DEF i, outer, params, on, head, rest, ron, R, one, made
<1>13. /\ AllOk(one \o rest) <=> head.ok /\ AllOk(rest)
       /\ Combined(one \o rest) = head.params \o Combined(rest)
  BY <1>5, <1>10, CombinedTogether
<1>14. /\ AllOk(ron \o rest) <=> AllOk(ron) /\ AllOk(rest)
       /\ Combined(ron \o rest) = Combined(ron) \o Combined(rest)
  BY <1>5, <1>6, CombinedTogether
<1>15. Sequence(Combined(rest)) /\ Sequence(Combined(ron))
  BY <1>5, <1>6, CombinedIs
<1>16. Sequence(Combined(ron) \o Combined(rest))
  BY <1>15, ConcatSequence
<1>17. CASE Len(i.todo) = 1
  <2>1. on = <<>> /\ head = Yield(made)
    BY <1>9, <1>17 DEF made
  <2>2. ron = <<>>
    BY <1>12, <2>1 DEF ron
  <2>3. ron \o rest = rest
    BY <1>5, <2>2, ConcatNone
  <2>4. head.ok /\ head.params = made
    BY <2>1 DEF Yield
  <2> QED BY <1>7, <1>8, <1>13, <2>3, <2>4 DEF R, i, made, params, outer, on, one
<1>18. CASE Len(i.todo) = 2
  <2>1. made = <<>> /\ (AllOk(ron) <=> head.ok) /\ (head.ok => Combined(ron) = head.params)
    BY <1>9, <1>18 DEF made
  <2>2. made \o Combined(ron \o rest) = Combined(ron \o rest)
    BY <1>14, <1>16, <2>1, ConcatNone
  <2> QED BY <1>7, <1>8, <1>13, <1>14, <2>1, <2>2 DEF R, i, made, params, outer, on, one
<1> QED BY <1>9, <1>17, <1>18

\* The variables keep to what GenerateApplications is called with and reads.
ArgumentsOK ==
  /\ input = [appSet |-> appSet, hasClusters |-> hasClusters, hasPulls |-> hasPulls]
  /\ appSet \in AppSets /\ hasClusters \in BOOLEAN /\ hasPulls \in BOOLEAN
  /\ clustersFile \in ClustersFiles /\ pullsSeen \subseteq PullsFiles /\ pullsFile \in pullsSeen
  /\ status \in {"start", "generate", "ok", "error", "panic"}
  /\ clustersUsed \in BOOLEAN /\ pullRequestsUsed \in BOOLEAN /\ loaded \in BOOLEAN
  /\ firstError \in BOOLEAN

\* The agenda holds items only.
AgendaOK == Sequence(agenda) /\ \A n \in DOMAIN agenda : ItemOK(agenda[n])

\* Nothing is made or noted before the first call.
StartOK ==
  status = "start" => apps = <<>> /\ ~clustersUsed /\ ~pullRequestsUsed /\ ~firstError

\* Generators are called with secrets that are read and have names of their own.
SecretsOK ==
  /\ status \in {"generate", "ok"} =>
       AllSecrets.ok /\ DistinctNames(AllSecrets.list) /\ secrets = AllSecrets.list
  /\ status = "panic" => AllSecrets.ok /\ ~DistinctNames(AllSecrets.list)

\* What is used of the pull requests file is what some version of it says, and it is
\* loaded by the first generator that asks.
PullsOK ==
  /\ loaded => hasPulls /\ pullRequestsUsed
               /\ \E held \in pullsSeen : loadPullRequests(held) = Read(pulls)
  /\ ~loaded => pulls = <<>>
  /\ pullRequestsUsed /\ hasPulls /\ ~firstError => loaded

\* What was asked was answered from what is used of the file.
CallsOK ==
  /\ Sequence(calls)
  /\ calls # <<>> => pullRequestsUsed /\ (hasPulls => loaded)
  /\ \A n \in DOMAIN calls :
       /\ PlainGenerator(calls[n].generator) /\ calls[n].generator.kind = "pullRequest"
       /\ GenerateParams(calls[n].generator, pulls, appSet.goTemplate) = Yield(calls[n].params)

\* The versions of the files that what was asked so far agrees with.
Agreeing(held, list) ==
  /\ held \in Versions /\ list \in SecretLists
  /\ pullRequestsUsed => held = Read(pulls)
  /\ clustersUsed => list = secrets

\* What the generators of an ApplicationSet come to.
GeneratorResults(set, held, list) ==
  [n \in DOMAIN set.generators |-> RowsOf(Parts(set.generators[n]), set.goTemplate, held, list)]

\* What is made and what is still to come are the Applications of these versions.
ComesTo(items, made, set, held, list) ==
  LET coming     == ItemResults(items, set.goTemplate, held, list)
      generators == GeneratorResults(set, held, list)
  IN  /\ AllOk(coming) <=> AllOk(generators)
      /\ AllOk(coming) => made \o Combined(coming) = Combined(generators)

\* Until a generator fails, that is so for all versions that still may be the one.
TrackOK ==
  /\ Sequence(apps)
  /\ ~firstError => \A held, list : Agreeing(held, list) => ComesTo(agenda, apps, appSet, held, list)

\* Once one failed, some version explains the error.
FailedOK ==
  firstError => \E held \in pullsSeen :
                  Expected(input, held, clustersFile) = [how |-> "error", apps |-> <<>>]

\* What is returned is complete, with its warnings.
ReturnedOK == status = "ok" => agenda = <<>> /\ ~firstError /\ warnings = Warnings

\* The argument: each generator called was called with the one version of each file.
ExpansionInv ==
  /\ ArgumentsOK /\ AgendaOK /\ StartOK /\ SecretsOK /\ PullsOK /\ CallsOK /\ TrackOK
  /\ FailedOK /\ ReturnedOK

\* What a version of the pull requests file says, if there is one.
PullsOf(arguments, held) == IF arguments.hasPulls THEN loadPullRequests(held) ELSE Read(<<>>)

-----------------------------------------------------------------------------
\* A generator is called as it is, a matrix as the two it is made of.
LEMMA PartsAre ==
  ASSUME NEW set \in AppSets, NEW n \in DOMAIN set.generators
  PROVE  LET parts == Parts(set.generators[n])
         IN  /\ Sequence(parts) /\ Len(parts) \in {1, 2}
             /\ \A k \in DOMAIN parts : PlainGenerator(parts[k])
<1> DEFINE g == set.generators[n]
<1>1. \/ PlainGenerator(g)
      \/ /\ g.kind = "matrix" /\ Sequence(g.generators) /\ Len(g.generators) = 2
         /\ \A k \in 1 .. 2 : PlainGenerator(g.generators[k])
  BY AppSetAssumption
<1> HIDE DEF g
<1>2. CASE PlainGenerator(g)
  <2> DEFINE s == <<g>>
  <2>1. Parts(g) = s
    BY <1>2 DEF Parts, PlainGenerator
  <2>2. Sequence(s) /\ Len(s) = 1 /\ DOMAIN s = {1} /\ s[1] = g
    BY OneIsSequence
  <2> HIDE DEF s
  <2> QED BY <1>2, <2>1, <2>2 DEF g
<1>3. CASE /\ g.kind = "matrix" /\ Sequence(g.generators) /\ Len(g.generators) = 2
           /\ \A k \in 1 .. 2 : PlainGenerator(g.generators[k])
  <2>1. Parts(g) = g.generators
    BY <1>3 DEF Parts
  <2>2. DOMAIN g.generators = 1 .. 2
    BY <1>3, SequenceProperties
  <2> QED BY <1>3, <2>1, <2>2 DEF g
<1> QED BY <1>1, <1>2, <1>3

\* Appending to nothing makes one.
LEMMA AppendOne == \A x : Append(<<>>, x) = <<x>>
OBVIOUS

\* An item no generator was called for comes to what its generators come to.
LEMMA FreshItem ==
  ASSUME NEW set \in AppSets, NEW n \in DOMAIN set.generators
  PROVE  LET i == [of |-> n, row |-> <<>>, todo |-> Parts(set.generators[n])]
         IN  /\ ItemOK(i)
             /\ \A goTemplate : \A held \in Versions, list \in SecretLists :
                  ItemResult(i, goTemplate, held, list) =
                    RowsOf(Parts(set.generators[n]), goTemplate, held, list)
<1> DEFINE parts == Parts(set.generators[n])
           i == [of |-> n, row |-> <<>>, todo |-> parts]
<1>1. /\ Sequence(parts) /\ Len(parts) \in {1, 2} /\ \A k \in DOMAIN parts : PlainGenerator(parts[k])
  BY PartsAre
<1> HIDE DEF parts
<1>2. ItemOK(i)
  BY <1>1, NoneIsSequence DEF ItemOK
<1>3. ASSUME NEW goTemplate, NEW held \in Versions, NEW list \in SecretLists
      PROVE  ItemResult(i, goTemplate, held, list) = RowsOf(parts, goTemplate, held, list)
  <2>1. CASE Len(parts) = 2
    BY <2>1 DEF ItemResult
  <2>2. CASE Len(parts) = 1
    <3> DEFINE outer == ResultOf(parts[1], goTemplate, held, list)
               a == [k \in DOMAIN outer.params |-> Append(<<>>, outer.params[k])]
               b == [k \in DOMAIN outer.params |-> <<outer.params[k]>>]
    <3>1. a = b
      <4> HIDE DEF outer
      <4> QED BY AppendOne
    <3>2. ItemResult(i, goTemplate, held, list) = IF outer.ok THEN Yield(a) ELSE Failure
      BY <2>2 DEF ItemResult
    <3>3. RowsOf(parts, goTemplate, held, list) = IF ~outer.ok THEN Failure ELSE Yield(b)
      BY <2>2 DEF RowsOf
    <3> HIDE DEF outer, a, b
    <3> QED BY <3>1, <3>2, <3>3
  <2> QED BY <1>1, <2>1, <2>2
<1> QED BY <1>2, <1>3 DEF parts

\* The argument holds before GenerateApplications is called.
LEMMA InitHolds == Init => ExpansionInv
<1> SUFFICES ASSUME Init PROVE ExpansionInv
  OBVIOUS
<1>1. ArgumentsOK
  BY DEF Init, ArgumentsOK, appSet, hasClusters, hasPulls
<1>2. Sequence(agenda) /\ DOMAIN agenda = DOMAIN appSet.generators
      /\ \A n \in DOMAIN agenda : agenda[n] = [of |-> n, row |-> <<>>, todo |-> Parts(appSet.generators[n])]
  <2>1. Sequence(appSet.generators)
    BY <1>1, AppSetAssumption DEF ArgumentsOK
  <2>2. agenda = [n \in DOMAIN appSet.generators |->
                    [of |-> n, row |-> <<>>, todo |-> Parts(appSet.generators[n])]]
    BY DEF Init
  <2>3. agenda = [n \in DOMAIN appSet.generators |-> agenda[n]]
    BY <2>2
  <2> QED BY <2>1, <2>2, <2>3, MapIsSequence
<1>3. AgendaOK
  BY <1>1, <1>2, FreshItem DEF AgendaOK, ArgumentsOK
<1>4. StartOK /\ SecretsOK /\ PullsOK /\ FailedOK /\ ReturnedOK
  BY DEF Init, StartOK, SecretsOK, PullsOK, FailedOK, ReturnedOK
<1>5. CallsOK
  BY NoneIsSequence DEF Init, CallsOK
<1>6. TrackOK
  <2>1. ASSUME NEW held, NEW list, Agreeing(held, list)
        PROVE  ComesTo(agenda, apps, appSet, held, list)
    <3> DEFINE r == ItemResults(agenda, appSet.goTemplate, held, list)
    <3>1. held \in Versions /\ list \in SecretLists /\ appSet \in AppSets
      BY <1>1, <2>1 DEF Agreeing, ArgumentsOK
    <3>2. r = GeneratorResults(appSet, held, list)
      <4>1. \A n \in DOMAIN agenda :
              ItemResult(agenda[n], appSet.goTemplate, held, list) =
                RowsOf(Parts(appSet.generators[n]), appSet.goTemplate, held, list)
        BY <1>2, <3>1, FreshItem
      <4> QED BY <1>2, <4>1 DEF ItemResults, GeneratorResults
    <3>3. Sequence(Combined(r))
      <4>1. Sequence(r) /\ \A n \in DOMAIN r : IsResult(r[n])
        BY <1>3, <3>1, ResultsAre DEF AgendaOK
      <4> QED BY <4>1, CombinedIs
    <3>4. apps = <<>>
      BY DEF Init
    <3>5. apps \o Combined(r) = Combined(r)
      BY <3>3, <3>4, ConcatNone
    <3> QED BY <3>2, <3>5 DEF ComesTo
  <2>2. Sequence(apps)
    BY NoneIsSequence DEF Init
  <2> QED BY <2>1, <2>2 DEF TrackOK
<1> QED BY <1>1, <1>3, <1>4, <1>5, <1>6 DEF ExpansionInv

\* If the generator to be called fails, what the item comes to is a failure.
LEMMA PartOfFailure ==
  ASSUME NEW i, ItemOK(i), NEW goTemplate, NEW held, NEW list,
         ~ResultOf(i.todo[1], goTemplate, held, list).ok
  PROVE  ~ItemResult(i, goTemplate, held, list).ok
BY ResultParts DEF ItemResult, RowsOf

\* What a version of the files expands to.
LEMMA ExpectedIs ==
  ASSUME NEW arguments, NEW held, NEW declared,
         LET read == IF arguments.hasClusters THEN loadClusterSecrets(declared) ELSE Read(<<>>)
         IN  read.ok /\ DistinctNames(read.list)
  PROVE  LET read == IF arguments.hasClusters THEN loadClusterSecrets(declared) ELSE Read(<<>>)
             results == GeneratorResults(arguments.appSet, PullsOf(arguments, held), read.list)
         IN  Expected(arguments, held, declared) =
               IF AllOk(results) THEN [how |-> "ok", apps |-> Combined(results)]
               ELSE [how |-> "error", apps |-> <<>>]
<1> DEFINE read == IF arguments.hasClusters THEN loadClusterSecrets(declared) ELSE Read(<<>>)
           results == GeneratorResults(arguments.appSet, PullsOf(arguments, held), read.list)
<1>1. Expected(arguments, held, declared) =
        Expansion(arguments.appSet, PullsOf(arguments, held), read.list)
  BY DEF Expected, PullsOf
<1>2. Expansion(arguments.appSet, PullsOf(arguments, held), read.list) =
        IF AllOk(results) THEN [how |-> "ok", apps |-> Combined(results)]
        ELSE [how |-> "error", apps |-> <<>>]
  BY DEF Expansion, GeneratorResults, AllOk, Combined
<1> QED BY <1>1, <1>2

\* The secrets the clusters generator is given are a sequence.
LEMMA SecretsAre ==
  ASSUME ArgumentsOK, SecretsOK, status \in {"generate", "ok"}
  PROVE  secrets \in SecretLists
BY DEF ArgumentsOK, SecretsOK, SecretLists, AllSecrets, Read

\* Of the versions of the pull requests file there is one that everything agrees with.
LEMMA OneAgrees ==
  ASSUME ExpansionInv, status \in {"generate", "ok"}, ~firstError
  PROVE  \E held \in pullsSeen : Agreeing(PullsOf(input, held), secrets)
<1>1. secrets \in SecretLists
  BY SecretsAre DEF ExpansionInv
<1>2. hasPulls = input.hasPulls
  BY DEF hasPulls
<1>3. CASE loaded
  <2>1. PICK held \in pullsSeen : loadPullRequests(held) = Read(pulls)
    BY <1>3 DEF ExpansionInv, PullsOK
  <2>2. PullsOf(input, held) = Read(pulls) /\ loadPullRequests(held) \in Versions
    BY <1>2, <1>3, <2>1 DEF ExpansionInv, PullsOK, PullsOf, Versions, ArgumentsOK
  <2> QED BY <1>1, <2>1, <2>2 DEF Agreeing
<1>4. CASE ~loaded
  <2>1. pullsFile \in pullsSeen /\ PullsOf(input, pullsFile) \in Versions
    BY DEF ExpansionInv, ArgumentsOK, PullsOf, Versions
  <2>2. ASSUME pullRequestsUsed PROVE PullsOf(input, pullsFile) = Read(pulls)
    BY <1>2, <1>4, <2>2 DEF ExpansionInv, PullsOK, PullsOf
  <2> QED BY <1>1, <2>1, <2>2 DEF Agreeing
<1> QED BY <1>3, <1>4

\* A generator that fails given a version that everything agrees with fails the expansion.
LEMMA FailureExpected ==
  ASSUME ExpansionInv, status = "generate", ~firstError, agenda # <<>>,
         NEW held \in pullsSeen, Agreeing(PullsOf(input, held), secrets),
         ~ResultOf(agenda[1].todo[1], appSet.goTemplate, PullsOf(input, held), secrets).ok
  PROVE  Expected(input, held, clustersFile) = [how |-> "error", apps |-> <<>>]
<1> DEFINE v == PullsOf(input, held)
           coming == ItemResults(agenda, appSet.goTemplate, v, secrets)
           generators == GeneratorResults(appSet, v, secrets)
<1>1. AllOk(coming) <=> AllOk(generators)
  BY DEF ExpansionInv, TrackOK, ComesTo
<1>2. 1 \in DOMAIN agenda /\ ItemOK(agenda[1])
  BY HeadBeforeTail DEF ExpansionInv, AgendaOK
<1>3. ~ItemResult(agenda[1], appSet.goTemplate, v, secrets).ok
  BY <1>2, PartOfFailure
<1>4. ~AllOk(coming)
  BY <1>2, <1>3 DEF AllOk, ItemResults
<1>5. /\ AllSecrets.ok /\ DistinctNames(AllSecrets.list) /\ secrets = AllSecrets.list
      /\ AllSecrets = IF input.hasClusters THEN loadClusterSecrets(clustersFile) ELSE Read(<<>>)
  BY DEF ExpansionInv, SecretsOK, AllSecrets, hasClusters
<1>6. appSet = input.appSet
  BY DEF appSet
<1> HIDE DEF coming, v
<1> QED BY <1>1, <1>4, <1>5, <1>6, ExpectedIs DEF v

\* The generator that is called is the first of the first item.
LEMMA CalledIs ==
  ASSUME AgendaOK, agenda # <<>>
  PROVE  /\ item = agenda[1] /\ called = agenda[1].todo[1] /\ ItemOK(agenda[1]) /\ PlainGenerator(called)
         /\ 1 \in DOMAIN agenda /\ Sequence(Tail(agenda))
         /\ \A n \in DOMAIN Tail(agenda) : ItemOK(Tail(agenda)[n])
<1>1. item = agenda[1] /\ 1 \in DOMAIN agenda /\ ItemOK(agenda[1]) /\ Sequence(Tail(agenda))
      /\ \A n \in DOMAIN Tail(agenda) : ItemOK(Tail(agenda)[n])
  BY HeadBeforeTail DEF AgendaOK, item
<1> QED BY <1>1, ItemFacts DEF called

\* Items put together are items.
LEMMA ConcatItems ==
  ASSUME NEW s, NEW t, Sequence(s), Sequence(t),
         \A n \in DOMAIN s : ItemOK(s[n]), \A n \in DOMAIN t : ItemOK(t[n])
  PROVE  Sequence(s \o t) /\ \A n \in DOMAIN (s \o t) : ItemOK((s \o t)[n])
<1> DEFINE u == s \o t
<1>1. /\ Sequence(u) /\ Len(u) = Len(s) + Len(t)
      /\ \A n \in DOMAIN u : u[n] = IF n <= Len(s) THEN s[n] ELSE t[n - Len(s)]
      /\ Len(s) \in Nat /\ DOMAIN s = 1 .. Len(s) /\ Len(t) \in Nat /\ DOMAIN t = 1 .. Len(t)
  BY ConcatSequence, SequenceProperties
<1>2. DOMAIN u = 1 .. (Len(s) + Len(t))
  BY <1>1, SequenceProperties
<1> HIDE DEF u
<1>3. ASSUME NEW n \in DOMAIN u PROVE ItemOK(u[n])
  <2>1. n \in DOMAIN s \/ (n - Len(s) \in DOMAIN t /\ ~(n <= Len(s)))
    BY <1>1, <1>2
  <2>2. n \in DOMAIN s => n <= Len(s)
    BY <1>1
  <2> QED BY <1>1, <2>1, <2>2
<1> QED BY <1>1, <1>3 DEF u

\* What a call that succeeds leaves on the agenda, and what it makes.
LEMMA ProceedIs ==
  ASSUME AgendaOK, agenda # <<>>, Sequence(apps), NEW params, Sequence(params), Proceed(params)
  PROVE  /\ agenda' = Onward(agenda[1], params) \o Tail(agenda)
         /\ apps' = apps \o Complete(agenda[1], params)
         /\ Sequence(apps') /\ AgendaOK'
<1> DEFINE i == agenda[1]
<1>1. item = i /\ ItemOK(i) /\ Sequence(Tail(agenda))
      /\ \A n \in DOMAIN Tail(agenda) : ItemOK(Tail(agenda)[n])
  BY CalledIs
<1>2. /\ Sequence(Onward(i, params)) /\ \A n \in DOMAIN Onward(i, params) : ItemOK(Onward(i, params)[n])
      /\ Sequence(Complete(i, params))
  BY <1>1, OnwardIs
<1> DEFINE rows == [n \in DOMAIN params |-> Append(i.row, params[n])]
<1>3. Rows(params) = rows
  BY <1>1 DEF Rows
<1>4. CASE Len(i.todo) = 1
  <2>1. apps' = apps \o rows /\ agenda' = Tail(agenda)
    BY <1>1, <1>3, <1>4 DEF Proceed
  <2>2. Onward(i, params) = <<>> /\ Complete(i, params) = rows
    BY <1>4 DEF Onward, Complete
  <2>3. <<>> \o Tail(agenda) = Tail(agenda)
    BY <1>1, ConcatNone
  <2> HIDE DEF rows, i
  <2>4. agenda' = Onward(i, params) \o Tail(agenda) /\ apps' = apps \o Complete(i, params)
    BY <2>1, <2>2, <2>3
  <2>5. Sequence(apps')
    BY <1>2, <2>4, ConcatSequence
  <2>6. AgendaOK'
    BY <1>1, <2>1 DEF AgendaOK
  <2> QED BY <2>4, <2>5, <2>6 DEF i
<1>5. CASE Len(i.todo) # 1
  <2> DEFINE on == [n \in DOMAIN params |-> [i EXCEPT !.row = rows[n], !.todo = Tail(i.todo)]]
  <2>1. agenda' = on \o Tail(agenda) /\ apps' = apps
    BY <1>1, <1>3, <1>5 DEF Proceed
  <2>2. on = [n \in DOMAIN params |-> [i EXCEPT !.row = Append(i.row, params[n]), !.todo = Tail(i.todo)]]
    OBVIOUS
  <2>3. Onward(i, params) = on /\ Complete(i, params) = <<>>
    BY <1>5, <2>2 DEF Onward, Complete
  <2>4. apps \o <<>> = apps
    BY ConcatNone
  <2> HIDE DEF rows, i, on
  <2>5. agenda' = Onward(i, params) \o Tail(agenda) /\ apps' = apps \o Complete(i, params)
    BY <2>1, <2>3, <2>4
  <2>6. AgendaOK'
    BY <1>1, <1>2, <2>5, ConcatItems DEF AgendaOK
  <2> QED BY <2>1, <2>5, <2>6 DEF i
<1> QED BY <1>4, <1>5

\* What a call that fails leaves on the agenda: other generators go on.
LEMMA GiveUpIs ==
  ASSUME AgendaOK, agenda' = OtherItems
  PROVE  AgendaOK'
<1> DEFINE places == {n \in DOMAIN agenda : agenda[n].of # item.of}
<1>1. OtherItems = OnlyAt(places, agenda) /\ places \subseteq DOMAIN agenda
  BY DEF OtherItems
<1> HIDE DEF places
<1>2. Sequence(OtherItems) /\ Range(OtherItems) = {agenda[n] : n \in places}
  BY <1>1, OnlyAtIs DEF AgendaOK
<1>3. ASSUME NEW n \in DOMAIN agenda' PROVE ItemOK(agenda'[n])
  <2>1. agenda'[n] \in Range(OtherItems)
    BY DEF Range
  <2> QED BY <1>1, <1>2, <2>1 DEF AgendaOK
<1> QED BY <1>2, <1>3 DEF AgendaOK

\* However a call ends, the agenda is one.
LEMMA HandleAgenda ==
  ASSUME AgendaOK, agenda # <<>>, Sequence(apps), NEW result, IsResult(result), Handle(result)
  PROVE  AgendaOK' /\ Sequence(apps')
<1>1. CASE result.ok
  BY <1>1, ProceedIs DEF Handle, IsResult
<1>2. CASE ~result.ok
  BY <1>2, GiveUpIs DEF Handle, GiveUp
<1> QED BY <1>1, <1>2

\* What was to come has come or is still to come.
LEMMA HandleTracks ==
  ASSUME AgendaOK, agenda # <<>>, Sequence(apps), NEW held \in Versions, NEW list \in SecretLists,
         ComesTo(agenda, apps, appSet, held, list),
         NEW result, result = ResultOf(called, appSet.goTemplate, held, list), result.ok, Handle(result)
  PROVE  ComesTo(agenda', apps', appSet, held, list)
<1> DEFINE i == agenda[1]
           params == result.params
           goTemplate == appSet.goTemplate
           r == ItemResults(agenda, goTemplate, held, list)
           on == Onward(i, params) \o Tail(agenda)
           next == ItemResults(on, goTemplate, held, list)
           made == Complete(i, params)
           all == GeneratorResults(appSet, held, list)
<1>1. IsResult(result) /\ called = i.todo[1] /\ ItemOK(i)
  BY CalledIs, ResultIs
<1>2. agenda' = on /\ apps' = apps \o made /\ AgendaOK'
  BY <1>1, ProceedIs DEF IsResult, Handle
<1>3. (AllOk(r) <=> AllOk(next)) /\ (AllOk(r) => Combined(r) = made \o Combined(next))
  BY <1>1, Advance DEF AgendaOK
<1>4. (AllOk(r) <=> AllOk(all)) /\ (AllOk(r) => apps \o Combined(r) = Combined(all))
  BY DEF ComesTo
<1>5. Sequence(made)
  BY <1>1, OnwardIs DEF IsResult
<1>6. Sequence(Combined(next))
  <2>1. Sequence(on) /\ \A n \in DOMAIN on : ItemOK(on[n])
    <3> HIDE DEF on
    <3> QED BY <1>2 DEF AgendaOK
  <2> HIDE DEF on, goTemplate
  <2>2. Sequence(next) /\ \A n \in DOMAIN next : IsResult(next[n])
    BY <2>1, ResultsAre
  <2> QED BY <2>2, CombinedIs
<1>7. (apps \o made) \o Combined(next) = apps \o (made \o Combined(next))
  BY <1>5, <1>6, ConcatAssociates
<1> HIDE DEF i, params, r, on, next, made, all
<1> QED BY <1>2, <1>3, <1>4, <1>7 DEF ComesTo, next, all

\* What every call has to keep, given what is particular to its generator.
LEMMA CallKeeps ==
  ASSUME ExpansionInv, status = "generate", agenda # <<>>,
         NEW result, IsResult(result), Handle(result),
         UNCHANGED <<input, files, status, secrets, warnings>>,
         ~firstError /\ result.ok =>
           \A held, list : Agreeing(held, list)' =>
             Agreeing(held, list) /\ result = ResultOf(called, appSet.goTemplate, held, list),
         ~firstError /\ ~result.ok =>
           \E held \in pullsSeen : /\ Agreeing(PullsOf(input, held), secrets)
                                   /\ ~ResultOf(called, appSet.goTemplate, PullsOf(input, held), secrets).ok
  PROVE  AgendaOK' /\ StartOK' /\ SecretsOK' /\ TrackOK' /\ FailedOK' /\ ReturnedOK' /\ firstError' \in BOOLEAN
         /\ (~firstError' => ~firstError /\ result.ok)
<1>1. AgendaOK' /\ Sequence(apps')
  BY HandleAgenda DEF ExpansionInv, TrackOK
<1>2. StartOK' /\ SecretsOK' /\ ReturnedOK'
  BY DEF ExpansionInv, StartOK, SecretsOK, ReturnedOK, AllSecrets, hasClusters, files
<1>3. /\ firstError' \in BOOLEAN /\ (~firstError' => ~firstError /\ result.ok)
      /\ result.ok => firstError' = firstError
  BY DEF ExpansionInv, ArgumentsOK, Handle, GiveUp
<1>4. appSet' = appSet /\ input' = input /\ clustersFile' = clustersFile /\ pullsSeen' = pullsSeen
  BY DEF appSet, files
<1>5. TrackOK'
  <2>1. ASSUME ~firstError', NEW held, NEW list, Agreeing(held, list)'
        PROVE  ComesTo(agenda', apps', appSet, held, list)
    <3>1. Agreeing(held, list) /\ result = ResultOf(called, appSet.goTemplate, held, list) /\ result.ok
      BY <1>3, <2>1
    <3>2. ComesTo(agenda, apps, appSet, held, list)
      BY <1>3, <2>1, <3>1 DEF ExpansionInv, TrackOK
    <3>3. held \in Versions /\ list \in SecretLists
      BY <3>1 DEF Agreeing
    <3> QED BY <3>1, <3>2, <3>3, HandleTracks DEF ExpansionInv, TrackOK
  <2> QED BY <1>1, <1>4, <2>1 DEF TrackOK
<1>6. FailedOK'
  <2>1. CASE firstError
    BY <1>4, <2>1 DEF ExpansionInv, FailedOK
  <2>2. CASE ~firstError /\ ~result.ok
    <3>1. PICK held \in pullsSeen :
                 /\ Agreeing(PullsOf(input, held), secrets)
                 /\ ~ResultOf(called, appSet.goTemplate, PullsOf(input, held), secrets).ok
      BY <2>2
    <3>2. called = agenda[1].todo[1]
      BY CalledIs DEF ExpansionInv
    <3>3. Expected(input, held, clustersFile) = [how |-> "error", apps |-> <<>>]
      BY <2>2, <3>1, <3>2, FailureExpected
    <3> QED BY <1>4, <3>3 DEF FailedOK
  <2>3. CASE ~firstError /\ result.ok
    BY <1>3, <2>3 DEF FailedOK
  <2> QED BY <2>1, <2>2, <2>3
<1> QED BY <1>1, <1>2, <1>3, <1>5, <1>6

\* The clusters generator goes through the cluster it runs in and the secrets.
LEMMA AnyList ==
  ASSUME NEW list \in SecretLists
  PROVE  Sequence(<<InCluster>> \o [n \in DOMAIN list |-> Cluster(list[n])])
<1> DEFINE f == [n \in DOMAIN list |-> Cluster(list[n])]
<1>1. Sequence(list) /\ f = [n \in DOMAIN list |-> f[n]]
  BY SecretListIs
<1> HIDE DEF f
<1>2. Sequence(f)
  BY <1>1, MapIsSequence
<1>3. Sequence(<<InCluster>> \o f)
  BY <1>2, OneIsSequence, ConcatSequence
<1> QED BY <1>3 DEF f

\* A list generator.
LEMMA CallListKeeps == ExpansionInv /\ CallList => ExpansionInv'
<1> SUFFICES ASSUME ExpansionInv, CallList PROVE ExpansionInv'
  OBVIOUS
<1> DEFINE made == [n \in DOMAIN called.elements |-> Element(called.elements[n])]
           result == Yield(made)
<1>1. /\ status = "generate" /\ agenda # <<>> /\ called.kind = "list" /\ Handle(result)
      /\ UNCHANGED <<input, files, pullRequestVars, status, secrets, clustersUsed, warnings, calls>>
  BY DEF CallList, Calling
<1>2. PlainGenerator(called)
  BY <1>1, CalledIs DEF ExpansionInv
<1>3. made = [n \in DOMAIN called.elements |-> made[n]]
  OBVIOUS
<1>4. \A held, list : result = ResultOf(called, appSet.goTemplate, held, list)
  BY <1>1 DEF ResultOf
<1> HIDE DEF made
<1>5. IsResult(result) /\ result.ok
  BY <1>1, <1>2, <1>3, MapIsSequence, YieldIs DEF PlainGenerator
<1> HIDE DEF result
<1>6. \A held, list : Agreeing(held, list)' => Agreeing(held, list)
  BY <1>1 DEF Agreeing, pullRequestVars
<1>7. /\ AgendaOK' /\ StartOK' /\ SecretsOK' /\ TrackOK' /\ FailedOK' /\ ReturnedOK'
      /\ firstError' \in BOOLEAN /\ (~firstError' => ~firstError)
  BY <1>1, <1>4, <1>5, <1>6, CallKeeps
<1>8. ArgumentsOK' /\ PullsOK' /\ CallsOK'
  BY <1>1, <1>7 DEF ExpansionInv, ArgumentsOK, PullsOK, CallsOK, appSet, hasClusters, hasPulls,
     files, pullRequestVars
<1> QED BY <1>7, <1>8 DEF ExpansionInv

\* A clusters generator: the secrets are those read when GenerateApplications began.
LEMMA CallClustersKeeps == ExpansionInv /\ CallClusters => ExpansionInv'
<1> SUFFICES ASSUME ExpansionInv, CallClusters PROVE ExpansionInv'
  OBVIOUS
<1> DEFINE result == Yield(<<InCluster>> \o [n \in DOMAIN secrets |-> Cluster(secrets[n])])
<1>1. /\ status = "generate" /\ agenda # <<>> /\ called.kind = "clusters" /\ Handle(result)
      /\ clustersUsed' = TRUE
      /\ UNCHANGED <<input, files, pullRequestVars, status, secrets, warnings, calls>>
  BY DEF CallClusters, Calling
<1>2. secrets \in SecretLists
  BY <1>1, SecretsAre DEF ExpansionInv
<1>4. \A held : result = ResultOf(called, appSet.goTemplate, held, secrets)
  BY <1>1 DEF ResultOf
<1>5. IsResult(result) /\ result.ok
  BY <1>2, AnyList, YieldIs
<1> HIDE DEF result
<1>6. \A held, list : Agreeing(held, list)' => Agreeing(held, list) /\ list = secrets
  BY <1>1 DEF Agreeing, pullRequestVars
<1>7. /\ AgendaOK' /\ StartOK' /\ SecretsOK' /\ TrackOK' /\ FailedOK' /\ ReturnedOK'
      /\ firstError' \in BOOLEAN /\ (~firstError' => ~firstError)
  BY <1>1, <1>4, <1>5, <1>6, CallKeeps
<1>8. ArgumentsOK' /\ PullsOK' /\ CallsOK'
  BY <1>1, <1>7 DEF ExpansionInv, ArgumentsOK, PullsOK, CallsOK, appSet, hasClusters, hasPulls,
     files, pullRequestVars
<1> QED BY <1>7, <1>8 DEF ExpansionInv

\* A generator that would ask a server, which fails.
LEMMA CallRemoteKeeps == ExpansionInv /\ CallRemote => ExpansionInv'
<1> SUFFICES ASSUME ExpansionInv, CallRemote PROVE ExpansionInv'
  OBVIOUS
<1>1. /\ status = "generate" /\ agenda # <<>> /\ called.kind = "remote" /\ Handle(Failure)
      /\ UNCHANGED <<input, files, pullRequestVars, status, secrets, clustersUsed, warnings, calls>>
  BY DEF CallRemote, Calling
<1>2. \A held, list : ResultOf(called, appSet.goTemplate, held, list) = Failure
  BY <1>1 DEF ResultOf
<1>3. ~firstError => \E held \in pullsSeen : Agreeing(PullsOf(input, held), secrets)
  BY <1>1, OneAgrees
<1>4. /\ AgendaOK' /\ StartOK' /\ SecretsOK' /\ TrackOK' /\ FailedOK' /\ ReturnedOK'
      /\ firstError' \in BOOLEAN /\ (~firstError' => ~firstError)
  BY <1>1, <1>2, <1>3, FailureIs, CallKeeps
<1>5. ArgumentsOK' /\ PullsOK' /\ CallsOK'
  BY <1>1, <1>4 DEF ExpansionInv, ArgumentsOK, PullsOK, CallsOK, appSet, hasClusters, hasPulls,
     files, pullRequestVars
<1> QED BY <1>4, <1>5 DEF ExpansionInv

\* What a sequence something was appended to holds.
LEMMA AppendIs ==
  ASSUME NEW s, Sequence(s), NEW x
  PROVE  /\ Sequence(Append(s, x)) /\ Append(s, x) # <<>>
         /\ \A n \in DOMAIN Append(s, x) : (n \in DOMAIN s /\ Append(s, x)[n] = s[n]) \/ Append(s, x)[n] = x
<1> DEFINE S == Range(s) \union {x}
           a == Append(s, x)
<1>1. s \in Seq(S) /\ x \in S
  BY SeqMonotonic DEF Sequence
<1>2. /\ a \in Seq(S) /\ a # <<>> /\ Len(a) = Len(s) + 1 /\ a[Len(s) + 1] = x
      /\ \A n \in 1 .. Len(s) : a[n] = s[n]
  BY <1>1, AppendProperties
<1> HIDE DEF S, a
<1>3. Sequence(a) /\ DOMAIN s = 1 .. Len(s) /\ Len(s) \in Nat
  BY <1>2, SequenceOver, SequenceProperties
<1>4. DOMAIN a = 1 .. (Len(s) + 1)
  BY <1>2, <1>3, SequenceProperties
<1>5. ASSUME NEW n \in DOMAIN a PROVE (n \in DOMAIN s /\ a[n] = s[n]) \/ a[n] = x
  BY <1>2, <1>3, <1>4
<1> QED BY <1>2, <1>3, <1>5 DEF a

\* A pullRequest generator: the first of them loads the file, the others use what it had.
LEMMA CallPullRequestKeeps == ExpansionInv /\ CallPullRequest => ExpansionInv'
<1> SUFFICES ASSUME ExpansionInv, CallPullRequest PROVE ExpansionInv'
  OBVIOUS
<1> DEFINE mocked == mockedPullRequests
           result == IF mocked.ok THEN GenerateParams(called, mocked.pulls, appSet.goTemplate)
                     ELSE Failure
           loads == ~loaded /\ hasPulls
           now == loadPullRequests(pullsFile)
           record == [generator |-> called, params |-> result.params]
<1>1. /\ status = "generate" /\ agenda # <<>> /\ called.kind = "pullRequest" /\ Handle(result)
      /\ pullRequestsUsed' = TRUE /\ pulls' = mocked.pulls /\ loaded' = mocked.loaded
      /\ calls' = IF result.ok THEN Append(calls, record) ELSE calls
      /\ UNCHANGED <<input, files, status, secrets, clustersUsed, warnings>>
  BY DEF CallPullRequest, Calling
<1>2. /\ now \in Versions /\ now = [ok |-> now.ok, list |-> now.list] /\ now.ok \in BOOLEAN
  <2>1. now \in Versions
    BY DEF ExpansionInv, ArgumentsOK, Versions
  <2> HIDE DEF now
  <2> QED BY <2>1, VersionIs
<1>3. /\ loads => mocked.ok = now.ok /\ mocked.pulls = (IF now.ok THEN now.list ELSE pulls) /\ mocked.loaded = now.ok
      /\ ~loads => mocked.ok = TRUE /\ mocked.pulls = pulls /\ mocked.loaded = loaded
  BY DEF mockedPullRequests
<1>4. PlainGenerator(called)
  BY <1>1, CalledIs DEF ExpansionInv
<1>5. hasPulls = input.hasPulls /\ hasPulls' = hasPulls /\ appSet' = appSet
  BY <1>1 DEF hasPulls, appSet
<1>6. now.ok => now = Read(now.list)
  BY <1>2 DEF Read
<1>7. \A held, list : held.ok => ResultOf(called, appSet.goTemplate, held, list) =
                                   GenerateParams(called, held.list, appSet.goTemplate)
  BY <1>1 DEF ResultOf
<1>8. \A held, list : ~held.ok => ResultOf(called, appSet.goTemplate, held, list) = Failure
  BY <1>1 DEF ResultOf
<1>9. \A list : Read(list).ok /\ Read(list).list = list
  BY DEF Read
<1>10. result.ok => mocked.ok /\ result = GenerateParams(called, mocked.pulls, appSet.goTemplate)
  BY ResultParts
<1>11. pullsFile \in pullsSeen /\ pullsSeen \subseteq PullsFiles /\ secrets \in SecretLists
  BY <1>1, SecretsAre DEF ExpansionInv, ArgumentsOK
<1> HIDE DEF mocked, now, result, record
\* What is selected from now is there in the file or was.
<1>12. mocked.ok =>
         \E held \in pullsSeen : PullsOf(input, held) = Read(mocked.pulls) /\ Read(mocked.pulls) \in Versions
  <2>1. CASE loads /\ now.ok
    BY <1>2, <1>3, <1>5, <1>6, <1>11, <2>1 DEF PullsOf, now
  <2>2. CASE loaded
    <3>1. PICK held \in pullsSeen : loadPullRequests(held) = Read(pulls)
      BY <2>2 DEF ExpansionInv, PullsOK
    <3> QED BY <1>3, <1>5, <1>11, <2>2, <3>1 DEF PullsOf, ExpansionInv, PullsOK, Versions
  <2>3. CASE ~hasPulls
    <3>1. pulls = <<>>
      BY <2>3 DEF ExpansionInv, PullsOK
    <3> QED BY <1>3, <1>5, <1>11, <2>3, <3>1 DEF PullsOf, Versions
  <2> QED BY <1>3, <2>1, <2>2, <2>3
<1>13. ~firstError /\ pullRequestsUsed => ~loads
  BY DEF ExpansionInv, PullsOK
<1>14. IsResult(result)
  <2>1. CASE mocked.ok
    <3>1. Read(mocked.pulls) \in Versions
      BY <1>12, <2>1
    <3>2. IsResult(ResultOf(called, appSet.goTemplate, Read(mocked.pulls), secrets))
      BY <1>4, <1>11, <3>1, ResultIs
    <3> QED BY <1>7, <1>9, <2>1, <3>2 DEF result
  <2>2. CASE ~mocked.ok
    BY <2>2, FailureIs DEF result
  <2> QED BY <2>1, <2>2
<1>15. ASSUME ~firstError, result.ok, NEW held, NEW list, Agreeing(held, list)'
       PROVE  Agreeing(held, list) /\ result = ResultOf(called, appSet.goTemplate, held, list)
  <2>1. held = Read(mocked.pulls) /\ held \in Versions /\ list \in SecretLists
        /\ (clustersUsed => list = secrets)
    BY <1>1, <1>15 DEF Agreeing
  <2>2. pullRequestsUsed => held = Read(pulls)
    BY <1>3, <1>13, <1>15, <2>1
  <2> QED BY <1>7, <1>9, <1>10, <1>15, <2>1, <2>2 DEF Agreeing
<1>16. ASSUME ~firstError, ~result.ok
       PROVE  \E held \in pullsSeen :
                /\ Agreeing(PullsOf(input, held), secrets)
                /\ ~ResultOf(called, appSet.goTemplate, PullsOf(input, held), secrets).ok
  <2>1. CASE mocked.ok
    <3>1. PICK held \in pullsSeen : PullsOf(input, held) = Read(mocked.pulls) /\ Read(mocked.pulls) \in Versions
      BY <1>12, <2>1
    <3>2. pullRequestsUsed => Read(mocked.pulls) = Read(pulls)
      BY <1>3, <1>13, <1>16
    <3>3. Agreeing(PullsOf(input, held), secrets)
      BY <1>11, <3>1, <3>2 DEF Agreeing
    <3>4. ResultOf(called, appSet.goTemplate, PullsOf(input, held), secrets) = result
      BY <1>7, <1>9, <2>1, <3>1 DEF result
    <3> QED BY <1>16, <3>3, <3>4
  <2>2. CASE ~mocked.ok
    <3>1. loads /\ ~now.ok
      BY <1>3, <2>2
    <3>2. PullsOf(input, pullsFile) = now /\ ~pullRequestsUsed
      BY <1>5, <1>13, <1>16, <3>1 DEF PullsOf, now
    <3>3. Agreeing(PullsOf(input, pullsFile), secrets)
      BY <1>2, <1>11, <3>2 DEF Agreeing
    <3> QED BY <1>8, <1>11, <3>1, <3>2, <3>3, ResultParts
  <2> QED BY <2>1, <2>2
<1>17. /\ AgendaOK' /\ StartOK' /\ SecretsOK' /\ TrackOK' /\ FailedOK' /\ ReturnedOK'
       /\ firstError' \in BOOLEAN /\ (~firstError' => ~firstError /\ result.ok)
  BY <1>1, <1>14, <1>15, <1>16, CallKeeps
<1>18. ArgumentsOK'
  BY <1>1, <1>2, <1>3, <1>17 DEF ExpansionInv, ArgumentsOK, appSet, hasClusters, hasPulls, files
<1>19. pullsSeen' = pullsSeen
  BY <1>1 DEF files
<1>20. PullsOK'
  <2>1. ASSUME loaded' PROVE hasPulls' /\ \E held \in pullsSeen' : loadPullRequests(held) = Read(pulls')
    <3>1. CASE loads
      BY <1>1, <1>2, <1>3, <1>5, <1>6, <1>11, <1>19, <2>1, <3>1 DEF now
    <3>2. CASE ~loads
      BY <1>1, <1>3, <1>5, <1>19, <2>1, <3>2 DEF ExpansionInv, PullsOK
    <3> QED BY <3>1, <3>2
  <2>2. ASSUME ~loaded' PROVE pulls' = <<>>
    BY <1>1, <1>3, <2>2 DEF ExpansionInv, PullsOK
  <2>3. ASSUME hasPulls', ~firstError' PROVE loaded'
    BY <1>1, <1>3, <1>5, <1>10, <1>17, <2>3
  <2> QED BY <1>1, <2>1, <2>2, <2>3 DEF PullsOK
<1>21. CallsOK'
  <2>1. calls # <<>> => ~loads
    BY DEF ExpansionInv, CallsOK
  <2>2. ASSUME NEW n \in DOMAIN calls
        PROVE  /\ PlainGenerator(calls[n].generator) /\ calls[n].generator.kind = "pullRequest"
               /\ GenerateParams(calls[n].generator, pulls', appSet'.goTemplate) = Yield(calls[n].params)
    <3>1. calls # <<>>
      OBVIOUS
    <3> QED BY <1>1, <1>3, <1>5, <2>1, <3>1 DEF ExpansionInv, CallsOK
  <2>3. CASE result.ok
    <3>1. /\ record.generator = called /\ record.params = result.params
      BY DEF record
    <3>2. GenerateParams(called, pulls', appSet'.goTemplate) = Yield(record.params)
      <4>1. result = Yield(result.params)
        BY <1>14, <2>3 DEF IsResult, Yield
      <4> QED BY <1>1, <1>5, <1>10, <2>3, <3>1, <4>1
    <3>3. calls' = Append(calls, record)
      BY <1>1, <2>3
    <3>4. /\ Sequence(calls') /\ calls' # <<>>
          /\ \A n \in DOMAIN calls' : (n \in DOMAIN calls /\ calls'[n] = calls[n]) \/ calls'[n] = record
      BY <3>3, AppendIs DEF ExpansionInv, CallsOK
    <3>5. hasPulls' => loaded'
      BY <1>1, <1>3, <1>5, <1>10, <2>3
    <3>6. \A n \in DOMAIN calls' :
            /\ PlainGenerator(calls'[n].generator) /\ calls'[n].generator.kind = "pullRequest"
            /\ GenerateParams(calls'[n].generator, pulls', appSet'.goTemplate) = Yield(calls'[n].params)
      BY <1>1, <1>4, <2>2, <3>1, <3>2, <3>4
    <3> QED BY <1>1, <3>4, <3>5, <3>6 DEF CallsOK
  <2>4. CASE ~result.ok
    <3>1. calls' = calls
      BY <1>1, <2>4
    <3>2. calls # <<>> => (hasPulls' => loaded')
      BY <1>1, <1>3, <1>5, <2>1 DEF ExpansionInv, CallsOK
    <3> QED BY <1>1, <2>2, <3>1, <3>2 DEF ExpansionInv, CallsOK
  <2> QED BY <2>3, <2>4
<1> QED BY <1>17, <1>18, <1>20, <1>21 DEF ExpansionInv

\* Whatever the pull requests file is now, what it has been stays.
LEMMA LoadClustersKeeps == ExpansionInv /\ LoadClusters => ExpansionInv'
<1> SUFFICES ASSUME ExpansionInv, LoadClusters PROVE ExpansionInv'
  OBVIOUS
<1>1. ~clustersUsed /\ ~firstError
  BY DEF ExpansionInv, StartOK, LoadClusters
<1>2. \A held, list : Agreeing(held, list)' => Agreeing(held, list)
  BY <1>1 DEF Agreeing, LoadClusters, pullRequestVars
<1>3. TrackOK'
  BY <1>2 DEF ExpansionInv, TrackOK, LoadClusters, appSet
<1>4. SecretsOK'
  BY DEF SecretsOK, LoadClusters, AllSecrets, hasClusters, files
<1>5. ArgumentsOK' /\ AgendaOK' /\ StartOK' /\ PullsOK' /\ CallsOK' /\ FailedOK' /\ ReturnedOK'
  BY DEF ExpansionInv, ArgumentsOK, AgendaOK, StartOK, PullsOK, CallsOK, FailedOK, ReturnedOK,
     LoadClusters, appSet, hasClusters, hasPulls, files, pullRequestVars
<1> QED BY <1>3, <1>4, <1>5 DEF ExpansionInv

\* GenerateApplications may end before any generator is called.
LEMMA EndKeeps == ExpansionInv /\ (RejectClusters \/ BuildPanics) => ExpansionInv'
<1> SUFFICES ASSUME ExpansionInv, RejectClusters \/ BuildPanics PROVE ExpansionInv'
  OBVIOUS
<1>1. PICK how \in {"error", "panic"} :
             End(how) /\ (how = "panic" => AllSecrets.ok /\ ~DistinctNames(AllSecrets.list))
  BY DEF RejectClusters, BuildPanics
<1>2. \A held, list : Agreeing(held, list)' <=> Agreeing(held, list)
  BY <1>1 DEF Agreeing, End, pullRequestVars
<1>3. TrackOK'
  BY <1>1, <1>2 DEF ExpansionInv, TrackOK, End, appSet
<1>4. ArgumentsOK' /\ AgendaOK' /\ StartOK' /\ SecretsOK' /\ PullsOK' /\ CallsOK' /\ FailedOK' /\ ReturnedOK'
  BY <1>1 DEF ExpansionInv, ArgumentsOK, AgendaOK, StartOK, SecretsOK, PullsOK, CallsOK, FailedOK,
     ReturnedOK, End, AllSecrets, appSet, hasClusters, hasPulls, files, pullRequestVars
<1> QED BY <1>3, <1>4 DEF ExpansionInv

\* It returns what was made, with warnings.
LEMMA ReturnKeeps == ExpansionInv /\ Return => ExpansionInv'
<1> SUFFICES ASSUME ExpansionInv, Return PROVE ExpansionInv'
  OBVIOUS
<1>2. \A held, list : Agreeing(held, list)' <=> Agreeing(held, list)
  BY DEF Agreeing, Return, pullRequestVars
<1>3. TrackOK'
  BY <1>2 DEF ExpansionInv, TrackOK, Return, appSet
<1>4. SecretsOK' /\ ReturnedOK'
  BY DEF ExpansionInv, SecretsOK, ReturnedOK, Return, AllSecrets, Warnings, hasClusters, hasPulls,
     files, pullRequestVars
<1>5. ArgumentsOK' /\ AgendaOK' /\ StartOK' /\ PullsOK' /\ CallsOK' /\ FailedOK'
  BY DEF ExpansionInv, ArgumentsOK, AgendaOK, StartOK, PullsOK, CallsOK, FailedOK,
     Return, appSet, hasClusters, hasPulls, files, pullRequestVars
<1> QED BY <1>3, <1>4, <1>5 DEF ExpansionInv

\* Or the error of a generator.
LEMMA ReturnErrorKeeps == ExpansionInv /\ ReturnError => ExpansionInv'
<1> SUFFICES ASSUME ExpansionInv, ReturnError PROVE ExpansionInv'
  OBVIOUS
<1>1. TrackOK'
  BY NoneIsSequence DEF TrackOK, ReturnError
<1>2. ArgumentsOK' /\ AgendaOK' /\ StartOK' /\ SecretsOK' /\ PullsOK' /\ CallsOK' /\ FailedOK' /\ ReturnedOK'
  BY DEF ExpansionInv, ArgumentsOK, AgendaOK, StartOK, SecretsOK, PullsOK, CallsOK, FailedOK, ReturnedOK,
     ReturnError, appSet, hasClusters, hasPulls, files, pullRequestVars
<1> QED BY <1>1, <1>2 DEF ExpansionInv

\* Somebody edits the pull requests file.
LEMMA EditKeeps == ExpansionInv /\ Edit => ExpansionInv'
<1> SUFFICES ASSUME ExpansionInv, Edit PROVE ExpansionInv'
  OBVIOUS
<1>1. \A held, list : Agreeing(held, list)' <=> Agreeing(held, list)
  BY DEF Agreeing, Edit, pullRequestVars
<1>2. TrackOK'
  BY <1>1 DEF ExpansionInv, TrackOK, Edit, appSet
<1>3. PullsOK' /\ FailedOK'
  BY DEF ExpansionInv, PullsOK, FailedOK, Edit, hasPulls, pullRequestVars
<1>4. ArgumentsOK' /\ AgendaOK' /\ StartOK' /\ SecretsOK' /\ CallsOK' /\ ReturnedOK'
  BY DEF ExpansionInv, ArgumentsOK, AgendaOK, StartOK, SecretsOK, CallsOK, ReturnedOK,
     Edit, AllSecrets, appSet, hasClusters, hasPulls, pullRequestVars
<1> QED BY <1>2, <1>3, <1>4 DEF ExpansionInv

\* Nothing happens.
LEMMA StutterKeeps == ExpansionInv /\ UNCHANGED vars => ExpansionInv'
<1> SUFFICES ASSUME ExpansionInv, UNCHANGED vars PROVE ExpansionInv'
  OBVIOUS
<1>1. \A held, list : Agreeing(held, list)' <=> Agreeing(held, list)
  BY DEF Agreeing, vars, pullRequestVars
<1>2. TrackOK'
  BY <1>1 DEF ExpansionInv, TrackOK, vars, appSet
<1>3. ArgumentsOK' /\ AgendaOK' /\ StartOK' /\ SecretsOK' /\ PullsOK' /\ CallsOK' /\ FailedOK' /\ ReturnedOK'
  BY DEF ExpansionInv, ArgumentsOK, AgendaOK, StartOK, SecretsOK, PullsOK, CallsOK, FailedOK, ReturnedOK,
     AllSecrets, Warnings, appSet, hasClusters, hasPulls, vars, files, pullRequestVars
<1> QED BY <1>2, <1>3 DEF ExpansionInv

\* Every step keeps the argument.
LEMMA StepKeeps == ExpansionInv /\ [Next]_vars => ExpansionInv'
<1> SUFFICES ASSUME ExpansionInv, [Next]_vars PROVE ExpansionInv'
  OBVIOUS
<1>1. CASE LoadClusters
  BY <1>1, LoadClustersKeeps
<1>2. CASE RejectClusters \/ BuildPanics
  BY <1>2, EndKeeps
<1>3. CASE CallList
  BY <1>3, CallListKeeps
<1>4. CASE CallClusters
  BY <1>4, CallClustersKeeps
<1>5. CASE CallRemote
  BY <1>5, CallRemoteKeeps
<1>6. CASE CallPullRequest
  BY <1>6, CallPullRequestKeeps
<1>7. CASE Return
  BY <1>7, ReturnKeeps
<1>8. CASE ReturnError
  BY <1>8, ReturnErrorKeeps
<1>9. CASE Edit
  BY <1>9, EditKeeps
<1>10. CASE UNCHANGED vars
  BY <1>10, StutterKeeps
<1> QED BY <1>1, <1>2, <1>3, <1>4, <1>5, <1>6, <1>7, <1>8, <1>9, <1>10 DEF Next, ExpandStep

\* Whatever was called so far, what was made and what is still to be called come to the
\* Applications that one version of the pull requests file and of the cluster secrets makes.
THEOREM ExpansionInvariant == Spec => []ExpansionInv
<1>1. Init => ExpansionInv
  BY InitHolds
<1>2. ExpansionInv /\ [Next]_vars => ExpansionInv'
  BY StepKeeps
<1> QED BY <1>1, <1>2, PTL DEF Spec

-----------------------------------------------------------------------------
\* Without warnings, no file would have made a difference
LEMMA ComesToAll ==
  ASSUME ExpansionInv, status = "ok", NEW held, NEW list, Agreeing(held, list)
  PROVE  LET results == GeneratorResults(appSet, held, list)
         IN  AllOk(results) /\ Combined(results) = apps
<1> DEFINE coming == ItemResults(agenda, appSet.goTemplate, held, list)
           results == GeneratorResults(appSet, held, list)
<1>1. agenda = <<>> /\ ~firstError
  BY DEF ExpansionInv, ReturnedOK
<1>2. ComesTo(agenda, apps, appSet, held, list)
  BY <1>1 DEF ExpansionInv, TrackOK
<1>3. AllOk(coming) /\ Combined(coming) = <<>>
  BY <1>1, FlattenEmpty DEF ItemResults, AllOk, Combined
<1>4. apps \o <<>> = apps
  BY ConcatNone DEF ExpansionInv, TrackOK
<1> HIDE DEF coming, results
<1> QED BY <1>2, <1>3, <1>4 DEF ComesTo, coming, results

\* The argument says when GenerateApplications warns.
LEMMA WarnedIs == ExpansionInv => WarnedWhenLess
<1> SUFFICES ASSUME ExpansionInv, status = "ok" PROVE WarnedWhenLess
  BY DEF WarnedWhenLess
<1> DEFINE More(arguments, heldPulls, heldClusters) ==
             LET expected == Expected(arguments, heldPulls, heldClusters)
             IN  expected.how = "ok" /\ expected.apps # apps
<1>1. warnings = Warnings /\ ~firstError
  BY DEF ExpansionInv, ReturnedOK
<1>2. /\ AllSecrets.ok /\ DistinctNames(AllSecrets.list) /\ secrets = AllSecrets.list
      /\ AllSecrets = IF input.hasClusters THEN loadClusterSecrets(clustersFile) ELSE Read(<<>>)
      /\ secrets \in SecretLists
  BY SecretsAre DEF ExpansionInv, SecretsOK, AllSecrets, hasClusters
<1>3. /\ input = [appSet |-> input.appSet, hasClusters |-> input.hasClusters, hasPulls |-> input.hasPulls]
      /\ appSet = input.appSet /\ hasClusters = input.hasClusters /\ hasPulls = input.hasPulls
  BY DEF ExpansionInv, ArgumentsOK, appSet, hasClusters, hasPulls
<1>4. ASSUME ~hasPulls, NEW held \in PullsFiles,
             More([input EXCEPT !.hasPulls = TRUE], held, clustersFile)
      PROVE  "pulls" \in warnings
  <2> DEFINE arguments == [input EXCEPT !.hasPulls = TRUE]
             v == PullsOf(arguments, held)
             results == GeneratorResults(appSet, v, secrets)
  <2>1. arguments.appSet = appSet /\ arguments.hasClusters = input.hasClusters /\ arguments.hasPulls = TRUE
    BY <1>3
  <2>4. More(arguments, held, clustersFile)
    BY <1>4
  <2> HIDE DEF arguments
  <2>2. v \in Versions
    BY <2>1 DEF PullsOf, Versions
  <2>3. SUFFICES ASSUME ~pullRequestsUsed PROVE FALSE
    BY <1>1, <1>4 DEF Warnings
  <2>5. Agreeing(v, secrets)
    BY <1>2, <2>2, <2>3 DEF Agreeing
  <2>6. AllOk(results) /\ Combined(results) = apps
    BY <2>5, ComesToAll
  <2>7. Expected(arguments, held, clustersFile) =
          IF AllOk(results) THEN [how |-> "ok", apps |-> Combined(results)]
          ELSE [how |-> "error", apps |-> <<>>]
    BY <1>2, <2>1, ExpectedIs
  <2> QED BY <2>4, <2>6, <2>7
<1>5. ASSUME ~hasClusters, \A heldPulls \in pullsSeen : \E held \in ClustersFiles :
               More([input EXCEPT !.hasClusters = TRUE], heldPulls, held)
      PROVE  "clusters" \in warnings
  <2>1. PICK heldPulls \in pullsSeen : Agreeing(PullsOf(input, heldPulls), secrets)
    BY <1>1, OneAgrees
  <2>2. PICK held \in ClustersFiles : More([input EXCEPT !.hasClusters = TRUE], heldPulls, held)
    BY <1>5
  <2> DEFINE arguments == [input EXCEPT !.hasClusters = TRUE]
             read == loadClusterSecrets(held)
             v == PullsOf(input, heldPulls)
             results == GeneratorResults(appSet, v, read.list)
  <2>3. arguments.appSet = appSet /\ arguments.hasClusters = TRUE /\ arguments.hasPulls = input.hasPulls
    BY <1>3
  <2>4. PullsOf(arguments, heldPulls) = v
    BY <2>3 DEF PullsOf
  <2>5. More(arguments, heldPulls, held)
    BY <2>2
  <2> HIDE DEF arguments
  <2>6. SUFFICES ASSUME ~clustersUsed PROVE FALSE
    BY <1>1, <1>5 DEF Warnings
  <2>7. read.ok /\ DistinctNames(read.list)
    BY <2>3, <2>5 DEF Expected
  <2>8. Agreeing(v, read.list)
    BY <2>1, <2>6 DEF Agreeing, SecretLists
  <2>9. AllOk(results) /\ Combined(results) = apps
    BY <2>8, ComesToAll
  <2>10. Expected(arguments, heldPulls, held) =
          IF AllOk(results) THEN [how |-> "ok", apps |-> Combined(results)]
          ELSE [how |-> "error", apps |-> <<>>]
    BY <2>3, <2>4, <2>7, ExpectedIs
  <2> QED BY <2>5, <2>9, <2>10
<1> QED BY <1>4, <1>5 DEF WarnedWhenLess

\* Who gets fewer Applications than with a clusters or pull requests file is warned of it
\* (the end of GenerateApplications), whatever the generators are.
THEOREM WarnsOfLess == Spec => []WarnedWhenLess
BY ExpansionInvariant, WarnedIs, PTL

\* What a pullRequest generator was asked for.
LEMMA GeneratedIs ==
  ASSUME NEW generator, PlainGenerator(generator), generator.kind = "pullRequest",
         NEW list, Sequence(list), NEW goTemplate, NEW params,
         GenerateParams(generator, list, goTemplate) = Yield(params)
  PROVE  LET selected == Selected(generator, list)
             P(n) == ParamsOf(selected[n], goTemplate)
         IN  /\ DOMAIN params = DOMAIN selected
             /\ \A n \in DOMAIN selected :
                  params[n].params =
                    WithValues([key \in DOMAIN generator.values |-> Replace(generator.values[key], P(n))],
                               P(n), goTemplate)
<1> DEFINE selected == Selected(generator, list)
           p == [n \in DOMAIN selected |-> ParamsOf(selected[n], goTemplate)]
           values == generator.values
           Made(n) == appendValues(values, p[n], goTemplate)
           f == [n \in DOMAIN selected |-> PullRequest(Made(n))]
<1>1. GenerateParams(generator, list, goTemplate) = Failure
        \/ GenerateParams(generator, list, goTemplate) = Yield(f)
  BY DEF GenerateParams
<1> HIDE DEF f
<1>2. Yield(params) = Yield(f)
  BY <1>1, ResultParts
<1>3. params = f
  BY <1>2, ResultParts
<1> HIDE DEF selected, Made
<1>4. DOMAIN params = DOMAIN selected /\ \A n \in DOMAIN selected : params[n].params = Made(n)
  BY <1>3 DEF f, PullRequest
<1>5. \A n \in DOMAIN selected :
        Made(n) = WithValues([key \in DOMAIN values |-> Replace(values[key], ParamsOf(selected[n], goTemplate))],
                             ParamsOf(selected[n], goTemplate), goTemplate)
  BY DEF Made, appendValues
<1> QED BY <1>4, <1>5 DEF selected

\* The values do not reach the parameters they are rendered against.
LEMMA WithValuesIs ==
  ASSUME NEW values, DOMAIN values \intersect ParamNames = {}, NEW pull, NEW goTemplate
  PROVE  LET known == IF goTemplate = "none" THEN ParamNames \ {"labels"} ELSE ParamNames
             p == ParamsOf(pull, goTemplate)
             replaced == [key \in DOMAIN values |-> Replace(values[key], p)]
             params == WithValues(replaced, p, goTemplate)
         IN  /\ \A name \in known : params[name] = p[name]
             /\ \A key \in DOMAIN values :
                  (IF goTemplate = "none" THEN params[key] ELSE params["values"][key]) =
                    IF values[key] \in known THEN params[values[key]] ELSE "unresolved"
<1> DEFINE known == IF goTemplate = "none" THEN ParamNames \ {"labels"} ELSE ParamNames
           p == ParamsOf(pull, goTemplate)
           replaced == [key \in DOMAIN values |-> Replace(values[key], p)]
           params == WithValues(replaced, p, goTemplate)
           under == [name \in {"values"} |-> replaced]
<1>1. DOMAIN p = known
  BY DEF ParamsOf
<1>2. known \subseteq ParamNames /\ "values" \notin ParamNames
  BY DEF ParamNames
<1>3. DOMAIN replaced = DOMAIN values
      /\ \A key \in DOMAIN values : replaced[key] = IF values[key] \in known THEN p[values[key]] ELSE "unresolved"
  <2> HIDE DEF p
  <2> QED BY <1>1 DEF Replace
<1>4. DOMAIN under = {"values"} /\ under["values"] = replaced
  <2> HIDE DEF replaced
  <2> QED OBVIOUS
<1>5. params = IF DOMAIN replaced = {} THEN p
               ELSE Merged(p, IF goTemplate = "none" THEN replaced ELSE under)
  <2> HIDE DEF p, replaced
  <2> QED BY DEF WithValues
<1> HIDE DEF known, p, replaced, params, under
<1>6. ASSUME NEW other, NEW key, key \in DOMAIN p \/ key \in DOMAIN other
      PROVE  Merged(p, other)[key] = IF key \in DOMAIN p THEN p[key] ELSE other[key]
  BY <1>6 DEF Merged
<1>7. \A name \in known : params[name] = p[name]
  BY <1>1, <1>5, <1>6
<1>8. ASSUME NEW key \in DOMAIN values
      PROVE  (IF goTemplate = "none" THEN params[key] ELSE params["values"][key]) = replaced[key]
  <2>1. DOMAIN replaced # {}
    BY <1>3
  <2>2. CASE goTemplate = "none"
    <3>1. key \notin DOMAIN p /\ key \in DOMAIN replaced
      BY <1>1, <1>2, <1>3
    <3>2. params = Merged(p, replaced)
      BY <1>5, <2>1, <2>2
    <3>3. Merged(p, replaced)[key] = replaced[key]
      BY <1>6, <3>1
    <3> QED BY <2>2, <3>2, <3>3
  <2>3. CASE goTemplate # "none"
    <3>1. "values" \notin DOMAIN p /\ "values" \in DOMAIN under
      BY <1>1, <1>2, <1>4
    <3>2. params = Merged(p, under)
      BY <1>5, <2>1, <2>3
    <3>3. Merged(p, under)["values"] = under["values"]
      BY <1>6, <3>1
    <3> QED BY <1>4, <2>3, <3>2, <3>3
  <2> QED BY <2>2, <2>3
<1>9. ASSUME NEW key \in DOMAIN values
      PROVE  (IF goTemplate = "none" THEN params[key] ELSE params["values"][key]) =
               IF values[key] \in known THEN params[values[key]] ELSE "unresolved"
  BY <1>3, <1>7, <1>8
<1> QED BY <1>7, <1>9 DEF known, params, p, replaced

\* The pull requests a run uses are a sequence.
LEMMA PullsAre ==
  ASSUME ArgumentsOK, PullsOK
  PROVE  Sequence(pulls)
<1>1. CASE loaded
  <2>1. PICK held \in pullsSeen : loadPullRequests(held) = Read(pulls)
    BY <1>1 DEF PullsOK
  <2>2. Read(pulls) \in Versions
    BY <2>1 DEF ArgumentsOK, Versions
  <2>3. Read(pulls).list = pulls
    BY DEF Read
  <2> QED BY <2>2, <2>3, VersionIs
<1>2. CASE ~loaded
  BY <1>2, NoneIsSequence DEF PullsOK
<1> QED BY <1>1, <1>2

\* What was asked was answered from the parameters of what reported it.
LEMMA ValuesHold == ExpansionInv => ValuesFromParametersOnly
<1> SUFFICES ASSUME ExpansionInv, NEW n \in DOMAIN calls, NEW k \in DOMAIN calls[n].params
             PROVE  LET params   == calls[n].params[k].params
                        values   == calls[n].generator.values
                        known    == IF appSet.goTemplate = "none" THEN ParamNames \ {"labels"} ELSE ParamNames
                        Value(key) == IF appSet.goTemplate = "none" THEN params[key] ELSE params["values"][key]
                    IN  \A key \in DOMAIN values :
                          Value(key) = IF values[key] \in known THEN params[values[key]] ELSE "unresolved"
  BY DEF ValuesFromParametersOnly
<1> DEFINE generator == calls[n].generator
           selected == Selected(generator, pulls)
           p == ParamsOf(selected[k], appSet.goTemplate)
<1>1. /\ PlainGenerator(generator) /\ generator.kind = "pullRequest"
      /\ GenerateParams(generator, pulls, appSet.goTemplate) = Yield(calls[n].params)
      /\ Sequence(pulls)
  BY PullsAre DEF ExpansionInv, CallsOK
<1>2. k \in DOMAIN selected
      /\ calls[n].params[k].params =
           WithValues([key \in DOMAIN generator.values |-> Replace(generator.values[key], p)], p, appSet.goTemplate)
  <2> HIDE DEF generator
  <2> QED BY <1>1, GeneratedIs
<1>3. DOMAIN generator.values \intersect ParamNames = {}
  BY <1>1 DEF PlainGenerator
<1> HIDE DEF selected
<1> QED BY <1>2, <1>3, WithValuesIs

\* Values of a pullRequest generator are rendered with parameters of the pull request
\* only (mockPullRequestGenerator, appendTemplatedValues), for any pull requests.
THEOREM ValuesOnlyFromParameters == Spec => []ValuesFromParametersOnly
BY ExpansionInvariant, ValuesHold, PTL

-----------------------------------------------------------------------------
\* A generator with one provider

\* The only provider there is comes first in any order.
LEMMA FirstOfOne ==
  ASSUME NEW order, Sequence(order), NEW providers, NEW n \in DOMAIN order,
         \A m \in DOMAIN order : order[m] \in DOMAIN providers <=> m = n
  PROVE  FirstOf(order, providers) = order[n]
<1> DEFINE set == {m \in DOMAIN order : order[m] \in DOMAIN providers}
<1>1. set = {n}
  OBVIOUS
<1>2. n \in Nat
  BY SequenceProperties
<1>3. (CHOOSE k \in {n} : \A m \in {n} : k <= m) = n
  BY <1>2
<1>4. FirstOf(order, providers) = order[CHOOSE k \in set : \A m \in set : k <= m]
  BY <1>1 DEF FirstOf
<1> HIDE DEF set
<1> QED BY <1>1, <1>3, <1>4

\* Among none, no provider is first.
LEMMA FirstOfNone ==
  ASSUME NEW order, NEW providers, \A m \in DOMAIN order : order[m] \notin DOMAIN providers
  PROVE  FirstOf(order, providers) = "none"
BY DEF FirstOf

\* The order in which the switch that filters looks for a provider.
Filtering == <<"github", "gitlab", "gitea", "azuredevops">>

\* With one provider both switches of the generator agree on it, where they have it.
LEMMA OneProvider ==
  ASSUME NEW providers, NEW provider \in Range(ProviderOrder), DOMAIN providers = {provider}
  PROVE  /\ FirstOf(ProviderOrder, providers) = provider
         /\ FirstOf(Filtering, providers) =
              IF provider \in {"bitbucket", "bitbucketServer"} THEN "none" ELSE provider
<1>1. Sequence(ProviderOrder) /\ DOMAIN ProviderOrder = 1 .. 6
  <2>1. ProviderOrder = [k \in 1 .. 6 |-> ProviderOrder[k]]
    BY DEF ProviderOrder
  <2> QED BY <2>1, SequenceOf
<1>2. Sequence(Filtering) /\ DOMAIN Filtering = 1 .. 4
  <2>1. Filtering = [k \in 1 .. 4 |-> Filtering[k]]
    BY DEF Filtering
  <2> QED BY <2>1, SequenceOf
<1>3. PICK n \in 1 .. 6 : provider = ProviderOrder[n]
  BY <1>1 DEF Range
<1>4. \A m \in 1 .. 6 : ProviderOrder[m] = provider <=> m = n
  BY <1>3 DEF ProviderOrder
<1>5. FirstOf(ProviderOrder, providers) = provider
  BY <1>1, <1>3, <1>4, FirstOfOne
<1>6. CASE provider \in {"bitbucket", "bitbucketServer"}
  <2>1. \A m \in 1 .. 4 : Filtering[m] # provider
    BY <1>6 DEF Filtering
  <2> QED BY <1>2, <1>5, <1>6, <2>1, FirstOfNone
<1>7. CASE provider \notin {"bitbucket", "bitbucketServer"}
  <2>1. PICK k \in 1 .. 4 : Filtering[k] = provider /\ \A m \in 1 .. 4 : Filtering[m] = provider <=> m = k
    BY <1>3, <1>7 DEF Filtering, ProviderOrder
  <2>2. FirstOf(Filtering, providers) = Filtering[k]
    BY <1>2, <2>1, FirstOfOne
  <2> QED BY <1>5, <1>7, <2>1, <2>2
<1> QED BY <1>6, <1>7

\* So what is reported is what the generator's own provider would report.
LEMMA ReportedAsIntended ==
  ASSUME NEW generator, NEW provider \in Range(ProviderOrder), DOMAIN generator.providers = {provider},
         NEW pull
  PROVE  Reported(generator, pull) /\ PassesFilters(generator, pull) <=> IntendedFor(generator, pull)
<1>1. /\ FirstOf(ProviderOrder, generator.providers) = provider
      /\ FirstOf(Filtering, generator.providers) =
           IF provider \in {"bitbucket", "bitbucketServer"} THEN "none" ELSE provider
  BY OneProvider
<1>2. pullRequestRepo(generator) = generator.providers[provider].repo
  BY <1>1 DEF pullRequestRepo
<1>3. pullRequestLabels(generator) =
        IF FirstOf(Filtering, generator.providers) = "none" THEN {}
        ELSE generator.providers[FirstOf(Filtering, generator.providers)].labels
  BY DEF pullRequestLabels, Filtering
<1>4. provider # "none"
  BY DEF Range, ProviderOrder
<1> QED BY <1>1, <1>2, <1>3, <1>4 DEF Reported, IntendedFor

\* What is accepted of a file is all of it.
LEMMA AllOfFile ==
  ASSUME NEW held \in PullsFiles, NEW list, loadPullRequests(held) = Read(list)
  PROVE  list = FlattenSeq(held)
<1> DEFINE parts == [n \in DOMAIN held |->
                       IF \A k \in DOMAIN held[n] : Valid(held[n][k]) THEN Read(held[n]) ELSE Rejected]
           lists == [n \in DOMAIN parts |-> parts[n].list]
<1>1. /\ \A x : Read(x).ok = TRUE /\ Read(x).list = x
      /\ Rejected.ok = FALSE
  BY DEF Read, Rejected
<1>2. Together(parts) = Read(list)
  BY DEF loadPullRequests
<1>3. /\ \A n \in DOMAIN held : parts[n] = Read(held[n]) \/ parts[n] = Rejected
      /\ DOMAIN parts = DOMAIN held
  OBVIOUS
<1>4. Together(parts) = IF \A n \in DOMAIN parts : parts[n].ok THEN Read(FlattenSeq(lists)) ELSE Rejected
  BY DEF Together
<1>5. Sequence(held)
  BY FileAssumption
<1>6. held = [n \in DOMAIN held |-> held[n]]
  BY <1>5, SequenceProperties
<1>7. lists = [n \in DOMAIN parts |-> parts[n].list]
  OBVIOUS
<1> HIDE DEF parts, lists
<1>8. (\A n \in DOMAIN parts : parts[n].ok) /\ Read(FlattenSeq(lists)) = Read(list)
  BY <1>1, <1>2, <1>4
<1>9. \A n \in DOMAIN held : parts[n].list = held[n]
  BY <1>1, <1>3, <1>8
<1>10. lists = held
  BY <1>3, <1>6, <1>7, <1>9
<1> QED BY <1>1, <1>8, <1>10

\* What was asked was answered with every pull request of the repository.
LEMMA EveryRepoHolds == ExpansionInv => EveryRepoItsPullRequestsIfOneProvider
<1> SUFFICES ASSUME ExpansionInv,
                    \A n \in DOMAIN calls : \E provider \in Range(ProviderOrder) :
                      DOMAIN calls[n].generator.providers = {provider}
             PROVE  EveryRepoItsPullRequests
  BY DEF EveryRepoItsPullRequestsIfOneProvider
<1>1. pullsFile \in pullsSeen /\ pullsSeen \subseteq PullsFiles /\ Sequence(pulls)
  BY PullsAre DEF ExpansionInv, ArgumentsOK
\* The version that was loaded, or any if nothing was.
<1>2. PICK held \in pullsSeen :
             calls # <<>> => pulls = IF hasPulls THEN FlattenSeq(held) ELSE <<>>
  <2>1. CASE loaded
    <3>1. PICK held \in pullsSeen : loadPullRequests(held) = Read(pulls)
      BY <2>1 DEF ExpansionInv, PullsOK
    <3>2. hasPulls /\ pulls = FlattenSeq(held)
      BY <1>1, <2>1, <3>1, AllOfFile DEF ExpansionInv, PullsOK
    <3> QED BY <3>2
  <2>2. CASE ~loaded
    BY <1>1, <2>2 DEF ExpansionInv, PullsOK, CallsOK
  <2> QED BY <2>1, <2>2
<1>3. ASSUME NEW n \in DOMAIN calls
      PROVE  {calls[n].params[k].params["number"] : k \in DOMAIN calls[n].params} =
               {FormatInt(pull.number) :
                  pull \in {pull \in Range(IF hasPulls THEN FlattenSeq(held) ELSE <<>>) :
                              IntendedFor(calls[n].generator, pull)}}
  <2> DEFINE generator == calls[n].generator
             selected == Selected(generator, pulls)
             params == calls[n].params
             p(k) == ParamsOf(selected[k], appSet.goTemplate)
  <2>1. calls # <<>>
    OBVIOUS
  <2>2. pulls = IF hasPulls THEN FlattenSeq(held) ELSE <<>>
    BY <1>2, <2>1
  <2>3. /\ PlainGenerator(generator) /\ generator.kind = "pullRequest"
        /\ GenerateParams(generator, pulls, appSet.goTemplate) = Yield(params)
    BY DEF ExpansionInv, CallsOK
  <2>4. PICK provider \in Range(ProviderOrder) : DOMAIN generator.providers = {provider}
    OBVIOUS
  <2> HIDE DEF generator, params
  <2>5. /\ DOMAIN params = DOMAIN selected
        /\ \A k \in DOMAIN selected :
             params[k].params =
               WithValues([key \in DOMAIN generator.values |-> Replace(generator.values[key], p(k))],
                          p(k), appSet.goTemplate)
    BY <1>1, <2>3, GeneratedIs
  <2>6. DOMAIN generator.values \intersect ParamNames = {}
    BY <2>3 DEF PlainGenerator
  <2>7. ASSUME NEW k \in DOMAIN selected PROVE params[k].params["number"] = FormatInt(selected[k].number)
    <3>1. params[k].params["number"] = p(k)["number"]
      <4> DEFINE known == IF appSet.goTemplate = "none" THEN ParamNames \ {"labels"} ELSE ParamNames
      <4>1. "number" \in known
        BY DEF ParamNames
      <4> DEFINE w == WithValues([key \in DOMAIN generator.values |-> Replace(generator.values[key], p(k))],
                                 p(k), appSet.goTemplate)
      <4>2. \A name \in known : w[name] = p(k)[name]
        <5> HIDE DEF selected
        <5> QED BY <2>6, WithValuesIs
      <4>3. params[k].params = w
        BY <2>5
      <4> HIDE DEF selected, w, known
      <4> QED BY <4>1, <4>2, <4>3
    <3>2. p(k)["number"] = FormatInt(selected[k].number)
      BY DEF ParamsOf, ParamNames
    <3> QED BY <3>1, <3>2
  <2>8. Range(selected) = {pull \in Range(pulls) : Reported(generator, pull) /\ PassesFilters(generator, pull)}
    BY <1>1, SelectedIs
  <2>9. \A pull : Reported(generator, pull) /\ PassesFilters(generator, pull) <=> IntendedFor(generator, pull)
    BY <2>4, ReportedAsIntended
  <2> HIDE DEF selected, p
  <2>10. {params[k].params["number"] : k \in DOMAIN params} = {FormatInt(selected[k].number) : k \in DOMAIN selected}
    BY <2>5, <2>7
  <2>11. {FormatInt(selected[k].number) : k \in DOMAIN selected} = {FormatInt(pull.number) : pull \in Range(selected)}
    BY DEF Range
  <2>12. Range(selected) = {pull \in Range(pulls) : IntendedFor(generator, pull)}
    BY <2>8, <2>9
  <2> QED BY <2>2, <2>10, <2>11, <2>12 DEF generator, params
<1> QED BY <1>3 DEF EveryRepoItsPullRequests

\* A pullRequest generator that names one provider gets every pull request of its
\* repository that passes its filters, and no other (Selected and the two switches in
\* pullrequests.go), for any generator and any file.
THEOREM EveryRepoIfOneProvider == Spec => []EveryRepoItsPullRequestsIfOneProvider
BY ExpansionInvariant, EveryRepoHolds, PTL

\* Before the call there is no outcome.
LEMMA InitImplements == Init => Contract!Init
BY DEF Init, Contract!Init, outcome

\* An edit of the file before the outcome is one the contract knows, and no edit after it matters.
LEMMA EditImplements == ExpansionInv /\ Edit => Contract!Edit
BY DEF Edit, Contract!Edit, outcome

\* A step on the way to the outcome is none of the contract's.
LEMMA WayImplements ==
  ASSUME UNCHANGED <<input, files>>, status \in {"start", "generate"}, status' \in {"start", "generate"}
  PROVE  UNCHANGED Contract!vars
BY DEF Contract!vars, files, outcome

\* An outcome that one version of the file explains is one the contract allows.
LEMMA OutcomeImplements ==
  ASSUME UNCHANGED <<input, files>>, status \in {"start", "generate"}, status' \notin {"start", "generate"},
         NEW held \in pullsSeen, Expected(input, held, clustersFile) = [how |-> status', apps |-> apps']
  PROVE  Contract!Expand
BY DEF Contract!Expand, files, outcome

\* Every step of GenerateApplications is one of the contract, or none.
LEMMA StepImplements == ExpansionInv /\ [Next]_vars => [Contract!Next]_(Contract!vars)
<1> SUFFICES ASSUME ExpansionInv, [Next]_vars PROVE [Contract!Next]_(Contract!vars)
  OBVIOUS
<1>0. /\ pullsFile \in pullsSeen
      /\ AllSecrets = IF input.hasClusters THEN loadClusterSecrets(clustersFile) ELSE Read(<<>>)
  BY DEF ExpansionInv, ArgumentsOK, AllSecrets, hasClusters
<1>1. CASE LoadClusters
  BY <1>1, WayImplements DEF LoadClusters
<1>2. CASE CallList \/ CallClusters \/ CallRemote \/ CallPullRequest
  <2>1. status = "generate" /\ UNCHANGED <<input, files, status>>
    BY <1>2 DEF CallList, CallClusters, CallRemote, CallPullRequest, Calling
  <2> QED BY <2>1, WayImplements
<1>3. CASE RejectClusters
  <2>1. status = "start" /\ ~AllSecrets.ok /\ status' = "error" /\ apps' = <<>> /\ UNCHANGED <<input, files>>
    BY <1>3 DEF RejectClusters, End, ExpansionInv, StartOK
  <2>2. Expected(input, pullsFile, clustersFile) = [how |-> "error", apps |-> <<>>]
    BY <1>0, <2>1 DEF Expected
  <2> QED BY <1>0, <2>1, <2>2, OutcomeImplements DEF Contract!Next
<1>4. CASE BuildPanics
  <2>1. /\ status = "start" /\ AllSecrets.ok /\ ~DistinctNames(AllSecrets.list) /\ status' = "panic"
        /\ apps' = <<>> /\ UNCHANGED <<input, files>>
    BY <1>4 DEF BuildPanics, End, ExpansionInv, StartOK
  <2>2. Expected(input, pullsFile, clustersFile) = [how |-> "panic", apps |-> <<>>]
    BY <1>0, <2>1 DEF Expected
  <2> QED BY <1>0, <2>1, <2>2, OutcomeImplements DEF Contract!Next
<1>5. CASE Return
  <2>1. /\ status = "generate" /\ agenda = <<>> /\ ~firstError /\ status' = "ok"
        /\ apps' = apps /\ UNCHANGED <<input, files>>
    BY <1>5 DEF Return
  <2>2. PICK held \in pullsSeen : Agreeing(PullsOf(input, held), secrets)
    BY <2>1, OneAgrees
  <2> DEFINE v == PullsOf(input, held)
             results == GeneratorResults(appSet, v, secrets)
             coming == ItemResults(agenda, appSet.goTemplate, v, secrets)
  <2>3. ComesTo(agenda, apps, appSet, v, secrets)
    BY <2>1, <2>2 DEF ExpansionInv, TrackOK
  <2>4. AllOk(coming) /\ Combined(coming) = <<>>
    BY <2>1, FlattenEmpty DEF ItemResults, AllOk, Combined
  <2>5. apps \o <<>> = apps
    BY ConcatNone DEF ExpansionInv, TrackOK
  <2>6. AllOk(results) /\ Combined(results) = apps
    <3> HIDE DEF coming, results
    <3> QED BY <2>3, <2>4, <2>5 DEF ComesTo, coming, results
  <2>7. AllSecrets.ok /\ DistinctNames(AllSecrets.list) /\ secrets = AllSecrets.list /\ appSet = input.appSet
    BY <2>1 DEF ExpansionInv, SecretsOK, appSet
  <2>8. Expected(input, held, clustersFile) =
          IF AllOk(results) THEN [how |-> "ok", apps |-> Combined(results)]
          ELSE [how |-> "error", apps |-> <<>>]
    BY <1>0, <2>7, ExpectedIs
  <2>9. Expected(input, held, clustersFile) = [how |-> status', apps |-> apps']
    BY <2>1, <2>6, <2>8
  <2> QED BY <2>1, <2>9, OutcomeImplements DEF Contract!Next
<1>6. CASE ReturnError
  <2>1. status = "generate" /\ firstError /\ status' = "error" /\ apps' = <<>> /\ UNCHANGED <<input, files>>
    BY <1>6 DEF ReturnError
  <2>2. PICK held \in pullsSeen :
               Expected(input, held, clustersFile) = [how |-> "error", apps |-> <<>>]
    BY <2>1 DEF ExpansionInv, FailedOK
  <2> QED BY <2>1, <2>2, OutcomeImplements DEF Contract!Next
<1>7. CASE Edit
  BY <1>7, EditImplements DEF Contract!Next
<1>8. CASE UNCHANGED vars
  BY <1>8 DEF vars, files, Contract!vars, outcome
<1> QED BY <1>1, <1>2, <1>3, <1>4, <1>5, <1>6, <1>7, <1>8 DEF Next, ExpandStep

\* GenerateApplications calls generators one by one while the pull requests file is
\* edited, but returns what it would if it read one version of it all at once: the
\* detailed specification implements the contract.
THEOREM ExpansionIsSafe == Spec => Contract!Safety
<1>1. Init => Contract!Init
  BY InitImplements
<1>2. ExpansionInv /\ [Next]_vars => [Contract!Next]_(Contract!vars)
  BY StepImplements
<1> QED BY <1>1, <1>2, ExpansionInvariant, PTL DEF Spec, Contract!Safety

\* So an expansion that ends keeps the contract.
Ended == status \notin {"start", "generate"}

\* With an end to the call, which the runs check under fairness, it keeps all of it.
THEOREM EndingKeepsContract == Spec /\ <>Ended => ImplementsContract
<1>1. ExpansionInv /\ Ended => outcome # Pending
  BY DEF ExpansionInv, ArgumentsOK, Ended, outcome, Pending
<1> QED
  BY <1>1, ExpansionInvariant, ExpansionIsSafe, PTL DEF ImplementsContract, Contract!Spec

\* f finds the leaves of the documents nested less than n deep.
LeavesBelow(f, n) == \A doc \in Documents : Depth[doc] < n => f[doc] = LeavesOf(f, doc)

\* The leaves of a document depend on those of its items only.
LEMMA SameItemLeaves ==
  ASSUME NEW f, NEW g, NEW doc, \A n \in DOMAIN doc.items : f[doc.items[n]] = g[doc.items[n]]
  PROVE  LeavesOf(f, doc) = LeavesOf(g, doc)
<1>1. [n \in DOMAIN doc.items |-> f[doc.items[n]]] = [n \in DOMAIN doc.items |-> g[doc.items[n]]]
  OBVIOUS
<1> QED BY <1>1 DEF LeavesOf

\* There is a function that goes through documents nested to any depth.
LEMMA LeavesBelowExist == \A n \in Nat : \E f : LeavesBelow(f, n)
<1> DEFINE T == {n \in Nat : \E f : LeavesBelow(f, n)}
<1>1. 0 \in T
  <2>1. LeavesBelow(<<>>, 0)
    BY DepthFact DEF LeavesBelow
  <2> QED BY <2>1
<1>2. ASSUME NEW n \in Nat, n \in T PROVE n + 1 \in T
  <2>1. PICK f : LeavesBelow(f, n)
    BY <1>2
  <2> DEFINE g == [doc \in Documents |-> IF Depth[doc] = n THEN LeavesOf(f, doc) ELSE f[doc]]
  <2>2. ASSUME NEW doc \in Documents, Depth[doc] < n + 1 PROVE g[doc] = LeavesOf(g, doc)
    <3>1. \A k \in DOMAIN doc.items : g[doc.items[k]] = f[doc.items[k]]
      BY DepthFact, <2>2
    <3>2. LeavesOf(g, doc) = LeavesOf(f, doc)
      <4> HIDE DEF g
      <4> QED BY <3>1, SameItemLeaves
    <3>3. Depth[doc] # n => f[doc] = LeavesOf(f, doc)
      BY DepthFact, <2>1, <2>2 DEF LeavesBelow
    <3>4. g[doc] = IF Depth[doc] = n THEN LeavesOf(f, doc) ELSE f[doc]
      OBVIOUS
    <3> HIDE DEF g
    <3> QED BY <3>2, <3>3, <3>4
  <2> HIDE DEF g
  <2>3. LeavesBelow(g, n + 1)
    BY <2>2 DEF LeavesBelow
  <2> QED BY <2>3
<1> HIDE DEF T
<1>3. \A n \in Nat : n \in T
  BY <1>1, <1>2, NatSetInduction
<1> QED BY <1>3 DEF T

\* Any two of them find the same leaves.
LEMMA LeavesBelowUnique ==
  ASSUME NEW m \in Nat, NEW n \in Nat, NEW f, NEW g, LeavesBelow(f, m), LeavesBelow(g, n),
         NEW doc \in Documents, Depth[doc] < m, Depth[doc] < n
  PROVE  f[doc] = g[doc]
<1> DEFINE Same(d) == Depth[d] < m /\ Depth[d] < n => f[d] = g[d]
           T == {k \in Nat : \A d \in Documents : Depth[d] < k => Same(d)}
<1>1. 0 \in T
  BY DepthFact
<1>2. ASSUME NEW k \in Nat, k \in T PROVE k + 1 \in T
  <2> SUFFICES ASSUME NEW d \in Documents, Depth[d] < k + 1, Depth[d] < m, Depth[d] < n
               PROVE  f[d] = g[d]
    OBVIOUS
  <2>1. ASSUME NEW j \in DOMAIN d.items PROVE f[d.items[j]] = g[d.items[j]]
    <3>1. /\ d.items[j] \in Documents /\ Depth[d.items[j]] < Depth[d]
          /\ Depth[d.items[j]] \in Nat /\ Depth[d] \in Nat
      BY DepthFact
    <3>2. Depth[d.items[j]] < k /\ Depth[d.items[j]] < m /\ Depth[d.items[j]] < n
      BY <3>1
    <3> QED BY <1>2, <3>1, <3>2
  <2>2. LeavesOf(f, d) = LeavesOf(g, d)
    BY <2>1, SameItemLeaves
  <2>3. f[d] = LeavesOf(f, d) /\ g[d] = LeavesOf(g, d)
    BY DEF LeavesBelow
  <2> QED BY <2>2, <2>3
<1> HIDE DEF T
<1>3. \A k \in Nat : k \in T
  BY <1>1, <1>2, NatSetInduction
<1>4. m \in T
  BY <1>3
<1> QED BY <1>4 DEF T

\* A text has an end, so the recursion of documentLeaves has one.
LEMMA LeavesFromDocument ==
  \A doc \in Documents :
    documentLeaves[doc] = LeavesOf(documentLeaves, doc)
<1> DEFINE Upto(n) == CHOOSE f : LeavesBelow(f, n)
           F == [doc \in Documents |-> Upto(Depth[doc] + 1)[doc]]
           Is(h) == h = [doc \in Documents |-> LeavesOf(h, doc)]
<1>1. \A n \in Nat : LeavesBelow(Upto(n), n)
  BY LeavesBelowExist
<1> HIDE DEF Upto
<1>2. ASSUME NEW doc \in Documents PROVE F[doc] = LeavesOf(F, doc)
  <2> DEFINE f == Upto(Depth[doc] + 1)
  <2>1. Depth[doc] \in Nat /\ Depth[doc] + 1 \in Nat /\ LeavesBelow(f, Depth[doc] + 1)
    BY <1>1, DepthFact
  <2>2. ASSUME NEW n \in DOMAIN doc.items PROVE F[doc.items[n]] = f[doc.items[n]]
    <3> DEFINE d == doc.items[n]
    <3>1. d \in Documents /\ Depth[d] < Depth[doc] /\ Depth[d] \in Nat
      BY DepthFact
    <3>2. F[d] = Upto(Depth[d] + 1)[d] /\ LeavesBelow(Upto(Depth[d] + 1), Depth[d] + 1)
      BY <1>1, <3>1
    <3> HIDE DEF d, F, f
    <3>3. Upto(Depth[d] + 1)[d] = f[d]
      BY <2>1, <3>1, <3>2, LeavesBelowUnique
    <3> QED BY <3>2, <3>3 DEF d
  <2>3. F[doc] = f[doc]
    OBVIOUS
  <2> HIDE DEF F, f
  <2>4. LeavesOf(F, doc) = LeavesOf(f, doc)
    BY <2>2, SameItemLeaves
  <2>5. f[doc] = LeavesOf(f, doc)
    BY <2>1 DEF LeavesBelow
  <2> QED BY <2>3, <2>4, <2>5
<1>3. Is(F)
  <2>1. F = [doc \in Documents |-> F[doc]]
    OBVIOUS
  <2> HIDE DEF F
  <2> QED BY <1>2, <2>1
<1>4. documentLeaves = CHOOSE h : Is(h)
  BY Zenon DEF documentLeaves
<1> HIDE DEF Is, F
<1>5. Is(documentLeaves)
  BY <1>3, <1>4
<1> QED BY <1>5 DEF Is


-----------------------------------------------------------------------------
\* Every leaf of a clusters file is read as a secret

\* A list holds the secret each leaf declares, in their order.
Matches(list, leaves) ==
  /\ Sequence(list) /\ Sequence(leaves) /\ Len(list) = Len(leaves)
  /\ \A n \in DOMAIN list : IsSecretOf(list[n], leaves[n])

\* Nothing is found where there is nothing.
LEMMA MatchesNone == Matches(<<>>, <<>>)
<1>1. Len(<<>>) = 0 /\ DOMAIN <<>> = {}
  OBVIOUS
<1> QED BY <1>1, NoneIsSequence DEF Matches

\* What is found one after the other is found together.
LEMMA MatchesConcat ==
  ASSUME NEW a, NEW b, NEW c, NEW d, Matches(a, b), Matches(c, d)
  PROVE  Matches(a \o c, b \o d)
<1> DEFINE s == a \o c
           t == b \o d
<1>1. /\ Sequence(s) /\ Len(s) = Len(a) + Len(c)
      /\ \A n \in DOMAIN s : s[n] = IF n <= Len(a) THEN a[n] ELSE c[n - Len(a)]
  BY ConcatSequence DEF Matches
<1>2. /\ Sequence(t) /\ Len(t) = Len(b) + Len(d)
      /\ \A n \in DOMAIN t : t[n] = IF n <= Len(b) THEN b[n] ELSE d[n - Len(b)]
  BY ConcatSequence DEF Matches
<1>3. /\ Len(a) \in Nat /\ DOMAIN a = 1 .. Len(a) /\ Len(c) \in Nat /\ DOMAIN c = 1 .. Len(c)
      /\ DOMAIN s = 1 .. Len(s) /\ DOMAIN t = 1 .. Len(t) /\ Len(a) = Len(b) /\ Len(c) = Len(d)
  BY <1>1, <1>2, SequenceProperties DEF Matches
<1> HIDE DEF s, t
<1>4. ASSUME NEW n \in DOMAIN s PROVE IsSecretOf(s[n], t[n])
  <2>1. n \in DOMAIN t
    BY <1>1, <1>2, <1>3
  <2>2. CASE n <= Len(a)
    <3>1. n \in DOMAIN a /\ s[n] = a[n] /\ t[n] = b[n]
      BY <1>1, <1>2, <1>3, <2>1, <2>2
    <3> QED BY <3>1 DEF Matches
  <2>3. CASE ~(n <= Len(a))
    <3>1. n - Len(a) \in DOMAIN c /\ s[n] = c[n - Len(a)] /\ t[n] = d[n - Len(a)]
      BY <1>1, <1>2, <1>3, <2>1, <2>3
    <3> QED BY <3>1 DEF Matches
  <2> QED BY <2>2, <2>3
<1> QED BY <1>1, <1>2, <1>3, <1>4 DEF Matches, s, t

\* So does what is flattened.
LEMMA MatchesFlatten ==
  ASSUME NEW s, NEW t, Sequence(s), Sequence(t), Len(s) = Len(t),
         \A n \in DOMAIN s : Matches(s[n], t[n])
  PROVE  Matches(FlattenSeq(s), FlattenSeq(t))
<1> DEFINE Both(a, b) == /\ Sequence(a) /\ Sequence(b) /\ Len(a) = Len(b)
                         /\ \A n \in DOMAIN a : Matches(a[n], b[n])
           S == Seq(Range(s))
           T == Seq(Range(t))
           N == {k \in Nat : \A a \in S, b \in T :
                   Both(a, b) /\ Len(a) = k => Matches(FlattenSeq(a), FlattenSeq(b))}
<1>1. 0 \in N
  <2> SUFFICES ASSUME NEW a \in S, NEW b \in T, Both(a, b), Len(a) = 0
               PROVE  Matches(FlattenSeq(a), FlattenSeq(b))
    OBVIOUS
  <2>1. a = <<>> /\ b = <<>>
    BY SequenceProperties
  <2> QED BY <2>1, FlattenEmpty, MatchesNone
<1>2. ASSUME NEW k \in Nat, k \in N PROVE k + 1 \in N
  <2> SUFFICES ASSUME NEW a \in S, NEW b \in T, Both(a, b), Len(a) = k + 1
               PROVE  Matches(FlattenSeq(a), FlattenSeq(b))
    OBVIOUS
  <2>1. a # <<>> /\ b # <<>> /\ Sequence(a) /\ Sequence(b) /\ Len(b) = k + 1
    <3>1. Sequence(a) /\ Sequence(b) /\ Len(a) # 0 /\ Len(b) = k + 1 /\ Len(b) # 0
      OBVIOUS
    <3> QED BY <3>1, SequenceProperties
  <2>2. /\ Sequence(Tail(a)) /\ Len(Tail(a)) = Len(a) - 1 /\ Head(a) = a[1] /\ 1 \in DOMAIN a
        /\ \A n \in DOMAIN Tail(a) : n + 1 \in DOMAIN a /\ Tail(a)[n] = a[n + 1]
        /\ Sequence(Tail(b)) /\ Len(Tail(b)) = Len(b) - 1 /\ Head(b) = b[1] /\ 1 \in DOMAIN b
        /\ \A n \in DOMAIN Tail(b) : n + 1 \in DOMAIN b /\ Tail(b)[n] = b[n + 1]
    BY <2>1, HeadBeforeTail
  <2>3. Len(Tail(a)) = k /\ Len(Tail(b)) = k
    BY <2>1, <2>2
  <2>4. DOMAIN Tail(a) = DOMAIN Tail(b) /\ DOMAIN a = DOMAIN b
    BY <2>1, <2>2, <2>3, SequenceProperties
  <2>5. Both(Tail(a), Tail(b)) /\ Tail(a) \in S /\ Tail(b) \in T
    <3>1. \A n \in DOMAIN Tail(a) : Matches(Tail(a)[n], Tail(b)[n])
      BY <2>2, <2>4
    <3>2. Tail(a) \in S /\ Tail(b) \in T
      BY <2>1
    <3> QED BY <2>2, <2>3, <3>1, <3>2
  <2>6. Matches(FlattenSeq(Tail(a)), FlattenSeq(Tail(b)))
    BY <1>2, <2>3, <2>5
  <2>7. /\ \A n \in DOMAIN a : Sequence(a[n])
        /\ \A n \in DOMAIN b : Sequence(b[n])
    BY <2>4 DEF Matches
  <2>8. FlattenSeq(a) = a[1] \o FlattenSeq(Tail(a)) /\ FlattenSeq(b) = b[1] \o FlattenSeq(Tail(b))
    BY <2>1, <2>2, <2>7, FlattenFirst
  <2>9. Matches(a[1], b[1])
    BY <2>2
  <2> QED BY <2>6, <2>8, <2>9, MatchesConcat
<1> HIDE DEF N
<1>3. \A k \in Nat : k \in N
  BY <1>1, <1>2, NatSetInduction
<1>4. s \in S /\ t \in T /\ Len(s) \in N
  BY <1>3, SequenceProperties DEF Sequence
<1> QED BY <1>4 DEF N

\* What is found in every part is found in all.
LEMMA TogetherMatches ==
  ASSUME NEW parts, NEW leaves, Sequence(parts), Sequence(leaves), Len(parts) = Len(leaves),
         \A n \in DOMAIN parts : parts[n].ok => Matches(parts[n].list, leaves[n]),
         Together(parts).ok
  PROVE  Matches(Together(parts).list, FlattenSeq(leaves))
<1> DEFINE lists == [n \in DOMAIN parts |-> parts[n].list]
<1>1. (\A n \in DOMAIN parts : parts[n].ok) /\ Together(parts).list = FlattenSeq(lists)
  BY DEF Together, Read, Rejected
<1>2. lists = [n \in DOMAIN parts |-> lists[n]] /\ \A n \in DOMAIN parts : lists[n] = parts[n].list
  OBVIOUS
<1> HIDE DEF lists
<1>3. Sequence(lists) /\ Len(lists) = Len(parts) /\ DOMAIN lists = DOMAIN parts
  BY <1>2, MapIsSequence
<1> QED BY <1>1, <1>2, <1>3, MatchesFlatten

\* What is kept of a secret: its name, the namespace, and stringData over data.
LEMMA ClusterSecretParts ==
  ASSUME NEW doc
  PROVE  LET secret == ClusterSecret(doc)
         IN  /\ secret.name = doc.name /\ secret.namespace = Namespace
             /\ secret.data = Merged(doc.stringData, doc.data)
<1> DEFINE data == Merged(doc.stringData, doc.data)
<1>1. ClusterSecret(doc) = [namespace |-> Namespace, name |-> doc.name, data |-> data]
  BY DEF ClusterSecret, mergeStringData
<1> HIDE DEF data
<1> QED BY <1>1 DEF data

\* That is the secret its document declares.
LEMMA ClusterSecretIs ==
  ASSUME NEW doc
  PROVE  doc.kind \in {"", "Secret"} /\ doc.labelled => IsSecretOf(ClusterSecret(doc), doc)
<1> DEFINE data == Merged(doc.stringData, doc.data)
<1>1. /\ \A key \in DOMAIN doc.stringData : data[key] = doc.stringData[key]
      /\ \A key \in DOMAIN doc.data \ DOMAIN doc.stringData : data[key] = doc.data[key]
  BY DEF Merged
<1> HIDE DEF data
<1>2. /\ ClusterSecret(doc).name = doc.name /\ ClusterSecret(doc).namespace = Namespace
      /\ ClusterSecret(doc).data = data
  BY ClusterSecretParts DEF data
<1> QED BY <1>1, <1>2 DEF IsSecretOf

\* Reading a document finds what its leaves declare.
LEMMA DocumentMatches ==
  ASSUME NEW doc \in Documents
  PROVE  clusterSecretsFromDocument[doc].ok =>
           Matches(clusterSecretsFromDocument[doc].list, documentLeaves[doc])
<1> DEFINE f == clusterSecretsFromDocument
           g == documentLeaves
           Same(d) == f[d].ok => Matches(f[d].list, g[d])
           T == {k \in Nat : \A d \in Documents : Depth[d] < k => Same(d)}
<1>1. 0 \in T
  BY DepthFact
<1>2. ASSUME NEW k \in Nat, k \in T PROVE k + 1 \in T
  <2> SUFFICES ASSUME NEW d \in Documents, Depth[d] < k + 1, f[d].ok PROVE Matches(f[d].list, g[d])
    OBVIOUS
  <2>0. Depth[d] \in Nat /\ Sequence(d.items)
    BY DepthFact
  <2>1. f[d] = SecretsOf(f, d) /\ g[d] = LeavesOf(g, d)
    BY SecretsFromDocument, LeavesFromDocument
  <2>2. ASSUME NEW j \in DOMAIN d.items PROVE f[d.items[j]].ok => Matches(f[d.items[j]].list, g[d.items[j]])
    <3>1. d.items[j] \in Documents /\ Depth[d.items[j]] < Depth[d] /\ Depth[d.items[j]] \in Nat
      BY DepthFact
    <3>2. Depth[d.items[j]] < k
      BY <2>0, <3>1
    <3> HIDE DEF f, g
    <3> QED BY <1>2, <3>1, <3>2
  <2> HIDE DEF f, g
  <2>3. CASE d.kind = "null"
    <3>1. f[d] = Read(<<>>) /\ g[d] = <<>>
      BY <2>1, <2>3 DEF SecretsOf, LeavesOf, ListKinds
    <3> QED BY <3>1, MatchesNone DEF Read
  <2>4. CASE d.kind \in ListKinds
    <3> DEFINE parts == [n \in DOMAIN d.items |-> f[d.items[n]]]
               leaves == [n \in DOMAIN d.items |-> g[d.items[n]]]
    <3>1. f[d] = Together(parts) /\ g[d] = FlattenSeq(leaves)
      BY <2>1, <2>4 DEF SecretsOf, LeavesOf, ListKinds
    <3>2. parts = [n \in DOMAIN d.items |-> parts[n]] /\ leaves = [n \in DOMAIN d.items |-> leaves[n]]
      OBVIOUS
    <3>3. \A n \in DOMAIN d.items : parts[n].ok => Matches(parts[n].list, leaves[n])
      BY <2>2
    <3> HIDE DEF parts, leaves
    <3>4. /\ Sequence(parts) /\ Len(parts) = Len(d.items) /\ DOMAIN parts = DOMAIN d.items
          /\ Sequence(leaves) /\ Len(leaves) = Len(d.items)
      BY <2>0, <3>2, MapIsSequence
    <3> QED BY <3>1, <3>3, <3>4, TogetherMatches
  <2>5. CASE d.kind \notin ListKinds \union {"null"}
    <3>1. g[d] = <<d>>
      BY <2>1, <2>5 DEF LeavesOf
    <3>2. d.kind \in {"", "Secret"} /\ d.labelled /\ f[d] = Read(<<ClusterSecret(d)>>)
      <4>1. Rejected.ok = FALSE
        BY DEF Rejected
      <4> QED BY <2>1, <2>5, <4>1 DEF SecretsOf
    <3>3. IsSecretOf(ClusterSecret(d), d)
      BY <3>2, ClusterSecretIs
    <3> DEFINE a == <<ClusterSecret(d)>>
               b == <<d>>
    <3>4. DOMAIN a = {1} /\ a[1] = ClusterSecret(d) /\ b[1] = d
      OBVIOUS
    <3>5. Sequence(a) /\ Sequence(b) /\ Len(a) = 1 /\ Len(b) = 1
      BY OneIsSequence
    <3> HIDE DEF a, b
    <3>6. Matches(a, b)
      <4>1. \A n \in DOMAIN a : IsSecretOf(a[n], b[n])
        BY <3>3, <3>4
      <4> QED BY <3>5, <4>1 DEF Matches
    <3>7. f[d].list = a
      <4>1. \A list : Read(list).list = list
        BY DEF Read
      <4> QED BY <3>2, <4>1 DEF a
    <3> QED BY <3>1, <3>6, <3>7 DEF b
  <2> QED BY <2>3, <2>4, <2>5
<1> HIDE DEF T
<1>3. \A k \in Nat : k \in T
  BY <1>1, <1>2, NatSetInduction
<1>4. Depth[doc] \in Nat /\ Depth[doc] + 1 \in T
  BY <1>3, DepthFact
<1> QED BY <1>4 DEF T

\* Reading a file finds what the leaves of its documents declare.
LEMMA FileMatches ==
  ASSUME NEW declared \in ClustersFiles, loadClusterSecrets(declared).ok
  PROVE  Matches(loadClusterSecrets(declared).list, Leaves(declared))
<1> DEFINE parts == [n \in DOMAIN declared |-> clusterSecretsFromDocument[declared[n]]]
           leaves == [n \in DOMAIN declared |-> documentLeaves[declared[n]]]
<1>1. Sequence(declared) /\ \A n \in DOMAIN declared : declared[n] \in Documents
  BY FileAssumption DEF Range
<1>2. loadClusterSecrets(declared) = Together(parts) /\ Leaves(declared) = FlattenSeq(leaves)
  BY DEF loadClusterSecrets, Leaves
<1>3. parts = [n \in DOMAIN declared |-> parts[n]] /\ leaves = [n \in DOMAIN declared |-> leaves[n]]
  OBVIOUS
<1>4. \A n \in DOMAIN declared : parts[n].ok => Matches(parts[n].list, leaves[n])
  BY <1>1, DocumentMatches
<1> HIDE DEF parts, leaves
<1>5. /\ Sequence(parts) /\ Len(parts) = Len(declared) /\ DOMAIN parts = DOMAIN declared
      /\ Sequence(leaves) /\ Len(leaves) = Len(declared)
  BY <1>1, <1>3, MapIsSequence
<1> QED BY <1>2, <1>4, <1>5, TogetherMatches

\* What is given to the clusters generator was found in the file.
LEMMA SecretsHold == ExpansionInv => EverySecretFoundUnlessNamesCollide
<1> SUFFICES ASSUME ExpansionInv PROVE EverySecretFoundUnlessNamesCollide
  OBVIOUS
<1>1. clustersFile \in ClustersFiles /\ status \in {"start", "generate", "ok", "error", "panic"}
  BY DEF ExpansionInv, ArgumentsOK
<1>2. hasClusters => AllSecrets = loadClusterSecrets(clustersFile)
  BY DEF AllSecrets
<1>3. CASE status = "panic"
  <2>1. AllSecrets.ok /\ ~DistinctNames(AllSecrets.list)
    BY <1>3 DEF ExpansionInv, SecretsOK
  <2>2. hasClusters
    BY <2>1 DEF AllSecrets, Read, DistinctNames
  <2>3. Matches(AllSecrets.list, Leaves(clustersFile))
    BY <1>1, <1>2, <2>1, <2>2, FileMatches
  <2>4. PICK m \in DOMAIN AllSecrets.list, n \in DOMAIN AllSecrets.list :
               AllSecrets.list[m].name = AllSecrets.list[n].name /\ m # n
    BY <2>1 DEF DistinctNames
  <2>5. m \in DOMAIN Leaves(clustersFile) /\ n \in DOMAIN Leaves(clustersFile)
    BY <2>3, SequenceProperties DEF Matches
  <2>6. Leaves(clustersFile)[m].name = Leaves(clustersFile)[n].name
    BY <2>3, <2>4 DEF Matches, IsSecretOf
  <2> QED BY <1>3, <2>4, <2>5, <2>6 DEF EverySecretFoundUnlessNamesCollide
<1>4. CASE status \in {"generate", "ok"} /\ hasClusters
  <2>1. AllSecrets.ok /\ secrets = AllSecrets.list
    BY <1>4 DEF ExpansionInv, SecretsOK
  <2>2. Matches(secrets, Leaves(clustersFile))
    BY <1>1, <1>2, <1>4, <2>1, FileMatches
  <2> QED BY <1>4, <2>2 DEF EverySecretFoundUnlessNamesCollide, EverySecretFound, Matches
<1>5. CASE status \in {"start", "error"} \/ (status # "panic" /\ ~hasClusters)
  BY <1>5 DEF EverySecretFoundUnlessNamesCollide, EverySecretFound
<1> QED BY <1>1, <1>3, <1>4, <1>5

\* Every secret a document or nested list declares, labelled as one of a cluster, reaches
\* the clusters generator (loadClusterSecrets, clusterSecretsFromDocument), however deep
\* the lists are nested, unless two have one name.
THEOREM SecretsFound == Spec => []EverySecretFoundUnlessNamesCollide
BY ExpansionInvariant, SecretsHold, PTL

-----------------------------------------------------------------------------
(* RenderInputs *)

\* The version a source is rendered with is the one its entry in the cache has.
Settled(s, got) ==
  /\ <<s.chart, s.version>> \in DOMAIN cache
  /\ got = IF s.version # AnyVersion THEN s.version ELSE first[<<s.chart, AnyVersion>>]

\* An entry has the version that was asked for, or the first there was to be had.
CacheInv ==
  /\ DOMAIN cache = DOMAIN first /\ DOMAIN cache \subseteq Charts \X Nat
  /\ \A d \in DOMAIN cache :
       /\ cache[d] \in 1 .. registry[d[1]]
       /\ cache[d] = IF d[2] # AnyVersion THEN d[2] ELSE first[d]

VersionInv ==
  /\ \A n \in DOMAIN requests : Settled(requests[n].source, requests[n].got)
  /\ \A n \in DOMAIN rendered : Settled(rendered[n].source, rendered[n].got)

NoFile == [kube |-> "", api |-> <<>>, misspelt |-> FALSE]
Held == IF hasFile THEN fileHeld ELSE {NoFile}

\* What has been rendered of the Application at hand has its capabilities, and these
\* are what the file has fileHeld meanwhile.
CapsInv ==
  /\ \A n \in DOMAIN rendered : rendered[n].app <= app /\ (phase = "start" => rendered[n].app < app)
  /\ phase \notin {"start", "failed"} =>
       /\ \E c \in Held : Acceptable(c) /\ caps.kube = c.kube /\ caps.api = c.api
       /\ \A n \in DOMAIN rendered : rendered[n].app = app =>
            /\ rendered[n].kube = OrDefault(rendered[n].source.kube, caps.kube, "")
            /\ rendered[n].api = OrDefault(rendered[n].source.api, caps.api, <<>>)

InputsInv == TypeOK /\ CacheInv /\ VersionInv /\ CapsInv

\* What the assumptions say of the bounds.
LEMMA Bounds ==
  /\ Newest \in Nat /\ 1 <= Newest /\ MaxRuns \in Nat /\ 1 <= MaxRuns /\ MaxFileEdits \in Nat
  /\ DOMAIN Applications \subseteq Nat /\ 1 \in DOMAIN Applications
  BY InputAssumption

\* Nothing has every type of list.
LEMMA EmptyTypes ==
  NoCaps \in [kube : Text, api : Seq(STRING)] /\ <<>> \in Seq(Requests) /\ <<>> \in Seq(Calls)
<1>1. <<>> \in Seq(STRING) /\ <<>> \in Seq(Requests) /\ <<>> \in Seq(Calls)
  OBVIOUS
<1>2. "" \in Text
  BY DEF Text
<1>3. NoCaps \in [kube : Text, api : Seq(STRING)]
  BY <1>1, <1>2 DEF NoCaps
<1> QED
  BY <1>1, <1>3

\* The Application at hand has sources, and the next one to build if one is left.
LEMMA SourcesOfApplication ==
  ASSUME TypeOK
  PROVE  /\ sources \in Seq(ChartSources) /\ sources # <<>>
         /\ phase = "build" /\ Len(requests) < Len(sources) => source \in ChartSources
<1>1. sources \in Seq(ChartSources) \ {<<>>}
  BY InputAssumption DEF TypeOK, sources
<1> QED
  BY <1>1 DEF source, TypeOK

\* The argument holds at first.
LEMMA InputsInitInv == InputsInit => InputsInv
<1> SUFFICES ASSUME InputsInit PROVE InputsInv
  OBVIOUS
<1>2. TypeOK
  <2>1. app \in DOMAIN Applications
    BY Bounds DEF InputsInit
  <2>2. sources \in Seq(ChartSources)
    BY <2>1, InputAssumption DEF sources
  <2>3. Len(requests) <= Len(sources)
    BY <2>2 DEF InputsInit
  <2> QED
    BY <2>1, <2>3, Bounds, EmptyTypes DEF InputsInit, TypeOK
<1> QED
  BY <1>2 DEF InputsInit, InputsInv, CacheInv, VersionInv, CapsInv

\* TypeOK are kept, action by action.
LEMMA TypesStep == InputsInv /\ [InputsNext]_inputVars => TypeOK'
<1> SUFFICES ASSUME InputsInv, [InputsNext]_inputVars PROVE TypeOK'
  OBVIOUS
<1> USE DEF InputsInv, TypeOK
<1>0. /\ sources \in Seq(ChartSources) /\ sources # <<>>
      /\ phase = "build" /\ Len(requests) < Len(sources) => source \in ChartSources
  BY SourcesOfApplication
<1>1. CASE LoadCapabilities
  <2>1. caps' \in [kube : Text, api : Seq(STRING)]
    BY <1>1, InputAssumption, EmptyTypes DEF LoadCapabilities
  <2>2. requests' \in Seq(Requests) /\ Len(requests') <= Len(sources')
    BY <1>0, <1>1, EmptyTypes DEF LoadCapabilities, sources
  <2> QED
    BY <1>1, <2>1, <2>2 DEF LoadCapabilities, outside
<1>2. CASE RejectCapabilities
  BY <1>2 DEF RejectCapabilities, Fail, outside, sources
<1>3. CASE UseCached
  <2>1. cache[chartDir(source)] \in Nat /\ source \in ChartSources
    BY <1>0, <1>3 DEF UseCached, Building, CacheInv, chartDir
  <2>2. requests' \in Seq(Requests) /\ Len(requests') = Len(requests) + 1
    BY <1>3, <2>1 DEF UseCached, Request, Requests
  <2> QED
    BY <1>3, <2>2, <1>0 DEF UseCached, Building, outside, sources
<1>4. CASE Pull
  <2>1. Pulled(source) \in Nat /\ source \in ChartSources
    BY <1>0, <1>4, InputAssumption DEF Pull, Building, Pulled, ChartSources
  <2>2. requests' \in Seq(Requests) /\ Len(requests') = Len(requests) + 1
    BY <1>4, <2>1 DEF Pull, Request, Requests
  <2> QED
    BY <1>4, <2>2, <1>0 DEF Pull, Building, outside, sources
<1>5. CASE PullFails
  BY <1>5 DEF PullFails, Fail, outside, sources
<1>6. CASE BuildDone
  BY <1>6 DEF BuildDone, outside, sources
<1>7. CASE Generate
  <2>1. Head(requests) \in Requests /\ Tail(requests) \in Seq(Requests)
        /\ Len(Tail(requests)) = Len(requests) - 1
    BY <1>7 DEF Generate
  <2>2. Helm(Head(requests)) \in Calls
    <3>1. app \in Nat
      BY Bounds
    <3>2. /\ Head(requests).source \in ChartSources /\ Head(requests).got \in Nat
          /\ Head(requests).source.kube \in Text /\ Head(requests).source.api \in Seq(STRING)
      BY <2>1 DEF Requests, ChartSources
    <3>3. caps.kube \in Text /\ caps.api \in Seq(STRING)
      OBVIOUS
    <3> QED
      BY <3>1, <3>2, <3>3 DEF Helm, Calls, OrDefault
  <2> QED
    BY <1>0, <1>7, <2>1, <2>2 DEF Generate, outside, sources
<1>8. CASE GenerateFails
  BY <1>8 DEF GenerateFails, Fail, outside, sources
<1>9. CASE NextApplication
  <2>1. app' \in DOMAIN Applications
    BY <1>9, InputAssumption DEF NextApplication
  <2>2. sources' \in Seq(ChartSources)
    BY <2>1, InputAssumption DEF sources
  <2> QED
    BY <1>9, <2>1, <2>2 DEF NextApplication
<1>10. CASE RunAgain
  <2>1. app' \in DOMAIN Applications
    BY <1>10, InputAssumption DEF RunAgain
  <2>2. sources' \in Seq(ChartSources)
    BY <2>1, InputAssumption DEF sources
  <2> QED
    BY <1>10, <2>1, <2>2, Bounds, EmptyTypes DEF RunAgain
<1>11. CASE EditFile
  BY <1>11, InputAssumption DEF EditFile, sources
<1>12. CASE Publish
  BY <1>12, InputAssumption DEF Publish, sources
<1>13. CASE UNCHANGED inputVars
  BY <1>13 DEF inputVars, outside, sources
<1> QED
  BY <1>1, <1>2, <1>3, <1>4, <1>5, <1>6, <1>7, <1>8, <1>9, <1>10, <1>11, <1>12, <1>13 DEF InputsNext

\* An entry, once made, keeps its version and what was newest then.
LEMMA CacheGrows ==
  ASSUME InputsInv, [InputsNext]_inputVars
  PROVE  /\ CacheInv'
         /\ \A d \in DOMAIN cache : d \in DOMAIN cache' /\ cache'[d] = cache[d] /\ first'[d] = first[d]
<1> USE DEF InputsInv
<1>1. CASE Pull
  <2> DEFINE dir == chartDir(source)
  <2>1. source \in ChartSources
    BY <1>1, SourcesOfApplication DEF Pull, Building
  <2>2. /\ dir \in Charts \X Nat /\ dir[1] = source.chart /\ dir[2] = source.version
        /\ dir \notin DOMAIN cache
    BY <1>1, <2>1 DEF Pull, chartDir, ChartSources
  <2>3. registry[source.chart] \in 1 .. Newest /\ Newest \in Nat /\ source.version \in Nat
    BY <2>1, InputAssumption DEF TypeOK, ChartSources
  <2>4. Pulled(source) \in 1 .. registry[source.chart]
    BY <1>1, <2>3 DEF Pull, Pulled, AnyVersion
  <2>5. /\ cache' = [d \in DOMAIN cache \union {dir} |-> IF d = dir THEN Pulled(source) ELSE cache[d]]
        /\ first' = [d \in DOMAIN first \union {dir} |->
                       IF d = dir THEN registry[source.chart] ELSE first[d]]
        /\ registry' = registry
    BY <1>1 DEF Pull, outside
  <2>6. Pulled(source) = IF dir[2] # AnyVersion THEN dir[2] ELSE registry[source.chart]
    BY <2>2 DEF Pulled
  <2>. HIDE DEF dir
  <2> QED
    BY <2>2, <2>4, <2>5, <2>6 DEF CacheInv
<1>2. CASE Publish
  <2>1. \A c \in Charts : registry[c] \in Nat /\ registry'[c] \in Nat /\ registry[c] <= registry'[c]
    BY <1>2, InputAssumption DEF Publish, TypeOK
  <2>2. \A d \in DOMAIN cache : d[1] \in Charts
    BY DEF CacheInv
  <2> QED
    BY <1>2, <2>1, <2>2 DEF CacheInv, Publish
<1>3. CASE cache' = cache /\ first' = first /\ registry' = registry
  BY <1>3 DEF CacheInv
<1> QED
  BY <1>1, <1>2, <1>3
     DEF InputsNext, inputVars, outside, LoadCapabilities, RejectCapabilities, Fail, UseCached, PullFails,
         BuildDone, Generate, GenerateFails, NextApplication, RunAgain, EditFile

\* What is settled for a source stays.
LEMMA SettledStays ==
  ASSUME InputsInv, [InputsNext]_inputVars
  PROVE  \A s \in ChartSources, got \in Nat :
           Settled(s, got) =>
             /\ <<s.chart, s.version>> \in DOMAIN cache'
             /\ got = IF s.version # AnyVersion THEN s.version ELSE first'[<<s.chart, AnyVersion>>]
<1> SUFFICES ASSUME NEW s \in ChartSources, NEW got \in Nat, Settled(s, got)
             PROVE  /\ <<s.chart, s.version>> \in DOMAIN cache'
                    /\ got = IF s.version # AnyVersion THEN s.version ELSE first'[<<s.chart, AnyVersion>>]
  OBVIOUS
<1>1. /\ <<s.chart, s.version>> \in DOMAIN cache
      /\ \A d \in DOMAIN cache : d \in DOMAIN cache' /\ first'[d] = first[d]
  BY CacheGrows DEF Settled
<1> QED
  BY <1>1 DEF Settled

\* Every step settles what it renders.
LEMMA VersionStep == InputsInv /\ [InputsNext]_inputVars => VersionInv'
<1> SUFFICES ASSUME InputsInv, [InputsNext]_inputVars PROVE VersionInv'
  OBVIOUS
<1> DEFINE Still(s, got) ==
             /\ <<s.chart, s.version>> \in DOMAIN cache'
             /\ got = IF s.version # AnyVersion THEN s.version ELSE first'[<<s.chart, AnyVersion>>]
<1> USE DEF InputsInv
<1>1. \A n \in DOMAIN requests : requests[n] \in Requests /\ Still(requests[n].source, requests[n].got)
  <2> SUFFICES ASSUME NEW n \in DOMAIN requests
               PROVE  requests[n] \in Requests /\ Still(requests[n].source, requests[n].got)
    OBVIOUS
  <2>1. requests[n] \in Requests
    BY DEF TypeOK
  <2>2. requests[n].source \in ChartSources /\ requests[n].got \in Nat
    BY <2>1 DEF Requests
  <2>3. Settled(requests[n].source, requests[n].got)
    BY DEF VersionInv
  <2>4. Still(requests[n].source, requests[n].got)
    BY <2>2, <2>3, SettledStays
  <2> QED
    BY <2>1, <2>4
<1>2. \A n \in DOMAIN rendered : rendered[n] \in Calls /\ Still(rendered[n].source, rendered[n].got)
  <2> SUFFICES ASSUME NEW n \in DOMAIN rendered
               PROVE  rendered[n] \in Calls /\ Still(rendered[n].source, rendered[n].got)
    OBVIOUS
  <2>1. rendered[n] \in Calls
    BY DEF TypeOK
  <2>2. rendered[n].source \in ChartSources /\ rendered[n].got \in Nat
    BY <2>1 DEF Calls
  <2>3. Settled(rendered[n].source, rendered[n].got)
    BY DEF VersionInv
  <2>4. Still(rendered[n].source, rendered[n].got)
    BY <2>2, <2>3, SettledStays
  <2> QED
    BY <2>1, <2>4
<1>3. SUFFICES /\ \A n \in DOMAIN requests' : Still(requests'[n].source, requests'[n].got)
               /\ \A n \in DOMAIN rendered' : Still(rendered'[n].source, rendered'[n].got)
  BY DEF VersionInv, Settled
<1>4. requests \in Seq(Requests) /\ rendered \in Seq(Calls)
  BY DEF TypeOK
<1>5. ASSUME NEW got \in Nat, phase = "build" /\ Len(requests) < Len(sources), Request(got),
             Still(source, got), rendered' = rendered
      PROVE  /\ \A n \in DOMAIN requests' : Still(requests'[n].source, requests'[n].got)
             /\ \A n \in DOMAIN rendered' : Still(rendered'[n].source, rendered'[n].got)
  <2>1. requests' = Append(requests, [source |-> source, got |-> got])
    BY <1>5 DEF Request
  <2>2. ASSUME NEW n \in DOMAIN requests'
        PROVE  \/ n \in DOMAIN requests /\ requests'[n] = requests[n]
               \/ requests'[n] = [source |-> source, got |-> got]
    BY <1>4, <2>1
  <2>. HIDE DEF Still
  <2>3. ASSUME NEW n \in DOMAIN requests' PROVE Still(requests'[n].source, requests'[n].got)
    BY <1>1, <1>5, <2>2
  <2> QED
    BY <1>2, <1>5, <2>3
<1>6. CASE UseCached
  <2>1. source \in ChartSources
    BY <1>6, SourcesOfApplication DEF UseCached, Building
  <2>2. /\ chartDir(source) \in DOMAIN cache /\ Request(cache[chartDir(source)])
        /\ rendered' = rendered /\ cache' = cache /\ first' = first
        /\ phase = "build" /\ Len(requests) < Len(sources)
    BY <1>6 DEF UseCached, Building
  <2>3. /\ cache[chartDir(source)] \in Nat
        /\ cache[chartDir(source)] = IF source.version # AnyVersion THEN source.version
                                     ELSE first[<<source.chart, AnyVersion>>]
    <3> DEFINE dir == chartDir(source)
    <3>1. dir = <<source.chart, source.version>> /\ dir[2] = source.version
      BY DEF chartDir
    <3>2. cache[dir] \in 1 .. registry[dir[1]] /\ cache[dir] = IF dir[2] # AnyVersion THEN dir[2] ELSE first[dir]
      BY <2>2 DEF CacheInv
    <3>3. dir[1] \in Charts /\ registry[dir[1]] \in Nat
      BY <2>2, Bounds DEF CacheInv, TypeOK
    <3> QED
      BY <3>1, <3>2, <3>3
  <2>4. Still(source, cache[chartDir(source)])
    BY <2>2, <2>3 DEF chartDir
  <2> QED
    BY <2>2, <2>3, <2>4, <1>5
<1>7. CASE Pull
  <2>1. source \in ChartSources /\ Pulled(source) \in Nat
    <3>1. source \in ChartSources
      BY <1>7, SourcesOfApplication DEF Pull, Building
    <3>2. source.chart \in Charts /\ source.version \in Nat /\ registry[source.chart] \in Nat
      BY <3>1, Bounds DEF ChartSources, TypeOK
    <3> QED
      BY <3>1, <3>2 DEF Pulled
  <2>2. /\ Request(Pulled(source)) /\ rendered' = rendered
        /\ phase = "build" /\ Len(requests) < Len(sources)
        /\ cache' = [d \in DOMAIN cache \union {chartDir(source)} |->
                       IF d = chartDir(source) THEN Pulled(source) ELSE cache[d]]
        /\ first' = [d \in DOMAIN first \union {chartDir(source)} |->
                       IF d = chartDir(source) THEN registry[source.chart] ELSE first[d]]
    BY <1>7 DEF Pull, Building
  <2>3. Still(source, Pulled(source))
    BY <2>1, <2>2 DEF chartDir, Pulled
  <2> QED
    BY <2>1, <2>2, <2>3, <1>5
<1>8. CASE Generate
  <2>1. /\ requests # <<>> /\ requests' = Tail(requests)
        /\ rendered' = Append(rendered, Helm(Head(requests)))
    BY <1>8 DEF Generate
  <2>2. ASSUME NEW n \in DOMAIN requests'
        PROVE  n + 1 \in DOMAIN requests /\ requests'[n] = requests[n + 1]
    BY <1>4, <2>1
  <2>3. ASSUME NEW n \in DOMAIN rendered'
        PROVE  \/ n \in DOMAIN rendered /\ rendered'[n] = rendered[n]
               \/ rendered'[n].source = requests[1].source /\ rendered'[n].got = requests[1].got
    <3>1. Helm(Head(requests)).source = requests[1].source /\ Helm(Head(requests)).got = requests[1].got
      <4>1. Head(requests) = requests[1]
        BY <1>4, <2>1
      <4> QED
        BY <4>1 DEF Helm
    <3>2. (n \in DOMAIN rendered /\ rendered'[n] = rendered[n]) \/ rendered'[n] = Helm(Head(requests))
      BY <1>4, <2>1
    <3> QED
      BY <3>1, <3>2
  <2>4. 1 \in DOMAIN requests
    BY <1>4, <2>1
  <2>. HIDE DEF Still
  <2>5. ASSUME NEW n \in DOMAIN requests' PROVE Still(requests'[n].source, requests'[n].got)
    BY <1>1, <2>2
  <2>6. ASSUME NEW n \in DOMAIN rendered' PROVE Still(rendered'[n].source, rendered'[n].got)
    BY <1>1, <1>2, <2>3, <2>4
  <2> QED
    BY <2>5, <2>6
<1>9. CASE requests' = requests /\ rendered' = rendered
  BY <1>1, <1>2, <1>9
<1>10. CASE LoadCapabilities
  BY <1>2, <1>10 DEF LoadCapabilities
<1>11. CASE RunAgain
  BY <1>11 DEF RunAgain
<1> QED
  BY <1>6, <1>7, <1>8, <1>9, <1>10, <1>11
     DEF InputsNext, inputVars, outside, RejectCapabilities, Fail, PullFails, BuildDone, GenerateFails,
         NextApplication, EditFile, Publish

-----------------------------------------------------------------------------
\* What the calls of the Application at hand have in common.
ByCaps(call, c) ==
  /\ call.kube = OrDefault(call.source.kube, c.kube, "")
  /\ call.api = OrDefault(call.source.api, c.api, <<>>)

\* Every step renders with the capabilities that were loaded.
LEMMA CapsStep == InputsInv /\ [InputsNext]_inputVars => CapsInv'
<1> SUFFICES ASSUME InputsInv, [InputsNext]_inputVars PROVE CapsInv'
  OBVIOUS
<1> USE DEF InputsInv
<1>1. /\ \A n \in DOMAIN rendered : rendered[n].app \in Nat
      /\ app \in Nat /\ rendered \in Seq(Calls) /\ requests \in Seq(Requests)
  <2>1. \A n \in DOMAIN rendered : rendered[n] \in Calls
    BY DEF TypeOK
  <2> QED
    BY <2>1, Bounds DEF TypeOK, Calls
<1>2. CASE LoadCapabilities
  <2>1. \A n \in DOMAIN rendered : rendered[n].app # app /\ rendered[n].app <= app
    BY <1>1, <1>2 DEF LoadCapabilities, CapsInv
  <2>2. \E c \in Held' : Acceptable(c) /\ caps'.kube = c.kube /\ caps'.api = c.api
    <3>1. CASE hasFile
      BY <1>2, <3>1 DEF LoadCapabilities, Held, outside, TypeOK
    <3>2. CASE ~hasFile
      <4>1. Acceptable(NoFile) /\ NoFile \in Held'
        <5>1. NoFile.api = <<>> /\ NoFile.kube = "" /\ NoFile.misspelt = FALSE
          BY DEF NoFile
        <5>2. \A n \in DOMAIN NoFile.api : FALSE
          <6>1. \A n \in DOMAIN <<>> : FALSE
            OBVIOUS
          <6> QED
            BY <5>1, <6>1
        <5>3. hasFile' = hasFile
          BY <1>2 DEF LoadCapabilities, outside
        <5> QED
          BY <3>2, <5>1, <5>2, <5>3 DEF Acceptable, Held, Nonsense
      <4> QED
        BY <1>2, <3>2, <4>1 DEF LoadCapabilities, NoCaps, NoFile
    <3> QED
      BY <3>1, <3>2
  <2> QED
    BY <1>2, <2>1, <2>2 DEF LoadCapabilities, CapsInv, Acceptable
<1>3. CASE Generate
  <2>1. /\ rendered' = Append(rendered, Helm(Head(requests)))
        /\ app' = app /\ caps' = caps /\ phase' = phase /\ Held' = Held
        /\ phase = "generate"
    BY <1>3 DEF Generate, Held, outside
  <2>2. ASSUME NEW n \in DOMAIN rendered'
        PROVE  \/ n \in DOMAIN rendered /\ rendered'[n] = rendered[n]
               \/ rendered'[n] = Helm(Head(requests))
    BY <1>1, <2>1
  <2>3. Helm(Head(requests)).app = app /\ ByCaps(Helm(Head(requests)), caps)
    BY DEF Helm, ByCaps
  <2>4. ASSUME NEW n \in DOMAIN rendered'
        PROVE  rendered'[n].app <= app /\ (rendered'[n].app = app => ByCaps(rendered'[n], caps))
    <3>1. CASE n \in DOMAIN rendered /\ rendered'[n] = rendered[n]
      BY <2>1, <3>1 DEF CapsInv, ByCaps
    <3>2. CASE rendered'[n] = Helm(Head(requests))
      BY <1>1, <2>3, <3>2
    <3> QED
      BY <2>2, <3>1, <3>2
  <2> QED
    BY <2>1, <2>4 DEF CapsInv, ByCaps, Acceptable
<1>4. CASE NextApplication
  <2>1. CASE phase' = "start" /\ app' = app + 1 /\ rendered' = rendered
    <3>1. \A n \in DOMAIN rendered : rendered[n].app <= app
      BY DEF CapsInv
    <3>2. ASSUME NEW n \in DOMAIN rendered
          PROVE  rendered[n].app <= app' /\ rendered[n].app < app'
      <4>1. rendered[n].app \in Nat /\ app \in Nat /\ rendered[n].app <= app
        BY <1>1, <3>1
      <4> QED
        BY <2>1, <4>1
    <3> QED
      BY <2>1, <3>2 DEF CapsInv
  <2>2. CASE phase' = "done" /\ app' = app /\ fileHeld' = fileHeld
    BY <1>4, <2>2 DEF CapsInv, NextApplication, Held, Acceptable
  <2> QED
    BY <1>4, <2>1, <2>2 DEF NextApplication
<1>5. CASE RunAgain
  <2>1. DOMAIN rendered' = {} /\ phase' = "start"
    BY <1>5 DEF RunAgain
  <2> QED
    BY <2>1 DEF CapsInv
<1>6. CASE EditFile
  <2>1. Held \subseteq Held'
    BY <1>6 DEF EditFile, Held
  <2> QED
    BY <1>6, <2>1 DEF EditFile, CapsInv, Acceptable
<1>7. CASE phase' = "failed" /\ app' = app /\ rendered' = rendered
  BY <1>1, <1>7 DEF CapsInv
<1>8. CASE /\ UNCHANGED <<hasFile, fileHeld, app, caps, rendered>>
           /\ phase' = phase \/ (phase = "build" /\ phase' = "generate")
  BY <1>8 DEF CapsInv, Held, Acceptable
<1> QED
  BY <1>2, <1>3, <1>4, <1>5, <1>6, <1>7, <1>8
     DEF InputsNext, inputVars, outside, RejectCapabilities, Fail, UseCached, Pull, PullFails, BuildDone,
         GenerateFails, Publish

-----------------------------------------------------------------------------
\* The invariant: whatever is edited and published, the cache has one version for each
\* entry, and all calls of an Application come from one version of the file.
THEOREM InputsInvariant == InputsSpec => []InputsInv
<1>1. InputsInv /\ [InputsNext]_inputVars => InputsInv'
  BY TypesStep, CacheGrows, VersionStep, CapsStep DEF InputsInv
<1> QED
  BY <1>1, InputsInitInv, PTL DEF InputsSpec

\* What a run keeps of an Application, of the file and of the cache has its type.
THEOREM InputsTypeCorrect == InputsSpec => []TypeOK
<1>1. InputsInv => TypeOK
  BY DEF InputsInv
<1> QED
  BY <1>1, InputsInvariant, PTL

\* A source without a version is rendered, in this run and all later ones, with the
\* version that was newest when it was first asked for, and any other with its own.
THEOREM VersionsAreFixed == InputsSpec => []VersionsFixed
<1>1. InputsInv => VersionsFixed
  BY DEF InputsInv, VersionInv, Settled, VersionsFixed
<1> QED
  BY <1>1, InputsInvariant, PTL

\* All sources of an Application are rendered for one cluster, one that the file, if
\* there is one, has named in full.
THEOREM OneCluster == InputsSpec => []OneClusterPerApplication
<1>1. InputsInv => OneClusterPerApplication
  <2> SUFFICES ASSUME InputsInv, phase \notin {"start", "failed"}
               PROVE  OneClusterPerApplication
    BY DEF OneClusterPerApplication
  <2>1. PICK c \in Held : Acceptable(c) /\ caps.kube = c.kube /\ caps.api = c.api
    BY DEF InputsInv, CapsInv
  <2>2. c \in IF hasFile THEN fileHeld ELSE {[kube |-> "", api |-> <<>>, misspelt |-> FALSE]}
    BY <2>1 DEF Held, NoFile
  <2>3. ~c.misspelt /\ c.kube \notin Nonsense /\ "" \notin {c.api[n] : n \in DOMAIN c.api}
    BY <2>1 DEF Acceptable
  <2>4. \A n \in DOMAIN rendered : rendered[n].app = app =>
          /\ rendered[n].kube = IF rendered[n].source.kube # "" THEN rendered[n].source.kube
                                ELSE c.kube
          /\ rendered[n].api = IF rendered[n].source.api # <<>> THEN rendered[n].source.api
                               ELSE c.api
    BY <2>1 DEF InputsInv, CapsInv, OrDefault
  <2> QED
    BY <2>2, <2>3, <2>4 DEF OneClusterPerApplication
<1> QED
  BY <1>1, InputsInvariant, PTL
=============================================================================
