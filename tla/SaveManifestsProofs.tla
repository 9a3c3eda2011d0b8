-------------------------- MODULE SaveManifestsProofs --------------------------
(***************************************************************************)
(* Proofs about SaveManifests for any rendered Applications and any number *)
(* of runs: which file an object gets, and what is on disk in the end.     *)
(***************************************************************************)
EXTENDS SaveManifests, FiniteSetTheorems, TLAPS

\* How many objects before the nth of an Application have a base name.
Before(res, k, n, b) == {m \in 1 .. n - 1 : base(res[k].objects[m]) = b}

\* The path an object has, whatever was saved before.
PathIn(res, k, n) ==
  LET b == base(res[k].objects[n])
  IN  <<res[k].name, filename(b, Cardinality(Before(res, k, n, b)) + 1)>>

LEMMA ResultTypes ==
  \A res \in Results :
    /\ Len(res) \in Nat /\ DOMAIN res = 1 .. Len(res)
    /\ \A k \in DOMAIN res :
         /\ res[k].objects \in Seq(Manifests)
         /\ Len(res[k].objects) \in Nat /\ DOMAIN res[k].objects = 1 .. Len(res[k].objects)
         /\ \A n \in DOMAIN res[k].objects : res[k].objects[n] \in Manifests
<1> SUFFICES ASSUME NEW res \in Results
             PROVE  /\ Len(res) \in Nat /\ DOMAIN res = 1 .. Len(res)
                    /\ \A k \in DOMAIN res :
                         /\ res[k].objects \in Seq(Manifests)
                         /\ Len(res[k].objects) \in Nat
                         /\ DOMAIN res[k].objects = 1 .. Len(res[k].objects)
                         /\ \A n \in DOMAIN res[k].objects : res[k].objects[n] \in Manifests
  OBVIOUS
<1>1. Len(res) \in Nat /\ DOMAIN res = 1 .. Len(res)
  <2> DEFINE Apps == {res[k] : k \in DOMAIN res}
  <2>1. res \in Seq(Apps)
    BY ResultAssumption
  <2> HIDE DEF Apps
  <2> QED
    BY <2>1
<1>2. ASSUME NEW k \in DOMAIN res PROVE res[k].objects \in Seq(Manifests)
  BY ResultAssumption
<1> QED
  BY <1>1, <1>2

LEMMA BeforeFinite ==
  \A res, k, b : \A n \in Nat :
    IsFiniteSet(Before(res, k, n, b)) /\ Cardinality(Before(res, k, n, b)) \in Nat
<1> SUFFICES ASSUME NEW res, NEW k, NEW b, NEW n \in Nat
             PROVE  IsFiniteSet(Before(res, k, n, b)) /\ Cardinality(Before(res, k, n, b)) \in Nat
  OBVIOUS
<1>1. IsFiniteSet(1 .. n - 1)
  BY FS_Interval
<1>2. Before(res, k, n, b) \in SUBSET (1 .. n - 1)
  BY DEF Before
<1>3. IsFiniteSet(Before(res, k, n, b))
  BY <1>1, <1>2, FS_Subset
<1> QED
  BY <1>3, FS_CardinalityType

\* One more object, one more of its base name.
LEMMA BeforeNext ==
  ASSUME NEW res, NEW k, NEW b, NEW n \in Nat \ {0}
  PROVE  Cardinality(Before(res, k, n + 1, b)) =
           Cardinality(Before(res, k, n, b)) + (IF base(res[k].objects[n]) = b THEN 1 ELSE 0)
<1>1. CASE base(res[k].objects[n]) = b
  <2>1. Before(res, k, n + 1, b) = Before(res, k, n, b) \union {n}
    BY <1>1 DEF Before
  <2>2. n \notin Before(res, k, n, b)
    BY DEF Before
  <2>3. IsFiniteSet(Before(res, k, n, b))
    BY BeforeFinite
  <2> QED
    BY <1>1, <2>1, <2>2, <2>3, FS_AddElement
<1>2. CASE base(res[k].objects[n]) # b
  <2>1. Before(res, k, n + 1, b) = Before(res, k, n, b)
    BY <1>2 DEF Before
  <2>2. Cardinality(Before(res, k, n, b)) \in Nat
    BY BeforeFinite
  <2> QED
    BY <1>2, <2>1, <2>2
<1> QED
  BY <1>1, <1>2

\* Later objects of a base name have a higher count.
LEMMA BeforeGrows ==
  ASSUME NEW res, NEW k, NEW m \in Nat \ {0}, NEW n \in Nat, m < n, NEW b, base(res[k].objects[m]) = b
  PROVE  Cardinality(Before(res, k, m, b)) < Cardinality(Before(res, k, n, b))
<1>1. Before(res, k, m + 1, b) \in SUBSET Before(res, k, n, b)
  BY DEF Before
<1>2. Cardinality(Before(res, k, m + 1, b)) <= Cardinality(Before(res, k, n, b))
  BY <1>1, BeforeFinite, FS_Subset
<1>3. /\ Cardinality(Before(res, k, m + 1, b)) \in Nat /\ Cardinality(Before(res, k, m, b)) \in Nat
      /\ Cardinality(Before(res, k, n, b)) \in Nat
  BY BeforeFinite
<1>4. Cardinality(Before(res, k, m + 1, b)) = Cardinality(Before(res, k, m, b)) + 1
  BY BeforeNext
<1> QED
  BY <1>2, <1>3, <1>4

\* Without a number of its own a name takes at most one, and that tells it from others.
LEMMA FilenameTells ==
  ASSUME NEW o \in Manifests, NEW p \in Manifests, o.numbers = <<>>, p.numbers = <<>>,
         NEW c \in Nat \ {0}, NEW d \in Nat \ {0}, filename(base(o), c) = filename(base(p), d)
  PROVE  base(o) = base(p) /\ c = d
<1> DEFINE x == base(o)
           y == base(p)
<1>1. /\ x = [kind |-> x.kind, stem |-> x.stem, numbers |-> <<>>]
      /\ y = [kind |-> y.kind, stem |-> y.stem, numbers |-> <<>>]
  BY DEF base
<1>2. /\ c > 1 => filename(x, c) = [kind |-> x.kind, stem |-> x.stem, numbers |-> <<c>>]
      /\ c <= 1 => filename(x, c) = x
      /\ d > 1 => filename(y, d) = [kind |-> y.kind, stem |-> y.stem, numbers |-> <<d>>]
      /\ d <= 1 => filename(y, d) = y
  <2>1. Append(<<>>, c) = <<c>> /\ Append(<<>>, d) = <<d>>
    OBVIOUS
  <2> HIDE DEF x, y
  <2> QED
    BY <1>1, <2>1 DEF filename
<1>3. <<c>> # <<>> /\ <<d>> # <<>> /\ (<<c>> = <<d>> => c = d)
  OBVIOUS
<1> HIDE DEF x, y
<1>4. filename(x, c) = filename(y, d)
  BY DEF x, y
<1>5. c > 1 <=> d > 1
  <2>1. /\ c > 1 => filename(x, c).numbers = <<c>>
        /\ d > 1 => filename(y, d).numbers = <<d>>
    BY <1>2
  <2>2. /\ c <= 1 => filename(x, c).numbers = <<>>
        /\ d <= 1 => filename(y, d).numbers = <<>>
    BY <1>1, <1>2
  <2>3. (c > 1 \/ c <= 1) /\ (d > 1 \/ d <= 1)
    OBVIOUS
  <2> QED BY <1>3, <1>4, <2>1, <2>2, <2>3
<1>6. CASE c > 1 /\ d > 1
  <2>1. x.kind = y.kind /\ x.stem = y.stem /\ <<c>> = <<d>>
    BY <1>2, <1>4, <1>6
  <2> QED BY <1>1, <1>3, <2>1 DEF x, y
<1>7. CASE ~(c > 1) /\ ~(d > 1)
  BY <1>2, <1>4, <1>7 DEF x, y
<1> QED
  BY <1>5, <1>6, <1>7

\* No two objects have one path, if names are telling.
LEMMA PathsDistinct ==
  ASSUME result \in Results, Unambiguous,
         NEW j \in DOMAIN result, NEW k \in DOMAIN result,
         NEW m \in DOMAIN result[j].objects, NEW n \in DOMAIN result[k].objects,
         PathIn(result, j, m) = PathIn(result, k, n)
  PROVE  j = k /\ m = n
<1> DEFINE objects == result[k].objects
           count(i) == Cardinality(Before(result, k, i, base(objects[i])))
<1>1. j = k
  BY DEF PathIn, Unambiguous
<1>2. m \in Nat \ {0} /\ n \in Nat \ {0} /\ m \in DOMAIN objects /\ n \in DOMAIN objects
  BY <1>1, ResultTypes
<1>3. \A i \in Nat : count(i) \in Nat
  BY BeforeFinite
<1>4. filename(base(objects[m]), count(m) + 1) = filename(base(objects[n]), count(n) + 1)
  BY <1>1 DEF PathIn
<1>5. CASE \A a, i \in DOMAIN objects : base(objects[a]) = base(objects[i]) => a = i
  <2>1. ASSUME NEW i \in DOMAIN objects PROVE count(i) = 0
    <3>1. \A a \in 1 .. i - 1 : a \in DOMAIN objects /\ a # i
      BY ResultTypes
    <3>2. Before(result, k, i, base(objects[i])) = {}
      BY <1>5, <3>1 DEF Before
    <3> QED
      BY <3>2, FS_EmptySet
  <2>2. filename(base(objects[m]), 1) = base(objects[m]) /\ filename(base(objects[n]), 1) = base(objects[n])
    BY DEF filename
  <2>3. base(objects[m]) = base(objects[n])
    <3> HIDE DEF count
    <3> QED
      BY <1>2, <1>4, <2>1, <2>2
  <2> QED
    BY <1>1, <1>2, <1>5, <2>3
<1>6. CASE \A i \in DOMAIN objects : objects[i].numbers = <<>>
  <2>1. objects[m] \in Manifests /\ objects[n] \in Manifests
    BY <1>2, ResultTypes
  <2>2. count(m) + 1 \in Nat \ {0} /\ count(n) + 1 \in Nat \ {0}
    BY <1>2, <1>3
  <2>3. base(objects[m]) = base(objects[n]) /\ count(m) + 1 = count(n) + 1
    <3> HIDE DEF count
    <3> QED
      BY <1>2, <1>4, <1>6, <2>1, <2>2, FilenameTells
  <2>4. count(m) = count(n)
    <3>1. count(m) \in Nat /\ count(n) \in Nat
      BY <1>2, <1>3
    <3> HIDE DEF count
    <3> QED
      BY <2>3, <3>1
  <2>5. m < n => count(m) < count(n)
    BY <1>2, <2>3, BeforeGrows
  <2>6. n < m => count(n) < count(m)
    BY <1>2, <2>3, BeforeGrows
  <2>7. count(m) \in Nat /\ count(n) \in Nat
    BY <1>2, <1>3
  <2>8. m = n
    <3> HIDE DEF count
    <3> QED
      BY <1>2, <2>4, <2>5, <2>6, <2>7
  <2> QED
    BY <1>1, <2>8
<1> QED
  BY <1>5, <1>6 DEF Unambiguous

-----------------------------------------------------------------------------
\* What a step that saves, or fails to save, an object does to the files.
Writes(value) == files' = Put(files, path, value)

LEMMA InitTypes == Init => TypeOK
  BY ResultTypes DEF Init, TypeOK

LEMMA TypesBegin ==
  ASSUME TypeOK, NEW rendered \in Results, Begin(rendered)
  PROVE  TypeOK'
<1>1. Len(rendered) \in Nat
  BY ResultTypes
<1>2. /\ result' = rendered /\ app' = 1 /\ next' = 0 /\ seen' = <<>> /\ status' = "saving"
      /\ attempt' = attempt + 1 /\ files' = files
  BY DEF Begin
<1>3. attempt' \in Nat /\ attempt' > 0 /\ \A p \in DOMAIN files : files[p][1] \in 1 .. attempt'
  BY <1>2 DEF TypeOK
<1> QED
  BY <1>1, <1>2, <1>3 DEF TypeOK, Objects

LEMMA TypesStep == TypeOK /\ [Next]_vars => TypeOK'
<1> SUFFICES ASSUME TypeOK, [Next]_vars PROVE TypeOK'
  OBVIOUS
<1> USE DEF TypeOK
<1>0. /\ Len(result) \in Nat /\ DOMAIN result = 1 .. Len(result)
      /\ app <= Len(result) => Len(Objects) \in Nat /\ DOMAIN Objects = 1 .. Len(Objects)
  BY ResultTypes DEF Objects
<1>1. ASSUME NEW k, NEW n, Writes(<<attempt, k, n>>), attempt' = attempt, status = "saving"
      PROVE  \A p \in DOMAIN files' : files'[p][1] \in 1 .. attempt'
  <2>1. \A p \in DOMAIN files' :
          files'[p] = <<attempt, k, n>> \/ (p \in DOMAIN files /\ files'[p] = files[p])
    BY <1>1 DEF Writes, Put
  <2>2. attempt \in 1 .. attempt
    BY <1>1 DEF TypeOK
  <2> QED
    BY <1>1, <2>1, <2>2
<1>2. CASE MakeDirectory
  BY <1>0, <1>2 DEF MakeDirectory, run, Objects, Saving
<1>3. CASE SaveObject
  <2>1. /\ next \in DOMAIN Objects /\ next' = next + 1 /\ app <= Len(result) /\ status = "saving"
        /\ UNCHANGED <<result, app, status, attempt, earlier, before>>
        /\ seen' = Put(seen, base(object), Count(base(object)) + 1)
        /\ Writes(<<attempt, app, next>>)
    BY <1>3 DEF SaveObject, Saving, run, Writes
  <2>2. \A b \in DOMAIN seen' : seen'[b] \in 1 .. next' - 1
    <3>1. Count(base(object)) \in 0 .. next - 1
      BY <1>0, <2>1 DEF Count
    <3>2. \A b \in DOMAIN seen' :
            seen'[b] = Count(base(object)) + 1 \/ (b \in DOMAIN seen /\ seen'[b] = seen[b])
      BY <2>1 DEF Put
    <3>3. \A b \in DOMAIN seen : seen[b] \in 1 .. next - 1
      BY <1>0, <2>1
    <3> QED
      BY <2>1, <3>1, <3>2, <3>3
  <2>3. \A p \in DOMAIN files' : files'[p][1] \in 1 .. attempt'
    BY <1>1, <2>1
  <2> QED
    BY <1>0, <2>1, <2>2, <2>3 DEF Objects
<1>4. CASE NextApplication
  BY <1>0, <1>4, ResultTypes DEF NextApplication, Saving, run, Objects
<1>5. CASE AllSaved \/ Kill
  BY <1>0, <1>5 DEF AllSaved, Kill, run, Objects
<1>6. CASE SaveFails
  <2>1. files' = files \/ Writes(<<attempt, 0, 0>>)
    BY <1>6 DEF SaveFails, Writes
  <2>2. \A p \in DOMAIN files' : files'[p][1] \in 1 .. attempt'
    BY <1>1, <1>6, <2>1 DEF SaveFails, run, Saving
  <2> QED
    BY <1>0, <1>6, <2>2 DEF SaveFails, run, Objects
<1>7. CASE RunAgain
  BY <1>7, TypesBegin DEF RunAgain
<1>8. CASE UNCHANGED vars
  BY <1>8 DEF vars, run, Objects
<1> QED
  BY <1>2, <1>3, <1>4, <1>5, <1>6, <1>7, <1>8 DEF Next

\* The counters say how often each base name came up in this Application.
SeenInv ==
  status = "saving" /\ app \in DOMAIN result /\ next > 0 =>
    \A b : Count(b) = Cardinality(Before(result, app, next, b))

LEMMA SeenStep == TypeOK /\ SeenInv /\ [Next]_vars => SeenInv'
<1> SUFFICES ASSUME TypeOK, SeenInv, [Next]_vars,
                    status' = "saving", app' \in DOMAIN result', next' > 0
             PROVE  \A b : Count(b)' = Cardinality(Before(result, app, next, b))'
  BY DEF SeenInv
<1>1. CASE MakeDirectory
  <2>1. seen' = <<>> /\ next' = 1 /\ result' = result /\ app' = app
    BY <1>1 DEF MakeDirectory
  <2>2. \A b : Before(result', app', next', b) = {}
    BY <2>1 DEF Before
  <2> QED
    BY <2>1, <2>2, FS_EmptySet DEF Count, Before
<1>2. CASE SaveObject
  <2>1. /\ next \in DOMAIN Objects /\ next' = next + 1 /\ app \in DOMAIN result
        /\ status = "saving" /\ result' = result /\ app' = app
        /\ seen' = Put(seen, base(object), Count(base(object)) + 1)
    BY <1>2 DEF SaveObject
  <2>2. next \in Nat \ {0}
    BY <2>1, ResultTypes DEF TypeOK, Objects
  <2>3. \A b : Count(b) = Cardinality(Before(result, app, next, b))
    BY <2>1, <2>2 DEF SeenInv
  <2>4. \A b : Count(b)' = IF b = base(object) THEN Count(b) + 1 ELSE Count(b)
    <3>1. /\ DOMAIN seen' = DOMAIN seen \union {base(object)}
          /\ seen'[base(object)] = Count(base(object)) + 1
          /\ \A k \in DOMAIN seen \ {base(object)} : seen'[k] = seen[k]
      BY <2>1 DEF Put
    <3> QED
      BY <3>1 DEF Count
  <2>5. object = result[app].objects[next]
    BY DEF object, Objects
  <2> SUFFICES ASSUME NEW b PROVE Count(b)' = Cardinality(Before(result, app, next, b))'
    OBVIOUS
  <2>6. Cardinality(Before(result, app, next + 1, b))
          = Cardinality(Before(result, app, next, b)) + (IF base(object) = b THEN 1 ELSE 0)
    BY <2>2, <2>5, BeforeNext
  <2>7. Cardinality(Before(result, app, next, b)) \in Nat
    BY <2>2, BeforeFinite
  <2>8. Count(b)' = Cardinality(Before(result, app, next + 1, b))
    BY <2>3, <2>4, <2>6, <2>7
  <2> QED
    BY <2>1, <2>8 DEF Before
<1>3. CASE NextApplication \/ RunAgain
  BY <1>3 DEF NextApplication, RunAgain, Begin
<1>4. CASE AllSaved \/ SaveFails \/ Kill
  BY <1>4 DEF AllSaved, SaveFails, Kill
<1>5. CASE UNCHANGED vars
  BY <1>5 DEF vars, SeenInv, Count, Before
<1> QED
  BY <1>1, <1>2, <1>3, <1>4, <1>5 DEF Next

\* So an object that is saved gets the path it has.
LEMMA PathOfObject ==
  ASSUME TypeOK, SeenInv, Saving, next \in DOMAIN Objects
  PROVE  /\ app \in DOMAIN result /\ next \in DOMAIN result[app].objects /\ next \in Nat \ {0}
         /\ path = PathIn(result, app, next)
<1>1. app \in DOMAIN result /\ next \in DOMAIN result[app].objects /\ next \in Nat \ {0}
  BY ResultTypes DEF TypeOK, Saving, Objects
<1>2. object = result[app].objects[next]
  BY DEF object, Objects
<1>3. Count(base(object)) = Cardinality(Before(result, app, next, base(object)))
  BY <1>1 DEF SeenInv, Saving
<1> QED
  BY <1>1, <1>2, <1>3 DEF path, PathIn

-----------------------------------------------------------------------------
\* What has been saved is on disk, under the path it has.
Saved(k, n) ==
  k \in DOMAIN result /\ n \in DOMAIN result[k].objects /\ (k < app \/ (k = app /\ n < next))

SavedInv ==
  /\ \A k, n : Saved(k, n) =>
       PathIn(result, k, n) \in DOMAIN files /\ files[PathIn(result, k, n)][1] = attempt
  /\ Unambiguous /\ status # "failed" =>
       \A k, n : Saved(k, n) => files[PathIn(result, k, n)] = <<attempt, k, n>>
  /\ status # "failed" => \A p \in DOMAIN files : files[p][1] = attempt => files[p][2] > 0
  /\ status = "saved" => app > Len(result)
  /\ earlier \subseteq {result} =>
       \A p \in DOMAIN files : \E k \in DOMAIN result : \E n \in DOMAIN result[k].objects :
         p = PathIn(result, k, n)

\* All but the places, the files and the runs is about the result alone.
LEMMA SameResult ==
  result' = result => /\ Unambiguous' <=> Unambiguous
                      /\ \A k, n : PathIn(result', k, n) = PathIn(result, k, n)
  BY DEF Unambiguous

LEMMA SavedInvNext ==
  ASSUME \A k, n : Saved(k, n)' =>
           /\ PathIn(result', k, n) \in DOMAIN files'
           /\ files'[PathIn(result', k, n)][1] = attempt',
         Unambiguous' /\ status' # "failed" =>
           \A k, n : Saved(k, n)' => files'[PathIn(result', k, n)] = <<attempt', k, n>>,
         status' # "failed" => \A p \in DOMAIN files' : files'[p][1] = attempt' => files'[p][2] > 0,
         status' = "saved" => app' > Len(result'),
         earlier' \subseteq {result'} =>
           \A p \in DOMAIN files' : \E k \in DOMAIN result' : \E n \in DOMAIN result'[k].objects :
             p = PathIn(result', k, n)
  PROVE  SavedInv'
  BY DEF SavedInv

LEMMA SavedInvNow ==
  ASSUME SavedInv
  PROVE  /\ \A k, n : Saved(k, n) =>
              PathIn(result, k, n) \in DOMAIN files /\ files[PathIn(result, k, n)][1] = attempt
         /\ Unambiguous /\ status # "failed" =>
              \A k, n : Saved(k, n) => files[PathIn(result, k, n)] = <<attempt, k, n>>
         /\ status # "failed" => \A p \in DOMAIN files : files[p][1] = attempt => files[p][2] > 0
         /\ status = "saved" => app > Len(result)
         /\ earlier \subseteq {result} =>
              \A p \in DOMAIN files : \E k \in DOMAIN result : \E n \in DOMAIN result[k].objects :
                p = PathIn(result, k, n)
  BY DEF SavedInv

LEMMA InitSaved == Init => SavedInv
<1> SUFFICES ASSUME Init PROVE SavedInv
  OBVIOUS
<1>1. \A k, n : ~Saved(k, n)
  BY ResultTypes DEF Init, Saved
<1> QED
  BY <1>1 DEF Init, SavedInv

LEMMA SavedBegin ==
  ASSUME TypeOK, SavedInv, NEW rendered \in Results, Begin(rendered)
  PROVE  SavedInv'
<1>1. /\ app' = 1 /\ next' = 0 /\ files' = files /\ attempt' = attempt + 1 /\ status' = "saving"
      /\ earlier' = earlier \union {result} /\ result' = rendered
  BY DEF Begin
<1>2. \A k, n : ~Saved(k, n)'
  BY <1>1, ResultTypes DEF Saved
<1>3. \A p \in DOMAIN files : files[p][1] # attempt + 1
  BY DEF TypeOK
<1>4. earlier' \subseteq {result'} => result' = result /\ earlier \subseteq {result}
  BY <1>1
<1> QED
  BY <1>1, <1>2, <1>3, <1>4, SameResult, SavedInvNow, SavedInvNext

LEMMA SavedStep == TypeOK /\ SeenInv /\ SavedInv /\ [Next]_vars => SavedInv'
<1> SUFFICES ASSUME TypeOK, SeenInv, SavedInv, [Next]_vars PROVE SavedInv'
  OBVIOUS
<1>0. /\ app \in Nat /\ next \in Nat /\ attempt \in Nat
      /\ DOMAIN result = 1 .. Len(result) /\ Len(result) \in Nat
  BY ResultTypes DEF TypeOK
<1>1. CASE SaveObject
  <2> DEFINE P == PathIn(result, app, next)
             w == <<attempt, app, next>>
  <2>1. /\ app \in DOMAIN result /\ next \in DOMAIN result[app].objects /\ next \in Nat \ {0}
        /\ path = P
    BY <1>1, PathOfObject DEF SaveObject
  <2>2. /\ files' = Put(files, P, w) /\ next' = next + 1 /\ status = "saving"
        /\ UNCHANGED <<result, app, status, attempt, earlier, before>>
    BY <1>1, <2>1 DEF SaveObject, Saving, run
  <2>3. /\ DOMAIN files' = DOMAIN files \union {P} /\ files'[P] = w
        /\ \A p \in DOMAIN files : p # P => files'[p] = files[p]
    <3> HIDE DEF P, w
    <3> QED
      BY <2>2 DEF Put
  <2>4. w[1] = attempt /\ w[2] = app /\ app > 0
    BY <1>0, <2>1
  <2>5. \A k, n : Saved(k, n)' => Saved(k, n) \/ (k = app /\ n = next)
    <3> SUFFICES ASSUME NEW k, NEW n, Saved(k, n)', ~(k = app /\ n = next) PROVE Saved(k, n)
      OBVIOUS
    <3>1. k \in DOMAIN result /\ n \in DOMAIN result[k].objects /\ (k < app \/ (k = app /\ n < next + 1))
      BY <2>2 DEF Saved
    <3>2. n \in Nat
      BY <3>1, ResultTypes DEF TypeOK
    <3> QED
      BY <1>0, <3>1, <3>2 DEF Saved
  <2>6. \A k, n : Saved(k, n)' =>
          PathIn(result, k, n) \in DOMAIN files' /\ files'[PathIn(result, k, n)][1] = attempt
    <3> HIDE DEF P, w
    <3> SUFFICES ASSUME NEW k, NEW n, Saved(k, n)'
                 PROVE  PathIn(result, k, n) \in DOMAIN files' /\ files'[PathIn(result, k, n)][1] = attempt
      OBVIOUS
    <3>1. CASE PathIn(result, k, n) = P
      BY <2>3, <2>4, <3>1
    <3>2. CASE PathIn(result, k, n) # P
      <4>1. Saved(k, n)
        BY <2>5, <3>2 DEF P
      <4>2. PathIn(result, k, n) \in DOMAIN files /\ files[PathIn(result, k, n)][1] = attempt
        BY <4>1 DEF SavedInv
      <4> QED
        BY <2>3, <3>2, <4>2
    <3> QED
      BY <3>1, <3>2
  <2>7. ASSUME Unambiguous
        PROVE  \A k, n : Saved(k, n)' => files'[PathIn(result, k, n)] = <<attempt, k, n>>
    <3> SUFFICES ASSUME NEW k, NEW n, Saved(k, n)' PROVE files'[PathIn(result, k, n)] = <<attempt, k, n>>
      OBVIOUS
    <3>1. CASE k = app /\ n = next
      BY <2>3, <3>1
    <3>2. CASE ~(k = app /\ n = next)
      <4>1. Saved(k, n)
        BY <2>5, <3>2
      <4>2. k \in DOMAIN result /\ n \in DOMAIN result[k].objects
        BY <4>1 DEF Saved
      <4>3. PathIn(result, k, n) # P
        BY <2>1, <2>7, <3>2, <4>2, PathsDistinct DEF TypeOK
      <4>4. PathIn(result, k, n) \in DOMAIN files /\ files[PathIn(result, k, n)] = <<attempt, k, n>>
        BY <2>2, <2>7, <4>1 DEF SavedInv
      <4> QED
        BY <2>3, <4>3, <4>4
    <3> QED
      BY <3>1, <3>2
  <2>8. \A p \in DOMAIN files' : files'[p][1] = attempt => files'[p][2] > 0
    <3> HIDE DEF P, w
    <3>1. \A p \in DOMAIN files : files[p][1] = attempt => files[p][2] > 0
      BY <2>2 DEF SavedInv
    <3> QED
      BY <2>3, <2>4, <3>1
  <2>9. earlier \subseteq {result} =>
          \A p \in DOMAIN files' : \E k \in DOMAIN result : \E n \in DOMAIN result[k].objects :
            p = PathIn(result, k, n)
    BY <2>1, <2>3 DEF SavedInv
  <2> HIDE DEF P, w
  <2> QED
    BY <2>2, <2>6, <2>7, <2>8, <2>9, SameResult, SavedInvNext
<1>2. CASE SaveFails
  <2> DEFINE P == PathIn(result, app, next)
  <2>1. /\ UNCHANGED <<result, app, next, attempt, earlier>> /\ status' = "failed"
    BY <1>2 DEF SaveFails, run
  <2>2. files' = files \/ (next \in DOMAIN Objects /\ Saving /\ Writes(<<attempt, 0, 0>>))
    BY <1>0, <1>2 DEF SaveFails, Writes
  <2>3. CASE files' = files
    <3>1. \A k, n : Saved(k, n)' <=> Saved(k, n)
      BY <2>1 DEF Saved
    <3> QED
      BY <2>1, <2>3, <3>1, SameResult, SavedInvNow, SavedInvNext
  <2>4. CASE next \in DOMAIN Objects /\ Saving /\ Writes(<<attempt, 0, 0>>)
    <3>1. /\ app \in DOMAIN result /\ next \in DOMAIN result[app].objects /\ path = P
      BY <2>4, PathOfObject
    <3>2. /\ DOMAIN files' = DOMAIN files \union {P} /\ files'[P][1] = attempt
          /\ \A p \in DOMAIN files : p # P => files'[p] = files[p]
      <4>1. <<attempt, 0, 0>>[1] = attempt
        OBVIOUS
      <4> HIDE DEF P
      <4> QED
        BY <2>4, <3>1, <4>1 DEF Writes, Put
    <3>3. \A k, n : Saved(k, n) =>
            PathIn(result, k, n) \in DOMAIN files' /\ files'[PathIn(result, k, n)][1] = attempt
      <4> HIDE DEF P
      <4> QED
        BY <3>2 DEF SavedInv
    <3>4. earlier \subseteq {result} =>
            \A p \in DOMAIN files' : \E k \in DOMAIN result : \E n \in DOMAIN result[k].objects :
              p = PathIn(result, k, n)
      BY <3>1, <3>2 DEF SavedInv
    <3>5. \A k, n : Saved(k, n)' <=> Saved(k, n)
      BY <2>1 DEF Saved
    <3> HIDE DEF P
    <3> QED
      BY <2>1, <3>3, <3>4, <3>5, SameResult, SavedInvNext
  <2> QED
    BY <2>2, <2>3, <2>4
<1>3. CASE MakeDirectory
  <2>1. /\ UNCHANGED <<result, app, status, files, attempt, earlier>> /\ next = 0 /\ next' = 1
    BY <1>3 DEF MakeDirectory, run
  <2>2. \A k, n : Saved(k, n)' <=> Saved(k, n)
    BY <1>0, <2>1, ResultTypes DEF Saved, TypeOK
  <2> QED
    BY <2>1, <2>2, SameResult, SavedInvNow, SavedInvNext
<1>4. CASE NextApplication
  <2>1. /\ UNCHANGED <<result, status, files, attempt, earlier>> /\ app' = app + 1 /\ next' = 0
        /\ app \in DOMAIN result /\ next > Len(Objects) /\ status = "saving"
    BY <1>0, <1>4 DEF NextApplication, run, Saving, TypeOK
  <2>2. \A n \in DOMAIN result[app].objects : n < next /\ n \in Nat
    BY <1>0, <2>1, ResultTypes DEF TypeOK, Objects
  <2>3. \A k, n : Saved(k, n)' => Saved(k, n)
    BY <1>0, <2>1, <2>2, ResultTypes DEF Saved, TypeOK
  <2> QED
    BY <2>1, <2>3, SameResult, SavedInvNow, SavedInvNext
<1>5. CASE AllSaved \/ Kill
  <2>1. /\ UNCHANGED <<result, app, next, files, attempt, earlier>>
        /\ status = "saving" /\ (status' = "saved" => app > Len(result))
    BY <1>5 DEF AllSaved, Kill, run
  <2>2. \A k, n : Saved(k, n)' <=> Saved(k, n)
    BY <2>1 DEF Saved
  <2> QED
    BY <2>1, <2>2, SameResult, SavedInvNow, SavedInvNext
<1>6. CASE RunAgain
  BY <1>6, SavedBegin DEF RunAgain
<1>7. CASE UNCHANGED vars
  <2>1. UNCHANGED <<result, app, next, files, status, attempt, earlier>>
    BY <1>7 DEF vars, run
  <2>2. \A k, n : Saved(k, n)' <=> Saved(k, n)
    BY <2>1 DEF Saved
  <2> QED
    BY <2>1, <2>2, SameResult, SavedInvNow, SavedInvNext
<1> QED
  BY <1>1, <1>2, <1>3, <1>4, <1>5, <1>6, <1>7 DEF Next

-----------------------------------------------------------------------------
\* A file of this attempt that is whole holds an object of the Application it is for.
WrittenInv ==
  \A p \in DOMAIN files : files[p][1] = attempt /\ files[p][2] > 0 =>
    /\ files[p][2] \in DOMAIN result
    /\ p[1] = result[files[p][2]].name
    /\ files[p][3] \in DOMAIN result[files[p][2]].objects

LEMMA WrittenBegin ==
  ASSUME TypeOK, NEW rendered, Begin(rendered)
  PROVE  WrittenInv'
<1>1. files' = files /\ attempt' = attempt + 1
  BY DEF Begin
<1>2. \A p \in DOMAIN files : files[p][1] # attempt + 1
  BY DEF TypeOK
<1> QED
  BY <1>1, <1>2 DEF WrittenInv

LEMMA WrittenStep ==
  ASSUME TypeOK, WrittenInv, [Next]_vars
  PROVE  WrittenInv'
<1>1. ASSUME UNCHANGED <<files, attempt, result>> PROVE WrittenInv'
  BY <1>1 DEF WrittenInv
<1>2. ASSUME Saving, UNCHANGED <<attempt, result>>, NEW k, NEW n, Writes(<<attempt, k, n>>),
             k = 0 \/ (k = app /\ n = next /\ next \in DOMAIN Objects)
      PROVE  WrittenInv'
  <2> DEFINE w == <<attempt, k, n>>
  <2>1. w[1] = attempt /\ w[2] = k /\ w[3] = n
    OBVIOUS
  <2>2. path[1] = result[app].name
    BY DEF path
  <2>3. app \in DOMAIN result
    BY <1>2, ResultTypes DEF TypeOK, Saving
  <2>4. files' = Put(files, path, w)
    BY <1>2 DEF Writes
  <2> HIDE DEF w
  <2>5. \A p \in DOMAIN files' :
          \/ p = path /\ files'[p] = w
          \/ p \in DOMAIN files /\ files'[p] = files[p]
    BY <2>4 DEF Put
  <2>6. ~(0 > 0)
    OBVIOUS
  <2> QED
    BY <1>2, <2>1, <2>2, <2>3, <2>5, <2>6 DEF WrittenInv, Objects
<1>3. CASE SaveObject
  BY <1>2, <1>3 DEF SaveObject, run, Writes
<1>4. CASE SaveFails
  BY <1>1, <1>2, <1>4 DEF SaveFails, run, Writes
<1>5. CASE RunAgain
  BY <1>5, WrittenBegin DEF RunAgain
<1>6. CASE MakeDirectory \/ NextApplication \/ AllSaved \/ Kill \/ UNCHANGED vars
  BY <1>1, <1>6 DEF MakeDirectory, NextApplication, AllSaved, Kill, vars, run
<1> QED
  BY <1>3, <1>4, <1>5, <1>6 DEF Next

-----------------------------------------------------------------------------
IInv == TypeOK /\ SeenInv /\ SavedInv /\ SavingOnlyAdds

LEMMA AddsStep == TypeOK /\ SavingOnlyAdds /\ [Next]_vars => SavingOnlyAdds'
<1> SUFFICES ASSUME TypeOK, SavingOnlyAdds, [Next]_vars PROVE SavingOnlyAdds'
  OBVIOUS
<1>1. ASSUME NEW k, NEW n, Writes(<<attempt, k, n>>), UNCHANGED <<attempt, before>> PROVE SavingOnlyAdds'
  <2>1. \A p \in DOMAIN files : p \in DOMAIN files' /\ (files'[p] = files[p] \/ files'[p][1] = attempt)
    <3>1. <<attempt, k, n>>[1] = attempt
      OBVIOUS
    <3> DEFINE w == <<attempt, k, n>>
    <3>2. files' = Put(files, path, w)
      BY <1>1 DEF Writes
    <3>3. w[1] = attempt
      BY <3>1
    <3> HIDE DEF w
    <3> QED
      BY <3>2, <3>3 DEF Put
  <2> QED
    BY <1>1, <2>1 DEF SavingOnlyAdds
<1>2. CASE UNCHANGED <<files, attempt, before>>
  BY <1>2 DEF SavingOnlyAdds
<1>3. CASE RunAgain
  BY <1>3 DEF RunAgain, Begin, SavingOnlyAdds
<1>4. CASE SaveObject
  BY <1>1, <1>4 DEF SaveObject, run, Writes
<1>5. CASE SaveFails
  BY <1>1, <1>2, <1>5 DEF SaveFails, run, Writes
<1> QED
  BY <1>2, <1>3, <1>4, <1>5 DEF Next, MakeDirectory, NextApplication, AllSaved, Kill, vars, run

\* The counters count, and what was saved is where they say, in every run of the command.
THEOREM Invariant == Spec => []IInv
<1>1. Init => IInv
  <2>1. Init => SeenInv /\ SavingOnlyAdds
    BY DEF Init, SeenInv, SavingOnlyAdds
  <2> QED
    BY <2>1, InitTypes, InitSaved DEF IInv
<1>2. IInv /\ [Next]_vars => IInv'
  BY TypesStep, SeenStep, SavedStep, AddsStep DEF IInv
<1> QED
  BY <1>1, <1>2, PTL DEF Spec

\* The place in what was rendered, the counters and the files have their types.
THEOREM TypeCorrect == Spec => []TypeOK
<1>1. IInv => TypeOK
  BY DEF IInv
<1> QED
  BY <1>1, Invariant, PTL

\* "Distinct objects must never share a filename": they do not, if names are telling.
THEOREM NothingOverwritten == Spec => []DistinctFilesUnlessNumbered
<1>1. IInv => DistinctFilesUnlessNumbered
  <2> SUFFICES ASSUME IInv, Unambiguous, status # "failed", NEW w \in Written
               PROVE  \E p \in DOMAIN files : files[p] = w
    BY DEF DistinctFilesUnlessNumbered, DistinctFiles
  <2>0. PICK k \in DOMAIN result : \E n \in DOMAIN result[k].objects :
          w = <<attempt, k, n>> /\ k <= app /\ (k < app \/ n < next)
    BY DEF Written
  <2>1. PICK n \in DOMAIN result[k].objects :
          w = <<attempt, k, n>> /\ k <= app /\ (k < app \/ n < next)
    BY <2>0
  <2>2. k \in Nat /\ app \in Nat
    BY ResultTypes DEF IInv, TypeOK
  <2>3. Saved(k, n)
    BY <2>1, <2>2 DEF Saved
  <2> QED
    BY <2>1, <2>3 DEF IInv, SavedInv
<1> QED
  BY <1>1, Invariant, PTL

\* Saving takes nothing from the directory, in this run or a later one.
THEOREM NothingTaken == Spec => []SavingOnlyAdds
<1>1. IInv => SavingOnlyAdds
  BY DEF IInv
<1> QED
  BY <1>1, Invariant, PTL

\* A run that succeeds makes good what was left by runs for the same tree that did not.
THEOREM Repaired == Spec => []RetryRepairs
<1>1. IInv => RetryRepairs
  <2> SUFFICES ASSUME IInv, status = "saved", earlier \subseteq {result}, NEW p \in DOMAIN files
               PROVE  files[p][1] = attempt /\ files[p][2] > 0
    BY DEF RetryRepairs
  <2>0. PICK k \in DOMAIN result : \E n \in DOMAIN result[k].objects : p = PathIn(result, k, n)
    BY DEF IInv, SavedInv
  <2>1. PICK n \in DOMAIN result[k].objects : p = PathIn(result, k, n)
    BY <2>0
  <2>2. k < app
    BY ResultTypes DEF IInv, SavedInv, TypeOK
  <2>3. Saved(k, n)
    BY <2>2 DEF Saved
  <2> QED
    BY <2>1, <2>3 DEF IInv, SavedInv
<1> QED
  BY <1>1, Invariant, PTL
=============================================================================
