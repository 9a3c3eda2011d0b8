----------------------------- MODULE DataLemmas -----------------------------
(***************************************************************************)
(* Facts about data that the proofs of several modules need: induction,    *)
(* flattened sequences, and the listing of a finite set in an order. The   *)
(* library has induction only with an operator as parameter; here it comes *)
(* from the least element of a set of numbers, and that from an instance   *)
(* of well-founded relations that needs none.                              *)
(***************************************************************************)
EXTENDS Integers, SequencesExt, SequenceTheorems, FiniteSetTheorems, TLAPS

\* A set of numbers that has a member has a least one.
LEMMA LeastElement ==
  ASSUME NEW T, T \subseteq Nat, T # {}
  PROVE  \E x \in T : \A y \in T : x <= y
<1> DEFINE I == {0..(n - 1) : n \in T}
           R == StrictSubsetOrdering(Nat)
           F == FiniteSubsetsOf(Nat)
<1>1. I \subseteq F
  <2> SUFFICES ASSUME NEW n \in T PROVE 0..(n - 1) \in F
    OBVIOUS
  <2>1. n \in Nat /\ n - 1 \in Int
    OBVIOUS
  <2>2. IsFiniteSet(0..(n - 1))
    BY <2>1, FS_Interval
  <2>3. 0..(n - 1) \subseteq Nat
    BY <2>1
  <2> QED BY <2>2, <2>3 DEF FiniteSubsetsOf
<1>2. I # {}
  OBVIOUS
<1>3. IsWellFoundedOn(R, F)
  BY FS_StrictSubsetOrderingWellFounded
<1>4. PICK X \in I : \A Y \in I : ~ (<<Y, X>> \in R)
  <2> HIDE DEF I, R, F
  <2> QED BY <1>1, <1>2, <1>3, WFMin
<1>5. PICK x \in T : X = 0..(x - 1)
  OBVIOUS
<1>6. ASSUME NEW y \in T, y < x PROVE FALSE
  <2>1. 0..(y - 1) \in I
    OBVIOUS
  <2>2. 0..(y - 1) \subseteq X /\ 0..(y - 1) # X
    <3>1. x \in Nat /\ y \in Nat OBVIOUS
    <3>2. y \in 0..(x - 1) /\ y \notin 0..(y - 1) BY <3>1, <1>6
    <3> QED BY <1>5, <1>6, <3>1, <3>2
  <2>3. <<0..(y - 1), X>> \in R
    <3>1. X \subseteq Nat /\ 0..(y-1) \subseteq Nat
       BY <1>5
    <3> HIDE DEF I
    <3> QED BY <2>2, <3>1 DEF StrictSubsetOrdering
  <2> QED BY <1>4, <2>1, <2>3
<1> QED
  <2>1. x \in Nat /\ \A y \in T : y \in Nat /\ ~(y < x) BY <1>6
  <2> QED BY <2>1

\* A set of numbers that has a member and a bound has a greatest one.
LEMMA GreatestElement ==
  ASSUME NEW n \in Nat, NEW T, T \subseteq 1 .. n, T # {}
  PROVE  \E x \in T : \A y \in T : y <= x
<1> DEFINE U == {n - y : y \in T}
<1>0. \A y \in T : y \in Nat /\ n - y \in Nat
  OBVIOUS
<1>1. U \subseteq Nat /\ U # {}
  <2>1. U \subseteq Nat
    BY <1>0
  <2>2. PICK y : y \in T
    OBVIOUS
  <2>3. n - y \in U
    BY <2>2
  <2> QED BY <2>1, <2>3
<1>2. PICK z \in U : \A y \in U : z <= y
  BY <1>1, LeastElement
<1>3. PICK x \in T : z = n - x
  BY <1>2
<1>4. \A y \in T : n - x <= n - y
  BY <1>2, <1>3
<1> QED
  BY <1>0, <1>4

\* Induction over the numbers, for a set instead of a predicate.
LEMMA NatSetInduction ==
  ASSUME NEW S, 0 \in S, \A n \in Nat : n \in S => n + 1 \in S
  PROVE  \A n \in Nat : n \in S
<1> SUFFICES ASSUME Nat \ S # {} PROVE FALSE
  OBVIOUS
<1>1. PICK x \in Nat \ S : \A y \in Nat \ S : x <= y
  <2> DEFINE T == Nat \ S
  <2>1. T \subseteq Nat /\ T # {} OBVIOUS
  <2> HIDE DEF T
  <2>2. \E x \in T : \A y \in T : x <= y BY <2>1, LeastElement
  <2> QED BY <2>2 DEF T
<1>2. x # 0 /\ x - 1 \in Nat /\ (x - 1) + 1 = x
  OBVIOUS
<1> QED
  BY <1>1, <1>2

\* An element of a concatenation is one of either sequence.
LEMMA ConcatMember ==
  ASSUME NEW S, NEW s \in Seq(S), NEW t \in Seq(S), NEW k \in DOMAIN (s \o t)
  PROVE  \/ k \in DOMAIN s /\ (s \o t)[k] = s[k]
         \/ \E j \in DOMAIN t : (s \o t)[k] = t[j]
<1> DEFINE m == Len(s)
           n == Len(t)
           u == s \o t
<1>1. /\ m \in Nat /\ n \in Nat /\ DOMAIN s = 1 .. m /\ DOMAIN t = 1 .. n
      /\ k \in 1 .. (m + n)
      /\ u[k] = IF k <= m THEN s[k] ELSE t[k - m]
  BY ConcatProperties, LenProperties
<1> HIDE DEF m, n, u
<1>2. CASE k <= m
  <2>1. k \in DOMAIN s /\ u[k] = s[k]
    BY <1>1, <1>2
  <2> QED BY <2>1 DEF u
<1>3. CASE ~(k <= m)
  <2>1. k - m \in DOMAIN t /\ u[k] = t[k - m]
    BY <1>1, <1>3
  <2> QED BY <2>1 DEF u
<1> QED
  BY <1>2, <1>3

\* The sequences that flattening goes through.
Flattens(f, s) == f = [i \in 1..Len(s) |-> IF i = 1 THEN s[i] ELSE f[i - 1] \o s[i]]

\* The function that FlattenSeq chooses exists ...
LEMMA FlattenExists ==
  ASSUME NEW S, NEW s \in Seq(Seq(S))
  PROVE  \E f : Flattens(f, s) /\ f \in [1..Len(s) -> Seq(S)]
<1> DEFINE P(n) == \E f \in [1..n -> Seq(S)] :
                     f = [i \in 1..n |-> IF i = 1 THEN s[i] ELSE f[i - 1] \o s[i]]
           T == {n \in Nat : n <= Len(s) => P(n)}
<1>0. Len(s) \in Nat
  OBVIOUS
<1>1. 0 \in T
  <2> DEFINE f == [i \in 1..0 |-> <<>>]
  <2>1. f \in [1..0 -> Seq(S)] /\ f = [i \in 1..0 |-> IF i = 1 THEN s[i] ELSE f[i - 1] \o s[i]]
    OBVIOUS
  <2> QED BY <2>1
<1>2. ASSUME NEW n \in Nat, n \in T PROVE n + 1 \in T
  <2> SUFFICES ASSUME n + 1 <= Len(s) PROVE P(n + 1)
    <3> HIDE DEF P
    <3> QED OBVIOUS
  <2>0. P(n)
    <3>1. n <= Len(s) BY <1>0
    <3> HIDE DEF P
    <3> QED BY <1>2, <3>1
  <2>1. PICK f \in [1..n -> Seq(S)] :
               f = [i \in 1..n |-> IF i = 1 THEN s[i] ELSE f[i - 1] \o s[i]]
    BY <2>0
  <2> DEFINE g == [i \in 1..(n + 1) |-> IF i = n + 1 THEN (IF i = 1 THEN s[i] ELSE f[n] \o s[i])
                                        ELSE f[i]]
  <2>2. s[n + 1] \in Seq(S)
    OBVIOUS
  <2>3. g \in [1..(n + 1) -> Seq(S)]
    BY <2>2, ConcatProperties
  <2>4. \A i \in 1..(n + 1) : g[i] = IF i = 1 THEN s[i] ELSE g[i - 1] \o s[i]
    <3> SUFFICES ASSUME NEW i \in 1..(n + 1)
                 PROVE  g[i] = IF i = 1 THEN s[i] ELSE g[i - 1] \o s[i]
      OBVIOUS
    <3>1. CASE i = n + 1
      BY <3>1
    <3>2. CASE i # n + 1
      <4>1. i \in 1..n /\ (i # 1 => i - 1 \in 1..n)
        BY <3>2
      <4>2. g[i] = f[i] /\ (i # 1 => g[i - 1] = f[i - 1])
        BY <3>2, <4>1
      <4>3. f[i] = IF i = 1 THEN s[i] ELSE f[i - 1] \o s[i]
        BY <2>1, <4>1
      <4> HIDE DEF g
      <4> QED BY <4>2, <4>3
    <3> QED BY <3>1, <3>2
  <2>5. g = [i \in 1..(n + 1) |-> IF i = 1 THEN s[i] ELSE g[i - 1] \o s[i]]
    <3>1. DOMAIN g = 1..(n + 1) OBVIOUS
    <3>2. g = [i \in 1..(n + 1) |-> g[i]] OBVIOUS
    <3> HIDE DEF g
    <3> QED BY <2>4, <3>1, <3>2
  <2> HIDE DEF g
  <2> QED BY <2>3, <2>5
<1>3. Len(s) \in T
  <2> HIDE DEF T
  <2>1. \A n \in Nat : n \in T BY <1>1, <1>2, NatSetInduction
  <2> QED BY <2>1
<1>4. P(Len(s))
  <2> HIDE DEF P
  <2> QED BY <1>0, <1>3
<1> QED
  BY <1>4 DEF Flattens

\* ... and there is only one ...
LEMMA FlattenUnique ==
  ASSUME NEW s, Len(s) \in Nat, NEW f, NEW g, Flattens(f, s), Flattens(g, s)
  PROVE  f = g
<1> DEFINE T == {n \in Nat : n \in 1..Len(s) => f[n] = g[n]}
<1>1. 0 \in T
  OBVIOUS
<1>2. ASSUME NEW n \in Nat, n \in T PROVE n + 1 \in T
  <2> SUFFICES ASSUME n + 1 \in 1..Len(s) PROVE f[n + 1] = g[n + 1]
    OBVIOUS
  <2>1. /\ f[n + 1] = IF n + 1 = 1 THEN s[n + 1] ELSE f[(n + 1) - 1] \o s[n + 1]
        /\ g[n + 1] = IF n + 1 = 1 THEN s[n + 1] ELSE g[(n + 1) - 1] \o s[n + 1]
    BY DEF Flattens
  <2>2. n + 1 # 1 => n \in 1..Len(s) /\ (n + 1) - 1 = n
    OBVIOUS
  <2> QED BY <1>2, <2>1, <2>2
<1>3. \A n \in Nat : n \in T
  <2> HIDE DEF T
  <2> QED BY <1>1, <1>2, NatSetInduction
<1>4. \A n \in 1..Len(s) : f[n] = g[n]
  BY <1>3
<1> QED BY <1>4 DEF Flattens

\* ... so that any such function gives its value.
LEMMA FlattenIs ==
  ASSUME NEW S, NEW s \in Seq(Seq(S)), s # <<>>, NEW f, Flattens(f, s)
  PROVE  FlattenSeq(s) = f[Len(s)]
<1> DEFINE g == CHOOSE h : Flattens(h, s)
<1>1. Flattens(g, s)
  OBVIOUS
<1>2. g = f
  <2>1. Len(s) \in Nat
    OBVIOUS
  <2> HIDE DEF g
  <2> QED BY <1>1, <2>1, FlattenUnique
<1>3. FlattenSeq(s) = g[Len(s)]
  <2>1. Len(s) # 0 OBVIOUS
  <2> QED BY <2>1 DEF FlattenSeq, Flattens
<1> QED BY <1>2, <1>3

\* Nothing flattened is nothing.
LEMMA FlattenEmpty == FlattenSeq(<<>>) = <<>>
BY DEF FlattenSeq

\* A single sequence flattened is that sequence.
LEMMA FlattenOne ==
  ASSUME NEW S, NEW x \in Seq(S)
  PROVE  FlattenSeq(<<x>>) = x
<1> DEFINE s == <<x>>
<1>1. s \in Seq(Seq(S)) /\ s # <<>> /\ Len(s) = 1 /\ s[1] = x
  OBVIOUS
<1> HIDE DEF s
<1>2. PICK f : Flattens(f, s)
  BY <1>1, FlattenExists
<1>3. f[1] = x
  BY <1>1, <1>2 DEF Flattens
<1>4. FlattenSeq(s) = x
  BY <1>1, <1>2, <1>3, FlattenIs
<1> QED BY <1>4 DEF s

\* Flattening keeps the elements.
LEMMA FlattenType ==
  ASSUME NEW S, NEW s \in Seq(Seq(S))
  PROVE  FlattenSeq(s) \in Seq(S)
<1>1. CASE s = <<>>
  <2>1. FlattenSeq(s) = <<>>
    BY <1>1, FlattenEmpty, Zenon
  <2> QED BY <2>1
<1>2. CASE s # <<>>
  <2>1. PICK f : Flattens(f, s) /\ f \in [1..Len(s) -> Seq(S)]
    BY FlattenExists
  <2>2. FlattenSeq(s) = f[Len(s)]
    BY <1>2, <2>1, FlattenIs
  <2>3. Len(s) \in 1..Len(s)
    BY <1>2
  <2> QED BY <2>1, <2>2, <2>3
<1> QED BY <1>1, <1>2

\* Flattening distributes over concatenation.
LEMMA FlattenConcat ==
  ASSUME NEW S, NEW s \in Seq(Seq(S)), NEW t \in Seq(Seq(S))
  PROVE  FlattenSeq(s \o t) = FlattenSeq(s) \o FlattenSeq(t)
<1> DEFINE m == Len(s)
           n == Len(t)
           u == s \o t
<1>0. \A x, y, z \in Seq(S) : x \o (y \o z) = (x \o y) \o z
  <2>1. \A x, y, z \in Seq(S) : (x \o y) \o z = x \o (y \o z)
    BY ConcatAssociative
  <2> SUFFICES ASSUME NEW x \in Seq(S), NEW y \in Seq(S), NEW z \in Seq(S)
               PROVE  x \o (y \o z) = (x \o y) \o z
    OBVIOUS
  <2>2. (x \o y) \o z = x \o (y \o z)
    BY <2>1, Zenon
  <2> QED BY <2>2, Zenon
<1>1. /\ m \in Nat /\ n \in Nat /\ u \in Seq(Seq(S)) /\ Len(u) = m + n
      /\ \A i \in 1..(m + n) : u[i] = IF i <= m THEN s[i] ELSE t[i - m]
  <2>1. m \in Nat /\ n \in Nat
    BY LenProperties
  <2> DEFINE SS == Seq(S)
  <2> HIDE DEF SS
  <2>2. s \in Seq(SS) /\ t \in Seq(SS)
    BY DEF SS
  <2>3. /\ u \in Seq(SS) /\ Len(u) = m + n
        /\ \A i \in 1..(m + n) : u[i] = IF i <= m THEN s[i] ELSE t[i - m]
    BY <2>2, ConcatProperties
  <2> QED BY <2>1, <2>3 DEF SS
<1>2. CASE s = <<>>
  <2>1. u = t BY <1>2, ConcatEmptySeq
  <2>2. FlattenSeq(t) \in Seq(S) BY FlattenType
  <2> QED BY <1>2, <2>1, <2>2, FlattenEmpty, ConcatEmptySeq
<1>3. CASE t = <<>>
  <2>1. u = s BY <1>3, ConcatEmptySeq
  <2>2. FlattenSeq(s) \in Seq(S) BY FlattenType
  <2> QED BY <1>3, <2>1, <2>2, FlattenEmpty, ConcatEmptySeq
<1>4. CASE s # <<>> /\ t # <<>>
  <2>1. m >= 1 /\ n >= 1
    BY <1>1, <1>4, EmptySeq
  <2>2. PICK f : Flattens(f, s) /\ f \in [1..m -> Seq(S)]
    BY FlattenExists
  <2>3. PICK g : Flattens(g, t) /\ g \in [1..n -> Seq(S)]
    BY FlattenExists
  <2> DEFINE h == [i \in 1..(m + n) |-> IF i <= m THEN f[i] ELSE f[m] \o g[i - m]]
  <2> HIDE DEF m, n, u
  <2>4. \A i \in 1..m : f[i] = IF i = 1 THEN s[i] ELSE f[i - 1] \o s[i]
    BY <2>2 DEF Flattens, m
  <2>5. \A j \in 1..n : g[j] = IF j = 1 THEN t[j] ELSE g[j - 1] \o t[j]
    BY <2>3 DEF Flattens, n
  <2>6. ASSUME NEW i \in 1..(m + n)
        PROVE  h[i] = IF i = 1 THEN u[i] ELSE h[i - 1] \o u[i]
    <3>1. CASE i <= m
      <4>1. i \in 1..m /\ (i # 1 => i - 1 \in 1..(m + n) /\ i - 1 <= m)
        BY <1>1, <3>1
      <4>2. h[i] = f[i] /\ (i # 1 => h[i - 1] = f[i - 1]) /\ u[i] = s[i]
        BY <1>1, <3>1, <4>1
      <4> HIDE DEF h
      <4> QED BY <2>4, <4>1, <4>2
    <3>2. CASE i = m + 1
      <4>1. i # 1 /\ i - 1 = m /\ m \in 1..(m + n) /\ ~(i <= m) /\ i - m = 1
        BY <1>1, <2>1, <3>2
      <4>2. h[i] = f[m] \o g[1] /\ h[i - 1] = f[m] /\ u[i] = t[1]
        <5>1. h[i] = f[m] \o g[i - m]
          BY <4>1
        <5>2. h[i - 1] = f[i - 1]
          BY <1>1, <2>1, <4>1
        <5> QED BY <1>1, <4>1, <5>1, <5>2
      <4>3. g[1] = t[1]
        BY <1>1, <2>1, <2>5
      <4> HIDE DEF h
      <4> QED BY <4>1, <4>2, <4>3
    <3>3. CASE i > m + 1
      <4> DEFINE j == i - m
      <4>1. /\ i # 1 /\ i - 1 \in 1..(m + n) /\ ~(i - 1 <= m) /\ ~(i <= m)
            /\ j \in 1..n /\ j - 1 \in 1..n /\ j # 1 /\ (i - 1) - m = j - 1
        BY <1>1, <2>1, <3>3
      <4>2. h[i] = f[m] \o g[j] /\ h[i - 1] = f[m] \o g[j - 1] /\ u[i] = t[j]
        BY <1>1, <4>1
      <4>3. g[j] = g[j - 1] \o t[j]
        BY <2>5, <4>1
      <4>4. f[m] \in Seq(S) /\ g[j - 1] \in Seq(S) /\ t[j] \in Seq(S)
        <5>1. m \in 1..m BY <1>1, <2>1
        <5>2. t \in [1..n -> Seq(S)] BY LenProperties DEF n
        <5> QED BY <2>2, <2>3, <4>1, <5>1, <5>2
      <4> HIDE DEF h, j
      <4>5. f[m] \o (g[j - 1] \o t[j]) = (f[m] \o g[j - 1]) \o t[j]
        BY <1>0, <4>4, Zenon
      <4> QED BY <4>1, <4>2, <4>3, <4>5
    <3> QED BY <1>1, <3>1, <3>2, <3>3
  <2>7. Flattens(h, u)
    <3>1. h = [i \in 1..Len(u) |-> h[i]] BY <1>1
    <3> HIDE DEF h
    <3> QED BY <1>1, <2>6, <3>1 DEF Flattens
  <2>8. h[m + n] = f[m] \o g[n]
    <3>1. m + n \in 1..(m + n) /\ ~(m + n <= m) /\ (m + n) - m = n
      BY <1>1, <2>1
    <3> QED BY <3>1
  <2>9. u # <<>>
    BY <1>1, <2>1
  <2> HIDE DEF h
  <2>10. FlattenSeq(u) = h[m + n]
    BY <1>1, <2>7, <2>9, FlattenIs
  <2>11. FlattenSeq(s) = f[m] /\ FlattenSeq(t) = g[n]
    BY <1>4, <2>2, <2>3, FlattenIs DEF m, n
  <2> QED BY <2>8, <2>10, <2>11 DEF u
<1> QED BY <1>2, <1>3, <1>4

\* One thing put before a sequence.
LEMMA HeadAndTail ==
  ASSUME NEW S, NEW x \in S, NEW s \in Seq(S)
  PROVE  /\ <<x>> \o s \in Seq(S) /\ <<x>> \o s # <<>>
         /\ Head(<<x>> \o s) = x /\ Tail(<<x>> \o s) = s
<1> DEFINE t == <<x>> \o s
<1>1. /\ t \in Seq(S) /\ Len(t) = 1 + Len(s)
      /\ \A n \in 1 .. (1 + Len(s)) : t[n] = IF n <= 1 THEN <<x>>[n] ELSE s[n - 1]
  <2>1. <<x>> \in Seq(S) /\ Len(<<x>>) = 1
    OBVIOUS
  <2> QED BY <2>1, ConcatProperties
<1>2. Len(s) \in Nat
  OBVIOUS
<1> HIDE DEF t
<1>3. t # <<>> /\ t[1] = x
  BY <1>1, <1>2
<1>4. Tail(t) \in Seq(S) /\ Len(Tail(t)) = Len(s) /\ \A n \in 1 .. Len(s) : Tail(t)[n] = s[n]
  BY <1>1, <1>2, <1>3, HeadTailProperties
<1>5. Tail(t) = s
  BY <1>4, SeqEqual
<1>6. Head(t) = x
  BY <1>3
<1> QED
  BY <1>1, <1>3, <1>5, <1>6 DEF t

-----------------------------------------------------------------------------
\* R orders K strictly and totally.
StrictlyOrders(R, K) ==
  /\ \A x \in K : <<x, x>> \notin R
  /\ \A x, y, z \in K : <<x, y>> \in R /\ <<y, z>> \in R => <<x, z>> \in R
  /\ \A x, y \in K : x = y \/ <<x, y>> \in R \/ <<y, x>> \in R

\* o lists K in the order of R.
ListsInOrder(o, R, K) ==
  /\ o \in [1 .. Cardinality(K) -> K]
  /\ \A p, q \in 1 .. Cardinality(K) : p < q => <<o[p], o[q]>> \in R

\* A finite set can be listed in order: what has p others before it comes at p + 1.
LEMMA ListExists ==
  ASSUME NEW K, IsFiniteSet(K), NEW R, StrictlyOrders(R, K)
  PROVE  \E o : ListsInOrder(o, R, K)
<1> DEFINE N == Cardinality(K)
           Below(x) == {y \in K : <<y, x>> \in R}
           rank == [x \in K |-> Cardinality(Below(x))]
<1>1. N \in Nat
  BY FS_CardinalityType
<1>2. ASSUME NEW x \in K
      PROVE  IsFiniteSet(Below(x)) /\ Cardinality(Below(x)) \in 0 .. (N - 1)
  <2>1. Below(x) \in SUBSET K /\ Below(x) # K
    BY DEF StrictlyOrders
  <2> HIDE DEF Below
  <2>2. IsFiniteSet(Below(x)) /\ Cardinality(Below(x)) <= N /\ Cardinality(Below(x)) # N
    BY <2>1, FS_Subset
  <2>3. Cardinality(Below(x)) \in Nat
    BY <2>2, FS_CardinalityType
  <2> HIDE DEF N
  <2> QED BY <1>1, <2>2, <2>3
<1>3. ASSUME NEW x \in K, NEW y \in K, <<x, y>> \in R
      PROVE  Cardinality(Below(x)) < Cardinality(Below(y))
  <2>1. Below(x) \in SUBSET Below(y) /\ Below(x) # Below(y)
    <3>1. x \in Below(y) /\ x \notin Below(x)
      BY <1>3 DEF StrictlyOrders
    <3>2. ASSUME NEW z \in Below(x) PROVE z \in Below(y)
      BY <1>3, <3>2 DEF StrictlyOrders
    <3> HIDE DEF Below
    <3> QED BY <3>1, <3>2
  <2> HIDE DEF Below
  <2>2. Cardinality(Below(x)) <= Cardinality(Below(y)) /\ Cardinality(Below(x)) # Cardinality(Below(y))
    BY <1>2, <2>1, FS_Subset
  <2>3. Cardinality(Below(x)) \in Int /\ Cardinality(Below(y)) \in Int
    BY <1>2
  <2> QED BY <2>2, <2>3
<1> HIDE DEF Below, N
<1>4. rank \in Injection(K, 0 .. (N - 1))
  <2>1. rank \in [K -> 0 .. (N - 1)]
    BY <1>2
  <2>2. ASSUME NEW x \in K, NEW y \in K, rank[x] = rank[y] PROVE x = y
    <3>1. Cardinality(Below(x)) \in Int /\ Cardinality(Below(x)) = Cardinality(Below(y))
      BY <1>2, <2>2
    <3>2. ~(Cardinality(Below(x)) < Cardinality(Below(y)))
          /\ ~(Cardinality(Below(y)) < Cardinality(Below(x)))
      BY <3>1
    <3>3. <<x, y>> \notin R /\ <<y, x>> \notin R
      BY <1>3, <3>2
    <3> QED BY <3>3 DEF StrictlyOrders
  <2> HIDE DEF rank
  <2> QED BY <2>1, <2>2 DEF Injection, IsInjective
<1>5. rank \in Surjection(K, 0 .. (N - 1))
  <2>1. IsFiniteSet(0 .. (N - 1)) /\ Cardinality(0 .. (N - 1)) = N
    BY <1>1, FS_Interval
  <2> HIDE DEF rank
  <2> QED BY <1>4, <2>1, FS_Injection DEF N
<1>6. \A n \in 0 .. (N - 1) : \E x \in K : rank[x] = n
  BY <1>5 DEF Surjection
<1> DEFINE o == [p \in 1 .. N |-> CHOOSE x \in K : rank[x] = p - 1]
<1>7. ASSUME NEW p \in 1 .. N PROVE o[p] \in K /\ rank[o[p]] = p - 1
  <2>1. p - 1 \in 0 .. (N - 1)
    BY <1>1
  <2> HIDE DEF rank
  <2> QED BY <1>6, <2>1
<1>8. o \in [1 .. N -> K]
  BY <1>7
<1>9. ASSUME NEW p \in 1 .. N, NEW q \in 1 .. N, p < q PROVE <<o[p], o[q]>> \in R
  <2>1. /\ o[p] \in K /\ o[q] \in K
        /\ Cardinality(Below(o[p])) = p - 1 /\ Cardinality(Below(o[q])) = q - 1
    BY <1>7
  <2> HIDE DEF o
  <2>2. o[p] # o[q] /\ ~(Cardinality(Below(o[q])) < Cardinality(Below(o[p])))
    BY <1>9, <2>1
  <2> QED BY <1>3, <2>1, <2>2 DEF StrictlyOrders
<1> QED
  BY <1>8, <1>9 DEF ListsInOrder, N

\* There is only one way to do so.
LEMMA ListUnique ==
  ASSUME NEW K, IsFiniteSet(K), NEW R, StrictlyOrders(R, K),
         NEW o, ListsInOrder(o, R, K), NEW h, ListsInOrder(h, R, K)
  PROVE  o = h
<1> DEFINE N == Cardinality(K)
           D == 1 .. N
<1>1. N \in Nat
  BY FS_CardinalityType
<1>2. ASSUME NEW f, ListsInOrder(f, R, K) PROVE \A x \in K : \E p \in D : f[p] = x
  <2>1. f \in [D -> K] /\ \A p, q \in D : p < q => <<f[p], f[q]>> \in R
    BY <1>2 DEF ListsInOrder
  <2>2. \A p, q \in D : f[p] = f[q] => p = q
    <3> SUFFICES ASSUME NEW p \in D, NEW q \in D, f[p] = f[q], p # q PROVE FALSE
      OBVIOUS
    <3>1. p < q \/ q < p
      BY <1>1
    <3>2. f[p] \in K
      BY <2>1
    <3> QED BY <2>1, <3>1, <3>2 DEF StrictlyOrders
  <2> HIDE DEF N, D
  <2>3. f \in Injection(D, K)
    BY <2>1, <2>2 DEF Injection, IsInjective
  <2>4. Cardinality(D) = Cardinality(K)
    BY <1>1, FS_Interval DEF D, N
  <2>5. f \in Surjection(D, K)
    BY <2>3, <2>4, FS_Injection
  <2> QED BY <2>5 DEF Surjection
<1>3. /\ o \in [D -> K] /\ \A p, q \in D : p < q => <<o[p], o[q]>> \in R
      /\ h \in [D -> K] /\ \A p, q \in D : p < q => <<h[p], h[q]>> \in R
  BY DEF ListsInOrder
<1>4. /\ \A x \in K : \E p \in D : o[p] = x
      /\ \A x \in K : \E p \in D : h[p] = x
  BY <1>2
<1>5. D \subseteq Nat /\ \A p, q \in D : p = q \/ p < q \/ q < p
  BY <1>1
<1> HIDE DEF D
<1>6. ASSUME NEW p \in D, o[p] # h[p] PROVE FALSE
  <2> DEFINE T == {q \in D : o[q] # h[q]}
  <2>1. T \subseteq Nat /\ T # {}
    BY <1>5, <1>6
  <2>2. PICK q \in T : \A k \in T : q <= k
    <3> HIDE DEF T
    <3> QED BY <2>1, LeastElement
  <2>3. \A k \in D : k < q => o[k] = h[k]
    <3> SUFFICES ASSUME NEW k \in D, k < q, k \in T PROVE FALSE
      OBVIOUS
    <3>1. k \in Nat /\ q \in Nat /\ q <= k
      BY <1>5, <2>2
    <3> QED BY <3>1
  <2>4. q \in D /\ o[q] \in K /\ h[q] \in K /\ o[q] # h[q]
    BY <1>3
  <2>5. PICK r \in D : h[r] = o[q]
    BY <1>4, <2>4
  <2>6. PICK s \in D : o[s] = h[q]
    BY <1>4, <2>4
  <2>7. q < r
    <3>1. r # q
      BY <2>4, <2>5
    <3>2. ~(r < q)
      <4> SUFFICES ASSUME r < q PROVE FALSE
        OBVIOUS
      <4>1. o[r] = o[q] /\ <<o[r], o[q]>> \in R
        BY <1>3, <2>3, <2>4, <2>5
      <4> QED BY <2>4, <4>1 DEF StrictlyOrders
    <3> QED BY <1>5, <2>4, <3>1, <3>2
  <2>8. q < s
    <3>1. s # q
      BY <2>4, <2>6
    <3>2. ~(s < q)
      <4> SUFFICES ASSUME s < q PROVE FALSE
        OBVIOUS
      <4>1. h[s] = h[q] /\ <<h[s], h[q]>> \in R
        BY <1>3, <2>3, <2>4, <2>6
      <4> QED BY <2>4, <4>1 DEF StrictlyOrders
    <3> QED BY <1>5, <2>4, <3>1, <3>2
  <2>9. <<h[q], o[q]>> \in R /\ <<o[q], h[q]>> \in R
    <3>1. <<h[q], h[r]>> \in R /\ <<o[q], o[s]>> \in R
      BY <1>3, <2>4, <2>7, <2>8
    <3> QED BY <2>5, <2>6, <3>1
  <2> QED BY <2>4, <2>9 DEF StrictlyOrders
<1> QED
  BY <1>3, <1>6

=============================================================================
