-------------------------- MODULE TemplateRunProofs --------------------------
(***************************************************************************)
(* Proofs about TemplateRun, for any trees and any calls of the command.   *)
(* What has been rendered is related to what there is to render by the     *)
(* order in which it is listed: OrderInv says that the result of the run,  *)
(* of the file and of the document each list the Applications of what has  *)
(* been dealt with so far, each once and in tree order, and every property *)
(* of the run as a whole follows from that.                                *)
(***************************************************************************)
EXTENDS TemplateRun, DataLemmas

\* The Applications there are to render, and what there is in them.
Candidates == {e.app : e \in Emissions}
Objects == UNION {Range(app.objects) : app \in Candidates}
Messages == Supplies \union UNION {Range(app.warnings) : app \in Candidates}

Results ==
  [objects : Seq(Objects), warnings : Seq(Messages), sources : Nat, count : Nat,
   apps : Seq(Candidates)]

TypeInv ==
  /\ command \in Commands /\ tree \in Trees
  /\ pc \in {"dispatch", "file", "document", "render", "print", "exited"}
  /\ exit \in {"none", "success", "failure"}
  /\ files \subseteq Named
  /\ apps \in Seq(Candidates)
  /\ document \in Results /\ file \in Results /\ run \in Results
  /\ stdout \in Seq(Objects)

\* What is at hand at each place of the run.
PlaceInv ==
  /\ pc # "exited" => exit = "none"
  /\ pc \in {"dispatch", "print"} \/ exit = "success" => files = {}
  /\ pc \in {"dispatch", "file", "print"} \/ exit = "success" => documents = {}
  /\ pc \in {"dispatch", "file", "document", "print"} \/ exit = "success" => apps = <<>>
  /\ pc \in {"document", "render"} => files # {} /\ documents \subseteq DOMAIN current.docs
  /\ pc = "render" => documents # {} /\ Renderable /\ doc.valid

-----------------------------------------------------------------------------
\* What there is to render does not change while it is rendered.
LEMMA SameInput ==
  ASSUME UNCHANGED Input
  PROVE  /\ command' = command /\ tree' = tree
         /\ Named' = Named /\ Supplied' = Supplied
         /\ Emissions' = Emissions /\ Candidates' = Candidates
         /\ Objects' = Objects /\ Messages' = Messages /\ Results' = Results
         /\ \A f, d : Emitted(f, d)' = Emitted(f, d)
<1>1. command' = command /\ tree' = tree
  BY DEF Input
<1>2. Named' = Named /\ Supplied' = Supplied
  BY <1>1 DEF Named, Supplied
<1>3. \A f, d : Emitted(f, d)' = Emitted(f, d)
  BY <1>2 DEF Emitted, Generated
<1>4. Emissions' = Emissions
  BY <1>2, <1>3 DEF Emissions
<1>5. Candidates' = Candidates
  BY <1>4 DEF Candidates
<1> QED
  BY <1>1, <1>2, <1>3, <1>4, <1>5 DEF Objects, Messages, Results

\* The files of a tree are told apart by their paths, and have documents.
LEMMA FilesFact ==
  ASSUME tree \in Trees
  PROVE  /\ \A f, g \in Named : f.path \in Nat /\ (f.path = g.path => f = g)
         /\ \A f \in Named : f.docs \in Seq(Range(f.docs)) /\ DOMAIN f.docs = 1 .. Len(f.docs)
<1>1. Named \subseteq tree
  BY DEF Named
<1>2. \A f \in Named : f.docs \in Seq(Range(f.docs))
  BY <1>1, TreeAssumption DEF IsSequence
<1> QED
  BY <1>1, <1>2, TreeAssumption

\* A document emits a sequence of Applications.
LEMMA EmittedType ==
  ASSUME tree \in Trees, NEW f \in Named, NEW d \in DOMAIN f.docs
  PROVE  /\ Emitted(f, d) \in Seq(Candidates)
         /\ \A k \in DOMAIN Emitted(f, d) : IsApplication(Emitted(f, d)[k])
<1> DEFINE E == Emitted(f, d)
<1>1. f \in tree
  BY DEF Named
<1>2. \E S : E \in Seq(S) /\ \A app \in S : IsApplication(app)
  <2>1. CASE f.docs[d].kind = "Application"
    <3>1. E = <<f.docs[d].app>>
      BY <2>1 DEF Emitted
    <3>2. IsApplication(f.docs[d].app)
      BY <1>1, <2>1, TreeAssumption
    <3>3. E \in Seq({f.docs[d].app})
      BY <3>1
    <3> QED BY <3>2, <3>3
  <2>2. CASE f.docs[d].kind = "ApplicationSet"
    <3> DEFINE gens == f.docs[d].generators
               lists == [g \in DOMAIN gens |-> gens[g][Supplied].apps]
               S == UNION {Range(gens[g][Supplied].apps) : g \in DOMAIN gens}
    <3>1. gens \in Seq(Range(gens))
      BY <1>1, <2>2, TreeAssumption DEF IsSequence
    <3>2. \A g \in DOMAIN gens : /\ IsSequence(gens[g][Supplied].apps)
                                 /\ \A k \in DOMAIN gens[g][Supplied].apps :
                                      IsApplication(gens[g][Supplied].apps[k])
      <4>1. Supplied \in SUBSET Supplies
        BY DEF Supplied
      <4> QED BY <1>1, <2>2, <4>1, TreeAssumption
    <3>3. \A g \in DOMAIN gens : gens[g][Supplied].apps \in Seq(S)
      <4> SUFFICES ASSUME NEW g \in DOMAIN gens PROVE gens[g][Supplied].apps \in Seq(S)
        OBVIOUS
      <4>1. gens[g][Supplied].apps \in Seq(Range(gens[g][Supplied].apps))
        BY <3>2 DEF IsSequence
      <4>2. Range(gens[g][Supplied].apps) \subseteq S
        OBVIOUS
      <4> HIDE DEF S
      <4> QED BY <4>1, <4>2, SeqMonotonic
    <3>4. lists \in Seq(Seq(S))
      <4>1. Len(gens) \in Nat /\ DOMAIN gens = 1 .. Len(gens)
        <5> HIDE DEF gens
        <5> QED BY <3>1
      <4> HIDE DEF gens, S
      <4> QED BY <3>3, <4>1
    <3>5. \A app \in S : IsApplication(app)
      BY <3>2 DEF Range
    <3>6. E = FlattenSeq(lists)
      BY <2>2 DEF Emitted, Generated
    <3> HIDE DEF lists, S, E
    <3>7. E \in Seq(S)
      BY <3>4, <3>6, FlattenType
    <3> QED BY <3>5, <3>7
  <2>3. CASE f.docs[d].kind \notin {"Application", "ApplicationSet"}
    <3>1. E = <<>>
      BY <2>3 DEF Emitted
    <3>2. E \in Seq({})
      BY <3>1
    <3> QED BY <3>2
  <2> QED BY <2>1, <2>2, <2>3
<1>3. PICK S : E \in Seq(S) /\ \A app \in S : IsApplication(app)
  BY <1>2
<1>4. \A k \in DOMAIN E : E[k] \in S /\ E[k] \in Candidates
  <2> SUFFICES ASSUME NEW k \in DOMAIN E PROVE E[k] \in S /\ E[k] \in Candidates
    OBVIOUS
  <2>1. E[k] \in S
    <3> HIDE DEF E
    <3> QED BY <1>3
  <2>2. [file |-> f, doc |-> d, n |-> k, app |-> E[k]] \in Emissions
    <3> DEFINE P == UNION {{dd} \X DOMAIN Emitted(f, dd) : dd \in DOMAIN f.docs}
               X == {[file |-> f, doc |-> e[1], n |-> e[2], app |-> Emitted(f, e[1])[e[2]]] :
                       e \in P}
    <3>1. <<d, k>> \in P
      OBVIOUS
    <3>2. [file |-> f, doc |-> d, n |-> k, app |-> Emitted(f, d)[k]] \in X
      <4> HIDE DEF P
      <4> QED BY <3>1
    <3>3. X \subseteq Emissions
      BY DEF Emissions
    <3> HIDE DEF X
    <3> QED BY <3>2, <3>3
  <2> QED BY <2>1, <2>2 DEF Candidates
<1>5. E \in Seq(Candidates)
  <2>1. Len(E) \in Nat /\ DOMAIN E = 1 .. Len(E) /\ E = [k \in 1 .. Len(E) |-> E[k]]
    <3> HIDE DEF E
    <3> QED BY <1>3
  <2> HIDE DEF E
  <2> QED BY <1>4, <2>1
<1> QED
  BY <1>3, <1>4, <1>5

\* The emissions are those of the documents of the files.
EmissionsIn(f, d) ==
  {[file |-> f, doc |-> d, n |-> n, app |-> Emitted(f, d)[n]] : n \in DOMAIN Emitted(f, d)}

LEMMA EmissionsByDocument ==
  Emissions = UNION {UNION {EmissionsIn(f, d) : d \in DOMAIN f.docs} : f \in Named}
<1> DEFINE P(f) == UNION {{d} \X DOMAIN Emitted(f, d) : d \in DOMAIN f.docs}
           X(f) == {[file |-> f, doc |-> e[1], n |-> e[2], app |-> Emitted(f, e[1])[e[2]]] :
                      e \in P(f)}
           Y(f) == UNION {EmissionsIn(f, d) : d \in DOMAIN f.docs}
<1>1. ASSUME NEW f PROVE X(f) = Y(f)
  <2>1. ASSUME NEW x \in X(f) PROVE x \in Y(f)
    <3>1. PICK e \in P(f) :
            x = [file |-> f, doc |-> e[1], n |-> e[2], app |-> Emitted(f, e[1])[e[2]]]
      BY <2>1
    <3>2. PICK d \in DOMAIN f.docs : e \in {d} \X DOMAIN Emitted(f, d)
      OBVIOUS
    <3>3. e[1] = d /\ e[2] \in DOMAIN Emitted(f, d)
      BY <3>2
    <3>4. x \in EmissionsIn(f, d)
      BY <3>1, <3>3 DEF EmissionsIn
    <3> QED BY <3>4
  <2>2. ASSUME NEW x \in Y(f) PROVE x \in X(f)
    <3>1. PICK d \in DOMAIN f.docs : x \in EmissionsIn(f, d)
      BY <2>2
    <3>2. PICK n \in DOMAIN Emitted(f, d) :
            x = [file |-> f, doc |-> d, n |-> n, app |-> Emitted(f, d)[n]]
      BY <3>1 DEF EmissionsIn
    <3>3. <<d, n>> \in P(f)
      OBVIOUS
    <3> HIDE DEF P
    <3> QED BY <3>2, <3>3
  <2> HIDE DEF X, Y
  <2> QED BY <2>1, <2>2
<1>2. Emissions = UNION {X(f) : f \in Named}
  BY DEF Emissions
<1> HIDE DEF X, Y
<1>3. Emissions = UNION {Y(f) : f \in Named}
  BY <1>1, <1>2
<1> QED
  BY <1>3 DEF Y

\* An Application there is to render is emitted by a document of a file.
LEMMA EmissionFact ==
  ASSUME NEW e \in Emissions
  PROVE  /\ e.file \in Named /\ e.doc \in DOMAIN e.file.docs
         /\ e \in EmissionsIn(e.file, e.doc)
         /\ e.n \in DOMAIN Emitted(e.file, e.doc) /\ e.app = Emitted(e.file, e.doc)[e.n]
         /\ e = [file |-> e.file, doc |-> e.doc, n |-> e.n, app |-> e.app]
<1>1. PICK f \in Named : e \in UNION {EmissionsIn(f, d) : d \in DOMAIN f.docs}
  BY EmissionsByDocument
<1>2. PICK d \in DOMAIN f.docs : e \in EmissionsIn(f, d)
  BY <1>1
<1> QED
  BY <1>1, <1>2 DEF EmissionsIn

\* Every Application there is to render has objects and warnings.
LEMMA CandidateType ==
  ASSUME tree \in Trees, NEW app \in Candidates
  PROVE  /\ app.objects \in Seq(Objects) /\ app.warnings \in Seq(Messages)
         /\ app.sources \in Nat /\ app.place \in Nat
<1>1. PICK e \in Emissions : app = e.app
  BY DEF Candidates
<1>2. IsApplication(app)
  BY <1>1, EmissionFact, EmittedType
<1>3. Range(app.objects) \subseteq Objects /\ Range(app.warnings) \subseteq Messages
  BY DEF Objects, Messages
<1>4. app.objects \in Seq(Range(app.objects)) /\ app.warnings \in Seq(Range(app.warnings))
  BY <1>2 DEF IsApplication, IsSequence
<1>5. app.objects \in Seq(Objects)
  BY <1>3, <1>4, SeqMonotonic
<1>6. app.warnings \in Seq(Messages)
  BY <1>3, <1>4, SeqMonotonic
<1> QED
  BY <1>2, <1>5, <1>6 DEF IsApplication

\* The file at hand is the least of those yet to be read.
LEMMA CurrentFact ==
  ASSUME tree \in Trees, files \subseteq Named, files # {}
  PROVE  current \in files /\ \A g \in files : g # current => current.path < g.path
<1> DEFINE T == {f.path : f \in files}
<1>1. \A f, g \in files : f.path \in Nat /\ (f.path = g.path => f = g)
  BY FilesFact
<1>2. T \subseteq Nat /\ T # {}
  BY <1>1
<1>3. \E x \in T : \A y \in T : x <= y
  <2> HIDE DEF T
  <2> QED BY <1>2, LeastElement
<1>4. \E f \in files : \A g \in files : f.path <= g.path
  BY <1>3
<1>5. current \in files /\ \A g \in files : current.path <= g.path
  BY <1>4 DEF current
<1> QED
  BY <1>1, <1>5

\* The document at hand is the least of those yet to be looked at.
LEMMA MinFact ==
  ASSUME NEW S, S \subseteq Nat, S # {}
  PROVE  Min(S) \in S /\ \A d \in S : d # Min(S) => Min(S) < d
<1>0. \E x \in S : \A y \in S : x <= y
  BY LeastElement
<1>1. Min(S) \in S /\ \A d \in S : Min(S) <= d
  BY <1>0 DEF Min
<1> DEFINE m == Min(S)
<1>2. m \in S /\ \A d \in S : m <= d
  BY <1>1
<1> HIDE DEF m
<1>3. \A d \in S : d # m => m < d
  BY <1>2
<1> QED
  BY <1>2, <1>3 DEF m

\* The document at hand.
LEMMA DocFact ==
  ASSUME TypeInv, PlaceInv, pc \in {"document", "render"}, documents # {}
  PROVE  /\ current \in files /\ current \in Named
         /\ Min(documents) \in documents /\ Min(documents) \in DOMAIN current.docs
         /\ \A d \in documents : d # Min(documents) => Min(documents) < d
<1>1. current \in files /\ current \in Named
  BY CurrentFact DEF TypeInv, PlaceInv
<1>2. documents \subseteq DOMAIN current.docs
  BY DEF PlaceInv
<1>3. DOMAIN current.docs \subseteq Nat
  BY <1>1, FilesFact DEF TypeInv
<1> QED
  BY <1>1, <1>2, <1>3, MinFact

-----------------------------------------------------------------------------
\* Merging two results yields a result ...
LEMMA MergeType ==
  ASSUME NEW r \in Results, NEW s \in Results
  PROVE  Merge(r, s) \in Results
<1>1. r.objects \o s.objects \in Seq(Objects)
  BY DEF Results
<1>2. r.warnings \o s.warnings \in Seq(Messages)
  BY DEF Results
<1>3. r.apps \o s.apps \in Seq(Candidates)
  BY DEF Results
<1> QED
  BY <1>1, <1>2, <1>3 DEF Merge, Results

\* ... as does starting one ...
LEMMA EmptyType == EmptyResult \in Results
BY DEF EmptyResult, Results

\* ... or rendering an Application.
LEMMA RenderingType ==
  ASSUME tree \in Trees, NEW app \in Candidates
  PROVE  Rendering(app) \in Results
BY CandidateType DEF Rendering, Results

\* The warnings about an ApplicationSet are messages, one for each limited generator.
LEMMA LimitsFact ==
  ASSUME NEW set
  PROVE  /\ limits(set) \in Seq(Supplies)
         /\ Range(limits(set)) = Limited(set)
<1>1. Limited(set) \subseteq Supplies
  BY DEF Limited
<1> DEFINE one(m) == IF m \in Limited(set) THEN <<m>> ELSE <<>>
<1>2. ASSUME NEW m \in Supplies
      PROVE  one(m) \in Seq(Supplies) /\ Range(one(m)) = Limited(set) \intersect {m}
  BY DEF Range
<1>3. limits(set) = one("clusters") \o one("pulls")
  BY DEF limits
<1>4. "clusters" \in Supplies /\ "pulls" \in Supplies /\ Supplies = {"clusters", "pulls"}
  BY DEF Supplies
<1> HIDE DEF one
<1>5. one("clusters") \in Seq(Supplies) /\ one("pulls") \in Seq(Supplies)
  BY <1>2, <1>4
<1>6. /\ limits(set) \in Seq(Supplies)
      /\ Range(limits(set)) = Range(one("clusters")) \union Range(one("pulls"))
  BY <1>3, <1>5, ConcatProperties, RangeConcatenation
<1>7. /\ Range(one("clusters")) = Limited(set) \intersect {"clusters"}
      /\ Range(one("pulls")) = Limited(set) \intersect {"pulls"}
  BY <1>2, <1>4
<1> QED
  BY <1>1, <1>4, <1>6, <1>7

\* Sorting what was generated keeps it, in the order of place.
LEMMA SortedFact ==
  ASSUME NEW S, NEW list \in Seq(S), NEW sorted \in SortedApplications(list)
  PROVE  /\ sorted \in Seq(S) /\ Len(sorted) = Len(list)
         /\ \E o \in [DOMAIN list -> DOMAIN list] :
              /\ \A p, q \in DOMAIN o : p < q =>
                   o[p] # o[q] /\ list[o[p]].place <= list[o[q]].place
              /\ \A k \in DOMAIN list : sorted[k] = list[o[k]]
<1>1. PICK o \in [DOMAIN list -> DOMAIN list] :
        /\ \A p, q \in DOMAIN o : p < q =>
             o[p] # o[q] /\ list[o[p]].place <= list[o[q]].place
        /\ sorted = [k \in DOMAIN list |-> list[o[k]]]
  BY DEF SortedApplications
<1>2. DOMAIN list = 1 .. Len(list) /\ Len(list) \in Nat
  OBVIOUS
<1>3. \A k \in 1 .. Len(list) : list[o[k]] \in S
  BY <1>2
<1>4. sorted \in [1 .. Len(list) -> S]
  BY <1>1, <1>2, <1>3
<1>5. sorted \in Seq(S) /\ Len(sorted) = Len(list)
  BY <1>2, <1>4
<1>6. \A k \in DOMAIN list : sorted[k] = list[o[k]]
  BY <1>1
<1> QED
  BY <1>1, <1>5, <1>6, Zenon

\* What the document at hand emits.
LEMMA DocEmits ==
  ASSUME TypeInv, PlaceInv, pc \in {"document", "render"}, documents # {}
  PROVE  /\ Emitted(current, Min(documents)) \in Seq(Candidates)
         /\ doc.kind = "Application" => Emitted(current, Min(documents)) = <<doc.app>>
         /\ doc.kind = "ApplicationSet" => Emitted(current, Min(documents)) = Generated(doc)
         /\ ~Renderable => Emitted(current, Min(documents)) = <<>>
<1>1. Emitted(current, Min(documents)) \in Seq(Candidates)
  BY DocFact, EmittedType DEF TypeInv
<1>2. doc = current.docs[Min(documents)]
  BY DEF doc
<1>3. doc.kind = "Application" => Emitted(current, Min(documents)) = <<doc.app>>
  <2> DEFINE d == Min(documents)
  <2>1. doc = current.docs[d]
    BY <1>2
  <2> HIDE DEF d
  <2>2. doc.kind = "Application" => Emitted(current, d) = <<doc.app>>
    BY <2>1 DEF Emitted
  <2> QED BY <2>2 DEF d
<1>4. doc.kind = "ApplicationSet" => Emitted(current, Min(documents)) = Generated(doc)
  BY <1>2 DEF Emitted
<1>5. ~Renderable => Emitted(current, Min(documents)) = <<>>
  BY <1>2 DEF Emitted, Renderable
<1> QED
  BY <1>1, <1>3, <1>4, <1>5

\* Every step keeps the types and the places.
LEMMA StepType ==
  ASSUME TypeInv, PlaceInv, [Next]_vars
  PROVE  TypeInv' /\ PlaceInv'
<1>1. UNCHANGED Input
  BY DEF Next, vars, Dispatch, DispatchFails, OpenFile, OpenFails, SkipDocument, RejectDocument,
         StartApplication, ExpandSet, ExpandFails, RenderNext, RenderFails, MergeDocument,
         MergeFile, StartPrinting, PrintObject, PrintFails, Printed, ExitWithError, Input
<1>2. /\ command' = command /\ tree' = tree
      /\ Named' = Named /\ Candidates' = Candidates /\ Objects' = Objects /\ Results' = Results
  BY <1>1, SameInput
<1>3. CASE ExitWithError
  BY <1>2, <1>3 DEF ExitWithError, Input, Work, TypeInv, PlaceInv
<1>4. CASE Dispatch
  BY <1>2, <1>4 DEF Dispatch, Input, TypeInv, PlaceInv
<1>5. CASE OpenFile
  <2>1. current \in files /\ current' = current
    BY <1>5, CurrentFact DEF OpenFile, current, TypeInv
  <2> QED BY <1>2, <1>5, <2>1, EmptyType DEF OpenFile, Input, TypeInv, PlaceInv
<1>6. CASE SkipDocument
  <2>1. current' = current
    BY <1>6 DEF SkipDocument, current
  <2> QED BY <1>2, <1>6, <2>1 DEF SkipDocument, AtDocument, Input, TypeInv, PlaceInv
<1>7. CASE StartApplication
  <2>1. current' = current /\ doc' = doc /\ Renderable' = Renderable
    BY <1>7 DEF StartApplication, current, doc, Renderable
  <2>2. <<doc.app>> \in Seq(Candidates)
    BY <1>7, DocEmits DEF StartApplication, AtDocument
  <2>3. doc'.valid /\ Renderable'
    BY <1>7, <2>1 DEF StartApplication, Renderable
  <2> QED BY <1>2, <1>7, <2>1, <2>2, <2>3, EmptyType
          DEF StartApplication, AtDocument, Input, TypeInv, PlaceInv
<1>8. CASE ExpandSet
  <2>1. current' = current /\ doc' = doc /\ Renderable' = Renderable
    BY <1>8 DEF ExpandSet, current, doc, Renderable
  <2>2. Generated(doc) \in Seq(Candidates)
    BY <1>8, DocEmits DEF ExpandSet, AtDocument
  <2>3. apps' \in Seq(Candidates)
    BY <1>8, <2>2, SortedFact DEF ExpandSet
  <2>4. document' \in Results
    <3>1. limits(doc) \in Seq(Messages)
      BY LimitsFact, SeqMonotonic DEF Messages
    <3> DEFINE w == limits(doc)
    <3>2. document' = [objects |-> <<>>, warnings |-> w, sources |-> 0, count |-> 0,
                       apps |-> <<>>]
      BY <1>8 DEF ExpandSet, EmptyResult
    <3> HIDE DEF w
    <3>3. [objects |-> <<>>, warnings |-> w, sources |-> 0, count |-> 0, apps |-> <<>>] \in Results
      <4>1. w \in Seq(Messages)
        BY <3>1 DEF w
      <4> QED BY <4>1 DEF Results
    <3> QED BY <3>2, <3>3
  <2>5. doc'.valid /\ Renderable'
    BY <1>8, <2>1 DEF ExpandSet, Renderable
  <2> QED BY <1>2, <1>8, <2>1, <2>3, <2>4, <2>5
          DEF ExpandSet, AtDocument, Input, TypeInv, PlaceInv
<1>9. CASE RenderNext
  <2>1. current' = current /\ doc' = doc /\ Renderable' = Renderable
    BY <1>9 DEF RenderNext, current, doc, Renderable
  <2>2. Head(apps) \in Candidates /\ Tail(apps) \in Seq(Candidates)
    BY <1>9 DEF RenderNext, TypeInv
  <2>3. document' \in Results
    BY <1>9, <2>2, MergeType, RenderingType DEF RenderNext, TypeInv
  <2> QED BY <1>2, <1>9, <2>1, <2>2, <2>3 DEF RenderNext, Input, TypeInv, PlaceInv
<1>10. CASE MergeDocument
  <2>1. current' = current
    BY <1>10 DEF MergeDocument, current
  <2>2. file' \in Results
    BY <1>10, MergeType DEF MergeDocument, TypeInv
  <2> QED BY <1>2, <1>10, <2>1, <2>2 DEF MergeDocument, Input, TypeInv, PlaceInv
<1>11. CASE MergeFile
  <2>1. run' \in Results
    BY <1>11, MergeType DEF MergeFile, TypeInv
  <2> QED BY <1>2, <1>11, <2>1 DEF MergeFile, Input, TypeInv, PlaceInv
<1>12. CASE StartPrinting
  BY <1>2, <1>12 DEF StartPrinting, Input, Work, TypeInv, PlaceInv
<1>13. CASE PrintObject
  <2>1. stdout' \in Seq(Objects)
    <3>1. Len(stdout) + 1 \in 1 .. Len(run.objects)
      BY <1>13 DEF PrintObject, TypeInv, Results
    <3>2. run.objects[Len(stdout) + 1] \in Objects
      BY <3>1 DEF TypeInv, Results
    <3> QED BY <1>13, <3>2 DEF PrintObject, TypeInv
  <2> QED BY <1>2, <1>13, <2>1 DEF PrintObject, Input, Work, TypeInv, PlaceInv
<1>14. CASE Printed
  BY <1>2, <1>14 DEF Printed, Input, Work, TypeInv, PlaceInv
<1>15. CASE UNCHANGED vars
  <2>1. current' = current /\ doc' = doc /\ Renderable' = Renderable
    BY <1>15 DEF vars, current, doc, Renderable
  <2> QED BY <1>2, <1>15, <2>1 DEF vars, TypeInv, PlaceInv
<1> QED
  BY <1>3, <1>4, <1>5, <1>6, <1>7, <1>8, <1>9, <1>10, <1>11, <1>12, <1>13, <1>14, <1>15
  DEF Next, DispatchFails, OpenFails, RejectDocument, ExpandFails, RenderFails, PrintFails

\* They hold in the beginning.
LEMMA InitType ==
  ASSUME Init
  PROVE  TypeInv /\ PlaceInv
BY EmptyType DEF Init, TypeInv, PlaceInv

\* Every variable has its type, and at each place of the run is at hand what the code has
\* at hand there: this is what the loops of Template and templateDocuments maintain.
THEOREM TypeCorrect == Spec => [](TypeInv /\ PlaceInv)
<1>1. Init => TypeInv /\ PlaceInv
  BY InitType
<1>2. (TypeInv /\ PlaceInv) /\ [Next]_vars => (TypeInv /\ PlaceInv)'
  BY StepType
<1> QED
  BY <1>1, <1>2, PTL DEF Spec

-----------------------------------------------------------------------------
\* What has been printed so far is the beginning of what there is to print.
OutputInv ==
  /\ pc \notin {"print", "exited"} => stdout = <<>>
  /\ pc = "print" =>
       /\ Len(stdout) <= Len(run.objects)
       /\ \A n \in 1 .. Len(stdout) : stdout[n] = run.objects[n]
  /\ OutputWhole

\* Every step keeps what has been printed a beginning of the objects of the run.
LEMMA StepOutput ==
  ASSUME TypeInv, PlaceInv, OutputInv, [Next]_vars
  PROVE  OutputInv'
<1>1. stdout \in Seq(Objects) /\ run.objects \in Seq(Objects)
  BY DEF TypeInv, Results
<1>2. CASE ExitWithError
  BY <1>2 DEF ExitWithError, Input, Work, OutputInv, OutputWhole
<1>3. CASE PrintObject
  <2>1. /\ stdout' \in Seq(Objects) /\ Len(stdout') = Len(stdout) + 1
        /\ \A n \in 1 .. Len(stdout) : stdout'[n] = stdout[n]
        /\ stdout'[Len(stdout) + 1] = run.objects[Len(stdout) + 1]
    <3>1. Len(stdout) + 1 \in 1 .. Len(run.objects)
      BY <1>1, <1>3 DEF PrintObject
    <3>2. run.objects[Len(stdout) + 1] \in Objects
      BY <1>1, <3>1
    <3> QED BY <1>1, <1>3, <3>2, AppendProperties DEF PrintObject
  <2>2. run' = run /\ pc' = "print" /\ pc = "print" /\ exit' = exit
    BY <1>3 DEF PrintObject, Work
  <2>3. Len(stdout') <= Len(run'.objects)
    BY <1>1, <1>3, <2>1, <2>2 DEF PrintObject
  <2>4. \A n \in 1 .. Len(stdout') : stdout'[n] = run'.objects[n]
    <3> SUFFICES ASSUME NEW n \in 1 .. Len(stdout') PROVE stdout'[n] = run'.objects[n]
      OBVIOUS
    <3>1. n \in 1 .. Len(stdout) \/ n = Len(stdout) + 1
      BY <1>1, <2>1
    <3> QED BY <2>1, <2>2, <3>1 DEF OutputInv
  <2>5. files' = {} /\ documents' = {} /\ apps' = <<>> /\ exit' # "success"
    BY <1>3, <2>2 DEF PrintObject, Work, PlaceInv
  <2> QED BY <2>2, <2>3, <2>4, <2>5 DEF OutputInv, OutputWhole
<1>4. CASE Printed
  <2>1. stdout = run.objects
    <3>1. Len(stdout) = Len(run.objects)
          /\ \A n \in 1 .. Len(stdout) : stdout[n] = run.objects[n]
      BY <1>4 DEF Printed, OutputInv
    <3> QED BY <1>1, <3>1, SeqEqual
  <2> QED BY <1>4, <2>1 DEF Printed, Work, PlaceInv, OutputInv, OutputWhole
<1>5. CASE StartPrinting
  BY <1>1, <1>5 DEF StartPrinting, Work, OutputInv, OutputWhole, PlaceInv
<1>6. CASE UNCHANGED vars
  BY <1>6 DEF vars, OutputInv, OutputWhole
<1>7. CASE \/ Dispatch \/ OpenFile \/ SkipDocument \/ StartApplication \/ ExpandSet
           \/ RenderNext \/ MergeDocument \/ MergeFile
  <2>1. /\ pc \notin {"print", "exited"} /\ pc' \notin {"print", "exited"}
        /\ stdout' = stdout /\ exit' = exit
    BY <1>7 DEF Dispatch, OpenFile, SkipDocument, AtDocument, StartApplication, ExpandSet,
                RenderNext, MergeDocument, MergeFile
  <2> QED BY <2>1 DEF OutputInv, OutputWhole, PlaceInv
<1> QED
  BY <1>2, <1>3, <1>4, <1>5, <1>6, <1>7
  DEF Next, DispatchFails, OpenFails, RejectDocument, ExpandFails, RenderFails, PrintFails

\* Nothing is printed before everything has been rendered, and a run that succeeds has
\* printed it all: the loop of WriteManifests, its error, and the returns before it.
THEOREM PrintsAllOrNothing == Spec => []OutputWhole
<1>1. Init => OutputInv
  BY DEF Init, OutputInv, OutputWhole
<1>2. (TypeInv /\ PlaceInv) /\ OutputInv /\ [Next]_vars => OutputInv'
  BY StepOutput
<1>3. OutputInv => OutputWhole
  BY DEF OutputInv
<1> QED
  BY <1>1, <1>2, <1>3, TypeCorrect, PTL DEF Spec

-----------------------------------------------------------------------------
\* Adding up the sources of a sequence of Applications.
Adds(f, list) ==
  f = [k \in 0 .. Len(list) |-> IF k = 0 THEN 0 ELSE f[k - 1] + list[k].sources]

\* The sums of the sources of a sequence exist ...
LEMMA AddsExists ==
  ASSUME NEW list \in Seq(Candidates), tree \in Trees
  PROVE  \E f : Adds(f, list) /\ f \in [0 .. Len(list) -> Nat]
<1> DEFINE P(n) == \E f \in [0 .. n -> Nat] :
                     f = [k \in 0 .. n |-> IF k = 0 THEN 0 ELSE f[k - 1] + list[k].sources]
           T == {n \in Nat : n <= Len(list) => P(n)}
<1>0. Len(list) \in Nat /\ \A k \in 1 .. Len(list) : list[k].sources \in Nat
  BY CandidateType
<1>1. 0 \in T
  <2> DEFINE f == [k \in 0 .. 0 |-> 0]
  <2>1. f \in [0 .. 0 -> Nat]
        /\ f = [k \in 0 .. 0 |-> IF k = 0 THEN 0 ELSE f[k - 1] + list[k].sources]
    OBVIOUS
  <2>2. P(0)
    BY <2>1
  <2> HIDE DEF P
  <2> QED BY <2>2
<1>2. ASSUME NEW n \in Nat, n \in T PROVE n + 1 \in T
  <2> SUFFICES ASSUME n + 1 <= Len(list) PROVE P(n + 1)
    <3> HIDE DEF P
    <3> QED OBVIOUS
  <2>0. P(n)
    <3>1. n <= Len(list) BY <1>0
    <3> HIDE DEF P
    <3> QED BY <1>2, <3>1
  <2>1. PICK f \in [0 .. n -> Nat] :
               f = [k \in 0 .. n |-> IF k = 0 THEN 0 ELSE f[k - 1] + list[k].sources]
    BY <2>0
  <2> DEFINE g == [k \in 0 .. (n + 1) |-> IF k = n + 1 THEN f[n] + list[k].sources ELSE f[k]]
  <2>2. list[n + 1].sources \in Nat
    BY <1>0
  <2>3. g \in [0 .. (n + 1) -> Nat]
    BY <2>2
  <2>4. \A k \in 0 .. (n + 1) : g[k] = IF k = 0 THEN 0 ELSE g[k - 1] + list[k].sources
    <3> SUFFICES ASSUME NEW k \in 0 .. (n + 1)
                 PROVE  g[k] = IF k = 0 THEN 0 ELSE g[k - 1] + list[k].sources
      OBVIOUS
    <3>1. CASE k = n + 1
      BY <3>1
    <3>2. CASE k # n + 1
      <4>1. k \in 0 .. n /\ (k # 0 => k - 1 \in 0 .. n)
        BY <3>2
      <4>2. g[k] = f[k] /\ (k # 0 => g[k - 1] = f[k - 1])
        BY <3>2, <4>1
      <4>3. f[k] = IF k = 0 THEN 0 ELSE f[k - 1] + list[k].sources
        BY <2>1, <4>1
      <4> HIDE DEF g
      <4> QED BY <4>2, <4>3
    <3> QED BY <3>1, <3>2
  <2>5. g = [k \in 0 .. (n + 1) |-> IF k = 0 THEN 0 ELSE g[k - 1] + list[k].sources]
    <3>1. g = [k \in 0 .. (n + 1) |-> g[k]] OBVIOUS
    <3> HIDE DEF g
    <3> QED BY <2>4, <3>1
  <2> HIDE DEF g
  <2> QED BY <2>3, <2>5
<1>3. \A n \in Nat : n \in T
  <2> HIDE DEF T
  <2> QED BY <1>1, <1>2, NatSetInduction
<1>4. P(Len(list))
  <2> HIDE DEF P
  <2> QED BY <1>0, <1>3
<1> QED
  BY <1>4 DEF Adds

\* ... and are unique ...
LEMMA AddsUnique ==
  ASSUME NEW list, Len(list) \in Nat, NEW f, NEW g, Adds(f, list), Adds(g, list)
  PROVE  f = g
<1> DEFINE T == {n \in Nat : n \in 0 .. Len(list) => f[n] = g[n]}
<1>1. 0 \in T
  BY DEF Adds
<1>2. ASSUME NEW n \in Nat, n \in T PROVE n + 1 \in T
  <2> SUFFICES ASSUME n + 1 \in 0 .. Len(list) PROVE f[n + 1] = g[n + 1]
    OBVIOUS
  <2>1. /\ f[n + 1] = f[(n + 1) - 1] + list[n + 1].sources
        /\ g[n + 1] = g[(n + 1) - 1] + list[n + 1].sources
    BY DEF Adds
  <2>2. n \in 0 .. Len(list) /\ (n + 1) - 1 = n
    OBVIOUS
  <2> QED BY <1>2, <2>1, <2>2
<1>3. \A n \in Nat : n \in T
  <2> HIDE DEF T
  <2> QED BY <1>1, <1>2, NatSetInduction
<1>4. \A n \in 0 .. Len(list) : f[n] = g[n]
  BY <1>3
<1> QED BY <1>4 DEF Adds

\* ... so that SourcesOf is the last of them.
LEMMA SourcesOfIs ==
  ASSUME NEW list \in Seq(Candidates), NEW f, Adds(f, list)
  PROVE  SourcesOf(list) = f[Len(list)]
<1> DEFINE g == CHOOSE h : Adds(h, list)
<1>1. Adds(g, list)
  OBVIOUS
<1>2. g = f
  <2> HIDE DEF g
  <2> QED BY <1>1, AddsUnique
<1>3. SourcesOf(list) = g[Len(list)]
  BY DEF SourcesOf, Adds
<1> QED BY <1>2, <1>3

\* The sources of a concatenation are those of both sequences.
LEMMA SourcesOfConcat ==
  ASSUME tree \in Trees, NEW s \in Seq(Candidates), NEW t \in Seq(Candidates)
  PROVE  /\ SourcesOf(s \o t) = SourcesOf(s) + SourcesOf(t)
         /\ SourcesOf(s) \in Nat
<1> DEFINE m == Len(s)
           n == Len(t)
           u == s \o t
<1>1. PICK f : Adds(f, s) /\ f \in [0 .. m -> Nat]
  BY AddsExists
<1>2. PICK g : Adds(g, t) /\ g \in [0 .. n -> Nat]
  BY AddsExists
<1>3. /\ m \in Nat /\ n \in Nat /\ u \in Seq(Candidates) /\ Len(u) = m + n
      /\ \A i \in 1 .. (m + n) : u[i] = IF i <= m THEN s[i] ELSE t[i - m]
  BY ConcatProperties, LenProperties
<1>4. SourcesOf(s) = f[m] /\ SourcesOf(t) = g[n]
  BY <1>1, <1>2, SourcesOfIs
<1>5. \A k \in 0 .. m : f[k] = IF k = 0 THEN 0 ELSE f[k - 1] + s[k].sources
  BY <1>1 DEF Adds
<1>6. \A k \in 0 .. n : g[k] = IF k = 0 THEN 0 ELSE g[k - 1] + t[k].sources
  BY <1>2 DEF Adds
<1>7. \A i \in 1 .. n : t[i].sources \in Nat
  BY CandidateType
<1> HIDE DEF m, n, u
<1> DEFINE h == [k \in 0 .. (m + n) |-> IF k <= m THEN f[k] ELSE f[m] + g[k - m]]
<1>8. ASSUME NEW k \in 0 .. (m + n)
      PROVE  h[k] = IF k = 0 THEN 0 ELSE h[k - 1] + u[k].sources
  <2>1. CASE k <= m
    <3>1. k \in 0 .. m /\ (k # 0 => k - 1 \in 0 .. (m + n) /\ k - 1 <= m /\ k \in 1 .. (m + n))
      BY <1>3, <2>1
    <3>2. h[k] = f[k] /\ (k # 0 => h[k - 1] = f[k - 1] /\ u[k] = s[k])
      BY <1>3, <2>1, <3>1
    <3> HIDE DEF h
    <3> QED BY <1>5, <3>1, <3>2
  <2>2. CASE k = m + 1
    <3>1. /\ k # 0 /\ k - 1 = m /\ m \in 0 .. (m + n) /\ ~(k <= m) /\ k - m = 1
          /\ k \in 1 .. (m + n) /\ 1 \in 0 .. n
      BY <1>3, <2>2
    <3>2. h[k] = f[m] + g[1] /\ u[k] = t[1]
      BY <1>3, <3>1
    <3>3. h[k - 1] = f[m]
      BY <1>3, <3>1
    <3>4. g[1] = t[1].sources
      <4>1. g[0] = 0 /\ g[1] = g[0] + t[1].sources
        BY <1>3, <1>6, <3>1
      <4>2. 1 \in 1 .. n
        BY <3>1
      <4> QED BY <1>7, <4>1, <4>2
    <3> HIDE DEF h
    <3> QED BY <3>1, <3>2, <3>3, <3>4
  <2>3. CASE k > m + 1
    <3> DEFINE j == k - m
    <3>1. /\ k # 0 /\ k - 1 \in 0 .. (m + n) /\ ~(k - 1 <= m) /\ ~(k <= m)
          /\ j \in 1 .. n /\ j \in 0 .. n /\ j - 1 \in 0 .. n /\ j # 0 /\ (k - 1) - m = j - 1
          /\ k \in 1 .. (m + n) /\ m \in 0 .. m
      BY <1>3, <2>3
    <3>2. h[k] = f[m] + g[j] /\ h[k - 1] = f[m] + g[j - 1] /\ u[k] = t[j]
      BY <1>3, <3>1
    <3>3. g[j] = g[j - 1] + t[j].sources
      BY <1>6, <3>1
    <3>4. f[m] \in Nat /\ g[j - 1] \in Nat /\ t[j].sources \in Nat
      BY <1>1, <1>2, <1>7, <3>1 DEF m, n
    <3> HIDE DEF h, j
    <3> QED BY <3>1, <3>2, <3>3, <3>4
  <2> QED BY <1>3, <2>1, <2>2, <2>3
<1>9. Adds(h, u)
  <2>1. h = [k \in 0 .. Len(u) |-> h[k]]
    BY <1>3
  <2> HIDE DEF h
  <2> QED BY <1>3, <1>8, <2>1 DEF Adds
<1>10. h[m + n] = f[m] + g[n]
  <2>1. g[0] = 0 /\ f[m] \in Nat
    BY <1>1, <1>2, <1>3, <1>6 DEF m
  <2>2. CASE n = 0
    BY <1>3, <2>1, <2>2
  <2>3. CASE n # 0
    <3>1. m + n \in 0 .. (m + n) /\ ~(m + n <= m) /\ (m + n) - m = n
      BY <1>3, <2>3
    <3> QED BY <3>1
  <2> QED BY <2>2, <2>3
<1> HIDE DEF h
<1>11. SourcesOf(u) = h[m + n]
  BY <1>3, <1>9, SourcesOfIs
<1>12. f[m] \in Nat
  BY <1>1, <1>3 DEF m
<1> QED
  BY <1>4, <1>10, <1>11, <1>12 DEF u

\* No Application, no sources.
LEMMA SourcesOfNone ==
  ASSUME tree \in Trees
  PROVE  SourcesOf(<<>>) = 0
<1>1. ASSUME NEW list \in Seq(Candidates), list = <<>>
      PROVE  SourcesOf(list) = 0
  <2>1. PICK f : Adds(f, list)
    BY AddsExists
  <2>2. f[0] = 0 /\ Len(list) = 0
    BY <1>1, <2>1 DEF Adds
  <2> QED BY <2>1, <2>2, SourcesOfIs
<1>2. <<>> \in Seq(Candidates)
  OBVIOUS
<1> QED
  BY <1>1, <1>2

\* One Application has its own.
LEMMA SourcesOfOne ==
  ASSUME tree \in Trees, NEW app \in Candidates
  PROVE  SourcesOf(<<app>>) = app.sources
<1>1. ASSUME NEW list \in Seq(Candidates), list = <<app>>
      PROVE  SourcesOf(list) = app.sources
  <2>1. PICK f : Adds(f, list)
    BY AddsExists
  <2>2. Len(list) = 1 /\ list[1] = app
    BY <1>1
  <2>3. f[0] = 0 /\ f[1] = f[0] + app.sources
    BY <2>1, <2>2 DEF Adds
  <2>4. app.sources \in Nat
    BY CandidateType
  <2>5. SourcesOf(list) = f[1]
    BY <2>1, <2>2, SourcesOfIs
  <2> QED BY <2>3, <2>4, <2>5
<1>2. <<app>> \in Seq(Candidates)
  OBVIOUS
<1> QED
  BY <1>1, <1>2

-----------------------------------------------------------------------------
ObjectsOf(list) == FlattenSeq([k \in DOMAIN list |-> list[k].objects])

\* The objects of Applications are sequences of objects.
LEMMA ObjectLists ==
  ASSUME tree \in Trees, NEW list \in Seq(Candidates)
  PROVE  /\ [k \in DOMAIN list |-> list[k].objects] \in Seq(Seq(Objects))
         /\ Len([k \in DOMAIN list |-> list[k].objects]) = Len(list)
<1>1. DOMAIN list = 1 .. Len(list) /\ Len(list) \in Nat
  OBVIOUS
<1>2. \A k \in 1 .. Len(list) : list[k].objects \in Seq(Objects)
  BY CandidateType
<1> QED
  BY <1>1, <1>2

\* The objects of a concatenation are those of both sequences.
LEMMA ObjectsOfConcat ==
  ASSUME tree \in Trees, NEW s \in Seq(Candidates), NEW t \in Seq(Candidates)
  PROVE  ObjectsOf(s \o t) = ObjectsOf(s) \o ObjectsOf(t)
<1> DEFINE Lists(list) == [k \in DOMAIN list |-> list[k].objects]
           u == s \o t
<1>1. u \in Seq(Candidates)
  OBVIOUS
<1>2. /\ Lists(s) \in Seq(Seq(Objects)) /\ Len(Lists(s)) = Len(s)
      /\ Lists(t) \in Seq(Seq(Objects)) /\ Len(Lists(t)) = Len(t)
      /\ Lists(u) \in Seq(Seq(Objects)) /\ Len(Lists(u)) = Len(u)
  BY <1>1, ObjectLists
<1>3. /\ Len(s) \in Nat /\ Len(t) \in Nat /\ Len(u) = Len(s) + Len(t)
      /\ \A i \in 1 .. (Len(s) + Len(t)) : u[i] = IF i <= Len(s) THEN s[i] ELSE t[i - Len(s)]
  BY ConcatProperties, LenProperties
<1>4. /\ \A k \in 1 .. Len(s) : Lists(s)[k] = s[k].objects
      /\ \A k \in 1 .. Len(t) : Lists(t)[k] = t[k].objects
      /\ \A k \in 1 .. Len(u) : Lists(u)[k] = u[k].objects
  BY <1>1
<1> DEFINE a == Lists(s)
           b == Lists(t)
           c == Lists(u)
<1>5. c = a \o b
  <2>1. /\ a \in Seq(Seq(Objects)) /\ Len(a) = Len(s)
        /\ b \in Seq(Seq(Objects)) /\ Len(b) = Len(t)
        /\ c \in Seq(Seq(Objects)) /\ Len(c) = Len(s) + Len(t)
    BY <1>2, <1>3
  <2>2. /\ \A k \in 1 .. Len(s) : a[k] = s[k].objects
        /\ \A k \in 1 .. Len(t) : b[k] = t[k].objects
        /\ \A k \in 1 .. Len(u) : c[k] = u[k].objects
    BY <1>4
  <2> HIDE DEF a, b, c, u
  <2>3. /\ a \o b \in Seq(Seq(Objects)) /\ Len(a \o b) = Len(s) + Len(t)
        /\ \A i \in 1 .. (Len(s) + Len(t)) :
             (a \o b)[i] = IF i <= Len(s) THEN a[i] ELSE b[i - Len(s)]
    <3>1. a \in Seq(Seq(Objects)) /\ b \in Seq(Seq(Objects))
      BY <2>1
    <3>2. /\ a \o b \in Seq(Seq(Objects)) /\ Len(a \o b) = Len(a) + Len(b)
          /\ \A i \in 1 .. (Len(a) + Len(b)) :
               (a \o b)[i] = IF i <= Len(a) THEN a[i] ELSE b[i - Len(a)]
      BY <3>1, ConcatProperties, Zenon
    <3> QED BY <2>1, <3>2
  <2>4. \A i \in 1 .. (Len(s) + Len(t)) : (a \o b)[i] = c[i]
    <3> SUFFICES ASSUME NEW i \in 1 .. (Len(s) + Len(t)) PROVE (a \o b)[i] = c[i]
      OBVIOUS
    <3>1. c[i] = u[i].objects
      BY <1>3, <2>2
    <3>2. CASE i <= Len(s)
      <4>1. i \in 1 .. Len(s)
        BY <1>3, <3>2
      <4> QED BY <1>3, <2>2, <2>3, <3>1, <3>2, <4>1
    <3>3. CASE ~(i <= Len(s))
      <4>1. i - Len(s) \in 1 .. Len(t)
        BY <1>3, <3>3
      <4> QED BY <1>3, <2>2, <2>3, <3>1, <3>3, <4>1
    <3> QED BY <3>2, <3>3
  <2> QED BY <2>1, <2>3, <2>4, SeqEqual
<1>6. FlattenSeq(a \o b) = FlattenSeq(a) \o FlattenSeq(b)
  <2>1. a \in Seq(Seq(Objects)) /\ b \in Seq(Seq(Objects))
    BY <1>2
  <2> HIDE DEF a, b
  <2> QED BY <2>1, FlattenConcat
<1> QED
  BY <1>5, <1>6 DEF ObjectsOf

\* No Application, no objects.
LEMMA ObjectsOfNone ==
  ASSUME tree \in Trees
  PROVE  ObjectsOf(<<>>) = <<>>
<1>1. ASSUME NEW list \in Seq(Candidates), list = <<>>
      PROVE  ObjectsOf(list) = <<>>
  <2> DEFINE lists == [k \in DOMAIN list |-> list[k].objects]
  <2>1. lists \in Seq(Seq(Objects)) /\ Len(lists) = 0
    BY <1>1, ObjectLists
  <2>2. ObjectsOf(list) = FlattenSeq(lists)
    BY DEF ObjectsOf
  <2> HIDE DEF lists
  <2>3. lists = <<>>
    BY <2>1, EmptySeq
  <2> QED BY <2>2, <2>3, FlattenEmpty
<1>2. <<>> \in Seq(Candidates)
  OBVIOUS
<1> QED
  BY <1>1, <1>2

\* One Application has its own.
LEMMA ObjectsOfOne ==
  ASSUME tree \in Trees, NEW app \in Candidates
  PROVE  ObjectsOf(<<app>>) = app.objects
<1>1. ASSUME NEW list \in Seq(Candidates), list = <<app>>
      PROVE  ObjectsOf(list) = app.objects
  <2> DEFINE lists == [k \in DOMAIN list |-> list[k].objects]
  <2>1. lists \in Seq(Seq(Objects)) /\ Len(lists) = 1
    BY <1>1, ObjectLists
  <2>2. lists[1] = app.objects
    BY <1>1
  <2>3. ObjectsOf(list) = FlattenSeq(lists)
    BY DEF ObjectsOf
  <2> HIDE DEF lists
  <2>4. lists = <<app.objects>> /\ app.objects \in Seq(Objects)
    BY <2>1, <2>2, CandidateType
  <2> QED BY <2>3, <2>4, FlattenOne
<1>2. <<app>> \in Seq(Candidates)
  OBVIOUS
<1> QED
  BY <1>1, <1>2

Grouped(r) ==
  r.objects = ObjectsOf(r.apps) /\ r.count = Len(r.apps) /\ r.sources = SourcesOf(r.apps)

\* Merging two grouped results yields a grouped one.
LEMMA GroupedMerge ==
  ASSUME tree \in Trees, NEW r \in Results, NEW s \in Results, Grouped(r), Grouped(s)
  PROVE  Grouped(Merge(r, s))
<1>1. r.apps \in Seq(Candidates) /\ s.apps \in Seq(Candidates)
  BY DEF Results
<1>2. /\ ObjectsOf(r.apps \o s.apps) = ObjectsOf(r.apps) \o ObjectsOf(s.apps)
      /\ SourcesOf(r.apps \o s.apps) = SourcesOf(r.apps) + SourcesOf(s.apps)
  BY <1>1, ObjectsOfConcat, SourcesOfConcat
<1>3. Len(r.apps \o s.apps) = Len(r.apps) + Len(s.apps)
  BY <1>1
<1> QED
  BY <1>2, <1>3 DEF Grouped, Merge

\* What one Application renders to is grouped.
LEMMA GroupedRendering ==
  ASSUME tree \in Trees, NEW app \in Candidates
  PROVE  Grouped(Rendering(app))
<1>1. ObjectsOf(<<app>>) = app.objects /\ SourcesOf(<<app>>) = app.sources
  BY ObjectsOfOne, SourcesOfOne
<1> QED
  BY <1>1 DEF Grouped, Rendering

\* Also for the warnings of a set, of which nothing has been rendered yet.
LEMMA GroupedEmpty ==
  ASSUME tree \in Trees,
         NEW r, r.objects = <<>>, r.count = 0, r.sources = 0, r.apps = <<>>
  PROVE  Grouped(r)
BY ObjectsOfNone, SourcesOfNone DEF Grouped

\* Every step keeps the results grouped.
LEMMA StepGrouped ==
  ASSUME TypeInv, PlaceInv, \A r \in {document, file, run} : Grouped(r), [Next]_vars
  PROVE  \A r \in {document', file', run'} : Grouped(r)
<1>1. /\ tree \in Trees /\ Grouped(document) /\ Grouped(file) /\ Grouped(run)
      /\ document \in Results /\ file \in Results /\ run \in Results
  BY DEF TypeInv
<1>2. Grouped(EmptyResult)
  BY <1>1, GroupedEmpty DEF EmptyResult
<1>3. CASE OpenFile
  BY <1>1, <1>2, <1>3 DEF OpenFile
<1>4. CASE StartApplication
  BY <1>1, <1>2, <1>4 DEF StartApplication
<1>5. CASE ExpandSet
  <2>1. /\ document'.objects = <<>> /\ document'.count = 0
        /\ document'.sources = 0 /\ document'.apps = <<>>
    BY <1>5 DEF ExpandSet, EmptyResult
  <2>2. Grouped(document')
    BY <1>1, <2>1, GroupedEmpty
  <2> QED BY <1>1, <1>5, <2>2 DEF ExpandSet
<1>6. CASE RenderNext
  <2>1. Head(apps) \in Candidates
    BY <1>6 DEF RenderNext, TypeInv
  <2>2. Grouped(document')
    BY <1>1, <1>6, <2>1, GroupedMerge, GroupedRendering, RenderingType DEF RenderNext
  <2> QED BY <1>1, <1>6, <2>2 DEF RenderNext
<1>7. CASE MergeDocument
  <2>1. Grouped(file')
    BY <1>1, <1>7, GroupedMerge DEF MergeDocument
  <2> QED BY <1>1, <1>7, <2>1 DEF MergeDocument
<1>8. CASE MergeFile
  <2>1. Grouped(run')
    BY <1>1, <1>8, GroupedMerge DEF MergeFile
  <2> QED BY <1>1, <1>8, <2>1 DEF MergeFile
<1>9. CASE UNCHANGED <<document, file, run>>
  BY <1>1, <1>9
<1>10. CASE \/ ExitWithError \/ Dispatch \/ SkipDocument \/ StartPrinting \/ PrintObject \/ Printed
            \/ UNCHANGED vars
  BY <1>9, <1>10 DEF ExitWithError, Dispatch, SkipDocument, StartPrinting, PrintObject, Printed,
                     Work, vars
<1> QED
  BY <1>3, <1>4, <1>5, <1>6, <1>7, <1>8, <1>10
  DEF Next, DispatchFails, OpenFails, RejectDocument, ExpandFails, RenderFails, PrintFails

\* However the results of Applications, documents and files are merged, what is printed
\* and what --output-dir saves are the same objects, and the counts are theirs.
THEOREM ObjectsByApplication == Spec => []GroupedByApplication
<1> DEFINE G == \A r \in {document, file, run} : Grouped(r)
<1>1. Init => G
  <2> SUFFICES ASSUME Init PROVE G
    OBVIOUS
  <2>1. Grouped(EmptyResult)
    BY GroupedEmpty DEF Init, EmptyResult
  <2> QED BY <2>1 DEF Init
<1>2. (TypeInv /\ PlaceInv) /\ G /\ [Next]_vars => G'
  BY StepGrouped
<1>3. G => GroupedByApplication
  BY DEF GroupedByApplication, Grouped, ObjectsOf
<1> HIDE DEF G
<1> QED
  BY <1>1, <1>2, <1>3, TypeCorrect, PTL DEF Spec

-----------------------------------------------------------------------------
\* A list of Applications is that of a set of emissions, each once, and in tree order.
IsOrderOf(h, list, E) ==
  /\ h \in [DOMAIN list -> E]
  /\ \A e \in E : \E k \in DOMAIN list : h[k] = e
  /\ \A k \in DOMAIN list : h[k].app = list[k]
  /\ \A p, q \in DOMAIN list : p < q => h[p] # h[q] /\ ~Precedes(h[q], h[p])

Enumerates(list, E) == \E h : IsOrderOf(h, list, E)

\* Nothing lists nothing.
LEMMA EnumeratesNone == Enumerates(<<>>, {})
<1>1. IsOrderOf([k \in {} |-> k], <<>>, {})
  BY DEF IsOrderOf
<1> QED
  BY <1>1 DEF Enumerates

\* Lists of two sets, of which one comes before the other, list both together.
LEMMA EnumeratesConcat ==
  ASSUME NEW S, NEW s \in Seq(S), NEW t \in Seq(S), NEW E, NEW F,
         Enumerates(s, E), Enumerates(t, F),
         E \intersect F = {}, \A e \in E, f \in F : ~Precedes(f, e)
  PROVE  Enumerates(s \o t, E \union F)
<1> DEFINE m == Len(s)
           n == Len(t)
           u == s \o t
<1>1. PICK g : IsOrderOf(g, s, E)
  BY DEF Enumerates
<1>2. PICK h : IsOrderOf(h, t, F)
  BY DEF Enumerates
<1>3. /\ m \in Nat /\ n \in Nat /\ DOMAIN s = 1 .. m /\ DOMAIN t = 1 .. n /\ DOMAIN u = 1 .. (m + n)
      /\ \A i \in 1 .. (m + n) : u[i] = IF i <= m THEN s[i] ELSE t[i - m]
  BY ConcatProperties, LenProperties
<1> HIDE DEF m, n, u
<1> DEFINE w == [i \in 1 .. (m + n) |-> IF i <= m THEN g[i] ELSE h[i - m]]
<1>4. \A i \in 1 .. (m + n) : IF i <= m THEN i \in 1 .. m ELSE i - m \in 1 .. n
  BY <1>3
<1>5. /\ \A i \in 1 .. m : g[i] \in E /\ g[i].app = s[i]
      /\ \A i \in 1 .. n : h[i] \in F /\ h[i].app = t[i]
  BY <1>1, <1>2, <1>3 DEF IsOrderOf
<1>6. \A i \in 1 .. (m + n) :
        IF i <= m THEN i \in 1 .. m /\ w[i] = g[i] ELSE i - m \in 1 .. n /\ w[i] = h[i - m]
  BY <1>4
<1>7. w \in [DOMAIN u -> E \union F]
  BY <1>3, <1>4, <1>5
<1> HIDE DEF w
<1>8. \A i \in DOMAIN u : w[i].app = u[i]
  BY <1>3, <1>5, <1>6
<1>9. ASSUME NEW e \in E \union F PROVE \E k \in DOMAIN u : w[k] = e
  <2>1. CASE e \in E
    <3>1. PICK k \in 1 .. m : g[k] = e
      BY <1>1, <1>3, <2>1 DEF IsOrderOf
    <3>2. k \in 1 .. (m + n) /\ k <= m
      BY <1>3
    <3> QED BY <1>3, <1>6, <3>1, <3>2
  <2>2. CASE e \in F
    <3>1. PICK k \in 1 .. n : h[k] = e
      BY <1>2, <1>3, <2>2 DEF IsOrderOf
    <3>2. k + m \in 1 .. (m + n) /\ ~(k + m <= m) /\ (k + m) - m = k
      BY <1>3
    <3> QED BY <1>3, <1>6, <3>1, <3>2
  <2> QED BY <2>1, <2>2
<1>10. ASSUME NEW p \in DOMAIN u, NEW q \in DOMAIN u, p < q
       PROVE  w[p] # w[q] /\ ~Precedes(w[q], w[p])
  <2>0. p \in 1 .. (m + n) /\ q \in 1 .. (m + n)
    BY <1>3
  <2>1. CASE q <= m
    <3>1. p <= m
      BY <1>3, <1>10, <2>0, <2>1
    <3>2. p \in DOMAIN s /\ q \in DOMAIN s /\ w[p] = g[p] /\ w[q] = g[q]
      BY <1>3, <1>6, <2>0, <2>1, <3>1
    <3> QED BY <1>1, <1>10, <3>2 DEF IsOrderOf
  <2>2. CASE p <= m /\ ~(q <= m)
    <3>1. w[p] \in E /\ w[q] \in F
      BY <1>5, <1>6, <2>0, <2>2
    <3> QED BY <3>1
  <2>3. CASE ~(p <= m)
    <3>1. ~(q <= m) /\ p - m < q - m
      BY <1>3, <1>10, <2>0, <2>3
    <3>2. p - m \in DOMAIN t /\ q - m \in DOMAIN t /\ w[p] = h[p - m] /\ w[q] = h[q - m]
      BY <1>3, <1>6, <2>0, <2>3, <3>1
    <3> QED BY <1>2, <3>1, <3>2 DEF IsOrderOf
  <2> QED BY <2>1, <2>2, <2>3
<1>11. IsOrderOf(w, u, E \union F)
  BY <1>7, <1>8, <1>9, <1>10 DEF IsOrderOf
<1> QED
  BY <1>11 DEF Enumerates, u

\* An injection of a segment into itself leaves nothing out.
LEMMA PermutationOnto ==
  ASSUME NEW n \in Nat, NEW o \in [1 .. n -> 1 .. n],
         \A p, q \in 1 .. n : p < q => o[p] # o[q]
  PROVE  \A k \in 1 .. n : \E p \in 1 .. n : o[p] = k
<1> DEFINE D == 1 .. n
<1>1. IsFiniteSet(D)
  BY FS_Interval
<1>2. \A p, q \in D : o[p] = o[q] => p = q
  <2> SUFFICES ASSUME NEW p \in D, NEW q \in D, o[p] = o[q], p # q PROVE FALSE
    OBVIOUS
  <2>1. p < q \/ q < p
    OBVIOUS
  <2> QED BY <2>1
<1> HIDE DEF D
<1>3. o \in Injection(D, D)
  BY <1>2 DEF D, Injection, IsInjective
<1>4. o \in Surjection(D, D)
  BY <1>1, <1>3, FS_Injection
<1> QED
  BY <1>4 DEF Surjection, D

\* What a set generates is listed when it is sorted, as the document emits it.
LEMMA EnumeratesSorted ==
  ASSUME tree \in Trees, NEW f \in Named, NEW d \in DOMAIN f.docs,
         NEW sorted \in SortedApplications(Emitted(f, d))
  PROVE  Enumerates(sorted, EmissionsIn(f, d))
<1> DEFINE list == Emitted(f, d)
           n == Len(list)
<1>1. list \in Seq(Candidates)
  BY EmittedType
<1>2. n \in Nat /\ DOMAIN list = 1 .. n
  BY <1>1, LenProperties
<1>3. PICK o \in [1 .. n -> 1 .. n] :
        /\ \A p, q \in 1 .. n : p < q => o[p] # o[q] /\ list[o[p]].place <= list[o[q]].place
        /\ \A k \in 1 .. n : sorted[k] = list[o[k]]
  <2> HIDE DEF list, n
  <2>1. PICK o \in [DOMAIN list -> DOMAIN list] :
          /\ \A p, q \in DOMAIN o : p < q =>
               o[p] # o[q] /\ list[o[p]].place <= list[o[q]].place
          /\ \A k \in DOMAIN list : sorted[k] = list[o[k]]
    BY <1>1, SortedFact DEF list
  <2> QED BY <1>2, <2>1
<1>4. DOMAIN sorted = 1 .. n
  BY <1>1, <1>2, SortedFact, LenProperties
<1>5. \A k \in 1 .. n : list[k].place \in Nat
  BY <1>1, <1>2, CandidateType, ElementOfSeq
<1>6. f.path \in Nat
  BY FilesFact
<1> DEFINE Em(k) == [file |-> f, doc |-> d, n |-> k, app |-> list[k]]
<1>7. EmissionsIn(f, d) = {Em(k) : k \in 1 .. n}
  BY <1>2 DEF EmissionsIn
<1> HIDE DEF list, n
<1> DEFINE h == [k \in 1 .. n |-> Em(o[k])]
<1>8. h \in [DOMAIN sorted -> EmissionsIn(f, d)]
  BY <1>3, <1>4, <1>7
<1>9. ASSUME NEW e \in EmissionsIn(f, d) PROVE \E k \in DOMAIN sorted : h[k] = e
  <2>1. PICK k \in 1 .. n : e = Em(k)
    BY <1>7
  <2>2. \A p, q \in 1 .. n : p < q => o[p] # o[q]
    BY <1>3
  <2>3. \A j \in 1 .. n : \E p \in 1 .. n : o[p] = j
    BY <1>2, <2>2, PermutationOnto
  <2>4. PICK p \in 1 .. n : o[p] = k
    BY <2>3
  <2> QED BY <1>4, <2>1, <2>4
<1>10. \A k \in DOMAIN sorted : h[k].app = sorted[k]
  BY <1>3, <1>4
<1>11. ASSUME NEW p \in DOMAIN sorted, NEW q \in DOMAIN sorted, p < q
       PROVE  h[p] # h[q] /\ ~Precedes(h[q], h[p])
  <2>1. p \in 1 .. n /\ q \in 1 .. n /\ o[p] \in 1 .. n /\ o[q] \in 1 .. n
    BY <1>3, <1>4
  <2>2. o[p] # o[q] /\ list[o[p]].place <= list[o[q]].place
    BY <1>3, <1>11, <2>1
  <2>3. list[o[p]].place \in Nat /\ list[o[q]].place \in Nat
    BY <1>5, <2>1
  <2>4. h[p] = Em(o[p]) /\ h[q] = Em(o[q])
    BY <2>1
  <2>5. /\ h[p].file = f /\ h[p].doc = d /\ h[p].n = o[p] /\ h[p].app = list[o[p]]
        /\ h[q].file = f /\ h[q].doc = d /\ h[q].n = o[q] /\ h[q].app = list[o[q]]
    BY <2>4
  <2>6. d \in Nat
    BY FilesFact
  <2> HIDE DEF h
  <2> QED BY <1>6, <2>2, <2>3, <2>5, <2>6 DEF Precedes
<1>12. IsOrderOf(h, sorted, EmissionsIn(f, d))
  <2> HIDE DEF h
  <2> QED BY <1>8, <1>9, <1>10, <1>11 DEF IsOrderOf
<1> QED
  BY <1>12 DEF Enumerates

\* An Application by itself is what its document emits.
LEMMA EnumeratesOne ==
  ASSUME NEW f, NEW d, NEW app, Emitted(f, d) = <<app>>
  PROVE  Enumerates(<<app>>, EmissionsIn(f, d))
<1> DEFINE e == [file |-> f, doc |-> d, n |-> 1, app |-> app]
           h == [k \in {1} |-> e]
<1>1. EmissionsIn(f, d) = {e}
  BY DEF EmissionsIn
<1>2. IsOrderOf(h, <<app>>, {e})
  BY DEF IsOrderOf
<1> QED
  BY <1>1, <1>2 DEF Enumerates

-----------------------------------------------------------------------------
EmissionsAt(f, D) == UNION {EmissionsIn(f, d) : d \in D}
EmissionsFrom(F) == UNION {EmissionsAt(f, DOMAIN f.docs) : f \in F}

\* The documents of the file at hand that have been dealt with.
Done == DOMAIN current.docs \ documents

\* Each result holds what has been emitted by what has been dealt with.
OrderInv ==
  /\ pc = "dispatch" => run.apps = <<>>
  /\ pc \in {"file", "document", "render"} =>
       /\ Enumerates(run.apps, EmissionsFrom(Named \ files))
       /\ \A f \in Named \ files, g \in files : f.path < g.path
  /\ pc \in {"document", "render"} =>
       /\ Enumerates(file.apps, EmissionsAt(current, Done))
       /\ \A d \in Done : EmissionsIn(current, d) = {} \/ \A e \in documents : d < e
  /\ pc = "render" => Enumerates(document.apps \o apps, EmissionsIn(current, Min(documents)))
  /\ Rendered => Enumerates(run.apps, Emissions)


\* Emissions of different files and documents come one after the other.
LEMMA EmissionsApart ==
  ASSUME NEW f, NEW d, NEW g, NEW c, NEW e \in EmissionsIn(f, d), NEW x \in EmissionsIn(g, c)
  PROVE  /\ e.file = f /\ e.doc = d /\ x.file = g /\ x.doc = c
         /\ f.path \in Nat /\ g.path \in Nat /\ f.path < g.path => e # x /\ ~Precedes(x, e)
         /\ f.path \in Nat /\ d \in Nat /\ c \in Nat /\ f = g /\ d < c => e # x /\ ~Precedes(x, e)
<1>1. e.file = f /\ e.doc = d /\ x.file = g /\ x.doc = c
  BY DEF EmissionsIn
<1>2. ASSUME f.path \in Nat, g.path \in Nat, f.path < g.path
      PROVE  e # x /\ ~Precedes(x, e)
  BY <1>1, <1>2 DEF Precedes
<1>3. ASSUME f.path \in Nat, d \in Nat, c \in Nat, f = g, d < c
      PROVE  e # x /\ ~Precedes(x, e)
  BY <1>1, <1>3 DEF Precedes
<1> QED
  BY <1>1, <1>2, <1>3

\* The emissions of a document do not change while it is rendered.
LEMMA SameEmissions ==
  ASSUME UNCHANGED Input
  PROVE  /\ \A f, d : EmissionsIn(f, d)' = EmissionsIn(f, d)
         /\ \A f, D : EmissionsAt(f, D)' = EmissionsAt(f, D)
         /\ \A F : EmissionsFrom(F)' = EmissionsFrom(F)
<1>1. \A f, d : EmissionsIn(f, d)' = EmissionsIn(f, d)
  BY SameInput DEF EmissionsIn
<1>2. \A f, D : EmissionsAt(f, D)' = EmissionsAt(f, D)
  BY <1>1 DEF EmissionsAt
<1> QED
  BY <1>1, <1>2 DEF EmissionsFrom

\* No step changes the input.
LEMMA NextInput ==
  ASSUME [Next]_vars
  PROVE  UNCHANGED Input
BY DEF Next, vars, Dispatch, DispatchFails, OpenFile, OpenFails, SkipDocument, RejectDocument,
       StartApplication, ExpandSet, ExpandFails, RenderNext, RenderFails, MergeDocument,
       MergeFile, StartPrinting, PrintObject, PrintFails, Printed, ExitWithError, Input

\* The document at hand has been dealt with.
LEMMA DocDone ==
  ASSUME TypeInv, PlaceInv, OrderInv, pc \in {"document", "render"}, documents # {},
         documents' = documents \ {Min(documents)}, current' = current
  PROVE  /\ Done' = Done \union {Min(documents)}
         /\ \A D : EmissionsAt(current, D \union {Min(documents)})
                     = EmissionsAt(current, D) \union EmissionsIn(current, Min(documents))
         /\ \A d \in Done' : EmissionsIn(current, d) = {} \/ \A e \in documents' : d < e
<1>1. Min(documents) \in documents /\ Min(documents) \in DOMAIN current.docs
  BY DocFact
<1>2. Done' = Done \union {Min(documents)}
  BY <1>1 DEF Done
<1>3. ASSUME NEW D
      PROVE  EmissionsAt(current, D \union {Min(documents)})
               = EmissionsAt(current, D) \union EmissionsIn(current, Min(documents))
  BY DEF EmissionsAt
<1>4. ASSUME NEW d \in Done'
      PROVE  EmissionsIn(current, d) = {} \/ \A e \in documents' : d < e
  <2>1. CASE d = Min(documents)
    BY <2>1, DocFact
  <2>2. CASE d \in Done
    BY <2>2 DEF OrderInv
  <2> QED BY <1>2, <2>1, <2>2
<1> QED
  BY <1>2, <1>3, <1>4

\* Every step keeps the results in the order of what has been dealt with.
LEMMA StepOrder ==
  ASSUME TypeInv, PlaceInv, OrderInv, [Next]_vars
  PROVE  OrderInv'
<1>1. /\ tree \in Trees /\ Named' = Named /\ Emissions' = Emissions
      /\ \A f, d : EmissionsIn(f, d)' = EmissionsIn(f, d)
      /\ \A f, D : EmissionsAt(f, D)' = EmissionsAt(f, D)
      /\ \A F : EmissionsFrom(F)' = EmissionsFrom(F)
  BY NextInput, SameInput, SameEmissions DEF TypeInv
<1>2. CASE ExitWithError
  BY <1>2 DEF ExitWithError, OrderInv, Rendered
<1>3. CASE Dispatch
  <2>1. files' = Named /\ run'.apps = <<>> /\ pc' = "file"
    BY <1>3 DEF Dispatch, OrderInv
  <2>2. (Named \ files)' = {}
    BY <1>1, <2>1
  <2>3. EmissionsFrom(Named \ files)' = {}
    BY <2>2 DEF EmissionsFrom
  <2>4. exit' # "success"
    BY <1>3 DEF Dispatch, PlaceInv
  <2> QED BY <2>1, <2>2, <2>3, <2>4, EnumeratesNone DEF OrderInv, Rendered
<1>4. CASE OpenFile
  <2>1. current' = current /\ files' = files /\ run' = run /\ pc = "file" /\ pc' = "document"
    BY <1>4 DEF OpenFile, current
  <2>2. current \in Named
    BY <1>1, <1>4, CurrentFact DEF OpenFile, TypeInv
  <2>3. \A d \in Done' : EmissionsIn(current, d) = {}
    BY <1>4, <2>1 DEF Done, OpenFile, EmissionsIn, Emitted
  <2>4. EmissionsAt(current, Done') = {}
    BY <2>3 DEF EmissionsAt
  <2>5. file'.apps = <<>>
    BY <1>4 DEF OpenFile, EmptyResult
  <2>6. /\ Enumerates(run'.apps, EmissionsFrom(Named \ files'))
        /\ \A f \in Named \ files', g \in files' : f.path < g.path
    BY <2>1 DEF OrderInv
  <2>7. exit' # "success"
    BY <1>4, <2>1 DEF OpenFile, PlaceInv
  <2> QED BY <1>1, <2>1, <2>3, <2>4, <2>5, <2>6, <2>7, EnumeratesNone DEF OrderInv, Rendered
<1>5. CASE SkipDocument
  <2>1. current' = current /\ files' = files /\ run' = run /\ file' = file
        /\ pc = "document" /\ pc' = "document" /\ documents # {} /\ exit' # "success"
    BY <1>5 DEF SkipDocument, AtDocument, current, PlaceInv
  <2>2. documents' = documents \ {Min(documents)}
    BY <1>5 DEF SkipDocument
  <2>3. EmissionsIn(current, Min(documents)) = {}
    BY <1>5, <2>1, DocEmits DEF SkipDocument, EmissionsIn
  <2>4. EmissionsAt(current, Done') = EmissionsAt(current, Done)
    BY <2>1, <2>2, <2>3, DocDone
  <2>5. \A d \in Done' : EmissionsIn(current, d) = {} \/ \A e \in documents' : d < e
    BY <2>1, <2>2, DocDone
  <2> QED BY <1>1, <2>1, <2>4, <2>5 DEF OrderInv, Rendered
<1>6. CASE StartApplication \/ ExpandSet
  <2>1. current' = current /\ files' = files /\ run' = run /\ file' = file
        /\ documents' = documents /\ documents # {}
        /\ pc = "document" /\ pc' = "render" /\ exit' # "success" /\ document'.apps = <<>>
    BY <1>6 DEF StartApplication, ExpandSet, AtDocument, current, PlaceInv, EmptyResult
  <2>2. Done' = Done /\ current \in Named /\ Min(documents) \in DOMAIN current.docs
    BY <2>1, DocFact DEF Done
  <2>3. Enumerates(apps', EmissionsIn(current, Min(documents)))
    <3>1. CASE StartApplication
      BY <2>1, <3>1, DocEmits, EnumeratesOne DEF StartApplication
    <3>2. CASE ExpandSet
      <4>1. apps' \in SortedApplications(Emitted(current, Min(documents)))
        BY <2>1, <3>2, DocEmits DEF ExpandSet
      <4> QED BY <1>1, <2>2, <4>1, EnumeratesSorted
    <3> QED BY <1>6, <3>1, <3>2
  <2>4. document'.apps \o apps' = apps'
    <3>1. apps' \in Seq(Candidates)
      BY StepType, SameInput, NextInput DEF TypeInv
    <3> QED BY <2>1, <3>1
  <2> QED BY <1>1, <2>1, <2>2, <2>3, <2>4 DEF OrderInv, Rendered
<1>7. CASE RenderNext
  <2>1. current' = current /\ files' = files /\ run' = run /\ file' = file
        /\ documents' = documents /\ pc = "render" /\ pc' = "render" /\ exit' # "success"
    BY <1>7 DEF RenderNext, current, PlaceInv
  <2>2. document'.apps \o apps' = document.apps \o apps
    <3>1. document.apps \in Seq(Candidates) /\ apps \in Seq(Candidates) /\ apps # <<>>
      BY <1>7 DEF RenderNext, TypeInv, Results
    <3>2. document'.apps = document.apps \o <<Head(apps)>> /\ apps' = Tail(apps)
      BY <1>7 DEF RenderNext, Merge, Rendering
    <3>3. <<Head(apps)>> \in Seq(Candidates) /\ Tail(apps) \in Seq(Candidates)
      BY <3>1
    <3>4. <<Head(apps)>> \o Tail(apps) = apps
      BY <3>1
    <3>5. (document.apps \o <<Head(apps)>>) \o Tail(apps)
            = document.apps \o (<<Head(apps)>> \o Tail(apps))
      BY <3>1, <3>3, ConcatAssociative
    <3> QED BY <3>2, <3>4, <3>5
  <2>3. Done' = Done
    BY <2>1 DEF Done
  <2> QED BY <1>1, <2>1, <2>2, <2>3 DEF OrderInv, Rendered
<1>8. CASE MergeDocument
  <2>1. current' = current /\ files' = files /\ run' = run /\ documents # {}
        /\ pc = "render" /\ pc' = "document" /\ exit' # "success"
    BY <1>8 DEF MergeDocument, current, PlaceInv
  <2>2. documents' = documents \ {Min(documents)}
    BY <1>8 DEF MergeDocument
  <2> DEFINE E == EmissionsAt(current, Done)
             F == EmissionsIn(current, Min(documents))
  <2>3. EmissionsAt(current, Done') = E \union F
    BY <2>1, <2>2, DocDone
  <2>4. \A d \in Done' : EmissionsIn(current, d) = {} \/ \A e \in documents' : d < e
    BY <2>1, <2>2, DocDone
  <2>5. file.apps \in Seq(Candidates) /\ document.apps \in Seq(Candidates)
    BY DEF TypeInv, Results
  <2>6. Enumerates(file.apps, E)
    BY <2>1 DEF OrderInv
  <2>7. Enumerates(document.apps, F)
    <3>1. document.apps \o apps = document.apps
      BY <1>8, <2>5 DEF MergeDocument
    <3> QED BY <2>1, <3>1 DEF OrderInv
  <2>8. ASSUME NEW e \in E, NEW x \in F PROVE e # x /\ ~Precedes(x, e)
    <3>1. PICK d \in Done : e \in EmissionsIn(current, d)
      BY DEF EmissionsAt
    <3>2. d < Min(documents)
      BY <2>1, <3>1, DocFact DEF OrderInv
    <3>3. current.path \in Nat /\ d \in Nat /\ Min(documents) \in Nat
      BY <1>1, <2>1, <3>1, DocFact, FilesFact DEF Done
    <3> QED BY <3>1, <3>2, <3>3, EmissionsApart
  <2>9. file'.apps = file.apps \o document.apps
    BY <1>8 DEF MergeDocument, Merge
  <2> HIDE DEF E, F
  <2>10. Enumerates(file'.apps, E \union F)
    BY <2>5, <2>6, <2>7, <2>8, <2>9, EnumeratesConcat
  <2> QED BY <1>1, <2>1, <2>3, <2>4, <2>10 DEF OrderInv, Rendered
<1>9. CASE MergeFile
  <2>1. files # {} /\ pc = "document" /\ pc' = "file" /\ files' = files \ {current}
        /\ documents = {} /\ exit' # "success"
    BY <1>9 DEF MergeFile, PlaceInv
  <2>2. current \in files /\ current \in Named /\ \A g \in files' : current.path < g.path
    BY <1>1, <2>1, CurrentFact DEF TypeInv
  <2>3. files \subseteq Named
    BY DEF TypeInv
  <2>4. Named \ files' = (Named \ files) \union {current}
    BY <2>1, <2>2
  <2> DEFINE E == EmissionsFrom(Named \ files)
             F == EmissionsAt(current, DOMAIN current.docs)
  <2>5. EmissionsFrom(Named \ files') = E \union F
    BY <2>4 DEF EmissionsFrom
  <2>6. Enumerates(file.apps, F)
    <3>1. Done = DOMAIN current.docs
      BY <2>1 DEF Done
    <3> QED BY <2>1, <3>1 DEF OrderInv
  <2>7. Enumerates(run.apps, E)
    BY <2>1 DEF OrderInv
  <2>8. \A f \in Named \ files : f.path < current.path
    BY <2>1, <2>2 DEF OrderInv
  <2>9. ASSUME NEW e \in E, NEW x \in F PROVE e # x /\ ~Precedes(x, e)
    <3>1. PICK f \in Named \ files : e \in EmissionsAt(f, DOMAIN f.docs)
      BY DEF EmissionsFrom
    <3>2. PICK d \in DOMAIN f.docs : e \in EmissionsIn(f, d)
      BY <3>1 DEF EmissionsAt
    <3>3. PICK c \in DOMAIN current.docs : x \in EmissionsIn(current, c)
      BY DEF EmissionsAt
    <3>4. f.path \in Nat /\ current.path \in Nat
      BY <1>1, <2>2, FilesFact
    <3> QED BY <2>8, <3>2, <3>3, <3>4, EmissionsApart
  <2>10. \A f \in Named \ files', g \in files' : f.path < g.path
    BY <2>1, <2>2, <2>4 DEF OrderInv
  <2>11. run.apps \in Seq(Candidates) /\ file.apps \in Seq(Candidates)
    BY DEF TypeInv, Results
  <2>12. Enumerates(run'.apps, E \union F)
    <3>1. CASE command.mode = "dir"
      <4>1. run'.apps = run.apps \o file.apps
        BY <1>9, <3>1 DEF MergeFile, Merge
      <4> HIDE DEF E, F
      <4> QED BY <2>6, <2>7, <2>9, <2>11, <4>1, EnumeratesConcat
    <3>2. CASE command.mode # "dir"
      <4>1. \A f \in Named : f.path = command.path
        BY <3>2 DEF Named
      <4>2. Named \ files = {}
        BY <1>1, <2>2, <4>1, FilesFact
      <4>3. E = {}
        BY <4>2 DEF EmissionsFrom
      <4>4. run'.apps = file.apps
        BY <1>9, <3>2 DEF MergeFile
      <4> HIDE DEF E, F
      <4>5. E \union F = F
        BY <4>3
      <4> QED BY <2>6, <4>4, <4>5
    <3> QED BY <3>1, <3>2
  <2> HIDE DEF E, F
  <2> QED BY <1>1, <2>1, <2>5, <2>10, <2>12 DEF OrderInv, Rendered
<1>10. CASE StartPrinting
  <2>1. files = {} /\ pc = "file" /\ pc' = "print" /\ run' = run
    BY <1>10 DEF StartPrinting, Work
  <2>2. EmissionsFrom(Named \ files) = Emissions
    BY <2>1, EmissionsByDocument DEF EmissionsFrom, EmissionsAt
  <2> QED BY <1>1, <2>1, <2>2 DEF OrderInv, Rendered
<1>11. CASE PrintObject \/ Printed
  <2>1. Rendered /\ run' = run /\ pc' \in {"print", "exited"}
    BY <1>11 DEF PrintObject, Printed, Rendered, Work
  <2> QED BY <1>1, <2>1 DEF OrderInv
<1>12. CASE UNCHANGED vars
  <2>1. current' = current /\ Done' = Done /\ Rendered' = Rendered
    BY <1>12 DEF vars, current, Done, Rendered
  <2> QED BY <1>1, <1>12, <2>1 DEF vars, OrderInv
<1> QED
  BY <1>2, <1>3, <1>4, <1>5, <1>6, <1>7, <1>8, <1>9, <1>10, <1>11, <1>12
  DEF Next, DispatchFails, OpenFails, RejectDocument, ExpandFails, RenderFails, PrintFails

\* Nothing has been dealt with in the beginning.
LEMMA InitOrder == Init => OrderInv
BY DEF Init, OrderInv, EmptyResult, Rendered

\* Both also hold when the run ends in another way than by printing.
LEMMA EndKeeps ==
  ASSUME TypeInv, PlaceInv, OrderInv, UNCHANGED <<Input, Work, stdout>>, pc' = "exited",
         exit' = "failure" \/ (pc = "print" /\ exit' = "success")
  PROVE  TypeInv' /\ PlaceInv' /\ OrderInv'
<1>1. UNCHANGED Input /\ UNCHANGED Work /\ stdout' = stdout
  OBVIOUS
<1>2. /\ command' = command /\ tree' = tree
      /\ Named' = Named /\ Candidates' = Candidates /\ Objects' = Objects /\ Results' = Results
      /\ Emissions' = Emissions
  BY <1>1, SameInput
<1>3. TypeInv' /\ PlaceInv'
  BY <1>1, <1>2 DEF Work, TypeInv, PlaceInv
<1>4. OrderInv'
  BY <1>1, <1>2 DEF Work, OrderInv, Rendered
<1> QED
  BY <1>3, <1>4

\* The results list what has been dealt with, at every place of the run.
LEMMA OrderCorrect == Spec => []OrderInv
<1>1. TypeInv /\ PlaceInv /\ OrderInv /\ [Next]_vars => OrderInv'
  BY StepOrder
<1> QED
  BY <1>1, InitOrder, TypeCorrect, PTL DEF Spec

\* How often an Application is in a list, and how often it is emitted.
TimesIn(list, app) == Cardinality({k \in DOMAIN list : list[k] = app})
TimesOf(E, app) == Cardinality({e \in E : e.app = app})

\* A list in the order of a set has each of its members as often as the set.
LEMMA EnumeratesCounts ==
  ASSUME NEW S, NEW list \in Seq(S), NEW E, Enumerates(list, E), NEW app
  PROVE  TimesIn(list, app) = TimesOf(E, app)
<1>1. PICK h : IsOrderOf(h, list, E)
  BY DEF Enumerates
<1> DEFINE K == {k \in DOMAIN list : list[k] = app}
           X == {e \in E : e.app = app}
           g == [k \in K |-> h[k]]
<1>2. DOMAIN list = 1 .. Len(list) /\ Len(list) \in Nat
  BY LenProperties
<1>3. IsFiniteSet(K)
  <2>1. IsFiniteSet(1 .. Len(list))
    BY <1>2, FS_Interval
  <2> QED BY <1>2, <2>1, FS_Subset
<1>4. g \in [K -> X]
  BY <1>1 DEF IsOrderOf
<1>5. \A x \in X : \E k \in K : g[k] = x
  <2> SUFFICES ASSUME NEW x \in X PROVE \E k \in K : g[k] = x
    OBVIOUS
  <2>1. PICK k \in DOMAIN list : h[k] = x
    BY <1>1 DEF IsOrderOf
  <2>2. k \in K
    BY <1>1, <2>1 DEF IsOrderOf
  <2> QED BY <2>1, <2>2
<1>6. \A p, q \in K : g[p] = g[q] => p = q
  <2> SUFFICES ASSUME NEW p \in K, NEW q \in K, g[p] = g[q], p # q PROVE FALSE
    OBVIOUS
  <2>1. p < q \/ q < p
    BY <1>2
  <2>2. h[p] = h[q]
    OBVIOUS
  <2> QED BY <1>1, <2>1, <2>2 DEF IsOrderOf
<1> HIDE DEF K, X, g
<1>7. g \in Bijection(K, X)
  BY <1>4, <1>5, <1>6 DEF Bijection, Injection, Surjection, IsInjective
<1>8. ExistsBijection(K, X)
  BY <1>7 DEF ExistsBijection
<1>9. Cardinality(X) = Cardinality(K)
  BY <1>3, <1>8, FS_Bijection
<1> QED
  BY <1>9 DEF K, X, TimesIn, TimesOf

\* A run that succeeds has rendered every Application of the named file or tree, as
\* often as it is declared or generated, and no other.
THEOREM EachApplicationRendered == Spec => []EveryApplicationOnce
<1>1. TypeInv /\ OrderInv => EveryApplicationOnce
  <2> SUFFICES ASSUME TypeInv, OrderInv, Rendered, NEW app
               PROVE  Cardinality({k \in DOMAIN run.apps : run.apps[k] = app})
                        = Cardinality({e \in Emissions : e.app = app})
    BY DEF EveryApplicationOnce
  <2>1. run.apps \in Seq(Candidates) /\ Enumerates(run.apps, Emissions)
    BY DEF TypeInv, Results, OrderInv
  <2>2. TimesIn(run.apps, app) = TimesOf(Emissions, app)
    BY <2>1, EnumeratesCounts
  <2> QED BY <2>2 DEF TimesIn, TimesOf
<1> QED
  BY <1>1, OrderCorrect, TypeCorrect, PTL

\* The Applications of a run that succeeds come by file, document and place in the set.
THEOREM TreeOrder == Spec => []InTreeOrder
<1>1. OrderInv => InTreeOrder
  <2> SUFFICES ASSUME OrderInv, Rendered,
                      NEW p \in DOMAIN run.apps, NEW q \in DOMAIN run.apps, p < q
               PROVE  \E e, f \in Emissions :
                        e # f /\ e.app = run.apps[p] /\ f.app = run.apps[q] /\ ~Precedes(f, e)
    BY DEF InTreeOrder
  <2>1. PICK h : IsOrderOf(h, run.apps, Emissions)
    BY DEF OrderInv, Enumerates
  <2>2. h[p] \in Emissions /\ h[q] \in Emissions
    BY <2>1 DEF IsOrderOf
  <2>3. /\ h[p] # h[q] /\ h[p].app = run.apps[p] /\ h[q].app = run.apps[q]
        /\ ~Precedes(h[q], h[p])
    BY <2>1 DEF IsOrderOf
  <2> DEFINE e == h[p]
             f == h[q]
  <2>4. /\ e \in Emissions /\ f \in Emissions /\ e # f
        /\ e.app = run.apps[p] /\ f.app = run.apps[q] /\ ~Precedes(f, e)
    BY <2>2, <2>3
  <2> HIDE DEF e, f
  <2> QED BY <2>4
<1> QED
  BY <1>1, OrderCorrect, PTL

-----------------------------------------------------------------------------
\* The warnings due for the generators of the documents D of a file.
LimitsOf(f, D) ==
  UNION {Limited(f.docs[d]) : d \in {c \in D : f.docs[c].kind = "ApplicationSet"}}

\* A result has the warnings of its Applications.
Warns(r) == \A k \in DOMAIN r.apps : Range(r.apps[k].warnings) \subseteq Range(r.warnings)

\* Each result has the warnings of what has been dealt with.
WarnInv ==
  /\ Warns(document) /\ Warns(file) /\ Warns(run)
  /\ pc \in {"file", "document", "render"} =>
       \A f \in Named \ files : LimitsOf(f, DOMAIN f.docs) \subseteq Range(run.warnings)
  /\ pc \in {"document", "render"} => LimitsOf(current, Done) \subseteq Range(file.warnings)
  /\ pc = "render" => LimitsOf(current, {Min(documents)}) \subseteq Range(document.warnings)
  /\ Rendered => \A f \in Named : LimitsOf(f, DOMAIN f.docs) \subseteq Range(run.warnings)

\* Merging keeps the warnings of both.
LEMMA WarnsMerge ==
  ASSUME NEW r \in Results, NEW other \in Results, Warns(r), Warns(other)
  PROVE  /\ Warns(Merge(r, other))
         /\ Range(Merge(r, other).warnings) = Range(r.warnings) \union Range(other.warnings)
<1> DEFINE m == Merge(r, other)
<1>1. /\ r.warnings \in Seq(Messages) /\ other.warnings \in Seq(Messages)
      /\ r.apps \in Seq(Candidates) /\ other.apps \in Seq(Candidates)
  BY DEF Results
<1>2. m.warnings = r.warnings \o other.warnings /\ m.apps = r.apps \o other.apps
  BY DEF Merge
<1>3. Range(m.warnings) = Range(r.warnings) \union Range(other.warnings)
  BY <1>1, <1>2, RangeConcatenation
<1> HIDE DEF m
<1>4. ASSUME NEW k \in DOMAIN m.apps
      PROVE  Range(m.apps[k].warnings) \subseteq Range(m.warnings)
  <2>1. \/ k \in DOMAIN r.apps /\ m.apps[k] = r.apps[k]
        \/ \E j \in DOMAIN other.apps : m.apps[k] = other.apps[j]
    <3> DEFINE a == r.apps
               b == other.apps
    <3>1. a \in Seq(Candidates) /\ b \in Seq(Candidates) /\ k \in DOMAIN (a \o b)
      BY <1>1, <1>2
    <3>2. m.apps[k] = (a \o b)[k]
      BY <1>2
    <3> HIDE DEF a, b
    <3>3. \/ k \in DOMAIN a /\ (a \o b)[k] = a[k]
          \/ \E j \in DOMAIN b : (a \o b)[k] = b[j]
      BY <3>1, ConcatMember
    <3> QED BY <3>2, <3>3 DEF a, b
  <2> QED BY <1>3, <2>1 DEF Warns
<1> QED
  BY <1>3, <1>4 DEF Warns, m

\* Nothing rendered, no warnings due.
LEMMA WarnsNone ==
  ASSUME NEW r, r.apps = <<>>
  PROVE  Warns(r)
BY DEF Warns

\* What one Application renders to has its warnings.
LEMMA WarnsRendering ==
  ASSUME NEW app
  PROVE  Warns(Rendering(app))
BY DEF Warns, Rendering

\* The warnings due for generators do not change while they are rendered.
LEMMA SameLimits ==
  ASSUME UNCHANGED Input
  PROVE  \A f, D : LimitsOf(f, D)' = LimitsOf(f, D)
<1>1. \A set : Limited(set)' = Limited(set)
  BY SameInput DEF Limited, Reached
<1> QED
  BY <1>1 DEF LimitsOf

\* The warnings due for two sets of documents are those due for either.
LEMMA LimitsUnion ==
  ASSUME NEW f, NEW D, NEW E
  PROVE  LimitsOf(f, D \union E) = LimitsOf(f, D) \union LimitsOf(f, E)
BY DEF LimitsOf

\* No warnings are due in the beginning.
LEMMA InitWarn == Init => WarnInv
BY DEF Init, WarnInv, Warns, EmptyResult, Rendered

\* Every step keeps the warnings of what has been dealt with.
LEMMA StepWarn ==
  ASSUME TypeInv, PlaceInv, WarnInv, [Next]_vars
  PROVE  WarnInv'
<1>1. /\ tree \in Trees /\ Named' = Named /\ \A f, D : LimitsOf(f, D)' = LimitsOf(f, D)
      /\ \A r : Warns(r)' <=> Warns(r)
      /\ document \in Results /\ file \in Results /\ run \in Results
      /\ Warns(document) /\ Warns(file) /\ Warns(run)
  BY NextInput, SameInput, SameLimits DEF TypeInv, Warns, WarnInv
<1>2. Warns(EmptyResult)
  BY DEF Warns, EmptyResult
<1>3. CASE ExitWithError
  BY <1>1, <1>3 DEF ExitWithError, Work, WarnInv, Rendered
<1>4. CASE Dispatch
  <2>1. (Named \ files)' = {} /\ pc' = "file" /\ exit' # "success"
    BY <1>1, <1>4 DEF Dispatch, PlaceInv
  <2> QED BY <1>1, <1>4, <2>1 DEF Dispatch, WarnInv, Rendered
<1>5. CASE OpenFile
  <2>1. /\ current' = current /\ files' = files /\ run' = run /\ document' = document
        /\ file' = EmptyResult /\ pc = "file" /\ pc' = "document" /\ exit' # "success"
    BY <1>5 DEF OpenFile, current, PlaceInv
  <2>2. \A d \in Done' : current.docs[d].kind = "empty"
    BY <1>5, <2>1 DEF Done, OpenFile
  <2>3. LimitsOf(current, Done') = {}
    BY <2>2 DEF LimitsOf
  <2> QED BY <1>1, <1>2, <2>1, <2>3 DEF WarnInv, Rendered
<1>6. CASE SkipDocument
  <2>1. /\ current' = current /\ files' = files /\ run' = run /\ file' = file
        /\ document' = document /\ pc = "document" /\ pc' = "document"
        /\ documents # {} /\ exit' # "success"
    BY <1>6 DEF SkipDocument, AtDocument, current, PlaceInv
  <2>2. Done' = Done \union {Min(documents)}
    BY <1>6, <2>1, DocFact DEF SkipDocument, Done
  <2>3. current.docs[Min(documents)].kind # "ApplicationSet"
    BY <1>6 DEF SkipDocument, Renderable, doc
  <2>4. LimitsOf(current, {Min(documents)}) = {}
    BY <2>3 DEF LimitsOf
  <2>5. LimitsOf(current, Done') = LimitsOf(current, Done)
    BY <2>2, <2>4, LimitsUnion
  <2> QED BY <1>1, <2>1, <2>5 DEF WarnInv, Rendered
<1>7. CASE StartApplication \/ ExpandSet
  <2>1. /\ current' = current /\ files' = files /\ run' = run /\ file' = file
        /\ documents' = documents /\ documents # {} /\ Done' = Done
        /\ pc = "document" /\ pc' = "render" /\ exit' # "success"
    BY <1>7 DEF StartApplication, ExpandSet, AtDocument, current, PlaceInv, Done
  <2>2. document'.apps = <<>>
    BY <1>7 DEF StartApplication, ExpandSet, EmptyResult
  <2>3. Warns(document')
    BY <2>2, WarnsNone
  <2>4. LimitsOf(current, {Min(documents)}) \subseteq Range(document'.warnings)
    <3>1. CASE StartApplication
      <4>1. current.docs[Min(documents)].kind # "ApplicationSet"
        BY <3>1 DEF StartApplication, doc
      <4> QED BY <4>1 DEF LimitsOf
    <3>2. CASE ExpandSet
      <4>1. document'.warnings = limits(doc)
        BY <3>2 DEF ExpandSet, EmptyResult
      <4>2. Range(document'.warnings) = Limited(doc)
        BY <4>1, LimitsFact
      <4>3. LimitsOf(current, {Min(documents)}) \subseteq Limited(doc)
        BY DEF LimitsOf, doc
      <4> QED BY <4>2, <4>3
    <3> QED BY <1>7, <3>1, <3>2
  <2> QED BY <1>1, <2>1, <2>3, <2>4 DEF WarnInv, Rendered
<1>8. CASE RenderNext
  <2>1. /\ current' = current /\ files' = files /\ run' = run /\ file' = file
        /\ documents' = documents /\ Done' = Done
        /\ pc = "render" /\ pc' = "render" /\ exit' # "success"
    BY <1>8 DEF RenderNext, current, PlaceInv, Done
  <2>2. Head(apps) \in Candidates /\ document' = Merge(document, Rendering(Head(apps)))
    BY <1>8 DEF RenderNext, TypeInv
  <2>3. /\ Warns(document')
        /\ Range(document.warnings) \subseteq Range(document'.warnings)
    BY <1>1, <2>2, WarnsMerge, WarnsRendering, RenderingType
  <2> QED BY <1>1, <2>1, <2>3 DEF WarnInv, Rendered
<1>9. CASE MergeDocument
  <2>1. /\ current' = current /\ files' = files /\ run' = run /\ document' = document
        /\ documents # {} /\ pc = "render" /\ pc' = "document" /\ exit' # "success"
    BY <1>9 DEF MergeDocument, current, PlaceInv
  <2>2. Done' = Done \union {Min(documents)}
    BY <1>9, <2>1, DocFact DEF MergeDocument, Done
  <2>3. /\ Warns(file')
        /\ Range(file'.warnings) = Range(file.warnings) \union Range(document.warnings)
    BY <1>1, <1>9, WarnsMerge DEF MergeDocument
  <2>4. LimitsOf(current, Done') \subseteq Range(file'.warnings)
    BY <2>1, <2>2, <2>3, LimitsUnion DEF WarnInv
  <2> QED BY <1>1, <2>1, <2>3, <2>4 DEF WarnInv, Rendered
<1>10. CASE MergeFile
  <2>1. /\ files # {} /\ documents = {} /\ pc = "document" /\ pc' = "file"
        /\ files' = files \ {current} /\ file' = file /\ document' = document
        /\ exit' # "success"
    BY <1>10 DEF MergeFile, PlaceInv
  <2>2. current \in files /\ current \in Named
    BY <1>1, <2>1, CurrentFact DEF TypeInv
  <2>3. LimitsOf(current, DOMAIN current.docs) \subseteq Range(file.warnings)
    BY <2>1 DEF WarnInv, Done
  <2>4. /\ Warns(run') /\ Range(file.warnings) \subseteq Range(run'.warnings)
        /\ \A f \in Named \ files : LimitsOf(f, DOMAIN f.docs) \subseteq Range(run'.warnings)
    <3>1. CASE command.mode = "dir"
      <4>1. run' = Merge(run, file)
        BY <1>10, <3>1 DEF MergeFile
      <4>2. Warns(run') /\ Range(run'.warnings) = Range(run.warnings) \union Range(file.warnings)
        BY <1>1, <4>1, WarnsMerge
      <4> QED BY <2>1, <4>2 DEF WarnInv
    <3>2. CASE command.mode # "dir"
      <4>1. \A f \in Named : f.path = command.path
        BY <3>2 DEF Named
      <4>2. Named \ files = {}
        BY <1>1, <2>2, <4>1, FilesFact
      <4>3. run' = file
        BY <1>10, <3>2 DEF MergeFile
      <4> QED BY <1>1, <4>2, <4>3
    <3> QED BY <3>1, <3>2
  <2>5. \A f \in Named \ files' : LimitsOf(f, DOMAIN f.docs) \subseteq Range(run'.warnings)
    BY <2>1, <2>3, <2>4
  <2> QED BY <1>1, <2>1, <2>4, <2>5 DEF WarnInv, Rendered
<1>11. CASE StartPrinting
  <2>1. files = {} /\ pc = "file" /\ pc' = "print" /\ UNCHANGED Work
    BY <1>11 DEF StartPrinting
  <2> QED BY <1>1, <2>1 DEF WarnInv, Work, Rendered
<1>12. CASE PrintObject \/ Printed
  <2>1. Rendered /\ UNCHANGED Work /\ pc' \in {"print", "exited"}
    BY <1>12 DEF PrintObject, Printed, Rendered
  <2> QED BY <1>1, <2>1 DEF WarnInv, Work
<1>13. CASE UNCHANGED vars
  <2>1. current' = current /\ Done' = Done /\ (Rendered' <=> Rendered)
    BY <1>13 DEF vars, current, Done, Rendered
  <2> QED BY <1>1, <1>13, <2>1 DEF vars, WarnInv
<1> QED
  BY <1>3, <1>4, <1>5, <1>6, <1>7, <1>8, <1>9, <1>10, <1>11, <1>12, <1>13
  DEF Next, DispatchFails, OpenFails, RejectDocument, ExpandFails, RenderFails, PrintFails

\* A run that succeeds passes on the warnings of all that it has rendered, and one for
\* each generator that saw less than it would on a cluster.
THEOREM NoWarningLost == Spec => []WarningsKept
<1>1. TypeInv /\ PlaceInv /\ WarnInv /\ [Next]_vars => WarnInv'
  BY StepWarn
<1>2. WarnInv => WarningsKept
  <2> SUFFICES ASSUME WarnInv, Rendered PROVE WarningsKept
    BY DEF WarningsKept
  <2>1. Warns(run) /\ \A f \in Named : LimitsOf(f, DOMAIN f.docs) \subseteq Range(run.warnings)
    BY DEF WarnInv
  <2>2. ASSUME NEW f \in Named, NEW d \in DOMAIN f.docs, f.docs[d].kind = "ApplicationSet"
        PROVE  Limited(f.docs[d]) \subseteq Range(run.warnings)
    <3>1. Limited(f.docs[d]) \subseteq LimitsOf(f, DOMAIN f.docs)
      BY <2>2 DEF LimitsOf
    <3> QED BY <2>1, <3>1
  <2> QED BY <2>1, <2>2 DEF Warns, WarningsKept
<1> QED
  BY <1>1, <1>2, InitWarn, TypeCorrect, PTL DEF Spec

=============================================================================
