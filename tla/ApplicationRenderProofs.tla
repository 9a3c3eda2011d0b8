----------------------- MODULE ApplicationRenderProofs -----------------------
(***************************************************************************)
(* Proofs about ApplicationRender for any Applications and options.        *)
(***************************************************************************)
EXTENDS ApplicationRender, DataLemmas

Requests == [index : DOMAIN app.sources, source : Sources,
             where : {"cache", "checkout"}, contents : Contents]

Calls == [index : DOMAIN app.sources, type : Contents,
          where : {"cache", "checkout", "overlay"}, exists : BOOLEAN,
          unresolved : SUBSET Refs]

LEMMA SourcesTyped ==
  ASSUME app \in Applications
  PROVE  /\ app.sources \in Seq(Sources)
         /\ \A n \in DOMAIN app.sources : app.sources[n] \in Sources
         /\ DOMAIN app.sources = 1 .. Len(app.sources)
  BY ApplicationAssumption

LEMMA TypeTyped ==
  ASSUME NEW s, NEW holds \in Contents
  PROVE  GetAppSourceType(s, holds) \in Contents
  BY DEF GetAppSourceType, Contents

\* Dropping a source's tests leaves it a source, and makes it a Helm one.
LEMMA SkippingTestsTyped ==
  ASSUME NEW r \in Requests
  PROVE  /\ SkippingTests(r) \in Requests
         /\ SkippingTests(r).index = r.index
         /\ SkippingTests(r).contents = r.contents
         /\ SkippingTests(r).source.helm # NoBlock
         /\ SkippingTests(r).source.helm.skipTests
         /\ SkippingTests(r).source.helm.vars =
              IF r.source.helm = NoBlock THEN {} ELSE r.source.helm.vars
<1> DEFINE block == IF r.source.helm = NoBlock
                    THEN [vars |-> {}, skipTests |-> TRUE, other |-> FALSE]
                    ELSE [r.source.helm EXCEPT !.skipTests = TRUE]
           s == [r.source EXCEPT !.helm = block]
<1>1. r.source \in Sources
  BY DEF Requests
<1>2. r.source.helm = NoBlock \/ r.source.helm \in Blocks
  BY <1>1 DEF Sources
<1>3. block \in Blocks /\ block # NoBlock /\ block.skipTests
      /\ block.vars = IF r.source.helm = NoBlock THEN {} ELSE r.source.helm.vars
  <2>1. CASE r.source.helm = NoBlock
    <3>1. block = [vars |-> {}, skipTests |-> TRUE, other |-> FALSE]
      BY <2>1
    <3>2. block \in [vars : SUBSET Refs, skipTests : BOOLEAN, other : BOOLEAN]
      BY <3>1
    <3> QED
      BY <2>1, <3>1, <3>2, BlockAssumption
  <2>2. CASE r.source.helm # NoBlock
    <3>1. PICK b \in [vars : SUBSET Refs, skipTests : BOOLEAN, other : BOOLEAN] : b = r.source.helm
      BY <1>2, <2>2, BlockAssumption
    <3>2. block = [b EXCEPT !.skipTests = TRUE]
      BY <2>2, <3>1
    <3>3. /\ [b EXCEPT !.skipTests = TRUE] \in [vars : SUBSET Refs, skipTests : BOOLEAN, other : BOOLEAN]
          /\ [b EXCEPT !.skipTests = TRUE].skipTests
          /\ [b EXCEPT !.skipTests = TRUE].vars = b.vars
      BY <3>1
    <3> QED
      BY <2>2, <3>1, <3>2, <3>3, BlockAssumption
  <2> QED
    BY <2>1, <2>2
<1>4. s \in Sources /\ s.helm = block
  <2> HIDE DEF block
  <2> QED BY <1>1, <1>3 DEF Sources
<1>5. SkippingTests(r) = [r EXCEPT !.source = s]
  BY DEF SkippingTests
<1>6. [r EXCEPT !.source = s] \in Requests /\ [r EXCEPT !.source = s].source = s
      /\ [r EXCEPT !.source = s].index = r.index
      /\ [r EXCEPT !.source = s].contents = r.contents
  <2> HIDE DEF s
  <2> QED BY <1>4 DEF Requests
<1> HIDE DEF block, s
<1> QED
  BY <1>3, <1>4, <1>5, <1>6

LEMMA RequestsTyped ==
  ASSUME TypeOK
  PROVE  /\ requests \in Seq(Requests)
         /\ \A k \in DOMAIN requests : requests[k] \in Requests
         /\ DOMAIN requests = 1 .. Len(requests)
         /\ i <= Len(requests) => i \in DOMAIN requests /\ request \in Requests
<1>1. requests \in Seq(Requests) /\ i \in Nat \ {0}
  BY DEF TypeOK, Requests
<1> QED
  BY <1>1 DEF request

\* What AddRequest appends.
NewRequest ==
  IF IsHelm(source)
  THEN [index |-> i, source |-> [source EXCEPT !.path = "inside", !.chart = NoChart],
        where |-> "cache", contents |-> "Helm"]
  ELSE [index |-> i, source |-> source, where |-> "checkout", contents |-> source.dir]

LEMMA NewRequestTyped ==
  ASSUME TypeOK, i <= Len(app.sources)
  PROVE  /\ NewRequest \in Requests
         /\ NewRequest.index = i
         /\ NewRequest.source.helm = source.helm
         /\ GetAppSourceType(NewRequest.source, NewRequest.contents) = NativeType(i)
<1>1. i \in DOMAIN app.sources /\ source \in Sources
  BY SourcesTyped DEF TypeOK, source
<1>2. CASE IsHelm(source)
  <2> DEFINE s == [source EXCEPT !.path = "inside", !.chart = NoChart]
  <2>1. s \in Sources /\ s.helm = source.helm
    BY <1>1 DEF Sources
  <2>2. NewRequest = [index |-> i, source |-> s, where |-> "cache", contents |-> "Helm"]
    BY <1>2 DEF NewRequest
  <2>3. GetAppSourceType(s, "Helm") = NativeType(i)
    BY <1>2, <2>1 DEF GetAppSourceType, NativeType, source
  <2> HIDE DEF s
  <2> QED
    BY <1>1, <2>1, <2>2, <2>3 DEF Requests, Contents
<1>3. CASE ~IsHelm(source)
  <2>1. NewRequest = [index |-> i, source |-> source, where |-> "checkout", contents |-> source.dir]
    BY <1>3 DEF NewRequest
  <2>2. source.dir \in Contents
    BY <1>1 DEF Sources
  <2>3. GetAppSourceType(source, source.dir) = NativeType(i)
    BY <1>3 DEF NativeType, source
  <2> QED
    BY <1>1, <2>1, <2>2, <2>3 DEF Requests
<1> QED
  BY <1>2, <1>3

LEMMA CallTyped ==
  ASSUME TypeOK, i <= Len(requests)
  PROVE  Call \in Calls
<1>1. request \in Requests
  BY RequestsTyped
<1>2. contents \in Contents
  BY <1>1 DEF contents, Contents, Requests
<1>3. GetAppSourceType(request.source, contents) \in Contents
  BY <1>2, TypeTyped
<1>4. unresolved \in SUBSET Refs
  <2>1. request.source.helm = NoBlock \/ request.source.helm \in Blocks
    BY <1>1 DEF Requests, Sources
  <2> QED
    BY <2>1, BlockAssumption DEF unresolved
<1>5. request.index \in DOMAIN app.sources /\ request.where \in {"cache", "checkout"}
  BY <1>1 DEF Requests
<1> QED
  BY <1>3, <1>4, <1>5 DEF Call, Calls

-----------------------------------------------------------------------------
LEMMA InitTypeOK == Init => TypeOK
<1> SUFFICES ASSUME Init PROVE TypeOK
  OBVIOUS
<1> QED
  BY DEF Init, TypeOK

\* The variables a step changes stay in their types, action by action.
LEMMA NextTypeOK == TypeOK /\ Progress /\ [Next]_vars => TypeOK'
<1> SUFFICES ASSUME TypeOK, Progress, [Next]_vars
             PROVE  TypeOK'
  OBVIOUS
<1>r. AtRequest => i \in DOMAIN requests
  BY RequestsTyped DEF Progress
<1> USE DEF TypeOK, input, output
<1>e. ReturnError => TypeOK'
  BY DEF ReturnError
<1>1. ASSUME Start PROVE TypeOK'
  BY <1>1 DEF Start
<1>2. ASSUME StartFails PROVE TypeOK'
  BY <1>2, <1>e DEF StartFails
<1>3. ASSUME SkipRefOnly PROVE TypeOK'
  BY <1>3 DEF SkipRefOnly
<1>4. ASSUME RejectSource PROVE TypeOK'
  BY <1>4, <1>e DEF RejectSource
<1>5. ASSUME AddRequest PROVE TypeOK'
  <2>1. requests' = Append(requests, NewRequest)
    BY <1>5 DEF AddRequest, NewRequest
  <2>2. NewRequest \in Requests
    BY <1>5, NewRequestTyped DEF AddRequest, Building
  <2>3. requests \in Seq(Requests)
    BY RequestsTyped
  <2>4. /\ requests' \in Seq(Requests)
        /\ Len(requests') = Len(requests) + 1
        /\ DOMAIN requests \subseteq DOMAIN requests'
    BY <2>1, <2>2, <2>3
  <2> QED
    BY <1>5, <2>4 DEF AddRequest, Requests
<1>6. ASSUME DownloadFails PROVE TypeOK'
  BY <1>6, <1>e DEF DownloadFails
<1>7. ASSUME BuildDone PROVE TypeOK'
  BY <1>7 DEF BuildDone
<1>8. ASSUME NothingToRender PROVE TypeOK'
  BY <1>8, <1>e DEF NothingToRender
<1>9. ASSUME Detect PROVE TypeOK'
  <2>1. requests \in Seq(Requests) /\ i \in DOMAIN requests /\ requests[i] \in Requests
    BY <1>9, RequestsTyped DEF Detect, request
  <2>2. sourceType' \in Contents
    BY <1>9, <2>1, TypeTyped DEF Detect, Requests, request
  <2>3. SkippingTests(requests[i]) \in Requests
    BY <2>1, SkippingTestsTyped
  <2>4. \/ requests' = requests
        \/ requests' = [requests EXCEPT ![i] = SkippingTests(requests[i])]
    BY <1>9 DEF Detect
  <2>5. requests' \in Seq(Requests) /\ Len(requests') = Len(requests)
        /\ DOMAIN requests' = DOMAIN requests
    BY <2>1, <2>3, <2>4
  <2>6. pc' \in {"overlay", "generate"}
    BY <1>9 DEF Detect
  <2>7. UNCHANGED <<app, opts, i, tempDirs, deferred, calls>>
    BY <1>9 DEF Detect
  <2> QED
    BY <2>2, <2>5, <2>6, <2>7 DEF Requests
<1>10. ASSUME DetectFails PROVE TypeOK'
  BY <1>10, <1>e DEF DetectFails
<1>11. ASSUME MakeOverlay PROVE TypeOK'
  BY <1>11, <1>r DEF MakeOverlay, AtRequest
<1>12. ASSUME MakeOverlayFails PROVE TypeOK'
  BY <1>12, <1>e DEF MakeOverlayFails
<1>13. ASSUME FillOverlay PROVE TypeOK'
  BY <1>13, <1>r DEF FillOverlay, AtRequest
<1>14. ASSUME FillOverlayFails PROVE TypeOK'
  BY <1>14 DEF FillOverlayFails
<1>15. ASSUME Generate PROVE TypeOK'
  <2>1. i <= Len(requests) /\ Len(calls) = i - 1
    BY <1>15 DEF Generate, Progress, AtRequest, Looping
  <2>2. calls \in Seq(Calls) /\ Call \in Calls
    BY <2>1, CallTyped DEF Calls
  <2>3. calls' = Append(calls, Call)
    BY <1>15 DEF Generate
  <2>4. calls' \in Seq(Calls) /\ Len(calls') = Len(calls) + 1
    BY <2>2, <2>3
  <2>5. UNCHANGED <<app, opts, requests, sourceType, tempDirs, deferred>>
        /\ i' = i + 1 /\ pc' = "detect"
    BY <1>15 DEF Generate
  <2> QED
    BY <2>1, <2>4, <2>5 DEF Calls
<1>16. ASSUME GenerateFails PROVE TypeOK'
  BY <1>16, <1>e DEF GenerateFails
<1>17. ASSUME Return PROVE TypeOK'
  BY <1>17 DEF Return
<1>18. ASSUME ReturnFails PROVE TypeOK'
  BY <1>18, <1>e DEF ReturnFails
<1>19. CASE UNCHANGED vars
  BY <1>19 DEF vars
<1> QED
  BY <1>1, <1>2, <1>3, <1>4, <1>5, <1>6, <1>7, <1>8, <1>9, <1>10, <1>11, <1>12,
     <1>13, <1>14, <1>15, <1>16, <1>17, <1>18, <1>19 DEF Next

-----------------------------------------------------------------------------
LEMMA InitProgress == Init => Progress
  BY DEF Init, Progress, Looping, AtRequest

LEMMA NextProgress == TypeOK /\ Progress /\ [Next]_vars => Progress'
<1> SUFFICES ASSUME TypeOK, Progress, [Next]_vars
             PROVE  Progress'
  OBVIOUS
<1> USE DEF Progress, Looping, AtRequest, input, output
<1>e. ReturnError => Progress'
  BY DEF ReturnError
<1>i. i \in Nat /\ Len(requests) \in Nat
  BY RequestsTyped DEF TypeOK
<1>1. CASE Start
  BY <1>1 DEF Start
<1>2. CASE SkipRefOnly
  BY <1>2 DEF SkipRefOnly, Building
<1>3. CASE AddRequest
  BY <1>3 DEF AddRequest, Building
<1>4. CASE BuildDone
  BY <1>4, <1>i DEF BuildDone
<1>5. CASE Detect
  <2>1. Len(requests') = Len(requests)
    BY <1>5, RequestsTyped DEF Detect
  <2> QED
    BY <1>5, <2>1 DEF Detect
<1>6. CASE MakeOverlay
  BY <1>6 DEF MakeOverlay
<1>7. CASE FillOverlay
  BY <1>7 DEF FillOverlay
<1>8. CASE FillOverlayFails
  BY <1>8 DEF FillOverlayFails
<1>9. CASE Generate
  <2>1. Len(calls') = Len(calls) + 1
    BY <1>9 DEF Generate, TypeOK
  <2> QED
    BY <1>9, <1>i, <2>1 DEF Generate
<1>10. CASE Return
  BY <1>10 DEF Return
<1>11. CASE UNCHANGED vars
  BY <1>11 DEF vars
<1> QED
  BY <1>e, <1>1, <1>2, <1>3, <1>4, <1>5, <1>6, <1>7, <1>8, <1>9, <1>10, <1>11
     DEF Next, StartFails, RejectSource, DownloadFails, NothingToRender, DetectFails,
         MakeOverlayFails, GenerateFails, ReturnFails

-----------------------------------------------------------------------------
LEMMA InitOverlaysTracked == Init => OverlaysTracked
  BY DEF Init, OverlaysTracked, Returned

\* Between MkdirTemp and the defer, only FillOverlayFails returns.
LEMMA NextOverlaysTracked ==
  TypeOK /\ Progress /\ OverlaysTracked /\ [Next]_vars => OverlaysTracked'
<1> SUFFICES ASSUME TypeOK, Progress, OverlaysTracked, [Next]_vars
             PROVE  OverlaysTracked'
  OBVIOUS
<1> USE DEF OverlaysTracked, Returned, input, output
<1>e. ReturnError /\ ~Returned /\ pc # "fill" => OverlaysTracked'
  BY DEF ReturnError
<1>1. CASE Start
  BY <1>1 DEF Start
<1>2. CASE SkipRefOnly
  BY <1>2 DEF SkipRefOnly, Building
<1>3. CASE AddRequest
  BY <1>3 DEF AddRequest, Building
<1>4. CASE BuildDone
  BY <1>4 DEF BuildDone
<1>5. CASE Detect
  BY <1>5 DEF Detect
<1>6. CASE MakeOverlay
  BY <1>6 DEF MakeOverlay
<1>7. CASE FillOverlay
  BY <1>7 DEF FillOverlay
<1>8. CASE FillOverlayFails
  BY <1>8 DEF FillOverlayFails
<1>9. CASE Generate
  BY <1>9 DEF Generate
<1>10. CASE Return
  BY <1>10 DEF Return
<1>11. CASE UNCHANGED vars
  BY <1>11 DEF vars
<1> QED
  BY <1>e, <1>1, <1>2, <1>3, <1>4, <1>5, <1>6, <1>7, <1>8, <1>9, <1>10, <1>11
     DEF Next, StartFails, RejectSource, DownloadFails, NothingToRender, DetectFails,
         MakeOverlayFails, GenerateFails, ReturnFails, Building

-----------------------------------------------------------------------------
LEMMA InitTypesTracked == Init => TypesTracked
  BY DEF Init, TypesTracked, AtRequest

\* A step that leaves the Application, the requests and the type at hand alone.
LEMMA SameTypes ==
  ASSUME TypesTracked, UNCHANGED <<app, requests, sourceType>>,
         AtRequest' => AtRequest /\ i' = i
  PROVE  TypesTracked'
<1>1. \A k : NativeType(k)' = NativeType(k)
  BY DEF NativeType
<1> QED
  BY <1>1 DEF TypesTracked, AtRequest, request

LEMMA NextTypesTracked ==
  TypeOK /\ Progress /\ TypesTracked /\ [Next]_vars => TypesTracked'
<1> SUFFICES ASSUME TypeOK, Progress, TypesTracked, [Next]_vars
             PROVE  TypesTracked'
  OBVIOUS
<1> USE DEF input, output
<1>1. CASE AddRequest
  <2>1. /\ NewRequest.index = i
        /\ GetAppSourceType(NewRequest.source, NewRequest.contents) = NativeType(i)
    BY <1>1, NewRequestTyped DEF AddRequest, Building
  <2>2. requests' = Append(requests, NewRequest)
    BY <1>1 DEF AddRequest, NewRequest
  <2>3. app' = app /\ ~AtRequest'
    BY <1>1 DEF AddRequest, Building, AtRequest
  <2>4. \A k : NativeType(k)' = NativeType(k)
    BY <2>3 DEF NativeType
  <2>5. ASSUME NEW k \in DOMAIN requests'
        PROVE  GetAppSourceType(requests'[k].source, requests'[k].contents)
                 = NativeType(requests'[k].index)
    <3>1. \/ k \in DOMAIN requests /\ requests'[k] = requests[k]
          \/ requests'[k] = NewRequest
      BY <2>2, RequestsTyped
    <3> QED
      BY <2>1, <3>1 DEF TypesTracked
  <2> QED
    BY <2>3, <2>4, <2>5 DEF TypesTracked
<1>2. CASE Detect
  <2>1. request \in Requests /\ i \in DOMAIN requests /\ requests \in Seq(Requests)
    BY <1>2, RequestsTyped DEF Detect
  <2>2. app' = app /\ i' = i
    BY <1>2 DEF Detect
  <2>3. \A k : NativeType(k)' = NativeType(k)
    BY <2>2 DEF NativeType
  <2>4. sourceType' = NativeType(request.index)
    BY <1>2, <2>1 DEF Detect, TypesTracked, request
  <2>5. CASE requests' = requests
    BY <2>2, <2>3, <2>4, <2>5 DEF TypesTracked, request
  <2>6. CASE /\ requests' = [requests EXCEPT ![i] = SkippingTests(requests[i])]
             /\ sourceType' = "Helm"
    <3> DEFINE r == SkippingTests(requests[i])
    <3>1. /\ r.index = request.index
          /\ GetAppSourceType(r.source, r.contents) = "Helm"
      BY <2>1, SkippingTestsTyped DEF GetAppSourceType, request
    <3>2. \A k \in DOMAIN requests' :
            k \in DOMAIN requests /\ (requests'[k] = requests[k] \/ requests'[k] = r)
      BY <2>1, <2>6
    <3>3. requests'[i'].index = request.index
      BY <2>1, <2>2, <2>6, <3>1
    <3> HIDE DEF r
    <3>4. \A k \in DOMAIN requests' :
            GetAppSourceType(requests'[k].source, requests'[k].contents)
              = NativeType(requests'[k].index)
      BY <2>4, <2>6, <3>1, <3>2 DEF TypesTracked
    <3> QED
      BY <2>3, <2>4, <3>3, <3>4 DEF TypesTracked, request
  <2> QED
    BY <1>2, <2>5, <2>6 DEF Detect
<1>3. ReturnError => TypesTracked'
  BY SameTypes DEF ReturnError, AtRequest
<1>4. CASE Start \/ SkipRefOnly \/ BuildDone \/ Generate \/ Return \/ FillOverlayFails
  <2>1. UNCHANGED <<app, requests, sourceType>> /\ ~AtRequest'
    BY <1>4 DEF Start, SkipRefOnly, Building, BuildDone, Generate, Return, FillOverlayFails,
                AtRequest
  <2> QED
    BY <2>1, SameTypes
<1>5. CASE MakeOverlay \/ FillOverlay \/ UNCHANGED vars
  <2>1. UNCHANGED <<app, requests, sourceType, i>> /\ (AtRequest' => AtRequest)
    BY <1>5 DEF MakeOverlay, FillOverlay, vars, AtRequest
  <2> QED
    BY <2>1, SameTypes
<1> QED
  BY <1>1, <1>2, <1>3, <1>4, <1>5
     DEF Next, StartFails, RejectSource, DownloadFails, NothingToRender, DetectFails,
         MakeOverlayFails, GenerateFails, ReturnFails

-----------------------------------------------------------------------------
LEMMA InitRefsDeclared == Init => RefsDeclared
  BY DEF Init, RefsDeclared

LEMMA NextRefsDeclared ==
  TypeOK /\ RefsDeclared /\ [Next]_vars => RefsDeclared'
<1> SUFFICES ASSUME TypeOK, RefsDeclared, [Next]_vars
             PROVE  RefsDeclared'
  OBVIOUS
<1> USE DEF input, output
<1>1. CASE AddRequest
  <2>1. NewRequest.source.helm = source.helm
    BY <1>1, NewRequestTyped DEF AddRequest, Building
  <2>2. requests' = Append(requests, NewRequest)
    BY <1>1 DEF AddRequest, NewRequest
  <2>3. app' = app
    BY <1>1 DEF AddRequest
  <2>4. multi /\ source.helm # NoBlock => source.helm.vars \subseteq DOMAIN targets
    BY <1>1 DEF AddRequest, Acceptable, validateRefs
  <2>5. \A k \in DOMAIN requests' :
          \/ k \in DOMAIN requests /\ requests'[k] = requests[k]
          \/ requests'[k] = NewRequest
    BY <2>2, RequestsTyped
  <2>6. multi' = multi /\ targets' = targets
    BY <2>3 DEF multi, targets
  <2> QED
    BY <2>1, <2>4, <2>5, <2>6 DEF RefsDeclared
<1>2. CASE Detect
  <2>1. requests[i] \in Requests /\ i \in DOMAIN requests /\ requests \in Seq(Requests)
    BY <1>2, RequestsTyped DEF Detect, request
  <2>2. multi' = multi /\ targets' = targets
    BY <1>2 DEF Detect, multi, targets
  <2>3. CASE requests' = requests
    BY <2>2, <2>3 DEF RefsDeclared
  <2>4. CASE requests' = [requests EXCEPT ![i] = SkippingTests(requests[i])]
    <3>1. \A k \in DOMAIN requests' :
            /\ k \in DOMAIN requests
            /\ \/ requests'[k] = requests[k]
               \/ k = i /\ requests'[k] = SkippingTests(requests[i])
      BY <2>1, <2>4
    <3>2. SkippingTests(requests[i]).source.helm.vars =
            IF requests[i].source.helm = NoBlock THEN {} ELSE requests[i].source.helm.vars
      BY <2>1, SkippingTestsTyped
    <3>3. ASSUME multi, NEW k \in DOMAIN requests', requests'[k].source.helm # NoBlock
          PROVE  requests'[k].source.helm.vars \subseteq DOMAIN targets
      <4>1. CASE requests'[k] = requests[k]
        BY <3>1, <3>3, <4>1 DEF RefsDeclared
      <4>2. CASE k = i /\ requests'[k] = SkippingTests(requests[i])
        BY <2>1, <3>2, <3>3, <4>2 DEF RefsDeclared
      <4> QED
        BY <3>1, <4>1, <4>2
    <3>4. multi' => \A k \in DOMAIN requests' :
                       requests'[k].source.helm # NoBlock =>
                         requests'[k].source.helm.vars \subseteq DOMAIN targets'
      BY <2>2, <3>3
    <3> QED
      BY <3>4 DEF RefsDeclared
  <2> QED
    BY <1>2, <2>3, <2>4 DEF Detect
<1>3. CASE UNCHANGED <<app, requests>>
  BY <1>3 DEF RefsDeclared, multi, targets
<1> QED
  BY <1>1, <1>2, <1>3
     DEF Next, vars, ReturnError, Start, StartFails, SkipRefOnly, RejectSource,
         DownloadFails, BuildDone, NothingToRender, DetectFails, MakeOverlay,
         MakeOverlayFails, FillOverlay, FillOverlayFails, Generate, GenerateFails,
         Return, ReturnFails

-----------------------------------------------------------------------------
LEMMA InitCalls == Init => CheckoutUntouched /\ SourceTypeKept /\ RefsResolve
  BY DEF Init, CheckoutUntouched, SourceTypeKept, RefsResolve

\* What the next call of GenerateManifests is like.
LEMMA CallSafe ==
  ASSUME RenderInv, pc = "generate"
  PROVE  /\ Call.type = "Kustomize" => Call.where = "overlay" /\ Call.exists
         /\ Call.type = NativeType(Call.index)
         /\ multi => Call.unresolved = {}
<1>1. /\ request \in Requests /\ i \in DOMAIN requests
      /\ GetAppSourceType(request.source, request.contents) = sourceType
      /\ NativeType(request.index) = sourceType
  <2>1. i <= Len(requests)
    BY DEF RenderInv, Progress, AtRequest
  <2>2. request \in Requests /\ i \in DOMAIN requests
    BY <2>1, RequestsTyped DEF RenderInv
  <2> QED
    BY <2>2 DEF RenderInv, TypesTracked, AtRequest, request
<1>2. GetAppSourceType(request.source, contents) = sourceType
  BY <1>1 DEF GetAppSourceType, contents
<1>3. Call.type = sourceType /\ Call.index = request.index
  BY <1>2 DEF Call
<1>4. Call.type = "Kustomize" => Call.where = "overlay" /\ Call.exists
  BY <1>3 DEF Call, RenderInv, OverlaysTracked
<1>5. multi => Call.unresolved = {}
  <2>1. multi /\ request.source.helm # NoBlock =>
          request.source.helm.vars \subseteq DOMAIN targets
    BY <1>1 DEF RenderInv, RefsDeclared, request
  <2>2. \A name \in DOMAIN targets : Resolves(name, targets, newRefPaths(targets))
    BY DEF Resolves, newRefPaths
  <2> QED
    BY <2>1, <2>2 DEF Call, unresolved
<1> QED
  BY <1>1, <1>3, <1>4, <1>5

LEMMA NextCalls ==
  RenderInv /\ [Next]_vars => CheckoutUntouched' /\ SourceTypeKept' /\ RefsResolve'
<1> SUFFICES ASSUME RenderInv, [Next]_vars
             PROVE  CheckoutUntouched' /\ SourceTypeKept' /\ RefsResolve'
  OBVIOUS
<1> USE DEF input, output
<1>1. app' = app
  BY DEF Next, vars, ReturnError, Start, StartFails, SkipRefOnly, RejectSource,
         AddRequest, DownloadFails, BuildDone, NothingToRender, Detect, DetectFails,
         MakeOverlay, MakeOverlayFails, FillOverlay, FillOverlayFails, Generate,
         GenerateFails, Return, ReturnFails
<1>2. (\A k : NativeType(k)' = NativeType(k)) /\ multi' = multi
  BY <1>1 DEF NativeType, multi
<1>3. CASE Generate
  <2>1. calls' = Append(calls, Call) /\ calls \in Seq(Calls)
    BY <1>3 DEF Generate, RenderInv, TypeOK, Calls
  <2>2. \A k \in DOMAIN calls' :
          \/ k \in DOMAIN calls /\ calls'[k] = calls[k]
          \/ calls'[k] = Call
    BY <2>1
  <2>3. /\ Call.type = "Kustomize" => Call.where = "overlay" /\ Call.exists
        /\ Call.type = NativeType(Call.index)
        /\ multi => Call.unresolved = {}
    BY <1>3, CallSafe DEF Generate
  <2>4. CheckoutUntouched'
    BY <2>2, <2>3 DEF CheckoutUntouched, RenderInv
  <2>5. SourceTypeKept'
    BY <1>2, <2>2, <2>3 DEF SourceTypeKept, RenderInv
  <2>6. RefsResolve'
    BY <1>2, <2>2, <2>3 DEF RefsResolve, RenderInv
  <2> QED
    BY <2>4, <2>5, <2>6
<1>4. CASE UNCHANGED calls
  BY <1>2, <1>4 DEF RenderInv, CheckoutUntouched, SourceTypeKept, RefsResolve
<1> QED
  BY <1>3, <1>4
     DEF Next, vars, ReturnError, Start, StartFails, SkipRefOnly, RejectSource,
         AddRequest, DownloadFails, BuildDone, NothingToRender, Detect, DetectFails,
         MakeOverlay, MakeOverlayFails, FillOverlay, FillOverlayFails, GenerateFails,
         Return, ReturnFails

-----------------------------------------------------------------------------
LEMMA InitRenderInv == Init => RenderInv
  BY InitTypeOK, InitProgress, InitOverlaysTracked, InitTypesTracked, InitRefsDeclared,
     InitCalls DEF RenderInv

LEMMA NextRenderInv == RenderInv /\ [Next]_vars => RenderInv'
  BY NextTypeOK, NextProgress, NextOverlaysTracked, NextTypesTracked, NextRefsDeclared,
     NextCalls DEF RenderInv

\* The inductive invariant holds throughout the rendering of any Application.
THEOREM Invariant == Spec => []RenderInv
  BY InitRenderInv, NextRenderInv, PTL DEF Spec

\* Each variable of renderApplication keeps to its type.
THEOREM TypeCorrect == Spec => []TypeOK
<1>1. RenderInv => TypeOK
  BY DEF RenderInv
<1> QED
  BY <1>1, Invariant, PTL

\* However many sources an Application has, and whichever step fails, no overlay
\* directory is left behind when renderApplication returns.
THEOREM OverlaysRemoved == Spec => []OverlaysReleased
<1>1. RenderInv => OverlaysReleased
  BY DEF RenderInv, OverlaysTracked, OverlaysReleased
<1> QED
  BY <1>1, Invariant, PTL

\* `kustomize edit` is never run in the checkout, whatever the sources hold.
THEOREM CheckoutSafe == Spec => []CheckoutUntouched
<1>1. RenderInv => CheckoutUntouched
  BY DEF RenderInv
<1> QED
  BY <1>1, Invariant, PTL

\* Dropping the tests of a chart never makes another tool render a source.
THEOREM TypesKept == Spec => []SourceTypeKept
<1>1. RenderInv => SourceTypeKept
  BY DEF RenderInv
<1> QED
  BY <1>1, Invariant, PTL

\* Whatever refs an Application declares and uses, and however its repository URLs
\* are spelled, no $name is rendered unresolved.
THEOREM RefsAlwaysResolve == Spec => []RefsResolve
<1>1. RenderInv => RefsResolve
  BY DEF RenderInv
<1> QED
  BY <1>1, Invariant, PTL

-----------------------------------------------------------------------------
\* What the tools rendered so far.
ManifestsTyped == manifests \in Seq(Objects)

LEMMA NextManifestsTyped == TypeOK /\ Progress /\ ManifestsTyped /\ [Next]_vars => ManifestsTyped'
<1> SUFFICES ASSUME TypeOK, Progress, ManifestsTyped, [Next]_vars PROVE ManifestsTyped'
  OBVIOUS
<1>1. CASE Generate
  <2>1. pc = "generate" /\ manifests' = manifests \o GenerateManifests(request, contents)
    BY <1>1 DEF Generate
  <2>2. ASSUME NEW r \in Requests, NEW holds
        PROVE  GenerateManifests(r, holds) \in Seq(Objects)
    <3>1. r.source.objs \in Seq(Objects) /\ r.source.tests \in Seq(Objects)
      BY DEF Requests, Sources
    <3> QED BY <3>1 DEF GenerateManifests
  <2>3. request \in Requests
    BY <2>1, RequestsTyped DEF Progress, AtRequest
  <2> QED BY <2>1, <2>2, <2>3 DEF ManifestsTyped
<1>2. CASE UNCHANGED manifests
  BY <1>2 DEF ManifestsTyped
<1> QED
  BY <1>1, <1>2
     DEF Next, vars, ReturnError, Start, StartFails, SkipRefOnly, RejectSource,
         AddRequest, DownloadFails, BuildDone, NothingToRender, Detect, DetectFails,
         MakeOverlay, MakeOverlayFails, FillOverlay, FillOverlayFails, GenerateFails,
         Return, ReturnFails

\* Once in place an object still has a type, a namespace and a name.
LEMMA PlacedTyped ==
  ASSUME NEW m \in Seq(Objects), NEW destination \in Nat
  PROVE  LET at == Placed(m, destination)
         IN  /\ DOMAIN at = 1 .. Len(m) /\ Len(m) \in Nat
             /\ \A j \in DOMAIN at : at[j].type \in Nat /\ at[j].ns \in Nat /\ at[j].name \in Nat
<1> DEFINE at == Placed(m, destination)
<1>1. DOMAIN at = 1 .. Len(m) /\ Len(m) \in Nat
  BY DEF Placed
<1>2. ASSUME NEW j \in DOMAIN at
      PROVE  at[j].type \in Nat /\ at[j].ns \in Nat /\ at[j].name \in Nat
  <2>1. m[j] \in Objects
    BY <1>1, ElementOfSeq
  <2>2. /\ {"type", "ns", "name"} \subseteq DOMAIN m[j]
        /\ m[j].type \in Nat /\ m[j].ns \in Nat /\ m[j].name \in Nat
    BY <2>1, ObjectAssumption
  <2>3. PICK ns \in Nat : at[j] = [m[j] EXCEPT !.ns = ns]
    BY <1>1, <2>2 DEF Placed, NoNs
  <2> QED BY <2>2, <2>3
<1> QED
  BY <1>1, <1>2

\* The keys sortObjects compares are numbers.
Keyed(o) == o.type \in Nat /\ o.ns \in Nat /\ o.name \in Nat

LEMMA BeforeTransitive ==
  ASSUME NEW x, NEW y, NEW z, Keyed(x), Keyed(y), Keyed(z), Before(x, y), Before(y, z)
  PROVE  Before(x, z)
  BY DEF Before, Keyed

\* Of objects that all have names no two that are kept compare equal.
LEMMA SortedOnce ==
  ASSUME NEW m \in Seq(Objects), NEW destination \in Nat,
         \A j \in DOMAIN Placed(m, destination) : Placed(m, destination)[j].name # NoName
  PROVE  Cardinality(SortedOrders(Placed(m, destination))) = 1
<1> DEFINE at == Placed(m, destination)
           K == Kept(at)
           R == {e \in K \X K : Before(at[e[1]], at[e[2]])}
<1>1. /\ DOMAIN at = 1 .. Len(m) /\ Len(m) \in Nat
      /\ \A j \in DOMAIN at : at[j].type \in Nat /\ at[j].ns \in Nat /\ at[j].name \in Nat
      /\ \A j \in DOMAIN at : at[j].name # NoName
  BY PlacedTyped
<1> HIDE DEF at
<1>2. K \subseteq DOMAIN at
  BY DEF Kept
<1>3. IsFiniteSet(K)
  <2>1. IsFiniteSet(DOMAIN at)
    BY <1>1, FS_Interval
  <2> HIDE DEF K
  <2> QED BY <1>2, <2>1, FS_Subset
<1>4. \A x, y \in K : <<x, y>> \in R <=> Before(at[x], at[y])
  OBVIOUS
<1>5. StrictlyOrders(R, K)
  <2> HIDE DEF R, K
  <2>1. \A x \in K : <<x, x>> \notin R
    BY <1>1, <1>2, <1>4 DEF Before
  <2>2. ASSUME NEW x \in K, NEW y \in K, NEW z \in K, Before(at[x], at[y]), Before(at[y], at[z])
        PROVE  Before(at[x], at[z])
    <3>1. Keyed(at[x]) /\ Keyed(at[y]) /\ Keyed(at[z])
      BY <1>1, <1>2 DEF Keyed
    <3> QED BY <2>2, <3>1, BeforeTransitive
  <2>3. ASSUME NEW x \in K, NEW y \in K, x # y, ~Before(at[x], at[y]), ~Before(at[y], at[x])
        PROVE  FALSE
    <3>1. at[x].type = at[y].type /\ at[x].ns = at[y].ns /\ at[x].name = at[y].name
      BY <1>1, <1>2, <2>3 DEF Before
    <3>2. SameResource(at, x, y) /\ SameResource(at, y, x)
      BY <1>1, <1>2, <3>1 DEF SameResource, ResourceKey
    <3>3. x > y \/ y > x
      BY <1>1, <1>2, <2>3
    <3> QED BY <1>2, <3>2, <3>3 DEF K, Kept
  <2> QED BY <1>4, <2>1, <2>2, <2>3 DEF StrictlyOrders
<1>6. \A o : o \in SortedOrders(at) <=> ListsInOrder(o, R, K)
  <2> DEFINE N == Cardinality(K)
  <2> HIDE DEF R, K, N
  <2>1. ASSUME NEW o \in [1 .. N -> K]
        PROVE  (\A p, q \in DOMAIN o : p < q => o[p] # o[q] /\ ~Before(at[o[q]], at[o[p]]))
                 <=> \A p, q \in 1 .. N : p < q => <<o[p], o[q]>> \in R
    <3>1. \A p, q \in 1 .. N :
            (o[p] # o[q] /\ ~Before(at[o[q]], at[o[p]])) <=> <<o[p], o[q]>> \in R
      BY <1>4, <1>5 DEF StrictlyOrders
    <3> QED BY <3>1
  <2> QED BY <2>1 DEF SortedOrders, ListsInOrder, K, N
<1> HIDE DEF R, K
<1>7. PICK o : ListsInOrder(o, R, K)
  BY <1>3, <1>5, ListExists
<1>8. \A p : ListsInOrder(p, R, K) => p = o
  BY <1>3, <1>5, <1>7, ListUnique
<1>9. SortedOrders(at) = {o}
  BY <1>6, <1>7, <1>8
<1> QED
  BY <1>9, FS_Singleton DEF at

\* As long as every object of an Application has a name, sorting them leaves one order:
\* a run does not depend on that of the map NormalizeTargetObjects goes through.
THEOREM OneOrder == Spec => []NamedObjectsStable
<1>1. Init => ManifestsTyped
  BY DEF Init, ManifestsTyped
<1>2. RenderInv /\ ManifestsTyped /\ [Next]_vars => ManifestsTyped'
  BY NextManifestsTyped DEF RenderInv
<1>3. RenderInv /\ ManifestsTyped => NamedObjectsStable
  <2> SUFFICES ASSUME RenderInv, ManifestsTyped, \A j \in DOMAIN placed : placed[j].name # NoName
               PROVE  Cardinality(SortedOrders(placed)) = 1
    BY DEF NamedObjectsStable
  <2>1. app.destination \in Nat
    BY ApplicationAssumption DEF RenderInv, TypeOK
  <2> QED BY <2>1, SortedOnce DEF placed, ManifestsTyped
<1> QED
  BY <1>1, <1>2, <1>3, Invariant, PTL DEF Spec

-----------------------------------------------------------------------------
\* The sources that render are those a request is built for.
LEMMA RenderedAre ==
  ASSUME TypeOK
  PROVE  /\ Contract!Rendered(app) = {j \in 1 .. Len(app.sources) : ~isRefOnlySource(app.sources[j], multi)}
         /\ DOMAIN app.sources = 1 .. Len(app.sources) /\ Len(app.sources) \in Nat
<1>1. DOMAIN app.sources = 1 .. Len(app.sources) /\ Len(app.sources) \in Nat
  BY SourcesTyped DEF TypeOK
<1> QED
  BY <1>1 DEF Contract!Rendered, Contract!isRefOnlySource, isRefOnlySource, multi,
              Contract!Multi, Multi, Contract!IsRef, IsRef, Contract!IsHelm, IsHelm

\* A step that leaves the Application and the indexes of the requests alone.
LEMMA SameRequested ==
  ASSUME app' = app, DOMAIN requests' = DOMAIN requests,
         \A k \in DOMAIN requests : requests'[k].index = requests[k].index,
         NEW n, Requested(n)
  PROVE  /\ \A j \in 1 .. n : SourceChecked(j)'
         /\ {requests'[k].index : k \in DOMAIN requests'} = {j \in Contract!Rendered(app') : j <= n}
         /\ \A k, l \in DOMAIN requests' : k < l => requests'[k].index < requests'[l].index
<1>1. \A j : SourceChecked(j)' = SourceChecked(j)
  BY DEF SourceChecked, multi, targets
<1> QED
  BY <1>1 DEF Requested

LEMMA InitSourcesTracked == Init => SourcesTracked
  BY DEF Init, SourcesTracked, Looping

LEMMA NextSourcesTracked ==
  TypeOK /\ Progress /\ SourcesTracked /\ [Next]_vars => SourcesTracked'
<1> SUFFICES ASSUME TypeOK, Progress, SourcesTracked, [Next]_vars
             PROVE  SourcesTracked'
  OBVIOUS
<1> USE DEF input, output
<1>a. app' = app
  BY DEF Next, vars, ReturnError, Start, StartFails, SkipRefOnly, RejectSource,
         AddRequest, DownloadFails, BuildDone, NothingToRender, Detect, DetectFails,
         MakeOverlay, MakeOverlayFails, FillOverlay, FillOverlayFails, Generate,
         GenerateFails, Return, ReturnFails
<1>b. /\ Contract!Rendered(app) = {j \in 1 .. Len(app.sources) : ~isRefOnlySource(app.sources[j], multi)}
      /\ Len(app.sources) \in Nat /\ i \in Nat \ {0}
  BY RenderedAre DEF TypeOK
<1>c. \A j : SourceChecked(j)' = SourceChecked(j)
  BY <1>a DEF SourceChecked, multi, targets
<1>e. ReturnError \/ FillOverlayFails \/ Return => SourcesTracked'
  BY DEF ReturnError, FillOverlayFails, Return, SourcesTracked, Looping
<1>1. CASE Start
  <2>1. requests' = <<>> /\ i' = 1 /\ pc' = "build" /\ ~refTargetsFails(app.sources)
    BY <1>1 DEF Start, Progress, SourcesTracked
  <2>2. {j \in Contract!Rendered(app) : j <= 0} = {}
    BY <1>b
  <2> QED BY <1>a, <1>b, <2>1, <2>2 DEF SourcesTracked, Requested, Looping
<1>2. CASE SkipRefOnly
  <2>1. /\ pc = "build" /\ pc' = "build" /\ requests' = requests /\ i' = i + 1
        /\ i <= Len(app.sources) /\ source.repo # NoRepo /\ isRefOnlySource(source, multi)
        /\ Requested(i - 1) /\ ~refTargetsFails(app.sources)
    BY <1>2 DEF SkipRefOnly, Building, SourcesTracked
  <2>2. SourceChecked(i)
    BY <2>1 DEF SourceChecked, source
  <2>3. \A j \in 1 .. i : SourceChecked(j)
    BY <1>b, <2>1, <2>2 DEF Requested
  <2>4. i \notin Contract!Rendered(app)
    BY <1>b, <2>1 DEF source
  <2>5. {j \in Contract!Rendered(app) : j <= i - 1} = {j \in Contract!Rendered(app) : j <= i}
    BY <1>b, <2>4
  <2>6. i' - 1 = i /\ i' <= Len(app'.sources) + 1
    BY <1>a, <1>b, <2>1
  <2> QED BY <1>a, <1>c, <2>1, <2>3, <2>5, <2>6 DEF SourcesTracked, Requested, Looping
<1>3. CASE AddRequest
  <2>1. /\ pc = "build" /\ pc' = "build" /\ requests' = Append(requests, NewRequest) /\ i' = i + 1
        /\ i <= Len(app.sources) /\ Acceptable
        /\ Requested(i - 1) /\ ~refTargetsFails(app.sources)
    BY <1>3 DEF AddRequest, Building, SourcesTracked, NewRequest
  <2>2. SourceChecked(i)
    BY <2>1 DEF SourceChecked, Acceptable, source
  <2>3. \A j \in 1 .. i : SourceChecked(j)
    BY <1>b, <2>1, <2>2 DEF Requested
  <2>4. i \in Contract!Rendered(app)
    BY <1>b, <2>1 DEF source, Acceptable
  <2>5. {j \in Contract!Rendered(app) : j <= i}
          = {j \in Contract!Rendered(app) : j <= i - 1} \union {i}
    BY <1>b, <2>4
  <2>6. i' - 1 = i /\ i' <= Len(app'.sources) + 1
    BY <1>a, <1>b, <2>1
  <2>7. NewRequest.index = i /\ requests \in Seq(Requests) /\ NewRequest \in Requests
        /\ DOMAIN requests = 1 .. Len(requests)
    BY <2>1, NewRequestTyped, RequestsTyped
  <2>8. /\ DOMAIN requests' = DOMAIN requests \union {Len(requests) + 1}
        /\ Len(requests) \in Nat
        /\ \A k \in DOMAIN requests : requests'[k].index = requests[k].index
        /\ requests'[Len(requests) + 1].index = i
    BY <2>1, <2>7
  <2>9. \A k \in DOMAIN requests : requests[k].index \in {j \in Contract!Rendered(app) : j <= i - 1}
    BY <2>1 DEF Requested
  <2>10. {requests'[k].index : k \in DOMAIN requests'} = {j \in Contract!Rendered(app) : j <= i}
    <3>1. {requests'[k].index : k \in DOMAIN requests'}
            = {requests[k].index : k \in DOMAIN requests} \union {i}
      BY <2>8
    <3> QED BY <2>1, <2>5, <3>1 DEF Requested
  <2>11. \A k, l \in DOMAIN requests' : k < l => requests'[k].index < requests'[l].index
    <3> SUFFICES ASSUME NEW k \in DOMAIN requests', NEW l \in DOMAIN requests', k < l
                 PROVE  requests'[k].index < requests'[l].index
      OBVIOUS
    <3>1. k \in DOMAIN requests
      BY <2>7, <2>8
    <3>2. CASE l \in DOMAIN requests
      BY <2>1, <2>8, <3>1, <3>2 DEF Requested
    <3>3. CASE l = Len(requests) + 1
      BY <1>b, <2>8, <2>9, <3>1, <3>3
    <3> QED BY <2>8, <3>2, <3>3
  <2> QED BY <1>a, <1>c, <2>1, <2>3, <2>6, <2>10, <2>11 DEF SourcesTracked, Requested, Looping
<1>4. CASE BuildDone
  <2>1. i - 1 = Len(app.sources) /\ Requested(i - 1) /\ requests' = requests
        /\ requests # <<>> /\ pc' = "detect" /\ ~refTargetsFails(app.sources)
    BY <1>4, <1>b DEF BuildDone, SourcesTracked
  <2>2. Requested(Len(app.sources))
    BY <2>1, Zenon
  <2> QED BY <1>a, <1>c, <2>1, <2>2 DEF SourcesTracked, Requested, Looping
<1>5. CASE Detect
  <2>1. requests \in Seq(Requests) /\ i \in DOMAIN requests /\ requests[i] \in Requests
    BY <1>5, RequestsTyped DEF Detect, request
  <2>2. SkippingTests(requests[i]).index = requests[i].index
    BY <2>1, SkippingTestsTyped
  <2>3. DOMAIN requests' = DOMAIN requests
        /\ \A k \in DOMAIN requests : requests'[k].index = requests[k].index
    BY <1>5, <2>1, <2>2 DEF Detect
  <2>4. pc' \in {"overlay", "generate"} /\ Requested(Len(app.sources)) /\ ~refTargetsFails(app.sources)
    BY <1>5 DEF Detect, SourcesTracked, Looping
  <2>5. requests' # <<>>
    BY <2>1, <2>3
  <2> QED BY <1>a, <2>3, <2>4, <2>5, SameRequested DEF SourcesTracked, Requested, Looping
<1>6. CASE MakeOverlay \/ FillOverlay \/ Generate \/ UNCHANGED vars
  <2>1. requests' = requests /\ (pc' = pc \/ (Looping /\ Looping' /\ pc' # "build"))
    BY <1>6 DEF MakeOverlay, FillOverlay, Generate, vars, Looping
  <2>2. pc = "build" \/ pc = "start" => i' = i /\ pc' = pc
    BY <1>6 DEF MakeOverlay, FillOverlay, Generate, vars
  <2> QED BY <1>a, <1>c, <2>1, <2>2 DEF SourcesTracked, Requested, Looping
<1> QED
  BY <1>e, <1>1, <1>2, <1>3, <1>4, <1>5, <1>6
     DEF Next, StartFails, RejectSource, DownloadFails, NothingToRender, DetectFails,
         MakeOverlayFails, GenerateFails, ReturnFails

-----------------------------------------------------------------------------
LEMMA InitTestsTracked == Init => TestsTracked
  BY DEF Init, TestsTracked, AtRequest

\* What it says of one request.
RendersSource(r) ==
  LET s == app.sources[r.index]
  IN  /\ r.source.objs = s.objs /\ r.source.tests = s.tests
      /\ \/ r.source.helm = s.helm
         \/ ~opts.includeTests /\ r.source.helm # NoBlock /\ r.source.helm.skipTests

LEMMA NextTestsTracked ==
  TypeOK /\ Progress /\ TestsTracked /\ [Next]_vars => TestsTracked'
<1> SUFFICES ASSUME TypeOK, Progress, TestsTracked, [Next]_vars
             PROVE  TestsTracked'
  OBVIOUS
<1> USE DEF input, output
<1>a. app' = app /\ opts' = opts
  BY DEF Next, vars, ReturnError, Start, StartFails, SkipRefOnly, RejectSource,
         AddRequest, DownloadFails, BuildDone, NothingToRender, Detect, DetectFails,
         MakeOverlay, MakeOverlayFails, FillOverlay, FillOverlayFails, Generate,
         GenerateFails, Return, ReturnFails
<1>b. \A k \in DOMAIN requests : RendersSource(requests[k])
  BY DEF TestsTracked, RendersSource
<1>1. CASE AddRequest
  <2>1. /\ requests' = Append(requests, NewRequest) /\ ~AtRequest'
        /\ requests \in Seq(Requests) /\ i <= Len(app.sources)
    BY <1>1, RequestsTyped DEF AddRequest, Building, AtRequest, NewRequest
  <2>2. RendersSource(NewRequest)
    <3>1. source \in Sources /\ app.sources[i] = source
      BY <2>1, SourcesTyped DEF TypeOK, source
    <3>2. CASE IsHelm(source)
      <4> DEFINE s == [source EXCEPT !.path = "inside", !.chart = NoChart]
      <4>1. s.objs = source.objs /\ s.tests = source.tests /\ s.helm = source.helm
        BY <3>1 DEF Sources
      <4>2. NewRequest.index = i /\ NewRequest.source = s
        BY <3>2 DEF NewRequest
      <4> HIDE DEF s
      <4> QED BY <3>1, <4>1, <4>2 DEF RendersSource
    <3>3. CASE ~IsHelm(source)
      BY <3>1, <3>3 DEF RendersSource, NewRequest
    <3> QED BY <3>2, <3>3
  <2>3. \A k \in DOMAIN requests' : RendersSource(requests'[k])
    <3>1. \A k \in DOMAIN requests' :
            (k \in DOMAIN requests /\ requests'[k] = requests[k]) \/ requests'[k] = NewRequest
      BY <2>1
    <3> QED BY <1>b, <2>2, <3>1
  <2> QED BY <1>a, <2>1, <2>3 DEF TestsTracked, RendersSource
<1>2. CASE Detect
  <2>1. requests \in Seq(Requests) /\ i \in DOMAIN requests /\ requests[i] \in Requests
    BY <1>2, RequestsTyped DEF Detect, request
  <2>2. CASE requests' = requests /\ (opts.includeTests \/ sourceType' # "Helm")
    BY <1>a, <2>2 DEF TestsTracked
  <2>3. CASE /\ requests' = [requests EXCEPT ![i] = SkippingTests(requests[i])]
             /\ ~opts.includeTests
    <3> DEFINE r == SkippingTests(requests[i])
    <3>1. /\ r.index = requests[i].index
          /\ r.source.helm # NoBlock /\ r.source.helm.skipTests
      BY <2>1, SkippingTestsTyped
    <3>2. r.source.objs = requests[i].source.objs /\ r.source.tests = requests[i].source.tests
      <4>1. requests[i].source \in Sources
        BY <2>1 DEF Requests
      <4>2. PICK block : r = [requests[i] EXCEPT !.source = [requests[i].source EXCEPT !.helm = block]]
        BY DEF SkippingTests
      <4>3. r.source = [requests[i].source EXCEPT !.helm = block]
        BY <2>1, <4>2 DEF Requests
      <4> QED BY <4>1, <4>3 DEF Sources
    <3> HIDE DEF r
    <3>3. RendersSource(r)
      BY <1>b, <2>1, <2>3, <3>1, <3>2 DEF RendersSource
    <3>4. \A k \in DOMAIN requests' :
            k \in DOMAIN requests /\ (requests'[k] = requests[k] \/ requests'[k] = r)
      BY <2>1, <2>3 DEF r
    <3>5. \A k \in DOMAIN requests' : RendersSource(requests'[k])
      BY <1>b, <3>3, <3>4
    <3>6. requests'[i'] = r
      BY <1>2, <2>1, <2>3 DEF Detect, r
    <3> QED BY <1>a, <3>1, <3>5, <3>6 DEF TestsTracked, RendersSource, request
  <2> QED BY <1>2, <2>2, <2>3 DEF Detect
<1>3. ReturnError \/ Start \/ SkipRefOnly \/ BuildDone \/ Generate \/ Return \/ FillOverlayFails
        => TestsTracked'
  <2> SUFFICES ASSUME ReturnError \/ Start \/ SkipRefOnly \/ BuildDone \/ Generate \/ Return
                        \/ FillOverlayFails
               PROVE  TestsTracked'
    OBVIOUS
  <2>1. requests' = requests /\ ~AtRequest'
    BY DEF ReturnError, Start, SkipRefOnly, Building, BuildDone, Generate, Return,
           FillOverlayFails, AtRequest
  <2> QED BY <1>a, <2>1 DEF TestsTracked
<1>4. CASE MakeOverlay \/ FillOverlay \/ UNCHANGED vars
  <2>1. UNCHANGED <<requests, sourceType, i>> /\ (AtRequest' => AtRequest)
    BY <1>4 DEF MakeOverlay, FillOverlay, vars, AtRequest
  <2> QED BY <1>a, <2>1 DEF TestsTracked, request
<1> QED
  BY <1>1, <1>2, <1>3, <1>4
     DEF Next, StartFails, RejectSource, DownloadFails, NothingToRender, DetectFails,
         MakeOverlayFails, GenerateFails, ReturnFails

-----------------------------------------------------------------------------
\* What rendering source j comes to.
Extra(a, o, j) ==
  IF Contract!IsChart(a.sources[j]) /\ Contract!KeepsTests(a.sources[j], o)
  THEN a.sources[j].tests ELSE <<>>
Produced(a, o, j) == a.sources[j].objs \o Extra(a, o, j)

LEMMA ProducedTyped ==
  ASSUME NEW a \in Applications, NEW o, NEW j \in DOMAIN a.sources
  PROVE  /\ a.sources[j].objs \in Seq(Objects) /\ Extra(a, o, j) \in Seq(Objects)
         /\ Produced(a, o, j) \in Seq(Objects) /\ j \in Nat
<1>1. a.sources \in Seq(Sources)
  BY ApplicationAssumption
<1>2. j \in Nat /\ a.sources[j] \in Sources
  BY <1>1, ElementOfSeq
<1>3. a.sources[j].objs \in Seq(Objects) /\ a.sources[j].tests \in Seq(Objects)
  BY <1>2 DEF Sources
<1>4. Extra(a, o, j) \in Seq(Objects)
  BY <1>3 DEF Extra
<1> QED
  BY <1>2, <1>3, <1>4 DEF Produced

\* What a source renders to is what the contract has it emit, in order.
LEMMA ProducedListed ==
  ASSUME NEW a \in Applications, NEW o, NEW j \in Contract!Rendered(a)
  PROVE  \E g : ListsEmissions(g, Produced(a, o, j), a, o, {j})
<1> DEFINE s == a.sources[j].objs
           t == Extra(a, o, j)
           u == Produced(a, o, j)
           those == {e \in Contract!Emissions(a, o) : e[1] \in {j}}
           g == [n \in DOMAIN u |-> IF n <= Len(s) THEN <<j, 1, n>> ELSE <<j, 2, n - Len(s)>>]
<1>1. j \in DOMAIN a.sources
  BY DEF Contract!Rendered
<1>2. s \in Seq(Objects) /\ t \in Seq(Objects) /\ u = s \o t /\ j \in Nat
  BY <1>1, ProducedTyped DEF Produced
<1>3. \A e : e \in those <=> \/ \E n \in DOMAIN s : e = <<j, 1, n>>
                             \/ \E n \in DOMAIN t : e = <<j, 2, n>>
  BY DEF Contract!Emissions, Extra
<1> HIDE DEF s, t, u, those
<1>4. /\ DOMAIN s = 1 .. Len(s) /\ DOMAIN t = 1 .. Len(t) /\ Len(s) \in Nat /\ Len(t) \in Nat
      /\ DOMAIN u = 1 .. (Len(s) + Len(t))
      /\ \A n \in DOMAIN u : u[n] = IF n <= Len(s) THEN s[n] ELSE t[n - Len(s)]
  BY <1>2, ConcatProperties, LenProperties
<1>5. g \in [DOMAIN u -> those]
  BY <1>3, <1>4
<1>6. \A e \in those : \E p \in DOMAIN u : g[p] = e
  <2> SUFFICES ASSUME NEW e \in those PROVE \E p \in DOMAIN u : g[p] = e
    OBVIOUS
  <2>1. CASE \E n \in DOMAIN s : e = <<j, 1, n>>
    BY <1>4, <2>1
  <2>2. CASE \E n \in DOMAIN t : e = <<j, 2, n>>
    <3>1. PICK n \in DOMAIN t : e = <<j, 2, n>>
      BY <2>2
    <3>2. Len(s) + n \in DOMAIN u /\ ~(Len(s) + n <= Len(s)) /\ (Len(s) + n) - Len(s) = n
      BY <1>4
    <3> QED BY <3>1, <3>2
  <2> QED BY <1>3, <2>1, <2>2
<1>7. \A p, q \in DOMAIN u : p < q => Contract!Later(g[q], g[p])
  BY <1>4 DEF Contract!Later
<1>8. \A p \in DOMAIN u : u[p] = Contract!Emitted(a, g[p])
  <2> SUFFICES ASSUME NEW p \in DOMAIN u PROVE u[p] = Contract!Emitted(a, g[p])
    OBVIOUS
  <2>1. CASE p <= Len(s)
    <3>1. g[p] = <<j, 1, p>> /\ u[p] = s[p]
      BY <1>4, <2>1
    <3> QED BY <3>1 DEF Contract!Emitted, s
  <2>2. CASE ~(p <= Len(s))
    <3>1. g[p] = <<j, 2, p - Len(s)>> /\ u[p] = t[p - Len(s)] /\ p - Len(s) \in DOMAIN t
      BY <1>4, <2>2
    <3>2. t = a.sources[j].tests
      BY <3>1 DEF t, Extra
    <3> QED BY <3>1, <3>2 DEF Contract!Emitted
  <2> QED BY <2>1, <2>2
<1>9. ListsEmissions(g, u, a, o, {j})
  BY <1>5, <1>6, <1>7, <1>8 DEF ListsEmissions, those
<1> HIDE DEF g
<1> QED
  BY <1>9 DEF u

\* Two listings after one another, the second one of a source that comes later.
LEMMA ListingsConcat ==
  ASSUME NEW a, NEW o, NEW js \in SUBSET Nat, NEW j \in Nat, \A k \in js : k < j,
         NEW m \in Seq(Objects), NEW u \in Seq(Objects),
         NEW h, ListsEmissions(h, m, a, o, js), NEW g, ListsEmissions(g, u, a, o, {j})
  PROVE  \E f : ListsEmissions(f, m \o u, a, o, js \union {j})
<1> DEFINE E == Contract!Emissions(a, o)
           those == {e \in E : e[1] \in js}
           these == {e \in E : e[1] \in {j}}
           all == {e \in E : e[1] \in js \union {j}}
           n == m \o u
           f == [p \in DOMAIN n |-> IF p <= Len(m) THEN h[p] ELSE g[p - Len(m)]]
<1>1. /\ h \in [DOMAIN m -> those]
      /\ \A e \in those : \E p \in DOMAIN m : h[p] = e
      /\ \A p, q \in DOMAIN m : p < q => Contract!Later(h[q], h[p])
      /\ \A p \in DOMAIN m : m[p] = Contract!Emitted(a, h[p])
  BY DEF ListsEmissions
<1>2. /\ g \in [DOMAIN u -> these]
      /\ \A e \in these : \E p \in DOMAIN u : g[p] = e
      /\ \A p, q \in DOMAIN u : p < q => Contract!Later(g[q], g[p])
      /\ \A p \in DOMAIN u : u[p] = Contract!Emitted(a, g[p])
  BY DEF ListsEmissions
<1>3. /\ \A e : e \in all <=> e \in those \/ e \in these
      /\ \A e \in those, d \in these : Contract!Later(d, e)
  BY DEF Contract!Later
<1> HIDE DEF E, those, these, all, n
<1>4. /\ DOMAIN m = 1 .. Len(m) /\ DOMAIN u = 1 .. Len(u) /\ Len(m) \in Nat /\ Len(u) \in Nat
      /\ DOMAIN n = 1 .. (Len(m) + Len(u))
      /\ \A p \in DOMAIN n : n[p] = IF p <= Len(m) THEN m[p] ELSE u[p - Len(m)]
  BY ConcatProperties, LenProperties DEF n
<1>5. /\ \A p \in DOMAIN m : p \in DOMAIN n /\ f[p] = h[p] /\ n[p] = m[p]
      /\ \A p \in DOMAIN u : /\ Len(m) + p \in DOMAIN n
                             /\ f[Len(m) + p] = g[p] /\ n[Len(m) + p] = u[p]
      /\ \A p \in DOMAIN n : p \in DOMAIN m \/ \E q \in DOMAIN u : p = Len(m) + q
  <2>1. \A p \in DOMAIN n : p \in DOMAIN m \/ p - Len(m) \in DOMAIN u
    BY <1>4
  <2>2. \A p \in DOMAIN n : p = Len(m) + (p - Len(m))
    BY <1>4
  <2>3. \A p \in DOMAIN u : ~(Len(m) + p <= Len(m)) /\ (Len(m) + p) - Len(m) = p
    BY <1>4
  <2> QED BY <1>4, <2>1, <2>2, <2>3
<1> HIDE DEF f
<1>6. f \in [DOMAIN n -> all]
  <2>1. DOMAIN f = DOMAIN n /\ f = [p \in DOMAIN f |-> f[p]]
    BY DEF f
  <2>2. \A p \in DOMAIN n : f[p] \in all
    BY <1>1, <1>2, <1>3, <1>5
  <2> QED BY <2>1, <2>2
<1>7. \A e \in all : \E p \in DOMAIN n : f[p] = e
  <2> SUFFICES ASSUME NEW e \in all PROVE \E p \in DOMAIN n : f[p] = e
    OBVIOUS
  <2>1. CASE e \in those
    BY <1>1, <1>5, <2>1
  <2>2. CASE e \in these
    <3>1. PICK p \in DOMAIN u : g[p] = e
      BY <1>2, <2>2
    <3> QED BY <1>5, <3>1
  <2> QED BY <1>3, <2>1, <2>2
<1>8. \A p, q \in DOMAIN n : p < q => Contract!Later(f[q], f[p])
  <2> SUFFICES ASSUME NEW p \in DOMAIN n, NEW q \in DOMAIN n, p < q
               PROVE  Contract!Later(f[q], f[p])
    OBVIOUS
  <2>1. CASE q \in DOMAIN m
    <3>1. p \in DOMAIN m
      BY <1>4, <2>1
    <3> QED BY <1>1, <1>5, <2>1, <3>1
  <2>2. CASE p \in DOMAIN m /\ q \notin DOMAIN m
    <3>1. f[p] \in those /\ f[q] \in these
      BY <1>1, <1>2, <1>5, <2>2
    <3> QED BY <1>3, <3>1
  <2>3. CASE p \notin DOMAIN m /\ q \notin DOMAIN m
    <3>1. PICK k \in DOMAIN u, l \in DOMAIN u : p = Len(m) + k /\ q = Len(m) + l
      BY <1>5, <2>3
    <3>2. k < l
      BY <1>4, <3>1
    <3> QED BY <1>2, <1>5, <3>1, <3>2
  <2> QED BY <2>1, <2>2, <2>3
<1>9. \A p \in DOMAIN n : n[p] = Contract!Emitted(a, f[p])
  <2> SUFFICES ASSUME NEW p \in DOMAIN n PROVE n[p] = Contract!Emitted(a, f[p])
    OBVIOUS
  <2>1. CASE p \in DOMAIN m
    BY <1>1, <1>5, <2>1
  <2>2. ASSUME NEW q \in DOMAIN u, p = Len(m) + q PROVE n[p] = Contract!Emitted(a, f[p])
    BY <1>2, <1>5, <2>2
  <2> QED BY <1>5, <2>1, <2>2
<1>10. ListsEmissions(f, n, a, o, js \union {j})
  BY <1>6, <1>7, <1>8, <1>9 DEF ListsEmissions, all, E
<1> QED
  BY <1>10 DEF n

\* The call at hand generates what its source is to emit.
LEMMA GeneratesProduced ==
  ASSUME RenderInv, TestsTracked, pc = "generate"
  PROVE  GenerateManifests(request, contents) = Produced(app, opts, request.index)
<1> DEFINE j == request.index
           s == app.sources[j]
<1>1. request \in Requests /\ i \in DOMAIN requests /\ request = requests[i]
  BY RequestsTyped DEF RenderInv, Progress, AtRequest, request
<1>2. GetAppSourceType(request.source, contents) = NativeType(j) /\ sourceType = NativeType(j)
  <2>1. Call.type = NativeType(Call.index)
    BY CallSafe
  <2>2. sourceType = NativeType(request.index)
    BY DEF RenderInv, TypesTracked, AtRequest
  <2> QED BY <2>1, <2>2 DEF Call
<1>3. NativeType(j) = "Helm" <=> Contract!IsChart(s)
  BY DEF NativeType, GetAppSourceType, Contract!IsChart, IsHelm
<1>4. /\ request.source.objs = s.objs /\ request.source.tests = s.tests
      /\ \/ request.source.helm = s.helm
         \/ ~opts.includeTests /\ request.source.helm # NoBlock /\ request.source.helm.skipTests
  BY <1>1 DEF TestsTracked
<1>5. NativeType(j) = "Helm" /\ ~opts.includeTests =>
        request.source.helm # NoBlock /\ request.source.helm.skipTests
  BY <1>2 DEF TestsTracked, AtRequest
<1>6. s.objs \in Seq(Objects)
  BY <1>1, ProducedTyped DEF Requests, RenderInv, TypeOK
<1> HIDE DEF s, j
<1>7. NativeType(j) = "Helm" =>
        ((request.source.helm = NoBlock \/ ~request.source.helm.skipTests)
           <=> Contract!KeepsTests(s, opts))
  BY <1>4, <1>5 DEF Contract!KeepsTests
<1>8. GenerateManifests(request, contents)
        = IF NativeType(j) = "Helm" /\ (request.source.helm = NoBlock \/ ~request.source.helm.skipTests)
          THEN request.source.objs \o request.source.tests ELSE request.source.objs
  BY <1>2 DEF GenerateManifests, j
<1>9. Produced(app, opts, j) = s.objs \o (IF Contract!IsChart(s) /\ Contract!KeepsTests(s, opts)
                                           THEN s.tests ELSE <<>>)
  BY DEF Produced, Extra, s
<1>10. s.objs \o <<>> = s.objs
  BY <1>6
<1> QED
  BY <1>3, <1>4, <1>7, <1>8, <1>9, <1>10 DEF j

-----------------------------------------------------------------------------
LEMMA InitManifestsTracked == Init => ManifestsTracked
  BY DEF Init, ManifestsTracked, Looping

\* A step of the loop that generates nothing.
LEMMA SameManifests ==
  ASSUME ManifestsTracked, Looping, UNCHANGED <<app, opts, manifests, i>>,
         \A k \in 1 .. (i - 1) : requests'[k].index = requests[k].index,
         pc' \notin {"start", "build"}
  PROVE  ManifestsTracked'
<1>1. {requests'[k].index : k \in 1 .. (i' - 1)} = {requests[k].index : k \in 1 .. (i - 1)}
  OBVIOUS
<1> QED
  BY <1>1, Zenon DEF ManifestsTracked

LEMMA NextManifestsTracked ==
  RenderInv /\ SourcesTracked /\ TestsTracked /\ ManifestsTyped /\ ManifestsTracked /\ [Next]_vars
    => ManifestsTracked'
<1> SUFFICES ASSUME RenderInv, SourcesTracked, TestsTracked, ManifestsTyped, ManifestsTracked,
                    [Next]_vars
             PROVE  ManifestsTracked'
  OBVIOUS
<1> USE DEF input, output
<1>i. /\ i \in Nat \ {0} /\ requests \in Seq(Requests) /\ app \in Applications
      /\ DOMAIN requests = 1 .. Len(requests) /\ Len(requests) \in Nat
  BY RequestsTyped DEF RenderInv, TypeOK
<1>1. CASE Start \/ SkipRefOnly \/ AddRequest
  BY <1>1 DEF Start, SkipRefOnly, AddRequest, Building, ManifestsTracked, Looping
<1>2. CASE BuildDone
  <2>1. manifests' = <<>> /\ i' = 1 /\ pc' = "detect"
    BY <1>2 DEF BuildDone, ManifestsTracked
  <2>2. {requests'[k].index : k \in 1 .. (i' - 1)} = {}
    BY <2>1
  <2> DEFINE h == [p \in {} |-> p]
  <2>3. ListsEmissions(h, <<>>, app', opts', {}) /\ h \in [DOMAIN <<>> -> Contract!Emissions(app', opts')]
    BY DEF ListsEmissions
  <2> QED BY <2>1, <2>2, <2>3 DEF ManifestsTracked
<1>3. CASE Detect
  <2>1. i \in DOMAIN requests /\ requests[i] \in Requests
    BY <1>3, RequestsTyped DEF Detect, RenderInv, request
  <2>2. \A k \in 1 .. (i - 1) : requests'[k].index = requests[k].index
    BY <1>3, <1>i, <2>1 DEF Detect
  <2>3. Looping /\ UNCHANGED <<app, opts, manifests, i>> /\ pc' \notin {"start", "build"}
    BY <1>3 DEF Detect, Looping
  <2> QED BY <2>2, <2>3, SameManifests
<1>4. CASE MakeOverlay \/ FillOverlay
  <2>1. Looping /\ UNCHANGED <<app, opts, manifests, requests, i>> /\ pc' \notin {"start", "build"}
    BY <1>4 DEF MakeOverlay, FillOverlay, Looping
  <2> QED BY <2>1, SameManifests
<1>5. CASE Generate
  <2> DEFINE js == {requests[k].index : k \in 1 .. (i - 1)}
             j == request.index
             u == Produced(app, opts, j)
  <2>1. /\ pc = "generate" /\ pc' = "detect" /\ i' = i + 1 /\ UNCHANGED <<app, opts, requests>>
        /\ manifests' = manifests \o GenerateManifests(request, contents)
    BY <1>5 DEF Generate
  <2>2. manifests' = manifests \o u
    BY <2>1, GeneratesProduced
  <2>3. i \in DOMAIN requests /\ request = requests[i]
    BY <1>i, <2>1 DEF RenderInv, Progress, AtRequest, request
  <2>4. /\ \A k \in DOMAIN requests : requests[k].index \in Contract!Rendered(app)
        /\ \A k, l \in DOMAIN requests : k < l => requests[k].index < requests[l].index
    BY <2>1 DEF SourcesTracked, Looping, Requested
  <2>5. j \in Contract!Rendered(app) /\ \A k \in js : k < j
    BY <1>i, <2>3, <2>4
  <2>6. Contract!Rendered(app) \subseteq Nat
    BY RenderedAre DEF RenderInv
  <2>7. js \in SUBSET Nat /\ j \in Nat
    BY <1>i, <2>3, <2>4, <2>5, <2>6
  <2>8. PICK h : ListsEmissions(h, manifests, app, opts, js)
    BY <2>1 DEF ManifestsTracked, Looping
  <2>9. PICK g : ListsEmissions(g, u, app, opts, {j})
    BY <1>i, <2>5, ProducedListed
  <2>10. u \in Seq(Objects) /\ manifests \in Seq(Objects)
    BY <1>i, <2>5, ProducedTyped DEF ManifestsTyped, Contract!Rendered
  <2>11. {requests'[k].index : k \in 1 .. (i' - 1)} = js \union {j}
    <3>1. 1 .. (i' - 1) = 1 .. (i - 1) \union {i}
      BY <1>i, <2>1
    <3> QED BY <2>1, <2>3, <3>1
  <2> HIDE DEF js, j, u
  <2>12. PICK f : ListsEmissions(f, manifests \o u, app, opts, js \union {j})
    BY <2>5, <2>7, <2>8, <2>9, <2>10, ListingsConcat
  <2>13. f \in [DOMAIN (manifests \o u) -> Contract!Emissions(app, opts)]
    BY <2>12 DEF ListsEmissions
  <2>14. \E l \in [DOMAIN manifests' -> Contract!Emissions(app', opts')] :
           ListsEmissions(l, manifests', app', opts', {requests'[k].index : k \in 1 .. (i' - 1)})
    BY <2>1, <2>2, <2>11, <2>12, <2>13
  <2> QED BY <2>1, <2>14 DEF ManifestsTracked
<1>6. CASE ReturnError \/ FillOverlayFails \/ Return
  BY <1>6 DEF ReturnError, FillOverlayFails, Return, ManifestsTracked, Looping
<1>7. CASE UNCHANGED vars
  BY <1>7 DEF vars, ManifestsTracked, Looping
<1> QED
  BY <1>1, <1>2, <1>3, <1>4, <1>5, <1>6, <1>7
     DEF Next, StartFails, RejectSource, DownloadFails, NothingToRender, DetectFails,
         MakeOverlayFails, GenerateFails, ReturnFails

\* Once every request has been rendered, the manifests are all that the contract names.
LEMMA AllEmitted ==
  ASSUME RenderInv, SourcesTracked, ManifestsTracked, pc = "detect", i > Len(requests)
  PROVE  \E h : ListsEmissions(h, manifests, app, opts, Contract!Rendered(app))
<1>1. i \in Nat /\ Len(requests) \in Nat /\ DOMAIN requests = 1 .. Len(requests)
  BY RequestsTyped DEF RenderInv, TypeOK
<1>2. 1 .. (i - 1) = DOMAIN requests
  BY <1>1 DEF RenderInv, Progress, Looping
<1>3. {requests[k].index : k \in 1 .. (i - 1)} = {j \in Contract!Rendered(app) : j <= Len(app.sources)}
  BY <1>2 DEF SourcesTracked, Looping, Requested
<1>4. {j \in Contract!Rendered(app) : j <= Len(app.sources)} = Contract!Rendered(app)
  BY RenderedAre DEF RenderInv
<1> QED
  BY <1>3, <1>4 DEF ManifestsTracked, Looping

-----------------------------------------------------------------------------
\* h tells the manifests m from one another as the contract does the emissions.
Identifies(h, m, a, o) ==
  /\ h \in [DOMAIN m -> Contract!Emissions(a, o)]
  /\ \A e \in Contract!Emissions(a, o) : e # <<>> /\ \E p \in DOMAIN m : h[p] = e
  /\ \A p, q \in DOMAIN m : Contract!Later(h[q], h[p]) <=> p < q
  /\ \A p, q \in DOMAIN m : h[p] = h[q] => p = q
  /\ \A p \in DOMAIN m : m[p] = Contract!Emitted(a, h[p])
  /\ DOMAIN m = 1 .. Len(m) /\ Len(m) \in Nat

LEMMA EmissionTyped ==
  ASSUME NEW a \in Applications, NEW o, NEW e \in Contract!Emissions(a, o)
  PROVE  /\ e[1] \in Contract!Rendered(a)
         /\ e[1] \in Nat /\ e[2] \in Nat /\ e[3] \in Nat /\ e # <<>>
<1>1. PICK j \in Contract!Rendered(a) :
        \/ \E n \in DOMAIN a.sources[j].objs : e = <<j, 1, n>>
        \/ \E n \in DOMAIN Extra(a, o, j) : e = <<j, 2, n>>
  BY DEF Contract!Emissions, Extra
<1>2. /\ a.sources[j].objs \in Seq(Objects) /\ Extra(a, o, j) \in Seq(Objects) /\ j \in Nat
  BY ProducedTyped DEF Contract!Rendered
<1>3. DOMAIN a.sources[j].objs \subseteq Nat /\ DOMAIN Extra(a, o, j) \subseteq Nat
  <2>1. \A s \in Seq(Objects) : DOMAIN s \subseteq Nat
    OBVIOUS
  <2> QED BY <1>2, <2>1
<1>4. PICK k \in {1, 2}, n \in Nat : e = <<j, k, n>>
  BY <1>1, <1>3
<1> QED
  BY <1>2, <1>4

LEMMA ListingIdentifies ==
  ASSUME NEW a \in Applications, NEW o, NEW m \in Seq(Objects),
         NEW h, ListsEmissions(h, m, a, o, Contract!Rendered(a))
  PROVE  Identifies(h, m, a, o)
<1> DEFINE E == Contract!Emissions(a, o)
<1>1. {e \in E : e[1] \in Contract!Rendered(a)} = E
  BY EmissionTyped
<1>2. /\ h \in [DOMAIN m -> E] /\ \A e \in E : \E p \in DOMAIN m : h[p] = e
      /\ \A p, q \in DOMAIN m : p < q => Contract!Later(h[q], h[p])
      /\ \A p \in DOMAIN m : m[p] = Contract!Emitted(a, h[p])
  BY <1>1 DEF ListsEmissions
<1>3. \A e \in E : e[1] \in Nat /\ e[2] \in Nat /\ e[3] \in Nat /\ e # <<>>
  BY EmissionTyped
<1>4. DOMAIN m = 1 .. Len(m) /\ Len(m) \in Nat
  OBVIOUS
<1> HIDE DEF E
<1>5. /\ \A e \in E : ~Contract!Later(e, e)
      /\ \A d, e \in E : Contract!Later(e, d) => ~Contract!Later(d, e)
  BY <1>3 DEF Contract!Later
<1>6. ASSUME NEW p \in DOMAIN m, NEW q \in DOMAIN m
      PROVE  (Contract!Later(h[q], h[p]) <=> p < q) /\ (h[p] = h[q] => p = q)
  <2>1. p < q \/ q < p \/ p = q
    BY <1>4
  <2>2. h[p] \in E /\ h[q] \in E /\ ~(p < q /\ q < p) /\ ~(p < p)
    BY <1>2, <1>4
  <2> QED BY <1>2, <1>5, <2>1, <2>2
<1> QED
  BY <1>2, <1>3, <1>4, <1>6 DEF Identifies, E

\* The last definition of a kind among the manifests decides, as among the emissions.
LEMMA SameScope ==
  ASSUME NEW a, NEW o, NEW m, NEW h, Identifies(h, m, a, o), NEW gk
  PROVE  IsNamespaced(m, gk) <=> ~Contract!ClusterScoped(a, o, gk)
<1> DEFINE E == Contract!Emissions(a, o)
           definitions == {j \in DOMAIN m : m[j].defines = gk}
           last == CHOOSE j \in definitions : \A k \in definitions : k <= j
<1>1. /\ h \in [DOMAIN m -> E] /\ \A e \in E : \E p \in DOMAIN m : h[p] = e
      /\ \A p, q \in DOMAIN m : Contract!Later(h[q], h[p]) <=> p < q
      /\ \A p, q \in DOMAIN m : h[p] = h[q] => p = q
      /\ \A p \in DOMAIN m : m[p] = Contract!Emitted(a, h[p])
      /\ DOMAIN m = 1 .. Len(m) /\ Len(m) \in Nat
  BY DEF Identifies
<1> HIDE DEF E
<1>2. (\E e \in E : Contract!Emitted(a, e).defines = gk) <=> definitions # {}
  BY <1>1
<1>3. CASE gk # NoKind /\ definitions # {}
  <2>1. \E j \in definitions : \A k \in definitions : k <= j
    <3>1. definitions \subseteq 1 .. Len(m) /\ definitions # {} /\ Len(m) \in Nat
      BY <1>1, <1>3
    <3> HIDE DEF definitions
    <3> QED BY <3>1, GreatestElement
  <2>2. last \in definitions /\ \A k \in definitions : k <= last
    BY <2>1
  <2> HIDE DEF last
  <2>3. \A e \in E :
          (/\ Contract!Emitted(a, e).defines = gk
           /\ \A f \in E : Contract!Emitted(a, f).defines = gk => ~Contract!Later(f, e))
            <=> e = h[last]
    <3>1. last \in DOMAIN m /\ h[last] \in E /\ Contract!Emitted(a, h[last]).defines = gk
      BY <1>1, <2>2
    <3>2. ASSUME NEW f \in E, Contract!Emitted(a, f).defines = gk
          PROVE  ~Contract!Later(f, h[last]) /\ (f # h[last] => Contract!Later(h[last], f))
      <4>1. PICK p \in DOMAIN m : h[p] = f
        BY <1>1
      <4>2. p \in definitions /\ p <= last
        BY <1>1, <2>2, <3>2, <4>1
      <4> QED BY <1>1, <3>1, <4>1, <4>2
    <3> QED BY <3>1, <3>2
  <2>4. Contract!ClusterScoped(a, o, gk) <=> Contract!Emitted(a, h[last]).cluster
    <3>1. h[last] \in E
      BY <1>1, <2>2
    <3>2. Contract!ClusterScoped(a, o, gk) <=>
            \E e \in E :
               /\ Contract!Emitted(a, e).defines = gk /\ Contract!Emitted(a, e).cluster
               /\ \A f \in E : Contract!Emitted(a, f).defines = gk => ~Contract!Later(f, e)
      BY <1>2, <1>3 DEF Contract!ClusterScoped, E
    <3> QED BY <2>3, <3>1, <3>2
  <2>5. IsNamespaced(m, gk) <=> ~m[last].cluster
    BY <1>3 DEF IsNamespaced, last
  <2> QED BY <1>1, <2>2, <2>4, <2>5
<1>4. CASE ~(gk # NoKind /\ definitions # {})
  <2>1. IsNamespaced(m, gk) <=> gk \notin ClusterKinds
    BY <1>4 DEF IsNamespaced
  <2>2. Contract!ClusterScoped(a, o, gk) <=> gk \in ClusterKinds
    BY <1>2, <1>4 DEF Contract!ClusterScoped, E
  <2> QED BY <2>1, <2>2
<1> QED
  BY <1>3, <1>4

\* So an object is deployed as the contract says ...
LEMMA SameObject ==
  ASSUME NEW a, NEW o, NEW m, NEW h, Identifies(h, m, a, o), NEW p \in DOMAIN m
  PROVE  Placed(m, a.destination)[p] = Contract!Deployed(a, o, h[p])
<1> DEFINE gk == GroupKind(m[p].type)
<1>1. m[p] = Contract!Emitted(a, h[p])
  BY DEF Identifies
<1>2. IsNamespaced(m, gk) <=> ~Contract!ClusterScoped(a, o, gk)
  BY SameScope
<1>3. Placed(m, a.destination)[p] =
        [m[p] EXCEPT !.ns = CASE ~IsNamespaced(m, gk) -> NoNs
                              [] IsNamespaced(m, gk) /\ m[p].ns = NoNs -> a.destination
                              [] OTHER -> m[p].ns]
  BY DEF Placed
<1>4. Contract!Deployed(a, o, h[p]) =
        [m[p] EXCEPT !.ns = IF Contract!ClusterScoped(a, o, gk) THEN NoNs
                            ELSE IF m[p].ns = NoNs THEN a.destination ELSE m[p].ns]
  BY <1>1 DEF Contract!Deployed, Contract!NoNs, NoNs
<1> HIDE DEF gk
<1>5. (CASE ~IsNamespaced(m, gk) -> NoNs
         [] IsNamespaced(m, gk) /\ m[p].ns = NoNs -> a.destination
         [] OTHER -> m[p].ns)
        = IF Contract!ClusterScoped(a, o, gk) THEN NoNs
          ELSE IF m[p].ns = NoNs THEN a.destination ELSE m[p].ns
  BY <1>2
<1> QED
  BY <1>3, <1>4, <1>5

\* ... and is of the same resource as another when the contract says so.
LEMMA SameResources ==
  ASSUME NEW a, NEW o, NEW m, NEW h, Identifies(h, m, a, o),
         NEW p \in DOMAIN m, NEW q \in DOMAIN m
  PROVE  SameResource(Placed(m, a.destination), p, q)
           <=> Contract!Resource(a, o, h[p]) = Contract!Resource(a, o, h[q])
<1> DEFINE x == Contract!Deployed(a, o, h[p])
           y == Contract!Deployed(a, o, h[q])
<1>1. Placed(m, a.destination)[p] = x /\ Placed(m, a.destination)[q] = y
  BY SameObject
<1>2. /\ h[p] # <<>> /\ h[q] # <<>> /\ (h[p] = h[q] <=> p = q)
      /\ p # 0 /\ q # 0
  BY DEF Identifies
<1> HIDE DEF x, y
<1>3. SameResource(Placed(m, a.destination), p, q) <=>
        /\ GroupKind(x.type) = GroupKind(y.type) /\ x.ns = y.ns /\ x.name = y.name
        /\ (IF x.name = NoName /\ x.gen THEN p ELSE 0) = IF y.name = NoName /\ y.gen THEN q ELSE 0
  BY <1>1 DEF SameResource, ResourceKey
<1>4. /\ Contract!Resource(a, o, h[p]) =
           [gk |-> GroupKind(x.type), ns |-> x.ns, name |-> x.name,
            own |-> IF x.name = NoName /\ x.gen THEN h[p] ELSE <<>>]
      /\ Contract!Resource(a, o, h[q]) =
           [gk |-> GroupKind(y.type), ns |-> y.ns, name |-> y.name,
            own |-> IF y.name = NoName /\ y.gen THEN h[q] ELSE <<>>]
  BY DEF Contract!Resource, Contract!NoName, NoName, x, y
<1>5. Contract!Resource(a, o, h[p]) = Contract!Resource(a, o, h[q]) <=>
        /\ GroupKind(x.type) = GroupKind(y.type) /\ x.ns = y.ns /\ x.name = y.name
        /\ (IF x.name = NoName /\ x.gen THEN h[p] ELSE <<>>)
              = IF y.name = NoName /\ y.gen THEN h[q] ELSE <<>>
  BY <1>4
<1>6. ((IF x.name = NoName /\ x.gen THEN p ELSE 0) = IF y.name = NoName /\ y.gen THEN q ELSE 0)
        <=> ((IF x.name = NoName /\ x.gen THEN h[p] ELSE <<>>)
               = IF y.name = NoName /\ y.gen THEN h[q] ELSE <<>>)
  BY <1>2, Zenon
<1> QED
  BY <1>3, <1>5, <1>6

-----------------------------------------------------------------------------
\* The manifests kept, and those warned of, are the emissions the contract says.
LEMMA SameChoice ==
  ASSUME NEW a, NEW o, NEW m, NEW h, Identifies(h, m, a, o), NEW p \in DOMAIN m
  PROVE  /\ p \in Kept(Placed(m, a.destination)) <=> h[p] \in Contract!Surviving(a, o)
         /\ p \in Repeated(Placed(m, a.destination)) <=>
              \E f \in Contract!Emissions(a, o) \ {h[p]} :
                Contract!Resource(a, o, f) = Contract!Resource(a, o, h[p])
<1> DEFINE E == Contract!Emissions(a, o)
           at == Placed(m, a.destination)
           R(e) == Contract!Resource(a, o, e)
<1>1. DOMAIN at = DOMAIN m
  BY DEF Placed
<1>2. /\ h \in [DOMAIN m -> E] /\ \A e \in E : \E q \in DOMAIN m : h[q] = e
      /\ \A q, r \in DOMAIN m : Contract!Later(h[r], h[q]) <=> q < r
      /\ \A q, r \in DOMAIN m : h[q] = h[r] => q = r
      /\ DOMAIN m \subseteq Nat
  BY DEF Identifies
<1>3. \A q \in DOMAIN m : SameResource(at, p, q) <=> R(h[p]) = R(h[q])
  BY SameResources
<1> HIDE DEF E, at, R
<1>4. (\A q \in DOMAIN m : q > p => ~SameResource(at, p, q))
        <=> \A f \in E : Contract!Later(f, h[p]) => R(f) # R(h[p])
  BY <1>2, <1>3
<1>5. (\E q \in DOMAIN m \ {p} : SameResource(at, p, q)) <=> \E f \in E \ {h[p]} : R(f) = R(h[p])
  BY <1>2, <1>3
<1>6. p \in Kept(at) <=> h[p] \in Contract!Surviving(a, o)
  BY <1>1, <1>2, <1>4 DEF Kept, Contract!Surviving, E, R
<1>7. p \in Repeated(at) <=> \E f \in E \ {h[p]} : R(f) = R(h[p])
  BY <1>1, <1>5 DEF Repeated
<1> QED
  BY <1>6, <1>7 DEF at, E, R

\* The warnings name the resources that the contract has repeated.
LEMMA SameWarnings ==
  ASSUME NEW a, NEW o, NEW m, NEW h, Identifies(h, m, a, o)
  PROVE  LET at == Placed(m, a.destination)
         IN  {[gk |-> GroupKind(at[j].type), ns |-> at[j].ns, name |-> at[j].name] : j \in Repeated(at)}
               = Contract!RepeatedResources(a, o)
<1> DEFINE E == Contract!Emissions(a, o)
           at == Placed(m, a.destination)
           R(e) == Contract!Resource(a, o, e)
           name(j) == [gk |-> GroupKind(at[j].type), ns |-> at[j].ns, name |-> at[j].name]
           as(e) == [gk |-> R(e).gk, ns |-> R(e).ns, name |-> R(e).name]
           repeated == {e \in E : \E f \in E \ {e} : R(f) = R(e)}
<1>1. /\ h \in [DOMAIN m -> E] /\ \A e \in E : \E q \in DOMAIN m : h[q] = e
      /\ Repeated(at) \subseteq DOMAIN m
  BY DEF Identifies, Repeated, Placed
<1>2. \A p \in DOMAIN m : name(p) = as(h[p])
  <2> SUFFICES ASSUME NEW p \in DOMAIN m PROVE name(p) = as(h[p])
    OBVIOUS
  <2>1. at[p] = Contract!Deployed(a, o, h[p])
    BY SameObject
  <2> QED BY <2>1 DEF Contract!Resource
<1>3. \A p \in DOMAIN m : p \in Repeated(at) <=> h[p] \in repeated
  <2> SUFFICES ASSUME NEW p \in DOMAIN m PROVE p \in Repeated(at) <=> h[p] \in repeated
    OBVIOUS
  <2>1. p \in Repeated(at) <=> \E f \in E \ {h[p]} : R(f) = R(h[p])
    BY SameChoice
  <2> QED BY <1>1, <2>1
<1>4. Contract!RepeatedResources(a, o) = {as(e) : e \in repeated}
  BY DEF Contract!RepeatedResources
<1> HIDE DEF at, name, as, repeated
<1>5. \A e \in repeated : e \in E
  BY DEF repeated
<1> HIDE DEF E
<1>6. {name(j) : j \in Repeated(at)} = {as(e) : e \in repeated}
  BY <1>1, <1>2, <1>3, <1>5
<1> QED
  BY <1>4, <1>6 DEF name, at

\* Any order the kept manifests may be left in is one of the surviving emissions, whole
\* and sorted.
LEMMA SameResult ==
  ASSUME NEW a \in Applications, NEW o, NEW m \in Seq(Objects), NEW h, Identifies(h, m, a, o),
         NEW order \in SortedOrders(Placed(m, a.destination)),
         NEW sorted, sorted = [p \in DOMAIN order |-> Placed(m, a.destination)[order[p]]]
  PROVE  /\ sorted \in Seq(Resources)
         /\ Contract!Sorted(sorted) /\ Contract!HoldsExactly(sorted, a, o)
<1> DEFINE at == Placed(m, a.destination)
           K == Kept(at)
           N == Cardinality(K)
           D == 1 .. N
           S == Contract!Surviving(a, o)
           Out(e) == Contract!Deployed(a, o, e)
<1>1. K \subseteq DOMAIN m /\ DOMAIN at = DOMAIN m /\ IsFiniteSet(K) /\ N \in Nat
  <2>1. K \subseteq DOMAIN m /\ DOMAIN at = DOMAIN m
    BY DEF Kept, Placed
  <2>2. DOMAIN m = 1 .. Len(m) /\ Len(m) \in Nat
    OBVIOUS
  <2> HIDE DEF K
  <2>3. \A n \in Nat : IsFiniteSet(1 .. n)
    BY FS_Interval
  <2>4. IsFiniteSet(K)
    BY <2>1, <2>2, <2>3, FS_Subset
  <2> QED BY <2>1, <2>4, FS_CardinalityType
<1>2. /\ order \in [D -> K]
      /\ \A p, q \in D : p < q => order[p] # order[q] /\ ~Before(at[order[q]], at[order[p]])
  BY DEF SortedOrders
<1>3. /\ sorted = [p \in D |-> at[order[p]]]
      /\ \A p \in D : sorted[p] = at[order[p]]
  BY <1>2
<1>4. \A x \in K : \E p \in D : order[p] = x
  <2>1. \A p, q \in D : order[p] = order[q] => p = q
    <3> SUFFICES ASSUME NEW p \in D, NEW q \in D, order[p] = order[q], p # q PROVE FALSE
      OBVIOUS
    <3>1. p < q \/ q < p
      BY <1>1
    <3> QED BY <1>2, <3>1
  <2>2. Cardinality(D) = Cardinality(K)
    BY <1>1, FS_Interval
  <2> HIDE DEF D, K
  <2>3. order \in Injection(D, K)
    BY <1>2, <2>1 DEF Injection, IsInjective
  <2>4. order \in Surjection(D, K)
    BY <1>1, <2>2, <2>3, FS_Injection
  <2> QED BY <2>4 DEF Surjection
<1>5. /\ h \in [DOMAIN m -> Contract!Emissions(a, o)]
      /\ \A e \in Contract!Emissions(a, o) : \E p \in DOMAIN m : h[p] = e
      /\ \A p, q \in DOMAIN m : h[p] = h[q] => p = q
  BY DEF Identifies
<1>6. \A x \in DOMAIN m : (x \in K <=> h[x] \in S) /\ at[x] = Out(h[x])
  BY SameChoice, SameObject
<1>s. S \subseteq Contract!Emissions(a, o)
  BY DEF Contract!Surviving
<1> HIDE DEF K, S
<1>7. Contract!HoldsExactly(sorted, a, o)
  <2>c. \A X : Contract!Cardinality(X) = Cardinality(X)
    BY DEF Contract!Cardinality, Cardinality
  <2>d. DOMAIN sorted = D
    BY <1>3
  <2> SUFFICES ASSUME NEW obj
               PROVE  Cardinality({p \in DOMAIN sorted : sorted[p] = obj})
                        = Cardinality({e \in Contract!Surviving(a, o) : Contract!Deployed(a, o, e) = obj})
    BY <2>c DEF Contract!HoldsExactly
  <2> DEFINE P == {p \in D : sorted[p] = obj}
             Q == {e \in S : Out(e) = obj}
             f == [p \in P |-> h[order[p]]]
  <2>1. IsFiniteSet(P)
    <3>1. IsFiniteSet(D)
      BY <1>1, FS_Interval
    <3> QED BY <3>1, FS_Subset
  <2>2. f \in [P -> Q]
    BY <1>1, <1>2, <1>3, <1>6
  <2>3. \A e \in Q : \E p \in P : f[p] = e
    <3> SUFFICES ASSUME NEW e \in Q PROVE \E p \in P : f[p] = e
      OBVIOUS
    <3>1. PICK x \in DOMAIN m : h[x] = e
      BY <1>5, <1>s
    <3>2. PICK p \in D : order[p] = x
      BY <1>4, <1>6, <3>1
    <3>3. p \in P
      BY <1>3, <1>6, <3>1, <3>2
    <3> QED BY <3>1, <3>2, <3>3
  <2>4. \A p, q \in P : f[p] = f[q] => p = q
    <3> SUFFICES ASSUME NEW p \in P, NEW q \in P, f[p] = f[q], p # q PROVE FALSE
      OBVIOUS
    <3>1. order[p] = order[q]
      BY <1>1, <1>2, <1>5
    <3>2. p < q \/ q < p
      BY <1>1
    <3> QED BY <1>2, <3>1, <3>2
  <2> HIDE DEF P, Q, f
  <2>5. f \in Bijection(P, Q)
    BY <2>2, <2>3, <2>4 DEF Bijection, Injection, Surjection, IsInjective
  <2>6. ExistsBijection(P, Q)
    BY <2>5 DEF ExistsBijection
  <2>7. Cardinality(Q) = Cardinality(P)
    BY <2>1, <2>6, FS_Bijection
  <2>8. P = {p \in DOMAIN sorted : sorted[p] = obj}
    BY <2>d DEF P
  <2>9. Q = {e \in Contract!Surviving(a, o) : Contract!Deployed(a, o, e) = obj}
    BY DEF Q, S
  <2> QED BY <2>7, <2>8, <2>9
<1>8. Contract!Sorted(sorted)
  BY <1>2, <1>3 DEF Contract!Sorted, Contract!Before, Before
<1>9. sorted \in Seq(Resources)
  <2>1. \A x \in DOMAIN m : at[x] \in Resources
    <3> SUFFICES ASSUME NEW x \in DOMAIN m PROVE at[x] \in Resources
      OBVIOUS
    <3>1. m[x] \in Objects
      BY ElementOfSeq
    <3>2. PICK ns \in {m[x].ns, NoNs, a.destination} : at[x] = [m[x] EXCEPT !.ns = ns]
      BY DEF Placed
    <3>3. ns \in Namespaces
      BY <3>1, <3>2 DEF Namespaces
    <3>4. at[x] = InNamespace(m[x], ns)
      BY <3>2 DEF InNamespace
    <3> QED BY <3>1, <3>3, <3>4 DEF Resources
  <2>2. \A p \in D : sorted[p] \in Resources
    BY <1>1, <1>2, <1>3, <2>1
  <2>3. sorted \in [1 .. N -> Resources]
    BY <1>3, <2>2
  <2> QED BY <1>1, <2>3
<1> QED
  BY <1>7, <1>8, <1>9

-----------------------------------------------------------------------------
\* What refTargets finds no fault with, and validateRefs has a target for, is a good
\* reference.
LEMMA CheckedIsGood ==
  ASSUME NEW sources, ~refTargetsFails(sources), DOMAIN sources \subseteq Nat,
         NEW name, name \in DOMAIN refTargets(sources), refTargets(sources)[name].chart = NoChart
  PROVE  Contract!GoodReference(sources, name)
<1> DEFINE named == CHOOSE n \in Referable(sources) : sources[n].ref = name
<1>1. name \in {sources[n].ref : n \in Referable(sources)}
  BY DEF refTargets
<1>2. named \in Referable(sources) /\ sources[named].ref = name
  BY <1>1
<1>3. refTargets(sources)[name].chart = sources[named].chart
  BY <1>1 DEF refTargets
<1> HIDE DEF named
<1>4. name \in LegalRefs /\ named \in DOMAIN sources /\ Multi(sources) /\ name # NoRef
  BY <1>2 DEF refTargetsFails, Referable, IsRef
<1>5. ASSUME NEW j \in DOMAIN sources \ {named}, sources[j].ref = name PROVE FALSE
  <2>1. j \in Referable(sources)
    BY <1>4, <1>5 DEF Referable, IsRef
  <2>2. j < named \/ named < j
    BY <1>4
  <2> QED BY <1>2, <1>5, <2>1, <2>2 DEF refTargetsFails
<1> QED
  BY <1>2, <1>3, <1>4, <1>5 DEF Contract!GoodReference

\* An Application that gets as far as being rendered is well formed.
LEMMA BuiltWellFormed ==
  ASSUME RenderInv, SourcesTracked, Looping
  PROVE  Contract!WellFormed(app)
<1>1. /\ requests # <<>> /\ Requested(Len(app.sources)) /\ ~refTargetsFails(app.sources)
      /\ DOMAIN app.sources = 1 .. Len(app.sources) /\ Len(app.sources) \in Nat
      /\ requests \in Seq(Requests)
  BY RenderedAre, RequestsTyped DEF SourcesTracked, RenderInv
<1>2. Contract!Rendered(app) # {}
  <2>1. 1 \in DOMAIN requests
    BY <1>1
  <2> QED BY <1>1, <2>1 DEF Requested
<1>3. /\ \A j \in DOMAIN app.sources : SourceChecked(j)
      /\ Contract!Multi(app.sources) <=> multi
  BY <1>1 DEF Requested, Contract!Multi, multi, Multi
<1>4. \A j \in DOMAIN app.sources : app.sources[j].repo # NoRepo
  BY <1>3 DEF SourceChecked
<1>5. multi =>
        \A n \in DOMAIN app.sources :
          /\ app.sources[n].ref \in LegalRefs \union {NoRef}
          /\ \A j \in DOMAIN app.sources \ {n} :
               app.sources[n].ref = app.sources[j].ref => app.sources[n].ref = NoRef
  <2> SUFFICES ASSUME multi, NEW n \in DOMAIN app.sources, app.sources[n].ref # NoRef
               PROVE  /\ app.sources[n].ref \in LegalRefs
                      /\ \A j \in DOMAIN app.sources \ {n} : app.sources[n].ref # app.sources[j].ref
    OBVIOUS
  <2>1. n \in Referable(app.sources)
    BY DEF Referable, IsRef, multi
  <2>2. app.sources[n].ref \in LegalRefs
    BY <1>1, <2>1 DEF refTargetsFails
  <2>3. ASSUME NEW j \in DOMAIN app.sources \ {n}, app.sources[n].ref = app.sources[j].ref
        PROVE  FALSE
    <3>1. j \in Referable(app.sources)
      BY <2>3 DEF Referable, IsRef, multi
    <3>2. j < n \/ n < j
      BY <1>1
    <3> QED BY <1>1, <2>1, <2>3, <3>1, <3>2 DEF refTargetsFails
  <2> QED BY <2>2, <2>3
<1>6. ASSUME NEW n \in Contract!Rendered(app)
      PROVE  /\ app.sources[n].chart = NoChart => app.sources[n].path # "outside"
             /\ multi /\ app.sources[n].helm # NoBlock =>
                  \A name \in app.sources[n].helm.vars : Contract!GoodReference(app.sources, name)
  <2>1. n \in DOMAIN app.sources /\ ~isRefOnlySource(app.sources[n], multi)
    BY <1>1, RenderedAre DEF RenderInv
  <2>2. /\ validateRefs(app.sources[n], targets, multi)
        /\ IsHelm(app.sources[n]) \/ app.sources[n].path # "outside"
    BY <1>3, <2>1 DEF SourceChecked
  <2>3. app.sources[n].chart = NoChart => app.sources[n].path # "outside"
    BY <2>2 DEF IsHelm
  <2>4. ASSUME multi, app.sources[n].helm # NoBlock, NEW name \in app.sources[n].helm.vars
        PROVE  Contract!GoodReference(app.sources, name)
    <3>1. name \in DOMAIN targets /\ targets[name].chart = NoChart
      BY <2>2, <2>4 DEF validateRefs
    <3>2. DOMAIN app.sources \subseteq Nat
      BY <1>1
    <3> QED BY <1>1, <3>1, <3>2, CheckedIsGood DEF targets
  <2> QED BY <2>3, <2>4
<1> QED
  BY <1>2, <1>3, <1>4, <1>5, <1>6 DEF Contract!WellFormed

ContractTracked == RenderInv /\ ManifestsTyped /\ ContractInv

\* Returning is what the contract calls succeeding.
LEMMA ReturnSucceeds ==
  ASSUME ContractTracked, Return
  PROVE  Contract!Succeed
<1>1. /\ pc = "detect" /\ i > Len(requests) /\ pc' = "done" /\ UNCHANGED <<app, opts>>
      /\ warnings' = conditions
  BY DEF Return, input
<1>2. PICK h : ListsEmissions(h, manifests, app, opts, Contract!Rendered(app))
  BY <1>1, AllEmitted DEF ContractTracked, ContractInv
<1>3. app \in Applications /\ manifests \in Seq(Objects)
  BY DEF ContractTracked, RenderInv, TypeOK, ManifestsTyped
<1>4. Identifies(h, manifests, app, opts)
  BY <1>2, <1>3, ListingIdentifies
<1>5. warnings' = Contract!RepeatedResources(app, opts)
  BY <1>1, <1>4, SameWarnings DEF conditions, placed
<1>6. PICK order \in SortedOrders(placed) :
        LET sorted == [p \in DOMAIN order |-> placed[order[p]]]
        IN  result' = IF opts.includeApplications THEN <<app.manifest>> \o sorted ELSE sorted
  BY DEF Return
<1> DEFINE sorted == [p \in DOMAIN order |-> placed[order[p]]]
<1>7. sorted \in Seq(Resources) /\ Contract!Sorted(sorted) /\ Contract!HoldsExactly(sorted, app, opts)
  BY <1>3, <1>4, SameResult DEF placed
<1>8. result' = IF opts.includeApplications THEN <<app.manifest>> \o sorted ELSE sorted
  BY <1>6
<1> HIDE DEF sorted
<1>9. app.manifest \in Resources
  BY <1>3 DEF Resources
<1>10. /\ <<app.manifest>> \o sorted \in Seq(Resources) /\ <<app.manifest>> \o sorted # <<>>
       /\ Head(<<app.manifest>> \o sorted) = app.manifest /\ Tail(<<app.manifest>> \o sorted) = sorted
  BY <1>7, <1>9, HeadAndTail
<1>11. result' \in Seq(Resources) /\ Contract!Manifests(result', app, opts)
  BY <1>7, <1>8, <1>10 DEF Contract!Manifests
<1>12. result' # Nothing
  BY <1>11, NothingAssumption
<1>13. Contract!WellFormed(app)
  BY <1>1, BuiltWellFormed DEF ContractTracked, ContractInv, Looping
<1>14. outcome = "pending" /\ outcome' = "ok"
  BY <1>1 DEF outcome
<1> QED
  BY <1>1, <1>5, <1>11, <1>12, <1>13, <1>14 DEF Contract!Succeed

\* Every other step fails, or leaves what the contract is about alone.
LEMMA NextKeepsContract ==
  ContractTracked /\ [Next]_vars => [Contract!Next]_(Contract!contractVars)
<1> SUFFICES ASSUME ContractTracked, [Next]_vars
             PROVE  Contract!Next \/ UNCHANGED Contract!contractVars
  OBVIOUS
<1> USE DEF input, output
<1>1. CASE Return
  BY <1>1, ReturnSucceeds DEF Contract!Next
<1>2. ASSUME pc \notin {"done", "failed"}, pc' = "failed", UNCHANGED <<app, opts, result, warnings>>
      PROVE  Contract!Next
  <2>1. outcome = "pending" /\ outcome' = "error"
    BY <1>2 DEF outcome
  <2> QED BY <1>2, <2>1 DEF Contract!Next, Contract!Fail
<1>3. ASSUME pc \notin {"done", "failed"}, pc' \notin {"done", "failed"},
             UNCHANGED <<app, opts, result, warnings>>
      PROVE  UNCHANGED Contract!contractVars
  <2>1. outcome = "pending" /\ outcome' = "pending"
    BY <1>3 DEF outcome
  <2> QED BY <1>3, <2>1 DEF Contract!contractVars
<1>4. CASE UNCHANGED vars
  BY <1>4 DEF vars, Contract!contractVars, outcome
<1>5. CASE \/ StartFails \/ RejectSource \/ DownloadFails \/ NothingToRender \/ DetectFails
           \/ MakeOverlayFails \/ FillOverlayFails \/ GenerateFails \/ ReturnFails
  <2>1. pc \notin {"done", "failed"} /\ pc' = "failed" /\ UNCHANGED <<app, opts, result, warnings>>
    BY <1>5 DEF StartFails, RejectSource, Building, DownloadFails, NothingToRender, DetectFails,
         MakeOverlayFails, FillOverlayFails, GenerateFails, ReturnFails, ReturnError
  <2> QED BY <1>2, <2>1
<1>6. CASE \/ Start \/ SkipRefOnly \/ AddRequest \/ BuildDone \/ Detect \/ MakeOverlay \/ FillOverlay
           \/ Generate
  <2>1. /\ pc \notin {"done", "failed"} /\ pc' \notin {"done", "failed"}
        /\ UNCHANGED <<app, opts, result, warnings>>
    BY <1>6 DEF Start, SkipRefOnly, AddRequest, Building, BuildDone, Detect, MakeOverlay, FillOverlay,
         Generate
  <2> QED BY <1>3, <2>1
<1> QED
  BY <1>1, <1>4, <1>5, <1>6 DEF Next

LEMMA InitContractTracked == Init => ContractTracked
<1>1. Init => ManifestsTyped
  BY DEF Init, ManifestsTyped
<1> QED
  BY <1>1, InitRenderInv, InitSourcesTracked, InitTestsTracked, InitManifestsTracked
     DEF ContractTracked, ContractInv

LEMMA NextContractTracked == ContractTracked /\ [Next]_vars => ContractTracked'
  BY NextRenderInv, NextManifestsTyped, NextSourcesTracked, NextTestsTracked, NextManifestsTracked
     DEF ContractTracked, ContractInv, RenderInv

\* Whatever renderApplication returns is what its contract allows.
THEOREM ImplementsContract == Spec => Contract!Safety
<1>1. Spec => []ContractTracked
  BY InitContractTracked, NextContractTracked, PTL DEF Spec
<1>2. Init => Contract!Init
  BY DEF Init, Contract!Init, outcome
<1>3. []ContractTracked /\ [][Next]_vars => [][Contract!Next]_(Contract!contractVars)
  BY NextKeepsContract, PTL
<1> QED
  BY <1>1, <1>2, <1>3, PTL DEF Spec, Contract!Safety

\* So the contract is kept by every call that comes back.
THEOREM ReturningKeepsContract == Spec /\ <>Returned => KeepsContract
<1>1. Returned => outcome # "pending"
  BY DEF Returned, outcome
<1> QED
  BY <1>1, ImplementsContract, PTL DEF KeepsContract, Contract!Spec
=============================================================================
