--------------------------- MODULE RenderContract ---------------------------
(***************************************************************************)
(* What rendering one Application promises, whatever steps it takes: it    *)
(* returns either every resource the Application's sources render to,      *)
(* once, as the last source that has it renders it, placed in its          *)
(* namespace and in order; or an error and nothing at all.  An Application *)
(* that is not well formed is always an error.                             *)
(***************************************************************************)
EXTENDS RefSources, TargetObjects

CONSTANTS Applications, Options, Nothing

VARIABLES app, opts, outcome, objects, warnings

contractVars == <<app, opts, outcome, objects, warnings>>

Rendered(a) ==
  {i \in DOMAIN a.sources : ~isRefOnlySource(a.sources[i], Multi(a.sources))}

\* A reference is good when exactly one source declares it, under a legal name,
\* and that source is not a chart.
GoodReference(sources, name) ==
  /\ name \in LegalRefs
  /\ \E i \in DOMAIN sources :
       /\ sources[i].ref = name /\ sources[i].chart = NoChart
       /\ \A j \in DOMAIN sources \ {i} : sources[j].ref # name

WellFormed(a) ==
  /\ Rendered(a) # {}
  /\ \A i \in DOMAIN a.sources : a.sources[i].repo # NoRepo
  /\ Multi(a.sources) =>
       \A i \in DOMAIN a.sources :
         /\ a.sources[i].ref \in LegalRefs \union {NoRef}
         /\ \A j \in DOMAIN a.sources \ {i} :
              a.sources[i].ref = a.sources[j].ref => a.sources[i].ref = NoRef
  /\ \A i \in Rendered(a) :
       /\ a.sources[i].chart = NoChart => a.sources[i].path # "outside"
       /\ Multi(a.sources) /\ a.sources[i].helm # NoBlock =>
            \A name \in a.sources[i].helm.vars : GoodReference(a.sources, name)

\* A source that is a chart keeps its tests only when they are asked for and its
\* own helm block does not drop them.
KeepsTests(s, o) ==
  o.includeTests /\ (s.helm # NoBlock => ~s.helm.skipTests)

IsChart(s) ==
  \/ s.chart # NoChart \/ s.dir = "Helm"
  \/ s.helm # NoBlock /\ (s.helm.vars # {} \/ s.helm.skipTests \/ s.helm.other)

\* Every manifest of the Application, named by its source, by whether it is one of
\* the source's tests, and by its place there.
Emissions(a, o) ==
  UNION {
    {<<i, 1, n>> : n \in DOMAIN a.sources[i].objs} \union
    {<<i, 2, n>> : n \in IF IsChart(a.sources[i]) /\ KeepsTests(a.sources[i], o)
                         THEN DOMAIN a.sources[i].tests ELSE {}} : i \in Rendered(a)}

Emitted(a, e) == IF e[2] = 1 THEN a.sources[e[1]].objs[e[3]] ELSE a.sources[e[1]].tests[e[3]]

Later(e, f) ==
  \/ e[1] > f[1]
  \/ e[1] = f[1] /\ e[2] > f[2]
  \/ e[1] = f[1] /\ e[2] = f[2] /\ e[3] > f[3]

ClusterScoped(a, o, gk) ==
  IF \E e \in Emissions(a, o) : gk # NoKind /\ Emitted(a, e).defines = gk
  THEN \E e \in Emissions(a, o) :
         /\ Emitted(a, e).defines = gk /\ Emitted(a, e).cluster
         /\ \A f \in Emissions(a, o) : Emitted(a, f).defines = gk => ~Later(f, e)
  ELSE gk \in ClusterKinds

\* What an emission comes out as.
Deployed(a, o, e) ==
  LET obj == Emitted(a, e)
  IN  [obj EXCEPT !.ns = IF ClusterScoped(a, o, GroupKind(obj.type)) THEN NoNs
                         ELSE IF obj.ns = NoNs THEN a.destination ELSE obj.ns]

\* The resource an emission is a manifest of; with a generateName, one of its own.
Resource(a, o, e) ==
  LET obj == Deployed(a, o, e)
  IN  [gk |-> GroupKind(obj.type), ns |-> obj.ns, name |-> obj.name,
       own |-> IF obj.name = NoName /\ obj.gen THEN e ELSE <<>>]

Surviving(a, o) ==
  {e \in Emissions(a, o) :
     \A f \in Emissions(a, o) : Later(f, e) => Resource(a, o, f) # Resource(a, o, e)}

\* The same objects with the same multiplicities, whatever their order.
HoldsExactly(list, a, o) ==
  \A obj \in {list[p] : p \in DOMAIN list} \union {Deployed(a, o, e) : e \in Surviving(a, o)} :
    Cardinality({p \in DOMAIN list : list[p] = obj})
      = Cardinality({e \in Surviving(a, o) : Deployed(a, o, e) = obj})

Sorted(list) == \A p, q \in DOMAIN list : p < q => ~Before(list[q], list[p])

RepeatedResources(a, o) ==
  LET repeated == {e \in Emissions(a, o) :
                     \E f \in Emissions(a, o) \ {e} : Resource(a, o, f) = Resource(a, o, e)}
  IN  {[gk |-> Resource(a, o, e).gk, ns |-> Resource(a, o, e).ns,
        name |-> Resource(a, o, e).name] : e \in repeated}

\* The Application itself comes first when it is asked for.
Manifests(list, a, o) ==
  IF o.includeApplications
  THEN list # <<>> /\ Head(list) = a.manifest /\ Sorted(Tail(list)) /\ HoldsExactly(Tail(list), a, o)
  ELSE Sorted(list) /\ HoldsExactly(list, a, o)

Init ==
  /\ app \in Applications /\ opts \in Options
  /\ outcome = "pending" /\ objects = Nothing /\ warnings = {}

Succeed ==
  /\ outcome = "pending" /\ WellFormed(app)
  /\ outcome' = "ok"
  /\ objects' # Nothing /\ Manifests(objects', app, opts)
  /\ warnings' = RepeatedResources(app, opts)
  /\ UNCHANGED <<app, opts>>

Fail ==
  /\ outcome = "pending" /\ outcome' = "error"
  /\ UNCHANGED <<app, opts, objects, warnings>>

Next == Succeed \/ Fail

\* Nothing else is ever the outcome ...
Safety == Init /\ [][Next]_contractVars

\* ... and there is one at last.
Spec == Safety /\ <>(outcome # "pending")
=============================================================================
