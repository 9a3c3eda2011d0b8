---------------------------- MODULE MCRenderInputs ----------------------------
(***************************************************************************)
(* Two Applications for RenderInputs: one chart without a version, then    *)
(* with each version, and with capabilities of its own.                    *)
(***************************************************************************)
EXTENDS RenderInputs

Source(version) == [chart |-> "web", version |-> version, kube |-> "", api |-> <<>>]

MCApplications ==
  <<<<Source(AnyVersion), Source(2)>>,
    <<[Source(1) EXCEPT !.kube = "v1.29"], [Source(AnyVersion) EXCEPT !.api = <<"crd">>]>>>>

Caps(kube, api) == [kube |-> kube, api |-> api, misspelt |-> FALSE]

MCContents ==
  {Caps("", <<>>), Caps("v1.31", <<"monitoring">>), Caps("nonsense", <<>>), Caps("", <<"">>),
   [Caps("", <<>>) EXCEPT !.misspelt = TRUE]}
=============================================================================
