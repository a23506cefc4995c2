--------------------------- MODULE MCHybridState ----------------------------
(* A stack in which each kind of layer lies on the other one, and two      *)
(* subsets of it to draft with: one skips the attention layer, one the     *)
(* first layer.  A prompt of one token leaves room for a window, one of    *)
(* two meets a full cache inside it.                                       *)
EXTENDS HybridDrivers

CONSTANTS a, b

MCKinds == <<"delta", "attention", "delta">>
MCLayerSets == {<<1, 3>>, <<2, 3>>}
MCPrompts == {<<a>>, <<b, a>>}
=============================================================================
