---------------------------- MODULE MCHybridRows ----------------------------
(* The layer states alone, under any caller.                               *)
EXTENDS HybridState

MCKinds == <<"delta", "attention", "delta">>
MCLayerSets == {<<1, 3>>, <<2, 3>>}
=============================================================================
