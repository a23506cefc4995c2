--------------------------- MODULE MCTargetModel ----------------------------
(* A two-token vocabulary.  After ta the model alternates, so that a Jacobi *)
(* loop needs every iteration; after tb the next token depends on the       *)
(* length of the prefix too, so that a row out of place changes it.        *)
EXTENDS TargetModel

CONSTANTS ta, tb

Other(t) == IF t = ta THEN tb ELSE ta

Wandering == [s \in Prefixes |->
                IF s[1] = tb /\ Len(s) % 2 = 0 THEN s[Len(s)] ELSE Other(s[Len(s)])]

MCToken == {ta, tb}
MCModels == {Wandering}
=============================================================================
