--------------------------- MODULE MCSpeculation ----------------------------
(* A three-token vocabulary, greedy paths that end in different ways, and  *)
(* every combination of options from_env accepts.                          *)
EXTENDS Speculation

CONSTANTS a, b, e, Widths, Depths

(* Paths over a and b that never repeat with the period of a window; an    *)
(* end-of-sequence token at position n, or nowhere.                        *)
Letters == <<a, a, b, b, a, b, a, a, b, b>>
Path(n) == [i \in 1..(MaxContext + 1) |-> IF i = n THEN e ELSE Letters[i]]

MCToken == {a, b, e}
MCPaths == {Path(n) : n \in {0, PromptLen + 1, PromptLen + 3, PromptLen + MaxNew}}

Options == [lookahead : {TRUE}, width : Widths, dynamic : BOOLEAN,
            draftLayers : BOOLEAN, sidecar : BOOLEAN, sidecarTree : BOOLEAN,
            sidecarAuto : BOOLEAN, margin : BOOLEAN, draftModel : BOOLEAN,
            ngram : BOOLEAN, tree : BOOLEAN, depth : Depths \cup {0}]

Canon(c) == c.tree <=> c.depth # 0

(* SI_LOOKAHEAD unset.                                                     *)
NoLookahead ==
  [lookahead |-> FALSE, width |-> 0, dynamic |-> FALSE,
   draftLayers |-> FALSE, sidecar |-> FALSE, sidecarTree |-> FALSE,
   sidecarAuto |-> FALSE, margin |-> FALSE, draftModel |-> FALSE,
   ngram |-> FALSE, tree |-> FALSE, depth |-> 0]

Schedules == {NoLookahead} \cup
  {c \in Options : Canon(c) /\ FromEnv(c) /\ ~IsJacobi(c)}

Jacobi == {c \in Options : Canon(c) /\ FromEnv(c) /\ IsJacobi(c)}
=============================================================================
