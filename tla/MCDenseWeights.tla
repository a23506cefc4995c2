--------------------------- MODULE MCDenseWeights ---------------------------
(* The dense runtime for TLC: where it finds its weights, what is planned  *)
(* for its layers, or the search in its output head.  A behaviour has one  *)
(* of them.  The head: blocks of two rows and a last one of one; uneven    *)
(* weights, so that means are rounded; inputs of both signs.               *)
EXTENDS LayerPlanner

VARIABLE side

MCWeights == {-4, 0, 3}
MCInputs == {-1, 2}

HeadIdle ==
  /\ weight = << >> /\ centroid = << >> /\ input = 0 /\ bounds = << >>
  /\ pending = Block /\ skipped = {} /\ logits = << >> /\ best = NegInf
DenseIdle ==
  options = << >> /\ model = << >> /\ call = << >> /\ todo = << >> /\ reads = << >> /\ step = "none"
PlanIdle ==
  /\ bytes = << >> /\ budget = 0 /\ layer = 0 /\ steps = << >> /\ actions = << >>
  /\ resident = {} /\ peak = 0 /\ plan = "none"

DenseRunInit ==
  \/ side = "search" /\ Init /\ DenseIdle /\ PlanIdle
  \/ side = "sources" /\ DenseInit /\ HeadIdle /\ PlanIdle
  \/ side = "plan" /\ PlanInit /\ HeadIdle /\ DenseIdle

DenseRunNext ==
  /\ UNCHANGED side
  /\ \/ side = "search" /\ Next /\ UNCHANGED <<dense_vars, plan_vars>>
     \/ side = "sources" /\ DenseNext /\ UNCHANGED <<vars, plan_vars>>
     \/ side = "plan" /\ PlanNext /\ UNCHANGED <<vars, dense_vars>>

DenseRunSpec == DenseRunInit /\ [][DenseRunNext]_<<vars, dense_vars, plan_vars, side>>
=============================================================================
