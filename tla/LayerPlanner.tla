---------------------------- MODULE LayerPlanner ----------------------------
(***************************************************************************)
(* The sequential layer plan of src/src/planner.rs: a trace of transfers,  *)
(* executions and evictions, with what it leaves in Metal memory checked   *)
(* action by action, made for the layers of the dense runtime              *)
(* (plan_layer_stream).  Sizes are u64: the sum of a layer is checked for  *)
(* overflow before anything is recorded for it.                            *)
(***************************************************************************)
EXTENDS DenseWeights

CONSTANTS
  Sizes,    \* sizes of tensors explored
  Budgets,  \* Metal budgets explored
  Largest   \* the largest u64

ASSUME PlannerAssumption ==
  /\ Sizes \subseteq Nat
  /\ Budgets \subseteq 0..Largest
  /\ Largest \in Nat

VARIABLES
  bytes,     \* size of every tensor of the model
  budget,
  layer,     \* the layer that is planned
  steps,     \* what is left to record for it
  actions,   \* the trace
  resident,  \* what the trace has in Metal memory
  peak,      \* the largest size of that
  plan       \* "begun", "planned" or "refused"

plan_vars == <<bytes, budget, layer, steps, actions, resident, peak, plan>>

(* The tensors of a layer in the order of its execution.                   *)
TensorSuffixes ==
  <<"norm", "q", "k", "v", "q_norm", "k_norm", "o", "post_norm", "gate", "up", "down">>
Tensors(l) == [i \in DOMAIN TensorSuffixes |-> <<l, TensorSuffixes[i]>>]
Norms == {"norm", "q_norm", "k_norm", "post_norm"}

SizeOf(tensors) == MapThenSumSet(LAMBDA t : bytes[t], tensors)

-----------------------------------------------------------------------------
(* PlannerTrace::record refuses to execute or to evict what is not there.  *)
Recordable(a) == a.kind = "prefetch" \/ ToSet(a.tensors) \subseteq resident

Record(a) ==
  /\ actions' = Append(actions, a)
  /\ resident' = CASE a.kind = "prefetch" -> resident \cup ToSet(a.tensors)
                   [] a.kind = "evict" -> resident \ ToSet(a.tensors)
                   [] OTHER -> resident
  /\ peak' = IF a.kind = "prefetch" THEN Max({peak, SizeOf(resident')}) ELSE peak

Action(kind, tensors) == [kind |-> kind, tensors |-> tensors]

(* A fault for comparison: a layer is released after the next has arrived. *)
LayerStepsLate(l) ==
  [i \in DOMAIN TensorSuffixes |-> Action("prefetch", <<Tensors(l)[i]>>)]
    \o <<Action("execute", Tensors(l))>>
    \o (IF l = 0 THEN <<>>
        ELSE [i \in DOMAIN TensorSuffixes |-> Action("evict", <<Tensors(l - 1)[i]>>)])

(* One layer of plan_sequential_layers.                                    *)
LayerSteps(l) ==
  [i \in DOMAIN TensorSuffixes |-> Action("prefetch", <<Tensors(l)[i]>>)]
    \o <<Action("execute", Tensors(l))>>
    \o [i \in DOMAIN TensorSuffixes |-> Action("evict", <<Tensors(l)[i]>>)]

(* A fault for comparison: the sum of the sizes wraps around.              *)
TooLargeWrapped(l) == SizeOf(ToSet(Tensors(l))) % (Largest + 1) > budget

TooLarge(l) ==
  LET size == SizeOf(ToSet(Tensors(l))) IN size > Largest \/ size > budget

-----------------------------------------------------------------------------
(* The matrices of a layer have one size here, and its norms another.      *)
PlanInit ==
  /\ \E matrix, norm \in [0..(Depth - 1) -> Sizes] :
       bytes = [t \in UNION {ToSet(Tensors(l)) : l \in 0..(Depth - 1)} |->
                  IF t[2] \in Norms THEN norm[t[1]] ELSE matrix[t[1]]]
  /\ budget \in Budgets
  /\ layer = 0 /\ steps = <<>> /\ actions = <<>> /\ resident = {} /\ peak = 0
  /\ plan = "begun"

(* The sizes of a layer are checked before its actions are recorded.       *)
PlanLayer ==
  /\ plan = "begun" /\ steps = <<>> /\ layer < Depth
  /\ IF budget = 0 \/ TooLarge(layer)
     THEN plan' = "refused" /\ UNCHANGED <<layer, steps>>
     ELSE steps' = LayerSteps(layer) /\ layer' = layer + 1 /\ UNCHANGED plan
  /\ UNCHANGED <<bytes, budget, actions, resident, peak>>

RecordAction ==
  /\ plan = "begun" /\ steps # <<>>
  /\ IF Recordable(Head(steps))
     THEN Record(Head(steps)) /\ steps' = Tail(steps) /\ UNCHANGED plan
     ELSE plan' = "refused" /\ UNCHANGED <<steps, actions, resident, peak>>
  /\ UNCHANGED <<bytes, budget, layer>>

PlanEnds ==
  /\ plan = "begun" /\ steps = <<>> /\ layer = Depth
  /\ plan' = "planned"
  /\ UNCHANGED <<bytes, budget, layer, steps, actions, resident, peak>>

PlanKept == plan # "begun" /\ UNCHANGED plan_vars

PlanNext == PlanLayer \/ RecordAction \/ PlanEnds \/ PlanKept

PlanSpec == PlanInit /\ [][PlanNext]_plan_vars

-----------------------------------------------------------------------------
Executions == {i \in DOMAIN actions : actions[i].kind = "execute"}
Before(i) == Cardinality({j \in Executions : j < i})
Matrices(l) == {<<l, Parts[i]>> : i \in DOMAIN Parts}
LayerFits(l) == SizeOf(ToSet(Tensors(l))) <= Min({budget, Largest})

(* A plan never holds more than its budget nor tensors of two layers at    *)
(* once; a finished one has executed every layer in order with every       *)
(* weight the runtime reads in it, has released everything, and its peak   *)
(* is the size of the largest layer; and one is refused only where a layer *)
(* cannot fit.                                                             *)
PlanCovers ==
  /\ SizeOf(resident) <= peak /\ peak <= budget
  /\ \A t, u \in resident : t[1] = u[1]
  /\ plan = "planned" =>
       /\ resident = {}
       /\ Cardinality(Executions) = Depth
       /\ \A i \in Executions :
            /\ Matrices(Before(i)) \subseteq ToSet(actions[i].tensors)
            /\ \A t \in ToSet(actions[i].tensors) : t[1] = Before(i)
       /\ peak = Max({SizeOf(ToSet(Tensors(l))) : l \in 0..(Depth - 1)})
  /\ plan = "refused" => budget = 0 \/ \E l \in 0..(Depth - 1) : ~LayerFits(l)
=============================================================================
