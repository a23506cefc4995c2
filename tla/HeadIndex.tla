----------------------------- MODULE HeadIndex ------------------------------
(***************************************************************************)
(* OutputHeadIndex of src/src/runtime.rs: the vocabulary head evaluated    *)
(* block by block, most promising block first, leaving out the blocks      *)
(* whose bound says that they cannot hold the argmax.                      *)
(*                                                                         *)
(* A row of the head is one number here, and so is the input: the bound    *)
(* centroid * input + radius * |input| has the shape of the code's.        *)
(* Rounding is an error chosen freely within a range, in the centroid, in  *)
(* the bound and in every logit the kernel computes.  A logit may also     *)
(* overflow.                                                               *)
(***************************************************************************)
EXTENDS Integers, FiniteSetsExt

CONSTANTS
  Rows,         \* rows of the head
  BlockRows,    \* rows of a block (256)
  Weights,      \* the weights explored
  Inputs,       \* the inputs explored
  KernelError,  \* largest error of a logit
  BoundError,   \* largest error of a bound
  Margin,       \* what is added to a bound before a block is left out (1e-2)
  NegInf, Inf   \* the infinities

(* The comment at the margin says what it has to cover.                    *)
ASSUME HeadAssumption ==
  /\ Rows \in Nat \ {0}
  /\ BlockRows \in Nat \ {0}
  /\ Weights \subseteq Int
  /\ Inputs \subseteq Int
  /\ KernelError \in Nat
  /\ BoundError \in Nat
  /\ Margin \in Nat
  /\ Margin >= KernelError + BoundError
  /\ NegInf \notin Int
  /\ Inf \notin Int
  /\ NegInf # Inf

VARIABLES
  weight,    \* the head, row by row
  centroid,  \* the mean of every block, rounded
  input,
  bounds,    \* the bound of every block
  pending,   \* blocks the search has not reached
  skipped,   \* blocks it left out
  logits,
  best       \* the largest logit so far

head == <<weight, centroid, input, bounds>>
vars == <<weight, centroid, input, bounds, pending, skipped, logits, best>>

Row == 0..(Rows - 1)
BlockOf(r) == r \div BlockRows
Block == {BlockOf(r) : r \in Row}
RowsOf(k) == {r \in Row : BlockOf(r) = k}

Abs(n) == IF n < 0 THEN -n ELSE n

(* A value is finite, or an infinity.                                      *)
Exceeds(v, u) ==
  /\ u # Inf /\ v # NegInf
  /\ v = Inf \/ u = NegInf \/ v > u

(* What the kernel may compute for a row.                                  *)
Computable(r) ==
  {weight[r] * input + e : e \in -KernelError..KernelError} \cup {Inf}

(* The mean of a block, rounded either way.                                *)
Mean(w, k, c) ==
  LET n == Cardinality(RowsOf(k)) IN
  Abs(n * c - MapThenSumSet(LAMBDA r : w[r], RowsOf(k))) < n

(* The radius is the largest distance from the centroid.                   *)
Covers(w, k, c, radius) ==
  /\ \A r \in RowsOf(k) : Abs(w[r] - c) <= radius
  /\ \E r \in RowsOf(k) : Abs(w[r] - c) = radius

Lowest == Min(Weights)
Highest == Max(Weights)

(* build, and the first half of search.                                    *)
Init ==
  /\ weight \in [Row -> Weights]
  /\ centroid \in [Block -> Lowest..Highest]
  /\ \A k \in Block : Mean(weight, k, centroid[k])
  /\ input \in Inputs
  /\ \E radius \in [Block -> 0..(Highest - Lowest)],
        e \in [Block -> -BoundError..BoundError] :
       /\ \A k \in Block : Covers(weight, k, centroid[k], radius[k])
       /\ bounds = [k \in Block |->
                      centroid[k] * input + radius[k] * Abs(input) + e[k]]
  /\ pending = Block
  /\ skipped = {}
  /\ logits = [r \in Row |-> NegInf]
  /\ best = NegInf

(* One of the most promising blocks: the sort is not stable.               *)
First(k) == k \in pending /\ \A other \in pending : bounds[other] <= bounds[k]

(* A fault for comparison: no margin.                                      *)
HopelessTight(k) == best \in Int /\ bounds[k] < best

(* A block is left out only below a finite best.                           *)
Hopeless(k) == best \in Int /\ bounds[k] + Margin < best

(* best follows the rows of a block; v is the largest it meets.            *)
Raised(f, k, v) ==
  /\ v \in {f[r] : r \in RowsOf(k)} \cup {best}
  /\ ~Exceeds(best, v)
  /\ \A r \in RowsOf(k) : ~Exceeds(f[r], v)

Skip(k) ==
  /\ First(k)
  /\ Hopeless(k)
  /\ pending' = pending \ {k}
  /\ skipped' = skipped \cup {k}
  /\ UNCHANGED <<weight, centroid, input, bounds, logits, best>>

Evaluate(k) ==
  /\ First(k)
  /\ ~Hopeless(k)
  /\ pending' = pending \ {k}
  /\ \E value \in [RowsOf(k) -> UNION {Computable(r) : r \in RowsOf(k)}] :
       /\ \A r \in RowsOf(k) : value[r] \in Computable(r)
       /\ logits' = [r \in Row |-> IF r \in RowsOf(k) THEN value[r] ELSE logits[r]]
  /\ \E v \in {logits'[r] : r \in RowsOf(k)} \cup {best} :
       Raised(logits', k, v) /\ best' = v
  /\ UNCHANGED <<weight, centroid, input, bounds, skipped>>

Done == pending = {} /\ UNCHANGED vars

Next == (\E k \in Block : Skip(k) \/ Evaluate(k)) \/ Done

Spec == Init /\ [][Next]_vars

-----------------------------------------------------------------------------
(* argmax: of the finite values, the last of the largest.                  *)
IsArgmax(f, r) ==
  /\ f[r] \in Int
  /\ \A s \in Row : f[s] \in Int => f[s] <= f[r] /\ (s > r => f[s] < f[r])

(* The values c of the rows that were left out, filled in.                 *)
Left == {r \in Row : BlockOf(r) \in skipped}
Completions == {c \in [Left -> UNION {Computable(r) : r \in Left}] :
              \A r \in Left : c[r] \in Computable(r)}
Full(c) == [r \in Row |-> IF r \in Left THEN c[r] ELSE logits[r]]

(* Every logit is one the kernel may have computed, or none; best is one   *)
(* of them.                                                                *)
TypeOK ==
  /\ pending \subseteq Block
  /\ skipped \subseteq Block \ pending
  /\ bounds \in [Block -> Int]
  /\ \A r \in Row :
       IF BlockOf(r) \in pending \cup skipped THEN logits[r] = NegInf
                                              ELSE logits[r] \in Computable(r)
  /\ best \in {logits[r] : r \in Row} \cup {NegInf}
  /\ \A r \in Row : ~Exceeds(logits[r], best)

(* What the index leaves out never changes the token: whatever the kernel  *)
(* would have computed for the rows that were left out, the argmax of the  *)
(* whole head is the argmax of the partial logits, ties, rounding and      *)
(* overflow included; and there is one when the whole head has one.        *)
HeadExact ==
  pending = {} =>
    \A c \in Completions, r \in Row : IsArgmax(Full(c), r) <=> IsArgmax(logits, r)

(* The search may stop at the first block it leaves out: in the order of   *)
(* the bounds no later block is evaluated.                                 *)
SkipsAreFinal == [][skipped # {} => UNCHANGED logits]_vars
=============================================================================
