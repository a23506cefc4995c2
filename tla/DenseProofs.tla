----------------------------- MODULE DenseProofs -----------------------------
(***************************************************************************)
(* The dense runtime between its files and its head: the index of the head *)
(* is exact; a traversal reads every matrix of every layer whole, once and *)
(* in order, in pieces no longer than a chunk and from the source that the *)
(* switches name; and the sequential plan of its layers.                   *)
(***************************************************************************)
EXTENDS LayerPlanner, TLAPS, WellFoundedInduction, SequenceTheorems, FiniteSetTheorems

(* A bound bounds what it should, up to its own rounding.                  *)
BoundsHold ==
  /\ weight \in [Row -> Int]
  /\ input \in Int
  /\ bounds \in [Block -> Int]
  /\ \A r \in Row : weight[r] * input <= bounds[BlockOf(r)] + BoundError

(* Below every block that was left out there is a row that was computed.   *)
(* best itself may have become infinite since.                             *)
SkippedBelow ==
  \A k \in skipped :
    \E r \in Row : /\ BlockOf(r) \notin pending \cup skipped
                   /\ logits[r] \in Int
                   /\ bounds[k] + Margin < logits[r]

(* After the first block that is left out, all that follow are.            *)
RestHopeless == skipped # {} => \A k \in pending : Hopeless(k)

IInv == TypeOK /\ BoundsHold /\ SkippedBelow /\ RestHopeless

(* In one dimension: a row is no further from the centroid than the radius. *)
LEMMA Radius ==
  ASSUME NEW w \in Int, NEW c \in Int, NEW x \in Int, NEW radius \in Int,
         Abs(w - c) <= radius
  PROVE  w * x <= c * x + radius * Abs(x)
<1>1. w - c <= radius /\ c - w <= radius
  BY DEF Abs
<1>2. CASE x >= 0
  <2>1. (radius - (w - c)) * x >= 0
    BY <1>1, <1>2
  <2>2. (radius - (w - c)) * x = radius * x - w * x + c * x
    OBVIOUS
  <2> QED BY <1>2, <2>1, <2>2 DEF Abs
<1>3. CASE x < 0
  <2>1. (radius - (c - w)) * (-x) >= 0
    BY <1>1, <1>3
  <2>2. (radius - (c - w)) * (-x) = radius * (-x) + c * x - w * x
    OBVIOUS
  <2> QED BY <1>3, <2>1, <2>2 DEF Abs
<1> QED BY <1>2, <1>3

(* Rows and blocks are what they seem.                                     *)
LEMMA Blocks ==
  /\ Row \subseteq Int
  /\ \A r \in Row : BlockOf(r) \in Block /\ r \in RowsOf(BlockOf(r))
  /\ \A k \in Block : \A r \in RowsOf(k) : r \in Row /\ BlockOf(r) = k
BY DEF Row, Block, RowsOf

(* A search starts with blocks whose bounds hold and nothing skipped.      *)
LEMMA InitInv == Init => IInv
<1> SUFFICES ASSUME Init PROVE IInv
  OBVIOUS
<1> USE HeadAssumption
<1>1. /\ weight \in [Row -> Int] /\ input \in Int
      /\ centroid \in [Block -> Int]
  <2>1. weight \in [Row -> Weights] /\ input \in Inputs /\ Weights \subseteq Int
    BY DEF Init
  <2>2. \A a, b : a..b \subseteq Int
    OBVIOUS
  <2>3. centroid \in [Block -> Int]
    BY <2>2 DEF Init
  <2> QED BY <2>1, <2>3
<1>2. PICK radius \in [Block -> 0..(Highest - Lowest)],
           e \in [Block -> -BoundError..BoundError] :
        /\ \A k \in Block : Covers(weight, k, centroid[k], radius[k])
        /\ bounds = [k \in Block |->
                       centroid[k] * input + radius[k] * Abs(input) + e[k]]
  BY DEF Init
<1>3. \A k \in Block : radius[k] \in Int /\ e[k] \in Int /\ -BoundError <= e[k]
  BY <1>2
<1>4. Abs(input) \in Int
  BY <1>1 DEF Abs
<1>5. bounds \in [Block -> Int]
  BY <1>1, <1>2, <1>3, <1>4
<1>6. ASSUME NEW r \in Row
      PROVE  weight[r] * input <= bounds[BlockOf(r)] + BoundError
  <2> DEFINE k == BlockOf(r)
  <2>1. k \in Block /\ r \in RowsOf(k)
    BY Blocks
  <2>2. Abs(weight[r] - centroid[k]) <= radius[k]
    BY <1>2, <2>1 DEF Covers
  <2>3. weight[r] * input <= centroid[k] * input + radius[k] * Abs(input)
    BY <1>1, <1>3, <2>1, <2>2, Radius
  <2>4. bounds[k] = centroid[k] * input + radius[k] * Abs(input) + e[k]
    BY <1>2, <2>1
  <2>5. /\ weight[r] * input \in Int /\ centroid[k] * input \in Int
        /\ radius[k] * Abs(input) \in Int
    BY <1>1, <1>3, <1>4, <2>1
  <2> HIDE DEF k
  <2> QED BY <1>3, <2>1, <2>3, <2>4, <2>5 DEF k
<1>7. TypeOK
  BY <1>5, Blocks DEF Init, TypeOK, Exceeds
<1> QED BY <1>1, <1>5, <1>6, <1>7 DEF Init, IInv, BoundsHold, SkippedBelow, RestHopeless

(* Leaving a block out: best is the logit of some row, which stays.        *)
LEMMA SkipKeeps == ASSUME IInv, NEW k \in Block, Skip(k) PROVE IInv'
<1> USE HeadAssumption
<1>1. /\ k \in pending /\ \A other \in pending : bounds[other] <= bounds[k]
      /\ best \in Int /\ bounds[k] + Margin < best
      /\ pending' = pending \ {k} /\ skipped' = skipped \cup {k}
      /\ UNCHANGED <<weight, centroid, input, bounds, logits, best>>
  BY DEF Skip, First, Hopeless
<1>2. TypeOK'
  BY <1>1, Blocks DEF IInv, TypeOK, Computable
<1>3. BoundsHold'
  BY <1>1 DEF IInv, BoundsHold
<1>4. PICK r \in Row : logits[r] = best
  BY <1>1 DEF IInv, TypeOK
<1>5. BlockOf(r) \notin pending \cup skipped
  BY <1>1, <1>4 DEF IInv, TypeOK
<1>6. SkippedBelow'
  BY <1>1, <1>4, <1>5 DEF IInv, SkippedBelow
<1>7. RestHopeless'
  BY <1>1 DEF IInv, TypeOK, RestHopeless, Hopeless
<1> QED BY <1>2, <1>3, <1>6, <1>7 DEF IInv

(* Evaluating a block: nothing was left out before, and rows computed      *)
(* earlier keep their logits.                                              *)
LEMMA EvaluateKeeps == ASSUME IInv, NEW k \in Block, Evaluate(k) PROVE IInv'
<1> USE HeadAssumption
<1>1. /\ k \in pending /\ ~Hopeless(k)
      /\ pending' = pending \ {k}
      /\ UNCHANGED <<weight, centroid, input, bounds, skipped>>
  BY DEF Evaluate, First
<1>2. skipped = {}
  BY <1>1 DEF IInv, RestHopeless
<1>3. PICK value \in [RowsOf(k) -> UNION {Computable(r) : r \in RowsOf(k)}] :
        /\ \A r \in RowsOf(k) : value[r] \in Computable(r)
        /\ logits' = [r \in Row |-> IF r \in RowsOf(k) THEN value[r] ELSE logits[r]]
  BY DEF Evaluate
<1>4. /\ best' \in {logits'[r] : r \in RowsOf(k)} \cup {best}
      /\ ~Exceeds(best, best')
      /\ \A r \in RowsOf(k) : ~Exceeds(logits'[r], best')
  BY DEF Evaluate, Raised
<1>5. \A r \in Row : Computable(r)' = Computable(r)
  BY <1>1 DEF Computable
<1>6. ASSUME NEW r \in Row
      PROVE  IF BlockOf(r) \in pending' \cup skipped' THEN logits'[r] = NegInf
                                                     ELSE logits'[r] \in Computable(r)'
  <2>1. CASE r \in RowsOf(k)
    BY <1>1, <1>2, <1>3, <1>5, <2>1, Blocks DEF IInv, TypeOK
  <2>2. CASE r \notin RowsOf(k)
    BY <1>1, <1>2, <1>3, <1>5, <2>2, Blocks DEF IInv, TypeOK
  <2> QED BY <2>1, <2>2
<1>7. \A r \in Row : logits[r] \in Int \cup {Inf, NegInf} /\ logits'[r] \in Int \cup {Inf, NegInf}
  BY <1>1, <1>3, <1>6, Blocks DEF IInv, TypeOK, BoundsHold, Computable
<1>8. best \in Int \cup {Inf, NegInf} /\ best' \in Int \cup {Inf, NegInf}
  BY <1>4, <1>7, Blocks DEF IInv, TypeOK
<1>9. best' \in {logits'[r] : r \in Row} \cup {NegInf}
  <2>1. CASE best' = best
    <3>1. CASE best = NegInf
      BY <2>1, <3>1
    <3>2. CASE best # NegInf
      <4>1. PICK r \in Row : logits[r] = best
        BY <3>2 DEF IInv, TypeOK
      <4>2. r \notin RowsOf(k)
        BY <1>1, <3>2, <4>1, Blocks DEF IInv, TypeOK
      <4> QED BY <1>3, <2>1, <4>1, <4>2
    <3> QED BY <3>1, <3>2
  <2>2. CASE best' # best
    BY <1>4, <2>2, Blocks
  <2> QED BY <2>1, <2>2
<1>10. \A r \in Row : ~Exceeds(logits'[r], best')
  <2> TAKE r \in Row
  <2>1. CASE r \in RowsOf(k)
    BY <1>4, <2>1
  <2>2. CASE r \notin RowsOf(k)
    <3>1. logits'[r] = logits[r] /\ ~Exceeds(logits[r], best)
      BY <1>3, <2>2 DEF IInv, TypeOK
    <3> QED BY <1>4, <1>7, <1>8, <3>1 DEF Exceeds
  <2> QED BY <2>1, <2>2
<1>11. TypeOK'
  BY <1>1, <1>2, <1>6, <1>9, <1>10 DEF IInv, TypeOK, Exceeds
<1>12. BoundsHold'
  BY <1>1 DEF IInv, BoundsHold
<1>13. SkippedBelow' /\ RestHopeless'
  BY <1>1, <1>2 DEF SkippedBelow, RestHopeless
<1> QED BY <1>11, <1>12, <1>13 DEF IInv

(* Skipping a block, evaluating one and beginning a search all keep it.    *)
LEMMA StepKeeps == IInv /\ [Next]_vars => IInv'
<1> SUFFICES ASSUME IInv, [Next]_vars PROVE IInv'
  OBVIOUS
<1>1. CASE UNCHANGED vars
  BY <1>1 DEF vars, IInv, TypeOK, BoundsHold, SkippedBelow, RestHopeless, Hopeless,
              Exceeds, Computable
<1>2. CASE Next
  BY <1>1, <1>2, SkipKeeps, EvaluateKeeps DEF Next, Done
<1> QED BY <1>1, <1>2

(* Whatever the kernel would have computed for the rows left out, the      *)
(* argmax of the whole head is the argmax of the partial logits.           *)
LEMMA Exact == IInv => HeadExact
<1> SUFFICES ASSUME IInv, pending = {}, NEW c \in Completions, NEW r \in Row
             PROVE  IsArgmax(Full(c), r) <=> IsArgmax(logits, r)
  BY DEF HeadExact
<1> USE HeadAssumption
<1>1. \A s \in Left : s \in Row /\ c[s] \in Computable(s) /\ logits[s] = NegInf
  BY DEF Left, Completions, IInv, TypeOK
<1>2. \A s \in Row : Full(c)[s] = IF s \in Left THEN c[s] ELSE logits[s]
  BY DEF Full
<1>3. ASSUME NEW s \in Left, c[s] \in Int
      PROVE  \E t \in Row \ Left : logits[t] \in Int /\ c[s] < logits[t]
  <2>1. s \in Row /\ BlockOf(s) \in skipped /\ BlockOf(s) \in Block
    BY Blocks DEF Left
  <2>2. PICK t \in Row : /\ BlockOf(t) \notin pending \cup skipped
                         /\ logits[t] \in Int
                         /\ bounds[BlockOf(s)] + Margin < logits[t]
    BY <2>1 DEF IInv, SkippedBelow
  <2>3. PICK e \in -KernelError..KernelError : c[s] = weight[s] * input + e
    BY <1>1, <1>3 DEF Computable
  <2>4. /\ weight[s] * input \in Int /\ bounds[BlockOf(s)] \in Int
        /\ weight[s] * input <= bounds[BlockOf(s)] + BoundError
    BY <2>1 DEF IInv, BoundsHold
  <2>5. c[s] < logits[t]
    BY <2>2, <2>3, <2>4
  <2> QED BY <2>2, <2>5 DEF Left
<1>4. CASE r \in Left
  <2>1. ~IsArgmax(logits, r)
    BY <1>1, <1>4 DEF IsArgmax
  <2>2. ~IsArgmax(Full(c), r)
    <3> SUFFICES ASSUME IsArgmax(Full(c), r) PROVE FALSE
      OBVIOUS
    <3>1. c[r] \in Int
      BY <1>2, <1>4 DEF IsArgmax
    <3>2. PICK t \in Row \ Left : logits[t] \in Int /\ c[r] < logits[t]
      BY <1>3, <1>4, <3>1
    <3> QED BY <1>2, <1>4, <3>1, <3>2 DEF IsArgmax
  <2> QED BY <2>1, <2>2
<1>5. CASE r \notin Left
  <2>1. ASSUME IsArgmax(Full(c), r) PROVE IsArgmax(logits, r)
    BY <1>1, <1>2, <1>5, <2>1 DEF IsArgmax
  <2>2. ASSUME IsArgmax(logits, r) PROVE IsArgmax(Full(c), r)
    <3>1. Full(c)[r] = logits[r] /\ logits[r] \in Int
      BY <1>2, <1>5, <2>2 DEF IsArgmax
    <3>2. ASSUME NEW s \in Row, Full(c)[s] \in Int
          PROVE  Full(c)[s] <= logits[r] /\ (s > r => Full(c)[s] < logits[r])
      <4>1. CASE s \in Left
        <5>1. PICK t \in Row \ Left : logits[t] \in Int /\ c[s] < logits[t]
          BY <1>2, <1>3, <3>2, <4>1
        <5>2. logits[t] <= logits[r]
          BY <2>2, <5>1 DEF IsArgmax
        <5> QED BY <1>2, <3>1, <3>2, <4>1, <5>1, <5>2
      <4>2. CASE s \notin Left
        BY <1>2, <2>2, <3>2, <4>2 DEF IsArgmax
      <4> QED BY <4>1, <4>2
    <3> QED BY <3>1, <3>2 DEF IsArgmax
  <2> QED BY <2>1, <2>2
<1> QED BY <1>4, <1>5

(* The index never changes the token that argmax selects, for any head,    *)
(* block size, input and rounding within the margin.                       *)
THEOREM IndexExact == Spec => []HeadExact
<1>1. Init => IInv
  BY InitInv
<1>2. IInv /\ [Next]_vars => IInv'
  BY StepKeeps
<1>3. IInv => HeadExact
  BY Exact
<1> QED BY <1>1, <1>2, <1>3, PTL DEF Spec

(* best is the largest of the logits computed, and what was not computed   *)
(* is negative infinity.                                                   *)
THEOREM TypeCorrect == Spec => []TypeOK
<1>1. IInv => TypeOK
  BY DEF IInv
<1> QED BY InitInv, StepKeeps, <1>1, PTL DEF Spec

(* No block is evaluated after one that was left out.                      *)
THEOREM FirstSkipEnds == Spec => SkipsAreFinal
<1>1. IInv /\ [Next]_vars => [skipped # {} => UNCHANGED logits]_vars
  <2> SUFFICES ASSUME IInv, [Next]_vars, skipped # {} PROVE UNCHANGED logits
    OBVIOUS
  <2>1. ASSUME NEW k \in Block, Evaluate(k) PROVE FALSE
    BY <2>1 DEF IInv, RestHopeless, Evaluate, First
  <2> QED BY <2>1 DEF Next, Skip, Done, vars
<1> QED BY InitInv, StepKeeps, <1>1, PTL DEF Spec, SkipsAreFinal

-----------------------------------------------------------------------------
(* What the dense runtime reads.                                          *)
(* A set of natural numbers that is not empty has a least element: the     *)
(* form of induction used here.                                            *)
LEMMA LeastElement ==
  ASSUME NEW T \in SUBSET Nat, T # {}
  PROVE  \E m \in T : \A n \in T : m <= n
<1>1. PICK m \in T : \A n \in T : <<n, m>> \notin OpToRel(<, Nat)
  BY WFMin, NatLessThanWellFounded, Zenon
<1>2. \A n \in T : ~(n < m)
  BY <1>1, Zenon DEF OpToRel
<1> QED BY <1>2

(* A flattened sequence, by its recursion.                                 *)
Flat(f, seqs, n) ==
  f = [i \in 1..n |-> IF i = 1 THEN seqs[i] ELSE f[i - 1] \o seqs[i]]

LEMMA FlatExists ==
  ASSUME NEW seqs, NEW n \in Nat
  PROVE  \E f : Flat(f, seqs, n)
<1> DEFINE T == {k \in Nat : ~ \E f : Flat(f, seqs, k)}
<1>1. SUFFICES ASSUME T # {} PROVE FALSE
  OBVIOUS
<1>2. PICK m \in T : \A k \in T : m <= k
  BY <1>1, LeastElement
<1>3. m # 0
  <2>1. Flat([k \in 1..0 |-> 0], seqs, 0)
    BY DEF Flat
  <2> QED BY <2>1
<1>4. PICK f : Flat(f, seqs, m - 1)
  BY <1>2, <1>3
<1> DEFINE g == [k \in 1..m |-> IF k <= m - 1 THEN f[k]
                                ELSE IF k = 1 THEN seqs[k] ELSE f[m - 1] \o seqs[m]]
<1>5. ASSUME NEW k \in 1..m
      PROVE  g[k] = IF k = 1 THEN seqs[k] ELSE g[k - 1] \o seqs[k]
  <2>2. CASE k <= m - 1
    <3>1. g[k] = f[k] /\ (k # 1 => g[k - 1] = f[k - 1])
      BY <2>2
    <3>2. k \in 1..(m - 1)
      BY <2>2
    <3>3. f[k] = IF k = 1 THEN seqs[k] ELSE f[k - 1] \o seqs[k]
      BY <1>4, <3>2, Zenon DEF Flat
    <3> QED BY <3>1, <3>3, Zenon
  <2>3. CASE k = m
    <3>1. k # 1 => g[k - 1] = f[m - 1]
      BY <1>3, <2>3
    <3> QED BY <1>3, <2>3, <3>1
  <2> QED BY <2>2, <2>3
<1>6. g = [i \in 1..m |-> IF i = 1 THEN seqs[i] ELSE g[i - 1] \o seqs[i]]
  BY <1>5
<1>7. Flat(g, seqs, m)
  BY <1>6 DEF Flat
<1> QED BY <1>2, <1>7

LEMMA ConcatIs ==
  ASSUME NEW S, NEW a \in Seq(S), NEW b \in Seq(S)
  PROVE  /\ a \o b \in Seq(S)
         /\ Len(a \o b) = Len(a) + Len(b)
         /\ \A i \in 1..Len(a) : (a \o b)[i] = a[i]
         /\ \A i \in 1..Len(b) : (a \o b)[Len(a) + i] = b[i]
OBVIOUS

LEMMA FlattenIs ==
  ASSUME NEW n \in Nat \ {0}, NEW seqs, Len(seqs) = n
  PROVE  \E f : FlattenSeq(seqs) = f[n] /\ Flat(f, seqs, n)
<1> DEFINE f == CHOOSE f : Flat(f, seqs, n)
<1>1. Flat(f, seqs, n)
  BY FlatExists
<1>2. FlattenSeq(seqs) = f[n]
  BY DEF FlattenSeq, Flat
<1> HIDE DEF f
<1> QED BY <1>1, <1>2

LEMMA FlatStep ==
  ASSUME NEW n, NEW seqs, NEW f, Flat(f, seqs, n), NEW i \in 1..n
  PROVE  /\ i = 1 => f[i] = seqs[i]
         /\ i # 1 => f[i] = f[i - 1] \o seqs[i]
<1>1. f[i] = IF i = 1 THEN seqs[i] ELSE f[i - 1] \o seqs[i]
  BY Zenon DEF Flat
<1> QED BY <1>1, Zenon

LEMMA FlattenTwo ==
  ASSUME NEW s, Len(s) = 2
  PROVE  FlattenSeq(s) = s[1] \o s[2]
<1>1. PICK f : FlattenSeq(s) = f[2] /\ Flat(f, s, 2)
  <2>1. 2 \in Nat \ {0}
    OBVIOUS
  <2> QED BY <2>1, FlattenIs
<1>2. 1 \in 1..2 /\ 2 \in 1..2 /\ 2 - 1 = 1 /\ 2 # 1
  OBVIOUS
<1>3. f[1] = s[1]
  BY <1>1, <1>2 DEF Flat
<1>4. f[2] = f[1] \o s[2]
  <2>1. f[2] = f[2 - 1] \o s[2]
    BY <1>1, <1>2 DEF Flat
  <2> QED BY <1>2, <2>1
<1> QED BY <1>1, <1>3, <1>4

LEMMA FlattenThree ==
  ASSUME NEW s, Len(s) = 3
  PROVE  FlattenSeq(s) = (s[1] \o s[2]) \o s[3]
<1>1. PICK f : FlattenSeq(s) = f[3] /\ Flat(f, s, 3)
  <2>1. 3 \in Nat \ {0}
    OBVIOUS
  <2> QED BY <2>1, FlattenIs
<1>2. 1 \in 1..3 /\ 2 \in 1..3 /\ 3 \in 1..3 /\ 2 - 1 = 1 /\ 2 # 1 /\ 3 - 1 = 2 /\ 3 # 1
  OBVIOUS
<1>3. f[1] = s[1]
  BY <1>1, <1>2 DEF Flat
<1>4. f[2] = f[1] \o s[2]
  <2>1. f[2] = f[2 - 1] \o s[2]
    BY <1>1, <1>2 DEF Flat
  <2> QED BY <1>2, <2>1
<1>5. f[3] = f[2] \o s[3]
  <2>1. f[3] = f[3 - 1] \o s[3]
    BY <1>1, <1>2 DEF Flat
  <2> QED BY <1>2, <2>1
<1> QED BY <1>1, <1>3, <1>4, <1>5

Joins(c, a, b) ==
  /\ Len(a) \in Nat /\ Len(b) \in Nat /\ Len(c) = Len(a) + Len(b)
  /\ \A i \in 1..Len(a) : i \in 1..Len(c) /\ c[i] = a[i]
  /\ \A i \in 1..Len(b) : Len(a) + i \in 1..Len(c) /\ c[Len(a) + i] = b[i]
  /\ \A i \in 1..Len(c) : i \in 1..Len(a) \/ \E j \in 1..Len(b) : i = Len(a) + j

LEMMA Joined ==
  ASSUME NEW S, NEW a \in Seq(S), NEW b \in Seq(S)
  PROVE  a \o b \in Seq(S) /\ Joins(a \o b, a, b)
<1>1. Len(a) \in Nat /\ Len(b) \in Nat /\ Len(a \o b) = Len(a) + Len(b) /\ a \o b \in Seq(S)
  OBVIOUS
<1>2. /\ \A i \in 1..Len(a) : (a \o b)[i] = a[i]
      /\ \A i \in 1..Len(b) : (a \o b)[Len(a) + i] = b[i]
  BY ConcatIs
<1>3. /\ \A i \in 1..Len(a) : i \in 1..Len(a \o b)
      /\ \A i \in 1..Len(b) : Len(a) + i \in 1..Len(a \o b)
  BY <1>1
<1>4. ASSUME NEW i \in 1..Len(a \o b), i \notin 1..Len(a)
      PROVE  \E j \in 1..Len(b) : i = Len(a) + j
  <2>1. i - Len(a) \in 1..Len(b) /\ i = Len(a) + (i - Len(a))
    BY <1>1, <1>4
  <2> QED BY <2>1
<1> DEFINE c == a \o b
<1>5. /\ c \in Seq(S) /\ Len(a) \in Nat /\ Len(b) \in Nat /\ Len(c) = Len(a) + Len(b)
      /\ \A i \in 1..Len(a) : i \in 1..Len(c) /\ c[i] = a[i]
      /\ \A i \in 1..Len(b) : Len(a) + i \in 1..Len(c) /\ c[Len(a) + i] = b[i]
  BY <1>1, <1>2, <1>3
<1>6. \A i \in 1..Len(c) : i \in 1..Len(a) \/ \E j \in 1..Len(b) : i = Len(a) + j
  BY <1>4
<1> HIDE DEF c
<1>7. Joins(c, a, b)
  BY <1>5, <1>6 DEF Joins
<1> QED BY <1>5, <1>7 DEF c

-----------------------------------------------------------------------------
(* Which rows a sequence of reads has read, and how often.                 *)
ReadSet ==
  [weight : ResidentWeights, rows : SUBSET Row, from : {"kept", "staged", "mapped"},
   vectors : Nat]
Hit(read, w, r) == read.weight = w /\ r \in read.rows
Never(s, w, r) == \A i \in 1..Len(s) : ~Hit(s[i], w, r)
AtMostOnce(s, w, r) ==
  \A i, j \in 1..Len(s) : Hit(s[i], w, r) /\ Hit(s[j], w, r) => i = j
Once(s, w, r) == AtMostOnce(s, w, r) /\ \E i \in 1..Len(s) : Hit(s[i], w, r)

LEMMA HitsJoined ==
  ASSUME NEW S, NEW a \in Seq(S), NEW b \in Seq(S), NEW w, NEW r
  PROVE  /\ Never(a, w, r) /\ Never(b, w, r) => Never(a \o b, w, r)
         /\ AtMostOnce(a, w, r) /\ Never(b, w, r) => AtMostOnce(a \o b, w, r)
         /\ Never(a, w, r) /\ AtMostOnce(b, w, r) => AtMostOnce(a \o b, w, r)
         /\ Once(a, w, r) /\ Never(b, w, r) => Once(a \o b, w, r)
         /\ Never(a, w, r) /\ Once(b, w, r) => Once(a \o b, w, r)
<1> DEFINE c == a \o b
<1>1. /\ Len(a) \in Nat /\ Len(b) \in Nat
      /\ \A i \in 1..Len(a) : i \in 1..Len(c) /\ c[i] = a[i]
      /\ \A i \in 1..Len(b) : Len(a) + i \in 1..Len(c) /\ c[Len(a) + i] = b[i]
      /\ \A i \in 1..Len(c) : \/ i \in 1..Len(a)
                              \/ \E j \in 1..Len(b) : i = Len(a) + j
  <2>1. Joins(c, a, b)
    BY Joined
  <2> HIDE DEF c
  <2> QED BY <2>1 DEF Joins
<1> HIDE DEF c
<1>2. Never(a, w, r) /\ Never(b, w, r) => Never(c, w, r)
  BY <1>1 DEF Never
<1>3. ASSUME AtMostOnce(a, w, r), Never(b, w, r)
      PROVE  AtMostOnce(c, w, r)
  <2>1. \A i \in 1..Len(c) : Hit(c[i], w, r) => i \in 1..Len(a) /\ Hit(a[i], w, r)
    BY <1>1, <1>3 DEF Never
  <2> QED BY <1>3, <2>1 DEF AtMostOnce
<1>4. ASSUME Never(a, w, r), AtMostOnce(b, w, r)
      PROVE  AtMostOnce(c, w, r)
  <2>1. \A i \in 1..Len(c) : Hit(c[i], w, r) =>
          \E j \in 1..Len(b) : i = Len(a) + j /\ Hit(b[j], w, r)
    BY <1>1, <1>4 DEF Never
  <2> QED BY <1>4, <2>1 DEF AtMostOnce
<1>5. (\E i \in 1..Len(a) : Hit(a[i], w, r)) => \E i \in 1..Len(c) : Hit(c[i], w, r)
  BY <1>1
<1>6. (\E i \in 1..Len(b) : Hit(b[i], w, r)) => \E i \in 1..Len(c) : Hit(c[i], w, r)
  BY <1>1
<1> QED BY <1>2, <1>3, <1>4, <1>5, <1>6 DEF Once, c

-----------------------------------------------------------------------------
(* Where the rows of a weight are found.                                   *)
LEMMA SmallerOf ==
  ASSUME NEW a \in Int, NEW b \in Int
  PROVE  /\ Min({a, b}) \in {a, b} /\ Min({a, b}) <= a /\ Min({a, b}) <= b
         /\ a <= b => Min({a, b}) = a
<1>1. \E x \in {a, b} : \A y \in {a, b} : x <= y
  <2>1. CASE a <= b
    BY <2>1
  <2>2. CASE b <= a
    BY <2>2
  <2> QED BY <2>1, <2>2
<1>2. Min({a, b}) \in {a, b} /\ \A y \in {a, b} : Min({a, b}) <= y
  BY <1>1 DEF Min
<1> QED BY <1>2

LEMMA Division ==
  ASSUME NEW a \in Nat, NEW n \in Nat \ {0}
  PROVE  /\ a % n \in 0..(n - 1) /\ a \div n \in Nat
         /\ a = n * (a \div n) + (a % n)
OBVIOUS

LEMMA WeightsAre ==
  /\ Embed \in ResidentWeights
  /\ \A w \in ResidentWeights : w[1] \in 0..Depth
  /\ \A w \in ResidentWeights : w # Embed =>
       /\ w[1] \in 0..(Depth - 1)
       /\ \E i \in DOMAIN Parts : Parts[i] = w[2]
  /\ Embed[1] = Depth
<1>1. Embed \in ResidentWeights /\ Embed[1] = Depth
  BY DEF ResidentWeights, Embed
<1>2. ASSUME NEW w \in ResidentWeights, w # Embed
      PROVE  w[1] \in 0..(Depth - 1) /\ \E i \in DOMAIN Parts : Parts[i] = w[2]
  <2>1. w \in (0..(Depth - 1)) \X {Parts[i] : i \in DOMAIN Parts}
    BY <1>2 DEF ResidentWeights, LayerWeights
  <2> QED BY <2>1
<1>3. Depth \in Nat
  BY DenseAssumption
<1> QED BY <1>1, <1>2, <1>3

LEMMA PlaceIs ==
  ASSUME NEW w \in ResidentWeights
  PROVE  \E p \in Nat : \A r \in Nat : Place(w, r) = p + r
<1> DEFINE k == CHOOSE i \in DOMAIN Parts : Parts[i] = w[2]
           rank == IF w = Embed THEN 0 ELSE 1 + w[1] * Len(Parts) + k
<1>1. Len(Parts) = 7 /\ DOMAIN Parts = 1..7
  BY DEF Parts
<1>2. rank \in Nat
  <2>1. CASE w = Embed
    BY <2>1
  <2>2. CASE w # Embed
    <3>1. w[1] \in 0..(Depth - 1) /\ \E i \in DOMAIN Parts : Parts[i] = w[2]
      BY <2>2, WeightsAre
    <3>2. k \in 1..7
      BY <1>1, <3>1
    <3>3. w[1] \in Nat
      BY <3>1, DenseAssumption
    <3> HIDE DEF k
    <3>4. 1 + w[1] * 7 + k \in Nat
      BY <3>2, <3>3
    <3> QED BY <1>1, <2>2, <3>4
  <2> QED BY <2>1, <2>2
<1>3. \A r \in Nat : Place(w, r) = 1 + rank * Rows + r
  BY DEF Place
<1> HIDE DEF rank
<1>4. Rows \in Nat
  BY HeadAssumption
<1>5. rank * Rows \in Nat
  BY <1>2, <1>4
<1>6. 1 + rank * Rows \in Nat
  BY <1>5
<1> QED BY <1>3, <1>6

(* A view begins at a page and has the rows it is for.                     *)
LEMMA ViewIs ==
  ASSUME NEW start \in Nat, NEW count \in Nat
  PROVE  /\ View(start, count).base + View(start, count).offset = start
         /\ View(start, count).base +
              Min({View(start, count).length, View(start, count).offset + count}) =
            start + count
<1> DEFINE view == View(start, count)
           o == start % Page
           x == o + count + Page - 1
<1>1. Page \in Nat \ {0}
  BY DenseAssumption
<1>2. o \in 0..(Page - 1) /\ o \in Nat
  BY <1>1, Division
<1>3. view.base = start - o /\ view.offset = o /\ view.length = (x \div Page) * Page
  BY DEF View
<1> HIDE DEF o, view
<1>4. x \in Nat /\ x = o + count + (Page - 1)
  BY <1>1, <1>2
<1> HIDE DEF x
<1>5. x % Page \in 0..(Page - 1) /\ x \div Page \in Nat /\ x = Page * (x \div Page) + (x % Page)
  BY <1>1, <1>4, Division
<1> DEFINE q == x \div Page
           m == x % Page
<1>6. q \in Nat /\ m \in 0..(Page - 1) /\ x = q * Page + m
  BY <1>1, <1>5
<1> HIDE DEF q, m
<1> DEFINE l == q * Page
<1>7. l \in Nat
  BY <1>1, <1>6
<1>8. view.length = l /\ x = l + m
  BY <1>3, <1>6 DEF q
<1> HIDE DEF l
<1>9. o + count <= l
  BY <1>1, <1>2, <1>4, <1>6, <1>7, <1>8
<1>10. Min({o + count, l}) = o + count
  <2> DEFINE y == o + count
  <2>1. y \in Int /\ l \in Int /\ y <= l
    BY <1>2, <1>7, <1>9
  <2> HIDE DEF y
  <2>2. Min({y, l}) = y
    BY <2>1, SmallerOf
  <2> QED BY <2>2 DEF y
<1>11. {l, o + count} = {o + count, l}
  OBVIOUS
<1>12. Min({view.length, view.offset + count}) = o + count
  BY <1>3, <1>8, <1>10, <1>11
<1> QED BY <1>2, <1>3, <1>12 DEF view

Interval(first, count) == {r \in Row : first <= r /\ r < first + count}

LEMMA MappedIs ==
  ASSUME NEW w \in ResidentWeights, NEW first \in Nat, NEW count \in Nat, NEW v
  PROVE  MappedRows(w, first, count, v) = Read(w, Interval(first, count), "mapped", v)
<1>1. PICK p \in Nat : \A r \in Nat : Place(w, r) = p + r
  BY PlaceIs
<1> DEFINE view == View(Place(w, first), count)
           end == view.base + Min({view.length, view.offset + count})
           seen == (view.base + view.offset)..(end - 1)
<1>2. Place(w, first) = p + first /\ p + first \in Nat
  BY <1>1
<1>3. view.base + view.offset = p + first /\ end = p + first + count
  <2>1. PICK start \in Nat : start = Place(w, first)
    BY <1>2
  <2>2. /\ View(start, count).base + View(start, count).offset = start
        /\ View(start, count).base +
             Min({View(start, count).length, View(start, count).offset + count}) =
           start + count
    BY ViewIs
  <2>3. view = View(start, count)
    BY <2>1
  <2> QED BY <1>2, <2>1, <2>2, <2>3
<1>4. seen = (p + first)..(p + first + count - 1)
  BY <1>3
<1>5. MappedRows(w, first, count, v) = Read(w, {r \in Row : Place(w, r) \in seen}, "mapped", v)
  BY DEF MappedRows
<1> HIDE DEF seen
<1>6. ASSUME NEW r \in Row
      PROVE  Place(w, r) \in seen <=> first <= r /\ r < first + count
  <2>1. r \in Nat
    BY HeadAssumption DEF Row
  <2> QED BY <1>1, <1>4, <2>1
<1>7. {r \in Row : Place(w, r) \in seen} = Interval(first, count)
  BY <1>6 DEF Interval
<1> QED BY <1>5, <1>7

-----------------------------------------------------------------------------
(* A projection that reads every row of its weights once.                  *)
Complete(s, W, v) ==
  /\ s \in Seq(ReadSet)
  /\ \A i \in 1..Len(s) : s[i].weight \in W /\ s[i].vectors = v
  /\ \A w \in W, r \in Row : Once(s, w, r)

LEMMA CompleteJoined ==
  ASSUME NEW a, NEW V, NEW b, NEW W, NEW v,
         Complete(a, V, v), Complete(b, W, v), V \cap W = {}
  PROVE  Complete(a \o b, V \cup W, v)
<1> DEFINE c == a \o b
<1>1. a \in Seq(ReadSet) /\ b \in Seq(ReadSet)
  BY DEF Complete
<1>2. /\ c \in Seq(ReadSet)
      /\ \A i \in 1..Len(a) : c[i] = a[i]
      /\ \A i \in 1..Len(b) : c[Len(a) + i] = b[i]
      /\ \A i \in 1..Len(c) : \/ i \in 1..Len(a)
                              \/ \E j \in 1..Len(b) : i = Len(a) + j
  <2>1. c \in Seq(ReadSet) /\ Joins(c, a, b)
    BY <1>1, Joined
  <2> HIDE DEF c
  <2> QED BY <2>1 DEF Joins
<1>3. \A i \in 1..Len(a) : a[i].weight \in V /\ a[i].vectors = v
  BY DEF Complete
<1>4. \A i \in 1..Len(b) : b[i].weight \in W /\ b[i].vectors = v
  BY DEF Complete
<1>5. ASSUME NEW w \in V \cup W, NEW r \in Row PROVE Once(c, w, r)
  <2>1. CASE w \in V
    <3>1. Once(a, w, r)
      BY <2>1 DEF Complete
    <3>2. Never(b, w, r)
      BY <1>4, <2>1 DEF Never, Hit
    <3> QED BY <1>1, <3>1, <3>2, HitsJoined
  <2>2. CASE w \in W
    <3>1. Once(b, w, r)
      BY <2>2 DEF Complete
    <3>2. Never(a, w, r)
      BY <1>3, <2>2 DEF Never, Hit
    <3> QED BY <1>1, <3>1, <3>2, HitsJoined
  <2> QED BY <2>1, <2>2
<1> HIDE DEF c
<1>6. \A i \in 1..Len(c) : c[i].weight \in V \cup W /\ c[i].vectors = v
  <2> SUFFICES ASSUME NEW i \in 1..Len(c) PROVE c[i].weight \in V \cup W /\ c[i].vectors = v
    OBVIOUS
  <2>1. CASE i \in 1..Len(a)
    BY <1>2, <1>3, <2>1
  <2>2. CASE i \notin 1..Len(a)
    <3>1. PICK j \in 1..Len(b) : i = Len(a) + j
      BY <1>2, <2>2
    <3>2. c[i] = b[j]
      BY <1>2, <3>1
    <3> QED BY <1>4, <3>2
  <2> QED BY <2>1, <2>2
<1>7. Complete(c, V \cup W, v)
  BY <1>2, <1>5, <1>6 DEF Complete
<1> QED BY <1>7 DEF c

(* Weights that are read whole, one after the other.                       *)
Distinct(weights) ==
  /\ weights \in Seq(ResidentWeights)
  /\ \A i, j \in 1..Len(weights) : weights[i] = weights[j] => i = j

LEMMA EachIs ==
  ASSUME NEW weights, Distinct(weights), NEW from \in {"kept", "staged", "mapped"},
         NEW v \in Nat
  PROVE  /\ Complete(Each(weights, from, v), ToSet(weights), v)
         /\ \A i \in 1..Len(Each(weights, from, v)) :
              /\ Each(weights, from, v)[i].from = from
              /\ Each(weights, from, v)[i].weight \in ToSet(weights)
<1> DEFINE s == Each(weights, from, v)
           n == Len(weights)
<1>1. n \in Nat /\ DOMAIN weights = 1..n /\ \A i \in 1..n : weights[i] \in ResidentWeights
  BY DEF Distinct
<1> HIDE DEF n
<1>2. s = [i \in 1..n |-> Read(weights[i], Row, from, v)]
  BY <1>1 DEF Each
<1>3. \A i \in 1..n : Read(weights[i], Row, from, v) \in ReadSet
  BY <1>1 DEF Read, ReadSet
<1> HIDE DEF s
<1>4. s \in Seq(ReadSet) /\ Len(s) = n
  BY <1>1, <1>2, <1>3
<1>5. \A i \in 1..n : /\ s[i].weight = weights[i] /\ s[i].vectors = v /\ s[i].from = from
                      /\ s[i].rows = Row
  BY <1>2 DEF Read
<1>6. \A i \in 1..n : weights[i] \in ToSet(weights)
  BY <1>1 DEF ToSet
<1>7. ASSUME NEW w \in ToSet(weights), NEW r \in Row PROVE Once(s, w, r)
  <2>1. PICK i \in 1..n : weights[i] = w
    BY <1>1 DEF ToSet
  <2>2. \A j \in 1..n : Hit(s[j], w, r) => j = i
    BY <1>5, <2>1 DEF Hit, Distinct, n
  <2>3. Hit(s[i], w, r)
    BY <1>5, <2>1 DEF Hit
  <2> QED BY <1>4, <2>2, <2>3 DEF Once, AtMostOnce
<1>8. Complete(s, ToSet(weights), v)
  BY <1>4, <1>5, <1>6, <1>7 DEF Complete
<1>9. \A i \in 1..Len(s) : s[i].from = from /\ s[i].weight \in ToSet(weights)
  BY <1>4, <1>5, <1>6
<1> QED BY <1>8, <1>9 DEF s

LEMMA MappedWholeIs ==
  ASSUME NEW weights, Distinct(weights), NEW v
  PROVE  MappedWhole(weights, v) = Each(weights, "mapped", v)
<1>1. Rows \in Nat /\ 0 \in Nat
  BY HeadAssumption
<1>2. Interval(0, Rows) = Row
  BY <1>1 DEF Interval, Row
<1>3. DOMAIN weights = 1..Len(weights) /\ \A i \in 1..Len(weights) : weights[i] \in ResidentWeights
  BY DEF Distinct
<1>4. \A i \in 1..Len(weights) :
        MappedRows(weights[i], 0, Rows, v) = Read(weights[i], Row, "mapped", v)
  BY <1>1, <1>2, <1>3, MappedIs
<1> QED BY <1>3, <1>4 DEF MappedWhole, Each

-----------------------------------------------------------------------------
(* A weight by chunks of rows.                                             *)
LEMMA SmallerFactor ==
  ASSUME NEW c \in Nat, NEW a \in Int, NEW b \in Int, c * a < c * b
  PROVE  a < b
<1>1. SUFFICES ASSUME b <= a PROVE FALSE
  OBVIOUS
<1>2. PICK d \in Nat : a = b + d
  <2>1. a - b \in Nat /\ a = b + (a - b)
    BY <1>1
  <2> QED BY <2>1
<1>3. c * a = c * b + c * d /\ c * d \in Nat /\ c * a \in Int /\ c * b \in Int
  BY <1>2
<1> QED BY <1>3

LEMMA IntervalIs ==
  ASSUME NEW first \in Nat, NEW count \in Nat
  PROVE  /\ Interval(first, count) \in SUBSET Row
         /\ Cardinality(Interval(first, count)) <= count
         /\ Cardinality(Interval(first, count)) \in Nat
<1>1. Row \subseteq Int
  BY HeadAssumption DEF Row
<1>2. Interval(first, count) \subseteq first..(first + count - 1)
  <2>1. SUFFICES ASSUME NEW r \in Interval(first, count)
                 PROVE  r \in first..(first + count - 1)
    OBVIOUS
  <2>2. r \in Row /\ first <= r /\ r < first + count
    BY <2>1 DEF Interval
  <2>3. r \in Int
    BY <1>1, <2>2
  <2> QED BY <2>2, <2>3
<1>3. first \in Int /\ first + count - 1 \in Int
  OBVIOUS
<1>4. /\ IsFiniteSet(first..(first + count - 1))
      /\ Cardinality(first..(first + count - 1)) =
           IF first > first + count - 1 THEN 0 ELSE (first + count - 1) - first + 1
  BY <1>3, FS_Interval
<1>5. Cardinality(first..(first + count - 1)) = count
  BY <1>4
<1>6. /\ IsFiniteSet(Interval(first, count))
      /\ Cardinality(Interval(first, count)) <= Cardinality(first..(first + count - 1))
  BY <1>2, <1>4, FS_Subset
<1> QED BY <1>5, <1>6, FS_CardinalityType DEF Interval

LEMMA ChunkedIs ==
  ASSUME model.chunk \in Nat \ {0}, NEW w \in ResidentWeights
  PROVE  /\ Complete(Chunked(w), {w}, 1)
         /\ \A i \in 1..Len(Chunked(w)) :
              /\ Chunked(w)[i].from = "mapped"
              /\ Cardinality(Chunked(w)[i].rows) <= model.chunk
<1> DEFINE c == model.chunk
           n == ChunkCount
           s == Chunked(w)
           x == Rows + c - 1
<1>1. Rows \in Nat \ {0} /\ c \in Nat \ {0}
  BY HeadAssumption
<1> HIDE DEF c
<1>2. x \in Nat /\ n = x \div c
  BY <1>1 DEF ChunkCount, c
<1>3. n \in Nat /\ Rows <= c * n /\ c * n <= Rows + c - 1 /\ c * n \in Nat
  <2>1. x % c \in 0..(c - 1) /\ x \div c \in Nat /\ x = c * (x \div c) + (x % c)
    BY <1>1, <1>2, Division
  <2> DEFINE m == x % c
             l == c * n
  <2>2. n \in Nat /\ m \in 0..(c - 1) /\ x = l + m
    BY <1>2, <2>1
  <2>3. l \in Nat
    BY <1>1, <2>2
  <2> HIDE DEF l, m
  <2>4. Rows <= l /\ l <= Rows + c - 1
    BY <1>1, <2>2, <2>3
  <2> QED BY <2>2, <2>3, <2>4 DEF l
<1> HIDE DEF n
<1>4. ASSUME NEW i \in 1..n
      PROVE  /\ (i - 1) * c \in Nat /\ (i - 1) * c < Rows
             /\ Min({c, Rows - (i - 1) * c}) \in Nat
             /\ Min({c, Rows - (i - 1) * c}) <= c
             /\ Interval((i - 1) * c, Min({c, Rows - (i - 1) * c})) =
                  {r \in Row : (i - 1) * c <= r /\ r < i * c}
  <2>1. PICK p \in Nat : p = i - 1
    BY <1>3
  <2> DEFINE a == p * c
  <2>2. a \in Nat /\ i * c = a + c /\ (i - 1) * c = a
    BY <1>1, <2>1
  <2>3. a < Rows
    <3>1. p + 1 <= n
      BY <1>3, <2>1
    <3>2. c * (p + 1) <= c * n
      <4>1. PICK d \in Nat : n = p + 1 + d
        <5>1. n - (p + 1) \in Nat /\ n = p + 1 + (n - (p + 1))
          BY <1>3, <3>1
        <5> QED BY <5>1
      <4>2. c * n = c * (p + 1) + c * d /\ c * d \in Nat /\ c * (p + 1) \in Nat
        BY <1>1, <4>1
      <4> QED BY <4>2
    <3>3. c * (p + 1) = a + c
      BY <1>1
    <3> HIDE DEF a
    <3> QED BY <1>1, <1>3, <2>2, <3>2, <3>3
  <2> HIDE DEF a
  <2> DEFINE k == Min({c, Rows - a})
             y == Rows - a
  <2>4. c \in Int /\ y \in Nat
    BY <1>1, <2>2, <2>3
  <2> HIDE DEF y
  <2>5. Min({c, y}) \in {c, y} /\ Min({c, y}) <= c /\ Min({c, y}) <= y
    BY <2>4, SmallerOf
  <2>6. k \in {c, y} /\ k <= c /\ k \in Nat
    BY <1>1, <2>4, <2>5 DEF y
  <2> HIDE DEF k
  <2>7. ASSUME NEW r \in Row
        PROVE  a <= r /\ r < a + k <=> a <= r /\ r < a + c
    <3>1. r \in Nat /\ r < Rows
      BY <1>1 DEF Row
    <3> QED BY <1>1, <2>2, <2>3, <2>6, <3>1 DEF y
  <2>8. Interval(a, k) = {r \in Row : a <= r /\ r < a + c}
    BY <2>7 DEF Interval
  <2> QED BY <2>2, <2>3, <2>6, <2>8 DEF k
<1>5. s = [i \in 1..n |-> Read(w, {r \in Row : (i - 1) * c <= r /\ r < i * c}, "mapped", 1)]
  <2>1. s = [i \in 1..n |-> MappedRows(w, (i - 1) * c, Min({c, Rows - (i - 1) * c}), 1)]
    BY DEF Chunked, c, n
  <2>2. ASSUME NEW i \in 1..n
        PROVE  MappedRows(w, (i - 1) * c, Min({c, Rows - (i - 1) * c}), 1) =
                 Read(w, {r \in Row : (i - 1) * c <= r /\ r < i * c}, "mapped", 1)
    <3> DEFINE a == (i - 1) * c
               k == Min({c, Rows - (i - 1) * c})
    <3>1. a \in Nat /\ k \in Nat
      BY <1>4
    <3>2. Interval(a, k) = {r \in Row : (i - 1) * c <= r /\ r < i * c}
      BY <1>4
    <3>3. MappedRows(w, a, k, 1) = Read(w, Interval(a, k), "mapped", 1)
      <4> HIDE DEF a, k
      <4> QED BY <3>1, MappedIs
    <3> QED BY <3>2, <3>3
  <2> QED BY <2>1, <2>2
<1> HIDE DEF s
<1>6. \A i \in 1..n :
        /\ s[i].weight = w /\ s[i].from = "mapped" /\ s[i].vectors = 1
        /\ s[i].rows = {r \in Row : (i - 1) * c <= r /\ r < i * c}
        /\ s[i] \in ReadSet
  BY <1>5 DEF Read, ReadSet
<1>7. s \in Seq(ReadSet) /\ Len(s) = n
  <2>1. s = [i \in 1..n |-> s[i]]
    BY <1>5, Zenon
  <2>2. \A i \in 1..n : s[i] \in ReadSet
    BY <1>6
  <2>3. n \in Nat
    BY <1>3
  <2> QED BY <2>1, <2>2, <2>3
<1>8. ASSUME NEW i \in 1..n PROVE Cardinality(s[i].rows) <= c
  <2> DEFINE a == (i - 1) * c
             k == Min({c, Rows - (i - 1) * c})
  <2>1. a \in Nat /\ k \in Nat /\ k <= c /\ s[i].rows = Interval(a, k)
    BY <1>4, <1>6
  <2> HIDE DEF a, k
  <2>2. Cardinality(Interval(a, k)) <= k /\ Cardinality(Interval(a, k)) \in Nat
    BY <2>1, IntervalIs
  <2> QED BY <1>1, <2>1, <2>2
<1>9. ASSUME NEW r \in Row PROVE Once(s, w, r)
  <2>1. r \in Nat /\ r < Rows
    BY <1>1 DEF Row
  <2>2. r % c \in 0..(c - 1) /\ r \div c \in Nat /\ r = c * (r \div c) + (r % c)
    BY <1>1, <2>1, Division
  <2>3. PICK q \in Nat : q = r \div c
    BY <2>2
  <2>4. c * q \in Nat /\ c * q <= r /\ r < c * q + c
    <3>1. c * q \in Nat
      BY <1>1
    <3> DEFINE l == c * q
               m == r % c
    <3>2. r = l + m /\ m \in 0..(c - 1) /\ l \in Nat
      BY <2>2, <2>3, <3>1
    <3> HIDE DEF l, m
    <3>3. l <= r /\ r < l + c
      BY <1>1, <3>2
    <3> QED BY <3>1, <3>3 DEF l
  <2>5. q < n
    <3>1. c * q < c * n
      BY <1>1, <1>3, <2>1, <2>4
    <3> QED BY <1>1, <1>3, <3>1, SmallerFactor
  <2> DEFINE i == q + 1
  <2>6. i \in 1..n /\ (i - 1) * c = c * q /\ i * c = c * q + c
    BY <1>1, <1>3, <2>5
  <2>7. Hit(s[i], w, r)
    BY <1>6, <2>4, <2>6 DEF Hit
  <2>8. ASSUME NEW j \in 1..n, NEW k \in 1..n, Hit(s[j], w, r), Hit(s[k], w, r)
        PROVE  j = k
    <3>1. (j - 1) * c <= r /\ r < j * c /\ (k - 1) * c <= r /\ r < k * c
      BY <1>6, <2>8 DEF Hit
    <3>2. j \in Int /\ k \in Int /\ j - 1 \in Int /\ k - 1 \in Int
      OBVIOUS
    <3>3. /\ (j - 1) * c = c * (j - 1) /\ j * c = c * j
          /\ (k - 1) * c = c * (k - 1) /\ k * c = c * k
          /\ c * (j - 1) \in Int /\ c * j \in Int /\ c * (k - 1) \in Int /\ c * k \in Int
      BY <1>1, <3>2
    <3>4. c * (j - 1) < c * k /\ c * (k - 1) < c * j
      BY <2>1, <3>1, <3>3
    <3>5. j - 1 < k /\ k - 1 < j
      BY <1>1, <3>2, <3>4, SmallerFactor
    <3> QED BY <3>2, <3>5
  <2> HIDE DEF i
  <2> QED BY <1>7, <2>6, <2>7, <2>8 DEF Once, AtMostOnce
<1>10. Complete(s, {w}, 1)
  BY <1>6, <1>7, <1>9 DEF Complete
<1> QED BY <1>6, <1>7, <1>8, <1>10 DEF s, c

-----------------------------------------------------------------------------
(* The rows of a block.                                                    *)
LEMMA BlockRowsAre ==
  ASSUME NEW k \in Block
  PROVE  /\ k \in Nat /\ k <= Rows
         /\ RowsOf(k) # {} /\ RowsOf(k) \in SUBSET Row
         /\ Min(RowsOf(k)) \in Nat /\ Cardinality(RowsOf(k)) \in Nat
         /\ Interval(Min(RowsOf(k)), Cardinality(RowsOf(k))) = RowsOf(k)
<1>1. Rows \in Nat \ {0} /\ BlockRows \in Nat \ {0}
  BY HeadAssumption
<1>2. \A r \in Row : r \in Nat /\ r < Rows
  BY <1>1 DEF Row
<1>3. PICK x \in Row : k = x \div BlockRows
  BY DEF Block, BlockOf
<1>4. \A r \in Row : /\ r \div BlockRows \in Nat /\ r % BlockRows \in 0..(BlockRows - 1)
                     /\ r = BlockRows * (r \div BlockRows) + (r % BlockRows)
  BY <1>1, <1>2, Division
<1>5. k \in Nat
  BY <1>3, <1>4
<1> DEFINE a == BlockRows * k
<1>6. a \in Nat
  BY <1>1, <1>5
<1>7. ASSUME NEW r \in Row
      PROVE  r \div BlockRows = k <=> a <= r /\ r < a + BlockRows
  <2>1. PICK q \in Nat, m \in 0..(BlockRows - 1) :
          q = r \div BlockRows /\ r = BlockRows * q + m
    BY <1>4
  <2>2. r \in Nat /\ m \in Nat /\ m < BlockRows /\ BlockRows * q \in Nat
    BY <1>1, <1>2, <2>1
  <2>3. q = k => a <= r /\ r < a + BlockRows
    <3> SUFFICES ASSUME q = k PROVE a <= r /\ r < a + BlockRows
      OBVIOUS
    <3>1. r = a + m
      BY <2>1
    <3> HIDE DEF a
    <3> QED BY <1>1, <1>6, <2>2, <3>1
  <2>4. ASSUME a <= r, r < a + BlockRows PROVE q = k
    <3> DEFINE b == BlockRows * q
    <3>1. b \in Nat /\ r = b + m /\ BlockRows * (q + 1) = b + BlockRows
          /\ BlockRows * (k + 1) = a + BlockRows
      BY <1>1, <1>5, <2>1, <2>2
    <3>2. a < b + BlockRows /\ b < a + BlockRows
      <4> HIDE DEF a, b
      <4> QED BY <1>1, <1>6, <2>2, <2>4, <3>1
    <3>3. BlockRows * k < BlockRows * (q + 1) /\ BlockRows * q < BlockRows * (k + 1)
      BY <3>1, <3>2
    <3>4. k < q + 1
      <4>1. q + 1 \in Int /\ k \in Int /\ BlockRows \in Nat
        BY <1>1, <1>5
      <4> QED BY <3>3, <4>1, SmallerFactor
    <3>5. q < k + 1
      <4>1. k + 1 \in Int /\ q \in Int /\ BlockRows \in Nat
        BY <1>1, <1>5
      <4> QED BY <3>3, <4>1, SmallerFactor
    <3> QED BY <1>5, <3>4, <3>5
  <2> QED BY <2>1, <2>3, <2>4
<1>8. a <= x /\ x < a + BlockRows
  BY <1>3, <1>7
<1>9. RowsOf(k) = {r \in Row : a <= r /\ r < a + BlockRows}
  BY <1>7 DEF RowsOf, BlockOf
<1>10. k <= Rows
  <2>1. k <= a
    <3>1. PICK d \in Nat : BlockRows = 1 + d
      <4>1. BlockRows - 1 \in Nat /\ BlockRows = 1 + (BlockRows - 1)
        BY <1>1
      <4> QED BY <4>1
    <3>2. BlockRows * k = k + d * k /\ d * k \in Nat
      BY <1>5, <3>1
    <3> QED BY <1>5, <3>2
  <2> QED BY <1>1, <1>2, <1>5, <1>6, <1>8, <2>1
<1> DEFINE end == IF a + BlockRows <= Rows THEN a + BlockRows ELSE Rows
<1> HIDE DEF a
<1>11. end \in Nat /\ a < end /\ end <= Rows
  BY <1>1, <1>2, <1>6, <1>8
<1>12. \A r \in Row : a <= r /\ r < a + BlockRows <=> a <= r /\ r < end
  BY <1>1, <1>2, <1>6
<1>13. RowsOf(k) = a..(end - 1)
  <2>1. \A r : r \in Row /\ a <= r /\ r < end <=> r \in a..(end - 1)
    <3> HIDE DEF end
    <3> QED BY <1>1, <1>6, <1>11 DEF Row
  <2> QED BY <1>9, <1>12, <2>1
<1> HIDE DEF end
<1>14. Cardinality(RowsOf(k)) = end - a
  <2>1. a \in Int /\ end - 1 \in Int
    BY <1>6, <1>11
  <2>2. Cardinality(a..(end - 1)) = IF a > end - 1 THEN 0 ELSE (end - 1) - a + 1
    BY <2>1, FS_Interval
  <2> QED BY <1>6, <1>11, <1>13, <2>2
<1>15. Min(RowsOf(k)) = a
  <2>1. a \in RowsOf(k) /\ \A r \in RowsOf(k) : a <= r /\ r \in Int
    BY <1>6, <1>11, <1>13
  <2>2. \A y \in RowsOf(k) : (\A r \in RowsOf(k) : y <= r) => y = a
    BY <1>6, <2>1
  <2> QED BY <2>1, <2>2 DEF Min
<1>16. Interval(a, end - a) = RowsOf(k)
  <2>1. a + (end - a) = end
    BY <1>6, <1>11
  <2> QED BY <1>9, <1>12, <2>1 DEF Interval
<1>17. RowsOf(k) # {} /\ RowsOf(k) \in SUBSET Row
  <2>1. a \in a..(end - 1)
    BY <1>6, <1>11
  <2> QED BY <1>9, <1>13, <2>1
<1> QED BY <1>5, <1>6, <1>10, <1>11, <1>14, <1>15, <1>16, <1>17

(* A set of blocks as a sequence.                                          *)
LEMMA BlockSequence ==
  ASSUME NEW blocks \in (SUBSET Block) \ {{}}
  PROVE  \E n \in Nat \ {0} :
           /\ SetToSeq(blocks) \in [1..n -> blocks]
           /\ \A i, j \in 1..n : SetToSeq(blocks)[i] = SetToSeq(blocks)[j] => i = j
<1>1. Rows \in Nat
  BY HeadAssumption
<1>2. blocks \in SUBSET Nat /\ \A k \in blocks : k <= Rows
  BY BlockRowsAre
<1>3. IsFiniteSet(blocks)
  BY <1>1, <1>2, FS_BoundedSetOfNaturals
<1> DEFINE n == Cardinality(blocks)
<1>4. n \in Nat /\ ExistsBijection(1..n, blocks)
  BY <1>3, FS_CardinalityType
<1>5. n # 0
  BY <1>3, FS_EmptySet
<1>6. \E f \in [1..n -> blocks] : IsInjective(f)
  BY <1>4 DEF ExistsBijection, Bijection, Injection
<1> DEFINE s == SetToSeq(blocks)
<1>7. s \in [1..n -> blocks] /\ IsInjective(s)
  BY <1>6 DEF SetToSeq
<1> HIDE DEF s, n
<1>8. \A i, j \in 1..n : s[i] = s[j] => i = j
  BY <1>7 DEF IsInjective
<1> QED BY <1>4, <1>5, <1>7, <1>8 DEF s

(* The blocks a search evaluates: no row twice, and some row.              *)
SearchedOnce(s) ==
  /\ s \in Seq(ReadSet)
  /\ \A i \in 1..Len(s) : /\ s[i].weight = Embed /\ s[i].vectors = 1
                          /\ s[i].from = "mapped"
  /\ \A r \in Row : AtMostOnce(s, Embed, r)
  /\ \E r \in Row : Once(s, Embed, r)

LEMMA SearchedIs ==
  ASSUME NEW s \in Searches
  PROVE  SearchedOnce(s)
<1>1. PICK blocks \in (SUBSET Block) \ {{}} : s = SearchedBlocks(blocks)
  BY DEF Searches
<1> DEFINE k == SetToSeq(blocks)
<1>2. PICK n \in Nat \ {0} : /\ k \in [1..n -> blocks]
                             /\ \A i, j \in 1..n : k[i] = k[j] => i = j
  BY BlockSequence
<1>3. s = [i \in DOMAIN k |->
             MappedRows(Embed, Min(RowsOf(k[i])), Cardinality(RowsOf(k[i])), 1)]
  BY <1>1 DEF SearchedBlocks
<1> HIDE DEF k
<1>4. Embed \in ResidentWeights
  BY WeightsAre
<1>5. ASSUME NEW i \in 1..n
      PROVE  /\ k[i] \in Block /\ RowsOf(k[i]) \in SUBSET Row /\ RowsOf(k[i]) # {}
             /\ MappedRows(Embed, Min(RowsOf(k[i])), Cardinality(RowsOf(k[i])), 1) =
                  Read(Embed, RowsOf(k[i]), "mapped", 1)
  <2> DEFINE b == k[i]
             a == Min(RowsOf(b))
             c == Cardinality(RowsOf(b))
  <2>1. b \in Block
    BY <1>2
  <2> HIDE DEF b
  <2>2. /\ RowsOf(b) # {} /\ RowsOf(b) \in SUBSET Row
        /\ a \in Nat /\ c \in Nat /\ Interval(a, c) = RowsOf(b)
    BY <2>1, BlockRowsAre
  <2> HIDE DEF a, c
  <2>3. MappedRows(Embed, a, c, 1) = Read(Embed, Interval(a, c), "mapped", 1)
    BY <1>4, <2>2, MappedIs
  <2> QED BY <2>1, <2>2, <2>3 DEF a, b, c
<1>6. s = [i \in 1..n |-> Read(Embed, RowsOf(k[i]), "mapped", 1)]
  BY <1>2, <1>3, <1>5
<1>7. \A i \in 1..n : /\ s[i] \in ReadSet /\ s[i].weight = Embed /\ s[i].vectors = 1
                      /\ s[i].from = "mapped" /\ s[i].rows = RowsOf(k[i])
  BY <1>4, <1>5, <1>6 DEF Read, ReadSet
<1>8. s \in Seq(ReadSet) /\ Len(s) = n
  BY <1>6, <1>7
<1>9. ASSUME NEW r \in Row PROVE AtMostOnce(s, Embed, r)
  <2>1. ASSUME NEW i \in 1..n, NEW j \in 1..n, Hit(s[i], Embed, r), Hit(s[j], Embed, r)
        PROVE  i = j
    <3>1. r \in RowsOf(k[i]) /\ r \in RowsOf(k[j])
      BY <1>7, <2>1 DEF Hit
    <3>2. k[i] = k[j]
      BY <3>1 DEF RowsOf
    <3> QED BY <1>2, <3>2
  <2> QED BY <1>8, <2>1 DEF AtMostOnce
<1>10. \E r \in Row : Once(s, Embed, r)
  <2>1. 1 \in 1..n
    BY <1>2
  <2>2. PICK r \in Row : r \in RowsOf(k[1])
    BY <1>5, <2>1
  <2>3. Hit(s[1], Embed, r)
    BY <1>7, <2>1, <2>2 DEF Hit
  <2> QED BY <1>8, <1>9, <2>1, <2>3 DEF Once
<1> QED BY <1>7, <1>8, <1>9, <1>10 DEF SearchedOnce

-----------------------------------------------------------------------------
(* The runtime as run_resident leaves it: what excludes what.              *)
ModelSet ==
  [resident : {{}, ResidentWeights}, hot : {{}, OutputHead},
   retained : {LayerWeights(n) : n \in 0..Depth},
   exact : BOOLEAN, chunk : Nat, drafted : 0..Depth,
   staging : BOOLEAN, fits : SUBSET {"qkv", "gate_up"},
   chain : BOOLEAN, fused : BOOLEAN, batch : BOOLEAN, async : BOOLEAN]
ModelInv ==
  /\ options \in CommandLines
  /\ model \in ModelSet
  /\ model.resident = {} <=> options.residency = "streaming"
  /\ model.hot # {} => options.head /\ options.residency = "streaming"
  /\ model.exact => ~options.head /\ options.residency = "streaming"

(* A weight that may be read through the mapping, and one that may be read *)
(* there as a whole.                                                       *)
Single(w) == w[2] \in {"o", "down"} /\ ~model.chain /\ model.hot = {}
Free(w) ==
  /\ model.resident = {} /\ w \notin model.hot
  /\ w \in model.retained => ~Batched(call) /\ ~Single(w)
Long(w) ==
  model.chunk # 0 => \/ model.chain /\ w[2] \in {"q", "k", "v", "o"}
                     \/ Searched(w)
Honest(read) ==
  read.from = "mapped" =>
    /\ Free(read.weight)
    /\ Cardinality(read.rows) <= model.chunk \/ Long(read.weight)

Right(s, W, v) ==
  Complete(s, W, v) /\ \A i \in 1..Len(s) : Honest(s[i])

LEMMA RightJoined ==
  ASSUME NEW a, NEW V, NEW b, NEW W, NEW v,
         Right(a, V, v), Right(b, W, v), V \cap W = {}
  PROVE  Right(a \o b, V \cup W, v)
<1>1. Complete(a, V, v) /\ Complete(b, W, v)
  BY DEF Right
<1>2. Complete(a \o b, V \cup W, v)
  BY <1>1, CompleteJoined
<1> DEFINE c == a \o b
<1>3. a \in Seq(ReadSet) /\ b \in Seq(ReadSet)
  BY <1>1 DEF Complete
<1>4. /\ \A i \in 1..Len(a) : c[i] = a[i]
      /\ \A i \in 1..Len(b) : c[Len(a) + i] = b[i]
      /\ \A i \in 1..Len(c) : \/ i \in 1..Len(a)
                              \/ \E j \in 1..Len(b) : i = Len(a) + j
  <2>1. c \in Seq(ReadSet) /\ Joins(c, a, b)
    BY <1>3, Joined
  <2> HIDE DEF c
  <2> QED BY <2>1 DEF Joins
<1>5. /\ \A i \in 1..Len(a) : Honest(a[i])
      /\ \A i \in 1..Len(b) : Honest(b[i])
  BY DEF Right
<1> HIDE DEF c
<1>6. \A i \in 1..Len(c) : Honest(c[i])
  <2> SUFFICES ASSUME NEW i \in 1..Len(c) PROVE Honest(c[i])
    OBVIOUS
  <2>1. CASE i \in 1..Len(a)
    BY <1>4, <1>5, <2>1
  <2>2. CASE i \notin 1..Len(a)
    <3>1. PICK j \in 1..Len(b) : i = Len(a) + j
      BY <1>4, <2>2
    <3>2. c[i] = b[j]
      BY <1>4, <3>1
    <3> QED BY <1>5, <3>2
  <2> QED BY <2>1, <2>2
<1> QED BY <1>2, <1>6 DEF Right, c

(* Weights that are kept or staged are read anywhere.                      *)
LEMMA KeptReads ==
  ASSUME NEW weights, Distinct(weights), NEW v \in Nat, NEW from \in {"kept", "staged"}
  PROVE  Right(Each(weights, from, v), ToSet(weights), v)
<1>1. from \in {"kept", "staged", "mapped"} /\ from # "mapped"
  OBVIOUS
<1>2. /\ Complete(Each(weights, from, v), ToSet(weights), v)
      /\ \A i \in 1..Len(Each(weights, from, v)) : Each(weights, from, v)[i].from = from
  BY <1>1, EachIs
<1> QED BY <1>1, <1>2 DEF Right, Honest

LEMMA WholeReads ==
  ASSUME NEW weights, Distinct(weights), NEW v \in Nat,
         \A w \in ToSet(weights) : Free(w) /\ Long(w)
  PROVE  Right(MappedWhole(weights, v), ToSet(weights), v)
<1> DEFINE s == Each(weights, "mapped", v)
<1>1. MappedWhole(weights, v) = s
  BY MappedWholeIs
<1>2. /\ Complete(s, ToSet(weights), v)
      /\ \A i \in 1..Len(s) : s[i].weight \in ToSet(weights)
  BY EachIs
<1>3. Right(s, ToSet(weights), v)
  <2> HIDE DEF s
  <2> QED BY <1>2 DEF Right, Honest
<1> QED BY <1>1, <1>3

LEMMA ChunkReads ==
  ASSUME model.chunk \in Nat \ {0}, NEW w \in ResidentWeights, Free(w)
  PROVE  Right(Chunked(w), {w}, 1)
<1>1. /\ Complete(Chunked(w), {w}, 1)
      /\ \A i \in 1..Len(Chunked(w)) : Cardinality(Chunked(w)[i].rows) <= model.chunk
  BY ChunkedIs
<1>2. \A i \in 1..Len(Chunked(w)) : Chunked(w)[i].weight \in {w}
  BY <1>1 DEF Complete
<1> QED BY <1>1, <1>2 DEF Right, Honest

(* A token may read any weight through the mapping that is not kept where  *)
(* matvec looks.                                                           *)
LEMMA OneWeight ==
  ASSUME NEW w \in ResidentWeights
  PROVE  Distinct(<<w>>) /\ ToSet(<<w>>) = {w}
BY DEF Distinct, ToSet

LEMMA NotKept ==
  ASSUME model.resident = {}, NEW w, w \notin Kept, ~Batched(call)
  PROVE  Free(w)
<1>1. w \notin model.hot
  BY DEF Kept
<1>2. w \in model.retained => ~Single(w)
  BY DEF Kept, Single
<1> QED BY <1>1, <1>2 DEF Free

LEMMA OneReads ==
  ASSUME ModelInv, ~Batched(call), NEW w \in ResidentWeights
  PROVE  Right(IF model.resident # {} \/ w \in Kept THEN Buffers(<<w>>, 1) ELSE Mapped(w),
               {w}, 1)
<1>1. Distinct(<<w>>) /\ ToSet(<<w>>) = {w} /\ 1 \in Nat /\ model.chunk \in Nat
  BY OneWeight DEF ModelInv, ModelSet
<1>2. CASE model.resident # {} \/ w \in Kept
  <2>1. Right(Each(<<w>>, "kept", 1), ToSet(<<w>>), 1)
    BY <1>1, KeptReads
  <2> QED BY <1>1, <1>2, <2>1 DEF Buffers
<1>3. CASE model.resident = {} /\ w \notin Kept
  <2>1. Free(w)
    BY <1>3, NotKept
  <2>2. CASE model.chunk # 0
    <3>1. Right(Chunked(w), {w}, 1)
      BY <1>1, <2>1, <2>2, ChunkReads
    <3> QED BY <1>3, <2>2, <3>1 DEF Mapped
  <2>3. CASE model.chunk = 0
    <3>1. \A x \in ToSet(<<w>>) : Free(x) /\ Long(x)
      BY <1>1, <2>1, <2>3 DEF Long
    <3>2. Right(MappedWhole(<<w>>, 1), ToSet(<<w>>), 1)
      BY <1>1, <3>1, WholeReads
    <3> QED BY <1>1, <1>3, <2>3, <3>2 DEF Mapped
  <2> QED BY <2>2, <2>3
<1> QED BY <1>2, <1>3

(* The groups of a layer.                                                  *)
LEMMA GroupsAre ==
  ASSUME NEW l \in 0..(Depth - 1)
  PROVE  /\ Distinct(Qkv(l)) /\ ToSet(Qkv(l)) = {<<l, "q">>, <<l, "k">>, <<l, "v">>}
         /\ Distinct(GateUp(l)) /\ ToSet(GateUp(l)) = {<<l, "gate">>, <<l, "up">>}
         /\ Distinct(Attention(l))
         /\ ToSet(Attention(l)) = {<<l, "q">>, <<l, "k">>, <<l, "v">>, <<l, "o">>}
         /\ {l} \X {"q", "k", "v", "o", "gate", "up", "down"} \subseteq ResidentWeights
         /\ Embed \notin {l} \X {"q", "k", "v", "o", "gate", "up", "down"}
<1>1. {Parts[i] : i \in DOMAIN Parts} = {"q", "k", "v", "o", "gate", "up", "down"}
  <2>1. DOMAIN Parts = 1..7
    BY DEF Parts
  <2>2. 1..7 = {1, 2, 3, 4, 5, 6, 7}
    OBVIOUS
  <2> QED BY <2>1, <2>2 DEF Parts
<1>2. {l} \X {"q", "k", "v", "o", "gate", "up", "down"} \subseteq ResidentWeights
  BY <1>1 DEF ResidentWeights, LayerWeights
<1>3. Embed \notin {l} \X {"q", "k", "v", "o", "gate", "up", "down"}
  BY DenseAssumption DEF Embed
<1> DEFINE q == <<l, "q">>
           k == <<l, "k">>
           v == <<l, "v">>
           o == <<l, "o">>
           gate == <<l, "gate">>
           up == <<l, "up">>
<1>4. /\ q \in ResidentWeights /\ k \in ResidentWeights /\ v \in ResidentWeights
      /\ o \in ResidentWeights /\ gate \in ResidentWeights /\ up \in ResidentWeights
  BY <1>2
<1>5. /\ q # k /\ q # v /\ q # o /\ k # v /\ k # o /\ v # o /\ gate # up
  OBVIOUS
<1>6. Qkv(l) = <<q, k, v>> /\ GateUp(l) = <<gate, up>> /\ Attention(l) = <<q, k, v, o>>
  BY DEF Qkv, GateUp, Attention
<1> HIDE DEF q, k, v, o, gate, up
<1>7. Distinct(<<q, k, v>>) /\ ToSet(<<q, k, v>>) = {q, k, v}
  <2>1. Len(<<q, k, v>>) = 3 /\ DOMAIN <<q, k, v>> = {1, 2, 3} /\ 1..3 = {1, 2, 3}
    OBVIOUS
  <2> QED BY <1>4, <1>5, <2>1 DEF Distinct, ToSet
<1>8. Distinct(<<gate, up>>) /\ ToSet(<<gate, up>>) = {gate, up}
  <2>1. Len(<<gate, up>>) = 2 /\ DOMAIN <<gate, up>> = {1, 2} /\ 1..2 = {1, 2}
    OBVIOUS
  <2> QED BY <1>4, <1>5, <2>1 DEF Distinct, ToSet
<1>9. Distinct(<<q, k, v, o>>) /\ ToSet(<<q, k, v, o>>) = {q, k, v, o}
  <2>1. Len(<<q, k, v, o>>) = 4 /\ DOMAIN <<q, k, v, o>> = {1, 2, 3, 4} /\ 1..4 = {1, 2, 3, 4}
    OBVIOUS
  <2> QED BY <1>4, <1>5, <2>1 DEF Distinct, ToSet
<1> QED BY <1>2, <1>3, <1>6, <1>7, <1>8, <1>9 DEF q, k, v, o, gate, up

(* The projections that read a group of weights together.                  *)
InLayer(w) == w \in ResidentWeights /\ w # Embed

LEMMA GroupReads ==
  ASSUME ModelInv, ~Batched(call), NEW kind, NEW weights, Distinct(weights),
         Len(weights) \in {2, 3},
         \A w \in ToSet(weights) : InLayer(w) /\ w[2] \notin {"o", "down"}
  PROVE  Right(IF Submits(kind) THEN MatvecManyAsync(kind, weights)
                                ELSE MatvecMany(kind, weights), ToSet(weights), 1)
<1> DEFINE W == ToSet(weights)
<1>1. /\ model.hot \in {{}, {Embed}} /\ model.chunk \in Nat /\ 1 \in Nat
      /\ "kept" \in {"kept", "staged"} /\ "staged" \in {"kept", "staged"}
  BY DEF ModelInv, ModelSet, OutputHead
<1>2. Right(StagedBytes(weights), W, 1)
  BY <1>1, KeptReads DEF StagedBytes
<1>3. Right(Buffers(weights, 1), W, 1)
  BY <1>1, KeptReads DEF Buffers
<1>4. ASSUME model.resident = {}, NEW w \in W PROVE Free(w)
  BY <1>1, <1>4 DEF Free, Single, InLayer
<1>5. ASSUME model.resident = {}, model.chunk = 0 PROVE Right(MappedWhole(weights, 1), W, 1)
  <2>1. \A w \in W : Free(w) /\ Long(w)
    BY <1>4, <1>5 DEF Long
  <2> QED BY <1>1, <2>1, WholeReads
<1>6. CASE Submits(kind)
  <2>1. model.chunk = 0
    BY <1>6 DEF Submits
  <2> QED BY <1>2, <1>3, <1>5, <1>6, <2>1 DEF MatvecManyAsync
<1>7. CASE ~Submits(kind)
  <2> DEFINE one == [i \in DOMAIN weights |->
                      IF model.chunk # 0 THEN Chunked(weights[i])
                      ELSE CHOOSE made \in Matvec(weights[i]) : TRUE]
  <2>1. \/ MatvecMany(kind, weights) = StagedBytes(weights)
        \/ MatvecMany(kind, weights) = Buffers(weights, 1)
        \/ /\ model.resident = {} /\ model.chunk = 0
           /\ MatvecMany(kind, weights) = MappedWhole(weights, 1)
        \/ /\ model.resident = {}
           /\ MatvecMany(kind, weights) = FlattenSeq(one)
    BY DEF MatvecMany
  <2>2. Len(weights) \in Nat /\ DOMAIN weights = 1..Len(weights)
        /\ DOMAIN one = 1..Len(weights)
    BY DEF Distinct
  <2>3. ASSUME model.resident = {}, NEW i \in 1..Len(weights)
        PROVE  Right(one[i], {weights[i]}, 1)
    <3> DEFINE w == weights[i]
    <3>1. w \in W /\ w \in ResidentWeights
      BY <2>2, <2>3 DEF ToSet, Distinct
    <3>2. w # Embed
      BY <3>1 DEF InLayer
    <3>3. one[i] = IF model.chunk # 0 THEN Chunked(w)
                   ELSE CHOOSE made \in Matvec(w) : TRUE
      BY <2>2, <2>3
    <3> HIDE DEF one, w
    <3>4. CASE model.chunk # 0
      <4>1. Free(w)
        BY <1>4, <2>3, <3>1
      <4>2. model.chunk \in Nat \ {0}
        BY <1>1, <3>4
      <4>3. Right(Chunked(w), {w}, 1)
        BY <3>1, <4>1, <4>2, ChunkReads
      <4> QED BY <3>3, <3>4, <4>3 DEF w
    <3>5. CASE model.chunk = 0
      <4> DEFINE x == IF model.resident # {} \/ w \in Kept THEN Buffers(<<w>>, 1) ELSE Mapped(w)
      <4>1. Matvec(w) = {x}
        BY <3>2 DEF Matvec
      <4>2. Right(x, {w}, 1)
        BY <3>1, OneReads
      <4> HIDE DEF x
      <4>3. one[i] = x
        BY <3>3, <3>5, <4>1
      <4> QED BY <4>2, <4>3 DEF w
    <3> QED BY <1>1, <3>4, <3>5
  <2>4. ASSUME model.resident = {} PROVE Right(FlattenSeq(one), W, 1)
    <3> HIDE DEF one
    <3>1. \A i, j \in 1..Len(weights) : i # j => weights[i] # weights[j]
      BY DEF Distinct
    <3>2. CASE Len(weights) = 2
      <4>1. 1..2 = {1, 2} /\ 1 # 2
        OBVIOUS
      <4>2. Right(one[1], {weights[1]}, 1) /\ Right(one[2], {weights[2]}, 1)
        BY <2>3, <2>4, <3>2, <4>1
      <4>3. {weights[1]} \cap {weights[2]} = {}
        BY <3>1, <3>2, <4>1
      <4>4. Right(one[1] \o one[2], {weights[1]} \cup {weights[2]}, 1)
        BY <4>2, <4>3, RightJoined
      <4>5. Len(one) = 2
        BY <2>2, <3>2
      <4>6. FlattenSeq(one) = one[1] \o one[2]
        BY <4>5, FlattenTwo
      <4>7. W = {weights[1]} \cup {weights[2]}
        BY <2>2, <3>2, <4>1 DEF ToSet
      <4> QED BY <4>4, <4>6, <4>7
    <3>3. CASE Len(weights) = 3
      <4>1. 1..3 = {1, 2, 3} /\ 1 # 2 /\ 1 # 3 /\ 2 # 3
        OBVIOUS
      <4>2. /\ Right(one[1], {weights[1]}, 1) /\ Right(one[2], {weights[2]}, 1)
            /\ Right(one[3], {weights[3]}, 1)
        BY <2>3, <2>4, <3>3, <4>1
      <4>3. /\ {weights[1]} \cap {weights[2]} = {}
            /\ ({weights[1]} \cup {weights[2]}) \cap {weights[3]} = {}
        BY <3>1, <3>3, <4>1
      <4>4. Right(one[1] \o one[2], {weights[1]} \cup {weights[2]}, 1)
        BY <4>2, <4>3, RightJoined
      <4> DEFINE V == {weights[1]} \cup {weights[2]}
                 a == one[1] \o one[2]
      <4>5. Right(a, V, 1) /\ V \cap {weights[3]} = {}
        BY <4>3, <4>4
      <4> HIDE DEF a, V
      <4>6. Right(a \o one[3], V \cup {weights[3]}, 1)
        BY <4>2, <4>5, RightJoined
      <4>7. Len(one) = 3
        BY <2>2, <3>3
      <4>8. FlattenSeq(one) = a \o one[3]
        BY <4>7, FlattenThree DEF a
      <4>9. W = V \cup {weights[3]}
        BY <2>2, <3>3, <4>1 DEF ToSet, V
      <4> QED BY <4>6, <4>8, <4>9
    <3> QED BY <3>2, <3>3
  <2> HIDE DEF one, W
  <2> QED BY <1>2, <1>3, <1>5, <1>7, <2>1, <2>4 DEF W
<1> QED BY <1>6, <1>7

-----------------------------------------------------------------------------
(* What a projection leaves behind for a weight: every row once, or, of    *)
(* the searched head, some row, and none twice.                            *)
WasRead(s, w) ==
  IF Searched(w) THEN /\ \A r \in Row : AtMostOnce(s, w, r)
                      /\ \E r \in Row : Once(s, w, r)
                 ELSE \A r \in Row : Once(s, w, r)

MadeFor(use, made) ==
  /\ made \in Seq(ReadSet)
  /\ \A i \in 1..Len(made) : /\ made[i].weight \in ToSet(use.weights)
                             /\ made[i].vectors = call.width
                             /\ Honest(made[i])
  /\ \A w \in ToSet(use.weights) : WasRead(made, w)

LEMMA RightMade ==
  ASSUME NEW use, NEW made, Right(made, ToSet(use.weights), call.width)
  PROVE  MadeFor(use, made)
<1>1. Complete(made, ToSet(use.weights), call.width) /\ \A i \in 1..Len(made) : Honest(made[i])
  BY DEF Right
<1>2. 0 \in Row
  BY HeadAssumption DEF Row
<1>3. ASSUME NEW w \in ToSet(use.weights) PROVE WasRead(made, w)
  <2>1. \A r \in Row : Once(made, w, r)
    BY <1>1 DEF Complete
  <2>2. \A r \in Row : AtMostOnce(made, w, r)
    BY <2>1 DEF Once
  <2> QED BY <1>2, <2>1, <2>2 DEF WasRead
<1> QED BY <1>1, <1>3 DEF MadeFor, Complete

LEMMA SearchMade ==
  ASSUME NEW use, ToSet(use.weights) = {Embed}, Searched(Embed), Free(Embed),
         NEW made \in Searches
  PROVE  MadeFor(use, made)
<1>1. SearchedOnce(made)
  BY SearchedIs
<1>2. \A i \in 1..Len(made) : made[i].weight = Embed /\ made[i].vectors = call.width
                              /\ Honest(made[i])
  BY <1>1 DEF SearchedOnce, Searched, Honest, Long
<1> QED BY <1>1, <1>2 DEF MadeFor, WasRead, SearchedOnce

-----------------------------------------------------------------------------
(* The projections of a traversal.                                         *)
CallInv ==
  /\ call.layers \in 1..Depth /\ call.head \in BOOLEAN /\ call.width \in Nat
  /\ ~Batched(call) => call.width = 1
  /\ Batched(call) => ~Unbatchable

TokenUse(l, use) ==
  \/ model.chain /\ use = Use("chained", Attention(l))
  \/ ~model.chain /\ use \in {Use("qkv", Qkv(l)), Use("matvec", <<<<l, "o">>>>)}
  \/ use \in {Use("gate_up", GateUp(l)), Use("matvec", <<<<l, "down">>>>)}
BatchUse(l, use) ==
  use \in {Use("many", Qkv(l)), Use("many", <<<<l, "o">>>>),
           Use("many", GateUp(l)), Use("many", <<<<l, "down">>>>)}
LayerUse(c, l, use) == IF Batched(c) THEN BatchUse(l, use) ELSE TokenUse(l, use)
HeadUse(c, use) == c.head /\ use = Use(IF Batched(c) THEN "many" ELSE "matvec", <<Embed>>)
UseOf(c, use) == HeadUse(c, use) \/ \E l \in 0..(c.layers - 1) : LayerUse(c, l, use)

(* A layer's group is retained as a whole or not at all.                   *)
LEMMA RetainedTogether ==
  ASSUME ModelInv, NEW l \in 0..(Depth - 1), NEW w, NEW x,
         w \in {l} \X {"q", "k", "v", "o", "gate", "up", "down"},
         x \in {l} \X {"q", "k", "v", "o", "gate", "up", "down"},
         w \in model.retained
  PROVE  x \in model.retained
<1>1. PICK n \in 0..Depth : model.retained = LayerWeights(n)
  BY DEF ModelInv, ModelSet
<1>2. {Parts[i] : i \in DOMAIN Parts} = {"q", "k", "v", "o", "gate", "up", "down"}
  <2>1. DOMAIN Parts = 1..7
    BY DEF Parts
  <2>2. 1..7 = {1, 2, 3, 4, 5, 6, 7}
    OBVIOUS
  <2> QED BY <2>1, <2>2 DEF Parts
<1>3. LayerWeights(n) = (0..(n - 1)) \X {"q", "k", "v", "o", "gate", "up", "down"}
  BY <1>2 DEF LayerWeights
<1>4. w[1] = l /\ w[1] \in 0..(n - 1)
  BY <1>1, <1>3
<1> QED BY <1>1, <1>3, <1>4

LEMMA BatchReads ==
  ASSUME ModelInv, CallInv, Batched(call), NEW weights, Distinct(weights),
         NEW l \in 0..(Depth - 1),
         ToSet(weights) \subseteq {l} \X {"q", "k", "v", "o", "gate", "up", "down"},
         NEW made \in MatmulMany(weights, call.width)
  PROVE  Right(made, ToSet(weights), call.width)
<1> DEFINE W == ToSet(weights)
<1>1. Embed \notin W
  BY GroupsAre
<1>2. weights # <<Embed>>
  <2>1. ToSet(<<Embed>>) = {Embed}
    BY WeightsAre, OneWeight
  <2> QED BY <1>1, <2>1
<1>3. made = IF KeptTogether(weights) THEN Buffers(weights, call.width)
                                      ELSE MappedWhole(weights, call.width)
  BY <1>2 DEF MatmulMany
<1>4. call.width \in Nat /\ "kept" \in {"kept", "staged"} /\ model.chunk = 0
      /\ model.hot \in {{}, {Embed}}
  BY DEF CallInv, Unbatchable, ModelInv, ModelSet, OutputHead
<1>5. Right(Buffers(weights, call.width), W, call.width)
  BY <1>4, KeptReads DEF Buffers
<1>6. CASE ~KeptTogether(weights)
  <2>1. model.resident = {} /\ ~(W \subseteq model.retained)
    BY <1>6 DEF KeptTogether
  <2>2. ASSUME NEW w \in W PROVE w \notin model.retained
    <3>1. PICK x \in W : x \notin model.retained
      BY <2>1
    <3> QED BY <2>2, <3>1, RetainedTogether
  <2>3. \A w \in W : Free(w) /\ Long(w)
    BY <1>1, <1>4, <2>1, <2>2 DEF Free, Long
  <2>4. Right(MappedWhole(weights, call.width), W, call.width)
    BY <1>4, <2>3, WholeReads
  <2> QED BY <1>3, <1>6, <2>4
<1> HIDE DEF W
<1> QED BY <1>3, <1>5, <1>6 DEF W

(* The head, batched or alone.                                             *)
LEMMA HeadReads ==
  ASSUME ModelInv, CallInv, NEW made,
         made \in IF Batched(call) THEN MatmulMany(<<Embed>>, call.width) ELSE Matvec(Embed),
         NEW use, use.weights = <<Embed>>
  PROVE  MadeFor(use, made)
<1>1. Embed \in ResidentWeights /\ Distinct(<<Embed>>) /\ ToSet(<<Embed>>) = {Embed}
  BY WeightsAre, OneWeight
<1>2. /\ call.width \in Nat /\ "kept" \in {"kept", "staged"}
      /\ model.hot \in {{}, {Embed}} /\ (~Batched(call) => call.width = 1)
      /\ (Batched(call) => model.chunk = 0)
  BY DEF CallInv, Unbatchable, ModelInv, ModelSet, OutputHead
<1>3. Embed \notin model.retained
  <2>1. PICK n \in 0..Depth : model.retained = LayerWeights(n)
    BY DEF ModelInv, ModelSet
  <2>2. Depth \notin 0..(n - 1)
    BY DenseAssumption
  <2> QED BY <2>1, <2>2 DEF LayerWeights, Embed
<1>4. CASE model.exact /\ call.width = 1
  <2>1. made \in Searches
    BY <1>4 DEF MatmulMany, Matvec
  <2>2. Searched(Embed)
    BY <1>4 DEF Searched
  <2>3. Free(Embed)
    BY <1>3, <1>4 DEF Free, ModelInv
  <2> QED BY <1>1, <2>1, <2>2, <2>3, SearchMade
<1>5. CASE Batched(call) /\ ~(model.exact /\ call.width = 1)
  <2>1. made = IF KeptTogether(<<Embed>>) THEN Buffers(<<Embed>>, call.width)
                                          ELSE MappedWhole(<<Embed>>, call.width)
    BY <1>5 DEF MatmulMany
  <2>2. Right(Buffers(<<Embed>>, call.width), ToSet(<<Embed>>), call.width)
    BY <1>1, <1>2, KeptReads DEF Buffers
  <2>3. CASE ~KeptTogether(<<Embed>>)
    <3>1. model.resident = {} /\ Embed \notin model.hot
      BY <1>1, <2>3 DEF KeptTogether
    <3>2. \A w \in ToSet(<<Embed>>) : Free(w) /\ Long(w)
      BY <1>1, <1>2, <1>3, <1>5, <3>1 DEF Free, Long
    <3>3. Right(MappedWhole(<<Embed>>, call.width), ToSet(<<Embed>>), call.width)
      BY <1>1, <1>2, <3>2, WholeReads
    <3> QED BY <2>1, <2>3, <3>3, RightMade
  <2>4. CASE KeptTogether(<<Embed>>)
    BY <2>1, <2>2, <2>4, RightMade
  <2> QED BY <2>3, <2>4
<1>6. CASE ~Batched(call) /\ ~model.exact
  <2> DEFINE x == IF model.resident # {} \/ Embed \in Kept THEN Buffers(<<Embed>>, 1)
                                                            ELSE Mapped(Embed)
  <2>1. made \in {x}
    BY <1>6 DEF Matvec
  <2>2. Right(x, {Embed}, 1)
    BY <1>1, <1>6, OneReads
  <2> HIDE DEF x
  <2>3. Right(made, ToSet(use.weights), call.width)
    BY <1>1, <1>2, <1>6, <2>1, <2>2
  <2> QED BY <2>3, RightMade
<1> QED BY <1>2, <1>4, <1>5, <1>6

(* Every projection reads what it should, from where it may.               *)
LEMMA ProjectionReads ==
  ASSUME ModelInv, CallInv, NEW use, UseOf(call, use), NEW made \in Reads(use)
  PROVE  MadeFor(use, made)
<1>1. CASE HeadUse(call, use)
  <2>1. use.weights = <<Embed>> /\ use.by = IF Batched(call) THEN "many" ELSE "matvec"
    BY <1>1 DEF HeadUse, Use
  <2>2. <<Embed>>[1] = Embed
    OBVIOUS
  <2>3. made \in IF Batched(call) THEN MatmulMany(<<Embed>>, call.width) ELSE Matvec(Embed)
    BY <2>1, <2>2 DEF Reads
  <2> QED BY <2>1, <2>3, HeadReads
<1>2. ASSUME NEW l \in 0..(call.layers - 1), LayerUse(call, l, use)
      PROVE  MadeFor(use, made)
  <2> DEFINE LW == {l} \X {"q", "k", "v", "o", "gate", "up", "down"}
  <2>1. l \in 0..(Depth - 1)
    BY DenseAssumption DEF CallInv
  <2>2. LW \subseteq ResidentWeights /\ Embed \notin LW
    BY <2>1, GroupsAre
  <2>3. ASSUME NEW p \in {"q", "k", "v", "o", "gate", "up", "down"}
        PROVE  /\ <<l, p>> \in LW /\ <<l, p>> \in ResidentWeights
               /\ Distinct(<<<<l, p>>>>) /\ ToSet(<<<<l, p>>>>) = {<<l, p>>}
    <3>1. <<l, p>> \in LW
      OBVIOUS
    <3> HIDE DEF LW
    <3> QED BY <2>2, <3>1, OneWeight
  <2>4. CASE Batched(call)
    <3>1. use.by = "many" /\ Distinct(use.weights) /\ ToSet(use.weights) \subseteq LW
      <4>1. use.by = "many" /\ use.weights \in {Qkv(l), <<<<l, "o">>>>, GateUp(l), <<<<l, "down">>>>}
        BY <1>2, <2>4 DEF LayerUse, BatchUse, Use
      <4>2. Distinct(Qkv(l)) /\ ToSet(Qkv(l)) \subseteq LW
        BY <2>1, GroupsAre
      <4>3. Distinct(GateUp(l)) /\ ToSet(GateUp(l)) \subseteq LW
        BY <2>1, GroupsAre
      <4>4. Distinct(<<<<l, "o">>>>) /\ ToSet(<<<<l, "o">>>>) \subseteq LW
        BY <2>3
      <4>5. Distinct(<<<<l, "down">>>>) /\ ToSet(<<<<l, "down">>>>) \subseteq LW
        BY <2>3
      <4> HIDE DEF LW
      <4> QED BY <4>1, <4>2, <4>3, <4>4, <4>5
    <3>2. made \in MatmulMany(use.weights, call.width)
      BY <3>1 DEF Reads
    <3>3. Right(made, ToSet(use.weights), call.width)
      BY <2>1, <2>4, <3>1, <3>2, BatchReads
    <3> QED BY <3>3, RightMade
  <2>5. CASE ~Batched(call)
    <3>1. call.width = 1 /\ model.hot \in {{}, {Embed}} /\ 1 \in Nat /\ "kept" \in {"kept", "staged"}
      BY <2>5 DEF CallInv, ModelInv, ModelSet, OutputHead
    <3>2. CASE model.chain /\ use = Use("chained", Attention(l))
      <4>1. made = ChainedAttention(Attention(l)) /\ use.weights = Attention(l)
        BY <3>2 DEF Reads, Use
      <4>2. /\ Distinct(Attention(l))
            /\ ToSet(Attention(l)) = {<<l, "q">>, <<l, "k">>, <<l, "v">>, <<l, "o">>}
        BY <2>1, GroupsAre
      <4>3. Right(Buffers(Attention(l), 1), ToSet(Attention(l)), 1)
        BY <3>1, <4>2, KeptReads DEF Buffers
      <4>4. CASE model.resident = {}
        <5>1. ASSUME NEW w \in ToSet(Attention(l)) PROVE Free(w) /\ Long(w)
          <6>1. w # Embed /\ w[2] \in {"q", "k", "v", "o"}
            BY <2>2, <4>2
          <6> QED BY <2>5, <3>1, <3>2, <4>4, <6>1 DEF Free, Long, Single
        <5>2. Right(MappedWhole(Attention(l), 1), ToSet(Attention(l)), 1)
          BY <3>1, <4>2, <5>1, WholeReads
        <5>3. made = MappedWhole(Attention(l), 1)
          BY <4>1, <4>4 DEF ChainedAttention
        <5> QED BY <3>1, <4>1, <5>2, <5>3, RightMade
      <4>5. CASE model.resident # {}
        <5>1. made = Buffers(Attention(l), 1)
          BY <4>1, <4>5 DEF ChainedAttention
        <5> QED BY <3>1, <4>1, <4>3, <5>1, RightMade
      <4> QED BY <4>4, <4>5
    <3>3. CASE use \in {Use("qkv", Qkv(l)), Use("gate_up", GateUp(l))}
      <4> DEFINE kind == use.by
                 weights == use.weights
      <4>1. \/ kind = "qkv" /\ weights = Qkv(l)
            \/ kind = "gate_up" /\ weights = GateUp(l)
        BY <3>3 DEF Use
      <4>2. made = IF Submits(kind) THEN MatvecManyAsync(kind, weights)
                                    ELSE MatvecMany(kind, weights)
        BY <4>1 DEF Reads
      <4>3. /\ Distinct(Qkv(l)) /\ ToSet(Qkv(l)) = {<<l, "q">>, <<l, "k">>, <<l, "v">>}
            /\ Distinct(GateUp(l)) /\ ToSet(GateUp(l)) = {<<l, "gate">>, <<l, "up">>}
            /\ Len(Qkv(l)) = 3 /\ Len(GateUp(l)) = 2
        BY <2>1, GroupsAre DEF Qkv, GateUp
      <4>4. Distinct(weights) /\ Len(weights) \in {2, 3}
        BY <4>1, <4>3
      <4>5. \A w \in ToSet(weights) : InLayer(w) /\ w[2] \notin {"o", "down"}
        <5>1. \A p \in {"q", "k", "v", "gate", "up"} :
                InLayer(<<l, p>>) /\ <<l, p>>[2] \notin {"o", "down"}
          BY <2>2, <2>3 DEF InLayer
        <5> QED BY <4>1, <4>3, <5>1
      <4> HIDE DEF kind, weights
      <4>6. Right(made, ToSet(weights), 1)
        BY <2>5, <4>2, <4>4, <4>5, GroupReads
      <4>7. Right(made, ToSet(use.weights), call.width)
        BY <3>1, <4>6 DEF weights
      <4> QED BY <4>7, RightMade
    <3>4. CASE use \in {Use("matvec", <<<<l, "o">>>>), Use("matvec", <<<<l, "down">>>>)}
      <4>1. PICK p \in {"o", "down"} : use = Use("matvec", <<<<l, p>>>>)
        BY <3>4
      <4> DEFINE w == <<l, p>>
                 x == IF model.resident # {} \/ w \in Kept THEN Buffers(<<w>>, 1) ELSE Mapped(w)
      <4>2. w \in ResidentWeights /\ w # Embed /\ ToSet(<<w>>) = {w}
        BY <2>2, <2>3
      <4>3. use.weights = <<w>> /\ use.by = "matvec" /\ use.weights[1] = w
        BY <4>1 DEF Use
      <4> HIDE DEF w
      <4>4. made \in Matvec(w)
        BY <4>3 DEF Reads
      <4>5. made = x
        BY <4>2, <4>4 DEF Matvec
      <4>6. Right(x, {w}, 1)
        BY <2>5, <4>2, OneReads
      <4> HIDE DEF x
      <4>7. Right(made, ToSet(use.weights), call.width)
        BY <3>1, <4>2, <4>3, <4>5, <4>6
      <4> QED BY <4>7, RightMade
    <3>5. TokenUse(l, use)
      BY <1>2, <2>5 DEF LayerUse
    <3> QED BY <3>2, <3>3, <3>4, <3>5 DEF TokenUse
  <2> QED BY <2>4, <2>5
<1> QED BY <1>1, <1>2 DEF UseOf

-----------------------------------------------------------------------------
(* A run of projections that needs every weight of W once, layer by layer. *)
UseSet ==
  [by : {"chained", "qkv", "gate_up", "matvec", "many"}, weights : Seq(ResidentWeights)]
Apart(V, W) == \A v \in V, w \in W : v # w /\ v[1] <= w[1]
Of(use) == ToSet(use.weights)
Lines(c, s, W) ==
  /\ s \in Seq(UseSet)
  /\ \A i \in 1..Len(s) : UseOf(c, s[i]) /\ Of(s[i]) \subseteq W
  /\ \A w \in W : \E i \in 1..Len(s) : w \in Of(s[i])
  /\ \A i, j \in 1..Len(s) : i < j => Apart(Of(s[i]), Of(s[j]))

LEMMA LinesJoined ==
  ASSUME NEW c, NEW a, NEW V, NEW b, NEW W,
         Lines(c, a, V), Lines(c, b, W), Apart(V, W)
  PROVE  Lines(c, a \o b, V \cup W)
<1> DEFINE s == a \o b
           m == Len(a)
           n == Len(b)
<1>1. a \in Seq(UseSet) /\ b \in Seq(UseSet)
  BY DEF Lines
<1>2. /\ s \in Seq(UseSet) /\ m \in Nat /\ n \in Nat /\ Len(s) = m + n
      /\ \A i \in 1..m : i \in 1..Len(s) /\ s[i] = a[i]
      /\ \A i \in 1..n : m + i \in 1..Len(s) /\ s[m + i] = b[i]
      /\ \A i \in 1..Len(s) : \/ i \in 1..m
                              \/ \E j \in 1..n : i = m + j
  <2>1. s \in Seq(UseSet) /\ Joins(s, a, b)
    BY <1>1, Joined
  <2> HIDE DEF s
  <2> QED BY <2>1 DEF Joins
<1>3. /\ \A i \in 1..m : UseOf(c, a[i]) /\ Of(a[i]) \subseteq V
      /\ \A w \in V : \E i \in 1..m : w \in Of(a[i])
      /\ \A i, j \in 1..m : i < j => Apart(Of(a[i]), Of(a[j]))
  BY DEF Lines
<1>4. /\ \A i \in 1..n : UseOf(c, b[i]) /\ Of(b[i]) \subseteq W
      /\ \A w \in W : \E i \in 1..n : w \in Of(b[i])
      /\ \A i, j \in 1..n : i < j => Apart(Of(b[i]), Of(b[j]))
  BY DEF Lines
<1> HIDE DEF s, m, n
<1>5. \A i \in 1..Len(s) : UseOf(c, s[i]) /\ Of(s[i]) \subseteq V \cup W
  BY <1>2, <1>3, <1>4
<1>6. ASSUME NEW w \in V \cup W PROVE \E i \in 1..Len(s) : w \in Of(s[i])
  <2>1. CASE w \in V
    <3>1. PICK i \in 1..m : w \in Of(a[i])
      BY <1>3, <2>1
    <3> QED BY <1>2, <3>1
  <2>2. CASE w \in W
    <3>1. PICK i \in 1..n : w \in Of(b[i])
      BY <1>4, <2>2
    <3> QED BY <1>2, <3>1
  <2> QED BY <2>1, <2>2
<1>7. ASSUME NEW i \in 1..Len(s), NEW j \in 1..Len(s), i < j
      PROVE  Apart(Of(s[i]), Of(s[j]))
  <2>1. CASE i \in 1..m /\ j \in 1..m
    BY <1>2, <1>3, <1>7, <2>1
  <2>2. CASE i \in 1..m /\ j \notin 1..m
    <3>1. PICK y \in 1..n : j = m + y
      BY <1>2, <2>2
    <3>2. s[i] = a[i] /\ s[j] = b[y]
      BY <1>2, <2>2, <3>1
    <3>3. Of(a[i]) \subseteq V /\ Of(b[y]) \subseteq W
      BY <1>3, <1>4, <2>2
    <3> QED BY <3>2, <3>3 DEF Apart
  <2>3. CASE i \notin 1..m
    <3>1. PICK x \in 1..n : i = m + x
      BY <1>2, <2>3
    <3>2. j \notin 1..m
      BY <1>2, <1>7, <3>1
    <3>3. PICK y \in 1..n : j = m + y
      BY <1>2, <3>2
    <3>4. x < y
      BY <1>2, <1>7, <3>1, <3>3
    <3> QED BY <1>2, <1>4, <3>1, <3>3, <3>4
  <2> QED BY <2>1, <2>2, <2>3
<1>8. Lines(c, s, V \cup W)
  BY <1>2, <1>5, <1>6, <1>7 DEF Lines
<1> QED BY <1>8 DEF s

LEMMA LinesNone == ASSUME NEW c PROVE Lines(c, <<>>, {})
BY DEF Lines

LEMMA LinesOne ==
  ASSUME NEW c, NEW u \in UseSet, UseOf(c, u)
  PROVE  Lines(c, <<u>>, Of(u))
<1>1. <<u>> \in Seq(UseSet) /\ Len(<<u>>) = 1 /\ <<u>>[1] = u /\ 1..1 = {1}
  OBVIOUS
<1> QED BY <1>1 DEF Lines

LEMMA LinesTwo ==
  ASSUME NEW c, NEW u \in UseSet, NEW v \in UseSet, UseOf(c, u), UseOf(c, v),
         Apart(Of(u), Of(v))
  PROVE  Lines(c, <<u, v>>, Of(u) \cup Of(v))
<1> DEFINE s == <<u, v>>
<1>1. s \in Seq(UseSet) /\ Len(s) = 2 /\ s[1] = u /\ s[2] = v /\ 1..2 = {1, 2}
  OBVIOUS
<1> HIDE DEF s
<1>2. \A i \in {1, 2} : UseOf(c, s[i]) /\ Of(s[i]) \subseteq Of(u) \cup Of(v)
  BY <1>1
<1>3. \A w \in Of(u) \cup Of(v) : \E i \in {1, 2} : w \in Of(s[i])
  BY <1>1
<1>4. \A i, j \in {1, 2} : i < j => Apart(Of(s[i]), Of(s[j]))
  BY <1>1
<1>5. Lines(c, s, Of(u) \cup Of(v))
  BY <1>1, <1>2, <1>3, <1>4 DEF Lines
<1> QED BY <1>5 DEF s

LEMMA LinesFour ==
  ASSUME NEW c, NEW u \in UseSet, NEW v \in UseSet, NEW x \in UseSet, NEW y \in UseSet,
         UseOf(c, u), UseOf(c, v), UseOf(c, x), UseOf(c, y),
         Apart(Of(u), Of(v)), Apart(Of(u), Of(x)), Apart(Of(u), Of(y)),
         Apart(Of(v), Of(x)), Apart(Of(v), Of(y)), Apart(Of(x), Of(y))
  PROVE  Lines(c, <<u, v, x, y>>, Of(u) \cup Of(v) \cup Of(x) \cup Of(y))
<1> DEFINE s == <<u, v, x, y>>
           W == Of(u) \cup Of(v) \cup Of(x) \cup Of(y)
<1>1. /\ s \in Seq(UseSet) /\ Len(s) = 4 /\ 1..4 = {1, 2, 3, 4}
      /\ s[1] = u /\ s[2] = v /\ s[3] = x /\ s[4] = y
  OBVIOUS
<1> HIDE DEF s
<1>2. \A i \in {1, 2, 3, 4} : UseOf(c, s[i]) /\ Of(s[i]) \subseteq W
  BY <1>1
<1>3. \A w \in W : \E i \in {1, 2, 3, 4} : w \in Of(s[i])
  BY <1>1
<1>4. \A i, j \in {1, 2, 3, 4} : i < j => Apart(Of(s[i]), Of(s[j]))
  BY <1>1
<1>5. Lines(c, s, W)
  BY <1>1, <1>2, <1>3, <1>4 DEF Lines
<1> QED BY <1>5 DEF s

(* The layers of a traversal, and its head.                                *)
PartSet == {"q", "k", "v", "o", "gate", "up", "down"}

LEMMA LayerWeightsAre ==
  /\ \A n \in Nat : LayerWeights(n) = (0..(n - 1)) \X PartSet
  /\ LayerWeights(1) = {0} \X PartSet
  /\ \A n \in Nat \ {0} : LayerWeights(n + 1) = LayerWeights(n) \cup ({n} \X PartSet)
<1>1. {Parts[i] : i \in DOMAIN Parts} = PartSet
  <2>1. DOMAIN Parts = 1..7
    BY DEF Parts
  <2>2. 1..7 = {1, 2, 3, 4, 5, 6, 7}
    OBVIOUS
  <2> QED BY <2>1, <2>2 DEF Parts, PartSet
<1>2. \A n \in Nat : LayerWeights(n) = (0..(n - 1)) \X PartSet
  BY <1>1 DEF LayerWeights
<1>3. 0..(1 - 1) = {0}
  OBVIOUS
<1>4. ASSUME NEW n \in Nat \ {0}
      PROVE  LayerWeights(n + 1) = LayerWeights(n) \cup ({n} \X PartSet)
  <2>1. 0..((n + 1) - 1) = (0..(n - 1)) \cup {n}
    OBVIOUS
  <2>2. n + 1 \in Nat /\ n \in Nat
    OBVIOUS
  <2> QED BY <1>2, <2>1, <2>2
<1> QED BY <1>2, <1>3, <1>4

LEMMA LayerLines ==
  ASSUME NEW c, c.layers \in 1..Depth, NEW l \in 0..(c.layers - 1)
  PROVE  Lines(c, IF Batched(c) THEN BatchLayer(l) ELSE TokenLayer(l), {l} \X PartSet)
<1>1. l \in 0..(Depth - 1)
  BY DenseAssumption
<1> DEFINE LW == {l} \X PartSet
           qkv(by) == Use(by, Qkv(l))
           o(by) == Use(by, <<<<l, "o">>>>)
           gateUp(by) == Use(by, GateUp(l))
           down(by) == Use(by, <<<<l, "down">>>>)
           bys == {"chained", "qkv", "gate_up", "matvec", "many"}
<1>2. LW \subseteq ResidentWeights
  BY <1>1, GroupsAre DEF PartSet
<1>3. ASSUME NEW p \in PartSet
      PROVE  /\ <<l, p>> \in ResidentWeights
             /\ <<<<l, p>>>> \in Seq(ResidentWeights) /\ ToSet(<<<<l, p>>>>) = {<<l, p>>}
  <2>1. <<l, p>> \in ResidentWeights
    BY <1>2
  <2> QED BY <2>1, OneWeight DEF Distinct
<1>4. ASSUME NEW by \in bys
      PROVE  /\ qkv(by) \in UseSet /\ o(by) \in UseSet /\ gateUp(by) \in UseSet
             /\ down(by) \in UseSet /\ Use(by, Attention(l)) \in UseSet
             /\ Of(qkv(by)) = {<<l, "q">>, <<l, "k">>, <<l, "v">>}
             /\ Of(o(by)) = {<<l, "o">>}
             /\ Of(gateUp(by)) = {<<l, "gate">>, <<l, "up">>}
             /\ Of(down(by)) = {<<l, "down">>}
             /\ Of(Use(by, Attention(l))) = {<<l, "q">>, <<l, "k">>, <<l, "v">>, <<l, "o">>}
  <2>1. /\ Qkv(l) \in Seq(ResidentWeights) /\ GateUp(l) \in Seq(ResidentWeights)
        /\ Attention(l) \in Seq(ResidentWeights)
    BY <1>1, GroupsAre DEF Distinct
  <2>2. /\ ToSet(Qkv(l)) = {<<l, "q">>, <<l, "k">>, <<l, "v">>}
        /\ ToSet(GateUp(l)) = {<<l, "gate">>, <<l, "up">>}
        /\ ToSet(Attention(l)) = {<<l, "q">>, <<l, "k">>, <<l, "v">>, <<l, "o">>}
    BY <1>1, GroupsAre
  <2>3. "o" \in PartSet /\ "down" \in PartSet
    BY DEF PartSet
  <2> QED BY <1>3, <2>1, <2>2, <2>3 DEF UseSet, Use, Of
<1>5. ASSUME NEW P \in SUBSET PartSet, NEW Q \in SUBSET PartSet, P \cap Q = {}
      PROVE  Apart({l} \X P, {l} \X Q)
  BY <1>1, <1>5 DEF Apart
<1>6. CASE Batched(c)
  <2>1. "many" \in bys
    OBVIOUS
  <2>2. BatchLayer(l) = <<qkv("many"), o("many"), gateUp("many"), down("many")>>
    BY DEF BatchLayer
  <2>3. /\ UseOf(c, qkv("many")) /\ UseOf(c, o("many"))
        /\ UseOf(c, gateUp("many")) /\ UseOf(c, down("many"))
    BY <1>6 DEF UseOf, LayerUse, BatchUse
  <2> DEFINE a == qkv("many")
             b == o("many")
             d == gateUp("many")
             e == down("many")
  <2>4. /\ a \in UseSet /\ b \in UseSet /\ d \in UseSet /\ e \in UseSet
        /\ Of(a) = {<<l, "q">>, <<l, "k">>, <<l, "v">>} /\ Of(b) = {<<l, "o">>}
        /\ Of(d) = {<<l, "gate">>, <<l, "up">>} /\ Of(e) = {<<l, "down">>}
    BY <1>4, <2>1
  <2>5. UseOf(c, a) /\ UseOf(c, b) /\ UseOf(c, d) /\ UseOf(c, e)
    BY <2>3
  <2>6. BatchLayer(l) = <<a, b, d, e>>
    BY <2>2
  <2> HIDE DEF a, b, d, e
  <2>7. /\ Apart(Of(a), Of(b)) /\ Apart(Of(a), Of(d)) /\ Apart(Of(a), Of(e))
        /\ Apart(Of(b), Of(d)) /\ Apart(Of(b), Of(e)) /\ Apart(Of(d), Of(e))
    BY <1>1, <2>4 DEF Apart
  <2>8. Lines(c, <<a, b, d, e>>, Of(a) \cup Of(b) \cup Of(d) \cup Of(e))
    BY <2>4, <2>5, <2>7, LinesFour
  <2>9. Of(a) \cup Of(b) \cup Of(d) \cup Of(e) = LW
    BY <2>4 DEF PartSet
  <2> QED BY <1>6, <2>6, <2>8, <2>9
<1>7. CASE ~Batched(c)
  <2> DEFINE a == Use("chained", Attention(l))
             b == Use("qkv", Qkv(l))
             d == Use("matvec", <<<<l, "o">>>>)
             e == Use("gate_up", GateUp(l))
             f == Use("matvec", <<<<l, "down">>>>)
             H == {<<l, "q">>, <<l, "k">>, <<l, "v">>, <<l, "o">>}
             T == {<<l, "gate">>, <<l, "up">>, <<l, "down">>}
  <2>1. /\ a \in UseSet /\ b \in UseSet /\ d \in UseSet /\ e \in UseSet /\ f \in UseSet
        /\ Of(a) = H
        /\ Of(b) = {<<l, "q">>, <<l, "k">>, <<l, "v">>} /\ Of(d) = {<<l, "o">>}
        /\ Of(e) = {<<l, "gate">>, <<l, "up">>} /\ Of(f) = {<<l, "down">>}
    BY <1>4
  <2>2. /\ model.chain => UseOf(c, a)
        /\ ~model.chain => UseOf(c, b) /\ UseOf(c, d)
        /\ UseOf(c, e) /\ UseOf(c, f)
    BY <1>7 DEF UseOf, LayerUse, TokenUse
  <2>3. TokenLayer(l) = (IF model.chain THEN <<a>> ELSE <<b, d>>) \o <<e, f>>
    BY DEF TokenLayer
  <2> HIDE DEF a, b, d, e, f
  <2>4. Apart(Of(b), Of(d)) /\ Apart(Of(e), Of(f)) /\ Apart(H, T)
    BY <1>1, <2>1 DEF Apart
  <2>5. Of(e) \cup Of(f) = T /\ Of(b) \cup Of(d) = H
    BY <2>1
  <2>6. Lines(c, <<e, f>>, T)
    <3>1. Lines(c, <<e, f>>, Of(e) \cup Of(f))
      BY <2>1, <2>2, <2>4, LinesTwo
    <3> QED BY <2>5, <3>1
  <2> DEFINE g == IF model.chain THEN <<a>> ELSE <<b, d>>
  <2>7. Lines(c, g, H)
    <3>1. CASE model.chain
      <4>1. Lines(c, <<a>>, Of(a))
        BY <2>1, <2>2, <3>1, LinesOne
      <4> QED BY <2>1, <3>1, <4>1
    <3>2. CASE ~model.chain
      <4>1. Lines(c, <<b, d>>, Of(b) \cup Of(d))
        BY <2>1, <2>2, <2>4, <3>2, LinesTwo
      <4> QED BY <2>5, <3>2, <4>1
    <3> QED BY <3>1, <3>2
  <2>8. TokenLayer(l) = g \o <<e, f>>
    BY <2>3
  <2> HIDE DEF g
  <2>9. H \cup T = LW
    BY DEF PartSet
  <2> HIDE DEF H, T
  <2>10. Lines(c, g \o <<e, f>>, H \cup T)
    BY <2>4, <2>6, <2>7, LinesJoined
  <2> QED BY <1>7, <2>8, <2>9, <2>10
<1> QED BY <1>6, <1>7

LEMMA LayersLines ==
  ASSUME NEW c, c.layers \in 1..Depth
  PROVE  Lines(c, LayerUses(c), LayerWeights(c.layers))
<1> DEFINE n == c.layers
           seqs == [l \in 1..c.layers |->
                     IF Batched(c) THEN BatchLayer(l - 1) ELSE TokenLayer(l - 1)]
<1>1. n \in Nat \ {0} /\ Len(seqs) = n /\ LayerUses(c) = FlattenSeq(seqs)
  BY DenseAssumption DEF LayerUses
<1>2. ASSUME NEW k \in 1..n
      PROVE  Lines(c, seqs[k], {k - 1} \X PartSet)
  <2>1. PICK l \in 0..(n - 1) : l = k - 1
    BY <1>1
  <2>2. Lines(c, IF Batched(c) THEN BatchLayer(l) ELSE TokenLayer(l), {l} \X PartSet)
    BY LayerLines
  <2> QED BY <2>1, <2>2
<1> HIDE DEF n, seqs
<1>3. PICK f : FlattenSeq(seqs) = f[n] /\ Flat(f, seqs, n)
  BY <1>1, FlattenIs
<1> DEFINE T == {k \in Nat : k \in 1..n /\ ~Lines(c, f[k], LayerWeights(k))}
<1>4. SUFFICES ASSUME T # {} PROVE FALSE
  <2>1. n \in 1..n /\ n \in Nat
    BY <1>1
  <2>2. Lines(c, f[n], LayerWeights(n))
    BY <1>4, <2>1
  <2> QED BY <1>1, <1>3, <2>2 DEF n
<1>5. PICK k \in T : \A m \in T : k <= m
  <2>1. T \in SUBSET Nat /\ T # {}
    BY <1>4
  <2> HIDE DEF T
  <2> QED BY <2>1, LeastElement
<1>6. CASE k = 1
  <2>1. f[1] = seqs[1]
    <3>1. 1 \in 1..n
      BY <1>1
    <3> QED BY <1>3, <3>1 DEF Flat
  <2>2. Lines(c, seqs[1], {1 - 1} \X PartSet)
    BY <1>2, <1>5, <1>6
  <2>3. {1 - 1} \X PartSet = LayerWeights(1)
    BY LayerWeightsAre
  <2> QED BY <1>5, <1>6, <2>1, <2>2, <2>3
<1>7. CASE k # 1
  <2>1. k - 1 \in 1..n /\ k - 1 \in Nat \ {0} /\ k - 1 < k /\ (k - 1) + 1 = k
    BY <1>1, <1>5, <1>7
  <2>2. Lines(c, f[k - 1], LayerWeights(k - 1))
    BY <1>5, <2>1
  <2>3. f[k] = f[k - 1] \o seqs[k]
    <3>1. k \in 1..n
      BY <1>5
    <3> HIDE DEF T
    <3> QED BY <1>3, <1>7, <3>1 DEF Flat
  <2>4. Lines(c, seqs[k], {k - 1} \X PartSet)
    BY <1>2, <1>5
  <2>5. LayerWeights(k) = LayerWeights(k - 1) \cup ({k - 1} \X PartSet)
    BY <2>1, LayerWeightsAre
  <2>6. Apart(LayerWeights(k - 1), {k - 1} \X PartSet)
    <3>1. LayerWeights(k - 1) = (0..(k - 1 - 1)) \X PartSet
      BY <2>1, LayerWeightsAre
    <3> QED BY <2>1, <3>1 DEF Apart
  <2> DEFINE a == f[k - 1]
             b == seqs[k]
             V == LayerWeights(k - 1)
             W == {k - 1} \X PartSet
  <2>7. Lines(c, a, V) /\ Lines(c, b, W) /\ Apart(V, W)
    BY <2>2, <2>4, <2>6
  <2> HIDE DEF a, b, V, W
  <2>8. Lines(c, a \o b, V \cup W)
    BY <2>7, LinesJoined
  <2> QED BY <1>5, <2>3, <2>5, <2>8 DEF a, b, V, W
<1> QED BY <1>6, <1>7

NeedOf(c) == LayerWeights(c.layers) \cup (IF c.head THEN {Embed} ELSE {})

LEMMA TraversalLines ==
  ASSUME NEW c, c.layers \in 1..Depth, c.head \in BOOLEAN
  PROVE  Lines(c, LayerUses(c) \o HeadUses(c), NeedOf(c))
<1>1. Lines(c, LayerUses(c), LayerWeights(c.layers))
  BY LayersLines
<1> DEFINE H == IF c.head THEN {Embed} ELSE {}
<1>2. Lines(c, HeadUses(c), H)
  <2>1. CASE ~c.head
    BY <2>1, LinesNone DEF HeadUses
  <2>2. CASE c.head
    <3> DEFINE u == Use(IF Batched(c) THEN "many" ELSE "matvec", <<Embed>>)
    <3>1. Embed \in ResidentWeights /\ <<Embed>> \in Seq(ResidentWeights)
          /\ ToSet(<<Embed>>) = {Embed}
      BY WeightsAre, OneWeight DEF Distinct
    <3>2. u \in UseSet /\ Of(u) = {Embed} /\ UseOf(c, u)
      BY <2>2, <3>1 DEF UseSet, Use, Of, UseOf, HeadUse
    <3>3. HeadUses(c) = <<u>>
      BY <2>2 DEF HeadUses
    <3> HIDE DEF u
    <3>4. Lines(c, <<u>>, Of(u))
      BY <3>2, LinesOne
    <3> QED BY <2>2, <3>2, <3>3, <3>4
  <2> QED BY <2>1, <2>2
<1>3. Apart(LayerWeights(c.layers), H)
  <2>1. c.layers \in Nat /\ c.layers <= Depth
    BY DenseAssumption
  <2>2. LayerWeights(c.layers) = (0..(c.layers - 1)) \X PartSet
    BY <2>1, LayerWeightsAre
  <2>3. \A v \in LayerWeights(c.layers) : v[1] < Depth
    BY <2>1, <2>2, DenseAssumption
  <2>4. Embed[1] = Depth /\ \A v \in LayerWeights(c.layers) : v[1] \in Int
    BY <2>1, <2>2, WeightsAre
  <2> QED BY <2>3, <2>4, DenseAssumption DEF Apart
<1> HIDE DEF H
<1>4. Lines(c, LayerUses(c) \o HeadUses(c), LayerWeights(c.layers) \cup H)
  BY <1>1, <1>2, <1>3, LinesJoined
<1> QED BY <1>4 DEF NeedOf, H

-----------------------------------------------------------------------------
(* A traversal under way: what is left is what has not been read, in the   *)
(* order of the layers.                                                    *)
Pending(w) == \E j \in 1..Len(todo) : w \in Of(todo[j])
Ordered ==
  /\ \A i \in 1..Len(reads) : reads[i].weight \in Needed /\ reads[i].vectors = call.width
  /\ \A i, j \in 1..Len(reads) : i < j => reads[i].weight[1] <= reads[j].weight[1]
Remaining ==
  /\ todo \in Seq(UseSet)
  /\ \A j \in 1..Len(todo) : UseOf(call, todo[j]) /\ Of(todo[j]) \subseteq Needed
  /\ \A i, j \in 1..Len(todo) : i < j => Apart(Of(todo[i]), Of(todo[j]))
Ahead ==
  \A i \in 1..Len(reads), j \in 1..Len(todo) : Apart({reads[i].weight}, Of(todo[j]))
RunInv ==
  /\ CallInv /\ Remaining /\ Ordered /\ Ahead
  /\ \A w \in Needed : Pending(w) \/ WasRead(reads, w)
DenseInv ==
  /\ ModelInv
  /\ reads \in Seq(ReadSet)
  /\ \A i \in 1..Len(reads) : Honest(reads[i])
  /\ step \in {"chunk", "head", "layers", "exact", "ready", "refused"} => reads = <<>>
  /\ step = "running" => RunInv
  /\ step = "returned" => Ordered /\ \A w \in Needed : WasRead(reads, w)

LEMMA NothingRead ==
  /\ <<>> \in Seq(ReadSet) /\ \A i \in 1..Len(<<>>) : Honest(<<>>[i])
  /\ Len(<<>>) = 0 /\ 1..0 = {}
OBVIOUS

LEMMA SwitchesAre ==
  ASSUME options \in CommandLines
  PROVE  /\ options.residency \in {"streaming", "resident", "shared"}
         /\ options.chunk \in Nat /\ options.retain \in Nat
         /\ options.head \in BOOLEAN /\ options.exact \in BOOLEAN
         /\ options.staging \in BOOLEAN /\ options.chain \in BOOLEAN
         /\ options.fused \in BOOLEAN /\ options.batch \in BOOLEAN /\ options.async \in BOOLEAN
         /\ options.fits \in SUBSET {"qkv", "gate_up"}
         /\ options.residency = "shared" => ~options.exact
BY DenseAssumption DEF CommandLines, Switches

LEMMA NoLayers == {} = LayerWeights(0)
<1>1. LayerWeights(0) = (0..(0 - 1)) \X PartSet
  BY LayerWeightsAre
<1>2. 0..(0 - 1) = {}
  OBVIOUS
<1> QED BY <1>1, <1>2

LEMMA DenseInitInv == DenseInit => DenseInv
<1> SUFFICES ASSUME DenseInit PROVE DenseInv
  OBVIOUS
<1>1. /\ options \in CommandLines /\ reads = <<>> /\ step = "chunk"
      /\ model = [resident |-> IF options.residency = "streaming" THEN {} ELSE ResidentWeights,
                  hot |-> {}, retained |-> {}, exact |-> FALSE, chunk |-> 0, drafted |-> 0,
                  staging |-> options.staging, fits |-> options.fits,
                  chain |-> options.chain /\ ~options.staging,
                  fused |-> options.fused \/ options.staging
                              \/ (options.chain /\ ~options.staging),
                  batch |-> options.batch, async |-> options.async]
  BY DEF DenseInit
<1>2. 0 \in 0..Depth /\ 0 \in Nat
  BY DenseAssumption
<1>3. {} \in {LayerWeights(n) : n \in 0..Depth}
  BY <1>2, NoLayers
<1>4. /\ (options.chain /\ ~options.staging) \in BOOLEAN
      /\ (options.fused \/ options.staging \/ (options.chain /\ ~options.staging)) \in BOOLEAN
  OBVIOUS
<1>5. model \in ModelSet
  BY <1>1, <1>2, <1>3, <1>4, SwitchesAre DEF ModelSet
<1>6. Embed \in ResidentWeights
  BY WeightsAre
<1>7. ModelInv
  <2>1. /\ model.resident = IF options.residency = "streaming" THEN {} ELSE ResidentWeights
        /\ model.hot = {} /\ ~model.exact
    BY <1>1
  <2> QED BY <1>1, <1>5, <1>6, <2>1 DEF ModelInv
<1> QED BY <1>1, <1>7, NothingRead DEF DenseInv

-----------------------------------------------------------------------------
(* The configuration.                                                      *)
LEMMA ConfigureKeeps ==
  ASSUME DenseInv, NEW here \in {"chunk", "head", "layers", "exact"},
         NEW there \in {"head", "layers", "exact", "ready", "ended"},
         Configure(here, there), ModelInv'
  PROVE  DenseInv'
<1>1. reads = <<>> /\ reads' = reads /\ step' = there
  BY DEF Configure, DenseInv
<1>2. reads' = <<>>
  BY <1>1
<1>3. (reads \in Seq(ReadSet))'
  BY <1>2, NothingRead DEF ReadSet, ResidentWeights, LayerWeights, Embed, Row
<1>4. \A i \in 1..Len(reads') : Honest(reads[i])'
  BY <1>2, NothingRead
<1> QED BY <1>1, <1>2, <1>3, <1>4 DEF DenseInv

LEMMA SetChunkKeeps == ASSUME DenseInv, SetStreamChunkRows PROVE DenseInv'
<1>1. /\ Configure("chunk", "head") /\ model' = [model EXCEPT !.chunk = options.chunk]
      /\ options' = options /\ ModelInv
  BY DEF SetStreamChunkRows, Configure, DenseInv
<1>2. options.chunk \in Nat
  BY <1>1, SwitchesAre DEF ModelInv
<1>3. ModelInv'
  BY <1>1, <1>2 DEF ModelInv, ModelSet
<1> QED BY <1>1, <1>3, ConfigureKeeps

LEMMA SetHeadKeeps == ASSUME DenseInv, SetRetainOutputHead PROVE DenseInv'
<1> DEFINE refused == options.head /\ options.residency # "streaming"
           hot == IF options.head /\ ~refused THEN OutputHead ELSE {}
<1>1. /\ Configure("head", IF refused THEN "ended" ELSE "layers")
      /\ model' = [model EXCEPT !.hot = hot]
      /\ options' = options /\ ModelInv
  BY DEF SetRetainOutputHead, Configure, DenseInv
<1>2. hot \in {{}, OutputHead} /\ (hot # {} => options.head /\ options.residency = "streaming")
  OBVIOUS
<1> HIDE DEF hot
<1>3. model' \in ModelSet /\ model'.hot = hot /\ model'.resident = model.resident
      /\ model'.exact = model.exact
  BY <1>1, <1>2 DEF ModelInv, ModelSet
<1>4. ModelInv'
  BY <1>1, <1>2, <1>3 DEF ModelInv
<1> QED BY <1>1, <1>4, ConfigureKeeps

LEMMA SetLayersKeeps == ASSUME DenseInv, SetRetainLayers PROVE DenseInv'
<1> DEFINE refused == \/ options.retain > 0 /\ options.residency # "streaming"
                      \/ options.retain > Depth
<1>1. /\ Configure("layers", IF refused THEN "ended" ELSE "exact")
      /\ model' = IF refused THEN model
                  ELSE [model EXCEPT !.retained = LayerWeights(options.retain)]
      /\ options' = options /\ ModelInv
  BY DEF SetRetainLayers, Configure, DenseInv, RetainedLayers
<1>2. options.retain \in Nat
  BY <1>1, SwitchesAre DEF ModelInv
<1>3. ModelInv'
  <2>1. CASE refused
    BY <1>1, <2>1 DEF ModelInv
  <2>2. CASE ~refused
    <3>1. options.retain \in 0..Depth
      BY <1>2, <2>2, DenseAssumption
    <3> DEFINE kept == LayerWeights(options.retain)
    <3>2. kept \in {LayerWeights(n) : n \in 0..Depth}
      BY <3>1
    <3>3. model' = [model EXCEPT !.retained = kept]
      BY <1>1, <2>2
    <3> HIDE DEF kept
    <3>4. model' \in ModelSet /\ model'.hot = model.hot /\ model'.resident = model.resident
          /\ model'.exact = model.exact
      BY <1>1, <3>2, <3>3 DEF ModelInv, ModelSet
    <3> QED BY <1>1, <3>4 DEF ModelInv
  <2> QED BY <2>1, <2>2
<1> QED BY <1>1, <1>3, ConfigureKeeps

LEMMA SetExactKeeps == ASSUME DenseInv, SetExactHeadSearch PROVE DenseInv'
<1> DEFINE refused == options.exact /\ (options.head \/ options.residency = "resident")
           exact == options.exact /\ ~refused
<1>1. /\ Configure("exact", IF refused THEN "ended" ELSE "ready")
      /\ model' = [model EXCEPT !.exact = exact]
      /\ options' = options /\ ModelInv
  BY DEF SetExactHeadSearch, Configure, DenseInv
<1>2. options \in CommandLines
  BY <1>1 DEF ModelInv
<1>3. exact \in BOOLEAN /\ (exact => ~options.head /\ options.residency = "streaming")
  BY <1>2, SwitchesAre
<1> HIDE DEF exact
<1>4. model' \in ModelSet /\ model'.hot = model.hot /\ model'.resident = model.resident
      /\ model'.exact = exact
  BY <1>1, <1>3 DEF ModelInv, ModelSet
<1>5. ModelInv'
  BY <1>1, <1>3, <1>4 DEF ModelInv
<1> QED BY <1>1, <1>5, ConfigureKeeps

-----------------------------------------------------------------------------
(* A traversal begins with everything still to read.                       *)
LEMMA BeginKeeps ==
  ASSUME DenseInv, NEW c, NEW refused \in BOOLEAN, Begin(c, refused),
         ~refused => /\ c.layers \in 1..Depth /\ c.head \in BOOLEAN /\ c.width \in Nat
                     /\ (~Batched(c) => c.width = 1)
                     /\ (Batched(c) => ~Unbatchable)
  PROVE  DenseInv'
<1>1. /\ step = "ready" /\ call' = c /\ options' = options /\ model' = model /\ reads' = reads
      /\ reads = <<>> /\ ModelInv
  BY DEF Begin, DenseInv
<1>2. ModelInv'
  BY <1>1 DEF ModelInv, ModelSet, CommandLines, Switches, ResidentWeights, LayerWeights,
     OutputHead, Embed
<1>3. reads' = <<>> /\ (reads \in Seq(ReadSet))' /\ \A i \in 1..Len(reads') : Honest(reads[i])'
  BY <1>1, NothingRead DEF ReadSet, ResidentWeights, LayerWeights, Embed, Row
<1>4. CASE refused
  <2>1. step' = "refused"
    BY <1>4 DEF Begin
  <2> QED BY <1>2, <1>3, <2>1 DEF DenseInv
<1>5. CASE ~refused
  <2>1. step' = "running" /\ todo' = LayerUses(c) \o HeadUses(c)
    BY <1>5 DEF Begin
  <2> DEFINE s == LayerUses(c) \o HeadUses(c)
  <2>2. Lines(c, s, NeedOf(c))
    BY <1>5, TraversalLines
  <2> HIDE DEF s
  <2>3. todo' = s /\ Needed' = NeedOf(c)
    BY <1>1, <2>1 DEF s, Needed, NeedOf
  <2>4. CallInv'
    BY <1>1, <1>5 DEF CallInv, Unbatchable, Batched
  <2>5. \A u : UseOf(c, u) => UseOf(call, u)'
    BY <1>1 DEF UseOf, HeadUse, LayerUse, BatchUse, TokenUse, Batched
  <2>6. /\ s \in Seq(UseSet)
        /\ \A i \in 1..Len(s) : UseOf(c, s[i]) /\ Of(s[i]) \subseteq NeedOf(c)
        /\ \A w \in NeedOf(c) : \E i \in 1..Len(s) : w \in Of(s[i])
        /\ \A i, j \in 1..Len(s) : i < j => Apart(Of(s[i]), Of(s[j]))
    BY <2>2 DEF Lines
  <2>7. Remaining'
    <3>1. \A j \in 1..Len(todo') : UseOf(call, todo[j])' /\ Of(todo'[j]) \subseteq Needed'
      BY <2>3, <2>5, <2>6
    <3> QED BY <2>3, <2>6, <3>1 DEF Remaining
  <2>8. \A w \in Needed' : Pending(w)'
    BY <2>3, <2>6 DEF Pending
  <2>9. Ordered' /\ Ahead'
    BY <1>3, NothingRead DEF Ordered, Ahead
  <2>10. RunInv'
    BY <2>4, <2>7, <2>8, <2>9 DEF RunInv
  <2> QED BY <1>2, <1>3, <2>1, <2>10 DEF DenseInv
<1> QED BY <1>4, <1>5

LEMMA TraversalKeeps ==
  ASSUME DenseInv,
         \/ ForwardToken \/ ForwardTokenPrefix
         \/ \E layers \in 0..(Depth + 1) : PreparePartialDraft(layers)
         \/ \E width \in Widths : ForwardTokensMany(width) \/ ForwardTreeMany(width)
  PROVE  DenseInv'
<1>1. /\ Depth \in Nat \ {0} /\ Widths \subseteq 1..8 /\ 1 \in Nat
      /\ model.drafted \in 0..Depth
  BY DenseAssumption DEF DenseInv, ModelInv, ModelSet
<1>2. CASE ForwardToken
  <2> DEFINE c == [kind |-> "token", layers |-> Depth, head |-> TRUE, width |-> 1]
  <2>1. c.layers \in 1..Depth /\ c.head \in BOOLEAN /\ c.width = 1 /\ ~Batched(c)
    BY <1>1 DEF Batched
  <2>2. Begin(c, FALSE)
    BY <1>2 DEF ForwardToken
  <2> HIDE DEF c
  <2> QED BY <1>1, <2>1, <2>2, BeginKeeps
<1>3. CASE ForwardTokenPrefix
  <2> DEFINE c == [kind |-> "prefix", layers |-> model.drafted, head |-> TRUE, width |-> 1]
  <2>1. model.drafted > 0 /\ Begin(c, FALSE)
    BY <1>3 DEF ForwardTokenPrefix
  <2>2. c.layers \in 1..Depth /\ c.head \in BOOLEAN /\ c.width = 1 /\ ~Batched(c)
    BY <1>1, <2>1 DEF Batched
  <2> HIDE DEF c
  <2> QED BY <1>1, <2>1, <2>2, BeginKeeps
<1>4. ASSUME NEW layers \in 0..(Depth + 1), PreparePartialDraft(layers) PROVE DenseInv'
  <2> DEFINE c == [kind |-> "prepare", layers |-> layers, head |-> FALSE, width |-> 1]
             refused == Unbatchable \/ layers = 0 \/ layers > Depth
  <2>1. Begin(c, refused)
    BY <1>4 DEF PreparePartialDraft
  <2>2. ~refused => c.layers \in 1..Depth
    BY <1>1
  <2>3. c.head \in BOOLEAN /\ c.width = 1 /\ ~Batched(c)
    BY DEF Batched
  <2>4. refused \in BOOLEAN
    BY DEF Unbatchable
  <2> HIDE DEF c, refused
  <2> QED BY <1>1, <2>1, <2>2, <2>3, <2>4, BeginKeeps
<1>5. ASSUME NEW width \in Widths, ForwardTokensMany(width) \/ ForwardTreeMany(width)
      PROVE  DenseInv'
  <2>1. PICK kind \in {"window", "tree"} :
          Begin([kind |-> kind, layers |-> Depth, head |-> TRUE, width |-> width], Unbatchable)
    BY <1>5 DEF ForwardTokensMany, ForwardTreeMany
  <2> DEFINE c == [kind |-> kind, layers |-> Depth, head |-> TRUE, width |-> width]
             refused == Unbatchable
  <2>2. c.layers \in 1..Depth /\ c.head \in BOOLEAN /\ c.width \in Nat /\ Batched(c)
    BY <1>1 DEF Batched
  <2>3. refused \in BOOLEAN
    BY DEF Unbatchable
  <2>4. Begin(c, refused)
    BY <2>1
  <2>5. ~refused => ~Unbatchable
    OBVIOUS
  <2> HIDE DEF c, refused
  <2> QED BY <2>2, <2>3, <2>4, <2>5, BeginKeeps
<1> QED BY <1>2, <1>3, <1>4, <1>5

-----------------------------------------------------------------------------
(* A projection of a traversal that has begun is never refused.            *)
LEMMA FirstUse ==
  ASSUME RunInv, todo # <<>>
  PROVE  /\ 1 \in 1..Len(todo) /\ Head(todo) = todo[1] /\ Head(todo) \in UseSet
         /\ UseOf(call, Head(todo)) /\ Of(Head(todo)) \subseteq Needed
<1>1. todo \in Seq(UseSet)
  BY DEF RunInv, Remaining
<1>2. 1 \in 1..Len(todo) /\ Head(todo) = todo[1] /\ Head(todo) \in UseSet
  BY <1>1
<1> QED BY <1>2 DEF RunInv, Remaining

LEMMA NeverRefused ==
  ASSUME DenseInv, step = "running", todo # <<>>
  PROVE  ~Refuses(Head(todo))
<1> DEFINE u == Head(todo)
<1>1. RunInv /\ ModelInv /\ CallInv
  BY DEF DenseInv, RunInv
<1>2. u \in UseSet /\ UseOf(call, u)
  BY <1>1, FirstUse
<1> HIDE DEF u
<1>3. ~Missing(u.weights)
  <2>1. ToSet(u.weights) \subseteq ResidentWeights
    BY <1>2 DEF UseSet, ToSet
  <2>2. model.resident # {} => model.resident = ResidentWeights
    BY <1>1 DEF ModelInv, ModelSet
  <2> QED BY <2>1, <2>2 DEF Missing
<1>4. u.by = "many" => Batched(call)
  BY <1>2 DEF UseOf, HeadUse, LayerUse, TokenUse, Use
<1>5. ~Refuses(u)
  BY <1>1, <1>3, <1>4 DEF Refuses, CallInv
<1> QED BY <1>5 DEF u

LEMMA SameModel ==
  ASSUME UNCHANGED <<options, model, call>>
  PROVE  /\ ModelInv => ModelInv'
         /\ CallInv => CallInv'
         /\ Needed' = Needed
         /\ \A x : Honest(x) => Honest(x)'
         /\ \A x : UseOf(call, x) => UseOf(call, x)'
         /\ \A s, w : WasRead(s, w) => WasRead(s, w)'
<1>1. ModelInv => ModelInv'
  BY DEF ModelInv, ModelSet, CommandLines, Switches, ResidentWeights, LayerWeights,
     OutputHead, Embed
<1>2. CallInv => CallInv'
  BY DEF CallInv, Batched, Unbatchable
<1>3. Needed' = Needed
  BY DEF Needed
<1>4. ASSUME NEW x, Honest(x) PROVE Honest(x)'
  BY <1>4 DEF Honest, Free, Single, Long, Searched, Batched
<1>5. ASSUME NEW x, UseOf(call, x) PROVE UseOf(call, x)'
  BY <1>5 DEF UseOf, HeadUse, LayerUse, BatchUse, TokenUse, Batched
<1>6. ASSUME NEW s, NEW w, WasRead(s, w) PROVE WasRead(s, w)'
  BY <1>6 DEF WasRead, Searched
<1> QED BY <1>1, <1>2, <1>3, <1>4, <1>5, <1>6

(* What has been read for other weights stays, and what is read for a      *)
(* weight of this projection is new.                                       *)
LEMMA DoneBefore ==
  ASSUME NEW a \in Seq(ReadSet), NEW b \in Seq(ReadSet), NEW w, WasRead(a, w),
         \A i \in 1..Len(b) : b[i].weight # w
  PROVE  WasRead(a \o b, w)
<1>1. \A r \in Row : Never(b, w, r)
  BY DEF Never, Hit
<1>2. ASSUME NEW r \in Row
      PROVE  /\ Once(a, w, r) => Once(a \o b, w, r)
             /\ AtMostOnce(a, w, r) => AtMostOnce(a \o b, w, r)
  BY <1>1, HitsJoined
<1> QED BY <1>2 DEF WasRead

LEMMA DoneNow ==
  ASSUME NEW a \in Seq(ReadSet), NEW b \in Seq(ReadSet), NEW w, WasRead(b, w),
         \A i \in 1..Len(a) : a[i].weight # w
  PROVE  WasRead(a \o b, w)
<1>1. \A r \in Row : Never(a, w, r)
  BY DEF Never, Hit
<1>2. ASSUME NEW r \in Row
      PROVE  /\ Once(b, w, r) => Once(a \o b, w, r)
             /\ AtMostOnce(b, w, r) => AtMostOnce(a \o b, w, r)
  BY <1>1, HitsJoined
<1> QED BY <1>2 DEF WasRead

(* The weights of a projection are of one layer.                           *)
LEMMA OneLayer ==
  ASSUME CallInv, NEW u, UseOf(call, u), NEW v \in Of(u), NEW w \in Of(u)
  PROVE  v[1] = w[1]
<1>1. CASE HeadUse(call, u)
  <2>1. Of(u) = {Embed}
    BY <1>1, WeightsAre, OneWeight DEF HeadUse, Use, Of
  <2> QED BY <2>1
<1>2. ASSUME NEW l \in 0..(call.layers - 1), LayerUse(call, l, u) PROVE v[1] = w[1]
  <2>1. l \in 0..(Depth - 1)
    BY DenseAssumption DEF CallInv
  <2>2. /\ ToSet(Qkv(l)) = {<<l, "q">>, <<l, "k">>, <<l, "v">>}
        /\ ToSet(GateUp(l)) = {<<l, "gate">>, <<l, "up">>}
        /\ ToSet(Attention(l)) = {<<l, "q">>, <<l, "k">>, <<l, "v">>, <<l, "o">>}
    BY <2>1, GroupsAre
  <2>3. ToSet(<<<<l, "o">>>>) = {<<l, "o">>} /\ ToSet(<<<<l, "down">>>>) = {<<l, "down">>}
    BY DEF ToSet
  <2>4. \/ u.weights = Qkv(l) \/ u.weights = GateUp(l) \/ u.weights = Attention(l)
        \/ u.weights = <<<<l, "o">>>> \/ u.weights = <<<<l, "down">>>>
    BY <1>2 DEF LayerUse, BatchUse, TokenUse, Use
  <2>5. \A x \in Of(u) : x[1] = l
    BY <2>2, <2>3, <2>4 DEF Of
  <2> QED BY <2>5
<1> QED BY <1>1, <1>2 DEF UseOf

LEMMA MadeKeeps ==
  ASSUME DenseInv, step = "running", todo # <<>>, NEW made \in Reads(Head(todo)),
         reads' = reads \o made, todo' = Tail(todo), step' = step,
         UNCHANGED <<options, model, call>>
  PROVE  DenseInv'
<1> DEFINE u == Head(todo)
           m == Len(reads)
           n == Len(made)
<1>1. RunInv /\ ModelInv /\ CallInv /\ reads \in Seq(ReadSet)
      /\ \A i \in 1..m : Honest(reads[i])
  BY DEF DenseInv, RunInv
<1>2. /\ 1 \in 1..Len(todo) /\ u = todo[1] /\ UseOf(call, u) /\ Of(u) \subseteq Needed
  BY <1>1, FirstUse
<1>3. MadeFor(u, made)
  <2> HIDE DEF u
  <2>1. made \in Reads(u)
    BY DEF u
  <2> QED BY <1>1, <1>2, <2>1, ProjectionReads
<1> HIDE DEF u
<1>4. /\ made \in Seq(ReadSet)
      /\ \A i \in 1..n : made[i].weight \in Of(u) /\ made[i].vectors = call.width
                         /\ Honest(made[i])
      /\ \A w \in Of(u) : WasRead(made, w)
  BY <1>3 DEF MadeFor, Of
<1> DEFINE s == reads \o made
<1>5. /\ s \in Seq(ReadSet) /\ m \in Nat /\ n \in Nat /\ Len(s) = m + n
      /\ \A i \in 1..m : i \in 1..Len(s) /\ s[i] = reads[i]
      /\ \A i \in 1..n : m + i \in 1..Len(s) /\ s[m + i] = made[i]
      /\ \A i \in 1..Len(s) : \/ i \in 1..m
                              \/ \E j \in 1..n : i = m + j
  <2>1. reads \in Seq(ReadSet) /\ made \in Seq(ReadSet)
    BY <1>1, <1>4
  <2>2. s \in Seq(ReadSet) /\ Joins(s, reads, made)
    BY <2>1, Joined
  <2> HIDE DEF s
  <2> QED BY <2>2 DEF Joins
<1>6. /\ todo \in Seq(UseSet)
      /\ Len(todo') = Len(todo) - 1
      /\ todo' \in Seq(UseSet)
      /\ \A j \in 1..Len(todo') : j + 1 \in 1..Len(todo) /\ todo'[j] = todo[j + 1]
  <2>1. todo \in Seq(UseSet)
    BY <1>1 DEF RunInv, Remaining
  <2> QED BY <2>1
<1>7. /\ ModelInv' /\ CallInv' /\ Needed' = Needed /\ call' = call
      /\ \A x : Honest(x) => Honest(x)'
      /\ \A x : UseOf(call, x) => UseOf(call, x)'
      /\ \A x, w : WasRead(x, w) => WasRead(x, w)'
  BY <1>1, SameModel
<1>8. reads' = s
  OBVIOUS
<1> HIDE DEF s, m, n
<1>9. \A i \in 1..Len(s) : Honest(s[i])
  BY <1>1, <1>4, <1>5
<1>10. /\ \A i \in 1..m : reads[i].weight \in Needed /\ reads[i].vectors = call.width
       /\ \A i, j \in 1..m : i < j => reads[i].weight[1] <= reads[j].weight[1]
       /\ \A i \in 1..m, j \in 1..Len(todo) : Apart({reads[i].weight}, Of(todo[j]))
  BY <1>1 DEF RunInv, Ordered, Ahead, m
<1>11. /\ \A j \in 1..Len(todo) : UseOf(call, todo[j]) /\ Of(todo[j]) \subseteq Needed
       /\ \A i, j \in 1..Len(todo) : i < j => Apart(Of(todo[i]), Of(todo[j]))
       /\ \A w \in Needed : Pending(w) \/ WasRead(reads, w)
  BY <1>1 DEF RunInv, Remaining
<1>12. Ordered'
  <2>1. ASSUME NEW i \in 1..Len(s)
        PROVE  s[i].weight \in Needed /\ s[i].vectors = call.width
    <3>1. CASE i \in 1..m
      <4>1. s[i] = reads[i]
        BY <1>5, <3>1
      <4>2. reads[i].weight \in Needed /\ reads[i].vectors = call.width
        BY <1>10, <3>1, Zenon
      <4> QED BY <4>1, <4>2, Zenon
    <3>2. CASE i \notin 1..m
      <4>1. PICK y \in 1..n : i = m + y
        BY <1>5, <3>2
      <4>2. s[i] = made[y]
        BY <1>5, <4>1
      <4> QED BY <1>2, <1>4, <4>2
    <3> QED BY <3>1, <3>2
  <2>2. ASSUME NEW i \in 1..Len(s), NEW j \in 1..Len(s), i < j
        PROVE  s[i].weight[1] <= s[j].weight[1]
    <3>1. CASE i \in 1..m /\ j \in 1..m
      BY <1>5, <1>10, <2>2, <3>1
    <3>2. CASE i \in 1..m /\ j \notin 1..m
      <4>1. PICK y \in 1..n : j = m + y
        BY <1>5, <3>2
      <4>2. made[y].weight \in Of(u) /\ s[j] = made[y] /\ s[i] = reads[i]
        BY <1>4, <1>5, <3>2, <4>1
      <4>3. Apart({reads[i].weight}, Of(u))
        BY <1>2, <1>10, <3>2
      <4> QED BY <4>2, <4>3 DEF Apart
    <3>3. CASE i \notin 1..m
      <4>1. PICK x \in 1..n : i = m + x
        BY <1>5, <3>3
      <4>2. j \notin 1..m
        BY <1>5, <2>2, <4>1
      <4>3. PICK y \in 1..n : j = m + y
        BY <1>5, <4>2
      <4>4. made[x].weight \in Of(u) /\ made[y].weight \in Of(u)
            /\ s[i] = made[x] /\ s[j] = made[y]
        BY <1>4, <1>5, <4>1, <4>3
      <4>5. s[i].weight[1] = s[j].weight[1]
        BY <1>1, <1>2, <4>4, OneLayer
      <4>6. s[i].weight[1] \in Int
        <5>1. s[i] \in ReadSet
          BY <1>5
        <5>2. s[i].weight \in ResidentWeights
          BY <5>1 DEF ReadSet
        <5> QED BY <5>2, WeightsAre, DenseAssumption
      <4> QED BY <4>5, <4>6
    <3> QED BY <3>1, <3>2, <3>3
  <2> QED BY <1>7, <1>8, <2>1, <2>2 DEF Ordered
<1>13. Remaining'
  <2>1. \A j \in 1..Len(todo') : UseOf(call, todo[j])' /\ Of(todo'[j]) \subseteq Needed'
    BY <1>6, <1>7, <1>11
  <2>2. \A i, j \in 1..Len(todo') : i < j => Apart(Of(todo'[i]), Of(todo'[j]))
    <3> SUFFICES ASSUME NEW i \in 1..Len(todo'), NEW j \in 1..Len(todo'), i < j
                 PROVE  Apart(Of(todo'[i]), Of(todo'[j]))
      OBVIOUS
    <3>1. i + 1 < j + 1
      OBVIOUS
    <3> QED BY <1>6, <1>11, <3>1
  <2> QED BY <1>6, <2>1, <2>2 DEF Remaining
<1>14. Ahead'
  <2>1. ASSUME NEW i \in 1..Len(s), NEW j \in 1..Len(todo')
        PROVE  Apart({s[i].weight}, Of(todo'[j]))
    <3>1. j + 1 \in 1..Len(todo) /\ todo'[j] = todo[j + 1] /\ 1 < j + 1
      BY <1>6
    <3>2. CASE i \in 1..m
      BY <1>5, <1>10, <3>1, <3>2
    <3>3. CASE i \notin 1..m
      <4>1. PICK x \in 1..n : i = m + x
        BY <1>5, <3>3
      <4>2. s[i].weight \in Of(u)
        BY <1>4, <1>5, <4>1
      <4>3. Apart(Of(u), Of(todo[j + 1]))
        BY <1>2, <1>11, <3>1
      <4> QED BY <3>1, <4>2, <4>3 DEF Apart
    <3> QED BY <3>2, <3>3
  <2> QED BY <1>8, <2>1 DEF Ahead
<1>15. ASSUME NEW w \in Needed PROVE Pending(w)' \/ WasRead(s, w)
  <2>1. CASE w \in Of(u)
    <3>1. Apart({reads[i].weight : i \in 1..m}, Of(u))
      BY <1>2, <1>10 DEF Apart
    <3>2. \A i \in 1..Len(reads) : reads[i].weight # w
      BY <2>1, <3>1 DEF Apart, m
    <3>3. WasRead(made, w)
      BY <1>4, <2>1
    <3>4. WasRead(reads \o made, w)
      BY <1>1, <1>4, <3>2, <3>3, DoneNow
    <3> QED BY <3>4 DEF s
  <2>2. CASE w \notin Of(u) /\ Pending(w)
    <3>1. PICK j \in 1..Len(todo) : w \in Of(todo[j])
      BY <2>2 DEF Pending
    <3>2. j # 1
      BY <1>2, <2>2, <3>1
    <3>3. j - 1 \in 1..Len(todo') /\ todo'[j - 1] = todo[j]
      <4>1. j - 1 \in 1..Len(todo')
        BY <1>6, <3>1, <3>2
      <4>2. todo'[j - 1] = todo[(j - 1) + 1] /\ (j - 1) + 1 = j
        BY <1>6, <4>1
      <4> QED BY <4>1, <4>2
    <3> QED BY <3>1, <3>3 DEF Pending
  <2>3. CASE w \notin Of(u) /\ WasRead(reads, w)
    <3>1. \A i \in 1..Len(made) : made[i].weight # w
      BY <1>4, <2>3 DEF n
    <3>2. WasRead(reads \o made, w)
      BY <1>1, <1>4, <2>3, <3>1, DoneBefore
    <3> QED BY <3>2 DEF s
  <2> QED BY <1>11, <2>1, <2>2, <2>3
<1>16. \A w \in Needed' : Pending(w)' \/ WasRead(reads, w)'
  BY <1>7, <1>8, <1>15
<1>17. RunInv'
  BY <1>7, <1>12, <1>13, <1>14, <1>16 DEF RunInv
<1>18. (reads \in Seq(ReadSet))' /\ \A i \in 1..Len(reads') : Honest(reads[i])'
  <2>1. ReadSet' = ReadSet
    BY DEF ReadSet, ResidentWeights, LayerWeights, Embed, Row
  <2> QED BY <1>5, <1>7, <1>8, <1>9, <2>1
<1> QED BY <1>7, <1>17, <1>18 DEF DenseInv

LEMMA StopKeeps ==
  ASSUME DenseInv, step' = "ended", UNCHANGED <<options, model, call, todo, reads>>
  PROVE  DenseInv'
<1>1. /\ ModelInv' /\ \A x : Honest(x) => Honest(x)'
  BY SameModel DEF DenseInv
<1>2. (reads \in Seq(ReadSet))' /\ \A i \in 1..Len(reads') : Honest(reads[i])'
  <2>1. ReadSet' = ReadSet
    BY DEF ReadSet, ResidentWeights, LayerWeights, Embed, Row
  <2> QED BY <1>1, <2>1 DEF DenseInv
<1> QED BY <1>1, <1>2 DEF DenseInv

LEMMA ProjectKeeps == ASSUME DenseInv, Project PROVE DenseInv'
<1>1. step = "running" /\ todo # <<>> /\ UNCHANGED <<options, model, call>>
  BY DEF Project
<1>2. ~Refuses(Head(todo))
  BY <1>1, NeverRefused
<1>3. CASE \E made \in Reads(Head(todo)) :
             reads' = reads \o made /\ todo' = Tail(todo) /\ step' = step
  <2>1. PICK made \in Reads(Head(todo)) :
          reads' = reads \o made /\ todo' = Tail(todo) /\ step' = step
    BY <1>3
  <2> QED BY <1>1, <2>1, MadeKeeps
<1>4. CASE step' = "ended" /\ UNCHANGED <<todo, reads>>
  BY <1>1, <1>4, StopKeeps
<1> QED BY <1>2, <1>3, <1>4 DEF Project

LEMMA FinishKeeps == ASSUME DenseInv, Finish PROVE DenseInv'
<1>1. /\ step = "running" /\ todo = <<>> /\ step' = "returned"
      /\ model' = [model EXCEPT !.drafted = IF call.kind = "prepare" THEN call.layers
                                            ELSE model.drafted]
      /\ options' = options /\ call' = call /\ reads' = reads
      /\ ModelInv /\ RunInv /\ CallInv
  BY DEF Finish, DenseInv, RunInv
<1> DEFINE drafted == IF call.kind = "prepare" THEN call.layers ELSE model.drafted
<1>2. drafted \in 0..Depth
  BY <1>1, DenseAssumption DEF CallInv, ModelInv, ModelSet
<1>3. model' = [model EXCEPT !.drafted = drafted]
  BY <1>1
<1> HIDE DEF drafted
<1>4. /\ model' \in ModelSet
      /\ model'.resident = model.resident /\ model'.hot = model.hot
      /\ model'.retained = model.retained /\ model'.exact = model.exact
      /\ model'.chunk = model.chunk /\ model'.chain = model.chain
  BY <1>1, <1>2, <1>3 DEF ModelInv, ModelSet
<1>5. ModelInv'
  BY <1>1, <1>4 DEF ModelInv
<1>6. /\ Needed' = Needed
      /\ \A x : Honest(x) => Honest(x)'
      /\ \A s, w : WasRead(s, w) => WasRead(s, w)'
  <2>1. Needed' = Needed
    BY <1>1 DEF Needed
  <2>2. ASSUME NEW x, Honest(x) PROVE Honest(x)'
    BY <1>1, <1>4, <2>2 DEF Honest, Free, Single, Long, Searched, Batched
  <2>3. ASSUME NEW s, NEW w, WasRead(s, w) PROVE WasRead(s, w)'
    BY <1>1, <1>4, <2>3 DEF WasRead, Searched
  <2> QED BY <2>1, <2>2, <2>3
<1>7. (reads \in Seq(ReadSet))' /\ \A i \in 1..Len(reads') : Honest(reads[i])'
  <2>1. ReadSet' = ReadSet
    BY DEF ReadSet, ResidentWeights, LayerWeights, Embed, Row
  <2> QED BY <1>1, <1>6, <2>1 DEF DenseInv
<1>8. Ordered'
  BY <1>1, <1>6 DEF RunInv, Ordered
<1>9. \A w \in Needed' : WasRead(reads, w)'
  <2>1. \A w \in Needed : ~Pending(w)
    BY <1>1 DEF Pending
  <2> QED BY <1>1, <1>6, <2>1 DEF RunInv
<1> QED BY <1>1, <1>5, <1>7, <1>8, <1>9 DEF DenseInv

LEMMA ContinueKeeps == ASSUME DenseInv, Continue PROVE DenseInv'
<1>1. step' = "ready" /\ options' = options /\ model' = model /\ reads' = <<>> /\ ModelInv
  BY DEF Continue, DenseInv
<1>2. ModelInv'
  BY <1>1 DEF ModelInv, ModelSet, CommandLines, Switches, ResidentWeights, LayerWeights,
     OutputHead, Embed
<1>3. (reads \in Seq(ReadSet))' /\ \A i \in 1..Len(reads') : Honest(reads[i])'
  BY <1>1, NothingRead DEF ReadSet, ResidentWeights, LayerWeights, Embed, Row
<1> QED BY <1>1, <1>2, <1>3 DEF DenseInv

LEMMA StutterKeeps == ASSUME DenseInv, UNCHANGED dense_vars PROVE DenseInv'
<1>1. /\ options' = options /\ model' = model /\ call' = call /\ todo' = todo
      /\ reads' = reads /\ step' = step
  BY DEF dense_vars
<1>2. /\ ModelInv => ModelInv'
      /\ CallInv => CallInv'
      /\ Needed' = Needed
      /\ \A x : Honest(x) => Honest(x)'
      /\ \A x : UseOf(call, x) => UseOf(call, x)'
      /\ \A s, w : WasRead(s, w) => WasRead(s, w)'
  BY <1>1, SameModel
<1>3. RunInv => RunInv'
  <2> SUFFICES ASSUME RunInv PROVE RunInv'
    OBVIOUS
  <2>1. Remaining' /\ Ordered' /\ Ahead'
    BY <1>1, <1>2 DEF RunInv, Remaining, Ordered, Ahead
  <2>2. \A w \in Needed' : Pending(w)' \/ WasRead(reads, w)'
    BY <1>1, <1>2 DEF RunInv, Pending
  <2> QED BY <1>2, <2>1, <2>2 DEF RunInv
<1>4. Ordered => Ordered'
  BY <1>1, <1>2 DEF Ordered
<1>5. (reads \in Seq(ReadSet))' /\ \A i \in 1..Len(reads') : Honest(reads[i])'
  <2>1. ReadSet' = ReadSet
    BY DEF ReadSet, ResidentWeights, LayerWeights, Embed, Row
  <2> QED BY <1>1, <1>2, <2>1 DEF DenseInv
<1> QED BY <1>1, <1>2, <1>3, <1>4, <1>5 DEF DenseInv

LEMMA DenseKeeps == DenseInv /\ [DenseNext]_dense_vars => DenseInv'
<1> SUFFICES ASSUME DenseInv, [DenseNext]_dense_vars PROVE DenseInv'
  OBVIOUS
<1>1. CASE SetStreamChunkRows
  BY <1>1, SetChunkKeeps
<1>2. CASE SetRetainOutputHead
  BY <1>2, SetHeadKeeps
<1>3. CASE SetRetainLayers
  BY <1>3, SetLayersKeeps
<1>4. CASE SetExactHeadSearch
  BY <1>4, SetExactKeeps
<1>5. CASE \/ ForwardToken \/ ForwardTokenPrefix
           \/ \E layers \in 0..(Depth + 1) : PreparePartialDraft(layers)
           \/ \E width \in Widths : ForwardTokensMany(width) \/ ForwardTreeMany(width)
  BY <1>5, TraversalKeeps
<1>6. CASE Project
  BY <1>6, ProjectKeeps
<1>7. CASE Finish
  BY <1>7, FinishKeeps
<1>8. CASE Continue
  BY <1>8, ContinueKeeps
<1>9. CASE Ended \/ UNCHANGED dense_vars
  BY <1>9, StutterKeeps DEF Ended
<1> QED BY <1>1, <1>2, <1>3, <1>4, <1>5, <1>6, <1>7, <1>8, <1>9 DEF DenseNext

-----------------------------------------------------------------------------
(* From one read to the number of reads.                                   *)
LEMMA TimesAre ==
  ASSUME reads \in Seq(ReadSet), NEW w, NEW r
  PROVE  /\ Never(reads, w, r) => Times(w, r) = 0
         /\ AtMostOnce(reads, w, r) => Times(w, r) <= 1
         /\ Once(reads, w, r) => Times(w, r) = 1
<1> DEFINE I == {i \in DOMAIN reads : reads[i].weight = w /\ r \in reads[i].rows}
<1>1. DOMAIN reads = 1..Len(reads)
  OBVIOUS
<1>2. I = {i \in 1..Len(reads) : Hit(reads[i], w, r)} /\ Times(w, r) = Cardinality(I)
  BY <1>1 DEF Hit, Times
<1> HIDE DEF I
<1>3. Never(reads, w, r) => Times(w, r) = 0
  BY <1>2, FS_EmptySet DEF Never
<1>4. ASSUME Once(reads, w, r) PROVE Times(w, r) = 1
  <2>1. PICK i \in 1..Len(reads) : Hit(reads[i], w, r)
    BY <1>4 DEF Once
  <2>2. I = {i}
    BY <1>2, <1>4, <2>1 DEF Once, AtMostOnce
  <2>3. Cardinality({i}) = 1
    BY FS_Singleton
  <2> QED BY <1>2, <2>2, <2>3
<1>5. ASSUME AtMostOnce(reads, w, r) PROVE Times(w, r) <= 1
  <2>1. CASE Never(reads, w, r)
    BY <1>3, <2>1
  <2>2. CASE ~Never(reads, w, r)
    <3>1. Once(reads, w, r)
      BY <1>5, <2>2 DEF Never, Once
    <3> QED BY <1>4, <3>1
  <2> QED BY <2>1, <2>2
<1> QED BY <1>3, <1>4, <1>5

LEMMA ReadsFollow == DenseInv => ReadsOnce
<1> SUFFICES ASSUME DenseInv PROVE ReadsOnce
  OBVIOUS
<1>1. reads \in Seq(ReadSet) /\ DOMAIN reads = 1..Len(reads)
  BY DEF DenseInv
<1>2. step = "refused" => reads = <<>>
  BY DEF DenseInv
<1>3. ASSUME step = "returned"
      PROVE  /\ \A w \in ResidentWeights, r \in Row :
                  IF w \notin Needed THEN Times(w, r) = 0
                  ELSE IF Searched(w) THEN Times(w, r) <= 1 ELSE Times(w, r) = 1
             /\ call.head => \E r \in Row : Times(Embed, r) = 1
             /\ \A i \in DOMAIN reads : reads[i].vectors = call.width
             /\ \A i, j \in DOMAIN reads : i < j => reads[i].weight[1] <= reads[j].weight[1]
  <2>1. Ordered /\ \A w \in Needed : WasRead(reads, w)
    BY <1>3 DEF DenseInv
  <2>2. ASSUME NEW w \in ResidentWeights, NEW r \in Row
        PROVE  IF w \notin Needed THEN Times(w, r) = 0
               ELSE IF Searched(w) THEN Times(w, r) <= 1 ELSE Times(w, r) = 1
    <3>1. CASE w \notin Needed
      <4>1. Never(reads, w, r)
        BY <2>1, <3>1 DEF Ordered, Never, Hit
      <4> QED BY <1>1, <3>1, <4>1, TimesAre
    <3>2. CASE w \in Needed
      <4>1. WasRead(reads, w)
        BY <2>1, <3>2
      <4>2. CASE Searched(w)
        <5>1. AtMostOnce(reads, w, r)
          BY <4>1, <4>2 DEF WasRead
        <5> QED BY <1>1, <3>2, <4>2, <5>1, TimesAre
      <4>3. CASE ~Searched(w)
        <5>1. Once(reads, w, r)
          BY <4>1, <4>3 DEF WasRead
        <5> QED BY <1>1, <3>2, <4>3, <5>1, TimesAre
      <4> QED BY <4>2, <4>3
    <3> QED BY <3>1, <3>2
  <2>3. ASSUME call.head PROVE \E r \in Row : Times(Embed, r) = 1
    <3>1. WasRead(reads, Embed)
      BY <2>1, <2>3 DEF Needed
    <3>2. 0 \in Row
      BY HeadAssumption DEF Row
    <3>3. PICK r \in Row : Once(reads, Embed, r)
      BY <3>1, <3>2 DEF WasRead
    <3> QED BY <1>1, <3>3, TimesAre
  <2> QED BY <1>1, <2>1, <2>2, <2>3 DEF Ordered
<1> QED BY <1>2, <1>3 DEF ReadsOnce

LEMMA SourcesFollow == DenseInv => SourcesHonoured
<1> SUFFICES ASSUME DenseInv, NEW i \in DOMAIN reads, reads[i].from = "mapped"
             PROVE  LET read == reads[i]
                        single == read.weight[2] \in {"o", "down"} /\ ~model.chain
                                    /\ model.hot = {} IN
                    /\ model.resident = {}
                    /\ read.weight \notin model.hot
                    /\ read.weight \in model.retained => ~Batched(call) /\ ~single
                    /\ model.chunk # 0 =>
                         \/ Cardinality(read.rows) <= model.chunk
                         \/ model.chain /\ read.weight[2] \in {"q", "k", "v", "o"}
                         \/ Searched(read.weight)
  BY DEF SourcesHonoured
<1>1. i \in 1..Len(reads)
  BY DEF DenseInv
<1>2. Honest(reads[i])
  BY <1>1 DEF DenseInv
<1> QED BY <1>2 DEF Honest, Free, Single, Long

(* Under every combination of switches a traversal that returns has read   *)
(* every row of every weight it needs once, layer after layer.             *)
THEOREM DenseReadsOnce == DenseSpec => []ReadsOnce
<1>1. DenseSpec => []DenseInv
  BY DenseInitInv, DenseKeeps, PTL DEF DenseSpec
<1> QED BY <1>1, ReadsFollow, PTL

(* What each switch promises about where weights are read holds beside     *)
(* the others.                                                             *)
THEOREM DenseSources == DenseSpec => []SourcesHonoured
<1>1. DenseSpec => []DenseInv
  BY DenseInitInv, DenseKeeps, PTL DEF DenseSpec
<1> QED BY <1>1, SourcesFollow, PTL

-----------------------------------------------------------------------------
(* The plan of its layers.                                                 *)

-----------------------------------------------------------------------------
(* The sum over a set, whatever the order in which it is taken.            *)
Summing(b, f, S) ==
  f = [s \in SUBSET S |-> IF s = {} THEN 0
                          ELSE b[CHOOSE x \in s : TRUE] + f[s \ {CHOOSE x \in s : TRUE}]]
Sum(b, S) == MapThenSumSet(LAMBDA t : b[t], S)

LEMMA SumIs ==
  ASSUME NEW b, NEW S, \E f : Summing(b, f, S)
  PROVE  \E f : Summing(b, f, S) /\ Sum(b, S) = f[S]
<1> DEFINE f == CHOOSE f : Summing(b, f, S)
<1>1. Summing(b, f, S)
  OBVIOUS
<1>2. Sum(b, S) = f[S]
  BY DEF Sum, MapThenSumSet, MapThenFoldSet, Summing
<1> QED BY <1>1, <1>2

LEMMA SumStep ==
  ASSUME NEW b, NEW f, NEW S, Summing(b, f, S), NEW s \in SUBSET S
  PROVE  /\ s = {} => f[s] = 0
         /\ s # {} => \E x \in s : x = (CHOOSE y \in s : TRUE) /\ f[s] = b[x] + f[s \ {x}]
<1>1. f[s] = IF s = {} THEN 0
             ELSE b[CHOOSE x \in s : TRUE] + f[s \ {CHOOSE x \in s : TRUE}]
  BY Zenon DEF Summing
<1> QED BY <1>1

(* Removing the chosen element of a finite set makes it smaller.           *)
LEMMA OneLess ==
  ASSUME NEW s, IsFiniteSet(s), NEW x \in s
  PROVE  /\ IsFiniteSet(s \ {x}) /\ Cardinality(s) \in Nat
         /\ Cardinality(s \ {x}) \in Nat /\ Cardinality(s \ {x}) < Cardinality(s)
<1>1. IsFiniteSet(s \ {x}) /\ Cardinality(s \ {x}) = Cardinality(s) - 1
  BY FS_RemoveElement
<1>2. Cardinality(s) \in Nat /\ Cardinality(s \ {x}) \in Nat
  BY <1>1, FS_CardinalityType
<1> QED BY <1>1, <1>2

LEMMA SameSum ==
  ASSUME NEW b, NEW f, NEW R, NEW g, NEW S, IsFiniteSet(R),
         Summing(b, f, R), Summing(b, g, S), NEW s \in SUBSET R, s \in SUBSET S
  PROVE  f[s] = g[s]
<1> DEFINE T == {n \in Nat : \E t \in SUBSET R : t \in SUBSET S /\ Cardinality(t) = n /\ f[t] # g[t]}
<1>1. SUFFICES ASSUME T # {} PROVE FALSE
  <2>1. IsFiniteSet(s)
    BY FS_Subset
  <2>2. Cardinality(s) \in Nat
    BY <2>1, FS_CardinalityType
  <2> QED BY <1>1, <2>2
<1>2. PICK n \in T : \A m \in T : n <= m
  <2>1. T \in SUBSET Nat /\ T # {}
    BY <1>1
  <2> HIDE DEF T
  <2> QED BY <2>1, LeastElement
<1>3. PICK t \in SUBSET R : t \in SUBSET S /\ Cardinality(t) = n /\ f[t] # g[t]
  BY <1>2
<1>4. t # {}
  <2>1. {} \in SUBSET R /\ {} \in SUBSET S
    OBVIOUS
  <2>2. f[{}] = 0
    BY <2>1, SumStep
  <2>3. g[{}] = 0
    BY <2>1, SumStep
  <2> QED BY <1>3, <2>2, <2>3
<1>5. PICK x \in t : x = (CHOOSE y \in t : TRUE) /\ f[t] = b[x] + f[t \ {x}]
  BY <1>3, <1>4, SumStep
<1>6. PICK z \in t : z = (CHOOSE y \in t : TRUE) /\ g[t] = b[z] + g[t \ {z}]
  BY <1>3, <1>4, SumStep
<1>7. IsFiniteSet(t)
  BY FS_Subset
<1>8. /\ Cardinality(t \ {x}) \in Nat /\ Cardinality(t \ {x}) < Cardinality(t)
  BY <1>7, OneLess
<1>9. Cardinality(t \ {x}) \notin T
  <2>1. n \in Nat
    BY <1>2
  <2> HIDE DEF T
  <2> QED BY <1>2, <1>3, <1>8, <2>1
<1>10. f[t \ {x}] = g[t \ {x}]
  <2>1. t \ {x} \in SUBSET R /\ t \ {x} \in SUBSET S
    BY <1>3
  <2> QED BY <1>8, <1>9, <2>1
<1> QED BY <1>3, <1>5, <1>6, <1>10

LEMMA SumExists ==
  ASSUME NEW b, NEW U, IsFiniteSet(U)
  PROVE  \E f : Summing(b, f, U)
<1> DEFINE T == {n \in Nat : \E t \in SUBSET U : Cardinality(t) = n /\ ~\E f : Summing(b, f, t)}
<1>1. SUFFICES ASSUME T # {} PROVE FALSE
  <2>1. Cardinality(U) \in Nat
    BY FS_CardinalityType
  <2> QED BY <1>1, <2>1
<1>2. PICK n \in T : \A m \in T : n <= m
  <2>1. T \in SUBSET Nat /\ T # {}
    BY <1>1
  <2> HIDE DEF T
  <2> QED BY <2>1, LeastElement
<1>3. PICK t \in SUBSET U : Cardinality(t) = n /\ ~\E f : Summing(b, f, t)
  BY <1>2
<1> DEFINE of(s) == CHOOSE f : Summing(b, f, s)
           next(s) == s \ {CHOOSE x \in s : TRUE}
           g == [s \in SUBSET t |-> IF s = {} THEN 0
                                    ELSE b[CHOOSE x \in s : TRUE] + of(next(s))[next(s)]]
<1>4. ASSUME NEW s \in SUBSET t, s # {}
      PROVE  /\ next(s) \in SUBSET t /\ IsFiniteSet(next(s))
             /\ Summing(b, of(next(s)), next(s))
  <2>1. PICK x \in s : x = CHOOSE y \in s : TRUE
    BY <1>4
  <2>2. next(s) = s \ {x} /\ s \in SUBSET U
    BY <2>1
  <2>3. IsFiniteSet(s) /\ IsFiniteSet(t)
    BY <2>2, FS_Subset
  <2>4. IsFiniteSet(s \ {x}) /\ Cardinality(s \ {x}) \in Nat
        /\ Cardinality(s \ {x}) < Cardinality(s) /\ Cardinality(s) \in Nat
    BY <2>3, OneLess
  <2>5. Cardinality(s) <= Cardinality(t) /\ Cardinality(t) \in Nat
    BY <2>3, FS_Subset, FS_CardinalityType
  <2>6. Cardinality(s \ {x}) \notin T
    <3>1. n \in Nat
      BY <1>2
    <3> HIDE DEF T
    <3> QED BY <1>2, <1>3, <2>4, <2>5, <3>1
  <2>7. s \ {x} \in SUBSET U
    BY <2>2
  <2>8. \E f : Summing(b, f, s \ {x})
    BY <2>4, <2>6, <2>7
  <2>9. Summing(b, of(s \ {x}), s \ {x})
    <3> DEFINE r == s \ {x}
    <3> HIDE DEF r
    <3>1. \E f : Summing(b, f, r)
      BY <2>8 DEF r
    <3> QED BY <3>1 DEF r
  <2> HIDE DEF of
  <2> QED BY <2>2, <2>4, <2>7, <2>9
<1> HIDE DEF of
<1>5. ASSUME NEW s \in SUBSET t, s # {}
      PROVE  g[next(s)] = of(next(s))[next(s)]
  <2> DEFINE r == next(s)
  <2>1. r \in SUBSET t /\ IsFiniteSet(r) /\ Summing(b, of(r), r)
    BY <1>4, <1>5
  <2>2. g[r] = IF r = {} THEN 0 ELSE b[CHOOSE x \in r : TRUE] + of(next(r))[next(r)]
    <3> HIDE DEF r
    <3> QED BY <2>1
  <2>3. CASE r = {}
    <3>1. of(r)[r] = 0
      <4> HIDE DEF r
      <4>1. r \in SUBSET r
        OBVIOUS
      <4> QED BY <2>1, <2>3, <4>1, SumStep
    <3> QED BY <2>2, <2>3, <3>1
  <2>4. CASE r # {}
    <3> HIDE DEF r, g
    <3>1. r \in SUBSET r
      OBVIOUS
    <3>2. PICK x \in r : x = (CHOOSE y \in r : TRUE) /\ of(r)[r] = b[x] + of(r)[r \ {x}]
      BY <2>1, <2>4, <3>1, SumStep
    <3>3. next(r) = r \ {x}
      BY <3>2
    <3>4. IsFiniteSet(next(r)) /\ Summing(b, of(next(r)), next(r))
      BY <1>4, <2>1, <2>4
    <3> DEFINE q == next(r)
    <3>5. IsFiniteSet(q) /\ Summing(b, of(q), q) /\ q \in SUBSET r /\ q \in SUBSET q
      BY <3>3, <3>4
    <3>6. g[r] = b[x] + of(q)[q] /\ of(r)[r] = b[x] + of(r)[q]
      BY <2>2, <2>4, <3>2, <3>3
    <3> HIDE DEF q
    <3>7. of(q)[q] = of(r)[q]
      BY <2>1, <3>5, SameSum
    <3>8. g[r] = of(r)[r]
      BY <3>6, <3>7
    <3> QED BY <3>8 DEF r
  <2> QED BY <2>3, <2>4
<1>6. g = [s \in SUBSET t |-> IF s = {} THEN 0
                              ELSE b[CHOOSE x \in s : TRUE] + g[s \ {CHOOSE x \in s : TRUE}]]
  <2> DEFINE h == [s \in SUBSET t |-> IF s = {} THEN 0
                              ELSE b[CHOOSE x \in s : TRUE] + g[next(s)]]
  <2>1. ASSUME NEW s \in SUBSET t
        PROVE  (IF s = {} THEN 0 ELSE b[CHOOSE x \in s : TRUE] + of(next(s))[next(s)]) =
               (IF s = {} THEN 0 ELSE b[CHOOSE x \in s : TRUE] + g[next(s)])
    <3> HIDE DEF g, next
    <3> QED BY <1>5
  <2>2. g = h
    BY <2>1, Zenon
  <2> QED BY <2>2
<1>7. Summing(b, g, t)
  BY <1>6, Zenon DEF Summing
<1> QED BY <1>3, <1>7

(* One element more, one element less.                                     *)
LEMMA SumOfNone ==
  ASSUME NEW b PROVE Sum(b, {}) = 0
<1>1. IsFiniteSet({})
  BY FS_EmptySet
<1>2. PICK f : Summing(b, f, {}) /\ Sum(b, {}) = f[{}]
  BY <1>1, SumExists, SumIs
<1>3. {} \in SUBSET {}
  OBVIOUS
<1> QED BY <1>2, <1>3, SumStep

LEMMA SumSome ==
  ASSUME NEW b, NEW s, IsFiniteSet(s), s # {}
  PROVE  \E x \in s : Sum(b, s) = b[x] + Sum(b, s \ {x})
<1>1. PICK f : Summing(b, f, s) /\ Sum(b, s) = f[s]
  BY SumExists, SumIs
<1>2. s \in SUBSET s
  OBVIOUS
<1>3. PICK x \in s : x = (CHOOSE y \in s : TRUE) /\ f[s] = b[x] + f[s \ {x}]
  BY <1>1, <1>2, SumStep
<1> DEFINE r == s \ {x}
<1>4. IsFiniteSet(r)
  BY OneLess
<1> HIDE DEF r
<1>5. PICK g : Summing(b, g, r) /\ Sum(b, r) = g[r]
  BY <1>4, SumExists, SumIs
<1>6. r \in SUBSET s /\ r \in SUBSET r
  BY DEF r
<1>7. f[r] = g[r]
  BY <1>1, <1>5, <1>6, SameSum
<1> QED BY <1>1, <1>3, <1>5, <1>7 DEF r

LEMMA SumWithout ==
  ASSUME NEW U, IsFiniteSet(U), NEW b, \A x \in U : b[x] \in Nat, NEW s \in SUBSET U
  PROVE  /\ Sum(b, s) \in Nat
         /\ \A x \in s : Sum(b, s) = b[x] + Sum(b, s \ {x})
<1> DEFINE Good(t) == /\ Sum(b, t) \in Nat
                      /\ \A x \in t : Sum(b, t) = b[x] + Sum(b, t \ {x})
           T == {n \in Nat : \E t \in SUBSET U : Cardinality(t) = n /\ ~Good(t)}
<1>1. SUFFICES ASSUME T # {} PROVE FALSE
  <2>1. IsFiniteSet(s)
    BY FS_Subset
  <2>2. Cardinality(s) \in Nat
    BY <2>1, FS_CardinalityType
  <2>3. Good(s)
    <3> HIDE DEF Good
    <3> QED BY <1>1, <2>2
  <2> QED BY <2>3
<1>2. PICK n \in T : \A m \in T : n <= m
  <2>1. T \in SUBSET Nat /\ T # {}
    BY <1>1
  <2> HIDE DEF T
  <2> QED BY <2>1, LeastElement
<1>3. PICK t \in SUBSET U : Cardinality(t) = n /\ ~Good(t)
  <2> HIDE DEF Good
  <2> QED BY <1>2
<1>4. IsFiniteSet(t)
  BY FS_Subset
<1>5. ASSUME NEW x \in t
      PROVE  Good(t \ {x})
  <2>1. /\ Cardinality(t \ {x}) \in Nat /\ Cardinality(t \ {x}) < Cardinality(t)
    BY <1>4, OneLess
  <2>2. Cardinality(t \ {x}) \notin T
    <3>1. n \in Nat
      BY <1>2
    <3> HIDE DEF T
    <3> QED BY <1>2, <1>3, <2>1, <3>1
  <2>3. t \ {x} \in SUBSET U
    OBVIOUS
  <2> HIDE DEF Good
  <2> QED BY <2>1, <2>2, <2>3
<1>6. CASE t = {}
  <2>1. Sum(b, t) = 0
    BY <1>6, SumOfNone
  <2> QED BY <1>3, <1>6, <2>1
<1>7. CASE t # {}
  <2>1. PICK y \in t : Sum(b, t) = b[y] + Sum(b, t \ {y})
    BY <1>4, <1>7, SumSome
  <2>2. b[y] \in Nat /\ Sum(b, t \ {y}) \in Nat
    BY <1>5
  <2>3. ASSUME NEW x \in t, x # y PROVE Sum(b, t) = b[x] + Sum(b, t \ {x})
    <3> DEFINE r == (t \ {y}) \ {x}
    <3>1. r = (t \ {x}) \ {y} /\ x \in t \ {y} /\ y \in t \ {x}
      BY <2>3
    <3>2. Sum(b, t \ {y}) = b[x] + Sum(b, r)
      BY <1>5, <3>1
    <3>3. Sum(b, t \ {x}) = b[y] + Sum(b, (t \ {x}) \ {y})
      BY <1>5, <3>1
    <3>4. b[x] \in Nat /\ b[y] \in Nat /\ Sum(b, r) \in Nat
      <4>1. r \in SUBSET U
        OBVIOUS
      <4>2. Good(t \ {x}) /\ y \in t \ {x}
        BY <1>5, <3>1
      <4>3. Good(t \ {y})
        BY <1>5
      <4>4. IsFiniteSet(t \ {y})
        BY <1>4, OneLess
      <4>5. Sum(b, r) \in Nat
        <5>1. /\ IsFiniteSet(r) /\ Cardinality(r) \in Nat
              /\ Cardinality(r) < Cardinality(t \ {y})
          BY <4>4, <3>1, OneLess
        <5>2. Cardinality(t \ {y}) < Cardinality(t) /\ Cardinality(t) \in Nat
              /\ Cardinality(t \ {y}) \in Nat
          BY <1>4, OneLess
        <5>3. Cardinality(r) \notin T
          <6>1. n \in Nat
            BY <1>2
          <6> HIDE DEF T, r
          <6> QED BY <1>2, <1>3, <5>1, <5>2, <6>1
        <5>4. Good(r)
          <6> HIDE DEF Good, r
          <6> QED BY <4>1, <5>1, <5>3 DEF r
        <5> QED BY <5>4
      <4> QED BY <4>5
    <3> DEFINE p == Sum(b, t \ {y})
               q == Sum(b, t \ {x})
               z == Sum(b, r)
    <3>5. p = b[x] + z /\ q = b[y] + z /\ z \in Nat /\ Sum(b, t) = b[y] + p
      BY <2>1, <3>1, <3>2, <3>3, <3>4
    <3> HIDE DEF p, q, z
    <3>6. Sum(b, t) = b[x] + q
      BY <3>4, <3>5
    <3> QED BY <3>6 DEF q
  <2>4. Sum(b, t) \in Nat
    BY <2>1, <2>2
  <2>5. ASSUME NEW x \in t PROVE Sum(b, t) = b[x] + Sum(b, t \ {x})
    <3>1. CASE x = y
      BY <2>1, <3>1
    <3>2. CASE x # y
      BY <2>3, <3>2
    <3> QED BY <3>1, <3>2
  <2>6. Good(t)
    BY <2>4, <2>5, Zenon
  <2> QED BY <1>3, <2>6
<1> QED BY <1>6, <1>7

(* A part is no larger than the whole.                                     *)
LEMMA SumOfPart ==
  ASSUME NEW U, IsFiniteSet(U), NEW b, \A x \in U : b[x] \in Nat,
         NEW s \in SUBSET U, NEW t \in SUBSET U, t \subseteq s
  PROVE  Sum(b, t) <= Sum(b, s)
<1> DEFINE T == {n \in Nat : \E r \in SUBSET U : t \subseteq r /\ Cardinality(r) = n
                                                 /\ ~(Sum(b, t) <= Sum(b, r))}
<1>1. SUFFICES ASSUME T # {} PROVE FALSE
  <2>1. IsFiniteSet(s)
    BY FS_Subset
  <2>2. Cardinality(s) \in Nat
    BY <2>1, FS_CardinalityType
  <2> QED BY <1>1, <2>2
<1>2. PICK n \in T : \A m \in T : n <= m
  <2>1. T \in SUBSET Nat /\ T # {}
    BY <1>1
  <2> HIDE DEF T
  <2> QED BY <2>1, LeastElement
<1>3. PICK r \in SUBSET U : t \subseteq r /\ Cardinality(r) = n /\ ~(Sum(b, t) <= Sum(b, r))
  BY <1>2
<1>4. IsFiniteSet(r)
  BY FS_Subset
<1>5. Sum(b, t) \in Nat /\ Sum(b, r) \in Nat
  BY SumWithout
<1>6. PICK x \in r : x \notin t
  <2>1. r # t
    BY <1>3, <1>5
  <2> QED BY <1>3, <2>1
<1>7. Sum(b, r) = b[x] + Sum(b, r \ {x})
  BY SumWithout
<1>8. /\ Cardinality(r \ {x}) \in Nat /\ Cardinality(r \ {x}) < Cardinality(r)
  BY <1>4, OneLess
<1>9. Cardinality(r \ {x}) \notin T
  <2>1. n \in Nat
    BY <1>2
  <2> HIDE DEF T
  <2> QED BY <1>2, <1>3, <1>8, <2>1
<1>10. r \ {x} \in SUBSET U /\ t \subseteq r \ {x}
  BY <1>3, <1>6
<1>11. Sum(b, t) <= Sum(b, r \ {x})
  BY <1>8, <1>9, <1>10
<1>12. Sum(b, r \ {x}) \in Nat
  BY <1>10, SumWithout
<1>13. b[x] \in Nat
  OBVIOUS
<1> QED BY <1>3, <1>5, <1>7, <1>11, <1>12, <1>13

-----------------------------------------------------------------------------
(* What is recorded for a layer, one action after the other.               *)
Stage(l, k) ==
  IF k <= 11 THEN Action("prefetch", <<Tensors(l)[k]>>)
  ELSE IF k = 12 THEN Action("execute", Tensors(l))
  ELSE Action("evict", <<Tensors(l)[k - 12]>>)
StageSet == {Stage(l, k) : l \in 0..(Depth - 1), k \in 1..23}

LEMMA TensorsAre ==
  ASSUME NEW l
  PROVE  /\ DOMAIN TensorSuffixes = 1..11 /\ DOMAIN Tensors(l) = 1..11
         /\ ToSet(Tensors(l)) = {Tensors(l)[i] : i \in 1..11}
         /\ \A i \in 1..11 : Tensors(l)[i][1] = l
         /\ \A i, j \in 1..11 : Tensors(l)[i] = Tensors(l)[j] => i = j
<1>1. DOMAIN TensorSuffixes = 1..11
  BY DEF TensorSuffixes
<1>2. \A i, j \in 1..11 : TensorSuffixes[i] = TensorSuffixes[j] => i = j
  <2>1. 1..11 = {1, 2, 3, 4, 5, 6, 7, 8, 9, 10, 11}
    OBVIOUS
  <2> QED BY <2>1 DEF TensorSuffixes
<1>3. Tensors(l) = [i \in 1..11 |-> <<l, TensorSuffixes[i]>>]
  BY <1>1 DEF Tensors
<1> QED BY <1>1, <1>2, <1>3 DEF ToSet

LEMMA FiniteLayer == ASSUME NEW l PROVE IsFiniteSet(ToSet(Tensors(l)))
<1> DEFINE T == ToSet(Tensors(l))
           f == [i \in 1..11 |-> Tensors(l)[i]]
<1>1. f \in Surjection(1..11, T)
  BY TensorsAre DEF Surjection
<1>2. IsFiniteSet(1..11)
  <2>1. 1 \in Int /\ 11 \in Int
    OBVIOUS
  <2> QED BY <2>1, FS_Interval
<1> HIDE DEF f, T
<1>3. IsFiniteSet(T)
  BY <1>1, <1>2, FS_Surjection
<1> QED BY <1>3 DEF T

LEMMA StagesAre ==
  ASSUME NEW l \in 0..(Depth - 1)
  PROVE  /\ LayerSteps(l) \in Seq(StageSet) /\ Len(LayerSteps(l)) = 23
         /\ \A k \in 1..23 : LayerSteps(l)[k] = Stage(l, k)
<1> DEFINE a == [i \in DOMAIN TensorSuffixes |-> Action("prefetch", <<Tensors(l)[i]>>)]
           b == <<Action("execute", Tensors(l))>>
           c == [i \in DOMAIN TensorSuffixes |-> Action("evict", <<Tensors(l)[i]>>)]
<1>1. \A k \in 1..23 : Stage(l, k) \in StageSet
  BY DEF StageSet
<1>2. a = [i \in 1..11 |-> Stage(l, i)]
  BY TensorsAre DEF Stage
<1>3. c = [i \in 1..11 |-> Stage(l, 12 + i)]
  BY TensorsAre DEF Stage
<1>4. b = <<Stage(l, 12)>>
  BY DEF Stage
<1>5. LayerSteps(l) = (a \o b) \o c
  BY DEF LayerSteps
<1> HIDE DEF a, b, c
<1>6. a \in Seq(StageSet) /\ Len(a) = 11 /\ \A i \in 1..11 : a[i] = Stage(l, i)
  BY <1>1, <1>2
<1>7. c \in Seq(StageSet) /\ Len(c) = 11 /\ \A i \in 1..11 : c[i] = Stage(l, 12 + i)
  BY <1>1, <1>3
<1>8. b \in Seq(StageSet) /\ Len(b) = 1 /\ b[1] = Stage(l, 12)
  BY <1>1, <1>4
<1> DEFINE d == a \o b
<1>9. d \in Seq(StageSet) /\ Len(d) = 12 /\ \A i \in 1..12 : d[i] = Stage(l, i)
  <2>1. /\ d \in Seq(StageSet) /\ Len(d) = Len(a) + Len(b)
        /\ \A i \in 1..Len(a) : d[i] = a[i]
        /\ \A i \in 1..Len(b) : d[Len(a) + i] = b[i]
    <3>1. a \in Seq(StageSet) /\ b \in Seq(StageSet)
      BY <1>6, <1>8
    <3> QED BY <3>1, ConcatIs
  <2> HIDE DEF d
  <2>2. d[12] = Stage(l, 12)
    BY <1>6, <1>8, <2>1
  <2>3. \A i \in 1..11 : d[i] = Stage(l, i)
    BY <1>6, <2>1
  <2>4. \A i \in 1..12 : i \in 1..11 \/ i = 12
    OBVIOUS
  <2> QED BY <1>6, <1>8, <2>1, <2>2, <2>3, <2>4
<1> HIDE DEF d
<1> DEFINE e == d \o c
<1>10. e \in Seq(StageSet) /\ Len(e) = 23 /\ \A i \in 1..23 : e[i] = Stage(l, i)
  <2>1. /\ e \in Seq(StageSet) /\ Len(e) = Len(d) + Len(c)
        /\ \A i \in 1..Len(d) : e[i] = d[i]
        /\ \A i \in 1..Len(c) : e[Len(d) + i] = c[i]
    <3>1. d \in Seq(StageSet) /\ c \in Seq(StageSet)
      BY <1>7, <1>9
    <3> QED BY <3>1, ConcatIs
  <2> HIDE DEF e
  <2>2. \A i \in 1..12 : e[i] = Stage(l, i)
    BY <1>9, <2>1
  <2>3. \A i \in 1..11 : e[12 + i] = Stage(l, 12 + i)
    BY <1>7, <1>9, <2>1
  <2>4. \A i \in 1..23 : i \in 1..12 \/ (i - 12 \in 1..11 /\ 12 + (i - 12) = i)
    OBVIOUS
  <2> QED BY <1>7, <1>9, <2>1, <2>2, <2>3, <2>4
<1> QED BY <1>5, <1>10 DEF d, e

-----------------------------------------------------------------------------
(* A plan under way: p actions of the layer have been recorded.            *)
Total(l) == SizeOf(ToSet(Tensors(l)))
Held(l, p) ==
  IF p <= 11 THEN {Tensors(l)[i] : i \in 1..p} ELSE {Tensors(l)[i] : i \in (p - 11)..11}

Following(p) ==
  /\ steps \in Seq(StageSet) /\ Len(steps) = 23 - p
  /\ \A j \in 1..Len(steps) : steps[j] = Stage(layer - 1, p + j)
  /\ layer = 0 => p = 23
  /\ resident = Held(layer - 1, p)
  /\ Cardinality(Executions) = IF p >= 12 THEN layer ELSE layer - 1
  /\ \A l \in 0..(layer - 1) : l < layer - 1 \/ p >= 11 => Total(l) <= peak

PlanInv ==
  /\ \A l \in 0..(Depth - 1) : \A t \in ToSet(Tensors(l)) : bytes[t] \in Nat
  /\ budget \in 0..Largest /\ layer \in 0..Depth /\ peak \in 0..budget
  /\ actions \in Seq(StageSet)
  /\ \A i \in Executions : actions[i].tensors = Tensors(Before(i))
  /\ \E p \in 0..23 : Following(p)
  /\ SizeOf(resident) <= peak
  /\ peak = 0 \/ \E l \in 0..(layer - 1) : peak <= Total(l)
  /\ layer > 0 => Total(layer - 1) <= budget
  /\ plan = "planned" => layer = Depth /\ steps = <<>>
  /\ plan = "refused" => budget = 0 \/ \E l \in 0..(Depth - 1) : ~LayerFits(l)

LEMMA SizesAre ==
  ASSUME PlanInv, NEW l \in 0..(Depth - 1), NEW s \in SUBSET ToSet(Tensors(l))
  PROVE  /\ SizeOf(s) \in Nat /\ SizeOf(s) <= Total(l) /\ Total(l) \in Nat
         /\ \A t \in SUBSET s : SizeOf(t) <= SizeOf(s)
<1> DEFINE U == ToSet(Tensors(l))
<1>1. IsFiniteSet(U) /\ \A x \in U : bytes[x] \in Nat
  BY FiniteLayer DEF PlanInv
<1>2. \A t : SizeOf(t) = Sum(bytes, t)
  BY DEF SizeOf, Sum
<1> HIDE DEF U
<1>3. s \in SUBSET U /\ U \in SUBSET U
  BY DEF U
<1>4. Sum(bytes, s) \in Nat /\ Sum(bytes, U) \in Nat
  BY <1>1, <1>3, SumWithout
<1>5. Sum(bytes, s) <= Sum(bytes, U)
  BY <1>1, <1>3, SumOfPart
<1>6. ASSUME NEW t \in SUBSET s PROVE Sum(bytes, t) <= Sum(bytes, s)
  <2>1. t \in SUBSET U
    BY <1>3
  <2> QED BY <1>1, <1>3, <2>1, SumOfPart
<1> QED BY <1>2, <1>4, <1>5, <1>6 DEF Total, U

LEMMA HeldAre ==
  ASSUME NEW l, NEW p \in 0..23
  PROVE  /\ Held(l, p) \in SUBSET ToSet(Tensors(l))
         /\ Held(l, 0) = {} /\ Held(l, 23) = {} /\ Held(l, 11) = ToSet(Tensors(l))
         /\ p < 11 => Held(l, p + 1) = Held(l, p) \cup {Tensors(l)[p + 1]}
         /\ p = 11 => Held(l, p + 1) = Held(l, p)
         /\ p \in 12..22 => /\ Tensors(l)[p - 11] \in Held(l, p)
                            /\ Held(l, p + 1) = Held(l, p) \ {Tensors(l)[p - 11]}
<1> DEFINE T == Tensors(l)
<1>1. ToSet(T) = {T[i] : i \in 1..11} /\ \A i, j \in 1..11 : T[i] = T[j] => i = j
  BY TensorsAre
<1> HIDE DEF T
<1>2. Held(l, p) \in SUBSET ToSet(T)
  <2>1. CASE p <= 11
    <3>1. \A i \in 1..p : i \in 1..11
      BY <2>1
    <3> QED BY <1>1, <2>1, <3>1 DEF Held, T
  <2>2. CASE p > 11
    <3>1. \A i \in (p - 11)..11 : i \in 1..11
      BY <2>2
    <3> QED BY <1>1, <2>2, <3>1 DEF Held, T
  <2> QED BY <2>1, <2>2
<1>3. Held(l, 0) = {} /\ Held(l, 23) = {} /\ Held(l, 11) = ToSet(T)
  <2>1. 1..0 = {} /\ (23 - 11)..11 = {} /\ 0 <= 11 /\ ~(23 <= 11) /\ 11 <= 11
    OBVIOUS
  <2> QED BY <1>1, <2>1 DEF Held, T
<1>4. ASSUME p < 11 PROVE Held(l, p + 1) = Held(l, p) \cup {T[p + 1]}
  <2>1. 1..(p + 1) = (1..p) \cup {p + 1} /\ p <= 11 /\ p + 1 <= 11
    BY <1>4
  <2>2. Held(l, p + 1) = {T[i] : i \in 1..(p + 1)} /\ Held(l, p) = {T[i] : i \in 1..p}
    BY <2>1 DEF Held, T
  <2> QED BY <2>1, <2>2
<1>5. ASSUME p = 11 PROVE Held(l, p + 1) = Held(l, p)
  <2>1. (11 + 1) - 11 = 1 /\ ~(11 + 1 <= 11) /\ 11 <= 11
    OBVIOUS
  <2> QED BY <1>5, <2>1 DEF Held
<1>6. ASSUME p \in 12..22
      PROVE  T[p - 11] \in Held(l, p) /\ Held(l, p + 1) = Held(l, p) \ {T[p - 11]}
  <2> DEFINE k == p - 11
  <2>1. /\ k \in 1..11 /\ k..11 = {k} \cup ((k + 1)..11) /\ (p + 1) - 11 = k + 1
        /\ ~(p <= 11) /\ ~(p + 1 <= 11) /\ k \notin (k + 1)..11
        /\ \A i \in (k + 1)..11 : i \in 1..11
    BY <1>6
  <2>2. Held(l, p) = {T[i] : i \in k..11} /\ Held(l, p + 1) = {T[i] : i \in (k + 1)..11}
    BY <2>1 DEF Held, T
  <2> HIDE DEF k
  <2>3. T[k] \in Held(l, p)
    BY <2>1, <2>2
  <2>4. T[k] \notin Held(l, p + 1)
    BY <1>1, <2>1, <2>2
  <2>5. Held(l, p) = Held(l, p + 1) \cup {T[k]}
    BY <2>1, <2>2
  <2> QED BY <2>3, <2>4, <2>5 DEF k
<1> QED BY <1>2, <1>3, <1>4, <1>5, <1>6 DEF T

-----------------------------------------------------------------------------
LEMMA ExecutionsAre ==
  ASSUME actions \in Seq(StageSet)
  PROVE  /\ Executions = {i \in 1..Len(actions) : actions[i].kind = "execute"}
         /\ IsFiniteSet(Executions) /\ Len(actions) \in Nat
<1>1. DOMAIN actions = 1..Len(actions) /\ Len(actions) \in Nat
  OBVIOUS
<1>2. Executions = {i \in 1..Len(actions) : actions[i].kind = "execute"}
  BY <1>1 DEF Executions
<1>3. IsFiniteSet(1..Len(actions))
  <2>1. 1 \in Int /\ Len(actions) \in Int
    BY <1>1
  <2> QED BY <2>1, FS_Interval
<1>4. Executions \in SUBSET (1..Len(actions))
  BY <1>2
<1> QED BY <1>1, <1>2, <1>3, <1>4, FS_Subset

LEMMA OneMore ==
  ASSUME actions \in Seq(StageSet), NEW a \in StageSet, actions' = Append(actions, a)
  PROVE  /\ actions' \in Seq(StageSet)
         /\ Executions' = Executions \cup
              (IF a.kind = "execute" THEN {Len(actions) + 1} ELSE {})
         /\ \A i \in Executions : /\ i \in 1..Len(actions)
                                  /\ actions'[i] = actions[i] /\ Before(i)' = Before(i)
         /\ actions'[Len(actions) + 1] = a
         /\ {j \in Executions' : j < Len(actions) + 1} = Executions
<1> DEFINE n == Len(actions)
<1>1. /\ actions' \in Seq(StageSet) /\ Len(actions') = n + 1 /\ actions'[n + 1] = a
      /\ \A i \in 1..n : actions'[i] = actions[i]
  <2>1. /\ Append(actions, a) \in Seq(StageSet) /\ Len(Append(actions, a)) = Len(actions) + 1
        /\ Append(actions, a)[Len(actions) + 1] = a
        /\ \A i \in 1..Len(actions) : Append(actions, a)[i] = actions[i]
    BY AppendProperties
  <2> QED BY <2>1
<1>2. /\ n \in Nat
      /\ Executions = {i \in 1..n : actions[i].kind = "execute"}
  BY ExecutionsAre
<1>3. DOMAIN actions' = 1..(n + 1)
  BY <1>1
<1>4. Executions' = {i \in 1..(n + 1) : actions'[i].kind = "execute"}
  BY <1>3 DEF Executions
<1> HIDE DEF n
<1>5. Executions' = Executions \cup (IF a.kind = "execute" THEN {n + 1} ELSE {})
  <2>1. 1..(n + 1) = (1..n) \cup {n + 1}
    BY <1>2
  <2> QED BY <1>1, <1>2, <1>4, <2>1
<1>6. ASSUME NEW i \in Executions
      PROVE  i \in 1..n /\ actions'[i] = actions[i] /\ Before(i)' = Before(i)
  <2>1. i \in 1..n
    BY <1>2
  <2>2. {j \in Executions' : j < i} = {j \in Executions : j < i}
    BY <1>2, <1>5, <2>1
  <2> QED BY <1>1, <2>1, <2>2 DEF Before
<1>7. {j \in Executions' : j < n + 1} = Executions
  BY <1>2, <1>5
<1> QED BY <1>1, <1>5, <1>6, <1>7 DEF n

(* Sizes depend on nothing but the tensors' own.                           *)
LEMMA KeptSizes ==
  ASSUME bytes' = bytes
  PROVE  /\ \A s : SizeOf(s)' = SizeOf(s)
         /\ \A l : Total(l)' = Total(l)
         /\ budget' = budget => \A l : LayerFits(l)' = LayerFits(l)
<1>1. \A s : SizeOf(s) = Sum(bytes, s)
  BY DEF SizeOf, Sum
<1>2. \A s : SizeOf(s)' = Sum(bytes', s)
  BY Zenon DEF SizeOf, Sum, MapThenSumSet, MapThenFoldSet
<1>3. \A s : SizeOf(s)' = SizeOf(s)
  BY <1>1, <1>2
<1>4. \A l : Total(l)' = Total(l)
  BY <1>3, Zenon DEF Total
<1>5. ASSUME budget' = budget PROVE \A l : LayerFits(l)' = LayerFits(l)
  BY <1>3, <1>5, Zenon DEF LayerFits
<1> QED BY <1>3, <1>4, <1>5

(* Nor does what has been executed depend on anything but the trace.       *)
LEMMA KeptExecutions ==
  ASSUME actions' = actions
  PROVE  Executions' = Executions /\ \A i : Before(i)' = Before(i)
<1>1. Executions' = Executions
  BY DEF Executions
<1>2. \A i : Before(i)' = Before(i)
  BY <1>1 DEF Before
<1> QED BY <1>1, <1>2

-----------------------------------------------------------------------------
LEMMA PlanInitInv == PlanInit => PlanInv
<1> SUFFICES ASSUME PlanInit PROVE PlanInv
  OBVIOUS
<1>1. /\ budget \in Budgets /\ layer = 0 /\ steps = <<>> /\ actions = <<>>
      /\ resident = {} /\ peak = 0 /\ plan = "begun"
  BY DEF PlanInit
<1>2. \A l \in 0..(Depth - 1) : \A t \in ToSet(Tensors(l)) : bytes[t] \in Nat
  <2>1. PICK matrix \in [0..(Depth - 1) -> Sizes], norm \in [0..(Depth - 1) -> Sizes] :
          bytes = [t \in UNION {ToSet(Tensors(l)) : l \in 0..(Depth - 1)} |->
                     IF t[2] \in Norms THEN norm[t[1]] ELSE matrix[t[1]]]
    BY DEF PlanInit
  <2> SUFFICES ASSUME NEW l \in 0..(Depth - 1), NEW t \in ToSet(Tensors(l))
               PROVE  bytes[t] \in Nat
    OBVIOUS
  <2>2. t[1] = l
    BY TensorsAre
  <2>3. t \in UNION {ToSet(Tensors(k)) : k \in 0..(Depth - 1)}
    OBVIOUS
  <2>4. bytes[t] = IF t[2] \in Norms THEN norm[l] ELSE matrix[l]
    BY <2>1, <2>2, <2>3
  <2>5. norm[l] \in Sizes /\ matrix[l] \in Sizes
    OBVIOUS
  <2> QED BY <2>4, <2>5, PlannerAssumption
<1>3. budget \in 0..Largest /\ 0 \in 0..Depth /\ 0 \in 0..budget
  BY <1>1, PlannerAssumption, DenseAssumption
<1>4. <<>> \in Seq(StageSet) /\ Len(<<>>) = 0 /\ DOMAIN <<>> = {}
  OBVIOUS
<1>5. Executions = {}
  BY <1>1, <1>4 DEF Executions
<1>6. SizeOf({}) = 0
  <2>1. SizeOf({}) = Sum(bytes, {})
    BY DEF SizeOf, Sum
  <2> QED BY <2>1, SumOfNone
<1>7. Following(23)
  <2>1. /\ 23 - 23 = 0 /\ 1..0 = {} /\ 23 >= 12 /\ 0..(0 - 1) = {}
    OBVIOUS
  <2>2. 23 \in 0..23
    OBVIOUS
  <2>3. resident = Held(layer - 1, 23)
    BY <1>1, <2>2, HeldAre
  <2>4. Cardinality(Executions) = 0
    BY <1>5, FS_EmptySet
  <2> QED BY <1>1, <1>4, <2>1, <2>3, <2>4 DEF Following
<1>8. \E p \in 0..23 : Following(p)
  <2>1. 23 \in 0..23
    OBVIOUS
  <2> QED BY <1>7, <2>1
<1>9. /\ budget \in 0..Largest /\ layer \in 0..Depth /\ peak \in 0..budget /\ peak = 0
      /\ actions \in Seq(StageSet)
  BY <1>1, <1>3, <1>4
<1>10. \A i \in Executions : actions[i].tensors = Tensors(Before(i))
  BY <1>5
<1>11. SizeOf(resident) <= peak
  <2>1. 0 <= 0
    OBVIOUS
  <2> QED BY <1>1, <1>6, <2>1, Zenon
<1>12. ~(layer > 0)
  <2>1. ~(0 > 0)
    OBVIOUS
  <2> QED BY <1>1, <2>1, Zenon
<1>13. plan # "planned" /\ plan # "refused"
  BY <1>1
<1> QED BY <1>2, <1>8, <1>9, <1>10, <1>11, <1>12, <1>13, Zenon DEF PlanInv

(* A layer that fits is begun when everything before it has been released. *)
LEMMA PlanLayerKeeps == ASSUME PlanInv, PlanLayer PROVE PlanInv'
<1>1. /\ plan = "begun" /\ steps = <<>> /\ layer < Depth
      /\ bytes' = bytes /\ budget' = budget /\ actions' = actions
      /\ resident' = resident /\ peak' = peak
  BY DEF PlanLayer
<1>2. PICK p \in 0..23 : Following(p)
  BY DEF PlanInv
<1>3. p = 23
  BY <1>1, <1>2 DEF Following
<1>4. /\ layer \in Nat /\ Depth \in Nat /\ layer \in 0..(Depth - 1) /\ budget \in 0..Largest
      /\ Largest \in Nat
  BY <1>1, DenseAssumption, PlannerAssumption DEF PlanInv
<1>5. /\ Executions' = Executions
      /\ \A i : Before(i)' = Before(i)
      /\ \A s : SizeOf(s)' = SizeOf(s)
      /\ \A l : Total(l)' = Total(l)
  BY <1>1, KeptSizes, KeptExecutions
<1>6. SizeOf(resident') = SizeOf(resident)
  BY <1>1
<1>7. CASE budget = 0 \/ TooLarge(layer)
  <2>1. plan' = "refused" /\ layer' = layer /\ steps' = steps
    BY <1>7 DEF PlanLayer
  <2>2. TooLarge(layer) => ~LayerFits(layer)
    <3>1. Total(layer) \in Nat
      <4>1. {} \in SUBSET ToSet(Tensors(layer))
        OBVIOUS
      <4> QED BY <1>4, <4>1, SizesAre
    <3>2. Min({budget, Largest}) <= budget /\ Min({budget, Largest}) <= Largest
          /\ Min({budget, Largest}) \in {budget, Largest}
      <4>1. budget \in Int /\ Largest \in Int
        BY <1>4
      <4> QED BY <4>1, SmallerOf
    <3> QED BY <1>4, <3>1, <3>2 DEF TooLarge, LayerFits, Total
  <2>3. (\E l \in 0..(Depth - 1) : ~LayerFits(l)) \/ budget = 0
    BY <1>4, <1>7, <2>2
  <2>4. \A l : LayerFits(l)' = LayerFits(l)
    BY <1>1, KeptSizes
  <2>5. Following(p)'
    BY <1>1, <1>2, <1>5, <2>1 DEF Following
  <2>6. (SizeOf(resident) <= peak)'
    BY <1>1, <1>5, <1>6 DEF PlanInv
  <2> QED BY <1>1, <1>2, <1>5, <2>1, <2>3, <2>4, <2>5, <2>6 DEF PlanInv
<1>8. CASE ~(budget = 0 \/ TooLarge(layer))
  <2>1. plan' = plan /\ layer' = layer + 1 /\ steps' = LayerSteps(layer)
    BY <1>8 DEF PlanLayer
  <2>2. Total(layer) <= budget
    <3>1. Total(layer) \in Nat
      <4>1. {} \in SUBSET ToSet(Tensors(layer))
        OBVIOUS
      <4> QED BY <1>4, <4>1, SizesAre
    <3> QED BY <1>4, <1>8, <3>1 DEF TooLarge, Total
  <2>3. layer' - 1 = layer /\ layer' \in 1..Depth
    BY <1>4, <2>1
  <2>4. /\ LayerSteps(layer) \in Seq(StageSet) /\ Len(LayerSteps(layer)) = 23
        /\ \A k \in 1..23 : LayerSteps(layer)[k] = Stage(layer, k)
    BY <1>4, StagesAre
  <2>5. Following(0)'
    <3>1. resident' = Held(layer' - 1, 0)
      <4>1. resident = {}
        BY <1>2, <1>3, HeldAre DEF Following
      <4>2. 0 \in 0..23
        OBVIOUS
      <4> QED BY <1>1, <4>1, <4>2, HeldAre
    <3>2. Cardinality(Executions') = layer' - 1
      BY <1>2, <1>3, <1>5, <2>3 DEF Following
    <3>3. \A l \in 0..(layer' - 1) : l < layer' - 1 => Total(l)' <= peak'
      <4>1. \A l \in 0..(layer - 1) : Total(l) <= peak
        BY <1>2, <1>3 DEF Following
      <4> SUFFICES ASSUME NEW l \in 0..(layer' - 1), l < layer' - 1
                   PROVE  Total(l)' <= peak'
        OBVIOUS
      <4>2. l \in 0..(layer - 1)
        BY <1>4, <2>1
      <4> QED BY <1>1, <1>5, <4>1, <4>2
    <3>4. \A j \in 1..Len(steps') : steps'[j] = Stage(layer' - 1, 0 + j)
      <4> SUFFICES ASSUME NEW j \in 1..23 PROVE steps'[j] = Stage(layer' - 1, 0 + j)
        BY <2>1, <2>4
      <4>1. 0 + j = j /\ layer' - 1 = layer
        BY <2>3
      <4>2. steps'[j] = Stage(layer, j)
        BY <2>1, <2>4
      <4> QED BY <4>1, <4>2
    <3>5. steps' \in Seq(StageSet) /\ Len(steps') = 23 - 0
      BY <2>1, <2>4
    <3>6. ~(layer' = 0) /\ ~(0 >= 12) /\ ~(0 >= 11)
      BY <1>4, <2>1
    <3> QED BY <3>1, <3>2, <3>3, <3>4, <3>5, <3>6, Zenon DEF Following
  <2>6. \E q \in 0..23 : Following(q)'
    <3>1. 0 \in 0..23
      OBVIOUS
    <3> QED BY <2>5, <3>1
  <2>7. (SizeOf(resident) <= peak)'
    BY <1>1, <1>5, <1>6 DEF PlanInv
  <2>8. peak' = 0 \/ \E l \in 0..(layer' - 1) : peak' <= Total(l)'
    <3>1. \A l \in 0..(layer - 1) : l \in 0..(layer' - 1)
      BY <1>4, <2>1
    <3>2. peak = 0 \/ \E l \in 0..(layer - 1) : peak <= Total(l)
      BY DEF PlanInv
    <3> QED BY <1>1, <1>5, <3>1, <3>2
  <2>9. (Total(layer - 1) <= budget)'
    <3>1. PICK k : k = layer
      OBVIOUS
    <3>2. Total(k)' <= budget'
      BY <1>1, <1>5, <2>2, <3>1
    <3>3. (layer - 1)' = k
      BY <2>3, <3>1
    <3> QED BY <3>2, <3>3
  <2>10. layer' \in 0..Depth
    BY <1>4, <2>3
  <2> QED BY <1>1, <1>5, <2>1, <2>6, <2>7, <2>8, <2>9, <2>10 DEF PlanInv
<1> QED BY <1>7, <1>8

LEMMA PlanEndsKeeps == ASSUME PlanInv, PlanEnds PROVE PlanInv'
<1>1. /\ steps = <<>> /\ layer = Depth /\ plan' = "planned" /\ bytes' = bytes
      /\ budget' = budget /\ layer' = layer /\ steps' = steps /\ actions' = actions
      /\ resident' = resident /\ peak' = peak
  BY DEF PlanEnds
<1>2. /\ Executions' = Executions
      /\ \A i : Before(i)' = Before(i)
      /\ \A s : SizeOf(s)' = SizeOf(s)
      /\ \A l : Total(l)' = Total(l)
  BY <1>1, KeptSizes, KeptExecutions
<1>3. \A p : Following(p) => Following(p)'
  BY <1>1, <1>2 DEF Following
<1>4. (SizeOf(resident) <= peak)'
  BY <1>1, <1>2 DEF PlanInv
<1> QED BY <1>1, <1>2, <1>3, <1>4 DEF PlanInv

LEMMA PlanStutters == ASSUME PlanInv, UNCHANGED plan_vars PROVE PlanInv'
<1>1. /\ plan' = plan /\ bytes' = bytes
      /\ budget' = budget /\ layer' = layer /\ steps' = steps /\ actions' = actions
      /\ resident' = resident /\ peak' = peak
  BY DEF plan_vars
<1>2. /\ Executions' = Executions
      /\ \A i : Before(i)' = Before(i)
      /\ \A s : SizeOf(s)' = SizeOf(s)
      /\ \A l : Total(l)' = Total(l)
      /\ \A l : LayerFits(l)' = LayerFits(l)
  BY <1>1, KeptSizes, KeptExecutions
<1>3. \A p : Following(p) => Following(p)'
  BY <1>1, <1>2 DEF Following
<1>4. (SizeOf(resident) <= peak)'
  BY <1>1, <1>2 DEF PlanInv
<1> QED BY <1>1, <1>2, <1>3, <1>4 DEF PlanInv

-----------------------------------------------------------------------------
LEMMA LargerOf ==
  ASSUME NEW a \in Int, NEW b \in Int
  PROVE  Max({a, b}) \in {a, b} /\ a <= Max({a, b}) /\ b <= Max({a, b})
<1>1. \E x \in {a, b} : \A y \in {a, b} : x >= y
  <2>1. CASE a <= b
    BY <2>1
  <2>2. CASE b <= a
    BY <2>2
  <2> QED BY <2>1, <2>2
<1>2. Max({a, b}) \in {a, b} /\ \A y \in {a, b} : Max({a, b}) >= y
  BY <1>1 DEF Max
<1> QED BY <1>2

(* The next action of a layer whose plan is under way.                     *)
LEMMA NextStage ==
  ASSUME PlanInv, NEW p \in 0..23, Following(p), steps # <<>>
  PROVE  /\ p \in 0..22 /\ layer \in 1..Depth /\ layer - 1 \in 0..(Depth - 1)
         /\ Head(steps) = Stage(layer - 1, p + 1) /\ Head(steps) \in StageSet
         /\ Tail(steps) \in Seq(StageSet) /\ Len(Tail(steps)) = 23 - (p + 1)
         /\ \A j \in 1..Len(Tail(steps)) : Tail(steps)[j] = Stage(layer - 1, (p + 1) + j)
<1>1. /\ steps \in Seq(StageSet) /\ Len(steps) = 23 - p
      /\ \A j \in 1..Len(steps) : steps[j] = Stage(layer - 1, p + j)
      /\ layer = 0 => p = 23
  BY DEF Following
<1>2. p \in 0..22
  <2>1. Len(steps) # 0
    BY <1>1
  <2> QED BY <1>1, <2>1
<1>3. layer \in 1..Depth /\ layer - 1 \in 0..(Depth - 1)
  <2>1. layer \in 0..Depth /\ Depth \in Nat
    BY DenseAssumption DEF PlanInv
  <2> QED BY <1>1, <1>2, <2>1
<1>4. 1 \in 1..Len(steps) /\ Head(steps) = steps[1]
  BY <1>1, <1>2
<1>5. Head(steps) = Stage(layer - 1, p + 1)
  BY <1>1, <1>4
<1>6. Head(steps) \in StageSet
  BY <1>1, <1>4, ElementOfSeq
<1>7. /\ Tail(steps) \in Seq(StageSet) /\ Len(Tail(steps)) = Len(steps) - 1
      /\ \A j \in 1..Len(Tail(steps)) : Tail(steps)[j] = steps[j + 1]
  BY <1>1, HeadTailProperties
<1>8. ASSUME NEW j \in 1..Len(Tail(steps))
      PROVE  Tail(steps)[j] = Stage(layer - 1, (p + 1) + j)
  <2>1. j + 1 \in 1..Len(steps) /\ p + (j + 1) = (p + 1) + j
    BY <1>1, <1>2, <1>7
  <2>2. steps[j + 1] = Stage(layer - 1, p + (j + 1))
    BY <1>1, <2>1
  <2> QED BY <1>7, <2>1, <2>2
<1> QED BY <1>1, <1>2, <1>3, <1>5, <1>6, <1>7, <1>8

(* It finds in memory what it executes or evicts.                          *)
LEMMA NextRecorded ==
  ASSUME PlanInv, RecordAction, NEW p \in 0..23, Following(p)
  PROVE  /\ Head(steps) = Stage(layer - 1, p + 1)
         /\ actions' = Append(actions, Head(steps)) /\ steps' = Tail(steps) /\ plan' = plan
         /\ resident' = Held(layer - 1, p + 1)
         /\ peak' = IF p < 11 THEN Max({peak, SizeOf(resident')}) ELSE peak
<1> DEFINE l == layer - 1
           a == Head(steps)
<1>1. steps # <<>>
  BY DEF RecordAction
<1>2. p \in 0..22 /\ a = Stage(l, p + 1)
  BY <1>1, NextStage
<1>3. resident = Held(l, p) /\ resident \in SUBSET ToSet(Tensors(l))
  <2>1. resident = Held(l, p)
    BY DEF Following
  <2> QED BY <2>1, HeldAre
<1>4. Recordable(a) => Record(a) /\ steps' = Tail(steps) /\ plan' = plan
  BY DEF RecordAction
<1> HIDE DEF a, l
<1>5. \A x : ToSet(<<x>>) = {x}
  BY DEF ToSet
<1>6. CASE p < 11
  <2>1. a = Action("prefetch", <<Tensors(l)[p + 1]>>)
    BY <1>2, <1>6 DEF Stage
  <2>2. a.kind = "prefetch" /\ ToSet(a.tensors) = {Tensors(l)[p + 1]}
    BY <1>5, <2>1 DEF Action
  <2>3. Held(l, p + 1) = resident \cup ToSet(a.tensors)
    BY <1>3, <1>6, <2>2, HeldAre
  <2> QED BY <1>2, <1>4, <1>6, <2>2, <2>3 DEF Recordable, Record, a, l
<1>7. CASE p = 11
  <2>1. a = Action("execute", Tensors(l))
    BY <1>2, <1>7 DEF Stage
  <2>2. a.kind = "execute" /\ ToSet(a.tensors) = ToSet(Tensors(l))
    BY <2>1 DEF Action
  <2>3. resident = ToSet(Tensors(l)) /\ Held(l, p + 1) = resident
    BY <1>3, <1>7, HeldAre
  <2> QED BY <1>2, <1>4, <1>7, <2>2, <2>3 DEF Recordable, Record, a, l
<1>8. CASE p \in 12..22
  <2>1. a = Action("evict", <<Tensors(l)[p - 11]>>)
    <3>1. (p + 1) - 12 = p - 11 /\ ~(p + 1 <= 11) /\ p + 1 # 12
      BY <1>8
    <3> QED BY <1>2, <3>1 DEF Stage
  <2>2. a.kind = "evict" /\ ToSet(a.tensors) = {Tensors(l)[p - 11]}
    BY <1>5, <2>1 DEF Action
  <2>3. Tensors(l)[p - 11] \in resident /\ Held(l, p + 1) = resident \ {Tensors(l)[p - 11]}
    BY <1>3, <1>8, HeldAre
  <2>4. ~(p < 11)
    BY <1>8
  <2> QED BY <1>2, <1>4, <2>2, <2>3, <2>4 DEF Recordable, Record, a, l
<1> QED BY <1>2, <1>6, <1>7, <1>8

(* The peak follows what is in memory, up to the size of the layer.        *)
LEMMA PeakKeeps ==
  ASSUME PlanInv, RecordAction, NEW p \in 0..22, Following(p), layer \in 1..Depth,
         resident' = Held(layer - 1, p + 1),
         peak' = IF p < 11 THEN Max({peak, SizeOf(resident')}) ELSE peak
  PROVE  /\ peak' \in 0..budget /\ peak <= peak' /\ SizeOf(resident') <= peak'
         /\ peak' = 0 \/ \E l \in 0..(layer - 1) : peak' <= Total(l)
         /\ p + 1 >= 11 => Total(layer - 1) <= peak'
<1> DEFINE l == layer - 1
           r == resident'
           s == SizeOf(r)
           o == SizeOf(resident)
           t == Total(l)
<1>1. /\ l \in 0..(Depth - 1) /\ l \in 0..(layer - 1) /\ layer > 0
  BY DenseAssumption
<1>2. /\ peak \in 0..budget /\ budget \in Nat /\ t <= budget /\ o <= peak
      /\ peak = 0 \/ \E k \in 0..(layer - 1) : peak <= Total(k)
  <2>1. budget \in 0..Largest /\ peak \in 0..budget
    BY DEF PlanInv
  <2>2. budget \in Nat
    BY <2>1, PlannerAssumption
  <2>3. t <= budget /\ o <= peak
    BY <1>1 DEF PlanInv
  <2>4. peak = 0 \/ \E k \in 0..(layer - 1) : peak <= Total(k)
    BY DEF PlanInv
  <2> QED BY <2>1, <2>2, <2>3, <2>4
<1>3. resident = Held(l, p) /\ resident \in SUBSET ToSet(Tensors(l))
  <2>1. resident = Held(l, p)
    BY DEF Following
  <2> QED BY <2>1, HeldAre
<1>4. r \in SUBSET ToSet(Tensors(l))
  <2>1. p + 1 \in 0..23
    OBVIOUS
  <2> QED BY <2>1, HeldAre
<1>5. s \in Nat /\ s <= t /\ t \in Nat /\ o \in Nat
  BY <1>1, <1>3, <1>4, SizesAre
<1>6. p >= 11 => t <= peak
  BY <1>1 DEF Following
<1>7. p + 1 = 11 => s = t
  <2> SUFFICES ASSUME p + 1 = 11 PROVE s = t
    OBVIOUS
  <2>1. 11 \in 0..23
    OBVIOUS
  <2>2. r = ToSet(Tensors(l))
    BY <2>1, HeldAre
  <2> QED BY <2>2 DEF Total
<1>8. p >= 11 => s <= o
  <2> SUFFICES ASSUME p >= 11 PROVE s <= o
    OBVIOUS
  <2>1. p \in 0..23 /\ (p = 11 \/ p \in 12..22)
    OBVIOUS
  <2>2. r \in SUBSET resident
    BY <1>3, <2>1, HeldAre
  <2> QED BY <1>1, <1>3, <2>2, SizesAre
<1>9. peak' = IF p < 11 THEN Max({peak, s}) ELSE peak
  OBVIOUS
<1> HIDE DEF l, r, s, o, t
<1>10. CASE p < 11
  <2>1. peak \in Int /\ s \in Int
    BY <1>2, <1>5
  <2>2. peak' \in {peak, s} /\ peak <= peak' /\ s <= peak'
    BY <1>9, <1>10, <2>1, LargerOf
  <2>3. peak' \in 0..budget
    BY <1>2, <1>5, <2>2
  <2>4. p + 1 >= 11 => t <= peak'
    BY <1>7, <1>10, <2>2
  <2>5. peak' = 0 \/ \E k \in 0..(layer - 1) : peak' <= Total(k)
    <3>1. CASE peak' = peak
      BY <1>2, <3>1
    <3>2. CASE peak' = s
      BY <1>1, <1>5, <3>2 DEF t
    <3> QED BY <2>2, <3>1, <3>2
  <2> QED BY <2>2, <2>3, <2>4, <2>5 DEF s, r, t, l
<1>11. CASE p >= 11
  <2>1. peak' = peak
    BY <1>9, <1>11
  <2>2. s <= peak'
    BY <1>2, <1>5, <1>8, <1>11, <2>1
  <2>3. peak' \in 0..budget /\ peak <= peak'
    BY <1>2, <2>1
  <2>4. t <= peak'
    BY <1>6, <1>11, <2>1
  <2>5. peak' = 0 \/ \E k \in 0..(layer - 1) : peak' <= Total(k)
    BY <1>2, <2>1
  <2> QED BY <2>2, <2>3, <2>4, <2>5 DEF s, r, t, l
<1> QED BY <1>10, <1>11

LEMMA StageIn ==
  ASSUME NEW l \in 0..(Depth - 1), NEW k \in 1..23 PROVE Stage(l, k) \in StageSet
BY DEF StageSet

(* Only the execution of the layer adds to the executions of the trace.    *)
LEMMA ExecutionsKeep ==
  ASSUME PlanInv, NEW p \in 0..22, Following(p), layer \in 1..Depth,
         actions' = Append(actions, Stage(layer - 1, p + 1))
  PROVE  /\ actions' \in Seq(StageSet)
         /\ \A i \in Executions' : actions'[i].tensors = Tensors(Before(i)')
         /\ Cardinality(Executions') = IF p + 1 >= 12 THEN layer ELSE layer - 1
<1> DEFINE l == layer - 1
           a == Stage(l, p + 1)
           n == Len(actions)
<1>1. l \in 0..(Depth - 1) /\ p + 1 \in 1..23 /\ layer \in Nat /\ l \in Nat
  BY DenseAssumption
<1>2. a \in StageSet
  BY <1>1, StageIn
<1>3. /\ actions \in Seq(StageSet)
      /\ \A i \in Executions : actions[i].tensors = Tensors(Before(i))
      /\ Cardinality(Executions) = IF p >= 12 THEN layer ELSE l
  BY DEF PlanInv, Following
<1>4. (a.kind = "execute" <=> p = 11) /\ (p = 11 => a.tensors = Tensors(l))
  <2> HIDE DEF l
  <2>1. CASE p < 11
    <3>1. a = Action("prefetch", <<Tensors(l)[p + 1]>>)
      BY <2>1 DEF Stage
    <3>2. a.kind = "prefetch" /\ p # 11
      BY <2>1, <3>1 DEF Action
    <3> HIDE DEF a
    <3> QED BY <3>2
  <2>2. CASE p = 11
    <3>1. a = Action("execute", Tensors(l))
      BY <2>2 DEF Stage
    <3>2. a.kind = "execute" /\ a.tensors = Tensors(l)
      BY <3>1 DEF Action
    <3> HIDE DEF a
    <3> QED BY <2>2, <3>2
  <2>3. CASE p > 11
    <3>1. a = Action("evict", <<Tensors(l)[(p + 1) - 12]>>)
      BY <2>3 DEF Stage
    <3>2. a.kind = "evict" /\ p # 11
      BY <2>3, <3>1 DEF Action
    <3> HIDE DEF a
    <3> QED BY <3>2
  <2> QED BY <2>1, <2>2, <2>3
<1> HIDE DEF a
<1>5. actions' = Append(actions, a)
  BY DEF a
<1>6. /\ actions' \in Seq(StageSet)
      /\ Executions' = Executions \cup (IF a.kind = "execute" THEN {n + 1} ELSE {})
      /\ \A i \in Executions : /\ i \in 1..n
                               /\ actions'[i] = actions[i] /\ Before(i)' = Before(i)
      /\ actions'[n + 1] = a /\ {j \in Executions' : j < n + 1} = Executions
  BY <1>2, <1>3, <1>5, OneMore
<1>7. IsFiniteSet(Executions) /\ n \in Nat
  BY <1>3, ExecutionsAre
<1>8. \A i \in Executions : actions'[i].tensors = Tensors(Before(i)')
  BY <1>3, <1>6
<1> HIDE DEF n
<1>9. CASE p = 11
  <2>1. Executions' = Executions \cup {n + 1} /\ n + 1 \notin Executions
    BY <1>4, <1>6, <1>7, <1>9
  <2>2. Cardinality(Executions) = l
    BY <1>3, <1>9
  <2>3. Cardinality(Executions') = layer
    <3>1. Cardinality(Executions \cup {n + 1}) = Cardinality(Executions) + 1
      BY <1>7, <2>1, FS_AddElement
    <3> QED BY <1>1, <2>1, <2>2, <3>1
  <2>4. PICK k : k = n + 1
    OBVIOUS
  <2>5. Before(k)' = l
    <3>1. {j \in Executions' : j < k} = Executions
      BY <1>6, <2>4
    <3> QED BY <2>2, <3>1 DEF Before
  <2>6. actions'[k].tensors = Tensors(Before(k)')
    BY <1>4, <1>6, <1>9, <2>4, <2>5
  <2>7. \A i \in Executions' : actions'[i].tensors = Tensors(Before(i)')
    BY <1>8, <2>1, <2>4, <2>6
  <2>8. p + 1 >= 12
    BY <1>9
  <2> QED BY <1>6, <2>3, <2>7, <2>8
<1>10. CASE p # 11
  <2>1. Executions' = Executions
    BY <1>4, <1>6, <1>10
  <2>2. p >= 12 <=> p + 1 >= 12
    BY <1>10
  <2> QED BY <1>3, <1>6, <1>8, <2>1, <2>2
<1> QED BY <1>9, <1>10

LEMMA RecordKeeps == ASSUME PlanInv, RecordAction PROVE PlanInv'
<1>1. /\ plan = "begun" /\ steps # <<>>
      /\ bytes' = bytes /\ budget' = budget /\ layer' = layer
  BY DEF RecordAction
<1>2. PICK p \in 0..23 : Following(p)
  BY DEF PlanInv
<1>3. /\ p \in 0..22 /\ layer \in 1..Depth
      /\ Head(steps) = Stage(layer - 1, p + 1)
      /\ Tail(steps) \in Seq(StageSet) /\ Len(Tail(steps)) = 23 - (p + 1)
      /\ \A j \in 1..Len(Tail(steps)) : Tail(steps)[j] = Stage(layer - 1, (p + 1) + j)
  BY <1>1, <1>2, NextStage
<1>4. /\ actions' = Append(actions, Stage(layer - 1, p + 1))
      /\ steps' = Tail(steps) /\ plan' = plan /\ resident' = Held(layer - 1, p + 1)
      /\ peak' = IF p < 11 THEN Max({peak, SizeOf(resident')}) ELSE peak
  BY <1>2, <1>3, NextRecorded
<1>5. /\ peak' \in 0..budget /\ peak <= peak' /\ SizeOf(resident') <= peak'
      /\ peak' = 0 \/ \E l \in 0..(layer - 1) : peak' <= Total(l)
      /\ p + 1 >= 11 => Total(layer - 1) <= peak'
  BY <1>2, <1>3, <1>4, PeakKeeps
<1>6. /\ actions' \in Seq(StageSet)
      /\ \A i \in Executions' : actions'[i].tensors = Tensors(Before(i)')
      /\ Cardinality(Executions') = IF p + 1 >= 12 THEN layer ELSE layer - 1
  BY <1>2, <1>3, <1>4, ExecutionsKeep
<1>7. /\ \A s : SizeOf(s)' = SizeOf(s)
      /\ \A l : Total(l)' = Total(l)
  BY <1>1, KeptSizes
<1>8. Following(p + 1)'
  <2>1. \A l \in 0..(layer' - 1) : l < layer' - 1 \/ p + 1 >= 11 => Total(l)' <= peak'
    <3> SUFFICES ASSUME NEW l \in 0..(layer - 1), l < layer - 1 \/ p + 1 >= 11
                 PROVE  Total(l) <= peak'
      BY <1>1, <1>7
    <3>1. CASE l = layer - 1
      <4>1. p + 1 >= 11
        BY <1>3, <3>1
      <4> QED BY <1>5, <3>1, <4>1
    <3>2. CASE l # layer - 1
      <4>1. l < layer - 1 /\ l \in 0..(Depth - 1)
        BY <1>3, <3>2, DenseAssumption
      <4>2. Total(l) <= peak
        BY <1>2, <4>1 DEF Following
      <4>3. Total(l) \in Nat
        <5>1. {} \in SUBSET ToSet(Tensors(l))
          OBVIOUS
        <5> QED BY <4>1, <5>1, SizesAre
      <4>4. peak \in Nat /\ peak' \in Nat
        <5>1. budget \in 0..Largest /\ peak \in 0..budget
          BY DEF PlanInv
        <5> QED BY <1>5, <5>1, PlannerAssumption
      <4> QED BY <1>5, <4>2, <4>3, <4>4
    <3> QED BY <3>1, <3>2
  <2>2. ~(layer' = 0)
    BY <1>1, <1>3
  <2>3. /\ steps' \in Seq(StageSet) /\ Len(steps') = 23 - (p + 1)
        /\ \A j \in 1..Len(steps') : steps'[j] = Stage(layer' - 1, (p + 1) + j)
    BY <1>1, <1>3, <1>4
  <2>4. /\ resident' = Held(layer' - 1, p + 1)
        /\ Cardinality(Executions') = IF p + 1 >= 12 THEN layer' ELSE layer' - 1
    BY <1>1, <1>4, <1>6
  <2> QED BY <2>1, <2>2, <2>3, <2>4, Zenon DEF Following
<1>9. \E q \in 0..23 : Following(q)'
  <2>1. p + 1 \in 0..23
    BY <1>3
  <2> QED BY <1>8, <2>1
<1>10. (SizeOf(resident) <= peak)'
  <2>1. PICK r : r = resident'
    OBVIOUS
  <2>2. SizeOf(r)' <= peak'
    BY <1>5, <1>7, <2>1
  <2> QED BY <2>1, <2>2
<1>11. /\ peak' \in 0..budget' /\ layer' \in 0..Depth /\ budget' \in 0..Largest
       /\ peak' = 0 \/ \E l \in 0..(layer' - 1) : peak' <= Total(l)'
       /\ \A l \in 0..(Depth - 1) : \A t \in ToSet(Tensors(l)) : bytes'[t] \in Nat
  BY <1>1, <1>5, <1>7 DEF PlanInv
<1>12. layer' > 0 => (Total(layer - 1) <= budget)'
  <2>1. PICK k : k = layer - 1
    OBVIOUS
  <2>2. Total(k) <= budget
    BY <1>3, <2>1, DenseAssumption DEF PlanInv
  <2>3. (layer - 1)' = k
    BY <1>1, <2>1
  <2>4. Total(k)' <= budget'
    BY <1>1, <1>7, <2>2
  <2> QED BY <2>3, <2>4
<1>13. plan' = "begun"
  BY <1>1, <1>4
<1> QED BY <1>6, <1>9, <1>10, <1>11, <1>12, <1>13 DEF PlanInv

LEMMA PlanKeeps == PlanInv /\ [PlanNext]_plan_vars => PlanInv'
<1> SUFFICES ASSUME PlanInv, [PlanNext]_plan_vars PROVE PlanInv'
  OBVIOUS
<1>1. CASE PlanLayer
  BY <1>1, PlanLayerKeeps
<1>2. CASE RecordAction
  BY <1>2, RecordKeeps
<1>3. CASE PlanEnds
  BY <1>3, PlanEndsKeeps
<1>4. CASE PlanKept
  BY <1>4, PlanStutters DEF PlanKept
<1>5. CASE UNCHANGED plan_vars
  BY <1>5, PlanStutters
<1> QED BY <1>1, <1>2, <1>3, <1>4, <1>5 DEF PlanNext

(* Every weight the runtime reads in a layer is among those of its plan.   *)
LEMMA MatricesPlanned ==
  ASSUME NEW l PROVE Matrices(l) \subseteq ToSet(Tensors(l))
<1>1. \A s \in {"q", "k", "v", "o", "gate", "up", "down"} :
        \E i \in 1..11 : TensorSuffixes[i] = s
  <2>1. /\ TensorSuffixes[2] = "q" /\ TensorSuffixes[3] = "k" /\ TensorSuffixes[4] = "v"
        /\ TensorSuffixes[7] = "o" /\ TensorSuffixes[9] = "gate" /\ TensorSuffixes[10] = "up"
        /\ TensorSuffixes[11] = "down"
    BY DEF TensorSuffixes
  <2>2. \A i \in {2, 3, 4, 7, 9, 10, 11} : i \in 1..11
    OBVIOUS
  <2> QED BY <2>1, <2>2
<1>2. \A i \in DOMAIN Parts : Parts[i] \in {"q", "k", "v", "o", "gate", "up", "down"}
  BY DEF Parts
<1>3. \A i \in 1..11 : Tensors(l)[i] = <<l, TensorSuffixes[i]>>
  BY TensorsAre DEF Tensors
<1> SUFFICES ASSUME NEW j \in DOMAIN Parts PROVE <<l, Parts[j]>> \in ToSet(Tensors(l))
  BY DEF Matrices
<1>4. PICK i \in 1..11 : TensorSuffixes[i] = Parts[j]
  BY <1>1, <1>2
<1> QED BY <1>3, <1>4, TensorsAre

(* The largest of a set is what bounds it and belongs to it.               *)
LEMMA LargestOf ==
  ASSUME NEW S \in SUBSET Int, NEW m \in S, \A y \in S : m >= y
  PROVE  Max(S) = m
<1>1. Max(S) \in S /\ \A y \in S : Max(S) >= y
  BY DEF Max
<1>2. Max(S) \in Int /\ m \in Int
  BY <1>1
<1>3. Max(S) >= m /\ m >= Max(S)
  BY <1>1
<1> HIDE DEF Max
<1> QED BY <1>2, <1>3

LEMMA PlanFollow == PlanInv => PlanCovers
<1> SUFFICES ASSUME PlanInv PROVE PlanCovers
  OBVIOUS
<1>1. PICK p \in 0..23 : Following(p)
  BY DEF PlanInv
<1>2. \A t, u \in resident : t[1] = u[1]
  <2>1. resident \in SUBSET ToSet(Tensors(layer - 1))
    BY <1>1, HeldAre DEF Following
  <2>2. \A t \in ToSet(Tensors(layer - 1)) : t[1] = layer - 1
    BY TensorsAre
  <2> QED BY <2>1, <2>2
<1>3. SizeOf(resident) <= peak /\ peak <= budget
  <2>1. budget \in 0..Largest /\ peak \in 0..budget
    BY DEF PlanInv
  <2> QED BY <2>1, PlannerAssumption DEF PlanInv
<1>4. plan = "refused" => budget = 0 \/ \E l \in 0..(Depth - 1) : ~LayerFits(l)
  BY DEF PlanInv
<1>5. ASSUME plan = "planned"
      PROVE  /\ resident = {} /\ Cardinality(Executions) = Depth
             /\ \A i \in Executions :
                  /\ Matrices(Before(i)) \subseteq ToSet(actions[i].tensors)
                  /\ \A t \in ToSet(actions[i].tensors) : t[1] = Before(i)
             /\ peak = Max({SizeOf(ToSet(Tensors(l))) : l \in 0..(Depth - 1)})
  <2>1. layer = Depth /\ steps = <<>> /\ Depth \in Nat \ {0}
    BY <1>5, DenseAssumption DEF PlanInv
  <2>2. p = 23
    BY <1>1, <2>1 DEF Following
  <2>3. resident = {}
    BY <1>1, <2>2, HeldAre DEF Following
  <2>4. Cardinality(Executions) = Depth
    BY <1>1, <2>1, <2>2 DEF Following
  <2>5. ASSUME NEW i \in Executions
        PROVE  /\ Matrices(Before(i)) \subseteq ToSet(actions[i].tensors)
               /\ \A t \in ToSet(actions[i].tensors) : t[1] = Before(i)
    <3>1. actions[i].tensors = Tensors(Before(i))
      BY DEF PlanInv
    <3>2. \A t \in ToSet(Tensors(Before(i))) : t[1] = Before(i)
      BY TensorsAre
    <3> QED BY <3>1, <3>2, MatricesPlanned
  <2>6. peak = Max({SizeOf(ToSet(Tensors(l))) : l \in 0..(Depth - 1)})
    <3> DEFINE S == {Total(l) : l \in 0..(Depth - 1)}
    <3>1. \A l \in 0..(Depth - 1) : Total(l) \in Nat /\ Total(l) <= peak
      <4> SUFFICES ASSUME NEW l \in 0..(Depth - 1) PROVE Total(l) \in Nat /\ Total(l) <= peak
        OBVIOUS
      <4>1. {} \in SUBSET ToSet(Tensors(l))
        OBVIOUS
      <4>2. Total(l) \in Nat
        BY <4>1, SizesAre
      <4>3. Total(l) <= peak
        BY <1>1, <2>1, <2>2 DEF Following
      <4> QED BY <4>2, <4>3
    <3>2. peak \in Nat
      <4>1. budget \in 0..Largest /\ peak \in 0..budget
        BY DEF PlanInv
      <4> QED BY <4>1, PlannerAssumption
    <3>3. peak \in S
      <4>1. CASE \E l \in 0..(layer - 1) : peak <= Total(l)
        <5>1. PICK l \in 0..(Depth - 1) : peak <= Total(l)
          BY <2>1, <4>1
        <5>2. peak = Total(l)
          BY <3>1, <3>2, <5>1
        <5> QED BY <5>2
      <4>2. CASE peak = 0
        <5>1. 0 \in 0..(Depth - 1)
          BY <2>1
        <5>2. Total(0) = 0
          BY <3>1, <4>2, <5>1
        <5> QED BY <4>2, <5>1, <5>2
      <4> QED BY <4>1, <4>2 DEF PlanInv
    <3>4. S \in SUBSET Int /\ \A y \in S : peak >= y
      BY <3>1, <3>2
    <3>5. S = {SizeOf(ToSet(Tensors(l))) : l \in 0..(Depth - 1)}
      BY DEF Total
    <3> HIDE DEF S
    <3>6. Max(S) = peak
      BY <3>3, <3>4, LargestOf
    <3> QED BY <3>5, <3>6
  <2> QED BY <2>3, <2>4, <2>5, <2>6
<1> QED BY <1>2, <1>3, <1>4, <1>5 DEF PlanCovers

(* The plan of the layers of the dense runtime never holds more than its   *)
(* budget nor tensors of two layers, a finished one executes every layer   *)
(* in order with every matrix the runtime reads in it, leaves nothing in   *)
(* memory and reports the size of the largest layer as its peak, and one   *)
(* is refused only where a layer cannot fit.                               *)
THEOREM PlanExact == PlanSpec => []PlanCovers
<1>1. PlanInit => PlanInv
  BY PlanInitInv
<1>2. PlanInv /\ [PlanNext]_plan_vars => PlanInv'
  BY PlanKeeps
<1>3. PlanInv => PlanCovers
  BY PlanFollow
<1> QED BY <1>1, <1>2, <1>3, PTL DEF PlanSpec
=============================================================================
