------------------------- MODULE ProjectionKernels --------------------------
(***************************************************************************)
(* The projection kernels of the shader source in src/src/metal.rs: which  *)
(* SIMD group of which threadgroup sums which columns of which row, and    *)
(* where a finished sum is stored.  A SIMD group runs in lockstep, so its  *)
(* lanes and simd_sum are one step.                                        *)
(*                                                                         *)
(* A sum is the bag of the products added up.  How a weight is decoded     *)
(* from its bytes, and in which order floats are added, is left out.       *)
(***************************************************************************)
EXTENDS Integers, Bags, SequencesExt, FiniteSetsExt

CONSTANTS
  Lanes,   \* threads of a SIMD group, 32
  Quad,    \* SIMD groups of an ordinary threadgroup and rows of a row block, 4
  Vector   \* columns a thread of a vector kernel reads at once, 4

ASSUME KernelAssumption == {Lanes, Quad, Vector} \subseteq Nat \ {0}

(* Who works on a row, which is what tells the kernels apart:              *)
(*   group  all SIMD groups of the threadgroup, through partial sums       *)
(*   simd   one SIMD group; the threadgroup has one row for each           *)
(*   quad   Quad SIMD groups, through partial sums; Quad rows each         *)
(*   first  the first SIMD group, the others return                        *)
(*   each   every SIMD group by itself                                     *)
(* A vector kernel reads Vector columns at once where the row length       *)
(* allows it.  A pair kernel sums the same row of two matrices.            *)
Kernel(share, vector, pair) ==
  [share |-> share, vector |-> vector, pair |-> pair]

si_bf16_matvec == Kernel("group", TRUE, FALSE)
si_f32_matvec == Kernel("group", TRUE, FALSE)
si_q4_k_matvec == Kernel("group", FALSE, FALSE)
si_q4_k_matvec_rows4 == Kernel("simd", FALSE, FALSE)
si_q4_k_matvec_rows4x128 == Kernel("quad", FALSE, FALSE)
si_q4_k_fused_gate_up == Kernel("group", FALSE, TRUE)
si_q5_k_matvec == Kernel("group", FALSE, FALSE)
si_q5_k_matvec_rows4 == Kernel("simd", FALSE, FALSE)
si_q6_k_matvec == Kernel("group", FALSE, FALSE)
si_q6_k_matvec_rows4 == Kernel("simd", FALSE, FALSE)
si_q6_k_matvec_rows4x128 == Kernel("quad", FALSE, FALSE)
si_q4_k_matmul_many == Kernel("group", FALSE, FALSE)
si_q5_k_matmul_many == Kernel("group", FALSE, FALSE)
si_q6_k_matmul_many == Kernel("group", FALSE, FALSE)
si_bf16_bitpack_matvec == Kernel("group", FALSE, FALSE)
si_bf16_matmul_many == Kernel("first", FALSE, FALSE)
si_bf16_fused_qkv_many == Kernel("each", FALSE, FALSE)
si_bf16_fused_gate_up_many == Kernel("each", FALSE, FALSE)
si_bf16_fused_qkv == Kernel("group", TRUE, FALSE)
si_bf16_fused_gate_up == Kernel("group", TRUE, FALSE)

(* A dispatch is a record: kernel, mats (the matrices, each a tensor, its  *)
(* rows and the row of the tensor it begins with), columns, batch (the     *)
(* number of input vectors), groups, threads (of each group), from (the    *)
(* dispatch whose output is its input, 0 for the caller's vectors).        *)
Groups(d) == 0..(d.groups - 1)
SimdGroups(d) == 0..((d.threads + Lanes - 1) \div Lanes - 1)
Candidates(d) == 0..(d.batch - 1)
LanesOf(d, s) == 0..(Min({Lanes, d.threads - s * Lanes}) - 1)

RowsBefore(d, m) == MapThenSumSet(LAMBDA k : d.mats[k].rows, 1..(m - 1))
KernelRows(d) ==
  IF d.kernel.pair THEN d.mats[1].rows ELSE RowsBefore(d, Len(d.mats) + 1)

RowOf(d, g, s) ==
  CASE d.kernel.share = "simd" -> g * Quad + s
    [] d.kernel.share = "quad" -> g * Quad + s \div Quad
    [] OTHER -> g

(* The matrix a row of the concatenation lies in, and its row there.       *)
Place(d, row) ==
  LET m == Max({k \in DOMAIN d.mats : k = 1 \/ RowsBefore(d, k) <= row}) IN
  <<m, row - RowsBefore(d, m)>>

Sources(d, row) ==
  IF d.kernel.pair THEN {<<1, row>>, <<2, row>>} ELSE {Place(d, row)}

(* A fault for comparison: rows of the concatenation index every buffer.   *)
CellByConcatenation(d, row, b) ==
  LET m == IF d.kernel.pair THEN 1 ELSE Place(d, row)[1] IN
  <<m, b * d.mats[m].rows + row>>

(* Where the sum of a row for a candidate is stored: buffer and index.     *)
Cell(d, row, b) ==
  LET place == IF d.kernel.pair THEN <<1, row>> ELSE Place(d, row) IN
  <<place[1], b * d.mats[place[1]].rows + place[2]>>

(* What the loop over the columns strides by, and where a SIMD group       *)
(* begins.                                                                 *)
Stride(d) == CASE d.kernel.share = "group" -> d.threads
               [] d.kernel.share = "quad" -> Quad * Lanes
               [] OTHER -> Lanes

Offset(d, s) == CASE d.kernel.share = "group" -> s * Lanes
                  [] d.kernel.share = "quad" -> (s % Quad) * Lanes
                  [] OTHER -> 0

(* What a thread reads at once: a column, or a vector of them.             *)
Item(d, c) ==
  IF d.kernel.vector /\ d.columns % Vector = 0 THEN c \div Vector ELSE c

(* How many lanes of a SIMD group reach a column.                          *)
Visits(d, s, c) ==
  LET reaches(lane) == LET start == Offset(d, s) + lane IN
                       /\ Item(d, c) >= start
                       /\ (Item(d, c) - start) % Stride(d) = 0 IN
  Cardinality({lane \in LanesOf(d, s) : reaches(lane)})

(* The products of a SIMD group for a row and a candidate.  known tells    *)
(* the columns of the input that hold what they should.                    *)
Garbage == <<"garbage", 0, 0, 0>>

Product(d, src, c, b, known) ==
  IF c \in known
  THEN <<d.mats[src[1]].tensor, d.mats[src[1]].first + src[2], c, b>>
  ELSE Garbage

SimdSum(d, s, row, b, known) ==
  LET reached == {c \in 0..(d.columns - 1) : Visits(d, s, c) > 0}
      products == {<<src, c>> : src \in Sources(d, row), c \in reached} IN
  FoldSet(LAMBDA p, sum : sum (+) [x \in {Product(d, p[1], p[2], b, known)} |->
                                     Visits(d, s, p[2])],
          EmptyBag, products)

(* A fault for comparison: row blocks past the end return like rows do.    *)
ReturnsWithoutBarrier(d, g, s) ==
  \/ RowOf(d, g, s) >= KernelRows(d)
  \/ d.kernel.share = "first" /\ s # 0

(* The threads that return before anything else.                           *)
ReturnsAtOnce(d, g, s) ==
  CASE d.kernel.share = "quad" -> FALSE
    [] d.kernel.share = "first" -> RowOf(d, g, s) >= KernelRows(d) \/ s # 0
    [] OTHER -> RowOf(d, g, s) >= KernelRows(d)

UsesPartials(d) == d.kernel.share \in {"group", "quad"}

(* The SIMD group that adds up the partial sums of a row, and those it     *)
(* adds up.                                                                *)
Leads(d, s) == IF d.kernel.share = "quad" THEN s % Quad = 0 ELSE s = 0
Followers(d, s) ==
  IF d.kernel.share = "quad" THEN s..(s + Quad - 1) ELSE SimdGroups(d)

(* A row block past the end has sums of nothing, and its leader stores     *)
(* none.                                                                   *)
HasRow(d, g, s) == RowOf(d, g, s) < KernelRows(d)

(***************************************************************************)
(* What a projection is: every weight of a row times its column of the     *)
(* input, once.                                                            *)
(***************************************************************************)
OutputCells(d) ==
  UNION {{<<m, i>> : i \in 0..(d.batch * d.mats[m].rows - 1)} :
           m \in IF d.kernel.pair THEN {1} ELSE DOMAIN d.mats}

Projection(d, cell) ==
  LET m == cell[1]
      b == cell[2] \div d.mats[m].rows
      r == cell[2] % d.mats[m].rows
      sources == IF d.kernel.pair THEN {1, 2} ELSE {m} IN
  SetToBag({<<d.mats[k].tensor, d.mats[k].first + r, c, b>> :
              k \in sources, c \in 0..(d.columns - 1)})
=============================================================================
