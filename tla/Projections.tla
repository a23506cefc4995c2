---------------------------- MODULE Projections -----------------------------
(***************************************************************************)
(* The projections of MetalContext in src/src/metal.rs: each call checks   *)
(* its shapes, chooses kernels, threadgroups and threads, submits one      *)
(* command buffer and hands its outputs over when the command completed.   *)
(* A call that is refused changes nothing and is left out, and so are the  *)
(* byte lengths it compares.  Dispatches of a command run one after the    *)
(* other, the SIMD groups of a dispatch in any order.                      *)
(***************************************************************************)
EXTENDS ProjectionKernels

CONSTANTS
  Block,         \* columns of a quantised block, 256
  Limits,        \* what max_total_threads_per_threadgroup may be
  RowCounts,     \* row counts explored
  ColumnCounts,  \* row lengths of unquantised matrices explored
  MaxBatch,      \* most candidates of a call, 8
  ChunkRows,     \* max_rows of a chunked call
  FusedRows,     \* most rows of a fused dispatch explored
  StagedBlocks   \* whether staged groups go through the 128-thread row blocks

ASSUME ProjectionAssumption ==
  /\ Block \in Nat \ {0}
  /\ RowCounts \cup ColumnCounts \subseteq Nat \ {0}
  /\ {MaxBatch, ChunkRows, FusedRows} \subseteq Nat \ {0}
  /\ Limits \subseteq Nat \ {0}
  /\ StagedBlocks \in BOOLEAN

VARIABLES
  call,   \* the dispatches of the call under way
  at,     \* the dispatch that runs
  simd,   \* where every SIMD group of it is
  part,   \* the partial sums in the memory of every threadgroup
  out,    \* the cells written, of every dispatch
  pc      \* the command: "running", "completed" or "failed"

vars == <<call, at, simd, part, out, pc>>

Formats == {"Q4_K", "Q5_K", "Q6_K"}
Switches == {"rows4", "rows4x128", "rows4x128_q6", "fused"}

Ordinary == Quad * Lanes            \* 128
Large == Quad * Quad * Lanes        \* 512

(* The code takes it that a row-block pipeline allows all the threads it   *)
(* asks for, and does not check it.                                        *)
MaxThreads(kernel, limit) ==
  IF kernel.share \in {"simd", "quad"} THEN Large ELSE limit

Ceil(n, k) == (n + k - 1) \div k

Dispatch(limit, kernel, mats, columns, batch, groups, cap, from) ==
  [kernel |-> kernel, mats |-> mats, columns |-> columns, batch |-> batch,
   groups |-> groups, from |-> from,
   threads |-> Max({1, Min({MaxThreads(kernel, limit), cap})})]

Part(tensor, first, rows) == [tensor |-> tensor, first |-> first, rows |-> rows]
Whole(tensor, rows) == Part(tensor, 0, rows)

(***************************************************************************)
(* One quantised matrix, one vector.                                       *)
(***************************************************************************)
qk_rows4_enabled(on) == "rows4" \in on
qk_rows4x128_enabled(on) == "rows4x128" \in on
qk_rows4x128_for_type(on, format) ==
  /\ qk_rows4x128_enabled(on)
  /\ format = "Q4_K" \/ (format = "Q6_K" /\ "rows4x128_q6" \in on)

MatvecKernel(format, rows4, rows4x) ==
  CASE format = "Q4_K" -> IF rows4x THEN si_q4_k_matvec_rows4x128
                          ELSE IF rows4 THEN si_q4_k_matvec_rows4
                          ELSE si_q4_k_matvec
    [] format = "Q5_K" -> IF rows4 THEN si_q5_k_matvec_rows4
                          ELSE si_q5_k_matvec
    [] format = "Q6_K" -> IF rows4x THEN si_q6_k_matvec_rows4x128
                          ELSE IF rows4 THEN si_q6_k_matvec_rows4
                          ELSE si_q6_k_matvec

(* A fault for comparison: row blocks get the threads of a single row.     *)
ThreadCapAlways(on, perGroup) == Ordinary

ThreadCap(on, perGroup) ==
  IF perGroup = Quad /\ qk_rows4x128_enabled(on) THEN Large ELSE Ordinary

quant_k_matvec_dispatch(limit, on, kernel, mat, columns, perGroup) ==
  <<Dispatch(limit, kernel, <<mat>>, columns, 1, Ceil(mat.rows, perGroup),
             ThreadCap(on, perGroup), 0)>>

quant_k_matvec_buffer_dispatch(limit, on, kernel, mat, columns, perGroup) ==
  <<Dispatch(limit, kernel, <<mat>>, columns, 1, Ceil(mat.rows, perGroup),
             ThreadCap(on, perGroup), 0)>>

PerGroup(rows4) == IF rows4 THEN Quad ELSE 1

gguf_quant_matvec_weight(limit, on, format, rows, columns) ==
  LET rows4x == qk_rows4x128_for_type(on, format)
      rows4 == rows4x \/ qk_rows4_enabled(on) IN
  quant_k_matvec_buffer_dispatch(limit, on, MatvecKernel(format, rows4, rows4x),
                                 Whole("w", rows), columns, PerGroup(rows4))

gguf_quant_matvec_bytes(limit, on, format, rows, columns) ==
  LET rows4x == qk_rows4x128_for_type(on, format)
      rows4 == rows4x \/ qk_rows4_enabled(on) IN
  quant_k_matvec_dispatch(limit, on, MatvecKernel(format, rows4, rows4x),
                          Whole("w", rows), columns, PerGroup(rows4))

q4_k_matvec(limit, on, mat, columns) ==
  LET rows4x == qk_rows4x128_enabled(on)
      rows4 == rows4x \/ qk_rows4_enabled(on) IN
  quant_k_matvec_dispatch(limit, on, MatvecKernel("Q4_K", rows4, rows4x),
                          mat, columns, PerGroup(rows4))

(* A range of the rows of a mapped tensor.                                 *)
q4_k_matvec_tensor_rows(limit, on, first, count, columns) ==
  q4_k_matvec(limit, on, Part("w", first, count), columns)

quant_k_matvec_tensor_rows(limit, on, format, first, count, columns) ==
  LET rows4x == qk_rows4x128_for_type(on, format)
      rows4 == rows4x \/ qk_rows4_enabled(on) IN
  quant_k_matvec_dispatch(limit, on, MatvecKernel(format, rows4, rows4x),
                          Part("w", first, count), columns, PerGroup(rows4))

(***************************************************************************)
(* Several matrices against one vector, in one command.  A spec is the     *)
(* format and the rows of a matrix, names tells the tensors apart.         *)
(***************************************************************************)
names == <<"w", "x", "y">>

(* This call alone does not refuse a row that ends inside a block, whose   *)
(* last columns it would leave out, nor a tensor without rows.  Neither is *)
(* explored: the formats know whole blocks only.                           *)
gguf_quant_matvec_many_tensors(limit, specs, columns) ==
  [i \in DOMAIN specs |->
     Dispatch(limit, MatvecKernel(specs[i].format, FALSE, FALSE),
              <<Whole(names[i], specs[i].rows)>>, columns, 1, specs[i].rows,
              Ordinary, 0)]

gguf_quant_matvec_many_weights(limit, on, specs, columns) ==
  [i \in DOMAIN specs |->
     LET rows4x == qk_rows4x128_for_type(on, specs[i].format)
         rows4 == qk_rows4_enabled(on) IN
     Dispatch(limit, MatvecKernel(specs[i].format, rows4, rows4x),
              <<Whole(names[i], specs[i].rows)>>, columns, 1,
              Ceil(specs[i].rows, PerGroup(rows4)),
              IF rows4x THEN Large ELSE Ordinary, 0)]

AllRowBlocks(on, specs) ==
  \A i \in DOMAIN specs : qk_rows4x128_for_type(on, specs[i].format)

gguf_quant_matvec_many_bytes(limit, on, specs, columns) ==
  [i \in DOMAIN specs |->
     LET rows4x == AllRowBlocks(on, specs)
         rows4 == rows4x \/ qk_rows4_enabled(on) IN
     Dispatch(limit, MatvecKernel(specs[i].format, rows4, rows4x),
              <<Whole(names[i], specs[i].rows)>>, columns, 1,
              Ceil(specs[i].rows, PerGroup(rows4)), Ordinary, 0)]

(* One matrix against several vectors.                                     *)
ManyKernel(format) == CASE format = "Q4_K" -> si_q4_k_matmul_many
                        [] format = "Q5_K" -> si_q5_k_matmul_many
                        [] format = "Q6_K" -> si_q6_k_matmul_many

gguf_quant_matmul_many_bytes(limit, format, rows, columns, batch) ==
  <<Dispatch(limit, ManyKernel(format), <<Whole("w", rows)>>, columns, batch,
             rows, Ordinary, 0)>>

gguf_quant_matmul_many_weight(limit, format, rows, columns, batch) ==
  <<Dispatch(limit, ManyKernel(format), <<Whole("w", rows)>>, columns, batch,
             rows, Ordinary, 0)>>

(***************************************************************************)
(* The gate and up projections of a quantised block in one dispatch, and   *)
(* the down projection of their product behind them.                       *)
(***************************************************************************)
FusedCap(on) == IF "fused" \in on THEN Large ELSE Ordinary

q4_k_fused_gate_up(limit, on, rows, columns) ==
  <<Dispatch(limit, si_q4_k_fused_gate_up,
             <<Whole("gate", rows), Whole("up", rows)>>, columns, 1, rows,
             FusedCap(on), 0)>>

q4_k_fused_gate_up_weights(limit, on, rows, columns) ==
  <<Dispatch(limit, si_q4_k_fused_gate_up,
             <<Whole("gate", rows), Whole("up", rows)>>, columns, 1, rows,
             FusedCap(on), 0)>>

gguf_quant_fused_mlp_weights(limit, on, format, gateRows, columns, downRows) ==
  LET rows4 == qk_rows4_enabled(on) IN
  <<Dispatch(limit, si_q4_k_fused_gate_up,
             <<Whole("gate", gateRows), Whole("up", gateRows)>>, columns, 1,
             gateRows, FusedCap(on), 0),
    Dispatch(limit, MatvecKernel(format, rows4, FALSE),
             <<Whole("down", downRows)>>, gateRows, 1,
             Ceil(downRows, PerGroup(rows4)), Ordinary, 1)>>

(***************************************************************************)
(* Unquantised matrices.                                                   *)
(***************************************************************************)
f32_matvec(limit, mat, columns) ==
  <<Dispatch(limit, si_f32_matvec, <<mat>>, columns, 1, mat.rows, Ordinary, 0)>>

f32_matvec_tensor_rows(limit, first, count, columns) ==
  f32_matvec(limit, Part("w", first, count), columns)

f32_matvec_many_gguf_tensors(limit, rows, columns) ==
  [i \in DOMAIN rows |->
     Dispatch(limit, si_f32_matvec, <<Whole(names[i], rows[i])>>, columns, 1,
              rows[i], Ordinary, 0)]

encode_bf16_matvec(limit, mat, columns) ==
  Dispatch(limit, si_bf16_matvec, <<mat>>, columns, 1, mat.rows, Ordinary, 0)

bf16_matvec_many_buffer_async(limit, mats, columns) ==
  [i \in DOMAIN mats |-> encode_bf16_matvec(limit, mats[i], columns)]

bf16_matvec_tensor_rows(limit, first, count, columns) ==
  bf16_matvec_many_buffer_async(limit, <<Part("w", first, count)>>, columns)

(* Chunk after chunk, each a command of its own.                           *)
bf16_matvec_tensor_chunked(limit, rows, columns) ==
  [i \in 1..Ceil(rows, ChunkRows) |->
     LET first == (i - 1) * ChunkRows IN
     encode_bf16_matvec(limit,
       Part("w", first, Min({ChunkRows, rows - first})), columns)]

bf16_bitpack_matvec(limit, rows, columns) ==
  <<Dispatch(limit, si_bf16_bitpack_matvec, <<Whole("w", rows)>>, columns, 1,
             rows, Ordinary, 0)>>

(* A fused dispatch has the rows of all its matrices one after the other.  *)
Fused(limit, kernel, mats, columns, batch, cap) ==
  <<Dispatch(limit, kernel, mats, columns, batch,
             MapThenSumSet(LAMBDA i : mats[i].rows, DOMAIN mats), cap, 0)>>

submit_fused_qkv(limit, mats, columns) ==
  Fused(limit, si_bf16_fused_qkv, mats, columns, 1, Ordinary)

submit_fused_gate_up(limit, mats, columns) ==
  Fused(limit, si_bf16_fused_gate_up, mats, columns, 1, Ordinary)

(* The batched kernels are given one SIMD group, and refused if the        *)
(* pipeline does not allow one.                                            *)
encode_bf16_matmul_many(limit, rows, columns, batch) ==
  <<Dispatch(limit, si_bf16_matmul_many, <<Whole("w", rows)>>, columns, batch,
             rows, Lanes, 0)>>

bf16_fused_many_buffer(limit, mats, columns, batch) ==
  Fused(limit, IF Len(mats) = 3 THEN si_bf16_fused_qkv_many
               ELSE si_bf16_fused_gate_up_many,
        mats, columns, batch, Lanes)

(***************************************************************************)
(* The calls explored.                                                     *)
(***************************************************************************)
BlockColumns == {c \in ColumnCounts : c % Block = 0}
Ranges == {range \in (0..Max(RowCounts)) \X RowCounts :
             range[1] + range[2] <= Max(RowCounts)}
Specs == [1..2 -> [format : Formats, rows : RowCounts]]
Batches == 1..MaxBatch

Lists(n) ==
  {mats \in [1..n -> RowCounts] :
     MapThenSumSet(LAMBDA i : mats[i], 1..n) <= FusedRows}
Matrices(rows) == [i \in DOMAIN rows |-> Whole(names[i], rows[i])]

SingleCalls(limit, on) ==
  (UNION {{gguf_quant_matvec_weight(limit, on, f, r, c),
           gguf_quant_matvec_bytes(limit, on, f, r, c)} :
            f \in Formats, r \in RowCounts, c \in BlockColumns})
  \cup {q4_k_matvec_tensor_rows(limit, on, range[1], range[2], c) :
          range \in Ranges, c \in BlockColumns}
  \cup {quant_k_matvec_tensor_rows(limit, on, f, range[1], range[2], c) :
          f \in {"Q5_K", "Q6_K"}, range \in Ranges, c \in BlockColumns}

GroupCalls(limit, on) ==
  (UNION {{gguf_quant_matvec_many_tensors(limit, specs, c),
           gguf_quant_matvec_many_weights(limit, on, specs, c)} :
            specs \in Specs, c \in BlockColumns})
  \cup {gguf_quant_matvec_many_bytes(limit, on, specs, c) :
          specs \in {x \in Specs : StagedBlocks \/ ~AllRowBlocks(on, x)},
          c \in BlockColumns}

FusedCalls(limit, on) ==
  (UNION {{q4_k_fused_gate_up(limit, on, r, c),
           q4_k_fused_gate_up_weights(limit, on, r, c)} :
            r \in RowCounts, c \in BlockColumns})
  \cup {gguf_quant_fused_mlp_weights(limit, on, f, r, c, down) :
          f \in Formats, r \in {x \in RowCounts : x % Block = 0},
          c \in BlockColumns, down \in RowCounts}

BatchCalls(limit) ==
  (UNION {{gguf_quant_matmul_many_bytes(limit, f, r, c, b),
           gguf_quant_matmul_many_weight(limit, f, r, c, b)} :
            f \in Formats, r \in RowCounts, c \in BlockColumns, b \in Batches})
  \cup {encode_bf16_matmul_many(limit, r, c, b) :
          r \in RowCounts, c \in ColumnCounts,
          b \in {x \in Batches : limit >= Lanes}}
  \cup {bf16_fused_many_buffer(limit, Matrices(rows), c, b) :
          rows \in Lists(2) \cup Lists(3), c \in ColumnCounts,
          b \in {x \in Batches : limit >= Lanes}}

PlainCalls(limit) ==
  (UNION {{f32_matvec_tensor_rows(limit, range[1], range[2], c),
           bf16_matvec_tensor_rows(limit, range[1], range[2], c)} :
            range \in Ranges, c \in ColumnCounts})
  \cup (UNION {{bf16_matvec_tensor_chunked(limit, r, c),
                bf16_bitpack_matvec(limit, r, c)} :
                 r \in RowCounts, c \in ColumnCounts})
  \cup (UNION {{f32_matvec_many_gguf_tensors(limit, rows, c),
                bf16_matvec_many_buffer_async(limit, Matrices(rows), c),
                submit_fused_gate_up(limit, Matrices(rows), c)} :
                 rows \in Lists(2), c \in ColumnCounts})
  \cup {submit_fused_qkv(limit, Matrices(rows), c) :
          rows \in Lists(3), c \in ColumnCounts}

Calls ==
  UNION {SingleCalls(limit, on) \cup GroupCalls(limit, on)
           \cup FusedCalls(limit, on) \cup BatchCalls(limit)
           \cup PlainCalls(limit) : limit \in Limits, on \in SUBSET Switches}

(***************************************************************************)
(* The command runs.                                                       *)
(***************************************************************************)
Blank(d) == [g \in Groups(d) |-> [s \in SimdGroups(d) |-> "run"]]
NoPartials(d) == [g \in Groups(d) |-> << >>]

Init ==
  /\ call \in Calls
  /\ at = 1
  /\ simd = Blank(call[1])
  /\ part = NoPartials(call[1])
  /\ out = [i \in DOMAIN call |-> << >>]
  /\ pc = "running"

now == call[at]

(* The columns of the input that hold what they should: all of a caller's  *)
(* vector, of a computed one those that are right.                         *)
Right(i, cell) ==
  cell \in DOMAIN out[i] /\ out[i][cell] = Projection(call[i], cell)

Known(d) ==
  IF d.from = 0 THEN 0..(d.columns - 1)
  ELSE {c \in 0..(d.columns - 1) : Right(d.from, <<1, c>>)}

(* A memory after the cells of stores were written to it.                  *)
Stored(memory, stores) ==
  [cell \in DOMAIN stores \cup DOMAIN memory |->
     IF cell \in DOMAIN stores THEN stores[cell] ELSE memory[cell]]

Store(row, sums) ==
  out' = [out EXCEPT ![at] = Stored(@,
            [cell \in {Cell(now, row, b) : b \in Candidates(now)} |->
               sums[CHOOSE b \in Candidates(now) : Cell(now, row, b) = cell]])]

(* A SIMD group returns, or sums its columns: into the output if the row   *)
(* is its own, else into the memory of the threadgroup.                    *)
Reduce(g, s) ==
  LET row == RowOf(now, g, s)
      sums == [b \in Candidates(now) |->
                 IF HasRow(now, g, s) THEN SimdSum(now, s, row, b, Known(now))
                 ELSE EmptyBag] IN
  /\ pc = "running"
  /\ simd[g][s] = "run"
  /\ IF ReturnsAtOnce(now, g, s)
     THEN simd' = [simd EXCEPT ![g][s] = "done"] /\ UNCHANGED <<part, out>>
     ELSE IF UsesPartials(now)
     THEN /\ part' = [part EXCEPT ![g] = Stored(@, [t \in {s} |-> sums])]
          /\ simd' = [simd EXCEPT ![g][s] = "barrier"]
          /\ UNCHANGED out
     ELSE /\ Store(row, sums)
          /\ simd' = [simd EXCEPT ![g][s] = "done"]
          /\ UNCHANGED part
  /\ UNCHANGED <<call, at, pc>>

(* threadgroup_barrier lets the threads of a group go when all are there.  *)
Barrier(g) ==
  /\ pc = "running"
  /\ \A s \in SimdGroups(now) : simd[g][s] = "barrier"
  /\ simd' = [simd EXCEPT ![g] =
       [s \in SimdGroups(now) |->
          IF Leads(now, s) /\ HasRow(now, g, s) THEN "lead" ELSE "done"]]
  /\ UNCHANGED <<call, at, part, out, pc>>

(* A leader adds up the partial sums; what was never written is garbage.   *)
Partial(g, s, b) ==
  IF s \in DOMAIN part[g] THEN part[g][s][b] ELSE SetToBag({Garbage})

Lead(g, s) ==
  LET total(b) == FoldSet(LAMBDA t, sum : sum (+) Partial(g, t, b), EmptyBag,
                          Followers(now, s)) IN
  /\ pc = "running"
  /\ simd[g][s] = "lead"
  /\ Store(RowOf(now, g, s), [b \in Candidates(now) |-> total(b)])
  /\ simd' = [simd EXCEPT ![g][s] = "done"]
  /\ UNCHANGED <<call, at, part, pc>>

Ended == \A g \in Groups(now), s \in SimdGroups(now) : simd[g][s] = "done"

NextDispatch ==
  /\ pc = "running"
  /\ Ended
  /\ at < Len(call)
  /\ at' = at + 1
  /\ simd' = Blank(call[at + 1])
  /\ part' = NoPartials(call[at + 1])
  /\ UNCHANGED <<call, out, pc>>

(* The wait of commit_and_wait or of PendingMatvec returns.  A command     *)
(* that did not complete makes the call an error.                          *)
Complete ==
  /\ pc = "running"
  /\ Ended
  /\ at = Len(call)
  /\ pc' = "completed"
  /\ UNCHANGED <<call, at, simd, part, out>>

Fail ==
  /\ pc = "running"
  /\ pc' = "failed"
  /\ UNCHANGED <<call, at, simd, part, out>>

(* The call has returned.                                                  *)
Returned == pc # "running" /\ UNCHANGED vars

Next ==
  \/ \E g \in Groups(now), s \in SimdGroups(now) : Reduce(g, s) \/ Lead(g, s)
  \/ \E g \in Groups(now) : Barrier(g)
  \/ NextDispatch
  \/ Complete
  \/ Fail
  \/ Returned

Spec == Init /\ [][Next]_vars

(***************************************************************************)
(* Properties.                                                             *)
(***************************************************************************)

(* What a call hands over is complete and exact: in every output, for each *)
(* candidate and row, every column of that row of its own matrix exactly   *)
(* once, whatever kernel, row block, batch, fusion or number of threads    *)
(* the switches and the device lead to.                                    *)
HandedOverExact ==
  pc = "completed" =>
    \A i \in DOMAIN call : \A cell \in OutputCells(call[i]) : Right(i, cell)

(* No thread returns before a barrier that another of its threadgroup      *)
(* waits at, nor past one it has not reached: the kernels that share sums  *)
(* take their early returns by threadgroup or not at all.                  *)
BarriersMeet ==
  pc = "running" /\ UsesPartials(now) =>
    \A g \in Groups(now), s, t \in SimdGroups(now) :
      ~(simd[g][s] = "barrier" /\ simd[g][t] \in {"lead", "done"})

(* No store lands outside its output, also from the threadgroups and SIMD  *)
(* groups that rounding up to row blocks adds past the last row, and every *)
(* store is of a sum that is already exact.                                *)
StoresInside ==
  \A i \in DOMAIN call : \A cell \in DOMAIN out[i] :
    cell \in OutputCells(call[i]) /\ Right(i, cell)

(* The comment at the row-blocked kernel: its threads perform the same     *)
(* per-row reduction as the ordinary kernel, for all rows of the block.    *)
RowBlocksReduceAlike ==
  pc = "completed" =>
    \A i \in {j \in DOMAIN call : call[j].kernel.share = "quad"} :
      \A cell \in OutputCells(call[i]) : Right(i, cell)
=============================================================================
