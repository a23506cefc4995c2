# Verification of the memory-aware inference runtime

This directory holds TLA+ models of the runtime in `src/src/`, the TLC
configurations that model-check them, and proofs checked by TLAPS. The code is
the reference for every definition; `PROJECT.json` names the lines each
definition stands for.

## 1. The system

The program runs large language models whose weights do not fit in memory. It
keeps a small state per token, streams the weights of each layer from a mapped
file through a bounded staging area, and may decode speculatively: a cheap
drafter proposes tokens and one pass over the large model verifies them. Two
promises make it correct: speculation never changes the output, and streaming
never changes which weights a layer is computed with, while both stay within
fixed bounds of memory.

| Component | Source | State | Operations | Talks to |
|---|---|---|---|---|
| KV cache | `cache.rs` | flat key and value arrays, `cached_tokens` | append a token or a sequence, clear, truncate, copy a prefix | owned by the runtime; candidate and branch caches are copied from and into the target's |
| Decoding schedules | `runtime.rs` (`run_resident`, `decode_*`, drafters, verifiers) | output, position, previous logits, width, caches of target and drafters | prefill, canonical step, propose, verify, roll back, correct | KV caches, target and draft models |
| Weight stager | `runtime.rs` (`WeightStager`, `forward_token_hidden`) | `queued`, `staged`, two channels | prefetch, wait, take, drop | a worker thread that reads the model file |
| Hybrid runtime | `qwen35_runtime.rs` | a state per layer, `prefetched_layer0`, up to four thread handles | `decode_token`, `decode_tokens_many`, `logits`, `reset`, snapshots | scoped staging threads, the GGUF store |
| Packed cache | `model.rs` (`pack_model_execution_order`, `open_packed`) | one file | write in place, open | file system |
| Target model, candidate cache pool, tree verification | `runtime.rs` (`MetalQwen3`) | the caches of all layers, pooled and branch caches | forward a token, a window, a tree; Jacobi loops; commit; truncate | KV caches, the schedules |
| Output-head index | `runtime.rs` (`OutputHeadIndex`) | centroid and radius of every block of rows | find the largest logit without computing all of them | the schedules, the head kernel |
| Hybrid layer states | `qwen35_runtime.rs` (`Qwen35LayerState`) | convolution window and recurrent matrix, or key/value rows | decode, prefix and subset drafting, snapshot, restore, reset | the hybrid runtime, the attention kernel |
| Hybrid programs | `runtime.rs` (`run_gguf_resident`), `bin/si-qwen35-*-probe.rs` | prompt, window, best result, outputs of the runs | generate, speculate, extrapolate, Jacobi, compare | the hybrid runtime |
| Hybrid weights | `model.rs` (`parse_gguf`, `GgufModelStore`), `qwen35_runtime.rs` | ranges of the tensors, weights kept from the start, packed runs of a staged layer | choose where a projection reads | the hybrid pipeline, the projections |
| Model store | `model.rs` (`ModelStore`) | mappings, a range for every name | open shards or one packed file, read, close | the dense runtime, the packer |
| Read-ahead worker | `model.rs` (`Prefetcher`) | bounded queue | submit a hint, advise, join | the model store, the kernel |
| Dense weight sources | `runtime.rs` (`MetalQwen3::new`, `matvec*`, `forward_*`) | resident weights, retained layers and head, switches | choose where every traversal reads every weight | the store, the stager, the projections |
| Layer planner | `planner.rs` | a trace, what it leaves in Metal memory | plan layers into a budget | the dense runtime's list of layers; `plan_layer_stream` is called by no program |
| Projections | `metal.rs` | none beyond a command | choose a kernel, groups and threads, dispatch, wait | both runtimes, the GPU |
| Layer kernels and mixers | `metal.rs`, `qwen35.rs`, `runtime.rs`, `qwen35_runtime.rs` | the buffers of a layer | norms, rotation, attention, convolution, delta recurrence, on the processor and chained | both runtimes, the KV cache, the layer states |
| Weight codecs | `quant.rs`, `metal.rs`, `bin/si-lossless-probe.rs` | bytes | decode blocks, widen halves, encode tiles, runs and planes | the projections |
| Quality, telemetry, tokenizer, command line, upload and accounting of buffers | the rest | counters, reports | reports | all of the above |

What is hard: the schedules move a position, three sets of caches and the
logits along ten different paths, by different amounts, near limits that cut a
window short; staging threads finish in any order, fail or panic while results
are matched to layers only by the order they are taken in; a failed call leaves
state behind that the next one meets; truncation leaves dead rows in place; a
file is rewritten in place; a recurrent state cannot be cut back as a cache can;
an approximate search must still find the exact maximum; a kernel, its groups and
its threads are chosen apart under five switches and have to fit each other; six
functions look for a weight among resident, retained, staged and mapped ones, each
in its own order, under nine switches; a GPU command may be under way when the
function that awaits it is left with an error; the same bytes are decoded by the
processor front to back and by kernels at any column; a plan's sums overflow at the
budget's edge. `PROJECT.json` lists these hazards, each at its line.

What makes a component correct: a cache is a bounded sequence of entries; a
schedule's output is the greedy output; a traversal leaves in every layer the rows
of the committed tokens; a layer runs with its own weights and no more of them are
resident than the bound says; a state after any calls is the one the same tokens
leave one by one; a packed file that opens is the model's; a head search returns
the argmax; a projection multiplies every weight once, a traversal reads every
weight once, and every reader decodes it alike; a mixer computes what the reference
does; a probe accepts only the model's own continuation. Section 2 says which
module states each of these.

## 2. Modules

| Module | Models | Abstract specification |
|---|---|---|
| `KvCache` | every operation of `KvCache` on the flat array | `TokenLog`: each cache is a bounded sequence of entries, an operation takes effect as a whole or not at all |
| `Speculation` | `run_resident` and every schedule, drafter and verifier | `GreedyOutput`: the greedy path, token by token, in every repetition |
| `TargetModel` | `MetalQwen3`: forwards, candidate caches, trees, Jacobi loops, commits | `VerifiedLog`: a log that grows by the model's greedy continuation and is cut back |
| `WeightStager` | the stager, its worker, the layer loop that feeds it, its asynchronous commands | - |
| `Qwen35Stage` | the hybrid runtime's pipeline and its threads | `LayerStack`: every layer absorbs the tokens of a call in depth order, once |
| `GgufWeights`, `Qwen35Weights` | where the hybrid runtime finds the bytes of a weight; the pipeline with the file and the settings of a process | the payload of the tensor in the file |
| `HybridState` | the states of the hybrid layers and every call that changes them | decoding the same tokens one by one, as an operator |
| `HybridDrivers` | the generation and the probes, as programs over `HybridState` | the model's choice after the same tokens |
| `HeadIndex` | `OutputHeadIndex` | the argmax of all logits |
| `DenseWeights` | the dense runtime's switches, stores of kept weights, and what each traversal reads | every weight needed, once |
| `LayerPlanner` | `PlannerTrace::record`, `plan_sequential_layers` | - |
| `ModelShards`, `PackedCache` | opening a model from its shards; `pack_model_execution_order` and `open_packed` | the tensors of the model |
| `ReadAhead` | the read-ahead of an open store, its worker and its end | - |
| `ProjectionKernels`, `Projections` | the projection kernels and the calls that dispatch them | the bag of products of a row |
| `LayerKernels`, `LayerMixers` | the kernels between the projections; the token mixers that chain them | the references of `qwen35.rs` and the processor's attention |
| `WeightCodecs` | quantised blocks, halves and lossless encodings, as decoded by every reader | the first reader, or the words encoded |
| `StorageProofs`, `SpeculationProofs`, `TargetModelProofs`, `HybridProofs`, `DenseProofs`, `Qwen35StageProofs`, `WeightStagerProofs`, `ProjectionProofs` | theorems | |
| `MC...` | constants for TLC; `MCMetal` and `MCDenseWeights` also join parts that never meet within one behaviour | |

`Speculation` sees the target as a committed token sequence that only a verified
window extends; `TargetModel` implements that promise (`VerifiedLog`) with one
cache per layer, and `KvCache` says what one of those caches does with its array.
`Qwen35Stage` says with which weights a layer of the hybrid model runs,
`HybridState` what the layer then does to its state, and `HybridDrivers` which calls
the programs really make. `Qwen35Weights` composes the pipeline with `GgufWeights`,
`ReadAhead` the packed file with the store that reads it, `LayerPlanner` the plan
with the reads of `DenseWeights`. `DenseWeights` decides where a weight is read,
`WeightStager` when a staged one arrives, `WeightCodecs` what its bytes mean and
`Projections` what is multiplied.

### KvCache

One element of `cells[c]` is one row: `head_dim` contiguous floats of the key
array and the same row of the value array. The two arrays are always treated
alike, so one array stands for both. A row's content is a member of `Row`; a row
never written (zeros in the code) is `Zero`. `RowIndex` is the layout `[kv_head,
token, head_dim]` divided by `head_dim`; the storing operations write through it
and `Active` reads through it, so a wrong stride shows. `append_sequence` is one
step: it checks the room for the whole sequence before its first write, so the
per-token appends inside cannot fail. The shape errors of wrong slice lengths are
not modelled: every entry has the cache's shape. `last` is a history variable that
carries the call and its outcome, so that the refinement also compares which calls
fail. Rust's borrow rules exclude a copy of a cache onto itself.

### Speculation

A cache is the sequence of tokens whose keys and values it holds. The target
model is known by `path`, its greedy path: after a prefix of the path `Predict`
gives the next token of the path, after anything else any token at all. A drafter
may propose anything that starts with the target's own greedy token, as every
drafter of the code does. `cfg` is one value of the environment that
`LookaheadConfig::from_env` accepts. An action is a branch of `decode_lookahead`:

- `Prefill`: `prefill` and `prepare_partial_draft` after `reset`;
- `GreedyStep`, `FallbackStep`, `NarrowStep`, `LookupMiss`, `MarginReject`: the
  five paths that take one canonical step;
- `ProposeLookup`, `ProposeTree`, `ProposeExternal`, `ProposePartial`,
  `ProposeSidecarTree`: the drafters, each with the tokens it leaves in its cache;
- `Verify`: `verify_many`, `verify_tree`, `assess_verification`, the rollback of
  the draft caches, the automatic fallback, the dynamic width;
- `Emit`, `Correct`, `Extend`: what follows a verification;
- `FinishRun`: the next warm-up or repetition, with the same caches.

A check that fails (`Fits`, a truncation into the future, a missing option) leads
to `pc = "error"`. Of a candidate tree only the branch that is selected and
committed is modelled. The margin test of the sidecar scorer may reject at its
first candidate; rejecting later leaves more tokens in the draft cache, which the
next truncation discards.

### WeightStager

`pc` follows `forward_token_hidden` from one stager call to the next. The request
channel holds at most one request, the result channel is unbounded, a group is a
layer and a kind. `fits` is the set of kinds the budget has room for; for the
supported models gate and up projections are larger than query, key and value, so
`Budgets` leaves out `{"gate_up"}`. This is an assumption: with such a budget the
projection that was never requested would take the result of the other and stop
with an order error. `previous` is a history variable. The worker may fail a read
or panic for want of memory (`Die`, without fairness); Metal work may fail.

A submitted command owns the staged bytes the GPU reads, and nothing waits when it is
dropped (`PendingMatvec`). Between submitting and waiting the layer loop makes a
request of the stager, whose error would leave the function and drop the command.
`NothingAbandoned` says that it never does: the request can only fail when the worker
is dead, and the worker that has just delivered the staged group cannot die before it
is asked again.

### Qwen35Stage

Weights are known by their layer. `handle[k]` is the layer the handle `next`k
stands for, `thread[l]` the state of the scoped thread that reads layer l. A
thread ends with success, an error or a panic. `Close` is the end of
`thread::scope`: it waits for all threads, and panics if one panicked without
having been joined. A block may fail before or after it has updated its layer's
state.

### GgufWeights and Qwen35Weights

A byte of the file is known by its position, a tensor by its layer, role and type.
`Opened` is what `parse_gguf` and the constructors leave: the ranges, each reaching
to the tensor behind it; the weights copied into host memory (`retain_prefix_layers`)
or kept in Metal memory (`retain_metal_profile`); and for every layer the runs that
a staging thread reads, merged over gaps of up to `Gap` bytes. `Grouped`, `Gated`,
`Down`, `Alone` and `ForMany` are the five ways a projection looks for its matrix, in
the code's order; a norm is taken from the file, and refused if its range is longer
than its shape (`f32_values`). A process is a file and its settings, chosen once. A file whose
alignment is not a power of two does not open; one cut short inside its last tensor
does, and the projection of that tensor is refused. A window refuses a matrix that is
not quantised.

### TargetModel

A hidden state is a term: its token and the rows its attention read, each with
the position it was rotated to. Two terms are equal only if the same rows in the
same order made them, so `CachesExact` and `AnswersExact` compare with
`Reference`, which forwards the tokens one at a time from an empty cache. Logits
are known by their hidden state, and `greedy` is the model. A traversal runs layer
by layer and may fail before any of them; a call is refused by the code's own
checks of consistency and room. Calls refused for their arguments alone change
nothing and are left out. `batchable` stands for a configuration without row
chunks and without a staging budget, the condition under which the code batches.
The first token of a window is the argmax of logits the caller holds: it is the
caller's to answer for, as in the code. `pool` is the candidate-cache pool; a
candidate taken from it is cleared by the prefix copied into it.

### HybridState

A vector is again a term. A call is small-stepped: the convolution, the recurrent
step and the attention of each candidate in each layer are steps of their own, as
the code updates a layer's state between two Metal calls either of which may fail.
After a failed call the callers only restore or reset, and so does the model; a
snapshot is taken of whole stacks. `log` and `depth` say what the state should be:
so many layers have absorbed exactly these tokens. Weights and staging threads are
left to `Qwen35Stage`. The reference decodes the same tokens with the same
operators one by one, so a fault both share does not show in it; that is why the
layout of attention rows has a property of its own (section 5).

### HybridDrivers

A program is a sequence of stages, each a call of `HybridState` or a look at logits;
`"free"` makes any call at any time. Logits are known by the hidden vector they are
of, and their argmax is chosen when it is first looked at, once and for all. The
speculating probes differ in where their candidates come from: the Jacobi probe has
its own iterates, an external drafter knows part of the vocabulary, the others propose
anything behind the target's choice. The generation runs several times with a reset
between. A program that meets an error stops.

### HeadIndex

The model row and the input have one column. The bound `centroid * input +
radius * |input|` keeps its shape; rounding is an error chosen freely within a
range in the centroid, in the bound and in every logit, and a logit may overflow.
`HeadAssumption` states what the margin must cover, which the code claims in a
comment. `Skip` and `Evaluate` are the two outcomes of a turn of the search loop;
the blocks come in the order of their bounds. `argmax` is modelled over the logits
in the order the blocks leave them.

### DenseWeights and LayerPlanner

`options` is what the command line asks for, `model` what the constructors make of
it: which switches exclude each other, what is kept, and whether the runtime is a
draft model. A call is a token, a prefix of the layers, a window or a tree; `reads`
lists what it has read so far, each read with its weight, its rows, where they came
from and whether the view began at a page. The order in which a function asks for
resident, retained, staged, chunked and mapped weights is the code's, function by
function, and so are the refusals. A read of a staged group is one read: how it
arrives is `WeightStager`'s matter. A draft model has only the residency, the
retained layers and, if asked for, shared memory.

In `LayerPlanner` a step records one action; an action that does not fit, or names a
tensor in the wrong state, refuses the plan. Sizes are natural numbers up to
`Largest`, the largest u64: the sum of a layer is checked before anything of it is
recorded. The actions retain, release and wait are recorded by nobody, and the
observed peaks are a report; both are left out.

### ModelShards, PackedCache and ReadAhead

A byte is known by where it comes from. A shard is a header, the entries behind it
and the bytes really there; a model opens when its index and its shards agree.  The packer creates, sets the length and
writes; it may be interrupted between any two writes and within one. One process
packs at a time, another opens the file and then reads through its mapping
whatever the file now holds. A file cut short under another process's mapping is a
signal, not a result, and is left out. The packer writes to the file and the
read-ahead reads nothing of it, so a behaviour has one or the other (`packing`).

A hint is a range of a file. `advise_layer_prefix` goes through the names of a layer
until its budget is asked for; a hint that finds the queue full is dropped, and
counts. Closing the store unmaps its files first and then takes the sender away: a
hint holds a handle of the file of its own and may outlive the mappings.

### ProjectionKernels and Projections

A dispatch names a kernel, its matrices, the number of groups and of threads. A
kernel is told by who works on a row: all SIMD groups of a threadgroup, one of
them, four of them, or each by itself; by whether it reads vectors of columns; and
by whether it sums two matrices. A SIMD group is in lockstep and is one step up to
a barrier; the groups run in any order. A sum is the bag of its products, so a
product missing, doubled or of the wrong row shows, and one from a column whose
input was not right is `Garbage`. A call is the list of its dispatches, built by
an operator with the name of the function; all calls are explored under all
combinations of the four environment switches that choose kernels and threads.
The row-block kernels of staged groups have a constant of their own,
`StagedBlocks` (section 5).

Left out: the order of float additions and the lengths a call compares before it
runs. That a row-block pipeline really allows
the threads asked for is assumed, as the code assumes it. The kernel with a SIMD
group per row computes some rows twice when it is given 512 threads; both
computations store the same sum.

### LayerKernels and LayerMixers

A number is a residue modulo a prime; sums and products are exact, and a square root,
an exponential or a sine is a fixed function that tells its arguments apart. Two ways
to compute the same polynomial agree, two different ones only by accident. What is
lost is rounding, and with it every statement about tolerances. A kernel is what one
thread makes of the memory, its buffers bound in the code's order; a dispatch runs its
threads upwards or downwards, which tells apart any two that touch the same number;
the parallel delta kernel runs its threads in every order between its barriers.
`LayerMixers` chains the commands of `gdn_token_mixer`, `attention_token_mixer` and
the dense attention, on the processor or as one chained command, over tokens that may
fail at any command, truncations and resets. In the gated and the separate dense path
the row is stored before the output projection, so a projection that fails leaves one
row more than tokens were answered; after a failure the session can only be reset, as
the callers that go on do.

### WeightCodecs

Bytes are numbers. The processor's decoders go through a block from front to back;
a kernel's accessor computes scale, quant and sign at one column. Half-precision
numbers are compared field by field. A matrix of BF16 words is packed tile by tile
into the bits that vary, by runs, or as byte planes, and read back by the probe and by
the bit-packed kernel. The bits that vary are a set: a bit stands behind those below it
(`Index`), and every word takes as many (`Cursor`). The bytes of a quantised tensor are a
constant, any sequence of the length `dequantize_*` checks. The decoders refuse what the
code refuses: a bit-packed stream that contradicts its header, half a pair or a run of
no words, an odd number of plane bytes; `ReadersAgree` says that none of this happens to
a stream of the encoder. zlib is external: what it decompresses is what it compressed.

## 3. Runs

| Run | Bounds | Shows |
|---|---|---|
| `kv_cache` | three caches: two heads and capacity 2, two heads and capacity 1, one head and capacity 1; two row values, one token per append | the layout under all interleavings of all operations; copies between different strides in both directions; copies across shapes refused |
| `speculation` | three tokens, prompt 2, 6 new tokens, a context of exactly 8, widths 2, 3 and 5, depths 2 and 3, four greedy paths, two runs | every combination of options `from_env` accepts except the plain Jacobi one; the end of the context, of the output and an end-of-sequence token each fall inside a window, at its edge and outside it |
| `jacobi_control` | the same, without a drafter | violated: see section 5 |
| `target_model` | two tokens, two layers, a context of 4, windows and trees of up to 4 candidates, 3 Jacobi iterations, a model that depends on more than the last token | forwards, windows, trees, loops, truncations, resets and failures in any order; two layers are the least for a failure between layers |
| `qwen35_stage` | five layers, depths 0, 1, 2 and a setting past the largest, 3 tokens, windows of 2; five files, six processes | handles are passed on, run out at the last layer, and fail at every position; layers in one run and in two, matrices and norms with and without padding, every store of kept weights, a file cut short and one that does not open |
| `weight_stager` | three layers, every budget and both dispatch modes | a first, an inner and a last layer; a failure in any forward, the forward after it, and the one after that; an error between a command's submission and its wait |
| `packed_cache` | ten models, four of which do not open: one that needs padding, one that does not, one with the same names and lengths as the first, tensors too many and too few, in two shards, in the wrong one, past the file's end; a queue of two, budgets 2 and 4 | every interruption, packing over an older file, opening for another model; a queue that is full, a budget that ends inside a tensor, a name that is unknown, a store dropped with requests waiting |
| `hybrid_state` | a delta, an attention and a delta layer, two layer subsets, two tokens, convolution of 3, capacity 4, windows of 3, free calls up to three tokens; prompts of one and two tokens, three rounds | every call of any caller, failing at every step; snapshots of earlier logs; a full cache inside a window; every program to its end |
| `hybrid_rows` | the same layers with two key-value heads, capacity 2 and two tokens | violated: see section 5 |
| `metal` | projections: SIMD groups of 2 lanes, 2 groups to a threadgroup, rows 1 to 3, 3 and 6 columns, two inputs, pipeline limits 3 and 8, every switch. Mixers: residues modulo 251, two inputs of 2 numbers, heads of 4 with 2 rotated, 1 key and 2 value heads, 3 taps, 4 query and 2 key-value heads, room for 2 of 3 tokens. Codecs: four contents of two blocks each, 20 halves at the boundaries, six matrices of six words with 1 to 3 columns and tiles of 1 to 3 rows | every call; last row blocks full and not, row lengths that divide by the stride, the vector and the block and that do not, a limit that is no multiple of a SIMD group; a full cache, a convolution window longer than the tokens fed; every column of a block; values that straddle bytes and end in the last one |
| `staged_row_blocks` | the projections, with staged row blocks | violated: see section 5 |
| `dense_weights` | head: five rows in blocks of two, weights -4, 0 and 3, inputs -1 and 2, logits off by one. Sources: two layers, no chunks or chunks of 2 or 7 rows, no retained layer, one, or more than there are, windows of 1 and 3, pages of 4 rows, every switch. Plan: tensors of 0, 1 and 3, budgets 0 to 30 where 30 is the largest integer | a last block that is not full, rounded means, ties, overflow, blocks left out on either side of the best; chunks shorter and longer than a matrix, views inside a page, options that are refused; a plan that just fits, one that does not, a sum that overflows |

Two heads and two strides show every way in which one head can run into another.
Five layers hold every look-ahead that is explored and the layers behind it; the
theorems about the pipeline hold for any number and any setting. In
`speculation` the context is exactly prompt plus output, the tightest value
`run_resident` lets through, so every window near the end is cut. The width from
which the sidecar proposes a tree is 8 in the code and 4 here, between the widths
explored. Two runs show what one leaves in the caches of the next. In the head
the bound itself is exact (`BoundError = 0`) and the margin covers the kernel; the
theorem has both errors. In `hybrid_state` a window holds three candidates where the
code allows eight: the first, one that sees another, and one that sees two. In the
projections the widths 32, 4 and 256 are 2, 2 and 2; the rows are at most one and a
half blocks. A mixer has one key-value head in the hybrid model, because with more
`hybrid_rows` fails; the dense attention has two. The codecs are not scaled down:
blocks and words have their real sizes.

Deadlock is checked in every run: `Exited`, `Dead`, `Dropped`, `Done` and
`Returned` stutter in the states in which the program has really stopped.

### Fairness

`Speculation` is one thread that runs its loop: weak fairness of the next-state
relation. In `WeightStager` and `Qwen35Stage` a call that was begun keeps running
(weak fairness of the main thread's steps inside a call) and so does a thread that
was started (weak fairness of each). In `ReadAhead` the worker keeps running (weak
fairness of `Worker`: it does nothing but receive and advise, and `recv` returns when
the sender is gone) and a call of the store ends (weak fairness of `Caller`: a loop
over the names of one layer). Nothing is assumed about when a caller calls,
resets or drops, nor that reads succeed or that a thread never panics. The other
modules state safety only and assume no fairness.

## 4. Proofs

`StorageProofs` proves, for any number of caches, any head counts, capacities,
rows and append bounds, from `KvCacheAssumption` alone (the dimensions are
positive, as `KvCache::new` enforces, and an unwritten row is told apart from a
written one):

- `TypeCorrect`: `Spec => []TypeOK`;
- `RowsWritten`: `Spec => []ActiveRowsWritten`;
- `Refinement`: `Spec => ImplementsTokenLog`.

The argument: `RowIndexInRange` and `RowIndexInjective` say that the layout has
room for every head and token and that no two share a place. `StoredRow` follows:
after a copy each row holds the entry copied onto it or what it held before. The
invariant is `IInv == TypeOK /\ ActiveRowsWritten`: `TypeOK` is not inductive
alone, because a prefix copy stores what it reads, and what it reads is a row only
if the source's active rows were written. `StoreStep` shows that a store behind
part of the active prefix keeps the invariant, extends the sequence and leaves the
other caches alone; `AppendStep`, `CutStep` and `CopyStep` lift each operation to
the abstract one, `StepImplements` collects them.

The second half of `StorageProofs` is about the file: for any models, shards, index,
order of tensors, header length and alignment, any interruption and any budget, from
`ShardsAssumption`, `PackedAssumption` (the names of an execution order are distinct),
`ReadAheadAssumption` and `NoneAssumption` (no file and no reader is the value that
stands for none), it proves `PackingExact` (`CompletedExact`), `NothingForeign`
(`NeverForeign`) and `ReadAheadExact` (`HintsExact`). All three need to know what is in
the file between two writes. `StoreInv` says so: there is no file, an empty one, or one
that holds the first n bytes of one model's packed file and zeros behind (`FileKnown`,
`Written`); a packer that writes stands where its last chunk ended (`PackerState`); the
header of the file a reader opened is still there unless the reader is stale
(`ReaderState`); and the worker has nothing to do when there is none (`WorkerState`,
`AskedState`). That chunk after chunk the writes make up the packed file is
`FlattenParts`: the sums of the lengths before each write are a recursive function
(`Sums`), and where it goes wrong there would be a least place where it does.
`OverwriteIs` takes a write, or the part of it that reached the disk, from `Written(m, n)`
to `Written(m, n + k)`; `OneOwner` says that the first byte of a header tells whose file
it is, so a reader's model and the packer's can be compared; `TensorRead` is what a
reader then sees.

`SpeculationProofs` proves, for every vocabulary, path, prompt, output length,
context, width, depth and set of options, from `SpeculationAssumption` alone:
`TypeCorrect`, `Lossless` (the output is a prefix of the greedy path),
`CommittedExactly` (what the target holds), `Aligned` (what the drafters hold),
`Progress` (a verification accepts at least the target's own token), `WidthGrowth`
(the dynamic width grows only after a whole window was accepted) and
`RefinesGreedy` (every step emits one token of the greedy path, ends a repetition,
or changes nothing `GreedyOutput` sees); and `NeverFails` under the further
assumption that no configuration is the plain Jacobi one. The
output alone is not inductive. `IInv` adds what holds at each place of the loop:
`AtHead` (caches and position agree with the output), `Proposed` (a proposal
starts with the target's own token and fits its window), `Verified` (what was
accepted follows the path), `Finished`. `LeastElement` and `AcceptedFollow` say
what the assessment of a window yields: the accepted candidates are the longest
prefix that follows the path. `HoldsExtend` and `CanonicalStep` lift that to the
caches, one `...Keeps` lemma per action shows that it keeps `IInv`, and
`StepKeeps` collects them.

`TargetModelProofs` proves, for any model, any number of layers, any context, batch
and number of iterations, from `TargetAssumption`: `RowsExact` (`CachesExact`: no
cache ever holds a row that a one-by-one forward would not have put there),
`LogitsExact` (`AnswersExact`), `Verified` (`VerificationExact`), `Jacobi`
(`JacobiConverges`), `TypeCorrect`, and `Refines`, which is the whole of
`ImplementsVerifiedLog`, as that property contains no fairness. None of the
properties is inductive: between two layers of a traversal some caches hold the
tokens of the call and some do not, and after a failure they stay like that. `IInv`
says, layer by layer, what is held: between calls a prefix of the same tokens in
every layer, no longer than in the layer before (`Holds`, which a failure between two
layers leaves true); while a token is forwarded, that token too in the layers passed
(`TokenPass`, `Partly`); in a window or a tree, nothing new in the caches, the
candidates of a branch in the work caches of the layers passed (`BatchPass`,
`WorkExact`). It says further that the hidden states handed from layer to layer are
those of the reference (`HiddenExact`), that the pool stays within its limits
(`PoolFits`), and that the first candidates of a Jacobi window follow the model, one
more with every pass (`Converged`). One `...Keeps` lemma per action shows that it keeps `IInv`; the
action properties and the refinement follow from what the last step of a call finds.

`HybridProofs` proves, for any number, kinds and subsets of layers, any capacity,
window and convolution width, from `HybridStateAssumption` and `HybridDriversAssumption`:
`StatesCorrect` and `AnswersCorrect` (`StatesExact` and `AnswersExact` under every
caller), the same two under the programs, `AcceptedCorrect` (`AcceptedGreedy`),
`JacobiCorrect` (`JacobiSettles`) and `RunsCorrect` (`RunsAgree`). The invariant of the
states, `IInv`, knows the middle of a call: for some m, `RunExact(m)`
says that m layers have run and hold the log and the tokens of the call, that those
behind hold the log only, that the running one holds the candidates before the
current one, half a step included (`AtWork`), and which vectors are on their way
between them; further, that a convolution window keeps its width (`Shaped`) and that a
snapshot is the state of an earlier log (`SavedExact`). The invariant of the programs,
`DInv`, adds `Always` (a choice once made stays, and what was accepted follows the
model while the first refused candidate does not) and `Stages` (for each stage of each
program: which tokens the runtime holds, whose logits the program has in hand, and, for
the Jacobi loop, that as many tokens of the window follow the model as there were
rounds). That two runs agree is then uniqueness: both follow the model from the same
prompt (`FollowSame`, `GeneratedSame`).

Both proofs compare with a reference defined by recursion (`Reference`; `Sequential`, `Through`). A recursive function is a solution
of its equation only if there is one. That there is, for every number of layers and
tokens, is shown by taking the least number for which there would be none
(`LeastElement`, in each of the modules); what has to hold for all arguments is shown the
same way. This takes none of the library's induction theorems.

`DenseProofs` has three parts. The first proves, for any number of rows, any blocks,
weights, inputs and errors the margin covers, from `HeadAssumption`: `IndexExact` (the search returns
an argmax), `TypeCorrect` and `FirstSkipEnds` (no block is evaluated after one
that was left out). `IInv` says that the bounds hold for the rows of their
blocks (`Radius`, `Blocks`), that what was skipped is below the best, and that
after a skip the rest is hopeless.

The second proves, for any number of layers and rows, any chunk, number of retained
layers, window and page, from `DenseAssumption`: `DenseReadsOnce` (`ReadsOnce`) and
`DenseSources` (`SourcesHonoured`). Neither is inductive, as both speak of reads that
were made without saying which are left. `DenseInv` says how the configuration limits
itself (`ModelInv`: which switches exclude each other, what is kept where) and, between
two projections of a call (`RunInv`), that the projections left name weights of later
places than those read (`Ordered`, `Ahead`), that each of them, carried out, reads
its weights whole and once (`MadeFor`), and that every weight needed is among those left
or has been read (`Pending`, `WasRead`). That a
projection does so is one lemma for each of the six functions of the runtime that
choose between sources: for chunks it is division with remainder, for a view of the
mapping that a page begins at or before every row.

The third proves, for any number of layers, sizes and budgets, from `PlannerAssumption`:
`PlanExact` (`PlanCovers`). `PlanInv` knows how many of the 23 actions of the layer have
been recorded (`Following`), hence which tensors are in memory (`Held`), that the peak
is reached by some layer and is no smaller than any finished one, and which layer an
execution in the trace belongs to (`Before`). That a size is a sum that does not
depend on the order of its terms, and grows with them (`SumWithout`, `SumOfPart`), is
proved by the least number of elements for which it would not hold.

`Qwen35StageProofs` proves, for any number of layers, any setting of the depth and
any windows: `StagedRight` (the layer that runs has its own staged weights),
`AheadFilled` (the handles stand for as many layers behind it as the depth asks
for), `Bounded` (no more of them are resident at once), `TypeCorrect` and `Implements`
(every step is a step of `LayerStack` or changes nothing it sees). None of the three
is inductive: the handles are passed from `next3` to `next2` to `next1`, so which
layer a handle stands for has to be known in every place of the loop and after every
failure. `IInv` adds `Calls` (what the place in the program says about the call),
`KeptLayer` (layer 0 is kept between calls only by the pipeline, and used up by the
next decode), `StagedInHand` (the staged layer is the running one), `HandlesStand` (handle
k stands for the layer k ahead, and no other thread is outstanding), `NothingHeld`
(outside the loop there are no handles and no threads) and `HasRoom` (the layers still
to run have room for the tokens of the call).

The second half of the module proves the weights themselves, for every file that opens
and every choice of what is kept, from `GgufAssumption` (sizes are numbers, a file has
finitely many tensors, no two of which begin at one place) and `ProcessesAssumption`
(every layer has tensors, as `qwen35_layer_kind` demands): `QwenWeightsExact`
(`WeightsExact`), `QwenStagedOnce` (`StagedOnce`) and `PipelineAlone` (the pipeline with
weights is the pipeline without, so all of the above holds of `WSpec` too). A process
keeps what it was opened with (`OpenedOnce`), which makes the two invariants statements
about files. `DataAre` says that the ranges of a file are disjoint and lie in the order
of the offsets, `ByStartIs` that sorting by offset yields every tensor once, in order
(an injection into as many ranks is onto), `CollectingIs` what the runs of the first i
tensors are (`Collected`: each of the tensors is inside a run, and a position of a run
is in one of them or in a small gap between two neighbours), `PackingIs` where a run
lies in the packed bytes. `StagedExact` follows: what is cut out of the packed layer is
the tensor as it is in the file. `StagedNear` follows from the other direction: a
position of the packed layer that is of no tensor of it is in a gap, and a longer
tensor does not fit there. `CollectingIs` and `PackingIs` go by the least number of
tensors, or of runs, for which they would not hold.

`WeightStagerProofs` proves, for any number of layers and every budget:
`OneUnderWay` (at most one request is unanswered), `OrderIsKept` (the order check fails
only in the first forward after a failed one), `IdleIsClean` (a token that was finished leaves nothing
staged and nothing under way) and `TypeCorrect`. `IInv` is `TypeOK` with `OneWay`
(one group at most is on its way, in one of three places, and the flag agrees with
the channels), `Position` (what is in hand and under way at each place of the loop)
and `OrderKept`. `CommandsAwaited` proves
`NothingAbandoned` from one more invariant, `Alive`: while a command is under way and
a request may still be made, the worker is up. It is relative to `IInv`, which knows
the places of the loop.

The same module proves, for all contents of quantised tensors, all halves, all
matrices of BF16 words and all tile heights, `AllReadersAgree`, `ReadersAgree` of
`WeightCodecs`: whoever decodes the bytes that were staged takes the same numbers.
`CodecInv` has one part for each format. `BlocksRead`: the processor has decoded whole
pieces, and every element of them is what the kernel computes at its column (`Q4Agree`,
`Q5Agree`, `Q6Agree`, element by element, and `PieceAgrees`). `HalfRead`, with
`HalfAgree`: for every half the fields of the float are those of the same number, also
where a subnormal one is normalised. `PlanesRead` and `RunsRead`: the inverse of what is
encoded accepts it and gives the words encoded so far. `TilesRead`: the offsets cut the bytes into the
encodings of the tiles packed so far (`Packs`). In an encoded tile the bit at the
cursor of a varying bit is that bit of its word (`PackedAt`); so decoding the tile gives
its words (`Decoded`), and the three bytes out of which a kernel cuts a value contain
all of it, wherever it begins (`CutOutIs`). The lemmas under these are about numbers
and their bits: what `Number` makes of a set of bits has those bits (`NumberBits`), and
a shift moves them (`BitShifted`).

`ProjectionProofs` proves, for all lane, group and block sizes, all row counts and row
lengths, all calls and all switches: `AllMeet`, `BarriersMeet` (no SIMD group waits at
a barrier that another one has left the kernel without reaching), `AllStoresInside`,
`StoresInside`, and `AllHandedOverExact`, `HandedOverExact`. `IInv` is `TypeOK` with
`Meeting`, which says that the SIMD groups of a threadgroup are all before the barrier
or all past it, and that those without a row return together. `ExactInv` adds what the
sums need. `Underway`: the dispatches of the call are well formed, that is, `RowsFit`
(enough threadgroups for the rows, and the threads their kernel counts on) and `Fed`
(a dispatch reads the caller's vectors or all of an earlier output). `PartialsExact`:
a SIMD group past its sum has left in the memory of its threadgroup the products it
reaches, each once. `LeadersHaveRows`; `RowsWritten`: a done group that stores has
stored; `EarlierWhole`: the dispatches behind are whole; and `StoresInside` itself,
which the second dispatch of a fused block needs of the first. The lemmas under it are
about the kernels: of the SIMD groups that share a row exactly one lane reaches a
column, under every stride (`VisitsAre`, `OneReaches`); a row of a concatenation lies
in one matrix (`RowLies`); every cell has a row and every row a SIMD group that stores
it (`CellFound`, `RowLed`); the fold of the bags of the lanes is the bag of their
products (`SimdSumIs`, `LeadTotalIs`); and every call that `Calls` has is well formed
(`CallsFormed`, one lemma for each function of `metal.rs`). `AllHandedOverExact`
assumes that staged groups do not go through the row blocks (`StagedBlocks = FALSE`):
with them it is false (section 5), and `Covered` says where.

The type invariants are only proved, not run: each is proved by a theorem named
`TypeCorrect`, or as a part of `IInv`. `Progress`, `WidthGrowth`, `FirstSkipEnds` and
`IdleIsClean` state definitions that no run checks; the proofs are the stronger
statement.

Only model-checked: `MixersExact`, whose kernels are
chains of folds. What a recursive function, a flattened sequence or a fold over a set
holds is within reach (by the least element for which it would not hold, as above),
but takes a lemma for each of them. Liveness (`ImplementsGreedy`,
`ImplementsLayerStack`, `ForwardsReturn` and `DropEnds` contain fairness) stays with
TLC; TLAPS does not handle it. `RefinesGreedy` and `Implements` are the safety parts
of the first two.

## 5. Where the code disagrees with its documentation, or with itself

`jacobi_control`: `README.md:141-150` of the repository runs
`SI_LOOKAHEAD=1 SI_LOOKAHEAD_WIDTH=8 SI_LOOKAHEAD_ITERS=2` with no drafter as the
Jacobi control. In `decode_lookahead` the branch that asks for retained draft
layers is taken whenever no sidecar is configured (`runtime.rs:3819`), so this
schedule stops with an error in its first pass of a window of two or more, and the
call of `lookahead_step` behind it is unreachable. (`TargetModel` models
`lookahead_step` as a function of its own.)

`hybrid_rows`: the hybrid runtime stores the key and value of a token at
`cached_tokens * kv_width`, token after token (`qwen35_runtime.rs:856` and
`1191`), while `si_attention_decode` reads head after head
(`metal.rs:1707`), the layout `docs/SI-002-direct-metal-runtime-spec.md:60-63`
prescribes with the words "Unused capacity slots are never read". With more than
one key-value head, and these models have four, they are.

`staged_row_blocks`: `gguf_quant_matvec_many_bytes` (`metal.rs:4983`) starts the
row-block kernel of `SI_QK_ROWS4X128` with at most 128 threads, where the comment
at the kernel (`metal.rs:432-434`) and the other callers have 512. Only the first
row of every block of four is then computed. It takes `SI_GROUP_STAGED` as well
(`qwen35_runtime.rs:484-500`).

Smaller things met while modelling, none of which breaks a property, because the
properties say what the code does:

- A retained output head makes `matvec` ignore retained layers, and the fused, batched
  and chunked projections of a token and the chained attention ignore them always; a
  layer that was paid for with memory is then read through the mapping. This is why
  `SourcesHonoured` makes an exception.
- `--chunk-rows` bounds neither the chained attention nor the blocks of the exact head
  search.
- `SI_STAGE_MIB` together with resident Metal weights still stages every group from
  the file.
- With `SI_STAGE_PIPELINE` but without `SI_GROUP_STAGED=1` the grouped query, key and
  value projections read the mapping although their layer was staged.
- A quantised tensor with padding behind it is refused where its bytes were kept,
  staged or taken in a batch, while a mapped view of it works.
- The repository's `README.md` documents `SI_GPU_QKV_PREP`, `SI_CHAIN_LAYER`,
  `SI_CHAIN_MLP`, `SI_SERIAL_MATVEC`, `SI_SCRATCH_POOL` and `SI_MULTIROW_MATVEC`; the
  code reads none of them.
- `gguf_quant_matvec_many_tensors` (`metal.rs:4532-4579`) alone of the quantised calls
  does not refuse a row length that is no multiple of 256, or no rows; it would leave
  out the last columns. The quantised formats know whole blocks only, so `Projections`
  explores no such matrix.
- The bit-packed kernel's cursor is 32 bits wide, which limits a tile to 2^32 bits;
  the host does not check it.

## 6. Not modelled, and the plan

Not modelled: quality metrics (`quality.rs`) and process telemetry, which are
functions of a finished output; the tokenizer; argument parsing, reports and the
one-shot probes of single kernels, which hold no state a decoder reads; the decoding
of JSON and of GGUF metadata; the arithmetic of the resident sidecar scorer, of which
`Speculation` keeps only the decision; upload, mapping, counters and memory peaks of
Metal buffers; rounding everywhere but in the head search.

Next, in this order:

1. A proof of `MixersExact`: that the threads of a dispatch, in either order, make
   of the memory what the reference makes of its vectors.
2. The rest of the Metal host: upload and embedding rows,
   `gguf_matvec_tensor_rows`, what a command keeps alive, the counters and peaks.
3. The quality driver (`evaluate_quality`) over `TargetModel`, which feeds a reference
   output through the same caches.
