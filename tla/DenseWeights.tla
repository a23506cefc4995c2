---------------------------- MODULE DenseWeights ----------------------------
(***************************************************************************)
(* Where the dense runtime (MetalQwen3 of src/src/runtime.rs) finds the    *)
(* weights of a projection: in private memory, in a staged group, or       *)
(* through the mapping of the file, whole, by chunks of rows or by blocks  *)
(* of the output head.  Nine switches and three stores of kept weights     *)
(* decide, in six functions that each look in their own order.             *)
(*                                                                         *)
(* A behaviour starts the runtime as run_resident does and then traverses  *)
(* the layers with a token, a prefix of the layers, a window or a tree.  A *)
(* weight is known by its layer and its part; what is multiplied with its  *)
(* rows is in Projections, when a staged group arrives in WeightStager.    *)
(***************************************************************************)
EXTENDS HeadIndex, SequencesExt

CONSTANTS
  Depth,    \* layers of the model
  Chunks,   \* values of --chunk-rows explored, 0 for none
  Retains,  \* values of --retain-layers explored, 0 for none
  Widths,   \* sizes of windows and trees explored (up to eight)
  Page      \* rows to a page of memory

ASSUME DenseAssumption ==
  /\ Depth \in Nat \ {0}
  /\ Chunks \subseteq Nat /\ 0 \in Chunks
  /\ Retains \subseteq Nat
  /\ Widths \subseteq 1..8
  /\ Page \in Nat \ {0}

VARIABLES
  options,  \* what the command line asks for
  model,    \* the runtime: its switches and the weights it keeps
  call,     \* the traversal under way
  todo,     \* its projections that are left
  reads,    \* the reads of weights it has made
  step      \* where the caller is

dense_vars == <<options, model, call, todo, reads, step>>

Parts == <<"q", "k", "v", "o", "gate", "up", "down">>
LayerWeights(count) == (0..(count - 1)) \X {Parts[i] : i \in DOMAIN Parts}

(* The tied embedding and output head, numbered behind the layers.         *)
Embed == <<Depth, "embed">>

Qkv(l) == <<<<l, "q">>, <<l, "k">>, <<l, "v">>>>
Attention(l) == <<<<l, "q">>, <<l, "k">>, <<l, "v">>, <<l, "o">>>>
GateUp(l) == <<<<l, "gate">>, <<l, "up">>>>

-----------------------------------------------------------------------------
(* A read multiplies rows of a weight with some vectors at once.           *)
Read(w, rows, from, vectors) ==
  [weight |-> w, rows |-> rows, from |-> from, vectors |-> vectors]
Each(weights, from, vectors) ==
  [i \in DOMAIN weights |-> Read(weights[i], Row, from, vectors)]

(* Weights that were uploaded, and the bytes of a staged group.            *)
Buffers(weights, vectors) == Each(weights, "kept", vectors)
StagedBytes(weights) == Each(weights, "staged", 1)

(* A row of a weight in the file, behind the header.                       *)
Place(w, r) ==
  LET rank == IF w = Embed THEN 0
              ELSE 1 + w[1] * Len(Parts) + CHOOSE i \in DOMAIN Parts : Parts[i] = w[2] IN
  1 + rank * Rows + r

(* A fault for comparison: the view is read from where its page begins.    *)
ViewOfPage(start, count) ==
  [base |-> start - (start % Page), offset |-> 0,
   length |-> (((start % Page) + count + Page - 1) \div Page) * Page]

(* aligned_weight_range: whole pages around the rows, and where they are.  *)
View(start, count) ==
  [base |-> start - (start % Page), offset |-> start % Page,
   length |-> (((start % Page) + count + Page - 1) \div Page) * Page]

(* map_bf16_mapped_weight: count rows of w from the first, through a view. *)
MappedRows(w, first, count, vectors) ==
  LET view == View(Place(w, first), count)
      end == view.base + Min({view.length, view.offset + count})
      seen == (view.base + view.offset)..(end - 1) IN
  Read(w, {r \in Row : Place(w, r) \in seen}, "mapped", vectors)
MappedWhole(weights, vectors) ==
  [i \in DOMAIN weights |-> MappedRows(weights[i], 0, Rows, vectors)]

(* A fault for comparison: the chunks of full length only.                 *)
ChunkCountFull == Rows \div model.chunk

ChunkCount == (Rows + model.chunk - 1) \div model.chunk

(* bf16_matvec_tensor_chunked.                                             *)
Chunked(w) ==
  [i \in 1..ChunkCount |->
     LET start == (i - 1) * model.chunk
     IN  MappedRows(w, start, Min({model.chunk, Rows - start}), 1)]

Mapped(w) == IF model.chunk # 0 THEN Chunked(w) ELSE MappedWhole(<<w>>, 1)

(* OutputHeadIndex::search evaluates some of the blocks, the first always. *)
SearchedBlocks(blocks) ==
  LET k == SetToSeq(blocks) IN
  [i \in DOMAIN k |-> MappedRows(Embed, Min(RowsOf(k[i])), Cardinality(RowsOf(k[i])), 1)]
Searches == {SearchedBlocks(blocks) : blocks \in (SUBSET Block) \ {{}}}

(* A fault for comparison: an empty store of the head hides the layers.    *)
KeptHead == model.hot

(* The store matvec looks in: with a retained output head, only there.     *)
Kept == IF model.hot # {} THEN model.hot ELSE model.retained

(* matvec, as the set of the reads it may make.                            *)
Matvec(w) ==
  IF w = Embed /\ model.exact THEN Searches
  ELSE {IF model.resident # {} \/ w \in Kept THEN Buffers(<<w>>, 1) ELSE Mapped(w)}

(* The staging worker has the group, or it did not fit the budget.         *)
Staged(kind) == model.staging /\ kind \in model.fits

(* matvec_many_async: Some only where it may return before the GPU is done.*)
Submits(kind) ==
  /\ model.async /\ model.chunk = 0
  /\ IF model.staging THEN Staged(kind)
     ELSE model.resident # {} \/ (model.hot = {} /\ model.retained = {})

MatvecManyAsync(kind, weights) ==
  IF Staged(kind) THEN StagedBytes(weights)
  ELSE IF model.resident # {} THEN Buffers(weights, 1) ELSE MappedWhole(weights, 1)

(* matvec_many: fused, and batched, it does not look at what is retained.  *)
MatvecMany(kind, weights) ==
  LET one == [i \in DOMAIN weights |->
                IF model.chunk # 0 THEN Chunked(weights[i])
                ELSE CHOOSE made \in Matvec(weights[i]) : TRUE] IN
  IF Staged(kind) THEN StagedBytes(weights)
  ELSE IF model.resident # {} THEN Buffers(weights, 1)
  ELSE IF model.chunk = 0 /\ (model.fused \/ model.batch) THEN MappedWhole(weights, 1)
  ELSE FlattenSeq(one)

(* chained_attention_layer.                                                *)
ChainedAttention(weights) ==
  IF model.resident # {} THEN Buffers(weights, 1) ELSE MappedWhole(weights, 1)

(* matmul_many and matmul_many_fused: a group is kept as a whole or not.   *)
KeptTogether(weights) ==
  \/ model.resident # {}
  \/ \E store \in {model.hot, model.retained} : ToSet(weights) \subseteq store

MatmulMany(weights, vectors) ==
  IF weights = <<Embed>> /\ vectors = 1 /\ model.exact THEN Matvec(Embed)
  ELSE {IF KeptTogether(weights) THEN Buffers(weights, vectors)
                                 ELSE MappedWhole(weights, vectors)}

(* A resident matrix that is missing; a batch of chunked or staged weights.*)
Missing(weights) == model.resident # {} /\ ~(ToSet(weights) \subseteq model.resident)
Unbatchable == model.chunk # 0 \/ model.staging

-----------------------------------------------------------------------------
(* A projection of a traversal: the function called and its weights.       *)
Use(by, weights) == [by |-> by, weights |-> weights]

(* A layer of forward_token_hidden, and of the batched forwards.           *)
TokenLayer(l) ==
  (IF model.chain THEN <<Use("chained", Attention(l))>>
                  ELSE <<Use("qkv", Qkv(l)), Use("matvec", <<<<l, "o">>>>)>>)
    \o <<Use("gate_up", GateUp(l)), Use("matvec", <<<<l, "down">>>>)>>

BatchLayer(l) ==
  <<Use("many", Qkv(l)), Use("many", <<<<l, "o">>>>),
    Use("many", GateUp(l)), Use("many", <<<<l, "down">>>>)>>

Batched(c) == c.kind \in {"window", "tree"}

LayerUses(c) == FlattenSeq([l \in 1..c.layers |->
                  IF Batched(c) THEN BatchLayer(l - 1) ELSE TokenLayer(l - 1)])
HeadUses(c) == IF ~c.head THEN <<>>
               ELSE <<Use(IF Batched(c) THEN "many" ELSE "matvec", <<Embed>>)>>

(* The reads a projection may make.                                        *)
Reads(use) ==
  CASE use.by = "matvec" -> Matvec(use.weights[1])
    [] use.by = "chained" -> {ChainedAttention(use.weights)}
    [] use.by = "many" -> MatmulMany(use.weights, call.width)
    [] OTHER -> {IF Submits(use.by) THEN MatvecManyAsync(use.by, use.weights)
                                    ELSE MatvecMany(use.by, use.weights)}

Refuses(use) ==
  \/ Missing(use.weights)
  \/ /\ use.by = "many" /\ Unbatchable
     /\ ~(use.weights = <<Embed>> /\ call.width = 1 /\ model.exact)

-----------------------------------------------------------------------------
(* The command line and the environment.  A draft model has no switches of *)
(* its own but its residency and its retained layers, and only it may keep *)
(* its weights in shared memory.                                           *)
Switches ==
  [residency : {"streaming", "resident", "shared"}, chunk : Chunks,
   head : BOOLEAN, retain : Retains, exact : BOOLEAN,
   staging : BOOLEAN, fits : {{}, {"qkv"}, {"qkv", "gate_up"}},
   chain : BOOLEAN, fused : BOOLEAN, batch : BOOLEAN, async : BOOLEAN]
CommandLines ==
  {o \in Switches : /\ o.residency = "shared" => o.chunk = 0 /\ ~o.head /\ ~o.exact
                    /\ ~o.staging => o.fits = {}}

(* load_resident_weights, load_output_head and load_retained_layers.       *)
ResidentWeights == LayerWeights(Depth) \cup {Embed}
OutputHead == {Embed}
RetainedLayers(count) == LayerWeights(count)

NoCall == [kind |-> "none", layers |-> 0, head |-> FALSE, width |-> 0]

(* from_store_with_residency: the chain needs unstaged weights, and both   *)
(* staging and the chain fuse the projections.                             *)
DenseInit ==
  /\ options \in CommandLines
  /\ LET chain == options.chain /\ ~options.staging IN
     model = [resident |-> IF options.residency = "streaming" THEN {} ELSE ResidentWeights,
              hot |-> {}, retained |-> {}, exact |-> FALSE, chunk |-> 0, drafted |-> 0,
              staging |-> options.staging, fits |-> options.fits, chain |-> chain,
              fused |-> options.fused \/ options.staging \/ chain,
              batch |-> options.batch, async |-> options.async]
  /\ call = NoCall /\ todo = <<>> /\ reads = <<>>
  /\ step = "chunk"

(* run_resident configures the runtime, or gives up.                       *)
Configure(here, there) ==
  /\ step = here
  /\ step' = there
  /\ UNCHANGED <<options, call, todo, reads>>

SetStreamChunkRows ==
  Configure("chunk", "head") /\ model' = [model EXCEPT !.chunk = options.chunk]

SetRetainOutputHead ==
  LET refused == options.head /\ options.residency # "streaming" IN
  /\ Configure("head", IF refused THEN "ended" ELSE "layers")
  /\ model' = [model EXCEPT !.hot = IF options.head /\ ~refused THEN OutputHead ELSE {}]

SetRetainLayers ==
  LET refused == \/ options.retain > 0 /\ options.residency # "streaming"
                 \/ options.retain > Depth IN
  /\ Configure("layers", IF refused THEN "ended" ELSE "exact")
  /\ model' = IF refused THEN model
              ELSE [model EXCEPT !.retained = RetainedLayers(options.retain)]

(* The index is for greedy runs over mapped weights.                       *)
SetExactHeadSearch ==
  LET refused == options.exact /\ (options.head \/ options.residency = "resident") IN
  /\ Configure("exact", IF refused THEN "ended" ELSE "ready")
  /\ model' = [model EXCEPT !.exact = options.exact /\ ~refused]

-----------------------------------------------------------------------------
(* A traversal is refused, or begins.                                      *)
Begin(c, refused) ==
  /\ step = "ready"
  /\ call' = c
  /\ IF refused THEN step' = "refused" /\ UNCHANGED todo
     ELSE step' = "running" /\ todo' = LayerUses(c) \o HeadUses(c)
  /\ UNCHANGED <<options, model, reads>>

ForwardToken ==
  Begin([kind |-> "token", layers |-> Depth, head |-> TRUE, width |-> 1], FALSE)

(* A prefix of the layers drafts for the target.                           *)
PreparePartialDraft(layers) ==
  /\ options.residency # "shared"
  /\ Begin([kind |-> "prepare", layers |-> layers, head |-> FALSE, width |-> 1],
           Unbatchable \/ layers = 0 \/ layers > Depth)

ForwardTokenPrefix ==
  /\ model.drafted > 0
  /\ Begin([kind |-> "prefix", layers |-> model.drafted, head |-> TRUE, width |-> 1], FALSE)

ForwardTokensMany(width) ==
  /\ options.residency # "shared"
  /\ Begin([kind |-> "window", layers |-> Depth, head |-> TRUE, width |-> width],
           Unbatchable)

(* Two branches at least.                                                  *)
ForwardTreeMany(width) ==
  /\ options.residency # "shared" /\ width > 1
  /\ Begin([kind |-> "tree", layers |-> Depth, head |-> TRUE, width |-> width],
           Unbatchable)

(* One projection; a command or a staged read may fail.                    *)
Project ==
  /\ step = "running" /\ todo # <<>>
  /\ \/ /\ ~Refuses(Head(todo))
        /\ \E made \in Reads(Head(todo)) : reads' = reads \o made
        /\ todo' = Tail(todo)
        /\ UNCHANGED step
     \/ /\ step' = IF Refuses(Head(todo)) THEN "refused" ELSE "ended"
        /\ UNCHANGED <<todo, reads>>
  /\ UNCHANGED <<options, model, call>>

Finish ==
  /\ step = "running" /\ todo = <<>>
  /\ step' = "returned"
  /\ model' = [model EXCEPT !.drafted = IF call.kind = "prepare" THEN call.layers ELSE @]
  /\ UNCHANGED <<options, call, todo, reads>>

(* The answer is used, and the next traversal may begin.                   *)
Continue ==
  /\ step = "returned"
  /\ step' = "ready"
  /\ call' = NoCall /\ reads' = <<>>
  /\ UNCHANGED <<options, model, todo>>

(* An error ends the program.                                              *)
Ended == step \in {"refused", "ended"} /\ UNCHANGED dense_vars

DenseNext ==
  \/ SetStreamChunkRows \/ SetRetainOutputHead \/ SetRetainLayers \/ SetExactHeadSearch
  \/ ForwardToken \/ ForwardTokenPrefix
  \/ \E layers \in 0..(Depth + 1) : PreparePartialDraft(layers)
  \/ \E width \in Widths : ForwardTokensMany(width) \/ ForwardTreeMany(width)
  \/ Project \/ Finish \/ Continue \/ Ended

DenseSpec == DenseInit /\ [][DenseNext]_dense_vars

-----------------------------------------------------------------------------
Needed == LayerWeights(call.layers) \cup (IF call.head THEN {Embed} ELSE {})
Times(w, r) ==
  Cardinality({i \in DOMAIN reads : reads[i].weight = w /\ r \in reads[i].rows})
Searched(w) == w = Embed /\ model.exact /\ call.width = 1

(* Under every combination of switches a traversal that returns has read   *)
(* every row of every weight it needs once, whole, by chunks, batched or   *)
(* searched, through views that begin at a page, for all its vectors at    *)
(* once, layer after layer; and one that its switches rule out is refused  *)
(* before it has read anything.                                            *)
ReadsOnce ==
  /\ step = "returned" =>
       /\ \A w \in ResidentWeights, r \in Row :
            IF w \notin Needed THEN Times(w, r) = 0
            ELSE IF Searched(w) THEN Times(w, r) <= 1 ELSE Times(w, r) = 1
       /\ call.head => \E r \in Row : Times(Embed, r) = 1
       /\ \A i \in DOMAIN reads : reads[i].vectors = call.width
       /\ \A i, j \in DOMAIN reads : i < j => reads[i].weight[1] <= reads[j].weight[1]
  /\ step = "refused" => reads = <<>>

(* What each switch promises holds beside the others: resident weights are *)
(* never read through the mapping; neither is a retained head, nor, in a   *)
(* window, a tree or the single projections of a token (if the head is not *)
(* retained too), a retained layer; and with --chunk-rows no mapped read   *)
(* is longer than a chunk, except in the chained attention and in the      *)
(* blocks of the exact search.                                             *)
SourcesHonoured ==
  \A i \in DOMAIN reads :
    LET read == reads[i]
        single == read.weight[2] \in {"o", "down"} /\ ~model.chain /\ model.hot = {} IN
    read.from = "mapped" =>
      /\ model.resident = {}
      /\ read.weight \notin model.hot
      /\ read.weight \in model.retained => ~Batched(call) /\ ~single
      /\ model.chunk # 0 =>
           \/ Cardinality(read.rows) <= model.chunk
           \/ model.chain /\ read.weight[2] \in {"q", "k", "v", "o"}
           \/ Searched(read.weight)
=============================================================================
