---------------------------- MODULE Qwen35Stage -----------------------------
(***************************************************************************)
(* The staging pipeline of the hybrid GGUF runtime (Qwen35Runtime in       *)
(* src/src/qwen35_runtime.rs).  While the main thread runs layer l, scoped *)
(* threads read the weights of the layers behind it; the handles of those  *)
(* threads move one place down after every layer.  While the output head   *)
(* runs, another thread reads layer 0 for the next token.                  *)
(*                                                                         *)
(* Weights are known by the layer they belong to, a layer's recurrent      *)
(* state or KV cache by the number of tokens it has absorbed.              *)
(***************************************************************************)
EXTENDS Naturals, FiniteSets

CONSTANTS
  N,          \* number of layers
  Settings,   \* values of SI_STAGE_DEPTH explored; 0: unset, 0 or no number
  MaxTokens,  \* bound on the tokens decoded between two resets
  Batch       \* tokens of a candidate window (at most 8)

ASSUME Qwen35StageAssumption ==
  /\ N \in Nat \ {0}
  /\ Settings \subseteq Nat
  /\ MaxTokens \in Nat
  /\ Batch \in 2..8

VARIABLES
  pipeline,   \* SI_STAGE_PIPELINE is set
  headAhead,  \* SI_STAGE_OUTPUT_PREFETCH is not "0"
  depth,      \* stage_depth of decode_hidden
  pc,         \* where the main thread is
  call,       \* "decode": decode_token; "window": decode_tokens_many;
              \* "head": logits alone, of a draft or of a hidden state
  ok,         \* the outcome the open scope will return
  layer,      \* the layer of this iteration
  absorbed,   \* absorbed[l]: tokens layer l has taken since the last reset
  staged,     \* the layer whose weights `staged` holds
  handle,     \* handle[k]: the layer read by next_handle, next2_handle, ...
  thread,     \* thread[l]: the scoped thread that reads layer l
  prefetched  \* prefetched_layer0 is Some

chosen == <<pipeline, headAhead, depth>>
vars == <<chosen, pc, call, ok, layer, absorbed, staged, handle, thread, prefetched>>

Layer == 0..(N - 1)
None == N
Slot == 1..4

NoHandle == [k \in Slot |-> None]
NoThread == [l \in Layer |-> "none"]

(* The depth from the environment: three unless it is set, at most four.   *)
StagePipelineDepth(setting) ==
  IF setting = 0 THEN 3 ELSE IF setting > 4 THEN 4 ELSE setting

(* The candidate window runs its own pipeline, one layer ahead.            *)
Ahead == IF ~pipeline THEN 0 ELSE IF call = "window" THEN 1 ELSE depth

Size == IF call = "window" THEN Batch ELSE 1

Finished(l) == thread[l] \in {"ok", "err", "panicked"}

Init ==
  /\ pipeline \in BOOLEAN
  /\ headAhead \in BOOLEAN
  /\ depth \in {StagePipelineDepth(s) : s \in Settings}
  /\ pc = "idle"
  /\ call = "decode"
  /\ ok = TRUE
  /\ layer = 0
  /\ absorbed = [l \in Layer |-> 0]
  /\ staged = None
  /\ handle = NoHandle
  /\ thread = NoThread
  /\ prefetched = FALSE

(* A call starts while the bound on the tokens allows it: callers keep     *)
(* prompt and generation within the capacity of the states.                *)
Begin ==
  /\ pc = "idle"
  /\ call' \in {"decode", "window"}
  /\ \A l \in Layer : absorbed[l] + Size' <= MaxTokens
  /\ layer' = 0
  /\ ok' = TRUE
  /\ pc' = IF pipeline THEN "first" ELSE "spawn"
  /\ UNCHANGED <<chosen, absorbed, staged, handle, thread, prefetched>>

(* logits is called by itself: by decode_token_prefix, which stages        *)
(* nothing, and by programs that have a hidden state.                      *)
HeadAlone ==
  /\ pc = "idle"
  /\ call' = "head"
  /\ ok' = TRUE
  /\ pc' = "logits"
  /\ UNCHANGED <<chosen, layer, absorbed, staged, handle, thread, prefetched>>

(* The weights of layer 0: those the last output head left, or read here.  *)
HasPrefetched == call = "decode" /\ prefetched

(* A fault for comparison: the prefetched layer is copied, not taken.      *)
CopyPrefetched ==
  /\ pc = "first" /\ HasPrefetched
  /\ staged' = 0
  /\ pc' = "spawn"
  /\ UNCHANGED <<chosen, call, ok, layer, absorbed, handle, thread, prefetched>>

TakePrefetched ==
  /\ pc = "first" /\ HasPrefetched
  /\ staged' = 0
  /\ prefetched' = FALSE
  /\ pc' = "spawn"
  /\ UNCHANGED <<chosen, call, ok, layer, absorbed, handle, thread>>

ReadFirst ==
  /\ pc = "first" /\ ~HasPrefetched
  /\ \/ staged' = 0 /\ pc' = "spawn"
     \/ pc' = "failed" /\ UNCHANGED staged
  /\ UNCHANGED <<chosen, call, ok, layer, absorbed, handle, thread, prefetched>>

(* A handle the last iteration left in place k is used, not replaced.      *)
Kept(k) == handle[k] # None

(* A fault for comparison: the last layer is never read ahead.             *)
TargetShort(k) == IF layer + k + 1 < N THEN layer + k ELSE None

Target(k) == IF layer + k < N THEN layer + k ELSE None

(* Threads are started for the layers up to the look-ahead that no handle  *)
(* stands for yet.                                                         *)
Spawn ==
  /\ pc = "spawn"
  /\ handle' = [k \in Slot |-> IF k > Ahead THEN None
                               ELSE IF Kept(k) THEN handle[k] ELSE Target(k)]
  /\ thread' = [l \in Layer |->
                  IF \E k \in 1..Ahead : ~Kept(k) /\ Target(k) = l
                  THEN "running" ELSE thread[l]]
  /\ pc' = "execute"
  /\ UNCHANGED <<chosen, call, ok, layer, absorbed, staged, prefetched>>

Absorb == absorbed' = [absorbed EXCEPT ![layer] = @ + Size]

Execute ==
  /\ pc = "execute"
  /\ Absorb
  /\ pc' = "join"
  /\ UNCHANGED <<chosen, call, ok, layer, staged, handle, thread, prefetched>>

(* The block returns Err before or after it has updated its state.         *)
ExecuteFails ==
  /\ pc = "execute"
  /\ UNCHANGED absorbed \/ Absorb
  /\ ok' = FALSE
  /\ pc' = "close"
  /\ UNCHANGED <<chosen, call, layer, staged, handle, thread, prefetched>>

(* A fault for comparison: the loop stops one layer early.                 *)
StopsEarly == layer + 2 >= N

IsLast == layer + 1 = N

(* A fault for comparison: the second handle stays behind the third.       *)
RotatedSwapped == [k \in Slot |-> IF k = 1 THEN handle[3]
                                  ELSE IF k = 2 THEN handle[2]
                                  ELSE IF k = 3 THEN handle[4] ELSE None]

Rotated == [k \in Slot |-> IF k = 4 THEN None ELSE handle[k + 1]]

Advance ==
  /\ handle' = Rotated
  /\ layer' = layer + 1
  /\ pc' = IF IsLast THEN "close" ELSE "spawn"

(* The next layer's weights are taken from its thread, or there is none.   *)
JoinNone ==
  /\ pc = "join" /\ handle[1] = None
  /\ staged' = None
  /\ Advance
  /\ UNCHANGED <<chosen, call, ok, absorbed, thread, prefetched>>

JoinNext ==
  LET l == handle[1] IN
  /\ pc = "join" /\ l # None
  /\ Finished(l)
  /\ thread' = [thread EXCEPT ![l] = "joined"]
  /\ IF thread[l] = "ok"
     THEN staged' = l /\ Advance /\ UNCHANGED ok
     ELSE ok' = FALSE /\ pc' = "close" /\ UNCHANGED <<staged, handle, layer>>
  /\ UNCHANGED <<chosen, call, absorbed, prefetched>>

(* The scope ends when all its threads have; one that panicked without     *)
(* having been joined makes the scope panic.                               *)
Close ==
  /\ pc = "close"
  /\ \A l \in Layer : thread[l] # "running"
  /\ pc' = IF \E l \in Layer : thread[l] = "panicked" THEN "dead"
           ELSE IF ~ok THEN "failed"
           ELSE IF call = "decode" THEN "logits" ELSE "idle"
  /\ staged' = None
  /\ handle' = NoHandle
  /\ thread' = NoThread
  /\ UNCHANGED <<chosen, call, ok, layer, absorbed, prefetched>>

HeadPrefetch == pipeline /\ headAhead

(* A call of the head alone that fails leaves the layers as they were.     *)
Returned(good) == IF good \/ call = "head" THEN "idle" ELSE "failed"

(* The output head without a thread beside it, or an error before there is *)
(* one.                                                                    *)
Logits ==
  /\ pc = "logits"
  /\ \E good \in BOOLEAN : (good => ~HeadPrefetch) /\ pc' = Returned(good)
  /\ UNCHANGED <<chosen, call, ok, layer, absorbed, staged, handle, thread, prefetched>>

(* The output head while a thread reads layer 0.                           *)
LogitsAhead ==
  /\ pc = "logits" /\ HeadPrefetch
  /\ thread' = [thread EXCEPT ![0] = "running"]
  /\ ok' \in BOOLEAN
  /\ pc' = "head"
  /\ UNCHANGED <<chosen, call, layer, absorbed, staged, handle, prefetched>>

(* Both must have succeeded for the weights to be kept.                    *)
JoinHead ==
  LET good == ok /\ thread[0] = "ok" IN
  /\ pc = "head" /\ Finished(0)
  /\ thread' = NoThread
  /\ prefetched' = IF good THEN TRUE ELSE prefetched
  /\ pc' = Returned(good)
  /\ UNCHANGED <<chosen, call, ok, layer, absorbed, staged, handle>>

(* run_gguf_resident resets the runtime before every run; after an error   *)
(* nothing but a reset makes the states usable again.                      *)
Reset ==
  /\ pc \in {"idle", "failed"}
  /\ pc' = "idle"
  /\ absorbed' = [l \in Layer |-> 0]
  /\ prefetched' = FALSE
  /\ UNCHANGED <<chosen, call, ok, layer, staged, handle, thread>>

Dead == pc = "dead" /\ UNCHANGED vars

(* A staging thread finishes: it has read the layer, met an error, or      *)
(* panicked.                                                               *)
Read(l) ==
  /\ thread[l] = "running"
  /\ \E result \in {"ok", "err", "panicked"} : thread' = [thread EXCEPT ![l] = result]
  /\ UNCHANGED <<chosen, pc, call, ok, layer, absorbed, staged, handle, prefetched>>

Main ==
  \/ TakePrefetched \/ ReadFirst \/ Spawn \/ Execute \/ ExecuteFails
  \/ JoinNone \/ JoinNext \/ Close \/ Logits \/ LogitsAhead \/ JoinHead

Next == Begin \/ HeadAlone \/ Reset \/ Dead \/ Main \/ (\E l \in Layer : Read(l))

(* A call that was begun keeps running, and so does a started thread.      *)
Spec ==
  /\ Init /\ [][Next]_vars
  /\ WF_vars(Main) /\ \A l \in Layer : WF_vars(Read(l))

-----------------------------------------------------------------------------
(* The state stays in range.                                               *)
TypeOK ==
  /\ pipeline \in BOOLEAN /\ headAhead \in BOOLEAN /\ depth \in 1..4
  /\ pc \in {"idle", "first", "spawn", "execute", "join", "close", "logits",
             "head", "failed", "dead"}
  /\ call \in {"decode", "window", "head"} /\ ok \in BOOLEAN
  /\ layer \in 0..N
  /\ absorbed \in [Layer -> 0..MaxTokens]
  /\ staged \in 0..N
  /\ handle \in [Slot -> 0..N]
  /\ thread \in [Layer -> {"none", "running", "ok", "err", "panicked", "joined"}]
  /\ prefetched \in BOOLEAN

(* However the handles are passed on from one iteration to the next, the   *)
(* weights in hand are always those of the layer that runs.                *)
StagedIsExecuting == pc = "execute" /\ pipeline => staged = layer

(* While a layer runs, the threads of all layers within the look-ahead     *)
(* have been started: the pipeline is as deep as it was asked to be.       *)
LookaheadFilled ==
  pc = "execute" =>
    \A k \in 1..Ahead : layer + k < N =>
      handle[k] = layer + k /\ thread[layer + k] # "none"

(* Layers whose weights are in memory or on the way.                       *)
Resident ==
  Cardinality({l \in Layer : thread[l] \in {"running", "ok"}})
    + (IF staged # None THEN 1 ELSE 0) + (IF prefetched THEN 1 ELSE 0)

(* The pipeline's memory is bounded by its depth, whatever the threads do: *)
(* the running layer and the look-ahead.  A candidate window, which does   *)
(* not use the layer the output head left, may hold that one as well.      *)
ResidencyBound ==
  Resident <= IF call = "window" THEN 3 ELSE IF pipeline THEN depth + 1 ELSE 0

(* What a caller can tell of the position in a call.                       *)
Phase == IF pc \in {"idle", "failed"} THEN pc
         ELSE IF pc = "dead" \/ (pc = "close" /\ ~ok) THEN "failed"
         ELSE IF call = "head" THEN "idle" ELSE "busy"

(* At every depth, and through every outcome of the staging threads, the   *)
(* pipelined runtime does what running the layers in turn does; a call     *)
(* always returns.                                                         *)
Stack == INSTANCE LayerStack WITH
  phase <- Phase,
  at <- IF Phase # "busy" THEN 0 ELSE IF pc = "join" THEN layer + 1 ELSE layer,
  size <- IF Phase = "busy" THEN Size ELSE 1
ImplementsLayerStack == Stack!Spec
=============================================================================
