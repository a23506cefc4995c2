---------------------------- MODULE HybridState -----------------------------
(***************************************************************************)
(* The state the hybrid runtime keeps per layer, and what its calls do to  *)
(* it (Qwen35LayerState and Qwen35Runtime in src/src/qwen35_runtime.rs).   *)
(* A Gated DeltaNet layer folds every token into a convolution window and  *)
(* a recurrent matrix and cannot give one back; a full-attention layer     *)
(* appends a row per token.  Callers speculate over this state: a prefix   *)
(* or a subset of the layers proposes tokens, a window of candidates runs  *)
(* through the whole stack at once, a snapshot taken before is restored.   *)
(*                                                                         *)
(* Numbers are terms: a vector is named by what it was computed from, so   *)
(* two are equal only if the same computation made them.                   *)
(***************************************************************************)
EXTENDS Naturals, Sequences

CONSTANTS
  Kinds,      \* Kinds[l]: "delta" or "attention"
  Token,      \* tokens
  Kernel,     \* width of the causal convolution
  KvHeads,    \* key-value heads of a full-attention layer
  Capacity,   \* capacity_tokens
  Batch,      \* largest candidate window explored (8 in the code)
  LayerSets,  \* ordered subsets of the layers explored for drafting
  MaxFed      \* bound on the tokens fed between two resets

ASSUME HybridStateAssumption ==
  /\ Kinds \in Seq({"delta", "attention"}) /\ Kinds # <<>>
  /\ Kernel \in Nat \ {0, 1}
  /\ KvHeads \in Nat \ {0}
  /\ Capacity \in Nat \ {0}
  /\ Batch \in 1..8
  /\ LayerSets \subseteq Seq(DOMAIN Kinds) \ {<<>>}
  /\ MaxFed \in Nat

VARIABLES
  state,   \* state[l]: the Qwen35LayerState of layer l
  saved,   \* the snapshot a caller holds, with the log and depth it belongs to
  log,     \* the tokens fed since the last reset, by calls that returned
  depth,   \* so many layers, from the first, have absorbed exactly the log
  pc,      \* "idle", "run", "failed"
  todo,    \* the layers the call still has to run, the running one first
  fed,     \* the tokens of the call
  first,   \* the position the caller gives to the first of them
  hidden,  \* hidden[c]: the vector of candidate c between two layers
  cand,    \* the candidate that is next in the running layer
  mixed,   \* mixed_qkv: left by the convolution for the recurrent step
  answer   \* what the last call returned, for which log, from which layer

call == <<todo, fed, first, hidden, cand, mixed>>
vars == <<state, saved, log, depth, pc, call, answer>>

Layer == DOMAIN Kinds
Depth == Len(Kinds)
KvHead == 0..(KvHeads - 1)
Zero == <<"zero">>
None == <<>>
FirstLayers(k) == [i \in 1..k |-> i]

-----------------------------------------------------------------------------
(* Layer states and the operations on them.                                *)

Fresh(l) ==
  IF Kinds[l] = "delta"
  THEN [conv |-> [i \in 1..(Kernel - 1) |-> Zero], recurrent |-> <<>>]
  ELSE [rows |-> [i \in 0..(KvHeads * Capacity - 1) |-> Zero], cached |-> 0]

Blank == [l \in Layer |-> Fresh(l)]

Embed(t) == <<"embedding", t>>
Out(l, mixer) == <<"out", l, mixer>>

(* The convolution mixes the input with the window, which then moves on;   *)
(* the recurrent matrix takes in what was mixed.                           *)
Mixed(s, x) == Append(s.conv, x)
Shifted(s, x) == [s EXCEPT !.conv = Append(Tail(@), x)]
Folded(s, m) == [s EXCEPT !.recurrent = Append(@, m)]

(* Where the runtime stores a row, and where the kernel looks for one.     *)
StoreIndex(t, h) == t * KvHeads + h
ReadIndex(t, h) == h * Capacity + t

NewRow(x, position, h) == <<x, position, h>>
RowsRead(s, h) == [t \in 1..s.cached |-> s.rows[ReadIndex(t - 1, h)]]
Attended(s, x, position) ==
  [h \in KvHead |-> Append(RowsRead(s, h), NewRow(x, position, h))]
Stored(s, x, position) ==
  LET base == StoreIndex(s.cached, 0) IN
  [rows |-> [i \in DOMAIN s.rows |->
               IF i - base \in KvHead THEN NewRow(x, position, i - base) ELSE s.rows[i]],
   cached |-> s.cached + 1]

-----------------------------------------------------------------------------
Init ==
  /\ state = Blank
  /\ saved = None
  /\ log = <<>> /\ depth = Depth
  /\ pc = "idle"
  /\ todo = <<>> /\ fed = <<>> /\ first = 0
  /\ hidden = <<>> /\ cand = 1 /\ mixed = None
  /\ answer = None

(* The layers that hold exactly the log once these have run: drafting with *)
(* the first k layers leaves the deeper ones behind.                       *)
DepthAfter(layers) ==
  IF layers # FirstLayers(Len(layers)) THEN 0
  ELSE IF Len(layers) < depth THEN Len(layers) ELSE depth

(* A call names the layers it runs, the tokens it feeds and the position   *)
(* of the first; a window is numbered on from there.                       *)
Begin(layers, tokens, position) ==
  /\ pc = "idle"
  /\ todo' = layers
  /\ fed' = tokens
  /\ first' = position
  /\ hidden' = [c \in DOMAIN tokens |-> Embed(tokens[c])]
  /\ cand' = 1 /\ mixed' = None
  /\ pc' = "run"
  /\ depth' = DepthAfter(layers)
  /\ answer' = [ran |-> Len(layers), out |-> None]
  /\ UNCHANGED <<state, saved, log>>

(* Any caller numbers its tokens on from those already fed.                *)
Feed(layers, tokens) ==
  Len(log) + Len(tokens) <= MaxFed /\ Begin(layers, tokens, Len(log))

DecodeHidden == \E t \in Token : Feed(FirstLayers(Depth), <<t>>)
DecodeTokensMany ==
  \E n \in 1..Batch : \E tokens \in [1..n -> Token] : Feed(FirstLayers(Depth), tokens)
DecodePrefix == \E k \in Layer, t \in Token : Feed(FirstLayers(k), <<t>>)
DecodeLayerSet == \E set \in LayerSets, t \in Token : Feed(set, <<t>>)

Running(kind) == pc = "run" /\ todo # <<>> /\ Kinds[todo[1]] = kind

(* A fault for comparison: every candidate is placed where the first is.   *)
PositionOfFirst == first

Position == first + cand - 1

Put(l, s) == state' = [state EXCEPT ![l] = s]

(* A candidate has left the layer; after the last, the next layer runs.    *)
Leave(out) ==
  /\ hidden' = [hidden EXCEPT ![cand] = out]
  /\ IF cand < Len(fed) THEN cand' = cand + 1 /\ UNCHANGED todo
     ELSE cand' = 1 /\ todo' = Tail(todo)

(* The first half of a Gated DeltaNet step: the convolution state moves.   *)
Convolve ==
  LET l == todo[1] IN
  /\ Running("delta") /\ mixed = None
  /\ mixed' = Mixed(state[l], hidden[cand])
  /\ Put(l, Shifted(state[l], hidden[cand]))
  /\ UNCHANGED <<saved, log, depth, pc, todo, fed, first, hidden, cand, answer>>

(* The second: the recurrent matrix.                                       *)
Recur ==
  LET l == todo[1]  s == Folded(state[l], mixed) IN
  /\ Running("delta") /\ mixed # None
  /\ mixed' = None
  /\ Put(l, s)
  /\ Leave(Out(l, s.recurrent))
  /\ UNCHANGED <<saved, log, depth, pc, fed, first, answer>>

Attend ==
  LET l == todo[1]  s == state[l]  x == hidden[cand] IN
  /\ Running("attention") /\ s.cached < Capacity
  /\ Put(l, Stored(s, x, Position))
  /\ Leave(Out(l, Attended(s, x, Position)))
  /\ UNCHANGED <<saved, log, depth, pc, fed, first, mixed, answer>>

(* A full cache is met only when its layer runs: the layers before have    *)
(* absorbed the token by then.  Any other step may fail as well, wherever  *)
(* the call is: between the two halves, or between two candidates.         *)
Fails ==
  /\ pc = "run" /\ todo # <<>>
  /\ pc' = "failed"
  /\ depth' = 0
  /\ todo' = <<>> /\ fed' = <<>> /\ first' = 0
  /\ hidden' = <<>> /\ cand' = 1 /\ mixed' = None
  /\ answer' = None
  /\ UNCHANGED <<state, saved, log>>

Return ==
  /\ pc = "run" /\ todo = <<>>
  /\ pc' = "idle"
  /\ log' = log \o fed
  /\ answer' = [answer EXCEPT !.out = hidden]
  /\ fed' = <<>> /\ first' = 0 /\ hidden' = <<>>
  /\ UNCHANGED <<state, saved, depth, todo, cand, mixed>>

(* Callers take it of the target, which only runs whole stacks.            *)
Snapshot ==
  /\ pc = "idle" /\ depth = Depth
  /\ saved' = [state |-> state, log |-> log, depth |-> depth]
  /\ UNCHANGED <<state, log, depth, pc, call, answer>>

(* A fault for comparison: only the number of cached rows is taken back,   *)
(* as KvCache::truncate_to would.                                          *)
RestoredRows ==
  [l \in Layer |-> IF Kinds[l] = "attention"
                   THEN [state[l] EXCEPT !.cached = saved.state[l].cached]
                   ELSE state[l]]

Restored == saved.state

RestoreStates ==
  /\ pc \in {"idle", "failed"} /\ saved # None
  /\ pc' = "idle"
  /\ state' = Restored
  /\ log' = saved.log /\ depth' = saved.depth
  /\ answer' = None
  /\ UNCHANGED <<saved, call>>

(* reset fills every array of a layer with zeros.                          *)
Cleared == [l \in Layer |-> Fresh(l)]

Reset ==
  /\ pc \in {"idle", "failed"}
  /\ pc' = "idle"
  /\ state' = Cleared
  /\ log' = <<>> /\ depth' = Depth
  /\ answer' = None
  /\ UNCHANGED <<saved, call>>

(* What goes on inside a call.                                             *)
Advance == Convolve \/ Recur \/ Attend \/ Fails \/ Return

Next ==
  \/ DecodeHidden \/ DecodeTokensMany \/ DecodePrefix \/ DecodeLayerSet
  \/ Advance
  \/ Snapshot \/ RestoreStates \/ Reset

Spec == Init /\ [][Next]_vars

-----------------------------------------------------------------------------
(* The reference: one token after the other through one layer after the    *)
(* other, from blank states.                                               *)
Block(l, s, x, position) ==
  IF Kinds[l] = "delta"
  THEN LET new == Folded(Shifted(s, x), Mixed(s, x))
       IN  [s |-> new, x |-> Out(l, new.recurrent)]
  ELSE [s |-> Stored(s, x, position), x |-> Out(l, Attended(s, x, position))]

(* One token, through one layer after the other.                           *)
Through(states, t, position) ==
  LET through[l \in 0..Depth] ==
        IF l = 0 THEN [s |-> None, x |-> Embed(t)]
        ELSE Block(l, states[l], through[l - 1].x, position)
  IN  [l \in Layer |-> through[l]]

(* The whole log, with the outputs of its last token.                      *)
Sequential(tokens) ==
  LET after[n \in 0..Len(tokens)] ==
        IF n = 0 THEN [l \in Layer |-> [s |-> Fresh(l), x |-> None]]
        ELSE Through([l \in Layer |-> after[n - 1][l].s], tokens[n], n - 1)
  IN  after[Len(tokens)]

(* Whatever was drafted, verified in a window, refused or restored in      *)
(* between: the layers that count as exact hold what decoding the log      *)
(* token by token leaves in them, the convolution window, the recurrent    *)
(* matrix and the cached rows alike.                                       *)
StatesExact ==
  pc = "idle" =>
    LET reference == Sequential(log)
    IN  \A l \in 1..depth : state[l] = reference[l].s

(* A window of candidates answers for each of them what decoding the       *)
(* tokens up to it one by one would have answered, and so do a single      *)
(* token and a prefix drafter on top of exact layers.                      *)
AnswersExact ==
  pc = "idle" /\ answer # None =>
    depth < answer.ran \/
    \A c \in DOMAIN answer.out :
      LET n == Len(log) - Len(answer.out) + c
      IN  answer.out[c] = Sequential(SubSeq(log, 1, n))[answer.ran].x

(* The attention kernel reads no slot of the cache that nobody wrote       *)
(* (docs/SI-002-direct-metal-runtime-spec.md:62 of the repository).        *)
UnusedSlotsNeverRead ==
  Running("attention") =>
    LET s == state[todo[1]]
    IN  \A h \in KvHead, t \in 1..s.cached : RowsRead(s, h)[t] # Zero
=============================================================================
