---------------------------- MODULE LayerMixers -----------------------------
(***************************************************************************)
(* The token mixer of one layer, command by command: between its input     *)
(* projections and its output projection, over the state the layer keeps.  *)
(*   delta  Gated DeltaNet, gdn_token_mixer (src/src/qwen35_runtime.rs)    *)
(*   gated  full attention of the hybrid model, attention_token_mixer      *)
(*   dense  attention of the dense model (src/src/runtime.rs), on the      *)
(*          processor or as one chained command                            *)
(* A dispatch runs its threads in rising or falling order, which tells     *)
(* apart any two that touch the same number.  A projection is a fixed      *)
(* matrix; how it is computed is the matter of Projections.                *)
(***************************************************************************)
EXTENDS LayerKernels

CONSTANTS
  Mixers,        \* the kinds explored
  Inputs,        \* the hidden vectors explored
  Hidden,        \* hidden_size
  Dim,           \* head_dim, and the state size of a delta head
  Rotary,        \* rope.dimension_count
  KeyHeads, ValueHeads,  \* of a delta layer
  Taps,          \* ssm_conv_kernel
  QueryHeads, KvHeads,   \* of an attention layer
  Room,          \* capacity_tokens
  GroupLimits,   \* what the parallel kernel may allow in a threadgroup
  MaxTokens      \* bound on the tokens between two resets

ASSUME MixerAssumption ==
  /\ Mixers \subseteq {"delta", "gated", "dense"}
  /\ {Hidden, Dim, KeyHeads, ValueHeads, QueryHeads, KvHeads, Room} \subseteq Nat \ {0}
  /\ Taps \in Nat \ {0, 1}
  /\ Rotary \in 1..Dim
  /\ {Rotary % 2, Dim % 2, ValueHeads % KeyHeads, QueryHeads % KvHeads} = {0}
  /\ GroupLimits \subseteq Nat \ {0}

VARIABLES
  setup,   \* the kind of the layer, whether its delta step is parallel:
           \* asked for, and a threadgroup may have a thread for each column
  layer,   \* the state it keeps
  fed,     \* the tokens it has absorbed
  token,   \* the token of the call
  todo,    \* the steps of the call still to run
  mem,     \* the vectors of the call
  lanes,   \* where the threads of a parallel step are
  dots,    \* key_query_dot of every threadgroup
  stage,   \* "ready", "busy", "broken"
  reply    \* what the last call handed over

call_vars == <<token, todo, mem, lanes, dots>>
mixer_vars == <<setup, layer, fed, token, todo, mem, lanes, dots, stage, reply>>

mixer == setup.mixer
Nothing == <<>>

-----------------------------------------------------------------------------
(* Weights and projections.                                                *)

Names == <<"attn_qkv", "attn_gate", "ssm_alpha", "ssm_beta", "ssm_conv1d", "ssm_a",
           "ssm_dt", "ssm_norm", "attn_q", "attn_k", "attn_v", "attn_q_norm",
           "attn_k_norm", "hidden", "output">>
Tensor(name, n) ==
  LET k == CHOOSE i \in DOMAIN Names : Names[i] = name IN
  Numbers(n, LAMBDA i : (k + 2) * (i * i + 5 * i + 3) + k * k + i)

Project(name, rows, v) ==
  LET columns == Cardinality(DOMAIN v)
      w == Tensor(name, rows * columns) IN
  Numbers(rows, LAMBDA r : Total(Upto(columns), LAMBDA c : w[r * columns + c] * v[c]))

HiddenOf(x) == LET h == Tensor("hidden", Hidden * x + Hidden) IN
               Numbers(Hidden, LAMBDA i : h[Hidden * x + i])

Slice(v, from, n) == Numbers(n, LAMBDA i : v[from + i])

KeyWidth == KeyHeads * Dim
ValueWidth == ValueHeads * Dim
Channels == 2 * KeyWidth + ValueWidth
KvOf(kind) == IF kind = "gated" THEN 1 ELSE KvHeads
QueryWidth == QueryHeads * Dim
KvWidth(kind) == KvOf(kind) * Dim

-----------------------------------------------------------------------------
(* What the processor does between two commands.                           *)

l2_normalize_heads(values, heads) ==
  Numbers(heads * Dim, LAMBDA i :
    values[i] * InverseRoot(Total(((i \div Dim) * Dim)..((i \div Dim) * Dim + Dim - 1),
                                  LAMBDA j : values[j] * values[j]), 0))

repeat_heads(values, source, target) ==
  LET repeat == target \div source IN
  Numbers(target * Dim, LAMBDA i : values[((i \div Dim) \div repeat) * Dim + (i % Dim)])

Softplus(x) == (x * x + 4 * x + 2) % Modulus

(* Query, key, value, gate and beta of the delta step.                     *)
Recurrence(mixed, alpha, logits) ==
  [query |-> LET q == repeat_heads(l2_normalize_heads(mixed, KeyHeads), KeyHeads, ValueHeads)
             IN Numbers(ValueWidth, LAMBDA i : q[i] * Scale(Dim)),
   key |-> repeat_heads(l2_normalize_heads(Slice(mixed, KeyWidth, KeyWidth), KeyHeads),
                        KeyHeads, ValueHeads),
   value |-> Slice(mixed, 2 * KeyWidth, ValueWidth),
   gate |-> LET a == Tensor("ssm_a", ValueHeads)
                dt == Tensor("ssm_dt", ValueHeads) IN
            Numbers(ValueHeads, LAMBDA h : -Exponential(a[h]) * Softplus(alpha[h] + dt[h])),
   beta |-> Numbers(ValueHeads, LAMBDA h : Sigmoid(logits[h]))]

(* partial_rope turns the first Rotary numbers of each head.               *)
CutHeads(v, heads) ==
  Numbers(heads * Rotary, LAMBDA i : v[(i \div Rotary) * Dim + (i % Rotary)])
JoinHeads(v, turned, heads) ==
  Numbers(heads * Dim, LAMBDA i :
    IF i % Dim < Rotary THEN turned[(i \div Dim) * Rotary + (i % Dim)] ELSE v[i])

GateAttended(attended, gate) ==
  Numbers(QueryWidth, LAMBDA i : attended[i] * Sigmoid(gate[i]))

-----------------------------------------------------------------------------
(* The state of a layer.                                                   *)

Zeros(n) == [i \in Upto(n) |-> 0]
Fresh(kind) ==
  IF kind = "delta"
  THEN [conv |-> Zeros(Channels * (Taps - 1)), recurrent |-> Zeros(ValueWidth * Dim)]
  ELSE [keys |-> Zeros(KvWidth(kind) * Room), values |-> Zeros(KvWidth(kind) * Room),
        cached |-> 0]

Full == mixer # "delta" /\ layer.cached >= Room

Replace(v, part(_), cells) == [i \in DOMAIN v |-> IF i \in cells THEN part(i) ELSE v[i]]

(* A fault for comparison: the dense cache is filled like the hybrid one.  *)
append_token_major(s, keys, values) ==
  LET offset == s.cached * KvWidth("dense")
      cells == offset..(offset + KvWidth("dense") - 1) IN
  [keys |-> Replace(s.keys, LAMBDA i : keys[i - offset], cells),
   values |-> Replace(s.values, LAMBDA i : values[i - offset], cells),
   cached |-> s.cached + 1]

(* KvCache::append_token: a row for each head, Room rows apart.            *)
append_token(s, keys, values) ==
  LET Source(i) == (i \div (Room * Dim)) * Dim + (i % Dim)
      cells == {i \in DOMAIN s.keys : (i \div Dim) % Room = s.cached} IN
  [keys |-> Replace(s.keys, LAMBDA i : keys[Source(i)], cells),
   values |-> Replace(s.values, LAMBDA i : values[Source(i)], cells),
   cached |-> s.cached + 1]

(* The hybrid runtime copies all heads to one place.                       *)
StoreRow(s, keys, values) ==
  LET offset == s.cached * KvWidth("gated")
      cells == offset..(offset + KvWidth("gated") - 1) IN
  [keys |-> Replace(s.keys, LAMBDA i : keys[i - offset], cells),
   values |-> Replace(s.values, LAMBDA i : values[i - offset], cells),
   cached |-> s.cached + 1]

-----------------------------------------------------------------------------
(* The steps of a call.                                                    *)

Heads == [query |-> QueryHeads, key |-> KvOf(mixer)]
Position == IF "chained" \in DOMAIN mem THEN layer.cached ELSE Len(fed)
NormSizes == [dim |-> Dim]
AttendSizes == [dim |-> Dim, query_heads |-> QueryHeads, kv_heads |-> KvOf(mixer),
                cached |-> layer.cached, capacity |-> Room]
DeltaSizes == [heads |-> ValueHeads, key_dim |-> Dim, value_dim |-> Dim]

gdn_token_mixer == <<"project", "convolve", "delta", "gate", "output">>
attention_token_mixer ==
  <<"project", "norm query", "norm key", "turn query", "turn key", "attend",
    "store", "output">>
chained_qkv_attention_o_buffers ==
  <<"project", "norm query", "norm key", "turn query", "turn key", "attend",
    "output", "append">>
SeparateAttention == <<"project", "processor", "append", "output">>

(* What the input projections leave, and the weights of the dispatches.    *)
Projected(x) ==
  IF mixer = "delta"
  THEN [qkv |-> Project("attn_qkv", Channels, x), z |-> Project("attn_gate", ValueWidth, x),
        alpha |-> Project("ssm_alpha", ValueHeads, x),
        logits |-> Project("ssm_beta", ValueHeads, x),
        weights |-> Tensor("ssm_conv1d", Channels * Taps),
        norm |-> Tensor("ssm_norm", Dim), window |-> layer.conv]
  ELSE LET q == Project("attn_q", IF mixer = "gated" THEN 2 * QueryWidth ELSE QueryWidth, x) IN
       [query |-> Slice(q, 0, QueryWidth), key |-> Project("attn_k", KvWidth(mixer), x),
        value |-> Project("attn_v", KvWidth(mixer), x),
        gate |-> IF mixer = "gated" THEN Slice(q, QueryWidth, QueryWidth) ELSE Nothing,
        query_norm |-> Tensor("attn_q_norm", Dim), key_norm |-> Tensor("attn_k_norm", Dim),
        keys |-> layer.keys, values |-> layer.values]

(* The threads of a dispatch one after the other.                          *)
Dispatched(thread(_, _), m, n, rising) ==
  LET after[k \in 0..n] ==
        IF k = 0 THEN m ELSE thread(after[k - 1], IF rising THEN k - 1 ELSE n - k)
  IN after[n]

NormHeads(m, v, rising) ==
  LET b == <<v, IF v = "query" THEN "query_norm" ELSE "key_norm", "normed">>
      Thread(x, t) == IF mixer = "gated" THEN si_rms_norm_heads(x, b, NormSizes, t)
                      ELSE si_rms_norm_bf16_heads(x, b, NormSizes, t)
      done == Dispatched(Thread, m @@ "normed" :> Nothing, Heads[v], rising) IN
  [done EXCEPT ![v] = done["normed"]]

(* encode_rope turns whole heads, partial_rope a copy of their beginnings. *)
TurnHeads(m, v, rising) ==
  LET dim == IF mixer = "gated" THEN Rotary ELSE Dim
      p == [dim |-> dim, position |-> Position]
      input == IF mixer = "gated" THEN CutHeads(m[v], Heads[v]) ELSE m[v]
      turned == Dispatched(LAMBDA x, t : si_rope(x, <<"in", "turned">>, p, t),
                           "in" :> input @@ "turned" :> Nothing,
                           Heads[v] * (dim \div 2), rising)["turned"] IN
  [m EXCEPT ![v] = IF mixer = "gated" THEN JoinHeads(m[v], turned, Heads[v]) ELSE turned]

AttendBuffers == <<"query", "keys", "values", "key", "value", "core">>
Attend(m, rising) ==
  Dispatched(LAMBDA x, t : si_attention_decode(x, AttendBuffers, AttendSizes, t),
             m @@ "core" :> Nothing, QueryHeads, rising)

(* The processor splits what the convolution left and uploads the state.   *)
Split(m) == Recurrence(m["mixed"], m["alpha"], m["logits"])
            @@ "state" :> layer.recurrent @@ "core" :> Nothing @@ m
DeltaBuffers == <<"query", "key", "value", "gate", "beta", "state", "core">>

(* The dense attention of the processor.                                   *)
OnProcessor(m) ==
  LET Turned(v) == rope_cpu(rms_norm_bf16_cpu(m[v], m[IF v = "query" THEN "query_norm"
                                                       ELSE "key_norm"], Heads[v], Dim),
                            Heads[v], Dim, Position)
      query == Turned("query")
      key == Turned("key") IN
  [m EXCEPT !["query"] = query, !["key"] = key]
    @@ "core" :> attention_decode_cpu(query, layer.keys, layer.values, key, m["value"], AttendSizes)

Convolve(m, rising) ==
  Dispatched(LAMBDA x, t : si_causal_conv1d_step(x, <<"qkv", "weights", "window", "mixed">>,
                                                 [kernel |-> Taps], t),
             m @@ "mixed" :> Nothing, Channels, rising)

Recur(m, rising) ==
  Dispatched(LAMBDA x, t : si_gated_delta_step(x, DeltaBuffers, DeltaSizes, t),
             m, ValueHeads, rising)

GateHeads(m, rising) ==
  LET done == Dispatched(LAMBDA x, t : si_rms_norm_gated(x,
                           <<"core", "z", "norm", "gated">>, NormSizes, t),
                         m @@ "gated" :> Nothing, ValueHeads, rising) IN
  [done EXCEPT !["core"] = done["gated"]]

Effect(step, m, rising) ==
  CASE step = "project" -> Projected(HiddenOf(token)) @@ m
    [] step = "convolve" -> Split(Convolve(m, rising))
    [] step = "delta" -> Recur(m, rising)
    [] step = "gate" -> GateHeads(m, rising)
    [] step \in {"norm query", "norm key"} ->
         NormHeads(m, IF step = "norm query" THEN "query" ELSE "key", rising)
    [] step \in {"turn query", "turn key"} ->
         TurnHeads(m, IF step = "turn query" THEN "query" ELSE "key", rising)
    [] step = "attend" -> Attend(m, rising)
    [] step = "store" -> [m EXCEPT !["core"] = GateAttended(@, m["gate"])]
    [] step = "processor" -> OnProcessor(m)
    [] step = "output" -> "projected" :> Project("output", Hidden, m["core"]) @@ m
    [] step = "append" -> m

(* What a step leaves in the layer.                                        *)
LayerAfter(step, m) ==
  CASE step = "convolve" -> [layer EXCEPT !.conv = m["window"]]
    [] step = "delta" -> [layer EXCEPT !.recurrent = m["state"]]
    [] step = "store" -> StoreRow(layer, m["key"], m["value"])
    [] step = "append" -> append_token(layer, m["key"], m["value"])
    [] OTHER -> layer

(* The full layer refuses: the hybrid runtime before it attends, the       *)
(* chained command before it is encoded, the cache before it is filled.    *)
Refused(step) ==
  /\ Full
  /\ \/ mixer = "gated" /\ step = "attend"
     \/ step = "project" /\ "chained" \in DOMAIN mem
     \/ step = "append"

-----------------------------------------------------------------------------
MixersInit ==
  /\ setup \in [mixer : Mixers, parallel : BOOLEAN]
  /\ setup.parallel => mixer = "delta" /\ \E limit \in GroupLimits : Dim <= limit
  /\ layer = Fresh(setup.mixer)
  /\ fed = Nothing
  /\ token = 0 /\ todo = Nothing /\ mem = Nothing
  /\ lanes = Nothing /\ dots = Nothing
  /\ stage = "ready"
  /\ reply = Nothing

Call(x, chained) ==
  /\ stage = "ready"
  /\ Len(fed) < MaxTokens
  /\ stage' = "busy"
  /\ token' = x
  /\ todo' = CASE mixer = "delta" -> gdn_token_mixer
               [] mixer = "gated" -> attention_token_mixer
               [] mixer = "dense" -> IF chained THEN chained_qkv_attention_o_buffers
                                     ELSE SeparateAttention
  /\ mem' = IF chained THEN "chained" :> TRUE ELSE Nothing
  /\ reply' = Nothing
  /\ UNCHANGED <<setup, layer, fed, lanes, dots>>

Step(rising) ==
  LET step == Head(todo) IN
  /\ stage = "busy" /\ todo # Nothing
  /\ ~(step = "delta" /\ setup.parallel)
  /\ ~Refused(step)
  /\ mem' = Effect(step, mem, rising)
  /\ layer' = LayerAfter(step, mem')
  /\ todo' = Tail(todo)
  /\ UNCHANGED <<setup, fed, token, lanes, dots, stage, reply>>

(* The parallel delta step: a threadgroup for each head, a thread for each *)
(* column.  Until the first thread has stored it, the dot product is any   *)
(* number; here it is the largest.                                         *)
Launch ==
  /\ stage = "busy" /\ todo # Nothing
  /\ Head(todo) = "delta" /\ setup.parallel
  /\ lanes = Nothing
  /\ lanes' = [h \in Upto(ValueHeads) |-> [v \in Upto(Dim) |-> "start"]]
  /\ dots' = [h \in Upto(ValueHeads) |-> Modulus - 1]
  /\ UNCHANGED <<setup, layer, fed, token, todo, mem, stage, reply>>

(* A fault for comparison: no thread waits for the others.                 *)
StartOn(h, v) ==
  /\ lanes # Nothing /\ lanes[h][v] = "start"
  /\ lanes' = [lanes EXCEPT ![h][v] = "update"]
  /\ dots' = IF v = 0 THEN [dots EXCEPT ![h] = KeyQueryDot(mem, DeltaBuffers, DeltaSizes, h)]
             ELSE dots
  /\ UNCHANGED <<setup, layer, fed, token, todo, mem, stage, reply>>

Start(h, v) ==
  /\ lanes # Nothing /\ lanes[h][v] = "start"
  /\ lanes' = [lanes EXCEPT ![h][v] = "barrier"]
  /\ dots' = IF v = 0 THEN [dots EXCEPT ![h] = KeyQueryDot(mem, DeltaBuffers, DeltaSizes, h)]
             ELSE dots
  /\ UNCHANGED <<setup, layer, fed, token, todo, mem, stage, reply>>

Meet(h) ==
  /\ lanes # Nothing
  /\ \A v \in Upto(Dim) : lanes[h][v] = "barrier"
  /\ lanes' = [lanes EXCEPT ![h] = [v \in Upto(Dim) |-> "update"]]
  /\ UNCHANGED <<setup, layer, fed, token, todo, mem, dots, stage, reply>>

Update(h, v) ==
  /\ lanes # Nothing /\ lanes[h][v] = "update"
  /\ mem' = si_gated_delta_step_parallel(mem, DeltaBuffers, DeltaSizes, h, v, dots[h])
  /\ lanes' = [lanes EXCEPT ![h][v] = "done"]
  /\ UNCHANGED <<setup, layer, fed, token, todo, dots, stage, reply>>

ReadBack ==
  /\ lanes # Nothing
  /\ \A h \in Upto(ValueHeads), v \in Upto(Dim) : lanes[h][v] = "done"
  /\ layer' = LayerAfter("delta", mem)
  /\ todo' = Tail(todo)
  /\ lanes' = Nothing /\ dots' = Nothing
  /\ UNCHANGED <<setup, fed, token, mem, stage, reply>>

Return ==
  /\ stage = "busy" /\ todo = Nothing
  /\ stage' = "ready"
  /\ fed' = Append(fed, token)
  /\ reply' = mem["projected"]
  /\ token' = 0 /\ mem' = Nothing
  /\ UNCHANGED <<setup, layer, todo, lanes, dots>>

(* A command that does not complete, or a refusal, makes the call an error *)
(* and the session useless until it is reset.                              *)
Break ==
  /\ stage = "busy" /\ todo # Nothing
  /\ Refused(Head(todo)) \/ Head(todo) \notin {"processor", "store", "append"}
  /\ stage' = "broken"
  /\ token' = 0 /\ todo' = Nothing /\ mem' = Nothing
  /\ lanes' = Nothing /\ dots' = Nothing
  /\ UNCHANGED <<setup, layer, fed, reply>>

(* reset of the hybrid runtime makes new states, that of the dense runtime *)
(* leaves the rows where they are.                                         *)
Restart ==
  /\ stage # "busy"
  /\ layer' = IF mixer = "dense" THEN [layer EXCEPT !.cached = 0] ELSE Fresh(mixer)
  /\ fed' = Nothing /\ reply' = Nothing /\ stage' = "ready"
  /\ UNCHANGED <<setup, call_vars>>

(* A rejected suffix is cut off.                                           *)
CutTo(n) ==
  /\ stage = "ready" /\ mixer = "dense"
  /\ layer' = [layer EXCEPT !.cached = n]
  /\ fed' = SubSeq(fed, 1, n) /\ reply' = Nothing
  /\ UNCHANGED <<setup, call_vars, stage>>

MixersNext ==
  \/ \E x \in Inputs, chained \in BOOLEAN : (chained => mixer = "dense") /\ Call(x, chained)
  \/ \E rising \in BOOLEAN : Step(rising)
  \/ Launch
  \/ \E h \in Upto(ValueHeads), v \in Upto(Dim) : Start(h, v) \/ Update(h, v)
  \/ \E h \in Upto(ValueHeads) : Meet(h)
  \/ ReadBack
  \/ Return
  \/ Break
  \/ Restart
  \/ \E n \in 0..(Len(fed) - 1) : CutTo(n)

-----------------------------------------------------------------------------
(* What the layer has to answer, from the tokens alone.                    *)

DeltaReference(s, x) ==
  LET h == HiddenOf(x)
      p == [heads |-> ValueHeads, key_dim |-> Dim, value_dim |-> Dim]
      mixed == causal_conv1d_step(Project("attn_qkv", Channels, h), s.conv,
                                  Tensor("ssm_conv1d", Channels * Taps), Taps)
      r == Recurrence(mixed.output, Project("ssm_alpha", ValueHeads, h),
                      Project("ssm_beta", ValueHeads, h))
      core == GatedDeltaStep(s.recurrent, r.query, r.key, r.value, r.gate, r.beta, p) IN
  [conv |-> mixed.state, recurrent |-> core.state,
   out |-> gated_rms_norm(core.output, Project("attn_gate", ValueWidth, h),
                          Tensor("ssm_norm", Dim), ValueHeads, Dim)]

DeltaAfter(tokens) ==
  LET after[n \in 0..Len(tokens)] ==
        IF n = 0 THEN Fresh("delta") @@ "out" :> Nothing
        ELSE DeltaReference(after[n - 1], tokens[n])
  IN after[Len(tokens)]

HeadsAt(kind, v, norm, heads, position) ==
  IF kind = "dense"
  THEN rope_cpu(rms_norm_bf16_cpu(v, norm, heads, Dim), heads, Dim, position)
  ELSE LET n == rms_norm_heads(v, norm, heads, Dim) IN
       JoinHeads(n, rope_cpu(CutHeads(n, heads), heads, Rotary, position), heads)

(* Every query head weighs all tokens by its key-value head, wherever the  *)
(* rows are kept.                                                          *)
AttentionReference(kind, tokens) ==
  LET n == Len(tokens)
      kv == KvOf(kind)
      h == HiddenOf(tokens[n])
      q == Project("attn_q", IF kind = "gated" THEN 2 * QueryWidth ELSE QueryWidth, h)
      query == HeadsAt(kind, Slice(q, 0, QueryWidth), Tensor("attn_q_norm", Dim),
                       QueryHeads, n - 1)
      keys == Table([t \in 1..n |-> HeadsAt(kind,
                 Project("attn_k", KvWidth(kind), HiddenOf(tokens[t])),
                 Tensor("attn_k_norm", Dim), kv, t - 1)])
      values == Table([t \in 1..n |-> Project("attn_v", KvWidth(kind), HiddenOf(tokens[t]))])
      owner(head) == (head * kv) \div QueryHeads
      score == Table([head \in Upto(QueryHeads), t \in 1..n |->
        (Scale(Dim) * Total(Upto(Dim), LAMBDA d :
           query[head * Dim + d] * keys[t][owner(head) * Dim + d])) % Modulus])
      weight == Table([head \in Upto(QueryHeads), t \in 1..n |->
        Exponential(score[head, t] - Max({score[head, u] : u \in 1..n}))])
      attended == Numbers(QueryWidth, LAMBDA i :
        Reciprocal(Total(1..n, LAMBDA t : weight[i \div Dim, t]))
          * Total(1..n, LAMBDA t :
              weight[i \div Dim, t] * values[t][owner(i \div Dim) * Dim + (i % Dim)])) IN
  IF kind = "gated" THEN GateAttended(attended, Slice(q, QueryWidth, QueryWidth))
  ELSE attended

(* Whatever kernel or path a call took, in whatever order its threads ran, *)
(* and whatever was cut off or reset before: it hands over what the        *)
(* reference makes of the tokens fed, and a delta layer holds the          *)
(* reference's window and matrix.                                          *)
MixersExact ==
  /\ stage = "ready" /\ reply # Nothing =>
       reply = Project("output", Hidden,
                       IF mixer = "delta" THEN DeltaAfter(fed).out
                       ELSE AttentionReference(mixer, fed))
  /\ stage = "ready" /\ mixer = "delta" =>
       \A part \in {"conv", "recurrent"} : layer[part] = DeltaAfter(fed)[part]
=============================================================================
