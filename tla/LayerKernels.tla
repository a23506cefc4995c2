---------------------------- MODULE LayerKernels ----------------------------
(***************************************************************************)
(* The kernels between the projections of a layer (the shader source in    *)
(* src/src/metal.rs) and the functions of the processor that compute the   *)
(* same (src/src/qwen35.rs, src/src/runtime.rs).                           *)
(*                                                                         *)
(* A number is a residue: sums and products are exact, so that two ways to *)
(* compute the same polynomial agree and two different ones agree only by  *)
(* accident.  A square root, an exponential or a sine is a fixed function  *)
(* that tells its arguments apart.  Rounding is left out.                  *)
(*                                                                         *)
(* A kernel is what one of its threads makes of the memory m; b names its  *)
(* buffers in the order they are bound, p holds its sizes.                 *)
(***************************************************************************)
EXTENDS Integers, Sequences, FiniteSetsExt, TLC

CONSTANT Modulus

ASSUME ModulusAssumption == Modulus \in Nat \ {0, 1}

Upto(n) == 0..(n - 1)
Total(S, f(_)) == MapThenSumSet(f, S) % Modulus

(* Joining a function with the empty one makes TLC evaluate it only once.  *)
Table(f) == f @@ <<>>
Numbers(n, f(_)) == Table([i \in Upto(n) |-> f(i) % Modulus])

Exponential(x) == LET n == x % Modulus IN (n * n * n + n + 7) % Modulus
Reciprocal(x) == LET n == x % Modulus IN (n * n * n + 2 * n + 5) % Modulus
InverseRoot(x, n) == ((x % Modulus) * (x % Modulus) + 3 * n + 1) % Modulus
Sine(a) == (a * a * a + a) % Modulus
Cosine(a) == (a * a + 1) % Modulus
Angle(position, pair, dim) == (position * (11 * pair + dim + 2)) % Modulus
Sigmoid(x) == Reciprocal(1 + Exponential(-x))
silu(x) == (x * Sigmoid(x)) % Modulus
Scale(dim) == InverseRoot(dim, 0)

(* The mean square of n numbers from base on decides the factor of a norm. *)
InverseRms(v, base, n) ==
  InverseRoot(Total(base..(base + n - 1), LAMBDA i : v[i] * v[i]), n)

Write(m, name, cells) ==
  [m EXCEPT ![name] = [i \in DOMAIN cells |-> cells[i] % Modulus] @@ @]

-----------------------------------------------------------------------------
(* Kernels.                                                                *)

Cells(p, head) == (head * p.dim)..(head * p.dim + p.dim - 1)

si_rms_norm_bf16_heads(m, b, p, head) ==
  LET inverse == InverseRms(m[b[1]], head * p.dim, p.dim) IN
  Write(m, b[3], [i \in Cells(p, head) |->
                    m[b[1]][i] * inverse * m[b[2]][i - head * p.dim]])

si_rms_norm_heads(m, b, p, head) ==
  LET inverse == InverseRms(m[b[1]], head * p.dim, p.dim) IN
  Write(m, b[3], [i \in Cells(p, head) |->
                    m[b[1]][i] * inverse * (1 + m[b[2]][i - head * p.dim])])

si_rms_norm_gated(m, b, p, head) ==
  LET inverse == InverseRms(m[b[1]], head * p.dim, p.dim) IN
  Write(m, b[4], [i \in Cells(p, head) |->
                    ((m[b[1]][i] * inverse) % Modulus)
                      * ((m[b[3]][i - head * p.dim] * silu(m[b[2]][i])) % Modulus)])

(* A thread turns a pair of neighbours of a head.                          *)
si_rope(m, b, p, pair) ==
  LET head == pair \div (p.dim \div 2)
      inHead == pair % (p.dim \div 2)
      angle == Angle(p.position, inHead, p.dim)
      offset == head * p.dim + 2 * inHead
      first == m[b[1]][offset]
      second == m[b[1]][offset + 1] IN
  Write(m, b[2], offset :> first * Cosine(angle) - second * Sine(angle)
                 @@ offset + 1 :> first * Sine(angle) + second * Cosine(angle))

(* Query, key storage, value storage, new keys, new values, output.  A     *)
(* thread answers for one query head: it weighs the cached tokens of the   *)
(* key-value head it shares, and the new token.                            *)
si_attention_decode(m, b, p, head) ==
  LET kv == head \div (p.query_heads \div p.kv_heads)
      row(token) == (kv * p.capacity + token) * p.dim
      Element(cache, new, token, d) ==
        IF token < p.cached THEN m[cache][row(token) + d] ELSE m[new][kv * p.dim + d]
      score == Table([token \in 0..p.cached |->
                  (Scale(p.dim) * Total(Upto(p.dim), LAMBDA d :
                     m[b[1]][head * p.dim + d] * Element(b[2], b[4], token, d))) % Modulus])
      top == Max({score[token] : token \in 0..p.cached})
      weight == Table([token \in 0..p.cached |-> Exponential(score[token] - top)])
      normalizer == Total(0..p.cached, LAMBDA token : weight[token]) IN
  Write(m, b[6], [i \in Cells(p, head) |->
    Reciprocal(normalizer) * Total(0..p.cached, LAMBDA token :
      weight[token] * Element(b[3], b[5], token, i - head * p.dim))])

(* Input, weights, window, output: a thread has a channel and moves its    *)
(* window on.                                                              *)
si_causal_conv1d_step(m, b, p, channel) ==
  LET taps == p.kernel - 1
      base == channel * taps
      x == m[b[1]][channel]
      value == (x * m[b[2]][channel * p.kernel + taps]
                + Total(Upto(taps), LAMBDA tap :
                    m[b[3]][base + tap] * m[b[2]][channel * p.kernel + tap])) % Modulus IN
  Write(Write(m, b[4], channel :> silu(value)),
        b[3], [i \in base..(base + taps - 1) |->
                 IF i < base + taps - 1 THEN m[b[3]][i + 1] ELSE x])

(* Query, key, value, gate, beta, state, output: a thread has a head.      *)
si_gated_delta_step(m, b, p, head) ==
  LET at(k, v) == head * p.key_dim * p.value_dim + k * p.value_dim + v
      key(k) == m[b[2]][head * p.key_dim + k]
      query(k) == m[b[1]][head * p.key_dim + k]
      decay == Exponential(m[b[4]][head])
      values == Upto(p.value_dim)
      keys == Upto(p.key_dim)
      decayed == Table([k \in keys, v \in values |-> (m[b[6]][at(k, v)] * decay) % Modulus])
      memory == Table([v \in values |-> Total(keys, LAMBDA k : decayed[k, v] * key(k))])
      delta == Table([v \in values |->
                  ((m[b[3]][head * p.value_dim + v] - memory[v]) * m[b[5]][head]) % Modulus])
      updated == Table([k \in keys, v \in values |->
                        (decayed[k, v] + key(k) * delta[v]) % Modulus])
      place(i) == i - head * p.key_dim * p.value_dim IN
  Write(Write(m, b[6], [i \in at(0, 0)..at(p.key_dim - 1, p.value_dim - 1) |->
                          updated[place(i) \div p.value_dim, place(i) % p.value_dim]]),
        b[7], [i \in (head * p.value_dim)..(head * p.value_dim + p.value_dim - 1) |->
                 Total(keys, LAMBDA k : updated[k, i - head * p.value_dim] * query(k))])

(* The parallel form has a threadgroup for a head and a thread for a       *)
(* column.  The first thread computes what all of them need,               *)
KeyQueryDot(m, b, p, head) ==
  Total(Upto(p.key_dim), LAMBDA k :
    m[b[2]][head * p.key_dim + k] * m[b[1]][head * p.key_dim + k])

(* and behind the barrier each brings its own column up to date.           *)
si_gated_delta_step_parallel(m, b, p, head, v, dot) ==
  LET at(k) == head * p.key_dim * p.value_dim + v + k * p.value_dim
      key(k) == m[b[2]][head * p.key_dim + k]
      keys == Upto(p.key_dim)
      decay == Exponential(m[b[4]][head])
      old == [k \in keys |-> (m[b[6]][at(k)] * decay) % Modulus]
      memory == Total(keys, LAMBDA k : old[k] * key(k))
      sum == Total(keys, LAMBDA k : old[k] * m[b[1]][head * p.key_dim + k])
      delta == ((m[b[3]][head * p.value_dim + v] - memory) * m[b[5]][head]) % Modulus IN
  Write(Write(m, b[6], [i \in {at(k) : k \in keys} |->
                          LET k == (i - at(0)) \div p.value_dim IN old[k] + key(k) * delta]),
        b[7], head * p.value_dim + v :> sum + delta * dot)

-----------------------------------------------------------------------------
(* The same on the processor, vector by vector.                            *)

rms_norm_bf16_cpu(input, weight, heads, dim) ==
  Numbers(heads * dim, LAMBDA i :
    input[i] * InverseRms(input, (i \div dim) * dim, dim) * weight[i % dim])

rms_norm_heads(input, weight, heads, dim) ==
  Numbers(heads * dim, LAMBDA i :
    input[i] * InverseRms(input, (i \div dim) * dim, dim) * (1 + weight[i % dim]))

gated_rms_norm(input, gate, weight, heads, dim) ==
  Numbers(heads * dim, LAMBDA i :
    ((input[i] * InverseRms(input, (i \div dim) * dim, dim)) % Modulus)
      * ((weight[i % dim] * silu(gate[i])) % Modulus))

rope_cpu(input, heads, dim, position) ==
  Numbers(heads * dim, LAMBDA i :
    LET angle == Angle(position, (i % dim) \div 2, dim) IN
    IF i % 2 = 0 THEN input[i] * Cosine(angle) - input[i + 1] * Sine(angle)
                 ELSE input[i - 1] * Sine(angle) + input[i] * Cosine(angle))

(* keys and values are the storage of a cache of that capacity.            *)
attention_decode_cpu(query, keys, values, newKeys, newValues, p) ==
  LET share == p.query_heads \div p.kv_heads
      Slice(store, new, kv, token) ==
        IF token < p.cached
        THEN [d \in Upto(p.dim) |-> store[(kv * p.capacity + token) * p.dim + d]]
        ELSE [d \in Upto(p.dim) |-> new[kv * p.dim + d]]
      scores == Table([head \in Upto(p.query_heads) |-> Table([token \in 0..p.cached |->
        LET slice == Slice(keys, newKeys, head \div share, token) IN
        (Scale(p.dim) * Total(Upto(p.dim), LAMBDA d :
           query[head * p.dim + d] * slice[d])) % Modulus])])
      weights == Table([head \in Upto(p.query_heads) |-> Table([token \in 0..p.cached |->
        Exponential(scores[head][token] - Max({scores[head][t] : t \in 0..p.cached}))])]) IN
  Numbers(p.query_heads * p.dim, LAMBDA i :
    LET head == i \div p.dim IN
    Reciprocal(Total(0..p.cached, LAMBDA t : weights[head][t]))
      * Total(0..p.cached, LAMBDA t :
          weights[head][t] * Slice(values, newValues, head \div share, t)[i % p.dim]))

(* Output and window of causal_conv1d_step.                                *)
causal_conv1d_step(input, state, weights, kernel) ==
  LET taps == kernel - 1
      channels == Cardinality(DOMAIN input) IN
  [output |-> Numbers(channels, LAMBDA c :
     silu(input[c] * weights[c * kernel + taps]
          + Total(Upto(taps), LAMBDA tap : state[c * taps + tap] * weights[c * kernel + tap]))),
   state |-> Numbers(channels * taps, LAMBDA i :
     IF i % taps = taps - 1 THEN input[i \div taps] ELSE state[i + 1])]

(* Output and state of GatedDeltaState::step.                              *)
GatedDeltaStep(state, query, key, value, gate, beta, p) ==
  LET decayed(h, k, v) ==
        (state[(h * p.key_dim + k) * p.value_dim + v] * Exponential(gate[h])) % Modulus
      delta == Table([h \in Upto(p.heads), v \in Upto(p.value_dim) |->
        ((value[h * p.value_dim + v]
          - Total(Upto(p.key_dim), LAMBDA k : decayed(h, k, v) * key[h * p.key_dim + k]))
         * beta[h]) % Modulus])
      updated == Table([h \in Upto(p.heads), k \in Upto(p.key_dim), v \in Upto(p.value_dim) |->
        (decayed(h, k, v) + key[h * p.key_dim + k] * delta[h, v]) % Modulus]) IN
  [output |-> Numbers(p.heads * p.value_dim, LAMBDA i :
     Total(Upto(p.key_dim), LAMBDA k :
       updated[i \div p.value_dim, k, i % p.value_dim]
         * query[(i \div p.value_dim) * p.key_dim + k])),
   state |-> Numbers(p.heads * p.key_dim * p.value_dim, LAMBDA i :
     updated[i \div (p.key_dim * p.value_dim), (i \div p.value_dim) % p.key_dim,
             i % p.value_dim])]
=============================================================================
