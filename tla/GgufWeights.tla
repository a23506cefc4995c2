----------------------------- MODULE GgufWeights ----------------------------
(***************************************************************************)
(* Where the hybrid runtime finds a weight: the ranges of a GGUF file      *)
(* (parse_gguf and GgufModelStore in src/src/model.rs), the weights kept   *)
(* from the start, the layers staged as packed runs, and the choice among  *)
(* them that a projection makes (src/src/qwen35_runtime.rs).               *)
(*                                                                         *)
(* A byte of the file is known by its position, so that the bytes of a     *)
(* tensor, wherever they were copied to, are a sequence of positions.      *)
(***************************************************************************)
EXTENDS Integers, SequencesExt, FiniteSetsExt

CONSTANTS
  Files,  \* Files[f]: [header, align, size, tensors], tensors a set of
          \* [layer, role, type, offset, payload]
  Gap     \* the gap two tensors of a run may have (4096)

(* A tensor is known by where it lies: no two of a file begin at one place. *)
ASSUME GgufAssumption ==
  /\ Gap \in Nat
  /\ \A f \in DOMAIN Files :
       /\ Files[f].align \in Nat \ {0} /\ {Files[f].header, Files[f].size} \subseteq Nat
       /\ IsFiniteSet(Files[f].tensors)
       /\ \A t \in Files[f].tensors : {t.offset, t.payload} \subseteq Nat
       /\ \A t, u \in Files[f].tensors : t.offset = u.offset => t = u

RefusedBytes == <<"refused">>

-----------------------------------------------------------------------------
(* The file.  A tensor reaches to the one behind it, the last one to the   *)
(* end of the file: the range holds the padding as well.                   *)
AlignedUp(n, align) == ((n + align - 1) \div align) * align
DataBase(f) == AlignedUp(Files[f].header, Files[f].align)
Behind(f, t) == {u \in Files[f].tensors : u.offset > t.offset}

Data(f) ==
  [t \in Files[f].tensors |->
     [start |-> DataBase(f) + t.offset,
      end |-> IF Behind(f, t) = {} THEN Files[f].size
              ELSE DataBase(f) + Min({u.offset : u \in Behind(f, t)})]]

(* is_power_of_two: no odd number but 1 divides it.                        *)
PowerOfTwo(n) == \A d \in 2..n : n % d = 0 => d % 2 = 0

Opens(f) ==
  /\ PowerOfTwo(Files[f].align)
  /\ \A t \in Files[f].tensors :
       LET range == Data(f)[t] IN range.start <= range.end /\ range.end <= Files[f].size

Positions(from, to) == [i \in 1..(to - from) |-> from + i - 1]

-----------------------------------------------------------------------------
(* Weights kept from the start (new_with_retained_layers_and_head).  A     *)
(* profile is chosen by the environment, and only if no layers are         *)
(* retained as a whole.                                                    *)
OnStride(layer, stride, offset) == stride # 0 /\ layer % stride = offset % stride

Retains(profile, t) ==
  LET p == IF profile.layers = 0 THEN profile
           ELSE [profile EXCEPT !.mlpLayers = 0, !.mlpStride = 0, !.q6Layers = 0,
                                !.downStride = 0, !.attentionStride = 0, !.full = {}]
  IN  \/ t.layer < p.layers
      \/ /\ t.role \in {"gate", "up"}
         /\ t.layer < p.mlpLayers \/ OnStride(t.layer, p.mlpStride, p.mlpOffset)
      \/ t.layer < p.q6Layers /\ t.type = "Q6"
      \/ t.role = "down" /\ OnStride(t.layer, p.downStride, p.downOffset)
      \/ /\ t.role \in {"q", "k", "v", "output"}
         /\ OnStride(t.layer, p.attentionStride, p.attentionOffset)
      \/ t.layer \in p.full

Active(s) == {t \in Files[s.file].tensors :
                t.type # "F32" /\ (s.mapAll \/ Retains(s.profile, t))}
HostCopies(s) == {t \in Files[s.file].tensors : t.layer < s.host}

-----------------------------------------------------------------------------
(* A staged layer (stage_qwen35_layer_packed, promote_staged_layer).       *)
Wanted(s, layer) ==
  {t \in Files[s.file].tensors \ (Active(s) \union HostCopies(s)) :
     t.layer = layer /\ t.type # "F32"}

ByStart(tensors) ==
  [i \in 1..Cardinality(tensors) |->
     CHOOSE t \in tensors : Cardinality({u \in tensors : u.offset < t.offset}) = i - 1]

(* A fault for comparison: what the gap holds is read whatever its size.   *)
NearAnyway(run, range) == TRUE

(* Tensors with a small gap between them are read together.                *)
Near(run, range) == range.start <= run.end + Gap

Extended(runs, range) ==
  IF runs # <<>> /\ Near(Last(runs), range)
  THEN [runs EXCEPT ![Len(runs)].end = Max({@, range.end})]
  ELSE Append(runs, range)

Runs(s, layer) ==
  LET data == Data(s.file)
      order == ByStart(Wanted(s, layer))
      runs[i \in 0..Len(order)] ==
        IF i = 0 THEN <<>> ELSE Extended(runs[i - 1], data[order[i]])
  IN  runs[Len(order)]

(* The bytes of the first runs.                                            *)
PackedTo(runs) ==
  LET packed[i \in 0..Len(runs)] ==
        IF i = 0 THEN <<>> ELSE packed[i - 1] \o Positions(runs[i].start, runs[i].end)
  IN  packed

Packed(runs) == PackedTo(runs)[Len(runs)]

(* A fault for comparison: the runs before it are forgotten.               *)
InItsRun(runs, i) == 0

(* Bytes packed before the i-th run.                                       *)
Before(runs, i) == Len(PackedTo(runs)[i - 1])

(* Where the packed layer holds a tensor of it.                            *)
RangeIn(runs, range) ==
  LET i == Max({j \in DOMAIN runs : runs[j].start <= range.start /\ range.end <= runs[j].end})
      start == Before(runs, i) + range.start - runs[i].start
  IN  [start |-> start, end |-> start + range.end - range.start]

StagedQwenLayer(s, layer) ==
  LET runs == Runs(s, layer) IN
  [bytes  |-> Packed(runs),
   ranges |-> [t \in Wanted(s, layer) |-> RangeIn(runs, Data(s.file)[t])]]

(* What a process has and reads: the tensors of its file, those it keeps,  *)
(* and what staging a layer yields.                                        *)
Opened(s) ==
  [settings |-> s,
   data     |-> Data(s.file),
   active   |-> Active(s),
   staged   |-> [layer \in {t.layer : t \in Files[s.file].tensors} |->
                   StagedQwenLayer(s, layer)]]

-----------------------------------------------------------------------------
(* What a projection of process p reads; staged: the layer staged, or -1.  *)
BytesOf(p, t) == Positions(p.data[t].start, p.data[t].end)
PayloadOf(p, t) == Positions(p.data[t].start, p.data[t].start + t.payload)

Holds(p, staged, t) == staged = t.layer /\ t \in DOMAIN p.staged[staged].ranges

StagedBytes(p, t) ==
  LET layer == p.staged[t.layer]
  IN  SubSeq(layer.bytes, layer.ranges[t].start + 1, layer.ranges[t].end)

(* A weight with a length of its own must have the length of its matrix.   *)
Whole(bytes, t) == IF Len(bytes) = t.payload THEN bytes ELSE RefusedBytes

(* Of a view of the file the matrix is the beginning.                      *)
Beginning(bytes, t) ==
  IF Len(bytes) >= t.payload THEN SubSeq(bytes, 1, t.payload) ELSE RefusedBytes

(* gguf_matvec_with_retained                                               *)
Alone(p, staged, t) ==
  LET bytes == BytesOf(p, t) IN
  CASE t \in p.active         -> Whole(bytes, t)
    [] t \notin p.active /\ Holds(p, staged, t) -> Whole(StagedBytes(p, t), t)
    [] t \notin p.active /\ ~Holds(p, staged, t) ->
         IF staged = -1 /\ p.settings.payload /\ t.type # "F32" THEN Whole(bytes, t)
         ELSE Beginning(bytes, t)

(* Projections of one input: qkv and gate, or query, key and value.        *)
Grouped(p, staged, group, t) ==
  CASE group \subseteq p.active -> Whole(BytesOf(p, t), t)
    [] group \cap p.active # {} /\ ~(group \subseteq p.active) -> Alone(p, staged, t)
    [] group \cap p.active = {} /\ p.settings.group /\ staged # -1 ->
         IF ~p.settings.private /\ \A u \in group : Holds(p, staged, u)
         THEN Whole(StagedBytes(p, t), t) ELSE Alone(p, staged, t)
    [] OTHER -> Beginning(BytesOf(p, t), t)

(* A matrix that is a weight for itself: kept, or staged.                  *)
IsWeight(p, staged, t) == t \in p.active \/ Holds(p, staged, t)
WeightBytes(p, t) == IF t \in p.active THEN BytesOf(p, t) ELSE StagedBytes(p, t)

(* Gate and up are multiplied together, down after them or with them.      *)
Gated(p, staged, mlp, t) ==
  LET together == IF p.settings.fused THEN mlp ELSE {u \in mlp : u.role # "down"}
  IN  IF \A u \in together : IsWeight(p, staged, u) THEN Whole(WeightBytes(p, t), t)
      ELSE Whole(IF ~p.settings.private /\ Holds(p, staged, t) THEN StagedBytes(p, t)
                 ELSE BytesOf(p, t), t)

Down(p, staged, mlp, t) ==
  IF p.settings.fused /\ \A u \in mlp : IsWeight(p, staged, u) THEN Whole(WeightBytes(p, t), t)
  ELSE Alone(p, staged, t)

(* gguf_matmul_many_with_retained: candidates share the matrix.            *)
ForMany(p, staged, t) ==
  IF t \in p.active \/ Holds(p, staged, t) THEN Whole(WeightBytes(p, t), t)
  ELSE IF t.type = "F32" THEN RefusedBytes
  ELSE Whole(BytesOf(p, t), t)
=============================================================================
