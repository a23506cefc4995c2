---------------------------- MODULE Qwen35Weights ---------------------------
(***************************************************************************)
(* The staging pipeline with the weights it is for: the file, what is kept *)
(* of it, and the settings are chosen with the process, and every layer    *)
(* multiplies by the weights it finds.                                     *)
(***************************************************************************)
EXTENDS Qwen35Stage, GgufWeights

CONSTANT
  Processes  \* [file, host, profile, mapAll, private, group, fused, payload]:
             \* the file and the settings of a process; host counts the
             \* layers copied into host memory (retain_prefix_layers)

(* A layer with no tensors has no kind: qwen35_layer_kind refuses it.      *)
ASSUME ProcessesAssumption ==
  \A s \in Processes : /\ s.file \in DOMAIN Files
                       /\ Layer \subseteq {t.layer : t \in Files[s.file].tensors}

VARIABLE process

WInit == process \in {Opened(s) : s \in {s \in Processes : Opens(s.file)}} /\ Init
WNext == Next /\ UNCHANGED process
WSpec ==
  /\ WInit /\ [][WNext]_<<vars, process>>
  /\ WF_vars(Main) /\ \A l \in Layer : WF_vars(Read(l))

(* The staged layer the projections of the running layer are given.        *)
InHand == IF staged = None THEN -1 ELSE staged

OfLayer(role) == {t \in DOMAIN process.data : t.layer = layer /\ t.role \in role}
Group == OfLayer({"qkv", "z", "q", "k", "v"})
Mlp == OfLayer({"gate", "up", "down"})

(* f32_values takes a norm out of the file if its length is the shape's.   *)
Found(t) ==
  CASE t.role = "norm" -> Whole(BytesOf(process, t), t)
    [] t.role # "norm" /\ call = "window" -> ForMany(process, InHand, t)
    [] call # "window" /\ t \in Group -> Grouped(process, InHand, Group, t)
    [] call # "window" /\ t.role \in {"gate", "up"} -> Gated(process, InHand, Mlp, t)
    [] call # "window" /\ t.role = "down" -> Down(process, InHand, Mlp, t)
    [] OTHER -> Alone(process, InHand, t)

(* Wherever a layer finds a matrix - kept from the start, in the runs its  *)
(* staging thread packed, read by itself or in the file - it multiplies by *)
(* the matrix of the file, or not at all: if the file has padding behind   *)
(* it, so that its length is not the matrix's, or if a window meets a      *)
(* matrix that is not quantised.                                           *)
WeightsExact ==
  pc = "execute" =>
    \A t \in OfLayer({"qkv", "z", "q", "k", "v", "ssm_out", "output",
                      "gate", "up", "down", "norm"}) :
      \/ Found(t) = PayloadOf(process, t)
      \/ /\ Found(t) = RefusedBytes
         /\ \/ Len(BytesOf(process, t)) # t.payload
            \/ call = "window" /\ t.role # "norm" /\ t.type = "F32"

(* A staged layer holds its tensors and small gaps: what is kept elsewhere *)
(* is not read again, except where it fits in a gap.                       *)
StagedOnce ==
  \A l \in Layer : thread[l] = "ok" =>
    LET read == process.staged[l] IN
    \A t \in DOMAIN process.data \ DOMAIN read.ranges :
      Len(BytesOf(process, t)) > Gap => ToSet(BytesOf(process, t)) \cap ToSet(read.bytes) = {}
=============================================================================
