---------------------------- MODULE MCQwen35Stage ---------------------------
(* Five layers, attention in every second one.  In tight files a matrix    *)
(* ends where the next begins, in padded ones it does not; in spread ones  *)
(* the down matrices of all layers come last, so that a layer has two      *)
(* runs.  short ends before its last matrix does; odd cannot be opened.    *)
EXTENDS Qwen35Weights, TLC

MCN == 5
Mixer(l) == IF l % 2 = 1 THEN <<"q", "k", "v", "output">> ELSE <<"qkv", "z", "ssm_out">>
Roles(l) == <<"norm">> \o Mixer(l) \o <<"gate", "up", "down">>
OneLayer(l, roles) == [i \in DOMAIN roles |-> <<l, roles[i]>>]
PerLayer(Of(_)) == FlattenSeq([i \in 1..MCN |-> OneLayer(i - 1, Of(i - 1))])
AllButDown(l) == SelectSeq(Roles(l), LAMBDA r : r # "down")
OnlyDown(l) == <<"down">>
ByLayer == PerLayer(Roles)
DownLast == PerLayer(AllButDown) \o PerLayer(OnlyDown)

Type(role) == CASE role = "norm" -> "F32"
                [] role \in {"ssm_out", "down"} -> "Q6"
                [] OTHER -> "Q4"
TheFile(names, align, wide, cut) ==
  LET length(i) == IF Type(names[i][2]) = "Q4" THEN 2 ELSE wide
      offset[i \in 1..(Len(names) + 1)] ==
        IF i = 1 THEN 0 ELSE AlignedUp(offset[i - 1] + length(i - 1), align)
  IN  [header |-> 3, align |-> align,
       size |-> AlignedUp(3, align) + offset[Len(names)] + length(Len(names)) - cut,
       tensors |-> {[layer |-> names[i][1], role |-> names[i][2], type |-> Type(names[i][2]),
                     offset |-> offset[i], payload |-> length(i)] : i \in DOMAIN names}]

MCFiles ==
  "tight" :> TheFile(ByLayer, 2, 4, 0) @@ "padded" :> TheFile(ByLayer, 2, 3, 0) @@
  "spread" :> TheFile(DownLast, 2, 4, 0) @@ "short" :> TheFile(ByLayer, 2, 4, 1) @@
  "odd" :> [TheFile(ByLayer, 2, 4, 0) EXCEPT !.align = 3]

Nothing == [layers |-> 0, mlpLayers |-> 0, mlpStride |-> 0, mlpOffset |-> 0, q6Layers |-> 0,
            downStride |-> 0, downOffset |-> 0, attentionStride |-> 0, attentionOffset |-> 0,
            full |-> {}]
Profile == [Nothing EXCEPT !.mlpStride = 4, !.mlpOffset = 1, !.q6Layers = 1, !.downStride = 3,
                           !.attentionStride = 3, !.full = {2}]
Simple == [file |-> "tight", host |-> 0, profile |-> Nothing, mapAll |-> FALSE,
           private |-> FALSE, group |-> FALSE, fused |-> FALSE, payload |-> FALSE]

MCProcesses ==
  {[Simple EXCEPT !.file = "spread", !.fused = TRUE, !.profile = Profile],
   [Simple EXCEPT !.file = "spread", !.group = TRUE, !.host = 1,
                  !.profile = [Nothing EXCEPT !.layers = 2, !.mlpLayers = 5]],
   [Simple EXCEPT !.file = "spread", !.private = TRUE, !.group = TRUE,
                  !.profile = [Profile EXCEPT !.mlpLayers = 1, !.full = {}]],
   [Simple EXCEPT !.file = "padded", !.payload = TRUE],
   [Simple EXCEPT !.file = "short", !.mapAll = TRUE],
   [Simple EXCEPT !.file = "odd"]}
=============================================================================
