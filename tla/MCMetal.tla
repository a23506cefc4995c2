------------------------------ MODULE MCMetal -------------------------------
(***************************************************************************)
(* The Metal backend for TLC: a projection, the token mixer of a layer, or *)
(* the weights of a tensor.  They meet only through the vectors and bytes  *)
(* a caller hands from one to the next, so a behaviour has one of them.    *)
(***************************************************************************)
EXTENDS Projections, LayerMixers, WeightCodecs

VARIABLE side

Matrices16 ==
  {<<16128, 16129, 16128, 16127, 16130, 16131>>,   \* as in the test of the probe
   <<0, 0, 0, 0, 0, 0>>,                           \* nothing varies
   <<0, 65535, 32768, 32769, 1, 257>>,             \* all 16 bits vary
   <<1, 65535, 32769, 43691, 21847, 1>>,           \* 15 bits vary
   <<4660, 4660, 4661, 4660, 4660, 4661>>,         \* one bit varies, runs
   <<49024, 16256, 49025, 16257, 16256, 49024>>}
SmallMatrices == [words : Matrices16, columns : {1, 2, 3}, tile : {1, 2, 3}]

(* Two blocks of each format, with bytes of every kind.                    *)
QuantTensors ==
  {[i \in 1..(2 * bytes) |-> ((seed + i) * (i * i + 3 * seed) + i \div 7) % 256] :
     seed \in {1, 7, 36, 101}, bytes \in {144, 176, 210}}

(* Zeros, subnormal and normal numbers, infinities, a NaN.                 *)
BoundaryHalves ==
  {0, 1, 2, 511, 512, 1023, 1024, 1025, 15360, 30720, 31743, 31744, 31745, 32768,
   32769, 33791, 33792, 48128, 64511, 64512}

ProjectionsIdle ==
  call = << >> /\ at = 0 /\ simd = << >> /\ part = << >> /\ out = << >> /\ pc = "none"
MixersIdle ==
  /\ setup = << >> /\ layer = << >> /\ fed = << >> /\ token = 0 /\ todo = << >>
  /\ mem = << >> /\ lanes = << >> /\ dots = << >> /\ stage = "none" /\ reply = << >>
CodecsIdle ==
  job = [kind |-> "none"] /\ coded = << >> /\ offsets = << >> /\ taken = 0 /\ decoded = << >>

MetalInit ==
  \/ side = "projection" /\ Init /\ MixersIdle /\ CodecsIdle
  \/ side = "mixer" /\ MixersInit /\ ProjectionsIdle /\ CodecsIdle
  \/ side = "codec" /\ CodecsInit /\ ProjectionsIdle /\ MixersIdle

(* A tensor that has been read is done with.                               *)
Read ==
  /\ Len(decoded) = CASE job.kind \in DOMAIN BlockBytes -> BlockCount * BlockElements
                      [] job.kind = "half" -> 1
                      [] OTHER -> Len(Words)
  /\ UNCHANGED codec_vars

MetalNext ==
  /\ UNCHANGED side
  /\ \/ side = "projection" /\ Next /\ UNCHANGED <<mixer_vars, codec_vars>>
     \/ side = "mixer" /\ MixersNext /\ UNCHANGED <<vars, codec_vars>>
     \/ side = "codec" /\ (CodecsNext \/ Read) /\ UNCHANGED <<vars, mixer_vars>>

MetalSpec == MetalInit /\ [][MetalNext]_<<vars, mixer_vars, codec_vars, side>>
=============================================================================
