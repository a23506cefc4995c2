---------------------------- MODULE WeightCodecs ----------------------------
(***************************************************************************)
(* How a weight is read from its bytes: the quantised blocks of a GGUF     *)
(* file, decoded by the processor from front to back (src/src/quant.rs)    *)
(* and by a kernel wherever it needs a column (src/src/metal.rs), and the  *)
(* lossless encodings of BF16 weights of src/src/bin/si-lossless-probe.rs, *)
(* of which a kernel reads the bit-packed matrices.                        *)
(*                                                                         *)
(* Bytes and words are natural numbers; x % TwoTo[k] takes the low bits,   *)
(* x \div TwoTo[k] the high ones.  A product is exact: rounding is left    *)
(* out.                                                                    *)
(***************************************************************************)
EXTENDS Integers, Sequences, FiniteSetsExt, SequencesExt

CONSTANTS
  QuantBytes, \* the bytes of quantised tensors
  Halves,     \* half-precision numbers explored
  BlockCount, \* the blocks of such a tensor
  BitSources, \* BF16 matrices explored: [words, columns, tile]
  MaxRun      \* the longest run, u16::MAX in the code

TwoTo[k \in 0..24] == IF k = 0 THEN 1 ELSE 2 * TwoTo[k - 1]
Unsigned(width) == 0..(TwoTo[width] - 1)

ASSUME CodecAssumption ==
  /\ QuantBytes \subseteq Seq(Unsigned(8))
  /\ Halves \subseteq Unsigned(16)
  /\ {BlockCount, MaxRun} \subseteq Nat \ {0}
  /\ \A s \in BitSources :
       /\ s.words \in Seq(Unsigned(16))
       /\ {s.columns, s.tile} \subseteq Nat \ {0}
       /\ Len(s.words) % s.columns = 0

VARIABLES
  job,      \* what is decoded, or encoded and decoded
  coded,    \* the bytes
  offsets,  \* where the tiles of a packed matrix begin
  taken,    \* the words encoded
  decoded   \* what the processor has decoded

codec_vars == <<job, coded, offsets, taken, decoded>>

Bit(x, b) == (x \div TwoTo[b]) % 2
Word(s, i) == s[i + 1] + 256 * s[i + 2]
Bytes(word) == <<word % 256, word \div 256>>

-----------------------------------------------------------------------------
(* Quantised blocks.  s is a sequence, positions count from zero.          *)

BlockBytes ==
  [format \in {"Q4_K", "Q5_K", "Q6_K"} |->
     CASE format = "Q4_K" -> 144 [] format = "Q5_K" -> 176 [] format = "Q6_K" -> 210]
BlockElements == 256

get_scale_min(index, s, base) ==
  LET scales(i) == s[base + i + 1] IN
  IF index < 4
  THEN [scale |-> scales(index) % 64, minimum |-> scales(index + 4) % 64]
  ELSE [scale |-> (scales(index + 4) % 16) + 16 * (scales(index - 4) \div 64),
        minimum |-> scales(index + 4) \div 16 + 16 * (scales(index) \div 64)]

(* A pair of groups of 32 elements: the low and the high halves of the     *)
(* same bytes.  High bits are what Q5_K adds to a quant.                   *)
PairOf(s, block, group, quants, high(_, _)) ==
  LET part(second, i) ==
        LET sm == get_scale_min(2 * group + second, s, block + 4)
            byte == s[block + quants + group * 32 + i + 1]
            quant == IF second = 0 THEN byte % 16 ELSE byte \div 16 IN
        Word(s, block) * sm.scale * (quant + high(second, i))
          - Word(s, block + 2) * sm.minimum
  IN [i \in 1..64 |-> part((i - 1) \div 32, (i - 1) % 32)]

dequantize_q4_k(s, block, group) ==
  PairOf(s, block, group, 16, LAMBDA second, i : 0)

(* The masks move by two bits with every group.                            *)
dequantize_q5_k(s, block, group) ==
  PairOf(s, block, group, 48,
         LAMBDA second, i : 16 * Bit(s[block + 16 + i + 1], 2 * group + second))

Signed(byte) == IF byte > 127 THEN byte - 256 ELSE byte

(* One half of a block: four quarters, each with two scales.               *)
dequantize_q6_k(s, block, half) ==
  LET low(i) == s[block + half * 64 + i + 1]
      high(i) == s[block + 128 + half * 32 + i + 1]
      quant(q, i) ==
        CASE q = 0 -> (low(i) % 16) + 16 * (high(i) % 4)
          [] q = 1 -> (low(i + 32) % 16) + 16 * ((high(i) \div 4) % 4)
          [] q = 2 -> low(i) \div 16 + 16 * ((high(i) \div 16) % 4)
          [] q = 3 -> low(i + 32) \div 16 + 16 * (high(i) \div 64)
      scale(q, i) == Signed(s[block + 192 + half * 8 + 2 * q + i \div 16 + 1])
  IN [i \in 1..128 |->
        LET q == (i - 1) \div 32
            index == (i - 1) % 32 IN
        Word(s, block + 208) * scale(q, index) * (quant(q, index) - 32)]

Pieces(format) == IF format = "Q6_K" THEN 2 ELSE 4
Piece(format, s, block, n) ==
  CASE format = "Q4_K" -> dequantize_q4_k(s, block, n)
    [] format = "Q5_K" -> dequantize_q5_k(s, block, n)
    [] format = "Q6_K" -> dequantize_q6_k(s, block, n)

(* A half becomes the fields of a float.  A subnormal one is normalised.   *)
f16_to_f32(bits) ==
  LET exponent == (bits \div 1024) % 32
      fraction == bits % 1024
      subnormal == exponent = 0 /\ fraction # 0
      shift == CHOOSE k \in 1..10 : fraction * TwoTo[k] \in TwoTo[10]..(TwoTo[11] - 1) IN
  [sign |-> bits \div 32768,
   exponent |-> CASE subnormal -> 113 - shift
                  [] exponent = 0 /\ ~subnormal -> 0
                  [] exponent = 31 -> 255
                  [] OTHER -> exponent + 112,
   fraction |-> 8192 * (IF subnormal THEN (fraction * TwoTo[shift]) % 1024 ELSE fraction)]

(* The kernels: the element at a place of its block.                       *)
KernelScale(s, block, index) ==
  IF index < 4
  THEN [scale |-> s[block + 4 + index + 1] % 64, minimum |-> s[block + 8 + index + 1] % 64]
  ELSE [scale |-> (s[block + 8 + index + 1] % 16) + 16 * (s[block + index + 1] \div 64),
        minimum |-> s[block + 8 + index + 1] \div 16
                      + 16 * (s[block + 4 + index + 1] \div 64)]

si_q4_k_value(s, block, local) ==
  LET group == local \div 64
      within == local % 64
      second == IF within >= 32 THEN 1 ELSE 0
      sm == KernelScale(s, block, group * 2 + second)
      packed == s[block + 16 + group * 32 + (within % 32) + 1]
      quant == IF second = 1 THEN packed \div 16 ELSE packed % 16 IN
  Word(s, block) * sm.scale * quant - Word(s, block + 2) * sm.minimum

si_q5_k_value(s, block, local) ==
  LET group == local \div 64
      within == local % 64
      second == IF within >= 32 THEN 1 ELSE 0
      sm == KernelScale(s, block, group * 2 + second)
      packed == s[block + 48 + group * 32 + (within % 32) + 1]
      high_mask == group * 2 + (IF within >= 32 THEN 1 ELSE 0)
      quant == (IF second = 1 THEN packed \div 16 ELSE packed % 16)
               + (IF Bit(s[block + 16 + (within % 32) + 1], high_mask) = 1 THEN 16 ELSE 0) IN
  Word(s, block) * sm.scale * quant - Word(s, block + 2) * sm.minimum

si_q6_k_value(s, block, local) ==
  LET half == local \div 128
      within == local % 128
      quartet == within \div 32
      index == within % 32
      packed == s[block + half * 64 + (quartet % 2) * 32 + index + 1]
      nibble == IF quartet >= 2 THEN packed \div 16 ELSE packed % 16
      high_bits == (s[block + 128 + half * 32 + index + 1] \div TwoTo[quartet * 2]) % 4
      scale == Signed(s[block + 192 + half * 8 + index \div 16 + quartet * 2 + 1]) IN
  Word(s, block + 208) * scale * ((nibble + 16 * high_bits) - 32)

(* A kernel steps from block to block by the column.                       *)
KernelElement(format, s, column) ==
  LET block == (column \div BlockElements) * BlockBytes[format]
      local == column % BlockElements IN
  CASE format = "Q4_K" -> si_q4_k_value(s, block, local)
    [] format = "Q5_K" -> si_q5_k_value(s, block, local)
    [] format = "Q6_K" -> si_q6_k_value(s, block, local)

(* float(as_type<half>(bits)): the same number.                            *)
SameNumber(bits, float) ==
  LET exponent == (bits \div 1024) % 32
      fraction == bits % 1024
      scale == Max({exponent, 1}) + 125 - float.exponent IN
  /\ float.sign = bits \div 32768
  /\ exponent = 31 => float.exponent = 255 /\ (fraction = 0 <=> float.fraction = 0)
  /\ exponent = 0 /\ fraction = 0 => float.exponent = 0 /\ float.fraction = 0
  /\ exponent # 31 /\ (exponent # 0 \/ fraction # 0) =>
       /\ scale \in 0..24
       /\ (IF exponent = 0 THEN fraction ELSE 1024 + fraction) * TwoTo[scale]
            = TwoTo[23] + float.fraction

-----------------------------------------------------------------------------
(* Lossless encodings.                                                     *)

Invariant(words) ==
  {b \in 0..15 : \A i \in DOMAIN words : Bit(words[i], b) = Bit(words[1], b)}
Number(bits) == MapThenSumSet(LAMBDA b : IF b \in bits THEN TwoTo[b] ELSE 0, 0..23)
BitsOf(word) == {b \in 0..15 : Bit(word, b) = 1}

(* The bits outside mask.  They follow one another, the lowest first.      *)
Variable(mask) == (0..15) \ BitsOf(mask)
Index(b, variable) == Cardinality({c \in variable : c < b})

(* Where a variable bit of the word at a place is in the stream.           *)
Cursor(place, b, variable) == place * Cardinality(variable) + Index(b, variable)

encode_bf16_bitpack(words) ==
  LET invariant == Invariant(words)
      mask == Number(invariant)
      variable == Variable(mask)
      width == Cardinality(variable)
      set(k) == /\ k < Len(words) * width
                /\ \E b \in variable \cap BitsOf(words[k \div width + 1]) :
                     Index(b, variable) = k % width IN
  Bytes(mask) \o Bytes(Number(invariant \cap BitsOf(words[1])))
    \o [j \in 1..((Len(words) * width + 7) \div 8) |->
          Number({t \in 0..7 : set(8 * (j - 1) + t)})]

(* A stream that is refused; here, one that contradicts its header.        *)
NoWords == <<-1>>
decode_bf16_bitpack(s, n) ==
  LET constants == Word(s, 2)
      variable == Variable(Word(s, 0))
      set(k) == Bit(s[4 + k \div 8 + 1], k % 8) = 1 IN
  IF \/ Len(s) < 4
     \/ BitsOf(constants) \cap variable # {}
     \/ Len(s) # 4 + (n * Cardinality(variable) + 7) \div 8
  THEN NoWords
  ELSE [i \in 1..n |->
          Number(BitsOf(constants) \cup {b \in variable : set(Cursor(i - 1, b, variable))})]

(* The kernel cuts a value out of a few bytes, none of them past the end   *)
(* of the tile.                                                            *)
CutOut(count, s, starts, row, column, columns, tile_rows) ==
  LET tile == row \div tile_rows
      base == starts[tile + 1]
      tile_end == starts[tile + 2]
      variable == Variable(Word(s, base))
      width == Cardinality(variable)
      cursor == ((row % tile_rows) * columns + column) * width
      payload == base + 4 + cursor \div 8
      byte(k) == IF payload + k < tile_end THEN s[payload + k + 1] ELSE 0
      packed_value == Number({t \in 0..(8 * count - 1) : Bit(byte(t \div 8), t % 8) = 1})
      variable_value == (packed_value \div TwoTo[cursor % 8]) % TwoTo[width] IN
  Number(BitsOf(Word(s, base + 2))
         \cup {b \in variable : Bit(variable_value, Index(b, variable)) = 1})

(* A fault for comparison: two bytes hold any 16 bits.                     *)
TwoBytes(s, starts, row, column, columns, tile_rows) ==
  CutOut(2, s, starts, row, column, columns, tile_rows)

si_bf16_bitpack_value(s, starts, row, column, columns, tile_rows) ==
  CutOut(3, s, starts, row, column, columns, tile_rows)

RunAt(words, from) ==
  Max({n \in 1..Min({Len(words) - from, MaxRun}) :
         \A k \in 1..n : words[from + k] = words[from + 1]})

encode_bf16_rle(words, from) == Bytes(RunAt(words, from)) \o Bytes(words[from + 1])

(* The decoder refuses half a pair, and a run of no words.                 *)
WholeRuns(s) ==
  Len(s) % 4 = 0 /\ \A p \in 1..(Len(s) \div 4) : Word(s, 4 * (p - 1)) # 0

decode_bf16_rle(s) ==
  IF WholeRuns(s)
  THEN FlattenSeq([p \in 1..(Len(s) \div 4) |->
                     [i \in 1..Word(s, 4 * (p - 1)) |-> Word(s, 4 * (p - 1) + 2)]])
  ELSE NoWords

bf16_plane_transform(words) ==
  [i \in 1..Len(words) |-> words[i] \div 256] \o [i \in 1..Len(words) |-> words[i] % 256]
bf16_plane_inverse(s) ==
  LET n == Len(s) \div 2 IN
  IF Len(s) % 2 = 0 THEN [i \in 1..n |-> 256 * s[i] + s[n + i]] ELSE NoWords

-----------------------------------------------------------------------------
Quantised == {tensor \in [kind : DOMAIN BlockBytes, bytes : QuantBytes] :
                Len(tensor.bytes) = BlockCount * BlockBytes[tensor.kind]}
HalfNumbers == [kind : {"half"}, bits : Halves]
Lossless == [kind : {"bitpack", "rle", "planes"}, source : BitSources]

(* A quantised tensor is in the file, a lossless one is encoded first.     *)
CodecsInit ==
  /\ job \in Quantised \cup HalfNumbers \cup Lossless
  /\ coded = IF job \in Quantised THEN job.bytes ELSE << >>
  /\ offsets = << >>
  /\ taken = 0
  /\ decoded = << >>

Words == job.source.words

Dequantize ==
  /\ job.kind \in DOMAIN BlockBytes
  /\ Len(decoded) < BlockCount * BlockElements
  /\ LET block == Len(decoded) \div BlockElements
         size == BlockElements \div Pieces(job.kind)
         piece == (Len(decoded) % BlockElements) \div size IN
     decoded' = decoded \o Piece(job.kind, coded, block * BlockBytes[job.kind], piece)
  /\ UNCHANGED <<job, coded, offsets, taken>>

Widen ==
  /\ job.kind = "half" /\ decoded = << >>
  /\ decoded' = <<f16_to_f32(job.bits)>>
  /\ UNCHANGED <<job, coded, offsets, taken>>

EncodeTile ==
  /\ job.kind = "bitpack"
  /\ taken < Len(Words)
  /\ LET count == Min({job.source.tile * job.source.columns, Len(Words) - taken})
         tile == SubSeq(Words, taken + 1, taken + count) IN
     /\ coded' = coded \o encode_bf16_bitpack(tile)
     /\ taken' = taken + count
     /\ offsets' = Append(IF offsets = << >> THEN <<0>> ELSE offsets, Len(coded'))
  /\ UNCHANGED <<job, decoded>>

EncodeRun ==
  /\ job.kind = "rle"
  /\ taken < Len(Words)
  /\ coded' = coded \o encode_bf16_rle(Words, taken)
  /\ taken' = taken + RunAt(Words, taken)
  /\ UNCHANGED <<job, offsets, decoded>>

Transform ==
  /\ job.kind = "planes"
  /\ taken < Len(Words)
  /\ coded' = bf16_plane_transform(Words)
  /\ taken' = Len(Words)
  /\ UNCHANGED <<job, offsets, decoded>>

(* Tile by tile, or the whole stream.                                      *)
Decode ==
  /\ job.kind \in {"bitpack", "rle", "planes"}
  /\ taken = Len(Words)
  /\ Len(decoded) < Len(Words)
  /\ decoded' =
       CASE job.kind = "rle" -> decode_bf16_rle(coded)
         [] job.kind = "planes" -> bf16_plane_inverse(coded)
         [] job.kind = "bitpack" ->
              LET count == Min({job.source.tile * job.source.columns, taken - Len(decoded)})
                  tile == Len(decoded) \div (job.source.tile * job.source.columns) IN
              decoded \o decode_bf16_bitpack(
                SubSeq(coded, offsets[tile + 1] + 1, offsets[tile + 2]), count)
  /\ UNCHANGED <<job, coded, offsets, taken>>

CodecsNext == Dequantize \/ Widen \/ EncodeTile \/ EncodeRun \/ Transform \/ Decode

CodecsSpec == CodecsInit /\ [][CodecsNext]_codec_vars

-----------------------------------------------------------------------------
(* Every reader of the same bytes reads the same weights: the kernels, at  *)
(* any column, what the processor decodes from front to back, and out of a *)
(* packed matrix every word that was packed, in every tile, also where a   *)
(* value ends in the last byte of its tile or straddles three of them.     *)
ReadersAgree ==
  /\ job.kind \in DOMAIN BlockBytes =>
       \A i \in DOMAIN decoded : decoded[i] = KernelElement(job.kind, coded, i - 1)
  /\ job.kind = "half" /\ decoded # << >> => SameNumber(job.bits, decoded[1])
  /\ job.kind \in {"bitpack", "rle", "planes"} => IsPrefix(decoded, Words)
  /\ job.kind = "bitpack" =>
       \A i \in 1..taken :
         LET c == job.source.columns IN
         si_bf16_bitpack_value(coded, offsets, (i - 1) \div c, (i - 1) % c, c, job.source.tile)
           = Words[i]
=============================================================================
