---------------------------- MODULE PackedCache -----------------------------
(***************************************************************************)
(* The packed execution-order cache of src/src/model.rs: one process packs *)
(* a model into a file, writing in place and possibly stopping between or  *)
(* within two writes; another opens the file for a model and reads tensors *)
(* through a mapping that shows what is in the file now, or reads them     *)
(* from the shards the model came in.                                      *)
(*                                                                         *)
(* A byte is known by where it comes from.  A header parses when all of    *)
(* its bytes are there.  A model is its revision.                          *)
(***************************************************************************)
EXTENDS ModelShards

CONSTANTS
  HeaderLength,  \* HeaderLength[m]: bytes of its header
  Alignment,     \* of the first tensor (4096)
  None           \* no file, no model, no reader

ASSUME PackedAssumption ==
  /\ Alignment \in Nat \ {0}
  /\ None \notin Models
  /\ \A m \in Models :
       /\ HeaderLength[m] \in Nat \ {0}
       /\ None \notin DOMAIN Shards[m]
       /\ Order[m] \in Seq(ToSet(Order[m]))
       /\ \A i, j \in DOMAIN Order[m] : Order[m][i] = Order[m][j] => i = j

VARIABLES
  file,    \* the bytes of the file, or None
  pc,      \* where the packer is
  model,   \* the model it packs
  at,      \* its next write
  cursor,  \* where that goes in the file
  reader,  \* None, or the model store of a process that opened a model
  packed   \* history: the model whose packing completed last, if nothing
           \* touched the file since

pack_vars == <<file, pc, model, at, cursor, reader, packed>>

Magic == << <<"magic">> >>
Blank == <<"zero">>
LengthOf(n) == <<"length", n>>
Header(m) == [i \in 1..HeaderLength[m] |-> <<"header", m, i>>]
Zeros(n) == [i \in 1..n |-> Blank]

AlignUp(value) ==
  IF value % Alignment = 0 THEN value ELSE value + (Alignment - (value % Alignment))

HeaderEnd(n) == 2 + n
DataBase(n) == AlignUp(HeaderEnd(n))

(* A fault for comparison: offsets that follow the names.                  *)
OffsetByCount(m, i) == i - 1

(* The sum of the lengths of the tensors before the i-th.                  *)
Offset(m, i) ==
  LET sum[n \in 0..Len(Order[m])] ==
        IF n = 0 THEN 0 ELSE sum[n - 1] + LengthOfTensor(m, Order[m][n])
  IN  sum[i - 1]

FileLength(m) == DataBase(HeaderLength[m]) + Offset(m, Len(Order[m]) + 1)

(* The execution order names every tensor of the model.                    *)
Covers(m) == /\ Len(Order[m]) = Cardinality(Names(m))
             /\ ToSet(Order[m]) \subseteq Names(m)

PackInit ==
  /\ file = None
  /\ pc = "idle"
  /\ model = None
  /\ at = 1
  /\ cursor = 0
  /\ reader = None
  /\ packed = None

-----------------------------------------------------------------------------
(* pack_model_execution_order.                                             *)

(* What is checked comes before the file is touched.                       *)
Packable(m) == OpensShards(m) /\ Covers(m)

Pack(m) ==
  /\ pc = "idle"
  /\ Packable(m)
  /\ pc' = "create"
  /\ model' = m
  /\ UNCHANGED <<file, at, cursor, reader, packed>>

PackRefused(m) ==
  /\ pc = "idle"
  /\ ~Packable(m)
  /\ UNCHANGED pack_vars

Stale ==
  IF reader = None \/ ~reader.packed THEN reader ELSE [reader EXCEPT !.stale = TRUE]

Create ==
  /\ pc = "create"
  /\ file' = <<>>
  /\ cursor' = 0
  /\ pc' = "set_len"
  /\ reader' = Stale
  /\ packed' = None
  /\ UNCHANGED <<model, at>>

SetLen ==
  /\ pc = "set_len"
  /\ file' = Zeros(FileLength(model))
  /\ pc' = "write"
  /\ UNCHANGED <<model, at, cursor, reader, packed>>

(* What is written, write by write.                                        *)
Chunks(m) ==
  LET n == HeaderLength[m] IN
  <<Magic, <<LengthOf(n)>>, Header(m), Zeros(DataBase(n) - HeaderEnd(n))>>
    \o [i \in DOMAIN Order[m] |-> Source(m, Order[m][i])]

(* Bytes of s replace those of the file from the cursor on; writing beyond *)
(* the end makes the file longer.                                          *)
Overwritten(s) ==
  [i \in 1..(IF cursor + Len(s) > Len(file) THEN cursor + Len(s) ELSE Len(file)) |->
     IF i \in (cursor + 1)..(cursor + Len(s)) THEN s[i - cursor]
     ELSE IF i <= Len(file) THEN file[i] ELSE Blank]

Write ==
  LET chunk == Chunks(model)[at] IN
  /\ pc = "write" /\ at <= Len(Chunks(model))
  /\ file' = Overwritten(chunk)
  /\ cursor' = cursor + Len(chunk)
  /\ at' = at + 1
  /\ UNCHANGED <<pc, model, reader, packed>>

Stop == /\ pc' = "idle"
        /\ model' = None
        /\ cursor' = 0
        /\ at' = 1

Finish ==
  /\ pc = "write" /\ at > Len(Chunks(model))
  /\ packed' = model
  /\ Stop
  /\ UNCHANGED <<file, reader>>

(* The disk is full, or the process is stopped: part of a write may have   *)
(* reached the file.                                                       *)
Interrupt ==
  /\ pc # "idle"
  /\ \/ pc # "write" /\ UNCHANGED file
     \/ pc = "write" /\ at > Len(Chunks(model)) /\ UNCHANGED file
     \/ /\ pc = "write" /\ at <= Len(Chunks(model))
        /\ LET chunk == Chunks(model)[at] IN
           \E n \in 0..Len(chunk) : file' = Overwritten(SubSeq(chunk, 1, n))
  /\ Stop
  /\ UNCHANGED <<reader, packed>>

-----------------------------------------------------------------------------
(* open_packed, with the manifest and the index of model m.                *)

(* A fault for comparison: the revision is not compared.                   *)
AcceptsAnyRevision(m, header) == ToSet(Order[header]) = DOMAIN Index[m]

(* The header's tensors are the index's, not those the shards hold.        *)
AcceptsHeader(m, header) == /\ header = m
                            /\ ToSet(Order[header]) = DOMAIN Index[m]

(* The header that parses, if one does.                                    *)
Parsed ==
  IF /\ file # None
     /\ Len(file) >= 2
     /\ file[1] = Magic[1]
     /\ \E h \in Models :
          /\ file[2] = LengthOf(HeaderLength[h])
          /\ Len(file) >= HeaderEnd(HeaderLength[h])
          /\ SubSeq(file, 3, HeaderEnd(HeaderLength[h])) = Header(h)
    THEN CHOOSE h \in Models :
           SubSeq(file, 3, HeaderEnd(HeaderLength[h])) = Header(h)
    ELSE None

Start(h, i) == DataBase(HeaderLength[h]) + Offset(h, i)
End(h, i) == Start(h, i) + LengthOfTensor(h, Order[h][i])

Opens(m) ==
  /\ Parsed # None
  /\ DataBase(HeaderLength[Parsed]) <= Len(file)
  /\ AcceptsHeader(m, Parsed)
  /\ \A i \in DOMAIN Order[Parsed] : End(Parsed, i) <= Len(file)

PlacesInCache(h) ==
  [t \in ToSet(Order[h]) |->
     LET i == CHOOSE j \in DOMAIN Order[h] : Order[h][j] = t
     IN  [shard |-> None, from |-> Start(h, i), to |-> End(h, i)]]

Open(m) ==
  /\ reader = None
  /\ Opens(m)
  /\ reader' = [model |-> m, packed |-> TRUE, place |-> PlacesInCache(Parsed), stale |-> FALSE]
  /\ UNCHANGED <<file, pc, model, at, cursor, packed>>

(* Without a packed cache the shards are mapped.                           *)
PlacesInShards(m) ==
  [t \in Names(m) |-> [shard |-> ShardOf(m, t),
                       from |-> DataStart(m, ShardOf(m, t), t),
                       to |-> DataEnd(m, ShardOf(m, t), t)]]

OpenShards(m) ==
  /\ reader = None
  /\ OpensShards(m)
  /\ reader' = [model |-> m, packed |-> FALSE, place |-> PlacesInShards(m), stale |-> FALSE]
  /\ UNCHANGED <<file, pc, model, at, cursor, packed>>

Close ==
  /\ reader # None
  /\ reader' = None
  /\ UNCHANGED <<file, pc, model, at, cursor, packed>>

PackNext ==
  \/ \E m \in Models : Pack(m) \/ PackRefused(m) \/ Open(m) \/ OpenShards(m)
  \/ Create
  \/ SetLen
  \/ Write
  \/ Finish
  \/ Interrupt
  \/ Close

PackSpec == PackInit /\ [][PackNext]_pack_vars

-----------------------------------------------------------------------------
(* What tensor t of a reader looks like: ModelStore::tensor.               *)
View(t) ==
  LET place == reader.place[t] IN
  SubSeq(IF reader.packed THEN file ELSE ShardBytes(reader.model, place.shard),
         place.from + 1, place.to)

(* A file whose packing completed opens for its model and for no other     *)
(* one, provided that the index lists what the shards hold; and its        *)
(* tensors are the source's, byte for byte, for as long as nobody packs    *)
(* again.  Read from the shards they are so at any time.                   *)
CompletedExact ==
  /\ packed # None =>
       \A m \in Models : Opens(m) <=> (m = packed /\ Names(m) = DOMAIN Index[m])
  /\ (reader # None /\ (reader.packed => ~reader.stale /\ packed # None)) =>
       \A t \in DOMAIN reader.place : View(t) = Source(reader.model, t)

(* A file whose packing was interrupted, or still runs, may open as soon   *)
(* as its header is written.  What a reader then sees of a tensor is its   *)
(* beginning and zeros after that: never another tensor's bytes, never     *)
(* another model's, never those of an earlier file.                        *)
NeverForeign ==
  (reader # None /\ ~reader.stale) =>
    \A t \in DOMAIN reader.place :
      LET source == Source(reader.model, t) IN
      \E n \in 0..Len(source) :
        View(t) = SubSeq(source, 1, n) \o Zeros(Len(source) - n)
=============================================================================
