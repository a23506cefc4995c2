---------------------------- MODULE ModelShards -----------------------------
(***************************************************************************)
(* A model as it is distributed: shard files of tensors and an index that  *)
(* names the shard of every tensor (ModelIndex, parse_shard_header and the *)
(* unpacked half of ModelStore::open_with_packed_cache, src/src/model.rs). *)
(* A shard is its header, with the offsets of its tensors behind it, and   *)
(* the bytes that are really there; a byte is known by where it stands.    *)
(***************************************************************************)
EXTENDS Naturals, SequencesExt, FiniteSetsExt

CONSTANTS
  Models,  \* the models that may be opened, packed, or read for
  Shards,  \* Shards[m][s]: [header, size, entries], entries[t] = <<from, to>>
  Index,   \* Index[m][t]: the shard that holds tensor t of model m
  Order    \* Order[m]: the names in execution order, from its config

ASSUME ShardsAssumption ==
  \A m \in Models :
    /\ Range(Index[m]) \subseteq DOMAIN Shards[m]
    /\ IsFiniteSet(DOMAIN Index[m])
    /\ \A s \in DOMAIN Shards[m] :
         /\ {Shards[m][s].header, Shards[m][s].size} \subseteq Nat
         /\ IsFiniteSet(DOMAIN Shards[m][s].entries)
         /\ \A t \in DOMAIN Shards[m][s].entries :
              {Shards[m][s].entries[t][1], Shards[m][s].entries[t][2]} \subseteq Nat

LengthPrefix == 1  \* the header's own length, before it (8 bytes)

(* The shards that are opened: those the index names.                      *)
Opened(m) == Range(Index[m])
Entries(m, s) == Shards[m][s].entries
ShardHeaderEnd(m, s) == LengthPrefix + Shards[m][s].header

ShardBytes(m, s) ==
  [i \in 1..Shards[m][s].size |->
     IF i <= ShardHeaderEnd(m, s) THEN <<"shard header", i>> ELSE <<"data", m, s, i>>]

(* Where a tensor lies in its file.                                        *)
DataStart(m, s, t) == ShardHeaderEnd(m, s) + Entries(m, s)[t][1]
DataEnd(m, s, t) == ShardHeaderEnd(m, s) + Entries(m, s)[t][2]

ShardParses(m, s) ==
  /\ ShardHeaderEnd(m, s) <= Shards[m][s].size
  /\ DOMAIN Entries(m, s) # {}
  /\ \A t \in DOMAIN Entries(m, s) :
       /\ Entries(m, s)[t][1] <= Entries(m, s)[t][2]
       /\ DataEnd(m, s, t) <= Shards[m][s].size

(* The tensors of a model are those its shards hold, the index's or not.   *)
Names(m) == UNION {DOMAIN Entries(m, s) : s \in Opened(m)}
Holders(m, t) == {s \in Opened(m) : t \in DOMAIN Entries(m, s)}
ShardOf(m, t) == CHOOSE s \in Holders(m, t) : TRUE

OpensShards(m) ==
  /\ \A s \in Opened(m) : ShardParses(m, s)
  /\ \A t \in Names(m) : Cardinality(Holders(m, t)) = 1
  /\ \A t \in DOMAIN Index[m] : t \in Names(m) /\ ShardOf(m, t) = Index[m][t]

(* The bytes of a tensor of a model whose shards open.                     *)
Source(m, t) ==
  LET s == ShardOf(m, t)
  IN  SubSeq(ShardBytes(m, s), DataStart(m, s, t) + 1, DataEnd(m, s, t))
LengthOfTensor(m, t) ==
  LET s == ShardOf(m, t) IN DataEnd(m, s, t) - DataStart(m, s, t)
=============================================================================
