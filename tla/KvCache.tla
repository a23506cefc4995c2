------------------------------ MODULE KvCache -------------------------------
(***************************************************************************)
(* The fixed-capacity key/value caches of src/src/cache.rs.                *)
(*                                                                         *)
(* A cache is one flat array laid out [kv_head, token, head_dim]: the row  *)
(* of token t of head h is number h * capacity + t.  A row (head_dim       *)
(* contiguous floats of the key array together with the same row of the    *)
(* value array, which every operation treats alike) is one element here.   *)
(* Only `cached` says which rows are live; truncating and clearing leave   *)
(* the rows of the discarded tokens in place.                              *)
(***************************************************************************)
EXTENDS Naturals, Sequences

CONSTANTS
  Caches,      \* the caches alive in the runtime
  Heads,       \* Heads[c]: key_value_heads of cache c
  Capacity,    \* Capacity[c]: capacity_tokens of cache c
  Row,         \* the values a row can take once it is written
  Zero,        \* the content of a row that was never written
  MaxAppend    \* bound on the tokens of one append_sequence call

(* KvCache::new refuses zero dimensions.                                   *)
ASSUME KvCacheAssumption ==
  /\ Heads \in [Caches -> Nat \ {0}]
  /\ Capacity \in [Caches -> Nat \ {0}]
  /\ Zero \notin Row
  /\ MaxAppend \in Nat \ {0}

VARIABLES
  cells,       \* cells[c]: the flat backing array of cache c
  cached,      \* cached[c]: cached_tokens of cache c
  last         \* the last call: operation, cache, argument, and whether it
               \* returned Ok (a history variable no operation reads)

vars == <<cells, cached, last>>

HeadsOf(c) == 0..(Heads[c] - 1)
Slots(c) == 0..(Heads[c] * Capacity[c] - 1)
Entry(c) == [HeadsOf(c) -> Row]

(* A fault for comparison: heads strided by the active length.             *)
RowIndexByLength(c, h, t) == h * cached[c] + t

(* Where token t of head h lives: destination_start / head_dim.            *)
RowIndex(c, h, t) == h * Capacity[c] + t

(* The entries of the active prefix, read back through the layout.         *)
Active(c) ==
  [t \in 1..cached[c] |-> [h \in HeadsOf(c) |-> cells[c][RowIndex(c, h, t - 1)]]]

(* The array of cache c after `entries` are copied in, head by head, from  *)
(* token `from` on.                                                        *)
Stored(c, from, entries) ==
  LET writes == {<<h, j>> : h \in HeadsOf(c), j \in 1..Len(entries)}
      Hits(w, i) == i = RowIndex(c, w[1], from + w[2] - 1)
  IN [i \in Slots(c) |->
        IF \E w \in writes : Hits(w, i)
        THEN LET w == CHOOSE w \in writes : Hits(w, i) IN entries[w[2]][w[1]]
        ELSE cells[c][i]]

Init ==
  /\ cells = [c \in Caches |-> [i \in Slots(c) |-> Zero]]
  /\ cached = [c \in Caches |-> 0]
  /\ last = <<"new">>

(* A call that returns Err, before it has touched anything.                *)
Refuse == UNCHANGED <<cells, cached>>

Store(c, from, entries) ==
  /\ cells' = [cells EXCEPT ![c] = Stored(c, from, entries)]
  /\ cached' = [cached EXCEPT ![c] = from + Len(entries)]

HasRoom(c, n) == n <= Capacity[c] - cached[c]

AppendToken(c, entry) ==
  LET fits == HasRoom(c, 1) IN
  /\ last' = <<"append", c, <<entry>>, fits>>
  /\ IF fits THEN Store(c, cached[c], <<entry>>) ELSE Refuse

AppendSequence(c, entries) ==
  LET fits == HasRoom(c, Len(entries)) IN
  /\ last' = <<"append", c, entries, fits>>
  /\ IF fits THEN Store(c, cached[c], entries) ELSE Refuse

(* A fault for comparison: truncation may lengthen the active prefix.      *)
TruncateToLonger(c, n) ==
  LET valid == n <= Capacity[c] IN
  /\ last' = <<"truncate", c, n, valid>>
  /\ cached' = IF valid THEN [cached EXCEPT ![c] = n] ELSE cached
  /\ UNCHANGED cells

TruncateTo(c, n) ==
  LET valid == n <= cached[c] IN
  /\ last' = <<"truncate", c, n, valid>>
  /\ cached' = IF valid THEN [cached EXCEPT ![c] = n] ELSE cached
  /\ UNCHANGED cells

Clear(c) ==
  /\ last' = <<"truncate", c, 0, TRUE>>
  /\ cached' = [cached EXCEPT ![c] = 0]
  /\ UNCHANGED cells

(* A fault for comparison: only the room is checked, not the shape.        *)
CopyAnyShape(d, s) ==
  LET fits == Capacity[d] >= cached[s] /\ Heads[d] <= Heads[s] IN
  /\ last' = <<"copy", d, s, fits>>
  /\ IF fits THEN Store(d, 0, Active(s)) ELSE Refuse

(* Rust's borrow rules keep a cache from being copied onto itself.         *)
CopyPrefixFrom(d, s) ==
  LET fits == Heads[d] = Heads[s] /\ Capacity[d] >= cached[s] IN
  /\ last' = <<"copy", d, s, fits>>
  /\ IF fits THEN Store(d, 0, Active(s)) ELSE Refuse

Next ==
  \E c \in Caches :
    \/ \E entry \in Entry(c) : AppendToken(c, entry)
    \/ \E n \in 0..MaxAppend : \E entries \in [1..n -> Entry(c)] :
         AppendSequence(c, entries)
    \/ Clear(c)
    \/ \E n \in 0..(Capacity[c] + 1) : TruncateTo(c, n)
    \/ \E s \in Caches \ {c} : CopyPrefixFrom(c, s)

Spec == Init /\ [][Next]_vars

-----------------------------------------------------------------------------
(* The state stays in range: the backing arrays keep their length and the  *)
(* token count never passes the capacity they were allocated for.          *)
TypeOK ==
  /\ DOMAIN cells = Caches
  /\ \A c \in Caches : cells[c] \in [Slots(c) -> Row \cup {Zero}]
  /\ cached \in [Caches -> Nat]
  /\ \A c \in Caches : cached[c] <= Capacity[c]

(* Attention reads rows 0..cached-1 of every head: none of them may be a   *)
(* row nothing was ever written to, whatever truncations and copies        *)
(* between caches of different capacity came before (copy_prefix_from      *)
(* moves head h from stride source.capacity to stride self.capacity).      *)
ActiveRowsWritten ==
  \A c \in Caches : \A h \in HeadsOf(c) : \A t \in 0..(cached[c] - 1) :
    cells[c][RowIndex(c, h, t)] # Zero

(* Every cache behaves as a bounded sequence of entries: an append puts    *)
(* the entry behind the ones already there and disturbs no head of any     *)
(* other token, a truncation keeps exactly the prefix, a copy makes the    *)
(* active prefixes equal, and a failing call changes nothing.              *)
Log == INSTANCE TokenLog WITH log <- [c \in Caches |-> Active(c)]
ImplementsTokenLog == Log!Spec
=============================================================================
