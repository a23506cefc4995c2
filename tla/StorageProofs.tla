---------------------------- MODULE StorageProofs ---------------------------
(***************************************************************************)
(* What is proved of the stores that are known by position: the key/value  *)
(* caches, for every number of caches, every shape and every capacity; and *)
(* the packed file with its read-ahead, for all models, every interruption *)
(* and every budget.                                                       *)
(***************************************************************************)
EXTENDS KvCache, ReadAhead, TLAPS, WellFoundedInduction, SequenceTheorems,
        FiniteSetTheorems


(* The layout [kv_head, token, head_dim] has room for every head and token *)
(* (the slice bounds of append_token and copy_prefix_from).                *)
LEMMA RowIndexInRange ==
  ASSUME NEW c \in Caches, NEW h \in HeadsOf(c), NEW t \in 0..(Capacity[c] - 1)
  PROVE  RowIndex(c, h, t) \in Slots(c)
<1> DEFINE n == Capacity[c]
           k == Heads[c]
<1>1. n \in Nat \ {0} /\ k \in Nat \ {0}
  BY KvCacheAssumption
<1> HIDE DEF n, k
<1>2. h \in Nat /\ t \in Nat /\ h + 1 <= k /\ t < n
  BY <1>1 DEF HeadsOf, n, k
<1>3. \E r \in Nat : k = h + 1 + r
  <2>1. k - (h + 1) \in Nat /\ k = h + 1 + (k - (h + 1))
    BY <1>1, <1>2
  <2> QED BY <2>1
<1>4. PICK r \in Nat : k = h + 1 + r
  BY <1>3
<1>5. k * n = h * n + n + r * n
  BY <1>1, <1>2, <1>4
<1>6. r * n \in Nat /\ h * n \in Nat /\ k * n \in Nat
  BY <1>1, <1>2
<1>7. h * n + t \in 0..(k * n - 1)
  BY <1>1, <1>2, <1>5, <1>6
<1> QED
  BY <1>7 DEF RowIndex, Slots, n, k

(* No two rows share a place: a write to one token of one head leaves      *)
(* every other token and head alone.                                       *)
LEMMA RowIndexInjective ==
  ASSUME NEW c \in Caches,
         NEW h \in HeadsOf(c), NEW t \in 0..(Capacity[c] - 1),
         NEW g \in HeadsOf(c), NEW u \in 0..(Capacity[c] - 1),
         RowIndex(c, h, t) = RowIndex(c, g, u)
  PROVE  h = g /\ t = u
<1> DEFINE n == Capacity[c]
<1>1. n \in Nat \ {0} /\ h \in Nat /\ g \in Nat /\ t \in 0..(n - 1) /\ u \in 0..(n - 1)
  BY KvCacheAssumption DEF HeadsOf
<1>2. h * n + t = g * n + u
  BY DEF RowIndex
<1> HIDE DEF n
<1>3. ASSUME NEW x \in Nat, NEW y \in Nat, NEW v \in 0..(n - 1), NEW w \in 0..(n - 1),
             x * n + v = y * n + w
      PROVE  ~(x < y)
  <2> SUFFICES ASSUME x < y PROVE FALSE
    OBVIOUS
  <2>1. PICK r \in Nat : y = x + 1 + r
    <3>1. y - (x + 1) \in Nat /\ y = x + 1 + (y - (x + 1))
      OBVIOUS
    <3> QED BY <3>1
  <2>2. y * n = x * n + n + r * n
    BY <1>1, <2>1
  <2>3. x * n \in Nat /\ y * n \in Nat /\ r * n \in Nat
    BY <1>1
  <2> QED BY <1>1, <1>3, <2>2, <2>3
<1>4. ~(h < g) /\ ~(g < h)
  BY <1>1, <1>2, <1>3
<1>5. h = g
  BY <1>1, <1>4
<1>6. h * n \in Nat
  BY <1>1
<1> QED
  BY <1>1, <1>2, <1>5, <1>6

-----------------------------------------------------------------------------
(* After `entries` are copied in from token `from` on, each row holds the  *)
(* entry copied onto it, or what it held before.                           *)
LEMMA StoredRow ==
  ASSUME NEW c \in Caches, NEW from \in Nat, NEW entries \in Seq(Entry(c)),
         from + Len(entries) <= Capacity[c],
         NEW h \in HeadsOf(c), NEW t \in 0..(Capacity[c] - 1)
  PROVE  Stored(c, from, entries)[RowIndex(c, h, t)] =
           IF from <= t /\ t < from + Len(entries)
           THEN entries[t - from + 1][h]
           ELSE cells[c][RowIndex(c, h, t)]
<1> DEFINE writes == {<<g, j>> : g \in HeadsOf(c), j \in 1..Len(entries)}
           Hits(w, i) == i = RowIndex(c, w[1], from + w[2] - 1)
           i0 == RowIndex(c, h, t)
           w0 == CHOOSE w \in writes : Hits(w, i0)
<1>1. Capacity[c] \in Nat \ {0} /\ Len(entries) \in Nat
  BY KvCacheAssumption
<1>2. i0 \in Slots(c)
  BY RowIndexInRange
<1>3. Stored(c, from, entries)[i0] =
        IF \E w \in writes : Hits(w, i0) THEN entries[w0[2]][w0[1]] ELSE cells[c][i0]
  <2> DEFINE W(i) == CHOOSE w \in writes : Hits(w, i)
  <2>1. Stored(c, from, entries) =
          [i \in Slots(c) |-> IF \E w \in writes : Hits(w, i)
                              THEN entries[W(i)[2]][W(i)[1]] ELSE cells[c][i]]
    BY DEF Stored
  <2>2. w0 = W(i0)
    OBVIOUS
  <2> HIDE DEF writes, Hits, W, i0, w0
  <2> QED BY <1>2, <2>1, <2>2
<1>4. ASSUME NEW w \in writes, Hits(w, i0)
      PROVE  w[1] = h /\ w[2] = t - from + 1 /\ from <= t /\ t < from + Len(entries)
  <2>1. PICK g \in HeadsOf(c), j \in 1..Len(entries) : w = <<g, j>>
    BY <1>4
  <2>2. from + j - 1 \in 0..(Capacity[c] - 1)
    BY <1>1
  <2>3. RowIndex(c, h, t) = RowIndex(c, g, from + j - 1)
    BY <1>4, <2>1
  <2>4. h = g /\ t = from + j - 1
    BY <2>2, <2>3, RowIndexInjective
  <2> QED BY <1>1, <2>1, <2>4
<1>5. CASE from <= t /\ t < from + Len(entries)
  <2>1. t - from + 1 \in 1..Len(entries) /\ from + (t - from + 1) - 1 = t
    BY <1>1, <1>5
  <2>2. <<h, t - from + 1>> \in writes
    BY <2>1
  <2>3. Hits(<<h, t - from + 1>>, i0)
    BY <2>1
  <2> HIDE DEF writes, Hits
  <2>4. \E w \in writes : Hits(w, i0)
    BY <2>2, <2>3, Zenon
  <2>5. w0 \in writes /\ Hits(w0, i0)
    BY <2>4, Zenon
  <2> HIDE DEF w0, i0
  <2>6. w0[1] = h /\ w0[2] = t - from + 1
    BY <1>4, <2>5
  <2> QED BY <1>3, <1>5, <2>4, <2>6 DEF i0
<1>6. CASE ~(from <= t /\ t < from + Len(entries))
  <2>1. ~ \E w \in writes : Hits(w, i0)
    BY <1>4, <1>6
  <2> HIDE DEF writes, Hits
  <2> QED BY <1>3, <1>6, <2>1
<1> QED BY <1>5, <1>6

(* Copying entries in keeps the length of the array and stores rows only.  *)
LEMMA StoredType ==
  ASSUME NEW c \in Caches, NEW from \in Nat, NEW entries \in Seq(Entry(c)),
         cells[c] \in [Slots(c) -> Row \cup {Zero}]
  PROVE  Stored(c, from, entries) \in [Slots(c) -> Row \cup {Zero}]
<1> DEFINE writes == {<<g, j>> : g \in HeadsOf(c), j \in 1..Len(entries)}
           Hits(w, i) == i = RowIndex(c, w[1], from + w[2] - 1)
           W(i) == CHOOSE w \in writes : Hits(w, i)
<1>1. ASSUME NEW i \in Slots(c), \E w \in writes : Hits(w, i)
      PROVE  entries[W(i)[2]][W(i)[1]] \in Row
  <2>1. W(i) \in writes
    <3> HIDE DEF writes, Hits
    <3> QED BY <1>1, Zenon
  <2>2. PICK g \in HeadsOf(c), j \in 1..Len(entries) : W(i) = <<g, j>>
    BY <2>1
  <2>3. entries[j] \in Entry(c)
    OBVIOUS
  <2>4. entries[j][g] \in Row
    BY <2>3 DEF Entry
  <2> HIDE DEF W
  <2> QED BY <2>2, <2>4
<1>2. Stored(c, from, entries) =
        [i \in Slots(c) |-> IF \E w \in writes : Hits(w, i)
                            THEN entries[W(i)[2]][W(i)[1]] ELSE cells[c][i]]
  BY DEF Stored
<1>3. ASSUME NEW i \in Slots(c)
      PROVE  Stored(c, from, entries)[i] \in Row \cup {Zero}
  <2> HIDE DEF writes, Hits, W
  <2>1. Stored(c, from, entries)[i] =
          IF \E w \in writes : Hits(w, i)
          THEN entries[W(i)[2]][W(i)[1]] ELSE cells[c][i]
    BY <1>2
  <2>2. cells[c][i] \in Row \cup {Zero}
    OBVIOUS
  <2> QED BY <1>1, <2>1, <2>2
<1> HIDE DEF writes, Hits, W
<1> QED BY <1>2, <1>3

-----------------------------------------------------------------------------
(* TypeOK is not inductive by itself: a copy reads the source's active     *)
(* prefix, which must hold rows, not places never written.                 *)
IInv == TypeOK /\ ActiveRowsWritten

(* The active prefix of a cache is a sequence of entries of its shape.     *)
LEMMA ActiveIsSeq ==
  ASSUME IInv, NEW c \in Caches
  PROVE  /\ Active(c) \in Seq(Entry(c))
         /\ Len(Active(c)) = cached[c]
         /\ \A t \in 1..cached[c] :
              Active(c)[t] = [h \in HeadsOf(c) |-> cells[c][RowIndex(c, h, t - 1)]]
<1>1. cached[c] \in Nat /\ cached[c] <= Capacity[c] /\ Capacity[c] \in Nat
  BY KvCacheAssumption DEF IInv, TypeOK
<1>2. ASSUME NEW t \in 1..cached[c], NEW h \in HeadsOf(c)
      PROVE  cells[c][RowIndex(c, h, t - 1)] \in Row
  <2>1. t - 1 \in 0..(Capacity[c] - 1) /\ t - 1 \in 0..(cached[c] - 1)
    BY <1>1
  <2>2. RowIndex(c, h, t - 1) \in Slots(c)
    BY <2>1, RowIndexInRange
  <2>3. cells[c][RowIndex(c, h, t - 1)] \in Row \cup {Zero}
    BY <2>2 DEF IInv, TypeOK
  <2>4. cells[c][RowIndex(c, h, t - 1)] # Zero
    BY <2>1 DEF IInv, ActiveRowsWritten
  <2> QED BY <2>3, <2>4
<1>3. ASSUME NEW t \in 1..cached[c]
      PROVE  [h \in HeadsOf(c) |-> cells[c][RowIndex(c, h, t - 1)]] \in Entry(c)
  BY <1>2 DEF Entry
<1>4. Active(c) \in [1..cached[c] -> Entry(c)]
  BY <1>3 DEF Active
<1>5. \A t \in 1..cached[c] :
        Active(c)[t] = [h \in HeadsOf(c) |-> cells[c][RowIndex(c, h, t - 1)]]
  BY DEF Active
<1> QED BY <1>1, <1>4, <1>5

(* Copying entries in behind a part of the active prefix: the invariant    *)
(* holds, the prefix grows by the entries, no other cache changes.         *)
LEMMA StoreStep ==
  ASSUME IInv, NEW c \in Caches, NEW from \in Nat, NEW entries \in Seq(Entry(c)),
         from <= cached[c], from + Len(entries) <= Capacity[c],
         Store(c, from, entries)
  PROVE  /\ IInv'
         /\ Active(c)' = SubSeq(Active(c), 1, from) \o entries
         /\ \A d \in Caches \ {c} : Active(d)' = Active(d)
<1>1. /\ cells[c] \in [Slots(c) -> Row \cup {Zero}]
      /\ cached[c] \in Nat /\ cached[c] <= Capacity[c] /\ Capacity[c] \in Nat
      /\ Len(entries) \in Nat
  BY KvCacheAssumption DEF IInv, TypeOK
<1>2. /\ cells'[c] = Stored(c, from, entries)
      /\ cached'[c] = from + Len(entries)
      /\ \A d \in Caches \ {c} : cells'[d] = cells[d] /\ cached'[d] = cached[d]
      /\ DOMAIN cells' = Caches
      /\ cached' \in [Caches -> Nat]
  BY <1>1 DEF Store, IInv, TypeOK
<1>3. Stored(c, from, entries) \in [Slots(c) -> Row \cup {Zero}]
  BY <1>1, StoredType
<1>4. TypeOK'
  BY <1>1, <1>2, <1>3 DEF IInv, TypeOK
<1>5. ASSUME NEW h \in HeadsOf(c), NEW t \in 0..(from + Len(entries) - 1)
      PROVE  cells'[c][RowIndex(c, h, t)] =
               IF from <= t THEN entries[t - from + 1][h] ELSE cells[c][RowIndex(c, h, t)]
  <2>1. t \in 0..(Capacity[c] - 1) /\ t < from + Len(entries)
    BY <1>1
  <2> QED BY <1>2, <2>1, StoredRow
<1>6. ASSUME NEW h \in HeadsOf(c), NEW t \in 0..(from + Len(entries) - 1)
      PROVE  cells'[c][RowIndex(c, h, t)] # Zero
  <2>1. CASE from <= t
    <3>1. t - from + 1 \in 1..Len(entries)
      BY <1>1, <2>1
    <3>2. entries[t - from + 1] \in Entry(c)
      BY <3>1
    <3>3. entries[t - from + 1][h] \in Row
      BY <3>2 DEF Entry
    <3> QED BY <1>5, <2>1, <3>3, KvCacheAssumption
  <2>2. CASE ~(from <= t)
    <3>1. t \in 0..(cached[c] - 1)
      BY <1>1, <2>2
    <3>2. cells[c][RowIndex(c, h, t)] # Zero
      BY <3>1 DEF IInv, ActiveRowsWritten
    <3> QED BY <1>5, <2>2, <3>2
  <2> QED BY <2>1, <2>2
<1>7. ActiveRowsWritten'
  <2> SUFFICES ASSUME NEW d \in Caches, NEW h \in HeadsOf(d), NEW t \in 0..(cached'[d] - 1)
               PROVE  cells'[d][RowIndex(d, h, t)] # Zero
    BY DEF ActiveRowsWritten, RowIndex, HeadsOf
  <2>1. CASE d = c
    BY <1>2, <1>6, <2>1
  <2>2. CASE d # c
    BY <1>2, <2>2 DEF IInv, ActiveRowsWritten
  <2> QED BY <2>1, <2>2
<1>8. \A d \in Caches \ {c} : Active(d)' = Active(d)
  BY <1>2 DEF Active, HeadsOf, RowIndex
<1>9. Active(c)' = SubSeq(Active(c), 1, from) \o entries
  <2> DEFINE now == Active(c)'
             then == SubSeq(Active(c), 1, from) \o entries
  <2>1. /\ Active(c) \in Seq(Entry(c)) /\ Len(Active(c)) = cached[c]
        /\ \A t \in 1..cached[c] :
             Active(c)[t] = [h \in HeadsOf(c) |-> cells[c][RowIndex(c, h, t - 1)]]
    BY ActiveIsSeq
  <2>2. now = [t \in 1..(from + Len(entries)) |->
                 [h \in HeadsOf(c) |-> cells'[c][RowIndex(c, h, t - 1)]]]
    BY <1>2 DEF Active, HeadsOf, RowIndex
  <2>3. /\ then \in Seq(Entry(c)) /\ Len(then) = from + Len(entries)
        /\ \A t \in 1..from : then[t] = Active(c)[t]
        /\ \A t \in (from + 1)..(from + Len(entries)) : then[t] = entries[t - from]
    BY <1>1, <2>1
  <2>4. ASSUME NEW t \in 1..(from + Len(entries))
        PROVE  now[t] = then[t]
    <3>1. t - 1 \in 0..(from + Len(entries) - 1)
      BY <1>1
    <3>2. now[t] = [h \in HeadsOf(c) |-> cells'[c][RowIndex(c, h, t - 1)]]
      BY <2>2
    <3>3. CASE t <= from
      <4>1. \A h \in HeadsOf(c) : cells'[c][RowIndex(c, h, t - 1)] = cells[c][RowIndex(c, h, t - 1)]
        BY <1>1, <1>5, <3>1, <3>3
      <4>2. t \in 1..cached[c] /\ t \in 1..from
        BY <1>1, <3>3
      <4> QED BY <2>1, <2>3, <3>2, <4>1, <4>2
    <3>4. CASE ~(t <= from)
      <4>1. t - from \in 1..Len(entries) /\ t \in (from + 1)..(from + Len(entries))
        BY <1>1, <3>4
      <4>2. entries[t - from] = [h \in HeadsOf(c) |-> entries[t - from][h]]
        <5>1. entries[t - from] \in Entry(c)
          BY <4>1
        <5> QED BY <5>1 DEF Entry
      <4>3. \A h \in HeadsOf(c) : cells'[c][RowIndex(c, h, t - 1)] = entries[t - from][h]
        BY <1>1, <1>5, <3>1, <3>4
      <4> QED BY <2>3, <3>2, <4>1, <4>2, <4>3
    <3> QED BY <3>3, <3>4
  <2>5. now = [t \in 1..(from + Len(entries)) |-> now[t]]
    BY <2>2
  <2> HIDE DEF now, then
  <2>6. then = [t \in 1..(from + Len(entries)) |-> then[t]]
    <3>1. then \in [1..(from + Len(entries)) -> Entry(c)]
      BY <2>3
    <3> QED BY <3>1
  <2>7. now = then
    BY <2>4, <2>5, <2>6
  <2> QED BY <2>7 DEF now, then
<1> QED BY <1>4, <1>7, <1>8, <1>9 DEF IInv

(* A refused call and a truncation leave the rows alone.                   *)
LEMMA RefuseStep ==
  ASSUME IInv, UNCHANGED <<cells, cached>>
  PROVE  IInv' /\ \A d \in Caches : Active(d)' = Active(d)
BY DEF IInv, TypeOK, ActiveRowsWritten, Active, HeadsOf, RowIndex

(* Truncating keeps a prefix of the entries, and the rows behind it stay   *)
(* where they are.                                                         *)
LEMMA TruncateStep ==
  ASSUME IInv, NEW c \in Caches, NEW n \in Nat, n <= cached[c],
         cached' = [cached EXCEPT ![c] = n], UNCHANGED cells
  PROVE  /\ IInv'
         /\ Active(c)' = SubSeq(Active(c), 1, n)
         /\ \A d \in Caches \ {c} : Active(d)' = Active(d)
<1>1. /\ cached[c] \in Nat /\ cached[c] <= Capacity[c] /\ Capacity[c] \in Nat
      /\ cached'[c] = n
      /\ \A d \in Caches \ {c} : cached'[d] = cached[d]
      /\ cached' \in [Caches -> Nat]
  BY KvCacheAssumption DEF IInv, TypeOK
<1>2. TypeOK'
  BY <1>1 DEF IInv, TypeOK
<1>3. \A d \in Caches : cached'[d] <= cached[d] /\ cached'[d] \in Nat /\ cached[d] \in Nat
  BY <1>1 DEF IInv, TypeOK
<1>4. ActiveRowsWritten'
  BY <1>3 DEF IInv, ActiveRowsWritten, HeadsOf, RowIndex
<1>5. \A d \in Caches \ {c} : Active(d)' = Active(d)
  BY <1>1 DEF Active, HeadsOf, RowIndex
<1>6. Active(c)' = SubSeq(Active(c), 1, n)
  <2>1. /\ Active(c) \in Seq(Entry(c)) /\ Len(Active(c)) = cached[c]
        /\ \A t \in 1..cached[c] :
             Active(c)[t] = [h \in HeadsOf(c) |-> cells[c][RowIndex(c, h, t - 1)]]
    BY ActiveIsSeq
  <2>2. Active(c)' = [t \in 1..n |-> [h \in HeadsOf(c) |-> cells[c][RowIndex(c, h, t - 1)]]]
    BY <1>1 DEF Active, HeadsOf, RowIndex
  <2>3. SubSeq(Active(c), 1, n) = [t \in 1..n |-> Active(c)[t]]
    BY <1>1, <2>1
  <2>4. \A t \in 1..n : t \in 1..cached[c]
    BY <1>1
  <2> QED BY <2>1, <2>2, <2>3, <2>4
<1> QED BY <1>2, <1>4, <1>5, <1>6 DEF IInv

-----------------------------------------------------------------------------
(* One step, at the level of the token log: what the operation does to the *)
(* active prefixes, and that the invariant survives it.                    *)
LEMMA AppendStep ==
  ASSUME IInv, NEW c \in Caches, NEW entries \in Seq(Entry(c)),
         last' = <<"append", c, entries, HasRoom(c, Len(entries))>>,
         IF HasRoom(c, Len(entries)) THEN Store(c, cached[c], entries) ELSE Refuse
  PROVE  IInv' /\ Log!Extend(c, entries)
<1> DEFINE log == [d \in Caches |-> Active(d)]
<1>1. /\ cached[c] \in Nat /\ cached[c] <= Capacity[c] /\ Capacity[c] \in Nat
      /\ Len(entries) \in Nat
  BY KvCacheAssumption DEF IInv, TypeOK
<1>2. Active(c) \in Seq(Entry(c)) /\ Len(Active(c)) = cached[c]
  BY ActiveIsSeq
<1>3. HasRoom(c, Len(entries)) = (Len(log[c]) + Len(entries) <= Capacity[c])
  BY <1>1, <1>2 DEF HasRoom
<1>4. last' = <<"append", c, entries, Len(log[c]) + Len(entries) <= Capacity[c]>>
  BY <1>3
<1>5. CASE HasRoom(c, Len(entries))
  <2>1. Store(c, cached[c], entries) /\ cached[c] + Len(entries) <= Capacity[c]
    BY <1>1, <1>5 DEF HasRoom
  <2>2. /\ IInv'
        /\ Active(c)' = SubSeq(Active(c), 1, cached[c]) \o entries
        /\ \A d \in Caches \ {c} : Active(d)' = Active(d)
    <3>1. PICK from \in Nat : from = cached[c]
      BY <1>1
    <3>2. Store(c, from, entries) /\ from + Len(entries) <= Capacity[c] /\ from <= cached[c]
      BY <1>1, <2>1, <3>1
    <3>3. Active(c)' = SubSeq(Active(c), 1, from) \o entries
      BY <3>2, StoreStep
    <3>4. IInv'
      BY <3>2, StoreStep
    <3>5. \A d \in Caches \ {c} : Active(d)' = Active(d)
      BY <3>2, StoreStep
    <3> QED BY <3>1, <3>3, <3>4, <3>5
  <2>3. SubSeq(Active(c), 1, cached[c]) = Active(c)
    BY <1>1, <1>2
  <2>4. log' = [log EXCEPT ![c] = @ \o entries]
    BY <2>2, <2>3
  <2> HIDE DEF log
  <2>5. Len(log[c]) + Len(entries) <= Capacity[c]
    BY <1>3, <1>5
  <2>6. Log!Extend(c, entries)
    BY <1>3, <1>5, <2>4, <2>5 DEF Log!Extend, log
  <2> QED BY <2>2, <2>6
<1>6. CASE ~HasRoom(c, Len(entries))
  <2>1. IInv' /\ \A d \in Caches : Active(d)' = Active(d)
    BY <1>6, RefuseStep DEF Refuse
  <2>2. log' = log
    BY <2>1
  <2> HIDE DEF log
  <2>3. ~(Len(log[c]) + Len(entries) <= Capacity[c])
    BY <1>3, <1>6
  <2>4. Log!Extend(c, entries)
    BY <1>4, <2>2, <2>3 DEF Log!Extend, log
  <2> QED BY <2>1, <2>4
<1> QED BY <1>5, <1>6

(* A truncation to n (to 0 for clear) that is refused when n is too far.   *)
LEMMA CutStep ==
  ASSUME IInv, NEW c \in Caches, NEW n \in Nat,
         last' = <<"truncate", c, n, n <= cached[c]>>,
         cached' = IF n <= cached[c] THEN [cached EXCEPT ![c] = n] ELSE cached,
         UNCHANGED cells
  PROVE  IInv' /\ Log!Truncate(c, n)
<1> DEFINE log == [d \in Caches |-> Active(d)]
<1>1. Len(log[c]) = cached[c]
  BY ActiveIsSeq
<1>2. last' = <<"truncate", c, n, n <= Len(log[c])>>
  BY <1>1
<1>3. CASE n <= cached[c]
  <2>1. /\ IInv'
        /\ Active(c)' = SubSeq(Active(c), 1, n)
        /\ \A d \in Caches \ {c} : Active(d)' = Active(d)
    BY <1>3, TruncateStep
  <2>2. log' = [log EXCEPT ![c] = SubSeq(@, 1, n)]
    BY <2>1
  <2> HIDE DEF log
  <2>3. Log!Truncate(c, n)
    BY <1>1, <1>2, <1>3, <2>2 DEF Log!Truncate, log
  <2> QED BY <2>1, <2>3
<1>4. CASE ~(n <= cached[c])
  <2>1. IInv' /\ \A d \in Caches : Active(d)' = Active(d)
    BY <1>4, RefuseStep
  <2>2. log' = log
    BY <2>1
  <2> HIDE DEF log
  <2>3. Log!Truncate(c, n)
    BY <1>1, <1>2, <1>4, <2>2 DEF Log!Truncate, log
  <2> QED BY <2>1, <2>3
<1> QED BY <1>3, <1>4

(* A prefix copy makes the destination equal to the source, or is refused. *)
LEMMA CopyStep ==
  ASSUME IInv, NEW d \in Caches, NEW s \in Caches, CopyPrefixFrom(d, s)
  PROVE  IInv' /\ Log!Copy(d, s)
<1> DEFINE log == [c \in Caches |-> Active(c)]
           fits == Heads[d] = Heads[s] /\ Capacity[d] >= cached[s]
<1>1. /\ cached[s] \in Nat /\ cached[d] \in Nat
      /\ Capacity[d] \in Nat /\ Capacity[s] \in Nat
  BY KvCacheAssumption DEF IInv, TypeOK
<1>2. Active(s) \in Seq(Entry(s)) /\ Len(Active(s)) = cached[s]
  BY ActiveIsSeq
<1>3. Len(log[s]) = cached[s]
  BY <1>2
<1>4. last' = <<"copy", d, s, fits>>
  BY DEF CopyPrefixFrom
<1>5. fits = (Heads[d] = Heads[s] /\ Len(log[s]) <= Capacity[d])
  BY <1>1, <1>3
<1>6. last' = <<"copy", d, s, Heads[d] = Heads[s] /\ Len(log[s]) <= Capacity[d]>>
  BY <1>4, <1>5
<1>7. CASE fits
  <2>1. Store(d, 0, Active(s))
    BY <1>7 DEF CopyPrefixFrom
  <2>2. Active(s) \in Seq(Entry(d))
    <3>1. Entry(d) = Entry(s)
      BY <1>7 DEF Entry, HeadsOf
    <3> QED BY <1>2, <3>1
  <2>3. 0 <= cached[d] /\ 0 + Len(Active(s)) <= Capacity[d]
    BY <1>1, <1>2, <1>7
  <2>4. PICK entries \in Seq(Entry(d)) : entries = Active(s)
    BY <2>2
  <2>5. Store(d, 0, entries) /\ 0 <= cached[d] /\ 0 + Len(entries) <= Capacity[d] /\ 0 \in Nat
    BY <2>1, <2>3, <2>4
  <2>6. IInv'
    BY <2>5, StoreStep
  <2>7. Active(d)' = SubSeq(Active(d), 1, 0) \o entries
    BY <2>5, StoreStep
  <2>8. \A c \in Caches \ {d} : Active(c)' = Active(c)
    BY <2>5, StoreStep
  <2>9. Active(d)' = Active(s)
    <3>1. SubSeq(Active(d), 1, 0) = << >>
      <4>1. Active(d) \in Seq(Entry(d))
        BY ActiveIsSeq
      <4> QED BY <4>1
    <3> QED BY <2>4, <2>7, <3>1
  <2>10. log' = [log EXCEPT ![d] = log[s]]
    BY <2>8, <2>9
  <2>11. Heads[d] = Heads[s] /\ Len(log[s]) <= Capacity[d]
    BY <1>5, <1>7
  <2> HIDE DEF log
  <2>12. Log!Copy(d, s)
    BY <1>6, <2>10, <2>11 DEF Log!Copy, log
  <2> QED BY <2>6, <2>12
<1>8. CASE ~fits
  <2>1. Refuse
    BY <1>8 DEF CopyPrefixFrom
  <2>2. IInv' /\ \A c \in Caches : Active(c)' = Active(c)
    BY <2>1, RefuseStep DEF Refuse
  <2>3. log' = log
    BY <2>2
  <2>4. ~(Heads[d] = Heads[s] /\ Len(log[s]) <= Capacity[d])
    BY <1>5, <1>8
  <2> HIDE DEF log
  <2>5. Log!Copy(d, s)
    BY <1>6, <2>3, <2>4 DEF Log!Copy, log
  <2> QED BY <2>2, <2>5
<1> QED BY <1>7, <1>8

-----------------------------------------------------------------------------
(* Every operation preserves the invariant and does to the token log what  *)
(* the abstract specification allows.                                      *)
LEMMA StepImplements ==
  ASSUME IInv, Next
  PROVE  IInv' /\ Log!Next
<1>1. ASSUME NEW c \in Caches, NEW entry \in Entry(c), AppendToken(c, entry)
      PROVE  IInv' /\ Log!Next
  <2>1. <<entry>> \in Seq(Entry(c)) /\ Len(<<entry>>) = 1 /\ <<entry>> \in [1..1 -> Entry(c)]
    BY <1>1
  <2>2. PICK entries \in Seq(Entry(c)) : entries = <<entry>>
    BY <2>1
  <2>3. /\ last' = <<"append", c, entries, HasRoom(c, Len(entries))>>
        /\ IF HasRoom(c, Len(entries)) THEN Store(c, cached[c], entries) ELSE Refuse
    BY <1>1, <2>1, <2>2 DEF AppendToken
  <2>4. IInv' /\ Log!Extend(c, entries)
    BY <2>3, AppendStep
  <2>5. 1 \in 0..MaxAppend /\ entries \in [1..1 -> Log!Entry(c)]
    BY <2>1, <2>2, KvCacheAssumption DEF Entry, HeadsOf, Log!Entry
  <2> QED BY <2>4, <2>5 DEF Log!Next
<1>2. ASSUME NEW c \in Caches, NEW n \in 0..MaxAppend, NEW entries \in [1..n -> Entry(c)],
             AppendSequence(c, entries)
      PROVE  IInv' /\ Log!Next
  <2>1. entries \in Seq(Entry(c))
    BY <1>2, KvCacheAssumption
  <2>2. IInv' /\ Log!Extend(c, entries)
    BY <1>2, <2>1, AppendStep DEF AppendSequence
  <2>3. entries \in [1..n -> Log!Entry(c)]
    BY DEF Entry, HeadsOf, Log!Entry
  <2> QED BY <2>2, <2>3 DEF Log!Next
<1>3. ASSUME NEW c \in Caches, NEW n \in 0..(Capacity[c] + 1), TruncateTo(c, n)
      PROVE  IInv' /\ Log!Next
  <2>1. n \in Nat
    BY KvCacheAssumption
  <2>2. IInv' /\ Log!Truncate(c, n)
    BY <1>3, <2>1, CutStep DEF TruncateTo
  <2> QED BY <2>2 DEF Log!Next
<1>4. ASSUME NEW c \in Caches, Clear(c)
      PROVE  IInv' /\ Log!Next
  <2>1. cached[c] \in Nat /\ (0 <= cached[c]) = TRUE
    BY DEF IInv, TypeOK
  <2>2. /\ last' = <<"truncate", c, 0, 0 <= cached[c]>>
        /\ cached' = IF 0 <= cached[c] THEN [cached EXCEPT ![c] = 0] ELSE cached
        /\ UNCHANGED cells
    BY <1>4, <2>1 DEF Clear
  <2>3. IInv' /\ Log!Truncate(c, 0)
    BY <2>2, CutStep
  <2>4. 0 \in 0..(Capacity[c] + 1)
    BY KvCacheAssumption
  <2> QED BY <2>3, <2>4 DEF Log!Next
<1>5. ASSUME NEW c \in Caches, NEW s \in Caches \ {c}, CopyPrefixFrom(c, s)
      PROVE  IInv' /\ Log!Next
  <2>1. IInv' /\ Log!Copy(c, s)
    BY <1>5, CopyStep
  <2> QED BY <2>1 DEF Log!Next
<1> QED BY <1>1, <1>2, <1>3, <1>4, <1>5 DEF Next

(* A step that changes no variable changes no log.                         *)
LEMMA StutterImplements ==
  ASSUME IInv, UNCHANGED vars
  PROVE  IInv' /\ UNCHANGED Log!vars
<1>1. IInv' /\ \A d \in Caches : Active(d)' = Active(d)
  BY RefuseStep DEF vars
<1> QED BY <1>1 DEF vars, Log!vars

(* The caches start empty and so do the logs.                              *)
LEMMA InitImplements ==
  ASSUME Init
  PROVE  IInv /\ Log!Init
<1>1. \A c \in Caches : Capacity[c] \in Nat \ {0}
  BY KvCacheAssumption
<1>2. TypeOK
  BY <1>1 DEF Init, TypeOK
<1>3. ActiveRowsWritten
  BY DEF Init, ActiveRowsWritten
<1>4. ASSUME NEW c \in Caches
      PROVE  Active(c) = << >>
  <2>1. Active(c) \in Seq(Entry(c)) /\ Len(Active(c)) = cached[c]
    BY <1>2, <1>3, ActiveIsSeq DEF IInv
  <2>2. cached[c] = 0
    BY DEF Init
  <2> QED BY <2>1, <2>2
<1> QED BY <1>2, <1>3, <1>4 DEF IInv, Log!Init, Init

(* The invariant holds in every reachable state.                           *)
LEMMA Invariance == Spec => []IInv
<1>1. Init => IInv
  BY InitImplements
<1>2. IInv /\ [Next]_vars => IInv'
  BY StepImplements, StutterImplements
<1> QED BY <1>1, <1>2, PTL DEF Spec

(* No cache ever outgrows the capacity it was allocated for, and its array *)
(* keeps its length: whatever the shapes and the order of the calls.       *)
THEOREM TypeCorrect == Spec => []TypeOK
<1>1. IInv => TypeOK
  BY DEF IInv
<1> QED BY <1>1, Invariance, PTL

(* Attention never reads a row that was not written, whatever truncations  *)
(* and copies between caches of any capacities came before.                *)
THEOREM RowsWritten == Spec => []ActiveRowsWritten
<1>1. IInv => ActiveRowsWritten
  BY DEF IInv
<1> QED BY <1>1, Invariance, PTL

(* The flat, strided arrays of cache.rs implement bounded token sequences. *)
THEOREM Refinement == Spec => ImplementsTokenLog
<1>1. Init => Log!Init
  BY InitImplements
<1>2. IInv /\ [Next]_vars => [Log!Next]_(Log!vars)
  BY StepImplements, StutterImplements
<1> QED BY <1>1, <1>2, Invariance, PTL DEF Spec, ImplementsTokenLog, Log!Spec
-----------------------------------------------------------------------------
(* The packed file.                                                        *)

(* A set of natural numbers that is not empty has a least element: the     *)
(* form of induction used here.                                            *)
LEMMA LeastElement ==
  ASSUME NEW T \in SUBSET Nat, T # {}
  PROVE  \E m \in T : \A n \in T : m <= n
<1>1. PICK m \in T : \A n \in T : <<n, m>> \notin OpToRel(<, Nat)
  BY WFMin, NatLessThanWellFounded, Zenon
<1>2. \A n \in T : ~(n < m)
  BY <1>1, Zenon DEF OpToRel
<1> QED BY <1>2

(* The sums of the beginnings of a sequence, by their recursion.           *)
Sums(f, a, n) == f = [k \in 0..n |-> IF k = 0 THEN 0 ELSE f[k - 1] + a[k]]

LEMMA SumsExist ==
  ASSUME NEW a, NEW n \in Nat
  PROVE  \E f : Sums(f, a, n)
<1> DEFINE T == {k \in Nat : ~ \E f : Sums(f, a, k)}
<1>1. SUFFICES ASSUME T # {} PROVE FALSE
  OBVIOUS
<1>2. PICK m \in T : \A k \in T : m <= k
  BY <1>1, LeastElement
<1>3. m # 0
  <2>1. Sums([k \in 0..0 |-> 0], a, 0)
    BY DEF Sums
  <2> QED BY <2>1
<1>4. PICK f : Sums(f, a, m - 1)
  BY <1>2, <1>3
<1> DEFINE g == [k \in 0..m |-> IF k <= m - 1 THEN f[k] ELSE f[m - 1] + a[m]]
<1>5. ASSUME NEW k \in 0..m
      PROVE  g[k] = IF k = 0 THEN 0 ELSE g[k - 1] + a[k]
  <2>1. CASE k = 0
    BY <1>3, <1>4, <2>1 DEF Sums
  <2>2. CASE k # 0 /\ k <= m - 1
    <3>1. g[k] = f[k] /\ g[k - 1] = f[k - 1]
      BY <2>2
    <3>2. k \in 0..(m - 1) /\ f[k] = f[k - 1] + a[k]
      BY <1>3, <1>4, <2>2 DEF Sums
    <3> QED BY <2>2, <3>1, <3>2
  <2>3. CASE k = m
    BY <1>3, <2>3
  <2> QED BY <2>1, <2>2, <2>3
<1>6. g = [k \in 0..m |-> IF k = 0 THEN 0 ELSE g[k - 1] + a[k]]
  BY <1>5
<1>7. Sums(g, a, m)
  BY <1>6 DEF Sums
<1> QED BY <1>2, <1>7

(* Concatenated sequences stand where the sum of the lengths before them   *)
(* says.                                                                   *)
Flat(f, seqs, n) ==
  f = [i \in 1..n |-> IF i = 1 THEN seqs[i] ELSE f[i - 1] \o seqs[i]]

LEMMA FlatExists ==
  ASSUME NEW seqs, NEW n \in Nat
  PROVE  \E f : Flat(f, seqs, n)
<1> DEFINE T == {k \in Nat : ~ \E f : Flat(f, seqs, k)}
<1>1. SUFFICES ASSUME T # {} PROVE FALSE
  OBVIOUS
<1>2. PICK m \in T : \A k \in T : m <= k
  BY <1>1, LeastElement
<1>3. m # 0
  <2>1. Flat([k \in 1..0 |-> 0], seqs, 0)
    BY DEF Flat
  <2> QED BY <2>1
<1>4. PICK f : Flat(f, seqs, m - 1)
  BY <1>2, <1>3
<1> DEFINE g == [k \in 1..m |-> IF k <= m - 1 THEN f[k]
                                ELSE IF k = 1 THEN seqs[k] ELSE f[m - 1] \o seqs[m]]
<1>5. ASSUME NEW k \in 1..m
      PROVE  g[k] = IF k = 1 THEN seqs[k] ELSE g[k - 1] \o seqs[k]
  <2>2. CASE k <= m - 1
    <3>1. g[k] = f[k] /\ (k # 1 => g[k - 1] = f[k - 1])
      BY <2>2
    <3>2. k \in 1..(m - 1)
      BY <2>2
    <3>3. f[k] = IF k = 1 THEN seqs[k] ELSE f[k - 1] \o seqs[k]
      BY <1>4, <3>2, Zenon DEF Flat
    <3> QED BY <3>1, <3>3, Zenon
  <2>3. CASE k = m
    <3>1. k # 1 => g[k - 1] = f[m - 1]
      BY <1>3, <2>3
    <3> QED BY <1>3, <2>3, <3>1
  <2> QED BY <2>2, <2>3
<1>6. g = [i \in 1..m |-> IF i = 1 THEN seqs[i] ELSE g[i - 1] \o seqs[i]]
  BY <1>5
<1>7. Flat(g, seqs, m)
  BY <1>6 DEF Flat
<1> QED BY <1>2, <1>7

LEMMA ConcatIs ==
  ASSUME NEW S, NEW a \in Seq(S), NEW b \in Seq(S)
  PROVE  /\ a \o b \in Seq(S)
         /\ Len(a \o b) = Len(a) + Len(b)
         /\ \A i \in 1..Len(a) : (a \o b)[i] = a[i]
         /\ \A i \in 1..Len(b) : (a \o b)[Len(a) + i] = b[i]
OBVIOUS

LEMMA FurtherOn ==
  /\ \A b, d \in Nat : \A x \in 1..b : x \in 1..(b + d)
  /\ \A b, d \in Nat : \A k \in 1..d : b + k \in 1..(b + d)
OBVIOUS

Laid(S, N, seqs, begin) ==
  /\ N \in Nat \ {0} /\ seqs \in [1..N -> Seq(S)]
  /\ begin \in [1..(N + 1) -> Nat] /\ begin[1] = 0
  /\ \A c \in 1..N : begin[c + 1] = begin[c] + Len(seqs[c])
Joins(all, S, N, seqs, begin) ==
  /\ all \in Seq(S)
  /\ Len(all) = begin[N + 1]
  /\ \A c \in 1..N : \A k \in 1..Len(seqs[c]) :
       /\ begin[c] + k \in 1..begin[N + 1]
       /\ all[begin[c] + k] = seqs[c][k]

LEMMA FlattenParts ==
  ASSUME NEW S, NEW N, NEW seqs, NEW begin, Laid(S, N, seqs, begin)
  PROVE  Joins(FlattenSeq(seqs), S, N, seqs, begin)
<1>0. /\ N \in Nat \ {0} /\ seqs \in [1..N -> Seq(S)]
      /\ begin \in [1..(N + 1) -> Nat] /\ begin[1] = 0
      /\ \A c \in 1..N : begin[c + 1] = begin[c] + Len(seqs[c])
  BY DEF Laid
<1> DEFINE f == CHOOSE f : Flat(f, seqs, N)
           Good(n) == /\ f[n] \in Seq(S)
                      /\ Len(f[n]) = begin[n + 1]
                      /\ \A c \in 1..n : \A k \in 1..Len(seqs[c]) :
                           /\ begin[c] + k \in 1..begin[n + 1]
                           /\ f[n][begin[c] + k] = seqs[c][k]
           T == {n \in 1..N : ~Good(n)}
<1>1. Flat(f, seqs, N)
  BY <1>0, FlatExists
<1>2. Len(seqs) = N
  BY <1>0, LenProperties
<1>3. FlattenSeq(seqs) = f[N]
  BY <1>0, <1>2 DEF FlattenSeq, Flat
<1> HIDE DEF f
<1>4. ASSUME NEW n \in 1..N
      PROVE  f[n] = IF n = 1 THEN seqs[n] ELSE f[n - 1] \o seqs[n]
  BY <1>1, Zenon DEF Flat
<1> HIDE DEF Good
<1>5. ASSUME NEW n \in 1..N, \A k \in 1..N : k < n => Good(k)
      PROVE  Good(n)
  <2>3. /\ n \in Nat /\ n + 1 \in 1..(N + 1) /\ seqs[n] \in Seq(S)
        /\ begin[n] \in Nat /\ Len(seqs[n]) \in Nat
        /\ begin[n + 1] = begin[n] + Len(seqs[n])
    BY <1>0
  <2>5. CASE n = 1
    <3>1. f[n] = seqs[n] /\ begin[n] = 0
      BY <1>0, <1>4, <2>5
    <3> QED BY <2>3, <2>5, <3>1 DEF Good
  <2>6. CASE n # 1
    <3>1. PICK p \in 1..N : p = n - 1
      BY <1>0, <2>6
    <3>2. p < n /\ p + 1 = n
      BY <1>0, <3>1
    <3>3. f[n] = f[p] \o seqs[n]
      BY <1>4, <2>6, <3>1
    <3>4. Good(p)
      BY <1>5, <3>2
    <3>5. f[p] \in Seq(S) /\ Len(f[p]) = begin[n]
      BY <3>2, <3>4 DEF Good
    <3>6. /\ f[n] \in Seq(S) /\ Len(f[n]) = begin[n + 1]
          /\ \A i \in 1..begin[n] : f[n][i] = f[p][i]
          /\ \A i \in 1..Len(seqs[n]) : f[n][begin[n] + i] = seqs[n][i]
      <4> DEFINE a == f[p]
                 b == seqs[n]
      <4>2. a \in Seq(S) /\ b \in Seq(S)
        BY <2>3, <3>5
      <4> HIDE DEF a, b
      <4>3. /\ a \o b \in Seq(S)
            /\ Len(a \o b) = Len(a) + Len(b)
            /\ \A i \in 1..Len(a) : (a \o b)[i] = a[i]
            /\ \A i \in 1..Len(b) : (a \o b)[Len(a) + i] = b[i]
        BY <4>2, ConcatIs
      <4>1. /\ f[p] \o seqs[n] \in Seq(S)
            /\ Len(f[p] \o seqs[n]) = Len(f[p]) + Len(seqs[n])
            /\ \A i \in 1..Len(f[p]) : (f[p] \o seqs[n])[i] = f[p][i]
            /\ \A i \in 1..Len(seqs[n]) : (f[p] \o seqs[n])[Len(f[p]) + i] = seqs[n][i]
        BY <4>3 DEF a, b
      <4> QED BY <2>3, <3>3, <3>5, <4>1, Zenon
    <3>7. ASSUME NEW c \in 1..n, NEW k \in 1..Len(seqs[c])
          PROVE  begin[c] + k \in 1..begin[n + 1] /\ f[n][begin[c] + k] = seqs[c][k]
      <4>1. CASE c = n
        <5>1. k \in 1..Len(seqs[n]) /\ begin[c] = begin[n] /\ seqs[c] = seqs[n]
          BY <4>1
        <5>2. begin[n] + k \in 1..begin[n + 1] /\ f[n][begin[n] + k] = seqs[n][k]
          BY <2>3, <3>6, <5>1, FurtherOn
        <5> QED BY <5>1, <5>2
      <4>2. CASE c # n
        <5>1. c \in 1..p
          BY <1>0, <3>1, <4>2
        <5>2. begin[c] + k \in 1..begin[n] /\ f[p][begin[c] + k] = seqs[c][k]
          BY <3>2, <3>4, <5>1 DEF Good
        <5>3. begin[c] + k \in 1..begin[n + 1]
          BY <2>3, <5>2, FurtherOn, Zenon
        <5> QED BY <3>6, <5>2, <5>3
      <4> QED BY <4>1, <4>2
    <3> QED BY <3>6, <3>7 DEF Good
  <2> QED BY <2>5, <2>6
<1>6. T = {}
  <2>1. SUFFICES ASSUME T # {} PROVE FALSE
    OBVIOUS
  <2>2. T \in SUBSET Nat
    BY <1>0
  <2>3. PICK n \in T : \A k \in T : n <= k
    BY <2>1, <2>2, LeastElement
  <2>4. \A k \in 1..N : k < n => Good(k)
    BY <1>0, <2>3
  <2> QED BY <1>5, <2>3, <2>4
<1>7. Good(N)
  <2>1. N \in 1..N
    BY <1>0
  <2> QED BY <1>6, <2>1
<1> QED BY <1>3, <1>7 DEF Good, Joins

-----------------------------------------------------------------------------
(* A tensor of a model whose shards open lies in the shard it is read      *)
(* from, and its source is as long as its entry says.                      *)
BytesOfShard(m, t) == {ShardBytes(m, ShardOf(m, t))[i] : i \in DOMAIN ShardBytes(m, ShardOf(m, t))}

LEMMA SourceIs ==
  ASSUME NEW m \in Models, OpensShards(m), NEW t \in Names(m)
  PROVE  /\ Source(m, t) \in Seq(BytesOfShard(m, t))
         /\ LengthOfTensor(m, t) \in Nat
         /\ Len(Source(m, t)) = LengthOfTensor(m, t)
<1> DEFINE s == ShardOf(m, t)
           b == ShardBytes(m, s)
<1>1. s \in Opened(m) /\ t \in DOMAIN Entries(m, s)
  BY DEF Names, ShardOf, Holders
<1>2. s \in DOMAIN Shards[m]
  BY <1>1, ShardsAssumption DEF Opened
<1>3. Entries(m, s)[t][1] \in Nat /\ Entries(m, s)[t][2] \in Nat
  BY <1>1, <1>2, ShardsAssumption DEF Entries
<1>4. ShardHeaderEnd(m, s) \in Nat /\ Shards[m][s].size \in Nat
  BY <1>2, ShardsAssumption DEF ShardHeaderEnd, LengthPrefix
<1>5. Entries(m, s)[t][1] <= Entries(m, s)[t][2] /\ DataEnd(m, s, t) <= Shards[m][s].size
  BY <1>1 DEF OpensShards, ShardParses
<1>6. DataStart(m, s, t) \in Nat /\ DataEnd(m, s, t) \in Nat
      /\ DataStart(m, s, t) <= DataEnd(m, s, t)
  BY <1>3, <1>4, <1>5 DEF DataStart, DataEnd
<1> HIDE DEF s
<1>7. DOMAIN b = 1..Shards[m][s].size /\ b \in Seq({b[i] : i \in DOMAIN b})
      /\ Len(b) = Shards[m][s].size
  <2> DEFINE size == Shards[m][s].size
             C == {b[i] : i \in DOMAIN b}
  <2>1. DOMAIN b = 1..size /\ b = [i \in 1..size |-> b[i]]
    BY DEF ShardBytes
  <2> HIDE DEF b, size
  <2>2. \A i \in 1..size : b[i] \in C
    BY <2>1
  <2> HIDE DEF C
  <2>3. b \in [1..size -> C]
    BY <2>1, <2>2
  <2>4. size \in Nat
    BY <1>4 DEF size
  <2>5. b \in Seq(C) /\ Len(b) = size
    BY <2>3, <2>4
  <2> QED BY <2>1, <2>5 DEF size, C
<1> DEFINE x == DataStart(m, s, t)
           y == DataEnd(m, s, t)
           B == {b[i] : i \in DOMAIN b}
<1>8. x \in Nat /\ y \in Nat /\ x <= y /\ y <= Len(b) /\ b \in Seq(B)
  BY <1>5, <1>6, <1>7
<1> HIDE DEF x, y, b, B
<1>9. SubSeq(b, x + 1, y) \in Seq(B) /\ Len(SubSeq(b, x + 1, y)) = y - x
  BY <1>8
<1>10. y - x \in Nat
  BY <1>8
<1> QED BY <1>9, <1>10 DEF x, y, b, B, s, Source, LengthOfTensor, BytesOfShard

-----------------------------------------------------------------------------
(* The sum of the lengths before a tensor.                                 *)
LEMMA OrderIs ==
  ASSUME NEW m \in Models
  PROVE  /\ Len(Order[m]) \in Nat
         /\ DOMAIN Order[m] = 1..Len(Order[m])
BY PackedAssumption

LEMMA OffsetIs ==
  ASSUME NEW m \in Models
  PROVE  /\ Offset(m, 1) = 0
         /\ \A i \in 1..Len(Order[m]) :
              Offset(m, i + 1) = Offset(m, i) + LengthOfTensor(m, Order[m][i])
<1> DEFINE N == Len(Order[m])
           a == [n \in 1..N |-> LengthOfTensor(m, Order[m][n])]
           f == CHOOSE f : f = [n \in 0..N |->
                  IF n = 0 THEN 0 ELSE f[n - 1] + LengthOfTensor(m, Order[m][n])]
<1>1. N \in Nat
  BY OrderIs
<1>2. PICK g : Sums(g, a, N)
  BY <1>1, SumsExist
<1>3. g = [n \in 0..N |-> IF n = 0 THEN 0 ELSE g[n - 1] + LengthOfTensor(m, Order[m][n])]
  <2>1. \A n \in 0..N : n # 0 => n \in 1..N
    BY <1>1
  <2>2. \A n \in 1..N : a[n] = LengthOfTensor(m, Order[m][n])
    OBVIOUS
  <2> HIDE DEF a, N
  <2>3. \A n \in 0..N : g[n] = IF n = 0 THEN 0 ELSE g[n - 1] + LengthOfTensor(m, Order[m][n])
    BY <1>2, <2>1, <2>2 DEF Sums
  <2>4. g = [n \in 0..N |-> g[n]]
    BY <1>2 DEF Sums
  <2> QED BY <2>3, <2>4
<1>4. f = [n \in 0..N |-> IF n = 0 THEN 0 ELSE f[n - 1] + LengthOfTensor(m, Order[m][n])]
  BY <1>3, Zenon
<1>5. \A i : Offset(m, i) = f[i - 1]
  BY DEF Offset
<1> HIDE DEF f, N
<1>6. f[0] = 0
  BY <1>1, <1>4
<1>7. ASSUME NEW i \in 1..N
      PROVE  f[i] = f[i - 1] + LengthOfTensor(m, Order[m][i])
  BY <1>1, <1>4
<1>8. Offset(m, 1) = 0
  <2>1. 1 - 1 = 0
    OBVIOUS
  <2> QED BY <1>5, <1>6, <2>1
<1>9. ASSUME NEW i \in 1..N
      PROVE  Offset(m, i + 1) = Offset(m, i) + LengthOfTensor(m, Order[m][i])
  <2>1. (i + 1) - 1 = i
    BY <1>1
  <2> QED BY <1>5, <1>7, <2>1
<1> QED BY <1>8, <1>9 DEF N

(* A packed model: every tensor of the order is one of the shards'.        *)
LEMMA OrderNames ==
  ASSUME NEW m \in Models, Packable(m)
  PROVE  /\ OpensShards(m)
         /\ \A i \in 1..Len(Order[m]) : Order[m][i] \in Names(m)
         /\ ToSet(Order[m]) = Names(m)
<1>1. OpensShards(m) /\ Covers(m)
  BY DEF Packable
<1>2. ToSet(Order[m]) \subseteq Names(m) /\ Len(Order[m]) = Cardinality(Names(m))
  BY <1>1 DEF Covers
<1>3. \A i \in 1..Len(Order[m]) : Order[m][i] \in ToSet(Order[m])
  BY OrderIs DEF ToSet
<1>4. IsFiniteSet(Names(m))
  <2>1. IsFiniteSet(Opened(m))
    <3>1. IsFiniteSet(DOMAIN Index[m])
      BY ShardsAssumption
    <3> DEFINE g == [t \in DOMAIN Index[m] |-> Index[m][t]]
    <3>2. g \in Surjection(DOMAIN Index[m], Opened(m))
      BY DEF Opened, Range, Surjection
    <3> QED BY <3>1, <3>2, FS_Surjection
  <2>2. \A s \in Opened(m) : IsFiniteSet(DOMAIN Entries(m, s))
    BY ShardsAssumption DEF Opened, Entries
  <2> DEFINE U == {DOMAIN Entries(m, s) : s \in Opened(m)}
  <2>3. IsFiniteSet(U)
    <3> DEFINE g == [s \in Opened(m) |-> DOMAIN Entries(m, s)]
    <3>2. g \in Surjection(Opened(m), U)
      BY DEF Surjection
    <3> QED BY <2>1, <3>2, FS_Surjection
  <2>4. \A T \in U : IsFiniteSet(T)
    BY <2>2
  <2>5. IsFiniteSet(UNION U)
    BY <2>3, <2>4, FS_UNION
  <2> QED BY <2>5 DEF Names
<1>5. Cardinality(ToSet(Order[m])) = Len(Order[m])
  <2> DEFINE N == Len(Order[m])
             S == ToSet(Order[m])
  <2>1. N \in Nat /\ DOMAIN Order[m] = 1..N
    BY OrderIs
  <2>2. IsFiniteSet(1..N) /\ Cardinality(1..N) = N
    <3> HIDE DEF N
    <3> QED BY <2>1, FS_Interval
  <2>3. Order[m] \in Bijection(1..N, S)
    <3>1. Order[m] \in [1..N -> S]
      BY <2>1, PackedAssumption
    <3>2. \A i, j \in 1..N : Order[m][i] = Order[m][j] => i = j
      BY <2>1, PackedAssumption
    <3>3. \A x \in S : \E i \in 1..N : Order[m][i] = x
      BY <2>1 DEF ToSet
    <3> QED BY <3>1, <3>2, <3>3 DEF Bijection, Injection, Surjection, IsInjective
  <2> HIDE DEF N, S
  <2>4. Cardinality(S) = N
    BY <2>2, <2>3, FS_Bijection DEF ExistsBijection
  <2> QED BY <2>4 DEF N, S
<1>6. ToSet(Order[m]) = Names(m)
  BY <1>2, <1>4, <1>5, FS_Subset
<1> QED BY <1>1, <1>2, <1>3, <1>6

-----------------------------------------------------------------------------
(* What is written, write by write, and where each write begins.           *)
Byte(m) ==
  {Magic[1], LengthOf(HeaderLength[m]), Blank}
    \union {<<"header", m, i>> : i \in 1..HeaderLength[m]}
    \union UNION {BytesOfShard(m, t) : t \in Names(m)}
Writes(m) == 4 + Len(Order[m])
Begin(m) ==
  [c \in 1..(Writes(m) + 1) |->
     IF c <= 3 THEN c - 1
     ELSE IF c = 4 THEN HeaderEnd(HeaderLength[m])
     ELSE DataBase(HeaderLength[m]) + Offset(m, c - 4)]

LEMMA AlignUpIs ==
  ASSUME NEW v \in Nat
  PROVE  AlignUp(v) \in Nat /\ AlignUp(v) >= v
<1>1. Alignment \in Nat \ {0}
  BY PackedAssumption
<1>2. v % Alignment \in 0..(Alignment - 1)
  BY <1>1
<1> DEFINE r == v % Alignment
<1> HIDE DEF r
<1>3. r \in 0..(Alignment - 1)
  BY <1>2 DEF r
<1>4. Alignment - r \in Nat /\ v + (Alignment - r) \in Nat /\ v + (Alignment - r) >= v
  BY <1>1, <1>3
<1> QED BY <1>4 DEF AlignUp, r

LEMMA HeaderIs ==
  ASSUME NEW m \in Models
  PROVE  /\ HeaderLength[m] \in Nat \ {0}
         /\ HeaderEnd(HeaderLength[m]) = 2 + HeaderLength[m]
         /\ HeaderEnd(HeaderLength[m]) \in Nat
         /\ DataBase(HeaderLength[m]) \in Nat
         /\ DataBase(HeaderLength[m]) >= HeaderEnd(HeaderLength[m])
         /\ DataBase(HeaderLength[m]) - HeaderEnd(HeaderLength[m]) \in Nat
<1>1. HeaderLength[m] \in Nat \ {0}
  BY PackedAssumption
<1>2. HeaderEnd(HeaderLength[m]) = 2 + HeaderLength[m] /\ HeaderEnd(HeaderLength[m]) \in Nat
  BY <1>1 DEF HeaderEnd
<1>3. /\ DataBase(HeaderLength[m]) \in Nat
      /\ DataBase(HeaderLength[m]) >= HeaderEnd(HeaderLength[m])
  BY <1>2, AlignUpIs DEF DataBase
<1> QED BY <1>1, <1>2, <1>3

LEMMA OneElement ==
  ASSUME NEW S, NEW x \in S
  PROVE  <<x>> \in Seq(S)
OBVIOUS

LEMMA ChunksAre ==
  ASSUME NEW m \in Models, Packable(m)
  PROVE  /\ Writes(m) \in Nat \ {0} /\ Writes(m) >= 4
         /\ Len(Chunks(m)) = Writes(m)
         /\ Chunks(m) \in [1..Writes(m) -> Seq(Byte(m))]
         /\ Chunks(m)[1] = Magic
         /\ Chunks(m)[2] = <<LengthOf(HeaderLength[m])>>
         /\ Chunks(m)[3] = Header(m)
         /\ Chunks(m)[4] = Zeros(DataBase(HeaderLength[m]) - HeaderEnd(HeaderLength[m]))
         /\ \A i \in 1..Len(Order[m]) : Chunks(m)[4 + i] = Source(m, Order[m][i])
<1> DEFINE N == Len(Order[m])
           n == HeaderLength[m]
           d == DataBase(n) - HeaderEnd(n)
           B == Byte(m)
           a == <<Magic, <<LengthOf(n)>>, Header(m), Zeros(d)>>
           b == [i \in DOMAIN Order[m] |-> Source(m, Order[m][i])]
<1>1. N \in Nat /\ DOMAIN Order[m] = 1..N /\ n \in Nat \ {0} /\ d \in Nat
  BY OrderIs, HeaderIs
<1>2. Magic \in Seq(B) /\ <<LengthOf(n)>> \in Seq(B)
  <2>1. Magic[1] \in B /\ LengthOf(n) \in B
    BY DEF Byte
  <2>2. Magic = <<Magic[1]>>
    BY DEF Magic
  <2> HIDE DEF B
  <2>3. <<Magic[1]>> \in Seq(B) /\ <<LengthOf(n)>> \in Seq(B)
    BY <2>1, OneElement
  <2> QED BY <2>2, <2>3
<1>3. Header(m) \in Seq(B)
  <2>1. \A i \in 1..n : <<"header", m, i>> \in B
    BY DEF Byte
  <2> HIDE DEF B, n
  <2>2. Header(m) \in [1..n -> B]
    BY <2>1 DEF Header, n
  <2> QED BY <1>1, <2>2
<1>4. Zeros(d) \in Seq(B)
  <2>1. Blank \in B
    BY DEF Byte
  <2> HIDE DEF B, d
  <2>2. Zeros(d) \in [1..d -> B]
    BY <2>1 DEF Zeros
  <2> QED BY <1>1, <2>2
<1>5. ASSUME NEW i \in 1..N PROVE Source(m, Order[m][i]) \in Seq(B)
  <2> DEFINE t == Order[m][i]
  <2>1. t \in Names(m) /\ OpensShards(m)
    BY OrderNames
  <2>2. Source(m, t) \in Seq(BytesOfShard(m, t))
    BY <2>1, SourceIs
  <2>3. BytesOfShard(m, t) \subseteq B
    BY <2>1 DEF Byte
  <2> HIDE DEF B, t
  <2>4. \A s : s \in Seq(BytesOfShard(m, t)) => s \in Seq(B)
    BY <2>3
  <2> QED BY <2>2, <2>4 DEF t
<1> HIDE DEF B
<1>6. a \in Seq(Seq(B)) /\ Len(a) = 4
  <2> HIDE DEF d, n
  <2> QED BY <1>2, <1>3, <1>4
<1>7. a[1] = Magic /\ a[2] = <<LengthOf(n)>> /\ a[3] = Header(m) /\ a[4] = Zeros(d)
  <2> HIDE DEF d, n
  <2> QED OBVIOUS
<1>8. b \in Seq(Seq(B)) /\ Len(b) = N /\ \A i \in 1..N : b[i] = Source(m, Order[m][i])
  <2>1. b \in [1..N -> Seq(B)]
    BY <1>1, <1>5
  <2>2. \A i \in 1..N : b[i] = Source(m, Order[m][i])
    BY <1>1
  <2> HIDE DEF b, N
  <2> QED BY <1>1, <2>1, <2>2, SMTT(30)
<1>9. Chunks(m) = a \o b
  BY DEF Chunks
<1> DEFINE S == Seq(B)
<1> HIDE DEF a, b, d, n, N
<1>10. /\ a \o b \in Seq(S) /\ Len(a \o b) = 4 + N
       /\ \A i \in 1..4 : (a \o b)[i] = a[i]
       /\ \A i \in 1..N : (a \o b)[4 + i] = b[i]
  <2>1. a \in Seq(S) /\ b \in Seq(S) /\ Len(a) = 4 /\ Len(b) = N
    BY <1>6, <1>8
  <2> HIDE DEF S
  <2>2. /\ a \o b \in Seq(S) /\ Len(a \o b) = Len(a) + Len(b)
        /\ \A i \in 1..Len(a) : (a \o b)[i] = a[i]
        /\ \A i \in 1..Len(b) : (a \o b)[Len(a) + i] = b[i]
    <3>1. a \in Seq(S) /\ b \in Seq(S)
      BY <2>1
    <3> QED BY <3>1, ConcatIs
  <2> QED BY <2>1, <2>2
<1>11. Writes(m) = 4 + N /\ 4 + N \in Nat \ {0} /\ 4 + N >= 4
  BY <1>1 DEF Writes, N
<1>12. Chunks(m) \in [1..Writes(m) -> Seq(B)]
  <2> DEFINE ab == a \o b
  <2>2. ab \in Seq(S)
    BY <1>10
  <2> HIDE DEF S, ab
  <2>3. ab \in [1..Len(ab) -> S]
    BY <2>2
  <2>1. a \o b \in [1..Len(a \o b) -> S]
    BY <2>3 DEF ab
  <2> QED BY <1>9, <1>10, <1>11, <2>1 DEF S
<1>13. /\ Chunks(m)[1] = Magic /\ Chunks(m)[2] = <<LengthOf(n)>>
       /\ Chunks(m)[3] = Header(m) /\ Chunks(m)[4] = Zeros(d)
  <2>1. a[1] = Magic /\ a[2] = <<LengthOf(n)>> /\ a[3] = Header(m) /\ a[4] = Zeros(d)
    BY <1>7
  <2>2. \A i \in 1..4 : Chunks(m)[i] = a[i]
    BY <1>9, <1>10
  <2> QED BY <2>1, <2>2
<1>14. \A i \in 1..N : Chunks(m)[4 + i] = Source(m, Order[m][i])
  BY <1>8, <1>9, <1>10
<1>15. Len(Chunks(m)) = Writes(m)
  BY <1>9, <1>10, <1>11
<1> QED BY <1>11, <1>12, <1>13, <1>14, <1>15 DEF B, N, n, d

LEMMA BeginIs ==
  ASSUME NEW m \in Models, Packable(m)
  PROVE  /\ Begin(m) \in [1..(Writes(m) + 1) -> Nat]
         /\ Begin(m)[1] = 0
         /\ \A c \in 1..Writes(m) : Begin(m)[c + 1] = Begin(m)[c] + Len(Chunks(m)[c])
         /\ Begin(m)[Writes(m) + 1] = FileLength(m)
         /\ \A i \in 1..(Len(Order[m]) + 1) :
              /\ Begin(m)[4 + i] = DataBase(HeaderLength[m]) + Offset(m, i)
              /\ Offset(m, i) \in Nat
         /\ \A i \in 1..Len(Order[m]) : Len(Chunks(m)[4 + i]) = LengthOfTensor(m, Order[m][i])
<1> DEFINE N == Len(Order[m])
           n == HeaderLength[m]
           h == HeaderEnd(n)
           d == DataBase(n)
           b == Begin(m)
<1>1. N \in Nat /\ n \in Nat \ {0} /\ h = 2 + n /\ h \in Nat /\ d \in Nat /\ d >= h
  BY OrderIs, HeaderIs
<1>2. \A i \in 1..N : /\ LengthOfTensor(m, Order[m][i]) \in Nat
                      /\ Len(Chunks(m)[4 + i]) = LengthOfTensor(m, Order[m][i])
  BY OrderNames, SourceIs, ChunksAre
<1>3. /\ Offset(m, 1) = 0
      /\ \A i \in 1..N : Offset(m, i + 1) = Offset(m, i) + LengthOfTensor(m, Order[m][i])
  BY OffsetIs
<1> HIDE DEF N
<1>4. \A i \in 1..(N + 1) : Offset(m, i) \in Nat
  <2> DEFINE T == {i \in 1..(N + 1) : Offset(m, i) \notin Nat}
  <2>1. SUFFICES ASSUME T # {} PROVE FALSE
    OBVIOUS
  <2>2. T \in SUBSET Nat
    BY <1>1
  <2>3. PICK i \in T : \A j \in T : i <= j
    BY <2>1, <2>2, LeastElement
  <2>4. i # 1
    BY <1>3
  <2>5. PICK j \in 1..N : i = j + 1
    <3>1. i - 1 \in 1..N /\ i = (i - 1) + 1
      BY <1>1, <2>4
    <3> QED BY <3>1
  <2>6. Offset(m, j) \in Nat
    <3>1. j \in 1..(N + 1) /\ ~(i <= j)
      BY <1>1, <2>5
    <3> QED BY <2>3, <3>1
  <2>7. Offset(m, j + 1) \in Nat
    BY <1>2, <1>3, <2>6
  <2> QED BY <2>5, <2>7
<1>5. Writes(m) = 4 + N
  BY DEF Writes, N
<1>6. \A i \in 1..(N + 1) : b[4 + i] = d + Offset(m, i)
  <2>1. ASSUME NEW i \in 1..(N + 1) PROVE b[4 + i] = d + Offset(m, i)
    <3>1. 4 + i \in 1..((4 + N) + 1) /\ ~(4 + i <= 3) /\ 4 + i # 4 /\ (4 + i) - 4 = i
      BY <1>1
    <3> QED BY <1>5, <3>1 DEF Begin
  <2> QED BY <2>1
<1>7. b[1] = 0 /\ b[2] = 1 /\ b[3] = 2 /\ b[4] = h
  <2>1. {1, 2, 3, 4} \subseteq 1..((4 + N) + 1)
    BY <1>1
  <2> HIDE DEF h
  <2>2. b = [c \in 1..((4 + N) + 1) |->
               IF c <= 3 THEN c - 1 ELSE IF c = 4 THEN h ELSE d + Offset(m, c - 4)]
    BY <1>5 DEF Begin, h
  <2> HIDE DEF b
  <2> QED BY <2>1, <2>2
<1>8. \A c \in 1..((4 + N) + 1) : c \in 1..4 \/ \E i \in 1..(N + 1) : c = 4 + i
  <2>1. ASSUME NEW c \in 1..((4 + N) + 1), c \notin 1..4 PROVE c - 4 \in 1..(N + 1) /\ c = 4 + (c - 4)
    BY <1>1, <2>1
  <2> QED BY <2>1
<1>9. b \in [1..(Writes(m) + 1) -> Nat]
  <2>1. b = [c \in 1..((4 + N) + 1) |-> b[c]]
    BY <1>5 DEF Begin
  <2>2. ASSUME NEW c \in 1..((4 + N) + 1) PROVE b[c] \in Nat
    <3>1. CASE c \in 1..4
      <4>1. c = 1 \/ c = 2 \/ c = 3 \/ c = 4
        BY <3>1
      <4> HIDE DEF b, h
      <4> QED BY <1>1, <1>7, <4>1
    <3>2. CASE \E i \in 1..(N + 1) : c = 4 + i
      <4> HIDE DEF b, d
      <4> QED BY <1>1, <1>4, <1>6, <3>2
    <3> QED BY <1>8, <3>1, <3>2
  <2> HIDE DEF b
  <2> QED BY <1>5, <2>1, <2>2
<1>10. Len(Chunks(m)[1]) = 1 /\ Len(Chunks(m)[2]) = 1 /\ Len(Chunks(m)[3]) = n
       /\ Len(Chunks(m)[4]) = d - h
  <2>1. Len(Header(m)) = n
    BY <1>1 DEF Header
  <2>2. d - h \in Nat
    BY <1>1
  <2>3. Len(Zeros(d - h)) = d - h
    <3> HIDE DEF d, h
    <3> QED BY <2>2 DEF Zeros
  <2>4. Len(Magic) = 1
    BY DEF Magic
  <2>5. Len(<<LengthOf(n)>>) = 1
    OBVIOUS
  <2> QED BY <2>1, <2>3, <2>4, <2>5, ChunksAre
<1>11. ASSUME NEW c \in 1..(4 + N) PROVE b[c + 1] = b[c] + Len(Chunks(m)[c])
  <2> HIDE DEF b, d, h, n
  <2>1. CASE c \in {1, 2, 3}
    <3>1. CASE c = 1
      <4>1. b[c + 1] = 1 /\ b[c] = 0 /\ Len(Chunks(m)[c]) = 1
        BY <1>7, <1>10, <3>1
      <4> QED BY <4>1
    <3>2. CASE c = 2
      <4>1. b[c + 1] = 2 /\ b[c] = 1 /\ Len(Chunks(m)[c]) = 1
        BY <1>7, <1>10, <3>2
      <4> QED BY <4>1
    <3>3. CASE c = 3
      <4>1. b[c + 1] = 2 + n /\ b[c] = 2 /\ Len(Chunks(m)[c]) = n
        BY <1>1, <1>7, <1>10, <3>3
      <4> QED BY <4>1
    <3> QED BY <2>1, <3>1, <3>2, <3>3
  <2>2. CASE c = 4
    <3>1. b[5] = d
      <4>1. 4 + 1 = 5 /\ 1 \in 1..(N + 1)
        BY <1>1
      <4> QED BY <1>1, <1>3, <1>6, <4>1
    <3> QED BY <1>1, <1>7, <1>10, <2>2, <3>1
  <2>3. CASE c \notin {1, 2, 3, 4}
    <3>1. PICK i \in 1..N : c = 4 + i
      <4>1. c - 4 \in 1..N /\ c = 4 + (c - 4)
        BY <1>1, <2>3
      <4> QED BY <4>1
    <3>2. i + 1 \in 1..(N + 1) /\ i \in 1..(N + 1) /\ c + 1 = 4 + (i + 1)
      BY <1>1, <3>1
    <3>3. b[c + 1] = d + Offset(m, i + 1) /\ b[c] = d + Offset(m, i)
      BY <1>6, <3>1, <3>2
    <3>4. Offset(m, i) \in Nat /\ LengthOfTensor(m, Order[m][i]) \in Nat
      BY <1>2, <1>4, <3>2
    <3>5. Offset(m, i + 1) = Offset(m, i) + Len(Chunks(m)[c])
      BY <1>2, <1>3, <3>1
    <3>6. Len(Chunks(m)[c]) \in Nat
      BY <1>2, <3>1
    <3> QED BY <1>1, <3>3, <3>4, <3>5, <3>6
  <2> QED BY <2>1, <2>2, <2>3
<1>12. b[(4 + N) + 1] = FileLength(m)
  <2>1. N + 1 \in 1..(N + 1) /\ 4 + (N + 1) = (4 + N) + 1
    BY <1>1
  <2>2. b[4 + (N + 1)] = d + Offset(m, N + 1)
    BY <1>6, <2>1
  <2> QED BY <2>1, <2>2 DEF FileLength, N
<1> QED BY <1>2, <1>4, <1>5, <1>6, <1>7, <1>9, <1>11, <1>12 DEF N

LEMMA ChunkIs ==
  ASSUME NEW m \in Models, Packable(m), NEW c \in 1..Writes(m)
  PROVE  /\ Len(Chunks(m)[c]) \in Nat
         /\ Begin(m)[c] \in Nat /\ Begin(m)[c + 1] \in Nat
         /\ Begin(m)[c + 1] = Begin(m)[c] + Len(Chunks(m)[c])
<1>1. Chunks(m) \in [1..Writes(m) -> Seq(Byte(m))] /\ Writes(m) \in Nat
  BY ChunksAre
<1>2. Chunks(m)[c] \in Seq(Byte(m))
  BY <1>1
<1>3. Len(Chunks(m)[c]) \in Nat
  BY <1>2
<1>4. c \in 1..(Writes(m) + 1) /\ c + 1 \in 1..(Writes(m) + 1)
  BY <1>1
<1>5. Begin(m)[c] \in Nat /\ Begin(m)[c + 1] \in Nat
  BY <1>4, BeginIs
<1>6. Begin(m)[c + 1] = Begin(m)[c] + Len(Chunks(m)[c])
  BY BeginIs
<1> QED BY <1>3, <1>5, <1>6

LEMMA CutIs ==
  ASSUME NEW S, NEW w \in Seq(S), NEW x \in Nat, NEW l \in Nat, x + l <= Len(w)
  PROVE  SubSeq(w, x + 1, x + l) = [k \in 1..l |-> w[x + k]]
<1> DEFINE v == SubSeq(w, x + 1, x + l)
<1>1. v \in Seq(S) /\ Len(v) = l /\ \A k \in 1..l : v[k] = w[x + k]
  OBVIOUS
<1> HIDE DEF v
<1>2. v = [k \in 1..l |-> v[k]]
  BY <1>1
<1>3. v = [k \in 1..l |-> w[x + k]]
  BY <1>1, <1>2
<1> QED BY <1>3 DEF v

LEMMA BeginInside ==
  ASSUME NEW m \in Models, Packable(m)
  PROVE  /\ FileLength(m) \in Nat
         /\ \A c \in 1..(Writes(m) + 1) : Begin(m)[c] <= FileLength(m)
<1> DEFINE W == Writes(m)
           b == Begin(m)
           T == {j \in 0..W : ~(b[(W + 1) - j] <= b[W + 1])}
<1>1. W \in Nat \ {0} /\ b \in [1..(W + 1) -> Nat]
  BY ChunksAre, BeginIs
<1>2. \A c \in 1..W : Len(Chunks(m)[c]) \in Nat /\ b[c + 1] = b[c] + Len(Chunks(m)[c])
  BY ChunkIs
<1>3. b[W + 1] = FileLength(m)
  BY BeginIs
<1> HIDE DEF W, b
<1>4. b[W + 1] \in Nat
  <2>1. W + 1 \in 1..(W + 1)
    BY <1>1
  <2> QED BY <1>1, <2>1
<1>5. T = {}
  <2>1. SUFFICES ASSUME T # {} PROVE FALSE
    OBVIOUS
  <2>2. T \in SUBSET Nat
    BY <1>1
  <2>3. PICK j \in T : \A k \in T : j <= k
    BY <2>1, <2>2, LeastElement
  <2>4. j \in 0..W /\ j # 0
    BY <1>1, <1>4
  <2>5. PICK c \in 1..W : c = (W + 1) - j
    <3>1. (W + 1) - j \in 1..W
      BY <1>1, <2>4
    <3> QED BY <3>1
  <2>6. c + 1 = (W + 1) - (j - 1) /\ j - 1 \in 0..W /\ ~(j <= j - 1)
    BY <1>1, <2>4, <2>5
  <2>7. b[c + 1] <= b[W + 1]
    BY <2>3, <2>6
  <2>8. b[c] \in Nat /\ b[c + 1] \in Nat
    <3>1. c \in 1..(W + 1) /\ c + 1 \in 1..(W + 1)
      BY <1>1
    <3> QED BY <1>1, <3>1
  <2>9. b[c] <= b[W + 1]
    BY <1>2, <1>4, <2>7, <2>8
  <2> QED BY <2>3, <2>5, <2>9
<1>6. ASSUME NEW c \in 1..(W + 1) PROVE b[c] <= b[W + 1]
  <2>1. (W + 1) - c \in 0..W /\ (W + 1) - ((W + 1) - c) = c
    BY <1>1
  <2> QED BY <1>5, <2>1
<1> QED BY <1>3, <1>4, <1>6 DEF W, b

LEMMA PackedFileIs ==
  ASSUME NEW m \in Models, Packable(m)
  PROVE  /\ PackedFile(m) \in Seq(Byte(m))
         /\ Len(PackedFile(m)) = FileLength(m)
         /\ \A c \in 1..Writes(m) : \A k \in 1..Len(Chunks(m)[c]) :
              /\ Begin(m)[c] + k \in 1..FileLength(m)
              /\ PackedFile(m)[Begin(m)[c] + k] = Chunks(m)[c][k]
<1> DEFINE W == Writes(m)
           b == Begin(m)
           s == Chunks(m)
           B == Byte(m)
<1>1. /\ W \in Nat \ {0} /\ s \in [1..W -> Seq(B)]
      /\ b \in [1..(W + 1) -> Nat] /\ b[1] = 0
      /\ \A c \in 1..W : b[c + 1] = b[c] + Len(s[c])
      /\ b[W + 1] = FileLength(m)
  BY ChunksAre, BeginIs
<1> HIDE DEF W, b, s, B
<1>2. /\ FlattenSeq(s) \in Seq(B)
      /\ Len(FlattenSeq(s)) = b[W + 1]
      /\ \A c \in 1..W : \A k \in 1..Len(s[c]) :
           /\ b[c] + k \in 1..b[W + 1]
           /\ FlattenSeq(s)[b[c] + k] = s[c][k]
  <2>1. Laid(B, W, s, b)
    BY <1>1 DEF Laid
  <2>2. Joins(FlattenSeq(s), B, W, s, b)
    BY <2>1, FlattenParts
  <2> QED BY <2>2 DEF Joins
<1> QED BY <1>1, <1>2 DEF W, b, s, B, PackedFile

(* The file of a model after n bytes of it.                                *)
Written(m, n) ==
  [i \in 1..FileLength(m) |-> IF i <= n THEN PackedFile(m)[i] ELSE Blank]

LEMMA WrittenIs ==
  ASSUME NEW m \in Models, Packable(m), NEW n
  PROVE  /\ DOMAIN Written(m, n) = 1..FileLength(m)
         /\ Len(Written(m, n)) = FileLength(m)
         /\ \A i \in 1..FileLength(m) :
              Written(m, n)[i] = IF i <= n THEN PackedFile(m)[i] ELSE Blank
<1>1. FileLength(m) \in Nat
  BY BeginInside
<1> QED BY <1>1 DEF Written

LEMMA WrittenFull ==
  ASSUME NEW m \in Models, Packable(m)
  PROVE  Written(m, FileLength(m)) = PackedFile(m)
<1>1. FileLength(m) \in Nat /\ PackedFile(m) \in Seq(Byte(m))
      /\ Len(PackedFile(m)) = FileLength(m)
  BY BeginInside, PackedFileIs
<1>2. PackedFile(m) = [i \in 1..FileLength(m) |-> PackedFile(m)[i]]
  BY <1>1
<1>3. \A i \in 1..FileLength(m) : i <= FileLength(m)
  BY <1>1
<1> QED BY <1>2, <1>3 DEF Written

(* A write, whole or in part, brings the file so much further.             *)
LEMMA OverwriteIs ==
  ASSUME NEW m \in Models, Packable(m), NEW c \in 1..Writes(m),
         NEW k \in 0..Len(Chunks(m)[c]), NEW s,
         Len(s) = k, \A i \in 1..k : s[i] = Chunks(m)[c][i],
         cursor = Begin(m)[c], file = Written(m, cursor)
  PROVE  /\ cursor + k \in 0..FileLength(m)
         /\ Overwritten(s) = Written(m, cursor + k)
<1> DEFINE L == FileLength(m)
           F == PackedFile(m)
           C == Chunks(m)[c]
<1>1. L \in Nat /\ cursor \in Nat /\ Len(C) \in Nat /\ cursor + Len(C) <= L
  <2>1. c + 1 \in 1..(Writes(m) + 1)
    BY ChunksAre
  <2>2. L \in Nat /\ Begin(m)[c + 1] <= L
    BY <2>1, BeginInside
  <2>3. cursor \in Nat /\ Len(C) \in Nat /\ Begin(m)[c + 1] = cursor + Len(C)
    BY ChunkIs
  <2> QED BY <2>2, <2>3
<1>2. Len(file) = L /\ \A i \in 1..L : file[i] = IF i <= cursor THEN F[i] ELSE Blank
  BY WrittenIs
<1>3. \A i \in 1..Len(C) : F[cursor + i] = C[i]
  BY PackedFileIs
<1>4. k \in Nat /\ k <= Len(C) /\ cursor + k \in 0..L
  <2> HIDE DEF L, C
  <2> QED BY <1>1 DEF C
<1>5. Overwritten(s) = [i \in 1..L |-> IF i \in (cursor + 1)..(cursor + k) THEN s[i - cursor]
                                       ELSE file[i]]
  <2> HIDE DEF L, F, C
  <2>1. (IF cursor + k > L THEN cursor + k ELSE L) = L
    BY <1>1, <1>4
  <2>2. \A i \in 1..L : i <= L
    BY <1>1
  <2> QED BY <1>2, <2>1, <2>2 DEF Overwritten
<1>6. ASSUME NEW i \in 1..L
      PROVE  (IF i \in (cursor + 1)..(cursor + k) THEN s[i - cursor] ELSE file[i])
               = IF i <= cursor + k THEN F[i] ELSE Blank
  <2> HIDE DEF L, F
  <2>1. CASE i \in (cursor + 1)..(cursor + k)
    <3>1. i - cursor \in 1..k /\ cursor + (i - cursor) = i /\ i <= cursor + k
      BY <1>1, <1>4, <2>1, SMTT(30)
    <3>2. i - cursor \in 1..Len(C)
      <4> DEFINE q == Len(C)
      <4>1. q \in Nat /\ k <= q
        BY <1>1, <1>4
      <4> HIDE DEF q, C
      <4>2. i - cursor \in 1..q
        BY <1>4, <3>1, <4>1
      <4> QED BY <4>2 DEF q
    <3>3. s[i - cursor] = F[i]
      <4>1. s[i - cursor] = C[i - cursor]
        BY <3>1
      <4>2. F[cursor + (i - cursor)] = C[i - cursor]
        BY <1>3, <3>2
      <4> QED BY <3>1, <4>1, <4>2
    <3> QED BY <2>1, <3>1, <3>3
  <2>2. CASE i \notin (cursor + 1)..(cursor + k)
    <3>1. file[i] = IF i <= cursor THEN F[i] ELSE Blank
      BY <1>2
    <3>2. i <= cursor <=> i <= cursor + k
      BY <1>1, <1>4, <2>2
    <3> QED BY <2>2, <3>1, <3>2
  <2> QED BY <2>1, <2>2
<1>7. Written(m, cursor + k) = [i \in 1..L |-> IF i <= cursor + k THEN F[i] ELSE Blank]
  BY DEF Written
<1> QED BY <1>4, <1>5, <1>6, <1>7

-----------------------------------------------------------------------------
(* The header tells whose file it is.                                      *)
LEMMA HeaderTells ==
  ASSUME NEW m \in Models, Packable(m), NEW n
  PROVE  /\ FileLength(m) >= 3
         /\ Written(m, n)[3] \in {<<"header", m, 1>>, Blank}
         /\ Written(m, FileLength(m))[1] = Magic[1]
         /\ Written(m, FileLength(m))[2] = LengthOf(HeaderLength[m])
         /\ \A i \in 1..HeaderLength[m] :
              /\ 2 + i <= FileLength(m)
              /\ Written(m, FileLength(m))[2 + i] = <<"header", m, i>>
<1> DEFINE h == HeaderLength[m]
           F == PackedFile(m)
           L == FileLength(m)
<1>1. h \in Nat \ {0} /\ L \in Nat /\ Writes(m) \in Nat /\ Writes(m) >= 4
  BY HeaderIs, BeginInside, ChunksAre
<1>2. 1 \in 1..Writes(m) /\ 2 \in 1..Writes(m) /\ 3 \in 1..Writes(m)
  BY <1>1
<1>3. Begin(m)[1] = 0 /\ Begin(m)[2] = 1 /\ Begin(m)[3] = 2
  <2>1. 1 \in 1..(Writes(m) + 1) /\ 2 \in 1..(Writes(m) + 1) /\ 3 \in 1..(Writes(m) + 1)
    BY <1>1
  <2> QED BY <2>1 DEF Begin
<1>4. Len(Chunks(m)[1]) = 1 /\ Chunks(m)[1][1] = Magic[1]
  <2>1. Chunks(m)[1] = Magic
    BY ChunksAre
  <2> QED BY <2>1 DEF Magic
<1>5. Len(Chunks(m)[2]) = 1 /\ Chunks(m)[2][1] = LengthOf(h)
  <2>1. Chunks(m)[2] = <<LengthOf(h)>>
    BY ChunksAre
  <2> QED BY <2>1
<1>6. Len(Chunks(m)[3]) = h /\ \A i \in 1..h : Chunks(m)[3][i] = <<"header", m, i>>
  <2>1. Chunks(m)[3] = Header(m)
    BY ChunksAre
  <2> QED BY <1>1, <2>1 DEF Header
<1> HIDE DEF h
<1>7. \A k \in 1..1 : Begin(m)[1] + k \in 1..L /\ F[Begin(m)[1] + k] = Chunks(m)[1][k]
  BY <1>2, <1>4, PackedFileIs
<1>8. \A k \in 1..1 : Begin(m)[2] + k \in 1..L /\ F[Begin(m)[2] + k] = Chunks(m)[2][k]
  BY <1>2, <1>5, PackedFileIs
<1>9. \A k \in 1..h : Begin(m)[3] + k \in 1..L /\ F[Begin(m)[3] + k] = Chunks(m)[3][k]
  BY <1>2, <1>6, PackedFileIs
<1> HIDE DEF F, L
<1>10. 1 \in 1..1 /\ 0 + 1 = 1 /\ 1 + 1 = 2 /\ 2 + 1 = 3 /\ 1 \in 1..h
  BY <1>1
<1>11. F[1] = Magic[1] /\ F[2] = LengthOf(h) /\ F[3] = <<"header", m, 1>>
       /\ 1 \in 1..L /\ 2 \in 1..L /\ 3 \in 1..L
  BY <1>3, <1>4, <1>5, <1>6, <1>7, <1>8, <1>9, <1>10
<1>12. \A i \in 1..h : 2 + i \in 1..L /\ F[2 + i] = <<"header", m, i>>
  BY <1>3, <1>6, <1>9
<1>13. Written(m, n)[3] \in {F[3], Blank}
  BY <1>11, WrittenIs DEF F, L
<1>14. \A i \in 1..L : Written(m, L)[i] = F[i]
  BY <1>1, WrittenFull DEF F, L
<1> QED BY <1>1, <1>11, <1>12, <1>13, <1>14 DEF F, L, h

-----------------------------------------------------------------------------
(* What is read of a file whose first n bytes are written: the beginning   *)
(* of the tensor, and zeros.                                               *)
LEMMA TensorRead ==
  ASSUME NEW m \in Models, Packable(m), NEW n \in 0..FileLength(m), NEW i \in 1..Len(Order[m])
  PROVE  LET source == Source(m, Order[m][i])
             view == SubSeq(Written(m, n), Start(m, i) + 1, End(m, i)) IN
         /\ Start(m, i) \in Nat /\ End(m, i) = Start(m, i) + Len(source)
         /\ End(m, i) <= FileLength(m)
         /\ \E k \in 0..Len(source) :
              view = SubSeq(source, 1, k) \o Zeros(Len(source) - k)
         /\ n = FileLength(m) => view = source
<1> DEFINE s == Source(m, Order[m][i])
           L == FileLength(m)
           F == PackedFile(m)
           x == Start(m, i)
           l == Len(s)
           w == Written(m, n)
           B == BytesOfShard(m, Order[m][i])
<1>1. OpensShards(m) /\ Order[m][i] \in Names(m)
  BY OrderNames
<1>2. s \in Seq(B) /\ l \in Nat /\ l = LengthOfTensor(m, Order[m][i])
  BY <1>1, SourceIs
<1>3. x = Begin(m)[4 + i] /\ i \in 1..(Len(Order[m]) + 1) /\ 4 + i \in 1..Writes(m)
      /\ (4 + i) + 1 \in 1..(Writes(m) + 1) /\ 4 + i \in 1..(Writes(m) + 1)
  <2>1. Len(Order[m]) \in Nat /\ Writes(m) = 4 + Len(Order[m])
    BY OrderIs DEF Writes
  <2>2. i \in 1..(Len(Order[m]) + 1)
    BY <2>1
  <2>3. x = Begin(m)[4 + i]
    BY <2>2, BeginIs DEF Start
  <2>4. 4 + i \in 1..Writes(m) /\ (4 + i) + 1 \in 1..(Writes(m) + 1)
        /\ 4 + i \in 1..(Writes(m) + 1)
    BY <2>1
  <2> QED BY <2>2, <2>3, <2>4
<1>4. Chunks(m)[4 + i] = s
  BY ChunksAre
<1>5. x \in Nat /\ Begin(m)[(4 + i) + 1] = x + l /\ x + l <= L /\ L \in Nat
  <2>1. x \in Nat /\ Begin(m)[(4 + i) + 1] = x + l
    BY <1>3, <1>4, ChunkIs
  <2>2. L \in Nat /\ Begin(m)[(4 + i) + 1] <= L
    BY <1>3, BeginInside
  <2> QED BY <2>1, <2>2
<1>6. \A k \in 1..l : x + k \in 1..L /\ F[x + k] = s[k]
  BY <1>3, <1>4, PackedFileIs
<1>7. End(m, i) = x + l
  BY <1>2 DEF End
<1>8. DOMAIN w = 1..L /\ Len(w) = L /\ \A j \in 1..L : w[j] = IF j <= n THEN F[j] ELSE Blank
  BY WrittenIs
<1> DEFINE v == SubSeq(w, x + 1, x + l)
<1>9. v = [k \in 1..l |-> w[x + k]]
  <2> DEFINE S == {w[j] : j \in 1..L}
  <2>1. w \in Seq(S)
    <3>1. w = [j \in 1..L |-> w[j]]
      BY <1>8 DEF Written
    <3> HIDE DEF w, L
    <3>2. \A j \in 1..L : w[j] \in S
      OBVIOUS
    <3> HIDE DEF S
    <3>3. w \in [1..L -> S]
      BY <3>1, <3>2
    <3> QED BY <1>5, <3>3
  <2> HIDE DEF w, x, l, S
  <2> QED BY <1>2, <1>5, <1>8, <2>1, CutIs
<1> HIDE DEF w, x, l, s, F, L
<1>10. \A k \in 1..l : w[x + k] = IF x + k <= n THEN s[k] ELSE Blank
  BY <1>6, <1>8
<1>11. n \in Nat /\ n <= L
  BY <1>5 DEF L
<1>12. \E k \in 0..l : \A j \in 1..l : x + j <= n <=> j <= k
  <2>1. CASE n <= x
    <3>1. \A j \in 1..l : ~(x + j <= n) /\ ~(j <= 0)
      BY <1>2, <1>5, <1>11, <2>1
    <3>2. 0 \in 0..l
      BY <1>2
    <3> QED BY <3>1, <3>2
  <2>2. CASE n > x /\ n <= x + l
    <3>1. n - x \in 0..l /\ \A j \in 1..l : x + j <= n <=> j <= n - x
      BY <1>2, <1>5, <1>11, <2>2
    <3> QED BY <3>1
  <2>3. CASE n > x + l
    <3>1. l \in 0..l /\ \A j \in 1..l : x + j <= n /\ j <= l
      BY <1>2, <1>5, <1>11, <2>3
    <3> QED BY <3>1
  <2> QED BY <1>2, <1>5, <1>11, <2>1, <2>2, <2>3
<1>13. PICK k \in 0..l : \A j \in 1..l : x + j <= n <=> j <= k
  BY <1>12
<1>14. SubSeq(s, 1, k) \o Zeros(l - k) = [j \in 1..l |-> IF j <= k THEN s[j] ELSE Blank]
  <2> DEFINE C == B \union {Blank}
  <2>1. \A z : z \in Seq(B) => z \in Seq(C)
    OBVIOUS
  <2>2. s \in Seq(C)
    BY <1>2, <2>1
  <2>3. Blank \in C
    OBVIOUS
  <2> HIDE DEF C
  <2> DEFINE a == SubSeq(s, 1, k)
             z == Zeros(l - k)
  <2>4. a \in Seq(C) /\ Len(a) = k /\ \A j \in 1..k : a[j] = s[j]
    BY <1>2, <2>2 DEF l
  <2>5. l - k \in Nat
    BY <1>2
  <2>6. z \in Seq(C) /\ Len(z) = l - k /\ \A j \in 1..(l - k) : z[j] = Blank
    <3> DEFINE q == l - k
    <3> HIDE DEF q
    <3>1. q \in Nat
      BY <2>5 DEF q
    <3>2. Zeros(q) \in [1..q -> C] /\ \A j \in 1..q : Zeros(q)[j] = Blank
      BY <2>3 DEF Zeros
    <3>3. Zeros(q) \in Seq(C) /\ Len(Zeros(q)) = q
      BY <3>1, <3>2
    <3> QED BY <3>2, <3>3 DEF q
  <2> HIDE DEF a, z
  <2>7. /\ a \o z \in Seq(C) /\ Len(a \o z) = Len(a) + Len(z)
        /\ \A j \in 1..Len(a) : (a \o z)[j] = a[j]
        /\ \A j \in 1..Len(z) : (a \o z)[Len(a) + j] = z[j]
    <3>1. a \in Seq(C) /\ z \in Seq(C)
      BY <2>4, <2>6
    <3> QED BY <3>1, ConcatIs
  <2>8. Len(a \o z) = l
    BY <1>2, <2>4, <2>6, <2>7
  <2>9. ASSUME NEW j \in 1..l PROVE (a \o z)[j] = IF j <= k THEN s[j] ELSE Blank
    <3>1. CASE j <= k
      <4>1. j \in 1..k
        BY <3>1
      <4> QED BY <2>4, <2>7, <3>1, <4>1
    <3>2. CASE ~(j <= k)
      <4>1. j - k \in 1..(l - k) /\ k + (j - k) = j
        BY <1>2, <3>2
      <4> QED BY <2>4, <2>6, <2>7, <3>2, <4>1
    <3> QED BY <3>1, <3>2
  <2>10. a \o z = [j \in 1..l |-> (a \o z)[j]]
    <3> DEFINE az == a \o z
    <3>1. az \in Seq(C) /\ Len(az) = l
      BY <2>7, <2>8
    <3> HIDE DEF az
    <3>2. az = [j \in 1..l |-> az[j]]
      BY <3>1
    <3> QED BY <3>2 DEF az
  <2>11. a \o z = [j \in 1..l |-> IF j <= k THEN s[j] ELSE Blank]
    BY <2>9, <2>10
  <2> QED BY <2>11 DEF a, z
<1>15. v = SubSeq(s, 1, k) \o Zeros(l - k)
  BY <1>9, <1>10, <1>13, <1>14
<1>16. ASSUME n = L PROVE v = s
  <2>1. \A j \in 1..l : x + j <= n
    BY <1>2, <1>5, <1>16
  <2>2. s = [j \in 1..l |-> s[j]]
    BY <1>2 DEF l
  <2> QED BY <1>9, <1>10, <2>1, <2>2
<1> HIDE DEF v
<1>17. \E j \in 0..l : v = SubSeq(s, 1, j) \o Zeros(l - j)
  BY <1>15
<1> QED BY <1>5, <1>7, <1>16, <1>17 DEF v, w, x, l, s, L

-----------------------------------------------------------------------------
(* Whose file it is shows in the first byte of its header.                 *)
LEMMA HeaderFirst ==
  ASSUME NEW h \in Models, NEW f,
         SubSeq(f, 3, HeaderEnd(HeaderLength[h])) = Header(h)
  PROVE  f[3] = <<"header", h, 1>>
<1> DEFINE e == HeaderEnd(HeaderLength[h])
           S == {f[i] : i \in 3..e}
<1>1. HeaderLength[h] \in Nat \ {0} /\ e = 2 + HeaderLength[h] /\ e \in Nat
  BY HeaderIs
<1> HIDE DEF e
<1>2. \A i \in 3..e : f[i] \in S
  OBVIOUS
<1> HIDE DEF S
<1>3. \A i \in 1..(e - 3 + 1) : SubSeq(f, 3, e)[i] = f[3 + i - 1]
  BY <1>1, <1>2, SubSeqProperties
<1>4. 1 \in 1..(e - 3 + 1) /\ 3 + 1 - 1 = 3
  BY <1>1
<1>5. SubSeq(f, 3, e)[1] = f[3]
  BY <1>3, <1>4
<1>6. Header(h)[1] = <<"header", h, 1>>
  BY <1>1 DEF Header
<1> QED BY <1>5, <1>6 DEF e

LEMMA TuplesDiffer ==
  /\ \A a, b : <<"header", a, 1>> = <<"header", b, 1>> => a = b
  /\ \A a : <<"header", a, 1>> # Blank
<1>1. ASSUME NEW a, NEW b, <<"header", a, 1>> = <<"header", b, 1>> PROVE a = b
  <2>1. <<"header", a, 1>>[2] = a /\ <<"header", b, 1>>[2] = b
    OBVIOUS
  <2> QED BY <1>1, <2>1
<1>2. ASSUME NEW a PROVE <<"header", a, 1>> # Blank
  <2>1. Len(<<"header", a, 1>>) = 3 /\ Len(<<"zero">>) = 1
    OBVIOUS
  <2> QED BY <2>1 DEF Blank
<1> QED BY <1>1, <1>2

LEMMA OneOwner ==
  ASSUME NEW m \in Models, Packable(m), NEW n, NEW h,
         Written(m, n)[3] = <<"header", h, 1>>
  PROVE  h = m
<1>1. Written(m, n)[3] \in {<<"header", m, 1>>, Blank}
  BY HeaderTells
<1> QED BY <1>1, TuplesDiffer

LEMMA HeaderStays ==
  ASSUME NEW m \in Models, Packable(m), NEW n \in Nat, NEW k \in Nat, n <= k,
         Written(m, n)[3] = <<"header", m, 1>>
  PROVE  Written(m, k)[3] = <<"header", m, 1>>
<1>1. FileLength(m) \in Nat /\ 3 \in 1..FileLength(m)
  BY HeaderTells, BeginInside
<1>2. Written(m, n)[3] = IF 3 <= n THEN PackedFile(m)[3] ELSE Blank
  BY <1>1, WrittenIs
<1>3. Written(m, k)[3] = IF 3 <= k THEN PackedFile(m)[3] ELSE Blank
  BY <1>1, WrittenIs
<1>4. 3 <= n
  BY <1>2, TuplesDiffer
<1> QED BY <1>2, <1>3, <1>4

-----------------------------------------------------------------------------
(* The inductive invariant of the store.                                   *)

(* What is in the file was written for one model, from its beginning on.   *)
FileKnown ==
  \/ file = None
  \/ file = <<>>
  \/ \E m \in Models : Packable(m) /\ \E n \in 0..FileLength(m) : file = Written(m, n)

PackerState ==
  /\ pc \in {"idle", "create", "set_len", "write"}
  /\ pc # "idle" => model \in Models /\ Packable(model)
  /\ pc # "write" => at = 1 /\ cursor = 0
  /\ pc = "set_len" => file = <<>>
  /\ pc = "write" => /\ at \in 1..(Writes(model) + 1)
                     /\ cursor = Begin(model)[at]
                     /\ file = Written(model, cursor)

PackedState ==
  packed # None =>
    /\ pc \in {"idle", "create"}
    /\ packed \in Models /\ Packable(packed)
    /\ file = PackedFile(packed)

(* The header of the file a reader opened is still there, unless the       *)
(* reader is stale.                                                        *)
ReaderState ==
  reader # None =>
    LET m == reader.model IN
    /\ reader = [model |-> m, packed |-> reader.packed, place |-> reader.place,
                 stale |-> reader.stale]
    /\ m \in Models
    /\ reader.packed \in BOOLEAN /\ reader.stale \in BOOLEAN
    /\ ~reader.packed => OpensShards(m) /\ reader.place = PlacesInShards(m)
    /\ reader.packed => /\ Packable(m) /\ reader.place = PlacesInCache(m)
                        /\ reader.stale \/ \E n \in 0..FileLength(m) :
                             /\ file = Written(m, n)
                             /\ file[3] = <<"header", m, 1>>

WorkerState ==
  /\ worker \in {"none", "waiting", "advising"}
  /\ worker # "advising" => hint = None
  /\ worker = "none" => queue = <<>> /\ reader = None /\ ~closing
  /\ closing => reader = None
  /\ queue \in Seq(ToSet(queue))

AskedState ==
  asked # None =>
    /\ reader # None
    /\ asked = [todo |-> asked.todo, budget |-> asked.budget, advised |-> asked.advised]
    /\ asked.budget \in Nat /\ asked.advised \in Nat
    /\ asked.advised <= asked.budget

StoreInv ==
  /\ FileKnown /\ PackerState /\ PackedState /\ ReaderState
  /\ WorkerState /\ AskedState /\ HintsExact

-----------------------------------------------------------------------------
(* Where a reader finds its tensors.                                       *)
LEMMA PlaceIs ==
  ASSUME ReaderState, reader # None, NEW t \in DOMAIN reader.place
  PROVE  LET m == reader.model
             place == reader.place[t] IN
         /\ t \in Names(m) /\ OpensShards(m)
         /\ place.from \in Nat /\ place.to \in Nat
         /\ LengthOfTensor(m, t) \in Nat
         /\ place.to - place.from = LengthOfTensor(m, t)
         /\ ~reader.packed => /\ place.shard = ShardOf(m, t) /\ place.shard # None
                              /\ place.from = DataStart(m, place.shard, t)
                              /\ place.to = DataEnd(m, place.shard, t)
         /\ reader.packed => /\ place.shard = None
                             /\ place.from = PlacesInCache(m)[t].from
                             /\ \E i \in 1..Len(Order[m]) :
                                  /\ Order[m][i] = t
                                  /\ place.from = Start(m, i) /\ place.to = End(m, i)
<1> DEFINE m == reader.model
           place == reader.place[t]
<1>1. m \in Models
  BY DEF ReaderState
<1>2. CASE ~reader.packed
  <2>1. OpensShards(m) /\ reader.place = PlacesInShards(m)
    BY <1>2 DEF ReaderState
  <2>2. t \in Names(m)
    BY <2>1 DEF PlacesInShards
  <2>3. place = [shard |-> ShardOf(m, t), from |-> DataStart(m, ShardOf(m, t), t),
                 to |-> DataEnd(m, ShardOf(m, t), t)]
    BY <2>1, <2>2 DEF PlacesInShards
  <2> DEFINE s == ShardOf(m, t)
  <2>4. s \in Opened(m) /\ t \in DOMAIN Entries(m, s)
    BY <2>2 DEF Names, ShardOf, Holders
  <2>5. s \in DOMAIN Shards[m]
    BY <1>1, <2>4, ShardsAssumption DEF Opened
  <2>6. s # None
    BY <1>1, <2>5, PackedAssumption
  <2>7. Entries(m, s)[t][1] \in Nat /\ Entries(m, s)[t][2] \in Nat /\ ShardHeaderEnd(m, s) \in Nat
    BY <1>1, <2>4, <2>5, ShardsAssumption DEF Entries, ShardHeaderEnd, LengthPrefix
  <2> HIDE DEF s
  <2>8. DataStart(m, s, t) \in Nat /\ DataEnd(m, s, t) \in Nat
    BY <2>7 DEF DataStart, DataEnd
  <2>9. LengthOfTensor(m, t) \in Nat /\ LengthOfTensor(m, t) = DataEnd(m, s, t) - DataStart(m, s, t)
    BY <1>1, <2>1, <2>2, SourceIs DEF LengthOfTensor, s
  <2>10. place.shard = s /\ place.from = DataStart(m, s, t) /\ place.to = DataEnd(m, s, t)
    BY <2>3 DEF s
  <2> QED BY <1>2, <2>1, <2>2, <2>6, <2>8, <2>9, <2>10 DEF s
<1>3. CASE reader.packed
  <2>1. Packable(m) /\ reader.place = PlacesInCache(m)
    BY <1>3 DEF ReaderState
  <2>2. t \in ToSet(Order[m])
    BY <2>1 DEF PlacesInCache
  <2>3. OpensShards(m) /\ t \in Names(m)
    BY <1>1, <2>1, <2>2, OrderNames
  <2> DEFINE i == CHOOSE j \in DOMAIN Order[m] : Order[m][j] = t
  <2>4. i \in 1..Len(Order[m]) /\ Order[m][i] = t
    BY <1>1, <2>2, OrderIs DEF ToSet
  <2>5. place = [shard |-> None, from |-> Start(m, i), to |-> End(m, i)]
    BY <2>1, <2>2 DEF PlacesInCache
  <2> HIDE DEF i
  <2>6. Start(m, i) \in Nat /\ End(m, i) = Start(m, i) + LengthOfTensor(m, t)
    <3>1. FileLength(m) \in Nat
      BY <1>1, <2>1, BeginInside
    <3>2. 0 \in 0..FileLength(m)
      BY <3>1
    <3>3. Start(m, i) \in Nat /\ End(m, i) = Start(m, i) + Len(Source(m, Order[m][i]))
      BY <1>1, <2>1, <2>4, <3>2, TensorRead
    <3> QED BY <2>4, <3>3 DEF End
  <2>7. LengthOfTensor(m, t) \in Nat
    BY <1>1, <2>3, SourceIs
  <2>8. place.shard = None /\ place.from = Start(m, i) /\ place.to = End(m, i)
    BY <2>5
  <2>9. End(m, i) - Start(m, i) = LengthOfTensor(m, t) /\ End(m, i) \in Nat
    BY <2>6, <2>7
  <2>10. place.from = PlacesInCache(m)[t].from
    BY <2>1
  <2>11. \E j \in 1..Len(Order[m]) :
           Order[m][j] = t /\ place.from = Start(m, j) /\ place.to = End(m, j)
    BY <2>4, <2>8
  <2> QED BY <1>3, <2>3, <2>6, <2>7, <2>8, <2>9, <2>10, <2>11
<1> QED BY <1>2, <1>3

(* A reader of the shards sees the source.                                 *)
LEMMA ShardsView ==
  ASSUME ReaderState, reader # None, ~reader.packed, NEW t \in DOMAIN reader.place
  PROVE  View(t) = Source(reader.model, t)
<1>1. /\ reader.place[t].shard = ShardOf(reader.model, t)
      /\ reader.place[t].from = DataStart(reader.model, ShardOf(reader.model, t), t)
      /\ reader.place[t].to = DataEnd(reader.model, ShardOf(reader.model, t), t)
  BY PlaceIs
<1> QED BY <1>1 DEF View, Source

(* A reader of the packed file sees what is written of it.                 *)
LEMMA PackedView ==
  ASSUME ReaderState, reader # None, reader.packed, NEW t \in DOMAIN reader.place,
         NEW n \in 0..FileLength(reader.model), file = Written(reader.model, n)
  PROVE  LET source == Source(reader.model, t) IN
         /\ \E k \in 0..Len(source) : View(t) = SubSeq(source, 1, k) \o Zeros(Len(source) - k)
         /\ n = FileLength(reader.model) => View(t) = source
<1> DEFINE m == reader.model
<1>1. m \in Models /\ Packable(m)
  BY DEF ReaderState
<1>2. PICK i \in 1..Len(Order[m]) : /\ Order[m][i] = t
                                   /\ reader.place[t].from = Start(m, i)
                                   /\ reader.place[t].to = End(m, i)
  BY PlaceIs
<1>3. View(t) = SubSeq(Written(m, n), Start(m, i) + 1, End(m, i))
  BY <1>2 DEF View
<1> HIDE DEF m
<1>4. LET source == Source(m, Order[m][i])
          view == SubSeq(Written(m, n), Start(m, i) + 1, End(m, i)) IN
      /\ \E k \in 0..Len(source) : view = SubSeq(source, 1, k) \o Zeros(Len(source) - k)
      /\ n = FileLength(m) => view = source
  BY <1>1, TensorRead DEF m
<1> QED BY <1>2, <1>3, <1>4 DEF m

-----------------------------------------------------------------------------
(* What opening the file finds.                                            *)
LEMMA ParsedIs ==
  ASSUME Parsed # None
  PROVE  /\ file # None /\ file # <<>>
         /\ Parsed \in Models
         /\ file[3] = <<"header", Parsed, 1>>
<1> DEFINE P(h) == SubSeq(file, 3, HeaderEnd(HeaderLength[h])) = Header(h)
<1>1. /\ file # None /\ Len(file) >= 2
      /\ \E h \in Models : P(h)
      /\ Parsed = CHOOSE h \in Models : P(h)
  BY DEF Parsed
<1>2. Parsed \in Models /\ P(Parsed)
  BY <1>1
<1>3. file # <<>>
  BY <1>1
<1> QED BY <1>1, <1>2, <1>3, HeaderFirst

LEMMA ParsedWritten ==
  ASSUME NEW p \in Models, Packable(p), file = PackedFile(p)
  PROVE  Parsed = p
<1> DEFINE L == FileLength(p)
           H == HeaderLength[p]
           P(h) == SubSeq(file, 3, HeaderEnd(HeaderLength[h])) = Header(h)
<1>1. file = Written(p, L) /\ Len(file) = L /\ L \in Nat /\ L >= 3
  BY WrittenFull, WrittenIs, HeaderTells, BeginInside
<1>2. file # None
  BY NoneAssumption
<1>3. file[1] = Magic[1] /\ file[2] = LengthOf(H)
      /\ \A i \in 1..H : 2 + i <= L /\ file[2 + i] = <<"header", p, i>>
  BY <1>1, HeaderTells
<1>4. H \in Nat \ {0} /\ HeaderEnd(H) = 2 + H
  BY HeaderIs
<1>5. P(p)
  <2> DEFINE e == HeaderEnd(H)
             S == {file[i] : i \in 3..e}
  <2>1. \A i \in 3..e : file[i] \in S
    OBVIOUS
  <2> HIDE DEF S, L, H
  <2>2. e \in Int /\ 3 \in Int /\ e - 3 + 1 = H /\ 3 <= e
    BY <1>4 DEF e
  <2> HIDE DEF e
  <2>3. /\ SubSeq(file, 3, e) \in Seq(S)
        /\ Len(SubSeq(file, 3, e)) = H
        /\ \A i \in 1..H : SubSeq(file, 3, e)[i] = file[3 + i - 1]
    BY <2>1, <2>2, SubSeqProperties
  <2>4. \A i \in 1..H : 3 + i - 1 = 2 + i
    BY <1>4
  <2> DEFINE v == SubSeq(file, 3, e)
  <2>5. v \in Seq(S) /\ Len(v) = H /\ \A i \in 1..H : v[i] = <<"header", p, i>>
    BY <1>3, <2>3, <2>4
  <2> HIDE DEF v
  <2>6. v = [i \in 1..H |-> v[i]]
    BY <2>5
  <2>7. v = [i \in 1..H |-> <<"header", p, i>>]
    BY <2>5, <2>6
  <2> QED BY <2>7 DEF v, e, H, Header
<1>6. \A h \in Models : P(h) => h = p
  <2>1. ASSUME NEW h \in Models, P(h) PROVE h = p
    <3>1. file[3] = <<"header", h, 1>>
      BY <2>1, HeaderFirst
    <3> QED BY <1>1, <3>1, OneOwner
  <2> QED BY <2>1
<1>7. (CHOOSE h \in Models : P(h)) = p
  <2> HIDE DEF P
  <2> QED BY <1>5, <1>6
<1>8. HeaderEnd(H) <= L
  <2>1. H \in 1..H
    BY <1>4
  <2> QED BY <1>3, <1>4, <2>1
<1>9. /\ file # None
      /\ Len(file) >= 2
      /\ file[1] = Magic[1]
      /\ \E h \in Models :
           /\ file[2] = LengthOf(HeaderLength[h])
           /\ Len(file) >= HeaderEnd(HeaderLength[h])
           /\ P(h)
  <2>1. Len(file) >= 2 /\ Len(file) >= HeaderEnd(H)
    BY <1>1, <1>4, <1>8
  <2> QED BY <1>2, <1>3, <1>5, <2>1
<1> QED BY <1>7, <1>9 DEF Parsed

-----------------------------------------------------------------------------
(* The steps of the packer.                                                *)
LEMMA NothingWritten ==
  ASSUME NEW m \in Models, Packable(m)
  PROVE  /\ FileLength(m) \in Nat
         /\ Zeros(FileLength(m)) = Written(m, 0)
<1>1. FileLength(m) \in Nat
  BY BeginInside
<1>2. \A i \in 1..FileLength(m) : ~(i <= 0)
  BY <1>1
<1>3. Written(m, 0) = [i \in 1..FileLength(m) |-> Blank]
  BY <1>2 DEF Written
<1> QED BY <1>1, <1>3 DEF Zeros

(* What only depends on the reader's model.                                *)
LEMMA AheadKept ==
  ASSUME WorkerState, AskedState, HintsExact, UNCHANGED readahead,
         reader = None <=> reader' = None,
         reader # None => reader'.model = reader.model
  PROVE  WorkerState' /\ AskedState' /\ HintsExact'
<1>1. UNCHANGED <<queue, worker, hint, asked, closing>>
  BY DEF readahead
<1>2. Requests' = Requests
  BY <1>1 DEF Requests
<1>3. WorkerState'
  BY <1>1 DEF WorkerState
<1>4. AskedState'
  BY <1>1 DEF AskedState
<1>5. HintsExact'
  BY <1>1, <1>2 DEF HintsExact
<1> QED BY <1>3, <1>4, <1>5

(* A reader that is not stale stays where it is while its own model is     *)
(* written on.                                                             *)
LEMMA WrittenOn ==
  ASSUME ReaderState, NEW m \in Models, Packable(m), UNCHANGED reader,
         NEW n \in 0..FileLength(m), NEW k \in 0..FileLength(m), n <= k,
         file = Written(m, n), file' = Written(m, k)
  PROVE  FileKnown' /\ ReaderState'
<1>1. FileKnown'
  BY DEF FileKnown
<1>2. ASSUME reader # None, reader.packed, ~reader.stale
      PROVE  reader.model = m /\ file'[3] = <<"header", m, 1>>
  <2>1. file[3] = <<"header", reader.model, 1>>
    BY <1>2 DEF ReaderState
  <2>2. reader.model = m
    BY <2>1, OneOwner
  <2>3. FileLength(m) \in Nat
    BY BeginInside
  <2>4. n \in Nat /\ k \in Nat
    BY <2>3
  <2>5. Written(m, n)[3] = <<"header", m, 1>>
    BY <2>1, <2>2
  <2>6. Written(m, k)[3] = <<"header", m, 1>>
    BY <2>4, <2>5, HeaderStays
  <2> QED BY <2>2, <2>6
<1>3. ReaderState'
  BY <1>2 DEF ReaderState
<1> QED BY <1>1, <1>3

LEMMA PackStep ==
  ASSUME StoreInv, NEW m \in Models, Pack(m), UNCHANGED readahead
  PROVE  StoreInv'
<1>1. UNCHANGED <<file, reader, packed>> /\ pc = "idle" /\ pc' = "create"
      /\ model' = m /\ Packable(m) /\ at' = at /\ cursor' = cursor
  BY DEF Pack
<1>2. WorkerState' /\ AskedState' /\ HintsExact'
  BY <1>1, AheadKept DEF StoreInv
<1>3. FileKnown' /\ ReaderState'
  BY <1>1 DEF StoreInv, FileKnown, ReaderState
<1>4. PackerState' /\ PackedState'
  BY <1>1 DEF StoreInv, PackerState, PackedState
<1> QED BY <1>2, <1>3, <1>4 DEF StoreInv

LEMMA CreateStep ==
  ASSUME StoreInv, Create, UNCHANGED readahead
  PROVE  StoreInv'
<1>1. /\ pc = "create" /\ pc' = "set_len" /\ file' = <<>> /\ cursor' = 0
      /\ reader' = Stale /\ packed' = None /\ model' = model /\ at' = at
  BY DEF Create
<1>2. CASE reader = None \/ ~reader.packed
  <2>1. reader' = reader
    BY <1>1, <1>2 DEF Stale
  <2>2. ReaderState'
    BY <1>2, <2>1 DEF StoreInv, ReaderState
  <2>3. WorkerState' /\ AskedState' /\ HintsExact'
    BY <2>1, AheadKept DEF StoreInv
  <2>4. FileKnown' /\ PackerState' /\ PackedState'
    BY <1>1 DEF StoreInv, FileKnown, PackerState, PackedState
  <2> QED BY <2>2, <2>3, <2>4 DEF StoreInv
<1>3. CASE reader # None /\ reader.packed
  <2>1. reader' = [reader EXCEPT !.stale = TRUE]
    BY <1>1, <1>3 DEF Stale
  <2>2. /\ reader = [model |-> reader.model, packed |-> reader.packed,
                     place |-> reader.place, stale |-> reader.stale]
        /\ reader.model \in Models /\ Packable(reader.model)
        /\ reader.place = PlacesInCache(reader.model)
        /\ reader.packed = TRUE
    BY <1>3 DEF StoreInv, ReaderState
  <2>3. reader' = [model |-> reader.model, packed |-> reader.packed,
                   place |-> reader.place, stale |-> TRUE]
    BY <2>1, <2>2
  <2>4. /\ reader'.model = reader.model /\ reader'.packed = reader.packed
        /\ reader'.place = reader.place /\ reader'.stale = TRUE
    BY <2>3
  <2>5. ReaderState'
    BY <2>2, <2>3, <2>4 DEF ReaderState
  <2>6. reader' # None
    BY <2>2, <2>3, NoneAssumption
  <2>7. WorkerState' /\ AskedState' /\ HintsExact'
    BY <1>3, <2>4, <2>6, AheadKept DEF StoreInv
  <2>8. FileKnown' /\ PackerState' /\ PackedState'
    BY <1>1 DEF StoreInv, FileKnown, PackerState, PackedState
  <2> QED BY <2>5, <2>7, <2>8 DEF StoreInv
<1> QED BY <1>2, <1>3

LEMMA SetLenStep ==
  ASSUME StoreInv, SetLen, UNCHANGED readahead
  PROVE  StoreInv'
<1>1. /\ pc = "set_len" /\ pc' = "write" /\ file' = Zeros(FileLength(model))
      /\ UNCHANGED <<model, at, cursor, reader, packed>>
  BY DEF SetLen
<1>2. model \in Models /\ Packable(model) /\ at = 1 /\ cursor = 0 /\ file = <<>> /\ packed = None
  BY <1>1 DEF StoreInv, PackerState, PackedState
<1>3. FileLength(model) \in Nat /\ file' = Written(model, 0)
  BY <1>1, <1>2, NothingWritten
<1>4. ASSUME reader # None, reader.packed, ~reader.stale PROVE FALSE
  <2>1. PICK n \in 0..FileLength(reader.model) : file = Written(reader.model, n)
    BY <1>4 DEF StoreInv, ReaderState
  <2>2. Len(file) = FileLength(reader.model) /\ FileLength(reader.model) >= 3
        /\ FileLength(reader.model) \in Nat
    BY <1>4, <2>1, WrittenIs, HeaderTells, BeginInside DEF StoreInv, ReaderState
  <2> QED BY <1>2, <2>2
<1>5. FileKnown'
  BY <1>2, <1>3 DEF FileKnown
<1>6. ReaderState'
  BY <1>1, <1>4 DEF StoreInv, ReaderState
<1>7. WorkerState' /\ AskedState' /\ HintsExact'
  BY <1>1, AheadKept DEF StoreInv
<1>8. PackerState'
  <2>1. Writes(model) \in Nat /\ Begin(model)[1] = 0
    BY <1>2, ChunksAre, BeginIs
  <2>2. 1 \in 1..(Writes(model) + 1)
    BY <2>1
  <2> QED BY <1>1, <1>2, <1>3, <2>1, <2>2 DEF PackerState
<1>9. PackedState'
  BY <1>1, <1>2 DEF PackedState
<1> QED BY <1>5, <1>6, <1>7, <1>8, <1>9 DEF StoreInv

(* What the packer knows while it writes.                                  *)
LEMMA Writing ==
  ASSUME StoreInv, pc = "write"
  PROVE  /\ model \in Models /\ Packable(model) /\ packed = None
         /\ Writes(model) \in Nat /\ Len(Chunks(model)) = Writes(model)
         /\ at \in 1..(Writes(model) + 1)
         /\ cursor = Begin(model)[at] /\ cursor \in 0..FileLength(model)
         /\ file = Written(model, cursor)
<1>1. /\ model \in Models /\ Packable(model) /\ packed = None
      /\ at \in 1..(Writes(model) + 1) /\ cursor = Begin(model)[at]
      /\ file = Written(model, cursor)
  BY DEF StoreInv, PackerState, PackedState
<1>2. Writes(model) \in Nat /\ Len(Chunks(model)) = Writes(model)
  BY <1>1, ChunksAre
<1>3. Begin(model)[at] \in Nat
  BY <1>1, BeginIs
<1>4. FileLength(model) \in Nat /\ Begin(model)[at] <= FileLength(model)
  BY <1>1, BeginInside
<1> QED BY <1>1, <1>2, <1>3, <1>4

LEMMA WriteStep ==
  ASSUME StoreInv, Write, UNCHANGED readahead
  PROVE  StoreInv'
<1> DEFINE c == Chunks(model)[at]
<1>1. /\ pc = "write" /\ at <= Len(Chunks(model))
      /\ file' = Overwritten(c) /\ cursor' = cursor + Len(c) /\ at' = at + 1
      /\ UNCHANGED <<pc, model, reader, packed>>
  BY DEF Write
<1>2. /\ model \in Models /\ Packable(model) /\ packed = None
      /\ Writes(model) \in Nat /\ at \in 1..Writes(model)
      /\ cursor = Begin(model)[at] /\ cursor \in 0..FileLength(model)
      /\ file = Written(model, cursor)
  <2>1. /\ model \in Models /\ Packable(model) /\ packed = None
        /\ Writes(model) \in Nat /\ Len(Chunks(model)) = Writes(model)
        /\ at \in 1..(Writes(model) + 1)
        /\ cursor = Begin(model)[at] /\ cursor \in 0..FileLength(model)
        /\ file = Written(model, cursor)
    BY <1>1, Writing
  <2>2. at \in 1..Writes(model)
    BY <1>1, <2>1
  <2> QED BY <2>1, <2>2
<1>3. Len(c) \in Nat /\ Begin(model)[at + 1] = cursor + Len(c)
  BY <1>2, ChunkIs
<1>4. cursor' \in 0..FileLength(model) /\ file' = Written(model, cursor')
  <2>1. Len(c) \in 0..Len(c) /\ \A i \in 1..Len(c) : c[i] = Chunks(model)[at][i]
    BY <1>3
  <2>2. cursor + Len(c) \in 0..FileLength(model)
        /\ Overwritten(c) = Written(model, cursor + Len(c))
    BY <1>2, <2>1, OverwriteIs
  <2> QED BY <1>1, <2>2
<1>5. cursor <= cursor'
  BY <1>1, <1>2, <1>3
<1>6. UNCHANGED reader
  BY <1>1
<1>7. FileKnown' /\ ReaderState'
  <2>1. ReaderState
    BY DEF StoreInv
  <2> QED BY <2>1, <1>2, <1>4, <1>5, <1>6, WrittenOn
<1>8. WorkerState' /\ AskedState' /\ HintsExact'
  BY <1>6, AheadKept DEF StoreInv
<1>9. PackerState'
  <2>1. at' \in 1..(Writes(model) + 1)
    BY <1>1, <1>2
  <2>2. cursor' = Begin(model)[at']
    BY <1>1, <1>3
  <2> QED BY <1>1, <1>2, <1>4, <2>1, <2>2 DEF PackerState
<1>10. PackedState'
  BY <1>1, <1>2 DEF PackedState
<1> QED BY <1>7, <1>8, <1>9, <1>10 DEF StoreInv

(* The last write ends where the file does.                                *)
LEMMA FinishStep ==
  ASSUME StoreInv, Finish, UNCHANGED readahead
  PROVE  StoreInv'
<1>1. /\ pc = "write" /\ at > Len(Chunks(model))
      /\ packed' = model /\ pc' = "idle" /\ model' = None /\ cursor' = 0 /\ at' = 1
      /\ UNCHANGED <<file, reader>>
  BY DEF Finish, Stop
<1>2. /\ model \in Models /\ Packable(model)
      /\ Writes(model) \in Nat /\ Len(Chunks(model)) = Writes(model)
      /\ at \in 1..(Writes(model) + 1)
      /\ cursor = Begin(model)[at] /\ file = Written(model, cursor)
  BY <1>1, Writing
<1>3. at = Writes(model) + 1
  BY <1>1, <1>2
<1>4. cursor = FileLength(model)
  BY <1>2, <1>3, BeginIs
<1>5. file = PackedFile(model)
  BY <1>2, <1>4, WrittenFull
<1>6. FileKnown' /\ ReaderState'
  BY <1>1 DEF StoreInv, FileKnown, ReaderState
<1>7. WorkerState' /\ AskedState' /\ HintsExact'
  BY <1>1, AheadKept DEF StoreInv
<1>8. PackerState'
  BY <1>1 DEF PackerState
<1>9. PackedState'
  BY <1>1, <1>2, <1>5 DEF PackedState
<1> QED BY <1>6, <1>7, <1>8, <1>9 DEF StoreInv

(* An interrupted packing leaves a beginning of the file, of any length.   *)
LEMMA InterruptStep ==
  ASSUME StoreInv, Interrupt, UNCHANGED readahead
  PROVE  StoreInv'
<1>1. /\ pc # "idle" /\ pc' = "idle" /\ model' = None /\ cursor' = 0 /\ at' = 1
      /\ UNCHANGED <<reader, packed>>
  BY DEF Interrupt, Stop
<1>2. WorkerState' /\ AskedState' /\ HintsExact'
  BY <1>1, AheadKept DEF StoreInv
<1>3. PackerState'
  BY <1>1 DEF PackerState
<1>4. CASE UNCHANGED file
  <2>1. FileKnown' /\ ReaderState' /\ PackedState'
    BY <1>1, <1>4 DEF StoreInv, FileKnown, ReaderState, PackedState
  <2> QED BY <1>2, <1>3, <2>1 DEF StoreInv
<1>5. CASE /\ pc = "write" /\ at <= Len(Chunks(model))
           /\ \E n \in 0..Len(Chunks(model)[at]) :
                file' = Overwritten(SubSeq(Chunks(model)[at], 1, n))
  <2> DEFINE c == Chunks(model)[at]
  <2>1. PICK n \in 0..Len(c) : file' = Overwritten(SubSeq(c, 1, n))
    BY <1>5
  <2>2. /\ model \in Models /\ Packable(model) /\ packed = None
        /\ Writes(model) \in Nat /\ at \in 1..Writes(model)
        /\ cursor = Begin(model)[at] /\ cursor \in 0..FileLength(model)
        /\ file = Written(model, cursor)
    <3>1. /\ model \in Models /\ Packable(model) /\ packed = None
          /\ Writes(model) \in Nat /\ Len(Chunks(model)) = Writes(model)
          /\ at \in 1..(Writes(model) + 1)
          /\ cursor = Begin(model)[at] /\ cursor \in 0..FileLength(model)
          /\ file = Written(model, cursor)
      BY <1>5, Writing
    <3>2. at \in 1..Writes(model)
      BY <1>5, <3>1
    <3> QED BY <3>1, <3>2
  <2>3. c \in Seq(Byte(model)) /\ Len(c) \in Nat
    BY <2>2, ChunksAre
  <2>4. n \in Nat /\ n <= Len(c)
    BY <2>1, <2>3
  <2> DEFINE s == SubSeq(c, 1, n)
  <2>5. Len(s) = n /\ \A i \in 1..n : s[i] = c[i]
    <3> HIDE DEF c
    <3>1. \A i \in 1..n : c[i] \in Byte(model)
      BY <2>3, <2>4
    <3>2. Len(s) = n /\ \A i \in 1..n : s[i] = c[1 + i - 1]
      BY <2>4, <3>1, SubSeqProperties
    <3>3. \A i \in 1..n : 1 + i - 1 = i
      BY <2>4
    <3> QED BY <3>2, <3>3
  <2>6. cursor + n \in 0..FileLength(model) /\ Overwritten(s) = Written(model, cursor + n)
    <3> HIDE DEF s
    <3> QED BY <2>2, <2>5, OverwriteIs
  <2>7. cursor <= cursor + n
    BY <2>2, <2>4
  <2>8. FileKnown' /\ ReaderState'
    <3>1. ReaderState /\ UNCHANGED reader /\ file' = Written(model, cursor + n)
      BY <1>1, <2>1, <2>6 DEF StoreInv
    <3> QED BY <2>2, <2>6, <2>7, <3>1, WrittenOn
  <2>9. PackedState'
    BY <1>1, <2>2 DEF PackedState
  <2> QED BY <1>2, <1>3, <2>8, <2>9 DEF StoreInv
<1> QED BY <1>4, <1>5 DEF Interrupt

LEMMA PackerStep ==
  ASSUME StoreInv, Packer
  PROVE  StoreInv'
<1>1. UNCHANGED readahead
  BY DEF Packer
<1>2. CASE \E m \in Models : Pack(m)
  BY <1>1, <1>2, PackStep
<1>3. CASE \E m \in Models : PackRefused(m)
  <2>1. UNCHANGED pack_vars
    BY <1>3 DEF PackRefused
  <2>2. WorkerState' /\ AskedState' /\ HintsExact'
    BY <1>1, <2>1, AheadKept DEF StoreInv, pack_vars
  <2>3. FileKnown' /\ PackerState' /\ PackedState' /\ ReaderState'
    BY <2>1 DEF StoreInv, pack_vars, FileKnown, PackerState, PackedState, ReaderState
  <2> QED BY <2>2, <2>3 DEF StoreInv
<1> QED BY <1>1, <1>2, <1>3, CreateStep, SetLenStep, WriteStep, FinishStep, InterruptStep
        DEF Packer

-----------------------------------------------------------------------------
(* The steps of the store.                                                 *)

(* A file that opens for a model was written for that model.               *)
LEMMA OpensOwn ==
  ASSUME StoreInv, NEW m \in Models, Opens(m)
  PROVE  /\ Packable(m) /\ Parsed = m
         /\ \E n \in 0..FileLength(m) : /\ file = Written(m, n)
                                        /\ file[3] = <<"header", m, 1>>
<1>1. Parsed # None /\ Parsed = m
  BY DEF Opens, AcceptsHeader
<1>2. file # None /\ file # <<>> /\ file[3] = <<"header", m, 1>>
  BY <1>1, ParsedIs
<1>3. PICK p \in Models : Packable(p) /\ \E n \in 0..FileLength(p) : file = Written(p, n)
  BY <1>2 DEF StoreInv, FileKnown
<1>4. PICK n \in 0..FileLength(p) : file = Written(p, n)
  BY <1>3
<1>5. m = p
  BY <1>2, <1>3, <1>4, OneOwner
<1> QED BY <1>1, <1>2, <1>3, <1>4, <1>5

LEMMA OpensStep ==
  ASSUME StoreInv, StoreOpens
  PROVE  StoreInv'
<1>1. /\ worker = "none" /\ worker' = "waiting"
      /\ UNCHANGED <<queue, hint, asked, closing, packing>>
  BY DEF StoreOpens
<1>2. PICK m \in Models : Open(m) \/ OpenShards(m)
  BY DEF StoreOpens
<1>3. reader = None /\ UNCHANGED <<file, pc, model, at, cursor, packed>>
  BY <1>2 DEF Open, OpenShards
<1>4. FileKnown' /\ PackerState' /\ PackedState'
  BY <1>3 DEF StoreInv, FileKnown, PackerState, PackedState
<1>5. ReaderState'
  <2>1. CASE Open(m)
    <3>1. Opens(m) /\ reader' = [model |-> m, packed |-> TRUE,
                                 place |-> PlacesInCache(Parsed), stale |-> FALSE]
      BY <2>1 DEF Open
    <3>2. /\ Packable(m) /\ Parsed = m
          /\ \E n \in 0..FileLength(m) : /\ file = Written(m, n)
                                         /\ file[3] = <<"header", m, 1>>
      BY <3>1, OpensOwn
    <3>3. /\ reader'.model = m /\ reader'.packed = TRUE /\ reader'.stale = FALSE
          /\ reader'.place = PlacesInCache(m)
      BY <3>1, <3>2
    <3> QED BY <1>3, <3>1, <3>2, <3>3 DEF ReaderState
  <2>2. CASE OpenShards(m)
    <3>1. OpensShards(m) /\ reader' = [model |-> m, packed |-> FALSE,
                                       place |-> PlacesInShards(m), stale |-> FALSE]
      BY <2>2 DEF OpenShards
    <3>2. /\ reader'.model = m /\ reader'.packed = FALSE /\ reader'.stale = FALSE
          /\ reader'.place = PlacesInShards(m)
      BY <3>1
    <3> QED BY <3>1, <3>2 DEF ReaderState
  <2> QED BY <1>2, <2>1, <2>2
<1>6. WorkerState'
  BY <1>1 DEF StoreInv, WorkerState
<1>7. AskedState' /\ asked' = None
  BY <1>1, <1>3 DEF StoreInv, AskedState
<1>8. Requests' = {}
  BY <1>1 DEF StoreInv, HintsExact, Requests
<1>9. HintsExact'
  BY <1>1, <1>7, <1>8 DEF HintsExact
<1> QED BY <1>4, <1>5, <1>6, <1>7, <1>9 DEF StoreInv

LEMMA AdviseStep ==
  ASSUME StoreInv, AdviseLayerPrefix
  PROVE  StoreInv'
<1>1. /\ reader # None /\ asked = None
      /\ UNCHANGED <<pack_vars, queue, worker, hint, closing, packing>>
  BY DEF AdviseLayerPrefix
<1>2. PICK names \in LayerNames, budget \in Budgets :
        asked' = [todo |-> names, budget |-> budget, advised |-> 0]
  BY DEF AdviseLayerPrefix
<1>3. FileKnown' /\ PackerState' /\ PackedState' /\ ReaderState' /\ WorkerState'
  BY <1>1 DEF StoreInv, pack_vars, FileKnown, PackerState, PackedState, ReaderState, WorkerState
<1>4. budget \in Nat
  BY ReadAheadAssumption
<1>5. AskedState'
  BY <1>1, <1>2, <1>4 DEF AskedState, pack_vars
<1>6. asked' # None => asked'.advised <= asked'.budget
  BY <1>2, <1>4
<1>7. Requests' = Requests
  BY <1>1 DEF Requests
<1>8. HintsExact'
  BY <1>1, <1>6, <1>7 DEF StoreInv, HintsExact, pack_vars
<1> QED BY <1>3, <1>5, <1>8 DEF StoreInv

(* What one request asks for.                                              *)
LEMMA SmallerOf ==
  ASSUME NEW a \in Int, NEW b \in Int
  PROVE  Min({a, b}) \in {a, b} /\ Min({a, b}) <= a /\ Min({a, b}) <= b
<1>1. \E x \in {a, b} : \A y \in {a, b} : x <= y
  <2>1. CASE a <= b
    BY <2>1
  <2>2. CASE b <= a
    BY <2>2
  <2> QED BY <2>1, <2>2
<1>2. Min({a, b}) \in {a, b} /\ \A y \in {a, b} : Min({a, b}) <= y
  BY <1>1 DEF Min
<1> QED BY <1>2

LEMMA AppendedIs ==
  ASSUME NEW q, q \in Seq(ToSet(q)), NEW r
  PROVE  /\ Append(q, r) \in Seq(ToSet(Append(q, r)))
         /\ ToSet(Append(q, r)) \subseteq ToSet(q) \union {r}
<1> DEFINE S == ToSet(q) \union {r}
           a == Append(q, r)
<1>1. q \in Seq(S) /\ r \in S
  BY SeqMonotonic
<1> HIDE DEF S
<1>2. a \in Seq(S)
  BY <1>1
<1> HIDE DEF a
<1>3. Len(a) \in Nat /\ DOMAIN a = 1..Len(a) /\ a = [i \in 1..Len(a) |-> a[i]]
      /\ \A i \in 1..Len(a) : a[i] \in S
  BY <1>2
<1>4. ToSet(a) \subseteq S
  BY <1>3 DEF ToSet
<1>5. \A i \in 1..Len(a) : a[i] \in ToSet(a)
  BY <1>3 DEF ToSet
<1>6. a \in Seq(ToSet(a))
  BY <1>3, <1>5
<1> QED BY <1>4, <1>6 DEF a, S

LEMMA RestIs ==
  ASSUME NEW q, q \in Seq(ToSet(q)), q # <<>>
  PROVE  /\ Tail(q) \in Seq(ToSet(Tail(q)))
         /\ ToSet(Tail(q)) \subseteq ToSet(q)
         /\ Head(q) \in ToSet(q)
<1> DEFINE S == ToSet(q)
           a == Tail(q)
<1>1. q \in Seq(S)
  OBVIOUS
<1> HIDE DEF S
<1>2. a \in Seq(S) /\ Head(q) \in S
  BY <1>1
<1> HIDE DEF a
<1>3. Len(a) \in Nat /\ DOMAIN a = 1..Len(a) /\ a = [i \in 1..Len(a) |-> a[i]]
      /\ \A i \in 1..Len(a) : a[i] \in S
  BY <1>2
<1>4. ToSet(a) \subseteq S
  BY <1>3 DEF ToSet
<1>5. \A i \in 1..Len(a) : a[i] \in ToSet(a)
  BY <1>3 DEF ToSet
<1>6. a \in Seq(ToSet(a))
  BY <1>3, <1>5
<1> QED BY <1>2, <1>4, <1>6 DEF a, S

(* A request for the beginning of a tensor of the open model.              *)
Exact(r, m) ==
  /\ IF r.shard # None THEN r.from = DataStart(r.model, r.shard, r.tensor)
     ELSE r.from = PlacesInCache(r.model)[r.tensor].from
  /\ r.count <= LengthOfTensor(r.model, r.tensor)
  /\ r.model = m

LEMMA TensorStep ==
  ASSUME StoreInv, AdviseTensorPrefix
  PROVE  StoreInv'
<1> DEFINE t == Head(asked.todo)
           place == reader.place[t]
           m == reader.model
           length == Min({place.to - place.from, BudgetLeft})
           r == [shard |-> place.shard, from |-> place.from, count |-> length,
                 model |-> m, tensor |-> t]
<1>1. /\ asked # None /\ asked.advised < asked.budget
      /\ t \in DOMAIN reader.place
      /\ IF length = 0 THEN UNCHANGED queue ELSE Submit(r)
      /\ asked' = [asked EXCEPT !.todo = Tail(@), !.advised = @ + length]
      /\ UNCHANGED <<pack_vars, worker, hint, closing, packing>>
  BY DEF AdviseTensorPrefix
<1>2. /\ reader # None
      /\ asked = [todo |-> asked.todo, budget |-> asked.budget, advised |-> asked.advised]
      /\ asked.budget \in Nat /\ asked.advised \in Nat
  BY <1>1 DEF StoreInv, AskedState
<1>3. /\ place.from \in Nat /\ place.to \in Nat /\ LengthOfTensor(m, t) \in Nat
      /\ place.to - place.from = LengthOfTensor(m, t)
      /\ ~reader.packed => /\ place.shard # None
                           /\ place.from = DataStart(m, place.shard, t)
      /\ reader.packed => /\ place.shard = None
                          /\ place.from = PlacesInCache(m)[t].from
  <2>1. ReaderState
    BY DEF StoreInv
  <2> HIDE DEF t
  <2> QED BY <1>1, <1>2, <2>1, PlaceIs
<1>4. BudgetLeft \in Nat /\ BudgetLeft = asked.budget - asked.advised
  BY <1>1, <1>2 DEF BudgetLeft
<1>5. length \in Nat /\ length <= LengthOfTensor(m, t) /\ length <= BudgetLeft
  <2> DEFINE x == LengthOfTensor(m, t)
             y == BudgetLeft
  <2>1. x \in Nat /\ y \in Nat /\ length = Min({x, y})
    BY <1>3, <1>4
  <2> HIDE DEF x, y, length
  <2>2. Min({x, y}) \in {x, y} /\ Min({x, y}) <= x /\ Min({x, y}) <= y
    BY <2>1, SmallerOf
  <2>3. length \in Nat /\ length <= x /\ length <= y
    BY <2>1, <2>2
  <2> QED BY <2>3 DEF x, y
<1> HIDE DEF length
<1>6. asked' = [todo |-> Tail(asked.todo), budget |-> asked.budget,
                advised |-> asked.advised + length]
  BY <1>1, <1>2
<1>7. /\ asked'.budget = asked.budget /\ asked'.advised = asked.advised + length
      /\ asked'.todo = Tail(asked.todo)
  BY <1>6
<1>8. asked'.advised \in Nat /\ asked'.advised <= asked'.budget
  BY <1>2, <1>4, <1>5, <1>7
<1>9. UNCHANGED <<reader, file>>
  BY <1>1 DEF pack_vars
<1>10. AskedState'
  BY <1>2, <1>6, <1>7, <1>8, <1>9 DEF AskedState
<1>11. FileKnown' /\ PackerState' /\ PackedState' /\ ReaderState'
  BY <1>1 DEF StoreInv, pack_vars, FileKnown, PackerState, PackedState, ReaderState
<1>12. Exact(r, m)
  <2>1. /\ r.shard = place.shard /\ r.from = place.from /\ r.count = length
        /\ r.model = m /\ r.tensor = t
    OBVIOUS
  <2> HIDE DEF r
  <2> QED BY <1>3, <1>5, <2>1 DEF Exact, StoreInv, ReaderState
<1> HIDE DEF r
<1>13. \/ queue' = queue
       \/ queue' = Append(queue, r)
  BY <1>1 DEF Submit
<1>14. queue \in Seq(ToSet(queue))
  BY DEF StoreInv, WorkerState
<1>15. queue' \in Seq(ToSet(queue')) /\ ToSet(queue') \subseteq ToSet(queue) \union {r}
  <2>1. /\ Append(queue, r) \in Seq(ToSet(Append(queue, r)))
        /\ ToSet(Append(queue, r)) \subseteq ToSet(queue) \union {r}
    BY <1>14, AppendedIs
  <2>2. CASE queue' = queue
    BY <1>14, <2>2
  <2>3. CASE queue' = Append(queue, r)
    BY <2>1, <2>3
  <2> QED BY <1>13, <2>2, <2>3
<1>16. WorkerState'
  <2>1. worker # "none"
    BY <1>2 DEF StoreInv, WorkerState
  <2> QED BY <1>1, <1>9, <1>15, <2>1 DEF StoreInv, WorkerState
<1>17. Requests' \subseteq Requests \union {r}
  BY <1>1, <1>15 DEF Requests
<1>18. HintsExact'
  <2>1. worker' # "none"
    BY <1>1, <1>2 DEF StoreInv, WorkerState
  <2>2. \A q \in Requests :
          /\ IF q.shard # None THEN q.from = DataStart(q.model, q.shard, q.tensor)
             ELSE q.from = PlacesInCache(q.model)[q.tensor].from
          /\ q.count <= LengthOfTensor(q.model, q.tensor)
          /\ q.model = m
    BY <1>2 DEF StoreInv, HintsExact
  <2>3. \A q \in Requests' : Exact(q, m)
    BY <1>12, <1>17, <2>2 DEF Exact
  <2>4. reader'.model = m
    BY <1>9
  <2> QED BY <1>8, <2>1, <2>3, <2>4 DEF HintsExact, Exact
<1> QED BY <1>10, <1>11, <1>16, <1>18 DEF StoreInv

LEMMA QuietStep ==
  ASSUME StoreInv, UNCHANGED pack_vars
  PROVE  FileKnown' /\ PackerState' /\ PackedState' /\ ReaderState'
BY DEF StoreInv, pack_vars, FileKnown, PackerState, PackedState, ReaderState

LEMMA AdvisedStep ==
  ASSUME StoreInv, Advised
  PROVE  StoreInv'
<1>1. asked' = None /\ UNCHANGED <<pack_vars, queue, worker, hint, closing, packing>>
  BY DEF Advised
<1>2. UNCHANGED reader /\ UNCHANGED pack_vars
  BY <1>1 DEF pack_vars
<1>3. WorkerState' /\ AskedState'
  BY <1>1, <1>2 DEF StoreInv, WorkerState, AskedState
<1>4. Requests' = Requests
  BY <1>1 DEF Requests
<1>5. HintsExact'
  BY <1>1, <1>2, <1>4 DEF StoreInv, HintsExact
<1> QED BY <1>2, <1>3, <1>5, QuietStep DEF StoreInv

LEMMA DropStep ==
  ASSUME StoreInv, Drop
  PROVE  StoreInv'
<1>1. /\ reader # None /\ asked = None /\ reader' = None /\ closing' = TRUE
      /\ UNCHANGED <<file, pc, model, at, cursor, packed>>
      /\ UNCHANGED <<queue, worker, hint, asked, packing>>
  BY DEF Drop, Close
<1>2. FileKnown' /\ PackerState' /\ PackedState' /\ ReaderState'
  BY <1>1 DEF StoreInv, FileKnown, PackerState, PackedState, ReaderState
<1>3. WorkerState' /\ AskedState'
  BY <1>1 DEF StoreInv, WorkerState, AskedState
<1>4. Requests' = Requests
  BY <1>1 DEF Requests
<1>5. HintsExact'
  BY <1>1, <1>4 DEF StoreInv, HintsExact
<1> QED BY <1>2, <1>3, <1>5 DEF StoreInv

LEMMA WorkerStep ==
  ASSUME StoreInv, Worker
  PROVE  StoreInv'
<1>1. UNCHANGED <<pack_vars, asked>>
  BY DEF Worker, Receive, ReadAdvise, Joined
<1>2. FileKnown' /\ PackerState' /\ PackedState' /\ ReaderState'
  BY <1>1, QuietStep
<1>3. UNCHANGED reader
  BY <1>1 DEF pack_vars
<1>4. AskedState'
  BY <1>1, <1>3 DEF StoreInv, AskedState
<1>5. WorkerState' /\ Requests' \subseteq Requests /\ (worker' = "none" => Requests' = {})
  <2>1. CASE Receive
    <3>1. queue # <<>> /\ queue \in Seq(ToSet(queue))
      BY <2>1 DEF Receive, StoreInv, WorkerState
    <3>2. /\ Tail(queue) \in Seq(ToSet(Tail(queue)))
          /\ ToSet(Tail(queue)) \subseteq ToSet(queue)
          /\ Head(queue) \in ToSet(queue)
      BY <3>1, RestIs
    <3>3. /\ queue' = Tail(queue) /\ hint' = Head(queue) /\ worker' = "advising"
          /\ worker = "waiting" /\ UNCHANGED closing
      BY <2>1 DEF Receive
    <3>4. queue' \in Seq(ToSet(queue')) /\ ToSet(queue') \subseteq ToSet(queue)
          /\ hint' \in ToSet(queue)
      BY <3>2, <3>3
    <3>5. WorkerState'
      BY <1>3, <3>3, <3>4 DEF StoreInv, WorkerState
    <3>6. Requests' \subseteq Requests
      BY <3>4 DEF Requests
    <3> QED BY <3>3, <3>5, <3>6
  <2>2. CASE ReadAdvise
    <3>1. /\ worker = "advising" /\ hint' = None /\ worker' = "waiting"
          /\ UNCHANGED <<queue, closing>>
      BY <2>2 DEF ReadAdvise
    <3>2. WorkerState'
      BY <1>3, <3>1 DEF StoreInv, WorkerState
    <3>3. Requests' \subseteq Requests
      BY <3>1 DEF Requests
    <3> QED BY <3>1, <3>2, <3>3
  <2>3. CASE Joined
    <3>1. /\ worker = "waiting" /\ queue = <<>> /\ closing
          /\ worker' = "none" /\ closing' = FALSE /\ UNCHANGED <<queue, hint>>
      BY <2>3 DEF Joined
    <3>2. hint = None /\ reader = None
      BY <3>1 DEF StoreInv, WorkerState
    <3>3. WorkerState'
      BY <1>3, <3>1, <3>2 DEF StoreInv, WorkerState
    <3>4. ToSet(queue) = {}
      BY <3>1 DEF ToSet
    <3>5. Requests' = {}
      BY <3>1, <3>2, <3>4 DEF Requests
    <3> QED BY <3>3, <3>5
  <2> QED BY <2>1, <2>2, <2>3 DEF Worker
<1>6. HintsExact'
  BY <1>1, <1>3, <1>5 DEF StoreInv, HintsExact
<1> QED BY <1>2, <1>4, <1>5, <1>6 DEF StoreInv

LEMMA StoreStarts ==
  ASSUME RInit
  PROVE  StoreInv
<1>1. /\ pc = "idle" /\ model = None /\ at = 1 /\ cursor = 0 /\ reader = None
      /\ queue = <<>> /\ worker = "none" /\ hint = None
      /\ asked = None /\ closing = FALSE
      /\ \/ file = None /\ packed = None
         \/ \E m \in Models : Packable(m) /\ file = PackedFile(m) /\ packed = m
  BY DEF RInit
<1>2. FileKnown /\ PackedState
  <2>1. CASE file = None /\ packed = None
    BY <2>1 DEF FileKnown, PackedState
  <2>2. CASE \E m \in Models : Packable(m) /\ file = PackedFile(m) /\ packed = m
    <3>1. PICK m \in Models : Packable(m) /\ file = PackedFile(m) /\ packed = m
      BY <2>2
    <3>2. file = Written(m, FileLength(m))
      BY <3>1, WrittenFull
    <3>3. FileLength(m) \in 0..FileLength(m)
      BY <3>1, BeginInside
    <3> QED BY <1>1, <3>1, <3>2, <3>3 DEF FileKnown, PackedState
  <2> QED BY <1>1, <2>1, <2>2
<1>3. PackerState /\ ReaderState
  BY <1>1 DEF PackerState, ReaderState
<1>4. ToSet(queue) = {} /\ queue \in Seq(ToSet(queue))
  BY <1>1 DEF ToSet
<1>5. WorkerState /\ AskedState
  BY <1>1, <1>4 DEF WorkerState, AskedState
<1>6. Requests = {}
  BY <1>1, <1>4 DEF Requests
<1>7. HintsExact
  BY <1>1, <1>6 DEF HintsExact
<1> QED BY <1>2, <1>3, <1>5, <1>7 DEF StoreInv

LEMMA StoreKept ==
  ASSUME StoreInv, [StoreNext]_storevars
  PROVE  StoreInv'
<1>1. CASE UNCHANGED storevars
  <2>1. UNCHANGED pack_vars /\ UNCHANGED readahead
    BY <1>1 DEF storevars
  <2>2. UNCHANGED reader
    BY <2>1 DEF pack_vars
  <2> QED BY <2>1, <2>2, QuietStep, AheadKept DEF StoreInv
<1> QED BY <1>1, PackerStep, OpensStep, AdviseStep, TensorStep, AdvisedStep, DropStep,
           WorkerStep DEF StoreNext, Caller

(* The file, the packer, the reader and the read-ahead agree in every      *)
(* reachable state.                                                        *)
THEOREM StoreInvariant == StoreSpec => []StoreInv
<1>1. RInit => StoreInv
  BY StoreStarts
<1>2. StoreInv /\ [StoreNext]_storevars => StoreInv'
  BY StoreKept
<1> QED BY <1>1, <1>2, PTL DEF StoreSpec

-----------------------------------------------------------------------------
(* A finished packing opens for its model, if the index lists what the     *)
(* shards hold, and for no other.                                          *)
LEMMA FinishedOpens ==
  ASSUME NEW p \in Models, Packable(p), file = PackedFile(p), NEW m \in Models
  PROVE  Opens(m) <=> (m = p /\ Names(m) = DOMAIN Index[m])
<1>1. Parsed = p
  BY ParsedWritten
<1>2. p # None
  BY PackedAssumption
<1>3. ToSet(Order[p]) = Names(p)
  BY OrderNames
<1> DEFINE L == FileLength(p)
<1>4. L \in Nat /\ Len(file) = L
  BY BeginInside, PackedFileIs
<1>5. DataBase(HeaderLength[p]) <= Len(file)
  <2>1. Writes(p) \in Nat /\ Writes(p) >= 4
    BY ChunksAre
  <2>2. FileLength(p) >= DataBase(HeaderLength[p])
    <3>1. 5 \in 1..(Writes(p) + 1) /\ ~(5 <= 3) /\ 5 # 4 /\ 5 - 4 = 1
      BY <2>1
    <3>2. Begin(p)[5] = DataBase(HeaderLength[p]) + Offset(p, 1)
      BY <3>1 DEF Begin
    <3>3. Begin(p)[5] <= FileLength(p)
      BY <3>1, BeginInside
    <3>4. Offset(p, 1) = 0 /\ DataBase(HeaderLength[p]) \in Nat
      BY OffsetIs, HeaderIs
    <3> QED BY <1>4, <3>2, <3>3, <3>4
  <2> QED BY <1>4, <2>2
<1>6. \A i \in DOMAIN Order[p] : End(p, i) <= Len(file)
  <2>1. DOMAIN Order[p] = 1..Len(Order[p])
    BY OrderIs
  <2>2. 0 \in 0..FileLength(p)
    BY <1>4
  <2>3. \A i \in 1..Len(Order[p]) : End(p, i) <= FileLength(p)
    BY <2>2, TensorRead
  <2> QED BY <1>4, <2>1, <2>3
<1>7. Opens(m) <=> AcceptsHeader(m, p)
  BY <1>1, <1>2, <1>5, <1>6 DEF Opens
<1> QED BY <1>3, <1>7 DEF AcceptsHeader

(* For every model, every header, every order of tensors and every point   *)
(* at which a packing is interrupted: a completed packing opens for its    *)
(* model only, and what is read of it is the source, byte for byte.        *)
THEOREM PackingExact == StoreSpec => []CompletedExact
<1>1. ASSUME StoreInv PROVE CompletedExact
  <2>1. ASSUME packed # None, NEW m \in Models
        PROVE  Opens(m) <=> (m = packed /\ Names(m) = DOMAIN Index[m])
    <3>1. packed \in Models /\ Packable(packed) /\ file = PackedFile(packed)
      BY <1>1, <2>1 DEF StoreInv, PackedState
    <3> QED BY <3>1, FinishedOpens
  <2>2. ASSUME reader # None, reader.packed => ~reader.stale /\ packed # None,
               NEW t \in DOMAIN reader.place
        PROVE  View(t) = Source(reader.model, t)
    <3>1. ReaderState
      BY <1>1 DEF StoreInv
    <3>2. CASE ~reader.packed
      BY <2>2, <3>1, <3>2, ShardsView
    <3>3. CASE reader.packed
      <4>1. /\ packed \in Models /\ Packable(packed) /\ file = PackedFile(packed)
        BY <1>1, <2>2, <3>3 DEF StoreInv, PackedState
      <4>2. file = Written(packed, FileLength(packed))
        BY <4>1, WrittenFull
      <4>3. reader.model \in Models /\ file[3] = <<"header", reader.model, 1>>
        BY <2>2, <3>1, <3>3 DEF ReaderState
      <4>4. reader.model = packed
        BY <4>1, <4>2, <4>3, OneOwner
      <4>5. FileLength(reader.model) \in 0..FileLength(reader.model)
        BY <4>1, <4>4, BeginInside
      <4>6. file = Written(reader.model, FileLength(reader.model))
        BY <4>2, <4>4
      <4> QED BY <2>2, <3>1, <3>3, <4>5, <4>6, PackedView
    <3> QED BY <3>2, <3>3
  <2> QED BY <2>1, <2>2 DEF CompletedExact
<1> QED BY <1>1, StoreInvariant, PTL

(* A reader of a file that was never completed sees the beginning of its   *)
(* own tensors, and zeros: nothing of another tensor, model or file.       *)
THEOREM NothingForeign == StoreSpec => []NeverForeign
<1>1. ASSUME StoreInv PROVE NeverForeign
  <2>1. ASSUME reader # None, ~reader.stale, NEW t \in DOMAIN reader.place
        PROVE  LET source == Source(reader.model, t) IN
               \E n \in 0..Len(source) :
                 View(t) = SubSeq(source, 1, n) \o Zeros(Len(source) - n)
    <3>1. ReaderState
      BY <1>1 DEF StoreInv
    <3>2. CASE ~reader.packed
      <4> DEFINE s == Source(reader.model, t)
      <4>1. View(t) = s
        BY <2>1, <3>1, <3>2, ShardsView
      <4>2. reader.model \in Models /\ OpensShards(reader.model) /\ t \in Names(reader.model)
        BY <2>1, <3>1, PlaceIs DEF ReaderState
      <4>3. s \in Seq(BytesOfShard(reader.model, t)) /\ Len(s) \in Nat
        BY <4>2, SourceIs
      <4> HIDE DEF s
      <4>4. SubSeq(s, 1, Len(s)) = s /\ Zeros(Len(s) - Len(s)) = <<>>
        <5>1. Len(s) - Len(s) = 0
          BY <4>3
        <5>2. Zeros(0) = <<>>
          BY DEF Zeros
        <5> QED BY <4>3, <5>1, <5>2
      <4>5. s \o <<>> = s
        BY <4>3
      <4>6. Len(s) \in 0..Len(s)
        BY <4>3
      <4> QED BY <4>1, <4>4, <4>5, <4>6 DEF s
    <3>3. CASE reader.packed
      <4>1. PICK n \in 0..FileLength(reader.model) : file = Written(reader.model, n)
        BY <2>1, <3>1, <3>3 DEF ReaderState
      <4> QED BY <2>1, <3>1, <3>3, <4>1, PackedView
    <3> QED BY <3>2, <3>3
  <2> QED BY <2>1 DEF NeverForeign
<1> QED BY <1>1, StoreInvariant, PTL

(* For every budget and every layer, what reaches the kernel is the        *)
(* beginning of a tensor where it lies, within the budget of its call.     *)
THEOREM ReadAheadExact == StoreSpec => []HintsExact
<1>1. StoreInv => HintsExact
  BY DEF StoreInv
<1> QED BY <1>1, StoreInvariant, PTL
=============================================================================
