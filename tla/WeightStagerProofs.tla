------------------------- MODULE WeightStagerProofs -------------------------
(***************************************************************************)
(* The staging worker of the streaming runtime at any number of layers:    *)
(* one group is under way at most, groups are taken in the order they were *)
(* asked for, and nothing of a forward that came to its end is left over.  *)
(*                                                                         *)
(* At the end, what is done with the bytes that are staged: whoever        *)
(* decodes a weight, processor or kernel, takes the same number from them. *)
(***************************************************************************)
EXTENDS WeightStager, WeightCodecs, TLAPS, WellFoundedInduction, SequenceTheorems,
        FiniteSetTheorems

Places == {"idle", "prefetchQkv", "awaitQkv", "submitQkv", "prefetchGateUp",
           "finishQkv", "attend", "submitGateUp", "gateUp", "prefetchNext",
           "down", "end", "failed", "dropping", "dropped"}
Stopped == {"failed", "dropping", "dropped"}
Failures == {"", "gone", "io", "order", "compute"}
Result == [group : Group, ok : BOOLEAN]

TypeOK ==
  /\ fits \in Budgets /\ async \in BOOLEAN
  /\ pc \in Places /\ layer \in 0..(N - 1)
  /\ pending \in BOOLEAN /\ queued \in BOOLEAN
  /\ staged \in Group \cup {None}
  /\ worker \in {"up", "down"}
  /\ failure \in Failures /\ previous \in Failures
  /\ pc \notin Stopped => failure = ""

(* Nothing is under way; g alone is.                                       *)
Empty == request = <<>> /\ reading = None /\ results = <<>>
Way(g) ==
  \/ request = <<g>> /\ reading = None /\ results = <<>>
  \/ request = <<>> /\ reading = g /\ results = <<>>
  \/ /\ request = <<>> /\ reading = None
     /\ \E good \in BOOLEAN : results = <<[group |-> g, ok |-> good]>>

(* The flag and the channels agree; a worker that died took its group with *)
(* it, unless it was read before.                                          *)
OneWay ==
  /\ Empty \/ \E g \in Group : Way(g)
  /\ queued <=> (~Empty \/ (queued /\ worker = "down"))
  /\ worker = "down" => request = <<>> /\ reading = None

Only(g) == queued => Empty \/ Way(g)

Cleared == ~queued /\ staged = None
Stale == previous \notin {"", "order"}

(* What a forward that failed leaves in hand it leaves for good: there is  *)
(* no worker any more to ask.                                              *)
Stuck == worker = "down" /\ ~queued /\ "qkv" \in fits
After(why) == Cleared \/ (why \notin {"", "order"} /\ (staged = None \/ Stuck))

First == IF "qkv" \in fits THEN Qkv ELSE None
Carried == /\ pending <=> (async /\ "qkv" \in fits)
           /\ staged = IF pending THEN None ELSE First
Asked == Only(GateUp) /\ (queued <=> "gate_up" \in fits)

(* A group is asked for only where the budget has room for one.            *)
Room(flag) == flag => "qkv" \in fits

(* What is in hand and under way, place by place.                          *)
Position ==
  /\ Room(queued)
  /\ pc = "idle" => After(previous)
  /\ pc = "failed" => After(failure)
  /\ pc = "prefetchQkv" => \/ staged = None /\ Only(Qkv)
                           \/ layer = 0 /\ Stale /\ (staged = None \/ Stuck)
  /\ pc = "awaitQkv" => /\ staged = None /\ (queued \/ "qkv" \notin fits)
                        /\ Only(Qkv) \/ Stale
  /\ pc = "submitQkv" => ~queued /\ staged = First
  /\ pc = "prefetchGateUp" => ~queued /\ Carried
  /\ pc = "finishQkv" => Carried /\ Asked
  /\ pc \in {"attend", "submitGateUp"} => staged = None /\ Asked
  /\ pc = "gateUp" => staged = None /\ IF pending THEN ~queued ELSE Asked
  /\ pc \in {"prefetchNext", "end"} => Cleared
  /\ pc = "down" => /\ staged = None /\ Only(NextQkv)
                    /\ queued => layer + 1 < N

IInv == TypeOK /\ OneWay /\ Position /\ OrderKept

(* Groups, their kinds and the empty tuple are told apart.                 *)
LEMMA Groups ==
  ASSUME TypeOK
  PROVE  /\ Qkv \in Group /\ GateUp \in Group
         /\ layer + 1 < N => NextQkv \in Group
         /\ None \notin Group
         /\ "gate_up" \in fits => "qkv" \in fits
<1>1. layer \in 0..(N - 1) /\ fits \in Budgets
  BY DEF TypeOK
<1>2. "gate_up" \in fits => "qkv" \in fits
  BY <1>1 DEF Budgets, Kinds
<1>3. None \notin Group
  BY DEF Group, Kinds, None
<1>4. Qkv \in Group /\ GateUp \in Group
  BY <1>1 DEF Group, Kinds, Qkv, GateUp
<1>5. layer + 1 < N => NextQkv \in Group
  BY <1>1, WeightStagerAssumption DEF Group, Kinds, NextQkv
<1> QED BY <1>2, <1>3, <1>4, <1>5

(* A channel with one message in it.                                       *)
LEMMA Singles ==
  ASSUME NEW x
  PROVE  /\ <<x>> # <<>> /\ Head(<<x>>) = x /\ Tail(<<x>>) = <<>>
         /\ Append(<<>>, x) = <<x>> /\ Len(<<x>>) = 1 /\ Len(<<>>) = 0
OBVIOUS

(* The runtime starts with a worker that waits.                            *)
LEMMA InitInv == Init => IInv
<1> SUFFICES ASSUME Init PROVE IInv
  OBVIOUS
<1>1. TypeOK
  <2>1. layer \in 0..(N - 1)
    <3>1. layer = 0
      BY DEF Init
    <3> QED BY <3>1, WeightStagerAssumption
  <2> QED BY <2>1 DEF Init, TypeOK, Places, Stopped, Failures
<1>2. OneWay /\ Position /\ OrderKept
  BY DEF Init, OneWay, Empty, Position, Room, After, Cleared, OrderKept
<1> QED BY <1>1, <1>2 DEF IInv

-----------------------------------------------------------------------------
(* The worker: what is under way stays what it is, or is lost with the     *)
(* worker.                                                                 *)
LEMMA WorkerSteps ==
  ASSUME TypeOK, OneWay, Worker \/ Die
  PROVE  /\ UNCHANGED main /\ OneWay'
         /\ worker = "down" => worker' = "down"
         /\ \A g \in Group : Only(g) => Only(g)'
<1>g. None \notin Group
  BY Groups
<1>1. CASE Accept
  <2>1. PICK g \in Group : request = <<g>> /\ reading = None /\ results = <<>>
    BY <1>1 DEF OneWay, Accept, Empty, Way
  <2>2. request' = <<>> /\ reading' = g /\ results' = <<>>
    BY <1>1, <2>1, Singles DEF Accept
  <2>3. UNCHANGED <<main, worker>> /\ queued' = queued /\ worker = "up"
    BY <1>1 DEF Accept, main
  <2>4. ~Empty /\ ~Empty' /\ Way(g)'
    BY <1>g, <2>1, <2>2, Singles DEF Empty, Way
  <2>5. \A h \in Group : Way(h) => h = g
    BY <1>g, <2>1, Singles DEF Way
  <2> QED BY <2>1, <2>3, <2>4, <2>5 DEF OneWay, Only
<1>2. CASE Read
  <2>1. PICK g \in Group : request = <<>> /\ reading = g /\ results = <<>>
    BY <1>2 DEF OneWay, Read, Empty, Way
  <2>2. PICK good \in BOOLEAN : results' = <<[group |-> g, ok |-> good]>>
    BY <1>2, <2>1, Singles DEF Read
  <2>3. request' = <<>> /\ reading' = None
    BY <1>2, <2>1 DEF Read
  <2>4. UNCHANGED <<main, worker>> /\ queued' = queued /\ worker = "up"
    BY <1>2 DEF Read, main
  <2>5. ~Empty /\ ~Empty' /\ Way(g)'
    BY <1>g, <2>1, <2>2, <2>3, Singles DEF Empty, Way
  <2>6. \A h \in Group : Way(h) => h = g
    BY <1>g, <2>1, Singles DEF Way
  <2> QED BY <2>1, <2>4, <2>5, <2>6 DEF OneWay, Only
<1>3. CASE Leave
  <2>1. /\ UNCHANGED <<main, request, reading, results>> /\ queued' = queued
        /\ worker = "up" /\ worker' = "down" /\ request = <<>> /\ reading = None
    BY <1>3 DEF Leave, main
  <2>2. UNCHANGED Empty /\ \A g \in Group : Way(g)' <=> Way(g)
    BY <2>1 DEF Empty, Way
  <2> QED BY <2>1, <2>2 DEF OneWay, Only
<1>4. CASE Die
  <2>1. PICK g \in Group : request = <<>> /\ reading = g /\ results = <<>>
    BY <1>4 DEF OneWay, Die, Empty, Way
  <2>2. /\ UNCHANGED main /\ queued' = queued /\ worker = "up" /\ worker' = "down"
        /\ request' = <<>> /\ reading' = None /\ results' = <<>>
    BY <1>4, <2>1 DEF Die, main
  <2>3. ~Empty /\ Empty'
    BY <1>g, <2>1, <2>2 DEF Empty
  <2>4. queued
    BY <2>3 DEF OneWay
  <2> QED BY <2>2, <2>3, <2>4 DEF OneWay, Only
<1> QED BY <1>1, <1>2, <1>3, <1>4 DEF Worker

(* WeightStager::prefetch: declined, refused by a dead worker, or sent.    *)
LEMMA Prefetched ==
  ASSUME TypeOK, OneWay, NEW g \in Group, NEW there, Prefetch(g, there)
  PROVE  /\ OneWay' /\ UNCHANGED <<fits, async, previous, layer, pending, staged, worker>>
         /\ \/ /\ queued \/ g[2] \notin fits
               /\ pc' = there /\ UNCHANGED <<failure, queued, channels>>
            \/ /\ ~queued /\ worker = "down" /\ g[2] \in fits
               /\ pc' = "failed" /\ failure' = "gone" /\ UNCHANGED <<queued, channels>>
            \/ /\ ~queued /\ queued' /\ worker # "down" /\ g[2] \in fits
               /\ pc' = there /\ failure' = failure /\ Way(g)'
<1>1. UNCHANGED <<fits, async, previous, layer, pending, staged, reading, results, worker>>
  BY DEF Prefetch, Stay
<1>2. CASE Refuses(g)
  <2>1. pc' = there /\ UNCHANGED <<failure, queued, channels>>
    BY <1>1, <1>2 DEF Prefetch, Go, channels
  <2>2. OneWay'
    BY <2>1 DEF OneWay, Empty, Way, channels
  <2> QED BY <1>1, <1>2, <2>1, <2>2 DEF Refuses
<1>3. CASE ~Refuses(g) /\ worker = "down"
  <2>1. pc' = "failed" /\ failure' = "gone" /\ UNCHANGED <<queued, channels>>
    BY <1>1, <1>3 DEF Prefetch, Fail, channels
  <2>2. OneWay'
    BY <2>1 DEF OneWay, Empty, Way, channels
  <2> QED BY <1>1, <1>3, <2>1, <2>2 DEF Refuses
<1>4. CASE ~Refuses(g) /\ worker # "down"
  <2>1. ~queued /\ Empty
    BY <1>4 DEF Refuses, OneWay
  <2>2. queued' /\ pc' = there /\ failure' = failure /\ request' = <<g>>
    BY <1>4 DEF Prefetch, Go
  <2>3. Way(g)' /\ ~Empty'
    BY <1>1, <2>1, <2>2, Singles DEF Way, Empty
  <2>4. OneWay'
    BY <1>1, <1>4, <2>2, <2>3 DEF OneWay
  <2> QED BY <1>1, <1>4, <2>1, <2>2, <2>3, <2>4 DEF Refuses
<1> QED BY <1>2, <1>3, <1>4

(* WeightStager::take: there is nothing to take, nobody to give it, or it  *)
(* is taken, whatever it is; what is under way comes out of the channel.   *)
LEMMA TakenFrom ==
  ASSUME TypeOK, OneWay, NEW g \in Group, ~Blocked, Received,
         UNCHANGED <<request, reading, worker>>
  PROVE  /\ OneWay' /\ queued' \in BOOLEAN
         /\ \/ ~queued /\ Taken(g) = "none" /\ UNCHANGED <<queued, results>>
            \/ queued /\ Taken(g) = "gone" /\ UNCHANGED <<queued, results>>
            \/ /\ queued /\ ~queued' /\ Taken(g) \in {"io", "order", "group"}
               /\ Only(g) => Taken(g) # "order"
<1>0. queued' \in BOOLEAN
  BY DEF Received, TypeOK
<1>1. CASE ~queued
  <2>1. UNCHANGED <<queued, results>>
    BY <1>1 DEF Received
  <2>2. OneWay'
    BY <2>1 DEF OneWay, Empty, Way
  <2> QED BY <1>0, <1>1, <2>1, <2>2 DEF Taken
<1>2. CASE queued /\ results = <<>>
  <2>1. UNCHANGED <<queued, results>>
    BY <1>2 DEF Received
  <2>2. OneWay'
    BY <2>1 DEF OneWay, Empty, Way
  <2> QED BY <1>0, <1>2, <2>1, <2>2 DEF Taken
<1>3. CASE queued /\ results # <<>>
  <2>1. PICK h \in Group, good \in BOOLEAN :
          /\ request = <<>> /\ reading = None
          /\ results = <<[group |-> h, ok |-> good]>>
    BY <1>3 DEF OneWay, Empty, Way
  <2>2. Head(results) = [group |-> h, ok |-> good] /\ Tail(results) = <<>>
    BY <2>1, Singles
  <2>3. ~queued' /\ results' = <<>>
    BY <1>3, <2>2 DEF Received
  <2>4. Empty'
    BY <2>1, <2>3 DEF Empty
  <2>5. OneWay'
    BY <2>1, <2>3, <2>4 DEF OneWay
  <2>6. Taken(g) = IF ~good THEN "io" ELSE IF h # g THEN "order" ELSE "group"
    BY <1>3, <2>2 DEF Taken
  <2>7. Only(g) => h = g
    <3>1. ~Empty
      BY <1>3 DEF Empty
    <3>2. None \notin Group
      BY Groups
    <3>3. ASSUME Way(g)
          PROVE  h = g
      <4>1. PICK b \in BOOLEAN : results = <<[group |-> g, ok |-> b]>>
        BY <1>3, <3>3 DEF Way
      <4>2. Head(results) = [group |-> g, ok |-> b]
        BY <4>1, Singles
      <4> QED BY <2>2, <4>2
    <3> QED BY <1>3, <3>1, <3>3 DEF Only
  <2> QED BY <1>0, <1>3, <2>3, <2>5, <2>6, <2>7
<1> QED BY <1>1, <1>2, <1>3

(* take_staged when what is in hand or under way is g: it is handed out,   *)
(* there is none, or the read has failed.                                  *)
LEMMA Consumed ==
  ASSUME TypeOK, OneWay, NEW g \in Group, NEW there, NEW without,
         Consume(g, there, without), staged \in {None, g}, Only(g)
  PROVE  /\ OneWay' /\ queued' \in BOOLEAN /\ staged' = None
         /\ UNCHANGED <<fits, async, previous, layer, worker>>
         /\ \/ /\ staged = g /\ pc' = there
               /\ UNCHANGED <<failure, queued, channels>>
            \/ /\ staged = None /\ ~queued /\ Taken(g) = "none" /\ pc' = without
               /\ UNCHANGED <<failure, queued, channels>>
            \/ /\ staged = None /\ queued /\ ~queued' /\ Taken(g) = "group"
               /\ pc' = there /\ failure' = failure
            \/ /\ staged = None /\ queued /\ pc' = "failed" /\ failure' \in {"gone", "io"}
<1>1. UNCHANGED <<fits, async, previous, layer, request, reading, worker>> /\ g # None
  BY Groups DEF Consume, Stay
<1>2. CASE staged = g
  <2>1. staged' = None /\ pc' = there /\ UNCHANGED <<failure, queued, channels>>
    BY <1>1, <1>2 DEF Consume, Go, channels
  <2>2. OneWay'
    BY <2>1 DEF OneWay, Empty, Way, channels
  <2>3. queued' \in BOOLEAN
    BY <2>1 DEF TypeOK
  <2> QED BY <1>1, <1>2, <2>1, <2>2, <2>3
<1>3. CASE staged = None
  <2>1. ~Blocked /\ Received /\ staged' = None
    BY <1>3 DEF Consume
  <2>2. OneWay' /\ queued' \in BOOLEAN
    BY <1>1, <2>1, TakenFrom
  <2>3. CASE ~queued /\ Taken(g) = "none" /\ UNCHANGED <<queued, results>>
    <3>1. pc' = without /\ UNCHANGED <<failure, queued, channels>>
      BY <1>1, <1>3, <2>3 DEF Consume, Go, channels
    <3> QED BY <1>1, <1>3, <2>1, <2>2, <2>3, <3>1
  <2>4. CASE queued /\ Taken(g) \in {"gone", "io"}
    <3>1. pc' = "failed" /\ failure' \in {"gone", "io"}
      BY <1>3, <2>4 DEF Consume, Fail
    <3> QED BY <1>1, <1>3, <2>1, <2>2, <2>4, <3>1
  <2>5. CASE queued /\ ~queued' /\ Taken(g) = "group"
    <3>1. pc' = there /\ failure' = failure
      BY <1>3, <2>5 DEF Consume, Go
    <3> QED BY <1>1, <1>3, <2>1, <2>2, <2>5, <3>1
  <2> QED BY <1>1, <2>1, <2>3, <2>4, <2>5, TakenFrom
<1> QED BY <1>2, <1>3

-----------------------------------------------------------------------------
(* A step that touches neither the flag nor a channel.                     *)
LEMMA ChannelsKept ==
  ASSUME OneWay, UNCHANGED <<queued, channels>>
  PROVE  OneWay' /\ \A g : Only(g)' <=> Only(g)
BY DEF OneWay, Only, Empty, Way, channels

(* An operation that fails leaves nothing that the next forward could take *)
(* for its own without noticing.                                           *)
LEMMA FailedInv ==
  ASSUME TypeOK, OneWay', Room(queued'), pc' = "failed", failure' \in Failures \ {""},
         UNCHANGED <<fits, async, previous, layer, worker>>,
         pending' \in BOOLEAN, queued' \in BOOLEAN, staged' \in Group \cup {None},
         After(failure)', failure' = "order" => Stale
  PROVE  IInv'
<1>1. TypeOK'
  BY DEF TypeOK, Places, Stopped
<1>2. Position'
  BY DEF Position, Room
<1>3. OrderKept'
  BY DEF OrderKept, Stale
<1> QED BY <1>1, <1>2, <1>3 DEF IInv

(* The request for the layer at hand: refused, sent, or already made.      *)
LEMMA PrefetchQkvInv == IInv /\ PrefetchQkv => IInv'
<1> SUFFICES ASSUME IInv, PrefetchQkv PROVE IInv'
  OBVIOUS
<1>1. /\ pc = "prefetchQkv" /\ Prefetch(Qkv, "awaitQkv") /\ TypeOK /\ OneWay
      /\ Qkv \in Group /\ Qkv[2] = "qkv" /\ Room(queued)
      /\ \/ staged = None /\ Only(Qkv)
         \/ layer = 0 /\ Stale /\ (staged = None \/ Stuck)
  BY Groups DEF IInv, PrefetchQkv, Position, Qkv, Room
<1>2. OneWay' /\ UNCHANGED <<fits, async, previous, layer, pending, staged, worker>>
  BY <1>1, Prefetched
<1>3. CASE queued \/ "qkv" \notin fits
  <2>1. pc' = "awaitQkv" /\ UNCHANGED <<failure, queued, channels>>
    BY <1>1, <1>3, Prefetched
  <2>2. staged = None /\ (Only(Qkv) \/ Stale)
    BY <1>1, <1>3 DEF Stuck
  <2>3. Only(Qkv)' <=> Only(Qkv)
    BY <1>1, <1>2, <2>1, ChannelsKept DEF Qkv
  <2>4. TypeOK'
    BY <1>1, <1>2, <2>1 DEF TypeOK, Places, Stopped
  <2>5. Position'
    BY <1>1, <1>2, <1>3, <2>1, <2>2, <2>3 DEF Position, Room, Stale
  <2> QED BY <1>1, <1>2, <2>1, <2>4, <2>5 DEF IInv, OrderKept
<1>4. CASE ~queued /\ "qkv" \in fits /\ worker = "down"
  <2>1. pc' = "failed" /\ failure' = "gone" /\ UNCHANGED <<queued, channels>>
    BY <1>1, <1>4, Prefetched
  <2>2. After(failure)'
    BY <1>2, <1>4, <2>1 DEF After, Stuck
  <2> QED BY <1>1, <1>2, <2>1, <2>2, FailedInv DEF TypeOK, Failures, Room
<1>5. CASE ~queued /\ "qkv" \in fits /\ worker # "down"
  <2>1. pc' = "awaitQkv" /\ failure' = failure /\ queued' /\ Way(Qkv)'
    BY <1>1, <1>2, <1>5, Prefetched DEF Qkv
  <2>2. staged = None
    BY <1>1, <1>5 DEF Stuck
  <2>3. TypeOK'
    BY <1>1, <1>2, <2>1 DEF TypeOK, Places, Stopped
  <2>4. Position'
    BY <1>2, <1>5, <2>1, <2>2 DEF Position, Only, Room
  <2> QED BY <1>1, <1>2, <2>1, <2>3, <2>4 DEF IInv, OrderKept
<1> QED BY <1>3, <1>4, <1>5

(* wait_for_stage at the head of a layer: the group of this layer, or the  *)
(* error that ends a forward begun with the leavings of a failed one.      *)
LEMMA AwaitQkvInv == IInv /\ AwaitQkv => IInv'
<1> SUFFICES ASSUME IInv, AwaitQkv PROVE IInv'
  OBVIOUS
<1>1. /\ pc = "awaitQkv" /\ Await(Qkv, "submitQkv") /\ TypeOK /\ OneWay
      /\ Qkv \in Group /\ Room(queued)
      /\ staged = None /\ (queued \/ "qkv" \notin fits) /\ (Only(Qkv) \/ Stale)
  BY Groups DEF IInv, AwaitQkv, Position
<1>2. /\ ~Blocked /\ Received
      /\ UNCHANGED <<fits, async, previous, layer, pending, request, reading, worker>>
  BY <1>1 DEF Await, Stay
<1>3. OneWay' /\ queued' \in BOOLEAN
  BY <1>1, <1>2, TakenFrom
<1>4. CASE Taken(Qkv) = "none" /\ ~queued /\ UNCHANGED <<queued, results>>
  <2>1. pc' = "submitQkv" /\ UNCHANGED <<failure, staged>>
    BY <1>1, <1>4 DEF Await, Go
  <2>2. TypeOK'
    BY <1>1, <1>2, <1>4, <2>1 DEF TypeOK, Places, Stopped
  <2>3. Position'
    BY <1>1, <1>2, <1>4, <2>1 DEF Position, First, Room
  <2> QED BY <1>1, <1>2, <1>3, <2>1, <2>2, <2>3 DEF IInv, OrderKept
<1>5. CASE Taken(Qkv) = "gone" /\ UNCHANGED <<queued, results>>
  <2>1. pc' = "failed" /\ failure' = "gone" /\ UNCHANGED staged
    BY <1>1, <1>5 DEF Await, Fail
  <2>2. After(failure)'
    BY <1>1, <2>1 DEF After
  <2> QED BY <1>1, <1>2, <1>3, <1>5, <2>1, <2>2, FailedInv DEF TypeOK, Failures, Room
<1>6. CASE /\ queued /\ ~queued' /\ Taken(Qkv) \in {"io", "order"}
           /\ Only(Qkv) => Taken(Qkv) # "order"
  <2>1. pc' = "failed" /\ failure' = Taken(Qkv) /\ UNCHANGED staged
    BY <1>1, <1>6 DEF Await, Fail
  <2>2. After(failure)'
    BY <1>1, <1>6, <2>1 DEF After, Cleared
  <2> QED BY <1>1, <1>2, <1>3, <1>6, <2>1, <2>2, FailedInv DEF TypeOK, Failures, Room
<1>7. CASE queued /\ ~queued' /\ Taken(Qkv) = "group"
  <2>1. pc' = "submitQkv" /\ staged' = Qkv /\ UNCHANGED failure
    BY <1>1, <1>7 DEF Await, Go
  <2>2. TypeOK'
    BY <1>1, <1>2, <1>3, <2>1 DEF TypeOK, Places, Stopped
  <2>3. Position'
    BY <1>1, <1>2, <1>7, <2>1 DEF Position, First, Room, Qkv
  <2> QED BY <1>1, <1>2, <1>3, <2>1, <2>2, <2>3 DEF IInv, OrderKept
<1> QED BY <1>1, <1>2, <1>4, <1>5, <1>6, <1>7, TakenFrom

(* matvec_many_async of the query, key and value projections.              *)
LEMMA SubmitQkvInv == IInv /\ SubmitQkv => IInv'
<1> SUFFICES ASSUME IInv, SubmitQkv PROVE IInv'
  OBVIOUS
<1>1. /\ pc = "submitQkv" /\ TypeOK /\ OneWay /\ Qkv \in Group /\ Qkv # None
      /\ ~queued /\ staged = First /\ Only(Qkv) /\ staged \in {None, Qkv}
  BY Groups DEF IInv, SubmitQkv, Submit, Position, First, Only
<1>2. CASE async
  <2>1. /\ Consume(Qkv, "prefetchGateUp", "prefetchGateUp")
        /\ pending' = (staged = Qkv \/ (staged = None /\ Taken(Qkv) = "group"))
    BY <1>2 DEF SubmitQkv, Submit
  <2>2. /\ OneWay' /\ staged' = None /\ pc' = "prefetchGateUp"
        /\ UNCHANGED <<fits, async, previous, layer, worker, failure, queued>>
        /\ staged = None => Taken(Qkv) = "none"
    BY <1>1, <2>1, Consumed DEF channels
  <2>3. pending' = ("qkv" \in fits) /\ pending' \in BOOLEAN
    BY <1>1, <2>1, <2>2 DEF First
  <2>4. TypeOK'
    BY <1>1, <2>2, <2>3 DEF TypeOK, Places, Stopped
  <2>5. Position'
    BY <1>1, <1>2, <2>2, <2>3 DEF Position, Carried, Room, First
  <2> QED BY <1>1, <2>2, <2>4, <2>5 DEF IInv, OrderKept
<1>3. CASE ~async
  <2>1. /\ pc' = "prefetchGateUp" /\ pending' = FALSE
        /\ UNCHANGED <<fits, async, previous, failure, layer, queued, staged, channels, worker>>
    BY <1>3 DEF SubmitQkv, Submit, Go, Stay, channels
  <2>2. OneWay'
    BY <1>1, <2>1, ChannelsKept
  <2>3. TypeOK'
    BY <1>1, <2>1 DEF TypeOK, Places, Stopped
  <2>4. Position'
    BY <1>1, <1>3, <2>1 DEF Position, Carried, Room, First, Qkv
  <2> QED BY <1>1, <2>1, <2>2, <2>3, <2>4 DEF IInv, OrderKept
<1> QED BY <1>2, <1>3

(* The gate and up weights are asked for while the layer attends.          *)
LEMMA PrefetchGateUpInv == IInv /\ PrefetchGateUp => IInv'
<1> SUFFICES ASSUME IInv, PrefetchGateUp PROVE IInv'
  OBVIOUS
<1>1. /\ pc = "prefetchGateUp" /\ Prefetch(GateUp, "finishQkv") /\ TypeOK /\ OneWay
      /\ GateUp \in Group /\ GateUp[2] = "gate_up" /\ Room(queued)
      /\ ~queued /\ Carried
      /\ "gate_up" \in fits => "qkv" \in fits
  BY Groups DEF IInv, PrefetchGateUp, Position, GateUp
<1>2. OneWay' /\ UNCHANGED <<fits, async, previous, layer, pending, staged, worker>>
  BY <1>1, Prefetched
<1>3. CASE "gate_up" \notin fits
  <2>1. pc' = "finishQkv" /\ UNCHANGED <<failure, queued>>
    BY <1>1, <1>3, Prefetched
  <2>2. TypeOK'
    BY <1>1, <1>2, <2>1 DEF TypeOK, Places, Stopped
  <2>3. Position'
    BY <1>1, <1>2, <1>3, <2>1 DEF Position, Room, Carried, Asked, Only, First, Qkv
  <2> QED BY <1>1, <1>2, <2>1, <2>2, <2>3 DEF IInv, OrderKept
<1>4. CASE "gate_up" \in fits /\ worker = "down"
  <2>1. pc' = "failed" /\ failure' = "gone" /\ UNCHANGED <<queued, channels>>
    BY <1>1, <1>4, Prefetched
  <2>2. After(failure)'
    BY <1>1, <1>2, <1>4, <2>1 DEF After, Stuck
  <2> QED BY <1>1, <1>2, <2>1, <2>2, FailedInv DEF TypeOK, Failures, Room
<1>5. CASE "gate_up" \in fits /\ worker # "down"
  <2>1. pc' = "finishQkv" /\ failure' = failure /\ queued' /\ Way(GateUp)'
    BY <1>1, <1>2, <1>5, Prefetched DEF GateUp
  <2>2. TypeOK'
    BY <1>1, <1>2, <2>1 DEF TypeOK, Places, Stopped
  <2>3. Carried' /\ Asked' /\ Room(queued)'
    BY <1>1, <1>2, <1>5, <2>1 DEF Carried, Asked, Only, Room, First, Qkv
  <2>4. Position'
    BY <2>1, <2>3 DEF Position
  <2> QED BY <1>1, <1>2, <2>1, <2>2, <2>4 DEF IInv, OrderKept
<1> QED BY <1>3, <1>4, <1>5

(* Metal work that leaves the stager alone.                                *)
LEMMA Computed ==
  ASSUME TypeOK, OneWay, NEW there, Compute(there)
  PROVE  /\ OneWay' /\ UNCHANGED <<fits, async, previous, queued, staged, worker>>
         /\ \A g : Only(g)' <=> Only(g)
         /\ \/ pc' = there /\ failure' = failure
            \/ pc' = "failed" /\ failure' = "compute"
<1>1. UNCHANGED <<fits, async, previous, queued, staged, channels, worker>>
  BY DEF Compute, Stay, channels
<1>2. OneWay' /\ \A g : Only(g)' <=> Only(g)
  BY <1>1, ChannelsKept
<1> QED BY <1>1, <1>2 DEF Compute, Go, Fail

(* The query, key and value projections, submitted before or now.          *)
LEMMA FinishQkvInv == IInv /\ FinishQkv => IInv'
<1> SUFFICES ASSUME IInv, FinishQkv PROVE IInv'
  OBVIOUS
<1>1. /\ pc = "finishQkv" /\ TypeOK /\ OneWay /\ Qkv \in Group /\ Qkv # None
      /\ Room(queued) /\ Carried /\ Asked /\ pending' = FALSE
      /\ "gate_up" \in fits => "qkv" \in fits
  BY Groups DEF IInv, FinishQkv, Finish, Position
<1>2. CASE pending
  <2>1. Compute("attend") /\ layer' = layer /\ staged = None
    BY <1>1, <1>2 DEF FinishQkv, Finish, Carried
  <2>2. /\ OneWay' /\ UNCHANGED <<fits, async, previous, queued, staged, worker>>
        /\ Only(GateUp)' <=> Only(GateUp)
    BY <1>1, <2>1, Computed DEF GateUp
  <2>3. CASE pc' = "attend" /\ failure' = failure
    <3>1. TypeOK'
      BY <1>1, <2>1, <2>2, <2>3 DEF TypeOK, Places, Stopped
    <3>2. Position'
      BY <1>1, <2>1, <2>2, <2>3 DEF Position, Asked, Room
    <3> QED BY <1>1, <2>2, <2>3, <3>1, <3>2 DEF IInv, OrderKept
  <2>4. CASE pc' = "failed" /\ failure' = "compute"
    <3>1. After(failure)'
      BY <2>1, <2>2, <2>4 DEF After
    <3> QED BY <1>1, <2>1, <2>2, <2>4, <3>1, FailedInv DEF TypeOK, Failures, Room
  <2> QED BY <1>1, <2>1, <2>3, <2>4, Computed
<1>3. CASE ~pending
  <2>1. Consume(Qkv, "attend", "attend") /\ staged = First
    BY <1>1, <1>3 DEF FinishQkv, Finish, Carried
  <2>2. staged = None => ~queued
    BY <1>1, <2>1 DEF Asked, First
  <2>3. staged = Qkv \/ staged = None
    BY <2>1 DEF First
  <2>4. /\ pc' = "attend" /\ staged' = None
        /\ UNCHANGED <<fits, async, previous, layer, failure, queued, channels, worker>>
    <3>1. CASE staged = Qkv
      <4>1. Consume(Qkv, "attend", "attend") /\ staged # None
        BY <1>1, <2>1, <3>1
      <4>2. UNCHANGED <<queued, results>> /\ staged' = None /\ pc' = "attend" /\ failure' = failure
        BY <3>1, <4>1 DEF Consume, Go
      <4> QED BY <4>1, <4>2 DEF Consume, Stay, channels
    <3>2. CASE staged = None
      <4>1. Only(Qkv)
        BY <2>2, <3>2 DEF Only
      <4> QED BY <1>1, <2>1, <2>2, <3>2, <4>1, Consumed
    <3> QED BY <2>3, <3>1, <3>2
  <2>5. OneWay' /\ (Only(GateUp)' <=> Only(GateUp))
    BY <1>1, <2>4, ChannelsKept DEF GateUp
  <2>6. TypeOK'
    BY <1>1, <2>4 DEF TypeOK, Places, Stopped
  <2>7. Position'
    BY <1>1, <2>4, <2>5 DEF Position, Asked, Room
  <2> QED BY <1>1, <2>4, <2>5, <2>6, <2>7 DEF IInv, OrderKept
<1> QED BY <1>2, <1>3

(* Attention, with the gate and up weights under way.                      *)
LEMMA AttendInv == IInv /\ Attend => IInv'
<1> SUFFICES ASSUME IInv, Attend PROVE IInv'
  OBVIOUS
<1>1. /\ pc = "attend" /\ TypeOK /\ OneWay /\ Room(queued) /\ staged = None /\ Asked
      /\ Compute("submitGateUp") /\ UNCHANGED <<layer, pending>>
  BY DEF IInv, Attend, Position
<1>2. /\ OneWay' /\ UNCHANGED <<fits, async, previous, queued, staged, worker>>
      /\ Only(GateUp)' <=> Only(GateUp)
  BY <1>1, Computed DEF GateUp
<1>3. CASE pc' = "submitGateUp" /\ failure' = failure
  <2>1. TypeOK'
    BY <1>1, <1>2, <1>3 DEF TypeOK, Places, Stopped
  <2>2. Position'
    BY <1>1, <1>2, <1>3 DEF Position, Asked, Room
  <2> QED BY <1>1, <1>2, <1>3, <2>1, <2>2 DEF IInv, OrderKept
<1>4. CASE pc' = "failed" /\ failure' = "compute"
  <2>1. After(failure)'
    BY <1>1, <1>2, <1>4 DEF After
  <2> QED BY <1>1, <1>2, <1>4, <2>1, FailedInv DEF TypeOK, Failures, Room
<1> QED BY <1>1, <1>3, <1>4, Computed

(* The gate and up projections, submitted early or taken when needed.      *)
LEMMA SubmitGateUpInv == IInv /\ SubmitGateUp => IInv'
<1> SUFFICES ASSUME IInv, SubmitGateUp PROVE IInv'
  OBVIOUS
<1>1. /\ pc = "submitGateUp" /\ TypeOK /\ OneWay /\ GateUp \in Group /\ GateUp # None
      /\ Room(queued) /\ staged = None /\ Asked /\ Only(GateUp)
  BY Groups DEF IInv, SubmitGateUp, Submit, Position, Asked
<1>2. CASE async
  <2>1. /\ Consume(GateUp, "gateUp", "gateUp")
        /\ pending' = (staged = GateUp \/ (staged = None /\ Taken(GateUp) = "group"))
    BY <1>2 DEF SubmitGateUp, Submit
  <2>2. /\ OneWay' /\ queued' \in BOOLEAN /\ staged' = None
        /\ UNCHANGED <<fits, async, previous, layer, worker>>
    BY <1>1, <2>1, Consumed
  <2>3. pending' = (Taken(GateUp) = "group") /\ pending' \in BOOLEAN
    BY <1>1, <2>1
  <2>4. CASE pc' = "gateUp" /\ ~queued /\ Taken(GateUp) = "none" /\ UNCHANGED <<failure, queued>>
    <3>1. TypeOK'
      BY <1>1, <2>2, <2>3, <2>4 DEF TypeOK, Places, Stopped
    <3>2. Position'
      BY <1>1, <2>2, <2>3, <2>4 DEF Position, Asked, Only, Room
    <3> QED BY <1>1, <2>2, <2>4, <3>1, <3>2 DEF IInv, OrderKept
  <2>5. CASE pc' = "gateUp" /\ ~queued' /\ Taken(GateUp) = "group" /\ failure' = failure
    <3>1. TypeOK'
      BY <1>1, <2>2, <2>3, <2>5 DEF TypeOK, Places, Stopped
    <3>2. Position'
      BY <1>1, <2>2, <2>3, <2>5 DEF Position, Room
    <3> QED BY <1>1, <2>2, <2>5, <3>1, <3>2 DEF IInv, OrderKept
  <2>6. CASE queued /\ pc' = "failed" /\ failure' \in {"gone", "io"}
    <3>1. After(failure)'
      BY <2>2, <2>6 DEF After
    <3> QED BY <1>1, <2>2, <2>3, <2>6, <3>1, FailedInv DEF TypeOK, Failures, Room
  <2> QED BY <1>1, <2>1, <2>4, <2>5, <2>6, Consumed
<1>3. CASE ~async
  <2>1. /\ pc' = "gateUp" /\ pending' = FALSE
        /\ UNCHANGED <<fits, async, previous, failure, layer, queued, staged, channels, worker>>
    BY <1>3 DEF SubmitGateUp, Submit, Go, Stay, channels
  <2>2. OneWay' /\ (Only(GateUp)' <=> Only(GateUp))
    BY <1>1, <2>1, ChannelsKept DEF GateUp
  <2>3. TypeOK'
    BY <1>1, <2>1 DEF TypeOK, Places, Stopped
  <2>4. Position'
    BY <1>1, <2>1, <2>2 DEF Position, Asked, Room
  <2> QED BY <1>1, <2>1, <2>2, <2>3, <2>4 DEF IInv, OrderKept
<1> QED BY <1>2, <1>3

(* The synchronous gate and up projections take what was staged for them.  *)
LEMMA FinishGateUpInv == IInv /\ FinishGateUp => IInv'
<1> SUFFICES ASSUME IInv, FinishGateUp PROVE IInv'
  OBVIOUS
<1>1. /\ pc = "gateUp" /\ TypeOK /\ OneWay /\ GateUp \in Group /\ Room(queued)
      /\ staged = None /\ Only(GateUp) /\ pending' = FALSE
      /\ Consume(GateUp, "prefetchNext", "prefetchNext")
  BY Groups DEF IInv, FinishGateUp, Finish, Position, Asked
<1>2. /\ OneWay' /\ queued' \in BOOLEAN /\ staged' = None
      /\ UNCHANGED <<fits, async, previous, layer, worker>>
  BY <1>1, Consumed
<1>3. CASE pc' = "prefetchNext" /\ ~queued' /\ failure' = failure
  <2>1. TypeOK'
    BY <1>1, <1>2, <1>3 DEF TypeOK, Places, Stopped
  <2>2. Position'
    BY <1>2, <1>3 DEF Position, Cleared, Room
  <2> QED BY <1>1, <1>2, <1>3, <2>1, <2>2 DEF IInv, OrderKept
<1>4. CASE queued /\ pc' = "failed" /\ failure' \in {"gone", "io"}
  <2>1. After(failure)'
    BY <1>2, <1>4 DEF After
  <2> QED BY <1>1, <1>2, <1>4, <2>1, FailedInv DEF TypeOK, Failures, Room
<1>5. GateUp # None
  BY <1>1, Groups
<1>6. staged \in {None, GateUp}
  BY <1>1
<1> QED BY <1>1, <1>3, <1>4, <1>5, <1>6, Consumed DEF channels

(* The weights of the next layer are asked for before the down projection, *)
(* of the last layer there are none to ask for.                            *)
LEMMA PrefetchNextInv == IInv /\ PrefetchNext => IInv'
<1> SUFFICES ASSUME IInv, PrefetchNext PROVE IInv'
  OBVIOUS
<1>1. /\ pc = "prefetchNext" /\ TypeOK /\ OneWay /\ Room(queued)
      /\ ~queued /\ staged = None
  BY DEF IInv, PrefetchNext, Position, Cleared
<1>2. CASE HasNext
  <2>1. Prefetch(NextQkv, "down") /\ NextQkv \in Group /\ NextQkv[2] = "qkv" /\ layer + 1 < N
    BY <1>1, <1>2, Groups DEF PrefetchNext, HasNext, NextQkv
  <2>2. OneWay' /\ UNCHANGED <<fits, async, previous, layer, pending, staged, worker>>
    BY <1>1, <2>1, Prefetched
  <2>3. CASE pc' = "down" /\ UNCHANGED <<failure, queued>>
    <3>1. TypeOK'
      BY <1>1, <2>2, <2>3 DEF TypeOK, Places, Stopped
    <3>2. Position'
      BY <1>1, <2>2, <2>3 DEF Position, Only, Room
    <3> QED BY <1>1, <2>2, <2>3, <3>1, <3>2 DEF IInv, OrderKept
  <2>4. CASE pc' = "failed" /\ failure' = "gone" /\ UNCHANGED queued
    <3>1. After(failure)'
      BY <1>1, <2>2, <2>4 DEF After
    <3> QED BY <1>1, <2>2, <2>4, <3>1, FailedInv DEF TypeOK, Failures, Room
  <2>5. CASE /\ pc' = "down" /\ failure' = failure /\ queued' /\ Way(NextQkv)'
             /\ NextQkv[2] \in fits
    <3>1. TypeOK'
      BY <1>1, <2>2, <2>5 DEF TypeOK, Places, Stopped
    <3>2. Only(NextQkv)' /\ Room(queued)' /\ layer' + 1 < N
      BY <2>1, <2>2, <2>5 DEF Only, Room
    <3>3. Position'
      BY <1>1, <2>2, <2>5, <3>2 DEF Position
    <3> QED BY <1>1, <2>2, <2>5, <3>1, <3>3 DEF IInv, OrderKept
  <2>6. NextQkv' = NextQkv
    BY <2>2 DEF NextQkv
  <2> QED BY <1>1, <2>1, <2>3, <2>4, <2>5, <2>6, Prefetched
<1>3. CASE ~HasNext
  <2>1. pc' = "down" /\ UNCHANGED <<fits, async, previous, failure, layer, pending, queued, staged, channels, worker>>
    BY <1>3 DEF PrefetchNext, Go, Stay, channels
  <2>2. OneWay'
    BY <1>1, <2>1, ChannelsKept
  <2>3. TypeOK'
    BY <1>1, <2>1 DEF TypeOK, Places, Stopped
  <2>4. Position'
    BY <1>1, <2>1 DEF Position, Only, Room
  <2> QED BY <1>1, <2>1, <2>2, <2>3, <2>4 DEF IInv, OrderKept
<1> QED BY <1>2, <1>3

(* The down projection, and on to the next layer or to the end.            *)
LEMMA DownInv == IInv /\ Down => IInv'
<1> SUFFICES ASSUME IInv, Down PROVE IInv'
  OBVIOUS
<1>1. /\ pc = "down" /\ TypeOK /\ OneWay /\ Room(queued) /\ staged = None
      /\ Only(NextQkv) /\ (queued => layer + 1 < N) /\ pending' = FALSE
      /\ layer \in 0..(N - 1)
  BY DEF IInv, Down, Position, TypeOK
<1>2. CASE layer + 1 < N
  <2>1. Compute("prefetchQkv") /\ layer' = IF pc' = "failed" THEN layer ELSE layer + 1
    BY <1>2 DEF Down
  <2>2. /\ OneWay' /\ UNCHANGED <<fits, async, previous, queued, staged, worker>>
        /\ \A g : Only(g)' <=> Only(g)
    BY <1>1, <2>1, Computed
  <2>3. CASE pc' = "prefetchQkv" /\ failure' = failure
    <3>1. layer' = layer + 1 /\ layer' \in 0..(N - 1)
      BY <1>1, <1>2, <2>1, <2>3, WeightStagerAssumption
    <3>2. TypeOK'
      BY <1>1, <2>2, <2>3, <3>1 DEF TypeOK, Places, Stopped
    <3>3. Qkv' = NextQkv
      BY <3>1 DEF Qkv, NextQkv
    <3>4. Only(Qkv)'
      BY <1>1, <2>2, <3>3 DEF Only, Empty, Way
    <3>5. Position'
      BY <1>1, <2>2, <2>3, <3>4 DEF Position, Room
    <3> QED BY <1>1, <2>2, <2>3, <3>2, <3>5 DEF IInv, OrderKept
  <2>4. CASE pc' = "failed" /\ failure' = "compute"
    <3>1. After(failure)' /\ layer' = layer
      BY <1>1, <2>1, <2>2, <2>4 DEF After
    <3> QED BY <1>1, <2>2, <2>4, <3>1, FailedInv DEF TypeOK, Failures, Room
  <2> QED BY <1>1, <2>1, <2>3, <2>4, Computed
<1>3. CASE ~(layer + 1 < N)
  <2>1. Compute("end") /\ layer' = layer /\ ~queued
    BY <1>1, <1>3 DEF Down
  <2>2. OneWay' /\ UNCHANGED <<fits, async, previous, queued, staged, worker>>
    BY <1>1, <2>1, Computed
  <2>3. CASE pc' = "end" /\ failure' = failure
    <3>1. TypeOK'
      BY <1>1, <2>1, <2>2, <2>3 DEF TypeOK, Places, Stopped
    <3>2. Position'
      BY <1>1, <2>1, <2>2, <2>3 DEF Position, Cleared, Room
    <3> QED BY <1>1, <2>2, <2>3, <3>1, <3>2 DEF IInv, OrderKept
  <2>4. CASE pc' = "failed" /\ failure' = "compute"
    <3>1. After(failure)'
      BY <1>1, <2>2, <2>4 DEF After
    <3> QED BY <1>1, <2>1, <2>2, <2>4, <3>1, FailedInv DEF TypeOK, Failures, Room
  <2> QED BY <1>1, <2>1, <2>3, <2>4, Computed
<1> QED BY <1>2, <1>3

(* Where a forward begins and ends, and the end of the runtime.            *)
LEMMA EndsInv ==
  /\ IInv
  /\ \/ StartForward \/ GateUpSubmitted \/ Return \/ Reset \/ Drop \/ Join
     \/ Dropped
  => IInv'
<1> SUFFICES ASSUME IInv,
             \/ StartForward \/ GateUpSubmitted \/ Return \/ Reset \/ Drop \/ Join
             \/ Dropped
             PROVE IInv'
  OBVIOUS
<1>1. TypeOK /\ OneWay /\ Position /\ OrderKept /\ Room(queued)
  BY DEF IInv, Position
<1>2. UNCHANGED <<fits, async, queued, staged, channels, worker>>
  BY DEF StartForward, GateUpSubmitted, Return, Reset, Drop, Join, Dropped, Go, Stay, channels, vars
<1>3. OneWay' /\ Room(queued)'
  BY <1>1, <1>2, ChannelsKept DEF Room
<1>4. CASE StartForward
  <2>1. /\ pc = "idle" /\ pc' = "prefetchQkv" /\ layer' = 0 /\ pending' = FALSE
        /\ UNCHANGED <<failure, previous>>
    BY <1>4 DEF StartForward, Go, Stay
  <2>2. layer' \in 0..(N - 1)
    BY <2>1, WeightStagerAssumption
  <2>3. TypeOK'
    BY <1>1, <1>2, <2>1, <2>2 DEF TypeOK, Places, Stopped
  <2>4. Position'
    BY <1>1, <1>2, <1>3, <2>1 DEF Position, After, Cleared, Only, Stale, Stuck
  <2> QED BY <1>1, <1>3, <2>1, <2>3, <2>4 DEF IInv, OrderKept
<1>5. CASE GateUpSubmitted
  <2>1. /\ pc = "gateUp" /\ pending /\ pc' = "prefetchNext"
        /\ UNCHANGED <<failure, previous, layer, pending>>
    BY <1>5 DEF GateUpSubmitted, Go, Stay
  <2>2. TypeOK'
    BY <1>1, <1>2, <2>1 DEF TypeOK, Places, Stopped
  <2>3. Position'
    BY <1>1, <1>2, <1>3, <2>1 DEF Position, Cleared
  <2> QED BY <1>1, <1>3, <2>1, <2>2, <2>3 DEF IInv, OrderKept
<1>6. CASE Return
  <2>1. pc = "end" /\ pc' = "idle" /\ previous' = "" /\ UNCHANGED <<failure, layer, pending>>
    BY <1>6 DEF Return
  <2>2. TypeOK' /\ failure = ""
    BY <1>1, <1>2, <2>1 DEF TypeOK, Places, Stopped, Failures
  <2>3. Position'
    BY <1>1, <1>2, <1>3, <2>1 DEF Position, After, Cleared
  <2> QED BY <1>3, <2>1, <2>2, <2>3 DEF IInv, OrderKept
<1>7. CASE Reset
  <2>1. /\ pc = "failed" /\ pc' = "idle" /\ previous' = failure /\ failure' = ""
        /\ UNCHANGED <<layer, pending>>
    BY <1>7 DEF Reset
  <2>2. TypeOK'
    BY <1>1, <1>2, <2>1 DEF TypeOK, Places, Stopped, Failures
  <2>3. Position'
    BY <1>1, <1>2, <1>3, <2>1 DEF Position, After, Cleared, Stuck
  <2> QED BY <1>3, <2>1, <2>2, <2>3 DEF IInv, OrderKept
<1>8. CASE Drop \/ Join
  <2>1. /\ pc' \in {"dropping", "dropped"}
        /\ UNCHANGED <<failure, previous, layer, pending>>
    BY <1>8 DEF Drop, Join, Go, Stay
  <2>2. TypeOK'
    BY <1>1, <1>2, <2>1 DEF TypeOK, Places, Stopped
  <2>3. Position'
    BY <1>3, <2>1 DEF Position
  <2> QED BY <1>1, <1>3, <2>1, <2>2, <2>3 DEF IInv, OrderKept
<1>9. CASE Dropped
  <2>1. pc = "dropped" /\ UNCHANGED <<pc, failure, previous, layer, pending>>
    BY <1>9 DEF Dropped, vars
  <2>2. TypeOK'
    BY <1>1, <1>2, <2>1 DEF TypeOK
  <2>3. Position'
    BY <1>3, <2>1 DEF Position
  <2> QED BY <1>1, <1>3, <2>1, <2>2, <2>3 DEF IInv, OrderKept
<1> QED BY <1>4, <1>5, <1>6, <1>7, <1>8, <1>9

(* The worker's steps leave every expectation of the model thread standing.*)
LEMMA WorkerInv == IInv /\ (Worker \/ Die) => IInv'
<1> SUFFICES ASSUME IInv, Worker \/ Die PROVE IInv'
  OBVIOUS
<1>1. TypeOK /\ OneWay /\ Position /\ OrderKept
  BY DEF IInv
<1>2. /\ OneWay' /\ (worker = "down" => worker' = "down")
      /\ UNCHANGED <<fits, async, pc, layer, pending, queued, staged, failure, previous>>
      /\ \A g \in Group : Only(g) => Only(g)'
  BY <1>1, WorkerSteps DEF main
<1>3. TypeOK'
  <2>1. worker' \in {"up", "down"}
    BY <1>1 DEF Worker, Accept, Read, Leave, Die, TypeOK
  <2> QED BY <1>1, <1>2, <2>1 DEF TypeOK
<1>4. /\ Qkv' = Qkv /\ GateUp' = GateUp /\ NextQkv' = NextQkv
      /\ Qkv \in Group /\ GateUp \in Group
      /\ layer + 1 < N => NextQkv \in Group
  BY <1>1, <1>2, Groups DEF Qkv, GateUp, NextQkv
<1>5. /\ Only(Qkv) => Only(Qkv)'
      /\ Only(GateUp) => Only(GateUp)'
      /\ (queued => layer + 1 < N) /\ Only(NextQkv) => Only(NextQkv)'
  BY <1>2, <1>4 DEF Only
<1>6. /\ First' = First /\ (Carried => Carried') /\ (Stuck => Stuck') /\ (Stale => Stale')
      /\ \A why : After(why) => After(why)'
      /\ (Asked => Asked') /\ (Cleared => Cleared') /\ (Room(queued) => Room(queued)')
  BY <1>2, <1>4, <1>5 DEF First, Carried, Stuck, Stale, After, Asked, Cleared, Room
<1>7. Position'
  BY <1>1, <1>2, <1>4, <1>5, <1>6 DEF Position
<1> QED BY <1>1, <1>2, <1>3, <1>7 DEF IInv, OrderKept

-----------------------------------------------------------------------------
(* Every step keeps channels, flag and place in line.                      *)
LEMMA NextInv == IInv /\ [Next]_vars => IInv'
<1>1. ASSUME IInv, UNCHANGED vars
      PROVE  IInv'
  <2>1. OneWay'
    BY <1>1, ChannelsKept DEF IInv, vars
  <2>2. TypeOK' /\ OrderKept'
    BY <1>1 DEF IInv, vars, channels, TypeOK, OrderKept
  <2>3. \A g : Only(g)' <=> Only(g)
    BY <1>1, ChannelsKept DEF IInv, vars
  <2>4. Qkv' = Qkv /\ GateUp' = GateUp /\ NextQkv' = NextQkv
    BY <1>1 DEF vars, Qkv, GateUp, NextQkv
  <2>5. UNCHANGED <<fits, async, pc, layer, pending, queued, staged, worker, failure, previous>>
    BY <1>1 DEF vars, channels
  <2>6. /\ First' = First /\ (Carried' <=> Carried) /\ (Stuck' <=> Stuck) /\ (Stale' <=> Stale)
        /\ \A why : After(why)' <=> After(why)
        /\ (Asked' <=> Asked) /\ (Cleared' <=> Cleared)
    BY <2>3, <2>4, <2>5 DEF First, Carried, Stuck, Stale, After, Asked, Cleared
  <2>7. /\ Only(Qkv)' <=> Only(Qkv)
        /\ Only(NextQkv)' <=> Only(NextQkv)
    BY <2>3, <2>4 DEF Only, Way, Empty
  <2>8. Position'
    BY <1>1, <2>4, <2>5, <2>6, <2>7 DEF IInv, Position, Room
  <2> QED BY <2>1, <2>2, <2>8 DEF IInv
<1> QED
  BY <1>1, PrefetchQkvInv, AwaitQkvInv, SubmitQkvInv, PrefetchGateUpInv, FinishQkvInv,
     AttendInv, SubmitGateUpInv, FinishGateUpInv, PrefetchNextInv, DownInv, EndsInv, WorkerInv
     DEF Next, Loop

(* The inductive invariant holds throughout.                               *)
LEMMA StagerInvariant == Spec => []IInv
BY InitInv, NextInv, PTL DEF Spec

(* Type correctness of the model thread's state.                           *)
THEOREM TypeCorrect == Spec => []TypeOK
<1>1. IInv => TypeOK
  BY DEF IInv
<1> QED BY <1>1, StagerInvariant, PTL

(* At any number of layers one group is under way at most, and the flag of *)
(* WeightStager::prefetch tells whether one is: send never blocks.         *)
THEOREM OneUnderWay == Spec => []OneOutstanding
<1>1. ASSUME IInv
      PROVE  OneOutstanding
  <2>1. CASE Empty
    <3>1. Outstanding = 0
      BY <2>1, Singles DEF Empty, Outstanding
    <3>2. worker = "up" => ~queued
      BY <1>1, <2>1 DEF IInv, OneWay
    <3> QED BY <3>1, <3>2 DEF OneOutstanding
  <2>2. CASE \E g \in Group : Way(g)
    <3>1. None \notin Group
      BY <1>1, Groups DEF IInv
    <3>2. Outstanding = 1 /\ ~Empty
      <4>1. PICK g \in Group : Way(g)
        BY <2>2
      <4>2. g # None
        BY <3>1
      <4>3. CASE request = <<g>> /\ reading = None /\ results = <<>>
        BY <4>3, Singles DEF Empty, Outstanding
      <4>4. CASE request = <<>> /\ reading = g /\ results = <<>>
        BY <4>2, <4>4, Singles DEF Empty, Outstanding
      <4>5. CASE /\ request = <<>> /\ reading = None
                 /\ \E good \in BOOLEAN : results = <<[group |-> g, ok |-> good]>>
        BY <4>5, Singles DEF Empty, Outstanding
      <4> QED BY <4>1, <4>3, <4>4, <4>5 DEF Way
    <3>3. queued
      BY <1>1, <3>2 DEF IInv, OneWay
    <3> QED BY <3>2, <3>3 DEF OneOutstanding
  <2> QED BY <1>1, <2>1, <2>2 DEF IInv, OneWay
<1>2. IInv => OneOutstanding
  BY <1>1
<1> QED BY <1>2, StagerInvariant, PTL

(* A token that was finished leaves nothing staged and nothing under way.  *)
THEOREM IdleIsClean == Spec => []IdleClean
<1>1. IInv => IdleClean
  BY DEF IInv, Position, After, Cleared, IdleClean
<1> QED BY <1>1, StagerInvariant, PTL

(* The order check of WeightStager::take fails only in the first forward   *)
(* after a failed one, at any number of layers and with any budget.        *)
THEOREM OrderIsKept == Spec => []OrderKept
<1>1. IInv => OrderKept
  BY DEF IInv
<1> QED BY <1>1, StagerInvariant, PTL
-----------------------------------------------------------------------------
(* While a command reads weights and a request may still be made, there is *)
(* a worker to ask; it can only be lost with a request that it reads.      *)
Alive ==
  /\ worker = "down" => results = <<>> \/ pc \in {"dropping", "dropped"}
  /\ pc = "submitQkv" /\ staged # None => worker = "up"
  /\ pending => pc \in {"prefetchGateUp", "finishQkv", "gateUp", "prefetchNext", "down"}
  /\ pending /\ pc \in {"prefetchGateUp", "gateUp", "prefetchNext"} => worker = "up"

(* A result in the channel tells that the worker is up.                    *)
LEMMA Answered ==
  ASSUME TypeOK, Alive, NEW g, Taken(g) = "group", pc \notin {"dropping", "dropped"}
  PROVE  worker = "up" /\ queued
BY DEF TypeOK, Alive, Taken

(* The worker is up, or has not lost a request, wherever a command runs.   *)
LEMMA AliveWorker == IInv /\ Alive /\ (Worker \/ Die) => Alive'
<1> SUFFICES ASSUME IInv, Alive, Worker \/ Die PROVE Alive'
  OBVIOUS
<1>1. UNCHANGED <<pc, pending, queued, staged>>
  BY DEF Worker, Die, Accept, Read, Leave, main
<1>2. CASE Accept \/ Read
  <2>1. worker = "up" /\ worker' = "up"
    BY <1>2 DEF Accept, Read
  <2> QED BY <1>1, <2>1 DEF Alive
<1>3. CASE Leave
  <2>1. pc = "dropping" /\ results' = results
    BY <1>3 DEF Leave
  <2> QED BY <1>1, <2>1 DEF Alive
<1>4. CASE Die
  <2>1. reading # None /\ worker = "up" /\ results' = results
    BY <1>4 DEF Die
  <2>2. ~Empty
    BY <2>1 DEF Empty
  <2>3. results = <<>> /\ queued
    BY <2>1, <2>2, Singles DEF IInv, OneWay, Way
  <2>4. pc \notin {"submitQkv", "prefetchGateUp", "prefetchNext"} /\ ~(pc = "gateUp" /\ pending)
    BY <2>3 DEF IInv, Position, Cleared
  <2> QED BY <1>1, <2>1, <2>3, <2>4 DEF Alive
<1> QED BY <1>2, <1>3, <1>4 DEF Worker

(* A request made while a command runs is sent or declined, never refused. *)
LEMMA AlivePrefetch ==
  IInv /\ Alive /\ (PrefetchQkv \/ PrefetchGateUp \/ PrefetchNext) => Alive'
<1> SUFFICES ASSUME IInv, Alive, PrefetchQkv \/ PrefetchGateUp \/ PrefetchNext PROVE Alive'
  OBVIOUS
<1>g. Qkv \in Group /\ GateUp \in Group
  BY Groups DEF IInv
<1>1. CASE PrefetchQkv
  <2>1. pc = "prefetchQkv" /\ pc' \in {"awaitQkv", "failed"} /\ pending' = pending
        /\ worker' = worker /\ results' = results
    BY <1>1 DEF PrefetchQkv, Prefetch, Go, Fail
  <2> QED BY <2>1 DEF Alive
<1>2. CASE PrefetchGateUp
  <2>1. pc = "prefetchGateUp" /\ pc' \in {"finishQkv", "failed"} /\ pending' = pending
        /\ worker' = worker /\ results' = results
    BY <1>2 DEF PrefetchGateUp, Prefetch, Go, Fail
  <2>2. pending => pc' = "finishQkv"
    BY <1>2, <2>1 DEF Alive, PrefetchGateUp, Prefetch, Go
  <2> QED BY <2>1, <2>2 DEF Alive
<1>3. CASE PrefetchNext
  <2>1. pc = "prefetchNext" /\ pc' \in {"down", "failed"} /\ pending' = pending
        /\ worker' = worker /\ results' = results
    BY <1>3 DEF PrefetchNext, Prefetch, Go, Fail, channels
  <2>2. pending => pc' = "down"
    BY <1>3, <2>1 DEF Alive, PrefetchNext, Prefetch, Go
  <2> QED BY <2>1, <2>2 DEF Alive
<1> QED BY <1>1, <1>2, <1>3

(* What wait_for_stage hands on came from a worker that is up.             *)
LEMMA AliveAwait == IInv /\ Alive /\ AwaitQkv => Alive'
<1> SUFFICES ASSUME IInv, Alive, AwaitQkv PROVE Alive'
  OBVIOUS
<1>1. pc = "awaitQkv" /\ ~pending /\ staged = None
  BY DEF AwaitQkv, Alive, IInv, TypeOK, Position
<1>2. UNCHANGED <<pending, worker>> /\ pc' \in {"submitQkv", "failed"}
  BY <1>1 DEF AwaitQkv, Await, Go, Fail
<1>3. Received
  BY <1>1 DEF AwaitQkv, Await
<1>4. results = <<>> => results' = <<>>
  BY <1>3 DEF Received
<1>5. staged' # None => Taken(Qkv) = "group"
  BY <1>1 DEF AwaitQkv, Await
<1>6. staged' # None => worker = "up"
  BY <1>1, <1>5, Answered DEF IInv
<1> QED BY <1>1, <1>2, <1>4, <1>6 DEF Alive

(* A command is submitted only with weights that a worker which is up has  *)
(* read.                                                                   *)
LEMMA AliveSubmit == IInv /\ Alive /\ (SubmitQkv \/ SubmitGateUp) => Alive'
<1> SUFFICES ASSUME IInv, Alive, SubmitQkv \/ SubmitGateUp PROVE Alive'
  OBVIOUS
<1>g. Qkv \in Group /\ GateUp \in Group /\ None \notin Group
  BY Groups DEF IInv
<1>a. ASSUME NEW g \in Group, NEW here, NEW there, Submit(g, here, there),
             here \notin {"dropping", "dropped"}
      PROVE  /\ worker' = worker /\ (results = <<>> => results' = <<>>)
             /\ pc = here /\ pc' \in {there, "failed"}
             /\ pending' => pc' = there /\ (staged = g \/ worker = "up")
  <2>1. CASE ~async
    BY <1>a, <2>1 DEF Submit, Go, channels
  <2>2. CASE async
    <3>1. Consume(g, there, there) /\ pc = here
          /\ pending' = (staged = g \/ (staged = None /\ Taken(g) = "group"))
      BY <1>a, <2>2 DEF Submit
    <3>2. worker' = worker /\ pc' \in {there, "failed"}
      BY <3>1 DEF Consume, Go, Fail
    <3>3. results = <<>> => results' = <<>>
      BY <3>1 DEF Consume, Received
    <3>4. staged = g => pc' = there
      BY <1>g, <3>1 DEF Consume, Go
    <3>5. staged = None /\ Taken(g) = "group" => pc' = there /\ worker = "up"
      BY <1>a, <3>1, Answered DEF IInv, Consume, Go
    <3> QED BY <3>1, <3>2, <3>3, <3>4, <3>5
  <2> QED BY <2>1, <2>2 DEF IInv, TypeOK
<1>1. CASE SubmitQkv
  <2>1. /\ worker' = worker /\ (results = <<>> => results' = <<>>)
        /\ pc = "submitQkv" /\ pc' \in {"prefetchGateUp", "failed"}
        /\ pending' => pc' = "prefetchGateUp" /\ (staged = Qkv \/ worker = "up")
    BY <1>1, <1>a, <1>g DEF SubmitQkv
  <2> QED BY <1>g, <2>1 DEF Alive
<1>2. CASE SubmitGateUp
  <2>1. /\ worker' = worker /\ (results = <<>> => results' = <<>>)
        /\ pc = "submitGateUp" /\ pc' \in {"gateUp", "failed"}
        /\ pending' => pc' = "gateUp" /\ (staged = GateUp \/ worker = "up")
    BY <1>2, <1>a, <1>g DEF SubmitGateUp
  <2>2. staged = None
    BY <2>1 DEF IInv, Position
  <2> QED BY <1>g, <2>1, <2>2 DEF Alive
<1> QED BY <1>1, <1>2

(* Every other step of the model thread waits for the command, or changes  *)
(* nothing about it.                                                       *)
LEMMA AliveOthers ==
  IInv /\ Alive /\ (StartForward \/ FinishQkv \/ Attend \/ GateUpSubmitted \/ FinishGateUp
                    \/ Down \/ Return \/ Join \/ Reset \/ Drop) => Alive'
<1> SUFFICES ASSUME IInv, Alive, StartForward \/ FinishQkv \/ Attend \/ GateUpSubmitted
                    \/ FinishGateUp \/ Down \/ Return \/ Join \/ Reset \/ Drop
             PROVE  Alive'
  OBVIOUS
<1>1. CASE StartForward \/ Attend \/ Return \/ Reset
  <2>1. /\ worker' = worker /\ results' = results /\ ~pending'
        /\ pc \notin {"dropping", "dropped"} /\ pc' # "submitQkv"
    <3>1. CASE StartForward
      BY <3>1 DEF StartForward, Go, channels
    <3>2. CASE Attend
      BY <3>2 DEF Alive, Attend, Compute, Go, Fail, channels
    <3>3. CASE Return
      BY <3>3 DEF Alive, Return, channels
    <3>4. CASE Reset
      BY <3>4 DEF Alive, Reset, channels
    <3> QED BY <1>1, <3>1, <3>2, <3>3, <3>4
  <2> QED BY <2>1 DEF Alive
<1>2. CASE FinishQkv \/ FinishGateUp
  <2>1. /\ worker' = worker /\ (results = <<>> => results' = <<>>) /\ ~pending'
        /\ pc \notin {"dropping", "dropped"} /\ pc' # "submitQkv"
    BY <1>2 DEF FinishQkv, FinishGateUp, Finish, Compute, Consume, Received, Go, Fail, channels
  <2> QED BY <2>1 DEF Alive
<1>3. CASE GateUpSubmitted
  BY <1>3 DEF Alive, GateUpSubmitted, Go, channels
<1>4. CASE Down
  <2>1. /\ worker' = worker /\ results' = results /\ ~pending'
        /\ pc \notin {"dropping", "dropped"} /\ pc' # "submitQkv"
    BY <1>4 DEF Down, Compute, Go, Fail, channels
  <2> QED BY <2>1 DEF Alive
<1>5. CASE Drop \/ Join
  <2>1. pc' \in {"dropping", "dropped"} /\ ~pending'
    BY <1>5 DEF Alive, Drop, Join, Go
  <2> QED BY <2>1 DEF Alive
<1> QED BY <1>1, <1>2, <1>3, <1>4, <1>5

(* No submitted command is dropped before it was waited for: the bytes it  *)
(* reads go with it, and nothing in PendingMatvec waits.                   *)
THEOREM CommandsAwaited == Spec => []NothingAbandoned
<1>1. Init => Alive
  BY DEF Init, Alive
<1>2. IInv /\ Alive /\ [Next]_vars => Alive'
  <2>1. IInv /\ Alive /\ UNCHANGED vars => Alive'
    BY DEF Alive, vars, channels
  <2> QED BY <2>1, AliveWorker, AlivePrefetch, AliveAwait, AliveSubmit, AliveOthers
             DEF Next, Loop, Dropped
<1>3. Alive => NothingAbandoned
  BY DEF Alive, NothingAbandoned
<1> QED BY <1>1, <1>2, <1>3, StagerInvariant, PTL DEF Spec

-----------------------------------------------------------------------------
(* Tools for the codecs: least elements, flattened sequences, division.    *)
(* A set of natural numbers that is not empty has a least element: the     *)
(* form of induction used here.                                            *)
LEMMA LeastElement ==
  ASSUME NEW T \in SUBSET Nat, T # {}
  PROVE  \E m \in T : \A n \in T : m <= n
<1>1. PICK m \in T : \A n \in T : <<n, m>> \notin OpToRel(<, Nat)
  BY WFMin, NatLessThanWellFounded, Zenon
<1>2. \A n \in T : ~(n < m)
  BY <1>1, Zenon DEF OpToRel
<1> QED BY <1>2

(* A flattened sequence, by its recursion.                                 *)
Flat(f, seqs, n) ==
  f = [i \in 1..n |-> IF i = 1 THEN seqs[i] ELSE f[i - 1] \o seqs[i]]

LEMMA FlatExists ==
  ASSUME NEW seqs, NEW n \in Nat
  PROVE  \E f : Flat(f, seqs, n)
<1> DEFINE T == {k \in Nat : ~ \E f : Flat(f, seqs, k)}
<1>1. SUFFICES ASSUME T # {} PROVE FALSE
  OBVIOUS
<1>2. PICK m \in T : \A k \in T : m <= k
  BY <1>1, LeastElement
<1>3. m # 0
  <2>1. Flat([k \in 1..0 |-> 0], seqs, 0)
    BY DEF Flat
  <2> QED BY <2>1
<1>4. PICK f : Flat(f, seqs, m - 1)
  BY <1>2, <1>3
<1> DEFINE g == [k \in 1..m |-> IF k <= m - 1 THEN f[k]
                                ELSE IF k = 1 THEN seqs[k] ELSE f[m - 1] \o seqs[m]]
<1>5. ASSUME NEW k \in 1..m
      PROVE  g[k] = IF k = 1 THEN seqs[k] ELSE g[k - 1] \o seqs[k]
  <2>2. CASE k <= m - 1
    <3>1. g[k] = f[k] /\ (k # 1 => g[k - 1] = f[k - 1])
      BY <2>2
    <3>2. k \in 1..(m - 1)
      BY <2>2
    <3>3. f[k] = IF k = 1 THEN seqs[k] ELSE f[k - 1] \o seqs[k]
      BY <1>4, <3>2, Zenon DEF Flat
    <3> QED BY <3>1, <3>3, Zenon
  <2>3. CASE k = m
    <3>1. k # 1 => g[k - 1] = f[m - 1]
      BY <1>3, <2>3
    <3> QED BY <1>3, <2>3, <3>1
  <2> QED BY <2>2, <2>3
<1>6. g = [i \in 1..m |-> IF i = 1 THEN seqs[i] ELSE g[i - 1] \o seqs[i]]
  BY <1>5
<1>7. Flat(g, seqs, m)
  BY <1>6 DEF Flat
<1> QED BY <1>2, <1>7

LEMMA ConcatIs ==
  ASSUME NEW S, NEW a \in Seq(S), NEW b \in Seq(S)
  PROVE  /\ a \o b \in Seq(S)
         /\ Len(a \o b) = Len(a) + Len(b)
         /\ \A i \in 1..Len(a) : (a \o b)[i] = a[i]
         /\ \A i \in 1..Len(b) : (a \o b)[Len(a) + i] = b[i]
OBVIOUS

LEMMA FlattenIs ==
  ASSUME NEW n \in Nat \ {0}, NEW seqs, Len(seqs) = n
  PROVE  \E f : FlattenSeq(seqs) = f[n] /\ Flat(f, seqs, n)
<1> DEFINE f == CHOOSE f : Flat(f, seqs, n)
<1>1. Flat(f, seqs, n)
  BY FlatExists
<1>2. FlattenSeq(seqs) = f[n]
  BY DEF FlattenSeq, Flat
<1> HIDE DEF f
<1> QED BY <1>1, <1>2

LEMMA Division ==
  ASSUME NEW a \in Nat, NEW n \in Nat \ {0}
  PROVE  /\ a % n \in 0..(n - 1) /\ a \div n \in Nat
         /\ a = n * (a \div n) + (a % n)
OBVIOUS

(* The sum over a set, whatever the order in which it is taken.            *)
Summing(b, f, S) ==
  f = [s \in SUBSET S |-> IF s = {} THEN 0
                          ELSE b[CHOOSE x \in s : TRUE] + f[s \ {CHOOSE x \in s : TRUE}]]
Sum(b, S) == MapThenSumSet(LAMBDA t : b[t], S)

LEMMA SumIs ==
  ASSUME NEW b, NEW S, \E f : Summing(b, f, S)
  PROVE  \E f : Summing(b, f, S) /\ Sum(b, S) = f[S]
<1> DEFINE f == CHOOSE f : Summing(b, f, S)
<1>1. Summing(b, f, S)
  OBVIOUS
<1>2. Sum(b, S) = f[S]
  BY DEF Sum, MapThenSumSet, MapThenFoldSet, Summing
<1> QED BY <1>1, <1>2

LEMMA SumStep ==
  ASSUME NEW b, NEW f, NEW S, Summing(b, f, S), NEW s \in SUBSET S
  PROVE  /\ s = {} => f[s] = 0
         /\ s # {} => \E x \in s : x = (CHOOSE y \in s : TRUE) /\ f[s] = b[x] + f[s \ {x}]
<1>1. f[s] = IF s = {} THEN 0
             ELSE b[CHOOSE x \in s : TRUE] + f[s \ {CHOOSE x \in s : TRUE}]
  BY Zenon DEF Summing
<1> QED BY <1>1

(* Removing the chosen element of a finite set makes it smaller.           *)
LEMMA OneLess ==
  ASSUME NEW s, IsFiniteSet(s), NEW x \in s
  PROVE  /\ IsFiniteSet(s \ {x}) /\ Cardinality(s) \in Nat
         /\ Cardinality(s \ {x}) \in Nat /\ Cardinality(s \ {x}) < Cardinality(s)
<1>1. IsFiniteSet(s \ {x}) /\ Cardinality(s \ {x}) = Cardinality(s) - 1
  BY FS_RemoveElement
<1>2. Cardinality(s) \in Nat /\ Cardinality(s \ {x}) \in Nat
  BY <1>1, FS_CardinalityType
<1> QED BY <1>1, <1>2

LEMMA SameSum ==
  ASSUME NEW b, NEW f, NEW R, NEW g, NEW S, IsFiniteSet(R),
         Summing(b, f, R), Summing(b, g, S), NEW s \in SUBSET R, s \in SUBSET S
  PROVE  f[s] = g[s]
<1> DEFINE T == {n \in Nat : \E t \in SUBSET R : t \in SUBSET S /\ Cardinality(t) = n /\ f[t] # g[t]}
<1>1. SUFFICES ASSUME T # {} PROVE FALSE
  <2>1. IsFiniteSet(s)
    BY FS_Subset
  <2>2. Cardinality(s) \in Nat
    BY <2>1, FS_CardinalityType
  <2> QED BY <1>1, <2>2
<1>2. PICK n \in T : \A m \in T : n <= m
  <2>1. T \in SUBSET Nat /\ T # {}
    BY <1>1
  <2> HIDE DEF T
  <2> QED BY <2>1, LeastElement
<1>3. PICK t \in SUBSET R : t \in SUBSET S /\ Cardinality(t) = n /\ f[t] # g[t]
  BY <1>2
<1>4. t # {}
  <2>1. {} \in SUBSET R /\ {} \in SUBSET S
    OBVIOUS
  <2>2. f[{}] = 0
    BY <2>1, SumStep
  <2>3. g[{}] = 0
    BY <2>1, SumStep
  <2> QED BY <1>3, <2>2, <2>3
<1>5. PICK x \in t : x = (CHOOSE y \in t : TRUE) /\ f[t] = b[x] + f[t \ {x}]
  BY <1>3, <1>4, SumStep
<1>6. PICK z \in t : z = (CHOOSE y \in t : TRUE) /\ g[t] = b[z] + g[t \ {z}]
  BY <1>3, <1>4, SumStep
<1>7. IsFiniteSet(t)
  BY FS_Subset
<1>8. /\ Cardinality(t \ {x}) \in Nat /\ Cardinality(t \ {x}) < Cardinality(t)
  BY <1>7, OneLess
<1>9. Cardinality(t \ {x}) \notin T
  <2>1. n \in Nat
    BY <1>2
  <2> HIDE DEF T
  <2> QED BY <1>2, <1>3, <1>8, <2>1
<1>10. f[t \ {x}] = g[t \ {x}]
  <2>1. t \ {x} \in SUBSET R /\ t \ {x} \in SUBSET S
    BY <1>3
  <2> QED BY <1>8, <1>9, <2>1
<1> QED BY <1>3, <1>5, <1>6, <1>10

LEMMA SumExists ==
  ASSUME NEW b, NEW U, IsFiniteSet(U)
  PROVE  \E f : Summing(b, f, U)
<1> DEFINE T == {n \in Nat : \E t \in SUBSET U : Cardinality(t) = n /\ ~\E f : Summing(b, f, t)}
<1>1. SUFFICES ASSUME T # {} PROVE FALSE
  <2>1. Cardinality(U) \in Nat
    BY FS_CardinalityType
  <2> QED BY <1>1, <2>1
<1>2. PICK n \in T : \A m \in T : n <= m
  <2>1. T \in SUBSET Nat /\ T # {}
    BY <1>1
  <2> HIDE DEF T
  <2> QED BY <2>1, LeastElement
<1>3. PICK t \in SUBSET U : Cardinality(t) = n /\ ~\E f : Summing(b, f, t)
  BY <1>2
<1> DEFINE of(s) == CHOOSE f : Summing(b, f, s)
           next(s) == s \ {CHOOSE x \in s : TRUE}
           g == [s \in SUBSET t |-> IF s = {} THEN 0
                                    ELSE b[CHOOSE x \in s : TRUE] + of(next(s))[next(s)]]
<1>4. ASSUME NEW s \in SUBSET t, s # {}
      PROVE  /\ next(s) \in SUBSET t /\ IsFiniteSet(next(s))
             /\ Summing(b, of(next(s)), next(s))
  <2>1. PICK x \in s : x = CHOOSE y \in s : TRUE
    BY <1>4
  <2>2. next(s) = s \ {x} /\ s \in SUBSET U
    BY <2>1
  <2>3. IsFiniteSet(s) /\ IsFiniteSet(t)
    BY <2>2, FS_Subset
  <2>4. IsFiniteSet(s \ {x}) /\ Cardinality(s \ {x}) \in Nat
        /\ Cardinality(s \ {x}) < Cardinality(s) /\ Cardinality(s) \in Nat
    BY <2>3, OneLess
  <2>5. Cardinality(s) <= Cardinality(t) /\ Cardinality(t) \in Nat
    BY <2>3, FS_Subset, FS_CardinalityType
  <2>6. Cardinality(s \ {x}) \notin T
    <3>1. n \in Nat
      BY <1>2
    <3> HIDE DEF T
    <3> QED BY <1>2, <1>3, <2>4, <2>5, <3>1
  <2>7. s \ {x} \in SUBSET U
    BY <2>2
  <2>8. \E f : Summing(b, f, s \ {x})
    BY <2>4, <2>6, <2>7
  <2>9. Summing(b, of(s \ {x}), s \ {x})
    <3> DEFINE r == s \ {x}
    <3> HIDE DEF r
    <3>1. \E f : Summing(b, f, r)
      BY <2>8 DEF r
    <3> QED BY <3>1 DEF r
  <2> HIDE DEF of
  <2> QED BY <2>2, <2>4, <2>7, <2>9
<1> HIDE DEF of
<1>5. ASSUME NEW s \in SUBSET t, s # {}
      PROVE  g[next(s)] = of(next(s))[next(s)]
  <2> DEFINE r == next(s)
  <2>1. r \in SUBSET t /\ IsFiniteSet(r) /\ Summing(b, of(r), r)
    BY <1>4, <1>5
  <2>2. g[r] = IF r = {} THEN 0 ELSE b[CHOOSE x \in r : TRUE] + of(next(r))[next(r)]
    <3> HIDE DEF r
    <3> QED BY <2>1
  <2>3. CASE r = {}
    <3>1. of(r)[r] = 0
      <4> HIDE DEF r
      <4>1. r \in SUBSET r
        OBVIOUS
      <4> QED BY <2>1, <2>3, <4>1, SumStep
    <3> QED BY <2>2, <2>3, <3>1
  <2>4. CASE r # {}
    <3> HIDE DEF r, g
    <3>1. r \in SUBSET r
      OBVIOUS
    <3>2. PICK x \in r : x = (CHOOSE y \in r : TRUE) /\ of(r)[r] = b[x] + of(r)[r \ {x}]
      BY <2>1, <2>4, <3>1, SumStep
    <3>3. next(r) = r \ {x}
      BY <3>2
    <3>4. IsFiniteSet(next(r)) /\ Summing(b, of(next(r)), next(r))
      BY <1>4, <2>1, <2>4
    <3> DEFINE q == next(r)
    <3>5. IsFiniteSet(q) /\ Summing(b, of(q), q) /\ q \in SUBSET r /\ q \in SUBSET q
      BY <3>3, <3>4
    <3>6. g[r] = b[x] + of(q)[q] /\ of(r)[r] = b[x] + of(r)[q]
      BY <2>2, <2>4, <3>2, <3>3
    <3> HIDE DEF q
    <3>7. of(q)[q] = of(r)[q]
      BY <2>1, <3>5, SameSum
    <3>8. g[r] = of(r)[r]
      BY <3>6, <3>7
    <3> QED BY <3>8 DEF r
  <2> QED BY <2>3, <2>4
<1>6. g = [s \in SUBSET t |-> IF s = {} THEN 0
                              ELSE b[CHOOSE x \in s : TRUE] + g[s \ {CHOOSE x \in s : TRUE}]]
  <2> DEFINE h == [s \in SUBSET t |-> IF s = {} THEN 0
                              ELSE b[CHOOSE x \in s : TRUE] + g[next(s)]]
  <2>1. ASSUME NEW s \in SUBSET t
        PROVE  (IF s = {} THEN 0 ELSE b[CHOOSE x \in s : TRUE] + of(next(s))[next(s)]) =
               (IF s = {} THEN 0 ELSE b[CHOOSE x \in s : TRUE] + g[next(s)])
    <3> HIDE DEF g, next
    <3> QED BY <1>5
  <2>2. g = h
    BY <2>1, Zenon
  <2> QED BY <2>2
<1>7. Summing(b, g, t)
  BY <1>6, Zenon DEF Summing
<1> QED BY <1>3, <1>7

(* One element more, one element less.                                     *)
LEMMA SumOfNone ==
  ASSUME NEW b PROVE Sum(b, {}) = 0
<1>1. IsFiniteSet({})
  BY FS_EmptySet
<1>2. PICK f : Summing(b, f, {}) /\ Sum(b, {}) = f[{}]
  BY <1>1, SumExists, SumIs
<1>3. {} \in SUBSET {}
  OBVIOUS
<1> QED BY <1>2, <1>3, SumStep

LEMMA SumSome ==
  ASSUME NEW b, NEW s, IsFiniteSet(s), s # {}
  PROVE  \E x \in s : Sum(b, s) = b[x] + Sum(b, s \ {x})
<1>1. PICK f : Summing(b, f, s) /\ Sum(b, s) = f[s]
  BY SumExists, SumIs
<1>2. s \in SUBSET s
  OBVIOUS
<1>3. PICK x \in s : x = (CHOOSE y \in s : TRUE) /\ f[s] = b[x] + f[s \ {x}]
  BY <1>1, <1>2, SumStep
<1> DEFINE r == s \ {x}
<1>4. IsFiniteSet(r)
  BY OneLess
<1> HIDE DEF r
<1>5. PICK g : Summing(b, g, r) /\ Sum(b, r) = g[r]
  BY <1>4, SumExists, SumIs
<1>6. r \in SUBSET s /\ r \in SUBSET r
  BY DEF r
<1>7. f[r] = g[r]
  BY <1>1, <1>5, <1>6, SameSum
<1> QED BY <1>1, <1>3, <1>5, <1>7 DEF r

LEMMA SumWithout ==
  ASSUME NEW U, IsFiniteSet(U), NEW b, \A x \in U : b[x] \in Nat, NEW s \in SUBSET U
  PROVE  /\ Sum(b, s) \in Nat
         /\ \A x \in s : Sum(b, s) = b[x] + Sum(b, s \ {x})
<1> DEFINE Good(t) == /\ Sum(b, t) \in Nat
                      /\ \A x \in t : Sum(b, t) = b[x] + Sum(b, t \ {x})
           T == {n \in Nat : \E t \in SUBSET U : Cardinality(t) = n /\ ~Good(t)}
<1>1. SUFFICES ASSUME T # {} PROVE FALSE
  <2>1. IsFiniteSet(s)
    BY FS_Subset
  <2>2. Cardinality(s) \in Nat
    BY <2>1, FS_CardinalityType
  <2>3. Good(s)
    <3> HIDE DEF Good
    <3> QED BY <1>1, <2>2
  <2> QED BY <2>3
<1>2. PICK n \in T : \A m \in T : n <= m
  <2>1. T \in SUBSET Nat /\ T # {}
    BY <1>1
  <2> HIDE DEF T
  <2> QED BY <2>1, LeastElement
<1>3. PICK t \in SUBSET U : Cardinality(t) = n /\ ~Good(t)
  <2> HIDE DEF Good
  <2> QED BY <1>2
<1>4. IsFiniteSet(t)
  BY FS_Subset
<1>5. ASSUME NEW x \in t
      PROVE  Good(t \ {x})
  <2>1. /\ Cardinality(t \ {x}) \in Nat /\ Cardinality(t \ {x}) < Cardinality(t)
    BY <1>4, OneLess
  <2>2. Cardinality(t \ {x}) \notin T
    <3>1. n \in Nat
      BY <1>2
    <3> HIDE DEF T
    <3> QED BY <1>2, <1>3, <2>1, <3>1
  <2>3. t \ {x} \in SUBSET U
    OBVIOUS
  <2> HIDE DEF Good
  <2> QED BY <2>1, <2>2, <2>3
<1>6. CASE t = {}
  <2>1. Sum(b, t) = 0
    BY <1>6, SumOfNone
  <2> QED BY <1>3, <1>6, <2>1
<1>7. CASE t # {}
  <2>1. PICK y \in t : Sum(b, t) = b[y] + Sum(b, t \ {y})
    BY <1>4, <1>7, SumSome
  <2>2. b[y] \in Nat /\ Sum(b, t \ {y}) \in Nat
    BY <1>5
  <2>3. ASSUME NEW x \in t, x # y PROVE Sum(b, t) = b[x] + Sum(b, t \ {x})
    <3> DEFINE r == (t \ {y}) \ {x}
    <3>1. r = (t \ {x}) \ {y} /\ x \in t \ {y} /\ y \in t \ {x}
      BY <2>3
    <3>2. Sum(b, t \ {y}) = b[x] + Sum(b, r)
      BY <1>5, <3>1
    <3>3. Sum(b, t \ {x}) = b[y] + Sum(b, (t \ {x}) \ {y})
      BY <1>5, <3>1
    <3>4. b[x] \in Nat /\ b[y] \in Nat /\ Sum(b, r) \in Nat
      <4>1. r \in SUBSET U
        OBVIOUS
      <4>2. Good(t \ {x}) /\ y \in t \ {x}
        BY <1>5, <3>1
      <4>3. Good(t \ {y})
        BY <1>5
      <4>4. IsFiniteSet(t \ {y})
        BY <1>4, OneLess
      <4>5. Sum(b, r) \in Nat
        <5>1. /\ IsFiniteSet(r) /\ Cardinality(r) \in Nat
              /\ Cardinality(r) < Cardinality(t \ {y})
          BY <4>4, <3>1, OneLess
        <5>2. Cardinality(t \ {y}) < Cardinality(t) /\ Cardinality(t) \in Nat
              /\ Cardinality(t \ {y}) \in Nat
          BY <1>4, OneLess
        <5>3. Cardinality(r) \notin T
          <6>1. n \in Nat
            BY <1>2
          <6> HIDE DEF T, r
          <6> QED BY <1>2, <1>3, <5>1, <5>2, <6>1
        <5>4. Good(r)
          <6> HIDE DEF Good, r
          <6> QED BY <4>1, <5>1, <5>3 DEF r
        <5> QED BY <5>4
      <4> QED BY <4>5
    <3> DEFINE p == Sum(b, t \ {y})
               q == Sum(b, t \ {x})
               z == Sum(b, r)
    <3>5. p = b[x] + z /\ q = b[y] + z /\ z \in Nat /\ Sum(b, t) = b[y] + p
      BY <2>1, <3>1, <3>2, <3>3, <3>4
    <3> HIDE DEF p, q, z
    <3>6. Sum(b, t) = b[x] + q
      BY <3>4, <3>5
    <3> QED BY <3>6 DEF q
  <2>4. Sum(b, t) \in Nat
    BY <2>1, <2>2
  <2>5. ASSUME NEW x \in t PROVE Sum(b, t) = b[x] + Sum(b, t \ {x})
    <3>1. CASE x = y
      BY <2>1, <3>1
    <3>2. CASE x # y
      BY <2>3, <3>2
    <3> QED BY <3>1, <3>2
  <2>6. Good(t)
    BY <2>4, <2>5, Zenon
  <2> QED BY <1>3, <2>6
<1> QED BY <1>6, <1>7

(* A part is no larger than the whole.                                     *)

-----------------------------------------------------------------------------
(* Powers of two, and the bits of a number.                                *)
Doubling(f) == f = [k \in 0..24 |-> IF k = 0 THEN 1 ELSE 2 * f[k - 1]]

LEMMA TwoToDoubles ==
  /\ TwoTo[0] = 1
  /\ \A k \in 1..24 : TwoTo[k] = 2 * TwoTo[k - 1]
<1> DEFINE power(k) ==
                   CASE k = 0 -> 1
                   [] k = 1 -> 2
                   [] k = 2 -> 4
                   [] k = 3 -> 8
                   [] k = 4 -> 16
                   [] k = 5 -> 32
                   [] k = 6 -> 64
                   [] k = 7 -> 128
                   [] k = 8 -> 256
                   [] k = 9 -> 512
                   [] k = 10 -> 1024
                   [] k = 11 -> 2048
                   [] k = 12 -> 4096
                   [] k = 13 -> 8192
                   [] k = 14 -> 16384
                   [] k = 15 -> 32768
                   [] k = 16 -> 65536
                   [] k = 17 -> 131072
                   [] k = 18 -> 262144
                   [] k = 19 -> 524288
                   [] k = 20 -> 1048576
                   [] k = 21 -> 2097152
                   [] k = 22 -> 4194304
                   [] k = 23 -> 8388608
                   [] k = 24 -> 16777216
           g == [k \in 0..24 |-> power(k)]
           h == [k \in 0..24 |-> IF k = 0 THEN 1 ELSE 2 * g[k - 1]]
<1>1. ASSUME NEW k \in 0..24
      PROVE  power(k) = IF k = 0 THEN 1 ELSE 2 * power(k - 1)
  BY SMTT(60)
<1> HIDE DEF power
<1>2. ASSUME NEW k \in 1..24
      PROVE  g[k - 1] = power(k - 1)
  BY <1>2
<1>3. ASSUME NEW k \in 0..24
      PROVE  power(k) = IF k = 0 THEN 1 ELSE 2 * g[k - 1]
  BY <1>1, <1>2
<1>4. g = h
  BY <1>3, Zenon
<1>5. Doubling(g)
  BY <1>4 DEF Doubling
<1> HIDE DEF g
<1>6. Doubling(TwoTo)
  <2>1. TwoTo = CHOOSE f : Doubling(f)
    BY DEF TwoTo, Doubling
  <2> QED BY <1>5, <2>1
<1>7. \A k \in 0..24 : TwoTo[k] = IF k = 0 THEN 1 ELSE 2 * TwoTo[k - 1]
  BY <1>6, Zenon DEF Doubling
<1> QED BY <1>7

LEMMA TwoToIs ==
  /\ TwoTo[0] = 1
  /\ TwoTo[1] = 2
  /\ TwoTo[2] = 4
  /\ TwoTo[3] = 8
  /\ TwoTo[4] = 16
  /\ TwoTo[5] = 32
  /\ TwoTo[6] = 64
  /\ TwoTo[7] = 128
  /\ TwoTo[8] = 256
  /\ TwoTo[9] = 512
  /\ TwoTo[10] = 1024
  /\ TwoTo[11] = 2048
  /\ TwoTo[12] = 4096
  /\ TwoTo[13] = 8192
  /\ TwoTo[14] = 16384
  /\ TwoTo[15] = 32768
  /\ TwoTo[16] = 65536
  /\ TwoTo[17] = 131072
  /\ TwoTo[18] = 262144
  /\ TwoTo[19] = 524288
  /\ TwoTo[20] = 1048576
  /\ TwoTo[21] = 2097152
  /\ TwoTo[22] = 4194304
  /\ TwoTo[23] = 8388608
  /\ TwoTo[24] = 16777216
<1>1. TwoTo[1] = 2 * TwoTo[0]
  BY TwoToDoubles
<1>2. TwoTo[2] = 2 * TwoTo[1]
  BY TwoToDoubles
<1>3. TwoTo[3] = 2 * TwoTo[2]
  BY TwoToDoubles
<1>4. TwoTo[4] = 2 * TwoTo[3]
  BY TwoToDoubles
<1>5. TwoTo[5] = 2 * TwoTo[4]
  BY TwoToDoubles
<1>6. TwoTo[6] = 2 * TwoTo[5]
  BY TwoToDoubles
<1>7. TwoTo[7] = 2 * TwoTo[6]
  BY TwoToDoubles
<1>8. TwoTo[8] = 2 * TwoTo[7]
  BY TwoToDoubles
<1>9. TwoTo[9] = 2 * TwoTo[8]
  BY TwoToDoubles
<1>10. TwoTo[10] = 2 * TwoTo[9]
  BY TwoToDoubles
<1>11. TwoTo[11] = 2 * TwoTo[10]
  BY TwoToDoubles
<1>12. TwoTo[12] = 2 * TwoTo[11]
  BY TwoToDoubles
<1>13. TwoTo[13] = 2 * TwoTo[12]
  BY TwoToDoubles
<1>14. TwoTo[14] = 2 * TwoTo[13]
  BY TwoToDoubles
<1>15. TwoTo[15] = 2 * TwoTo[14]
  BY TwoToDoubles
<1>16. TwoTo[16] = 2 * TwoTo[15]
  BY TwoToDoubles
<1>17. TwoTo[17] = 2 * TwoTo[16]
  BY TwoToDoubles
<1>18. TwoTo[18] = 2 * TwoTo[17]
  BY TwoToDoubles
<1>19. TwoTo[19] = 2 * TwoTo[18]
  BY TwoToDoubles
<1>20. TwoTo[20] = 2 * TwoTo[19]
  BY TwoToDoubles
<1>21. TwoTo[21] = 2 * TwoTo[20]
  BY TwoToDoubles
<1>22. TwoTo[22] = 2 * TwoTo[21]
  BY TwoToDoubles
<1>23. TwoTo[23] = 2 * TwoTo[22]
  BY TwoToDoubles
<1>24. TwoTo[24] = 2 * TwoTo[23]
  BY TwoToDoubles
<1>0. TwoTo[0] = 1
  BY TwoToDoubles
<1> QED BY <1>0, <1>1, <1>2, <1>3, <1>4, <1>5, <1>6, <1>7, <1>8, <1>9, <1>10, <1>11, <1>12, <1>13, <1>14, <1>15, <1>16, <1>17, <1>18, <1>19, <1>20, <1>21, <1>22, <1>23, <1>24

LEMMA TwoToNat ==
  \A k \in 0..24 : TwoTo[k] \in Nat \ {0}
<1> SUFFICES ASSUME NEW k \in 0..24 PROVE TwoTo[k] \in Nat \ {0}
  OBVIOUS
<1> QED BY TwoToIs

LEMMA TwoToSum ==
  ASSUME NEW a \in 0..24, NEW b \in 0..24, a + b <= 24
  PROVE  TwoTo[a + b] = TwoTo[a] * TwoTo[b]
<1> DEFINE T == {n \in Nat : n + a <= 24 /\ TwoTo[a + n] # TwoTo[a] * TwoTo[n]}
<1>1. SUFFICES ASSUME T # {} PROVE FALSE
  BY <1>1
<1>2. PICK n \in T : \A m \in T : n <= m
  <2>1. T \in SUBSET Nat /\ T # {}
    BY <1>1
  <2> HIDE DEF T
  <2> QED BY <2>1, LeastElement
<1>3. n \in Nat /\ n + a <= 24 /\ TwoTo[a + n] # TwoTo[a] * TwoTo[n]
  BY <1>2
<1>4. n # 0
  <2>1. n = 0 => a + n = a
    OBVIOUS
  <2>2. TwoTo[0] = 1 /\ TwoTo[a] \in Nat
    BY TwoToDoubles, TwoToNat
  <2> QED BY <1>3, <2>1, <2>2
<1>5. n - 1 \in Nat /\ n - 1 \notin T
  <2> HIDE DEF T
  <2> QED BY <1>2, <1>3, <1>4
<1>6. TwoTo[a + (n - 1)] = TwoTo[a] * TwoTo[n - 1]
  BY <1>3, <1>5
<1>7. TwoTo[n] = 2 * TwoTo[n - 1] /\ TwoTo[a + n] = 2 * TwoTo[a + (n - 1)]
  <2>1. n \in 1..24 /\ a + n \in 1..24 /\ (a + n) - 1 = a + (n - 1)
    BY <1>3, <1>4
  <2>2. TwoTo[n] = 2 * TwoTo[n - 1] /\ TwoTo[a + n] = 2 * TwoTo[(a + n) - 1]
    BY <2>1, TwoToDoubles
  <2> QED BY <2>1, <2>2
<1> DEFINE p == TwoTo[a]
           q == TwoTo[n - 1]
<1>8. p \in Nat /\ q \in Nat
  BY <1>3, <1>4, TwoToNat
<1>9. TwoTo[a + n] = 2 * (p * q) /\ p * TwoTo[n] = p * (2 * q)
  BY <1>6, <1>7
<1> HIDE DEF p, q
<1>10. 2 * (p * q) = p * (2 * q)
  BY <1>8
<1> QED BY <1>3, <1>9, <1>10 DEF p

(* A number is its quotient and its remainder, and no other.               *)
LEMMA Quotient ==
  ASSUME NEW n \in Nat \ {0}, NEW q \in Nat, NEW r \in 0..(n - 1)
  PROVE  (n * q + r) \div n = q /\ (n * q + r) % n = r
<1> DEFINE a == n * q + r
           p == a \div n
           u == a % n
<1>1. a \in Nat
  OBVIOUS
<1>2. u \in 0..(n - 1) /\ p \in Nat /\ a = n * p + u
  BY <1>1, Division
<1>3. n * q + r = n * p + u
  BY <1>2
<1> HIDE DEF p, u, a
<1>4. ASSUME p < q PROVE FALSE
  <2>1. n * (p + 1) <= n * q
    <3>1. PICK d \in Nat : q = (p + 1) + d
      <4>1. q - (p + 1) \in Nat /\ q = (p + 1) + (q - (p + 1))
        BY <1>2, <1>4
      <4> QED BY <4>1
    <3>2. n * q = n * (p + 1) + n * d /\ n * d \in Nat
      BY <1>2, <3>1
    <3> QED BY <1>2, <3>2
  <2>2. n * (p + 1) = n * p + n
    BY <1>2
  <2> QED BY <1>2, <1>3, <2>1, <2>2
<1>5. ASSUME q < p PROVE FALSE
  <2>1. n * (q + 1) <= n * p
    <3>1. PICK d \in Nat : p = (q + 1) + d
      <4>1. p - (q + 1) \in Nat /\ p = (q + 1) + (p - (q + 1))
        BY <1>2, <1>5
      <4> QED BY <4>1
    <3>2. n * p = n * (q + 1) + n * d /\ n * d \in Nat
      BY <1>2, <3>1
    <3> QED BY <3>2
  <2>2. n * (q + 1) = n * q + n
    OBVIOUS
  <2> QED BY <1>2, <1>3, <2>1, <2>2
<1>6. p = q
  BY <1>2, <1>4, <1>5
<1>7. u = r
  BY <1>2, <1>3, <1>6
<1> QED BY <1>6, <1>7 DEF p, u, a

LEMMA DivDiv ==
  ASSUME NEW x \in Nat, NEW p \in Nat \ {0}, NEW q \in Nat \ {0}
  PROVE  (x \div p) \div q = x \div (p * q)
<1> DEFINE a == x \div p
           r == x % p
           b == a \div q
           s == a % q
<1>1. a \in Nat /\ r \in 0..(p - 1) /\ x = p * a + r
  BY Division
<1>2. b \in Nat /\ s \in 0..(q - 1) /\ a = q * b + s
  BY <1>1, Division
<1> HIDE DEF a, r, b, s
<1> DEFINE u == p * s + r
           n == p * q
<1>3. u \in 0..(n - 1)
  <2>1. PICK d \in Nat : q = (s + 1) + d
    <3>1. q - (s + 1) \in Nat /\ q = (s + 1) + (q - (s + 1))
      BY <1>2
    <3> QED BY <3>1
  <2>2. n = p * s + p + p * d /\ p * d \in Nat /\ p * s \in Nat
    BY <1>2, <2>1
  <2> QED BY <1>1, <2>2
<1>4. x = n * b + u
  <2>1. p * a = p * (q * b) + p * s
    BY <1>1, <1>2
  <2>2. p * (q * b) = (p * q) * b
    BY <1>2
  <2> QED BY <1>1, <1>2, <2>1, <2>2
<1>5. n \in Nat \ {0}
  OBVIOUS
<1> HIDE DEF n, u
<1>6. x \div n = b
  BY <1>2, <1>3, <1>4, <1>5, Quotient
<1> QED BY <1>6 DEF n, b, a

LEMMA TwoToGrows ==
  ASSUME NEW a \in 0..24, NEW b \in 0..24, a <= b
  PROVE  TwoTo[a] <= TwoTo[b]
<1> DEFINE d == b - a
           p == TwoTo[a]
           q == TwoTo[d]
<1>1. d \in 0..24 /\ a + d = b
  OBVIOUS
<1>2. p \in Nat \ {0} /\ q \in Nat \ {0}
  BY <1>1, TwoToNat
<1>3. TwoTo[a + d] = p * q
  BY <1>1, TwoToSum
<1> HIDE DEF p, q
<1>4. p <= p * q
  <2>1. PICK e \in Nat : q = e + 1
    <3>1. q - 1 \in Nat /\ q = (q - 1) + 1
      BY <1>2
    <3> QED BY <3>1
  <2>2. p * q = p * e + p /\ p * e \in Nat
    BY <1>2, <2>1
  <2> QED BY <1>2, <2>2
<1> QED BY <1>1, <1>3, <1>4 DEF p

LEMMA BitIs ==
  ASSUME NEW x \in Nat, NEW b \in 0..24
  PROVE  Bit(x, b) \in {0, 1}
<1>1. TwoTo[b] \in Nat \ {0}
  BY TwoToNat
<1>2. x \div TwoTo[b] \in Nat
  BY <1>1, Division
<1> QED BY <1>2 DEF Bit

LEMMA BitShifted ==
  ASSUME NEW x \in Nat, NEW a \in 0..24, NEW b \in 0..24, a + b <= 24
  PROVE  Bit(x \div TwoTo[a], b) = Bit(x, a + b)
<1> DEFINE p == TwoTo[a]
           q == TwoTo[b]
<1>1. p \in Nat \ {0} /\ q \in Nat \ {0} /\ TwoTo[a + b] = p * q
  BY TwoToNat, TwoToSum
<1>2. Bit(x \div p, b) = ((x \div p) \div q) % 2
  BY DEF Bit
<1>3. Bit(x, a + b) = (x \div TwoTo[a + b]) % 2
  BY DEF Bit
<1> HIDE DEF p, q
<1>4. (x \div p) \div q = x \div (p * q)
  BY <1>1, DivDiv
<1> QED BY <1>1, <1>2, <1>3, <1>4 DEF p

LEMMA BitLow ==
  ASSUME NEW x \in Nat, NEW n \in 0..24, NEW b \in 0..(n - 1)
  PROVE  Bit(x % TwoTo[n], b) = Bit(x, b)
<1> DEFINE d == (n - b) - 1
           p == TwoTo[b]
           e == TwoTo[d]
           h == TwoTo[n]
           q == x \div h
           r == x % h
           a == r \div p
           s == r % p
<1>1. d \in 0..24 /\ b \in 0..24 /\ d + 1 \in 1..24 /\ b + (d + 1) = n /\ (d + 1) - 1 = d
  OBVIOUS
<1>2. p \in Nat \ {0} /\ e \in Nat \ {0} /\ h \in Nat \ {0}
  BY <1>1, TwoToNat
<1>3. h = p * (2 * e)
  <2>1. TwoTo[d + 1] = 2 * TwoTo[(d + 1) - 1]
    BY <1>1, TwoToDoubles
  <2>2. TwoTo[d + 1] = 2 * e
    BY <1>1, <2>1
  <2>3. TwoTo[b + (d + 1)] = p * TwoTo[d + 1]
    BY <1>1, TwoToSum
  <2> QED BY <1>1, <2>2, <2>3
<1>4. q \in Nat /\ r \in 0..(h - 1) /\ x = h * q + r
  BY <1>2, Division
<1>5. Bit(x, b) = (x \div p) % 2 /\ Bit(r, b) = a % 2
  BY DEF Bit
<1> HIDE DEF p, e, h, q, r
<1>6. a \in Nat /\ s \in 0..(p - 1) /\ r = p * a + s
  <2>1. r \in Nat
    BY <1>2, <1>4
  <2> QED BY <1>2, <2>1, Division
<1> HIDE DEF a, s
<1>7. x = p * (2 * (e * q) + a) + s
  <2>1. h * q = p * (2 * (e * q))
    BY <1>2, <1>3, <1>4
  <2>2. e * q \in Nat
    BY <1>2, <1>4
  <2>3. p * (2 * (e * q) + a) = p * (2 * (e * q)) + p * a
    BY <1>2, <1>6, <2>2
  <2>4. p * a \in Nat /\ p * (2 * (e * q)) \in Nat
    BY <1>2, <1>6, <2>2
  <2> QED BY <1>4, <1>6, <2>1, <2>3, <2>4
<1> DEFINE c == e * q
           k == 2 * c + a
<1>8. c \in Nat
  BY <1>2, <1>4
<1> HIDE DEF c
<1>9. k \in Nat /\ k % 2 = a % 2
  BY <1>6, <1>8
<1>10. x = p * k + s
  BY <1>7 DEF c
<1> HIDE DEF k
<1>11. x \div p = k
  BY <1>2, <1>6, <1>9, <1>10, Quotient
<1> QED BY <1>5, <1>9, <1>11 DEF r, h

LEMMA LowStep ==
  ASSUME NEW x \in Nat, NEW n \in 0..23
  PROVE  x % TwoTo[n + 1] = (x % TwoTo[n]) + Bit(x, n) * TwoTo[n]
<1> DEFINE p == TwoTo[n]
           h == TwoTo[n + 1]
           q == x \div p
           r == x % p
           a == q \div 2
           s == q % 2
<1>1. n + 1 \in 1..24 /\ (n + 1) - 1 = n
  OBVIOUS
<1>2. p \in Nat \ {0} /\ h \in Nat \ {0}
  BY <1>1, TwoToNat
<1>3. h = 2 * p
  <2>1. TwoTo[n + 1] = 2 * TwoTo[(n + 1) - 1]
    BY <1>1, TwoToDoubles
  <2> QED BY <1>1, <2>1
<1>4. q \in Nat /\ r \in 0..(p - 1) /\ x = p * q + r
  BY <1>2, Division
<1>5. Bit(x, n) = s
  BY DEF Bit
<1> HIDE DEF p, h, q, r
<1>6. a \in Nat /\ s \in {0, 1} /\ q = 2 * a + s
  BY <1>4
<1> HIDE DEF a, s
<1> DEFINE t == r + s * p
<1>7. t \in 0..(h - 1)
  BY <1>2, <1>3, <1>4, <1>6
<1>8. x = h * a + t
  <2>1. p * q = p * (2 * a) + p * s
    BY <1>2, <1>6
  <2>2. p * (2 * a) = h * a /\ p * s = s * p
    BY <1>2, <1>3, <1>6
  <2> QED BY <1>2, <1>4, <1>6, <2>1, <2>2
<1> HIDE DEF t
<1>9. x % h = t
  BY <1>2, <1>6, <1>7, <1>8, Quotient
<1> QED BY <1>5, <1>9 DEF t, p, h, r

LEMMA SameBits ==
  ASSUME NEW x \in Nat, NEW y \in Nat, NEW n \in 0..24,
         \A b \in 0..(n - 1) : Bit(x, b) = Bit(y, b)
  PROVE  x % TwoTo[n] = y % TwoTo[n]
<1> DEFINE T == {m \in Nat : m <= n /\ x % TwoTo[m] # y % TwoTo[m]}
<1>1. SUFFICES ASSUME T # {} PROVE FALSE
  BY <1>1
<1>2. PICK m \in T : \A k \in T : m <= k
  <2>1. T \in SUBSET Nat /\ T # {}
    BY <1>1
  <2> HIDE DEF T
  <2> QED BY <2>1, LeastElement
<1>3. m \in Nat /\ m <= n /\ x % TwoTo[m] # y % TwoTo[m]
  BY <1>2
<1>4. m # 0
  <2>1. TwoTo[0] = 1
    BY TwoToDoubles
  <2>2. x % 1 = y % 1
    OBVIOUS
  <2> QED BY <1>3, <2>1, <2>2
<1> DEFINE k == m - 1
<1>5. k \in 0..23 /\ k + 1 = m /\ k \in 0..(n - 1) /\ k \in Nat /\ k <= n
  BY <1>3, <1>4
<1>6. k \notin T
  <2>1. k < m
    BY <1>3
  <2> HIDE DEF T, k
  <2> QED BY <1>2, <1>3, <1>5, <2>1
<1>7. x % TwoTo[k] = y % TwoTo[k]
  BY <1>5, <1>6
<1> HIDE DEF T, k
<1>8. x % TwoTo[k + 1] = (x % TwoTo[k]) + Bit(x, k) * TwoTo[k]
  BY <1>5, LowStep
<1>9. y % TwoTo[k + 1] = (y % TwoTo[k]) + Bit(y, k) * TwoTo[k]
  BY <1>5, LowStep
<1>10. Bit(x, k) = Bit(y, k)
  BY <1>5
<1> QED BY <1>3, <1>5, <1>7, <1>8, <1>9, <1>10

LEMMA BitHigh ==
  ASSUME NEW n \in 0..24, NEW x \in 0..(TwoTo[n] - 1), NEW b \in n..24
  PROVE  Bit(x, b) = 0
<1> DEFINE p == TwoTo[b]
<1>1. p \in Nat \ {0} /\ TwoTo[n] \in Nat /\ TwoTo[n] <= p
  BY TwoToNat, TwoToGrows
<1>2. x \in Nat /\ x < p
  BY <1>1
<1>3. Bit(x, b) = (x \div p) % 2
  BY DEF Bit
<1> HIDE DEF p
<1>4. x \in 0..(p - 1) /\ x = p * 0 + x /\ 0 \in Nat
  BY <1>1, <1>2
<1>5. x \div p = 0
  BY <1>1, <1>4, Quotient
<1> QED BY <1>3, <1>5

-----------------------------------------------------------------------------
(* The number made of a set of bits.                                       *)
Weighted(bits) == [k \in 0..23 |-> IF k \in bits THEN TwoTo[k] ELSE 0]
NumberFold(bits, f) ==
  f = [s \in SUBSET (0..23) |->
         IF s = {} THEN 0
         ELSE (IF (CHOOSE x \in s : TRUE) \in bits THEN TwoTo[CHOOSE x \in s : TRUE] ELSE 0)
              + f[s \ {CHOOSE x \in s : TRUE}]]

LEMMA NumberFolds ==
  ASSUME NEW bits, \E f : NumberFold(bits, f)
  PROVE  \E f : NumberFold(bits, f) /\ Number(bits) = f[0..23]
<1> DEFINE f == CHOOSE f : NumberFold(bits, f)
<1>1. NumberFold(bits, f)
  OBVIOUS
<1>2. Number(bits) = f[0..23]
  BY DEF Number, MapThenSumSet, MapThenFoldSet, NumberFold
<1> QED BY <1>1, <1>2

LEMMA FoldsAlike ==
  ASSUME NEW bits, NEW f
  PROVE  NumberFold(bits, f) <=> Summing(Weighted(bits), f, 0..23)
<1> DEFINE b == Weighted(bits)
           first(s) == CHOOSE x \in s : TRUE
           u == [s \in SUBSET (0..23) |->
                   IF s = {} THEN 0
                   ELSE (IF first(s) \in bits THEN TwoTo[first(s)] ELSE 0) + f[s \ {first(s)}]]
           v == [s \in SUBSET (0..23) |->
                   IF s = {} THEN 0 ELSE b[first(s)] + f[s \ {first(s)}]]
<1>1. ASSUME NEW s \in SUBSET (0..23), s # {}
      PROVE  b[first(s)] = IF first(s) \in bits THEN TwoTo[first(s)] ELSE 0
  <2>1. first(s) \in 0..23
    BY <1>1
  <2> HIDE DEF first
  <2> QED BY <2>1 DEF Weighted
<1>2. u = v
  <2> HIDE DEF b, first
  <2>1. \A s \in SUBSET (0..23) :
          (IF s = {} THEN 0
           ELSE (IF first(s) \in bits THEN TwoTo[first(s)] ELSE 0) + f[s \ {first(s)}])
          = (IF s = {} THEN 0 ELSE b[first(s)] + f[s \ {first(s)}])
    BY <1>1
  <2> QED BY <2>1, Zenon
<1>3. NumberFold(bits, f) <=> f = u
  BY DEF NumberFold
<1>4. Summing(b, f, 0..23) <=> f = v
  BY DEF Summing
<1> HIDE DEF u, v
<1> QED BY <1>2, <1>3, <1>4

LEMMA FiniteRange ==
  ASSUME NEW n \in Int
  PROVE  IsFiniteSet(0..n)
<1>1. 0 \in Int
  OBVIOUS
<1> DEFINE z == 0
<1> HIDE DEF z
<1>2. z \in Int => IsFiniteSet(z..n)
  BY FS_Interval
<1> QED BY <1>1, <1>2 DEF z

LEMMA NumberIs ==
  ASSUME NEW bits
  PROVE  Number(bits) = Sum(Weighted(bits), 0..23)
<1> DEFINE S == 0..23
           b == Weighted(bits)
<1>1. IsFiniteSet(S)
  <2> DEFINE top == 23
  <2>1. top \in Int
    OBVIOUS
  <2> HIDE DEF top
  <2>2. IsFiniteSet(0..top)
    BY <2>1, FiniteRange
  <2> QED BY <2>2 DEF top
<1>2. PICK g : Summing(b, g, S)
  <2> HIDE DEF S, b
  <2> QED BY <1>1, SumExists
<1>3. PICK h : Summing(b, h, S) /\ Sum(b, S) = h[S]
  <2> HIDE DEF S, b
  <2> QED BY <1>2, SumIs
<1>4. PICK f : NumberFold(bits, f) /\ Number(bits) = f[S]
  <2>1. NumberFold(bits, g)
    BY <1>2, FoldsAlike
  <2> QED BY <2>1, NumberFolds
<1>5. Summing(b, f, S)
  BY <1>4, FoldsAlike
<1>6. S \in SUBSET S
  OBVIOUS
<1> HIDE DEF S, b
<1>7. f[S] = h[S]
  BY <1>1, <1>3, <1>5, <1>6, SameSum
<1> QED BY <1>3, <1>4, <1>7 DEF S, b

LEMMA SumBut ==
  ASSUME NEW s, IsFiniteSet(s), NEW w, \A x \in s : w[x] \in Nat, NEW y \in s
  PROVE  Sum(w, s) = w[y] + Sum(w, s \ {y})
<1>1. s \in SUBSET s
  OBVIOUS
<1> QED BY <1>1, SumWithout

LEMMA NumberBits ==
  ASSUME NEW bits
  PROVE  /\ Number(bits) \in 0..(TwoTo[24] - 1)
         /\ \A b \in 0..23 : Bit(Number(bits), b) = 1 <=> b \in bits
<1> DEFINE w == Weighted(bits)
           upTo(n) == Sum(w, 0..(n - 1))
           Good(n) == /\ upTo(n) \in 0..(TwoTo[n] - 1)
                      /\ \A b \in 0..(n - 1) : Bit(upTo(n), b) = 1 <=> b \in bits
           T == {n \in 0..24 : ~Good(n)}
<1>1. \A k \in 0..23 : w[k] \in Nat /\ w[k] = IF k \in bits THEN TwoTo[k] ELSE 0
  BY TwoToNat DEF Weighted
<1> HIDE DEF w
<1>2. upTo(0) = 0
  <2>1. 0..(0 - 1) = {}
    OBVIOUS
  <2> QED BY <2>1, SumOfNone
<1>3. ASSUME NEW n \in 0..23
      PROVE  upTo(n + 1) = upTo(n) + (IF n \in bits THEN TwoTo[n] ELSE 0)
  <2> DEFINE s == 0..n
             r == 0..(n - 1)
  <2>1. s = 0..((n + 1) - 1) /\ n \in s /\ s \ {n} = r /\ \A x \in s : w[x] \in Nat
    BY <1>1
  <2>2. IsFiniteSet(s)
    BY FiniteRange
  <2>3. s \in SUBSET s /\ r \in SUBSET s
    OBVIOUS
  <2> HIDE DEF s, r
  <2>4. Sum(w, r) \in Nat
    BY <2>1, <2>2, <2>3, SumWithout
  <2>5. Sum(w, s) = w[n] + Sum(w, s \ {n})
    BY <2>1, <2>2, SumBut
  <2>6. upTo(n + 1) = Sum(w, s) /\ upTo(n) = Sum(w, r)
    BY <2>1 DEF r
  <2> HIDE DEF upTo
  <2>7. upTo(n + 1) = w[n] + upTo(n) /\ upTo(n) \in Nat
    BY <2>1, <2>4, <2>5, <2>6, Zenon
  <2>8. w[n] \in Nat /\ w[n] = IF n \in bits THEN TwoTo[n] ELSE 0
    BY <1>1
  <2> DEFINE a == upTo(n)
             c == w[n]
  <2> HIDE DEF a, c
  <2>9. c + a = a + c
    BY <2>7, <2>8 DEF a, c
  <2> QED BY <2>7, <2>8, <2>9 DEF a, c
<1> HIDE DEF upTo
<1>4. Good(0)
  <2>1. TwoTo[0] = 1
    BY TwoToDoubles
  <2> QED BY <1>2, <2>1
<1>5. ASSUME NEW n \in 0..23, Good(n)
      PROVE  Good(n + 1)
  <2> DEFINE p == TwoTo[n]
             v == upTo(n)
             x == upTo(n + 1)
  <2>1. p \in Nat \ {0} /\ TwoTo[n + 1] = 2 * p
    <3>1. n + 1 \in 1..24 /\ (n + 1) - 1 = n /\ n \in 0..24
      OBVIOUS
    <3>2. TwoTo[n + 1] = 2 * TwoTo[(n + 1) - 1]
      BY <3>1, TwoToDoubles
    <3> QED BY <3>1, <3>2, TwoToNat
  <2>2. v \in 0..(p - 1) /\ \A b \in 0..(n - 1) : Bit(v, b) = 1 <=> b \in bits
    BY <1>5
  <2>3. x = v + (IF n \in bits THEN p ELSE 0)
    BY <1>3
  <2>4. Bit(x, n) = (x \div p) % 2
    BY DEF Bit
  <2> DEFINE q == IF n \in bits THEN 1 ELSE 0
  <2>5. q \in Nat /\ q \in {0, 1} /\ (q = 1 <=> n \in bits)
    OBVIOUS
  <2>6. x = p * q + v /\ x \in 0..(2 * p - 1) /\ x \in Nat
    <3> HIDE DEF p, v, x
    <3> QED BY <2>1, <2>2, <2>3
  <2>7. x \div p = q /\ x % p = v
    <3> HIDE DEF p, v, x, q
    <3> QED BY <2>1, <2>2, <2>5, <2>6, Quotient
  <2>8. Bit(x, n) = 1 <=> n \in bits
    <3> HIDE DEF x, p, q
    <3> QED BY <2>4, <2>5, <2>7
  <2>9. ASSUME NEW b \in 0..(n - 1)
        PROVE  Bit(x, b) = Bit(v, b)
    <3>1. n \in 0..24
      OBVIOUS
    <3> HIDE DEF x, v
    <3>2. Bit(x % TwoTo[n], b) = Bit(x, b)
      BY <2>6, <3>1, BitLow
    <3> QED BY <2>7, <3>2
  <2>10. \A b \in 0..((n + 1) - 1) : b = n \/ b \in 0..(n - 1)
    OBVIOUS
  <2>11. x \in 0..(TwoTo[n + 1] - 1)
    BY <2>1, <2>6
  <2>12. \A b \in 0..((n + 1) - 1) : Bit(x, b) = 1 <=> b \in bits
    <3> HIDE DEF x, v, p
    <3> QED BY <2>2, <2>8, <2>9, <2>10
  <2> QED BY <2>11, <2>12
<1> HIDE DEF Good
<1>6. T = {}
  <2>1. SUFFICES ASSUME T # {} PROVE FALSE
    OBVIOUS
  <2>2. PICK n \in T : \A m \in T : n <= m
    <3>1. T \in SUBSET Nat /\ T # {}
      BY <2>1
    <3> HIDE DEF T
    <3> QED BY <3>1, LeastElement
  <2>3. n \in 0..24 /\ ~Good(n)
    BY <2>2
  <2>4. n # 0
    BY <1>4, <2>3
  <2> DEFINE m == n - 1
  <2>5. m \in 0..23 /\ m + 1 = n /\ m \in 0..24 /\ m < n
    BY <2>3, <2>4
  <2>6. m \notin T
    <3> HIDE DEF T, m
    <3> QED BY <2>2, <2>3, <2>5
  <2> HIDE DEF m
  <2>7. Good(m)
    BY <2>5, <2>6
  <2>8. Good(m + 1)
    BY <1>5, <2>5, <2>7
  <2> QED BY <2>3, <2>5, <2>8
<1>7. Good(24)
  <2>1. 24 \in 0..24
    OBVIOUS
  <2> QED BY <1>6, <2>1
<1>8. Number(bits) = upTo(24)
  <2>1. 24 - 1 = 23
    OBVIOUS
  <2> QED BY <2>1, NumberIs DEF upTo, w
<1> QED BY <1>7, <1>8 DEF Good

(* A number below 2^24 is known by its bits.                               *)
LEMMA KnownByBits ==
  ASSUME NEW x \in 0..(TwoTo[24] - 1), NEW y \in 0..(TwoTo[24] - 1),
         \A b \in 0..23 : Bit(x, b) = 1 <=> Bit(y, b) = 1
  PROVE  x = y
<1> DEFINE n == 24
           h == TwoTo[n]
<1>1. h \in Nat \ {0} /\ n \in 0..24
  BY TwoToNat
<1>2. x \in Nat /\ y \in Nat
  BY <1>1
<1>3. ASSUME NEW b \in 0..(n - 1)
      PROVE  Bit(x, b) = Bit(y, b)
  <2>1. b \in 0..23 /\ b \in 0..24
    OBVIOUS
  <2>2. Bit(x, b) \in {0, 1} /\ Bit(y, b) \in {0, 1}
    BY <1>2, <2>1, BitIs
  <2> QED BY <2>1, <2>2
<1> HIDE DEF n, h
<1>4. x % TwoTo[n] = y % TwoTo[n]
  BY <1>1, <1>2, <1>3, SameBits
<1> DEFINE z == 0
<1>5. z \in Nat /\ x \in 0..(h - 1) /\ y \in 0..(h - 1) /\ x = h * z + x /\ y = h * z + y
  BY <1>1, <1>2 DEF n, h
<1> HIDE DEF z
<1>6. x % h = x /\ y % h = y
  <2>1. (h * z + x) % h = x
    BY <1>1, <1>5, Quotient
  <2>2. (h * z + y) % h = y
    BY <1>1, <1>5, Quotient
  <2> QED BY <1>5, <2>1, <2>2
<1> QED BY <1>4, <1>6 DEF h

LEMMA NumberOf ==
  ASSUME NEW x \in 0..(TwoTo[24] - 1), NEW bits,
         \A b \in 0..23 : Bit(x, b) = 1 <=> b \in bits
  PROVE  Number(bits) = x
<1>1. /\ Number(bits) \in 0..(TwoTo[24] - 1)
      /\ \A b \in 0..23 : Bit(Number(bits), b) = 1 <=> b \in bits
  BY NumberBits
<1> DEFINE y == Number(bits)
<1> HIDE DEF y
<1>2. y \in 0..(TwoTo[24] - 1) /\ \A b \in 0..23 : Bit(y, b) = 1 <=> Bit(x, b) = 1
  BY <1>1 DEF y
<1>3. y = x
  BY <1>2, KnownByBits
<1> QED BY <1>3 DEF y

LEMMA NumberSmall ==
  ASSUME NEW n \in 0..24, NEW bits \in SUBSET (0..(n - 1))
  PROVE  Number(bits) \in 0..(TwoTo[n] - 1)
<1> DEFINE x == Number(bits)
           h == TwoTo[n]
           y == x % h
<1>1. h \in Nat \ {0} /\ TwoTo[24] \in Nat \ {0} /\ h <= TwoTo[24]
  <2>1. 24 \in 0..24 /\ n <= 24
    OBVIOUS
  <2> QED BY <2>1, TwoToNat, TwoToGrows
<1>2. x \in 0..(TwoTo[24] - 1) /\ \A b \in 0..23 : Bit(x, b) = 1 <=> b \in bits
  BY NumberBits
<1> HIDE DEF x
<1>3. x \in Nat
  BY <1>1, <1>2
<1>4. y \in 0..(h - 1)
  <2> HIDE DEF h
  <2> QED BY <1>1, <1>3, Division
<1>5. ASSUME NEW b \in 0..23
      PROVE  Bit(y, b) = 1 <=> Bit(x, b) = 1
  <2>1. CASE b \in 0..(n - 1)
    <3>1. Bit(y, b) = Bit(x, b)
      BY <1>3, <2>1, BitLow
    <3> QED BY <3>1
  <2>2. CASE b \notin 0..(n - 1)
    <3>1. b \in n..24
      BY <2>2
    <3>2. Bit(y, b) = 0
      <4> HIDE DEF y
      <4> QED BY <1>4, <3>1, BitHigh
    <3>3. b \notin bits
      BY <2>2
    <3> HIDE DEF y
    <3> QED BY <1>2, <3>2, <3>3
  <2> QED BY <2>1, <2>2
<1> HIDE DEF y
<1>6. y \in 0..(TwoTo[24] - 1)
  BY <1>1, <1>4
<1>7. y = x
  BY <1>2, <1>5, <1>6, KnownByBits
<1> QED BY <1>4, <1>7 DEF x, h

-----------------------------------------------------------------------------
(* The bits of a word, and the places of its variable bits.                *)
LEMMA WordBits ==
  ASSUME NEW w \in Unsigned(16)
  PROVE  /\ w \in Nat
         /\ BitsOf(w) \in SUBSET (0..15)
         /\ Number(BitsOf(w)) = w
<1> DEFINE n == 16
           h == TwoTo[n]
<1>1. h \in Nat \ {0} /\ TwoTo[24] \in Nat /\ h <= TwoTo[24] /\ n \in 0..24
  <2>1. 16 \in 0..24 /\ 24 \in 0..24 /\ 16 <= 24
    OBVIOUS
  <2> QED BY <2>1, TwoToNat, TwoToGrows
<1>2. BitsOf(w) \in SUBSET (0..15)
  BY DEF BitsOf
<1>3. w \in 0..(h - 1)
  BY DEF Unsigned
<1>4. ASSUME NEW b \in 0..23
      PROVE  Bit(w, b) = 1 <=> b \in BitsOf(w)
  <2>1. CASE b \in 0..15
    BY <2>1 DEF BitsOf
  <2>2. CASE b \notin 0..15
    <3>1. b \in n..24
      BY <2>2
    <3> HIDE DEF n
    <3>2. Bit(w, b) = 0
      BY <1>1, <1>3, <3>1, BitHigh
    <3> QED BY <1>2, <2>2, <3>2
  <2> QED BY <2>1, <2>2
<1> HIDE DEF h
<1>5. w \in Nat /\ w \in 0..(TwoTo[24] - 1)
  BY <1>1, <1>3
<1>6. Number(BitsOf(w)) = w
  BY <1>4, <1>5, NumberOf
<1> QED BY <1>2, <1>5, <1>6

LEMMA BitsOfNumber ==
  ASSUME NEW bits \in SUBSET (0..15)
  PROVE  Number(bits) \in Unsigned(16) /\ BitsOf(Number(bits)) = bits
<1> DEFINE n == 16
<1>1. n \in 0..24 /\ bits \in SUBSET (0..(n - 1))
  OBVIOUS
<1> HIDE DEF n
<1>2. Number(bits) \in 0..(TwoTo[n] - 1)
  BY <1>1, NumberSmall
<1>3. \A b \in 0..23 : Bit(Number(bits), b) = 1 <=> b \in bits
  BY NumberBits
<1>4. \A b \in 0..15 : b \in 0..23
  OBVIOUS
<1>5. BitsOf(Number(bits)) = bits
  BY <1>3, <1>4 DEF BitsOf
<1>6. Number(bits) \in Unsigned(16)
  BY <1>2 DEF n, Unsigned
<1> QED BY <1>5, <1>6

LEMMA ByteNumber ==
  ASSUME NEW bits \in SUBSET (0..7)
  PROVE  Number(bits) \in Unsigned(8) /\ \A t \in 0..7 : Bit(Number(bits), t) = 1 <=> t \in bits
<1> DEFINE n == 8
<1>1. n \in 0..24 /\ bits \in SUBSET (0..(n - 1))
  OBVIOUS
<1> HIDE DEF n
<1>2. Number(bits) \in 0..(TwoTo[n] - 1)
  BY <1>1, NumberSmall
<1>3. \A b \in 0..23 : Bit(Number(bits), b) = 1 <=> b \in bits
  BY NumberBits
<1>4. \A b \in 0..7 : b \in 0..23
  OBVIOUS
<1>5. Number(bits) \in Unsigned(8)
  BY <1>2 DEF n, Unsigned
<1> QED BY <1>3, <1>4, <1>5

LEMMA VariableIs ==
  ASSUME NEW bits \in SUBSET (0..15)
  PROVE  Variable(Number(bits)) = (0..15) \ bits
<1>1. BitsOf(Number(bits)) = bits
  BY BitsOfNumber
<1> QED BY <1>1 DEF Variable

LEMMA WidthIs ==
  ASSUME NEW V \in SUBSET (0..15)
  PROVE  IsFiniteSet(V) /\ Cardinality(V) \in 0..16
<1> DEFINE top == 15
           a == 0
<1>1. top \in Int /\ a \in Int /\ top - a + 1 = 16 /\ a <= top
  OBVIOUS
<1>2. V \in SUBSET (a..top)
  OBVIOUS
<1> HIDE DEF top, a
<1>3. IsFiniteSet(a..top) /\ Cardinality(a..top) = 16
  <2>1. IsFiniteSet(a..top) /\ Cardinality(a..top) = IF a > top THEN 0 ELSE top - a + 1
    BY <1>1, FS_Interval
  <2> QED BY <1>1, <2>1
<1>4. IsFiniteSet(V) /\ Cardinality(V) <= Cardinality(a..top)
  BY <1>2, <1>3, FS_Subset
<1>5. Cardinality(V) \in Nat
  BY <1>4, FS_CardinalityType
<1> QED BY <1>3, <1>4, <1>5

LEMMA IndexIs ==
  ASSUME NEW V \in SUBSET (0..15), NEW b \in V
  PROVE  /\ Index(b, V) \in 0..(Cardinality(V) - 1)
         /\ \A c \in V : Index(b, V) = Index(c, V) => b = c
<1>1. ASSUME NEW S, NEW U, IsFiniteSet(U), S \in SUBSET U, NEW x \in U, x \notin S
      PROVE  Cardinality(S) < Cardinality(U) /\ Cardinality(S) \in Nat
  <2>1. IsFiniteSet(U \ {x}) /\ Cardinality(U \ {x}) = Cardinality(U) - 1
    BY <1>1, FS_RemoveElement
  <2>2. S \in SUBSET (U \ {x})
    BY <1>1
  <2>3. IsFiniteSet(S) /\ Cardinality(S) <= Cardinality(U \ {x})
    BY <2>1, <2>2, FS_Subset
  <2>4. Cardinality(S) \in Nat /\ Cardinality(U) \in Nat
    BY <1>1, <2>3, FS_CardinalityType
  <2> QED BY <2>1, <2>3, <2>4
<1> DEFINE before(x) == {c \in V : c < x}
<1>2. IsFiniteSet(V) /\ Cardinality(V) \in 0..16
  BY WidthIs
<1>3. V \in SUBSET Int
  OBVIOUS
<1>4. ASSUME NEW x \in V, NEW y \in V, x < y
      PROVE  Index(x, V) < Index(y, V)
  <2>1. before(x) \in SUBSET before(y) /\ x \in before(y) /\ x \notin before(x)
    <3>1. x \in Int /\ y \in Int
      BY <1>3
    <3>2. \A c \in V : c < x => c < y
      BY <1>3, <1>4, <3>1
    <3>3. before(x) \in SUBSET before(y)
      BY <3>2
    <3>4. x \in before(y)
      BY <1>4
    <3>5. x \notin before(x)
      BY <3>1
    <3> QED BY <3>3, <3>4, <3>5
  <2>2. before(y) \in SUBSET V
    OBVIOUS
  <2>3. IsFiniteSet(before(y))
    <3> HIDE DEF before
    <3> QED BY <1>2, <2>2, FS_Subset
  <2>4. Index(x, V) = Cardinality(before(x)) /\ Index(y, V) = Cardinality(before(y))
    BY DEF Index
  <2> HIDE DEF before
  <2> QED BY <1>1, <2>1, <2>3, <2>4
<1>5. ASSUME NEW x \in V
      PROVE  Index(x, V) \in 0..(Cardinality(V) - 1)
  <2>1. before(x) \in SUBSET V /\ x \notin before(x)
    BY <1>3
  <2>2. Index(x, V) = Cardinality(before(x))
    BY DEF Index
  <2> HIDE DEF before
  <2>3. Cardinality(before(x)) < Cardinality(V) /\ Cardinality(before(x)) \in Nat
    BY <1>1, <1>2, <2>1
  <2> QED BY <1>2, <2>2, <2>3
<1>6. ASSUME NEW c \in V, Index(b, V) = Index(c, V)
      PROVE  b = c
  <2>1. Index(b, V) \in Int
    BY <1>5
  <2>2. ~(b < c) /\ ~(c < b)
    BY <1>4, <1>6, <2>1
  <2> QED BY <1>3, <2>2
<1> QED BY <1>5, <1>6

-----------------------------------------------------------------------------
(* A packed tile.                                                          *)
Shorts == Seq(Unsigned(16))
Varying(words) == Variable(Number(Invariant(words)))
Width(words) == Cardinality(Varying(words))
Constants(words) == Invariant(words) \cap BitsOf(words[1])
PackedLength(words) == 4 + (Len(words) * Width(words) + 7) \div 8

PackedAt(s, base, words) ==
  /\ Word(s, base) = Number(Invariant(words))
  /\ Word(s, base + 2) = Number(Constants(words))
  /\ \A i \in 1..Len(words) : \A b \in Varying(words) :
       Bit(s[base + 4 + Cursor(i - 1, b, Varying(words)) \div 8 + 1],
           Cursor(i - 1, b, Varying(words)) % 8) = 1
         <=> b \in BitsOf(words[i])

LEMMA InvariantIs ==
  ASSUME NEW words \in Shorts, Len(words) > 0
  PROVE  /\ Invariant(words) \in SUBSET (0..15) /\ Constants(words) \in SUBSET (0..15)
         /\ Varying(words) = (0..15) \ Invariant(words)
         /\ Width(words) \in 0..16
         /\ \A i \in 1..Len(words) :
              BitsOf(words[i]) = Constants(words) \cup (Varying(words) \cap BitsOf(words[i]))
<1>1. Invariant(words) \in SUBSET (0..15)
  BY DEF Invariant
<1>2. Constants(words) \in SUBSET (0..15)
  BY <1>1 DEF Constants
<1>3. Varying(words) = (0..15) \ Invariant(words)
  BY <1>1, VariableIs DEF Varying
<1>4. Width(words) \in 0..16
  <2>1. Varying(words) \in SUBSET (0..15)
    BY <1>3
  <2> QED BY <2>1, WidthIs DEF Width
<1>5. ASSUME NEW i \in 1..Len(words)
      PROVE  BitsOf(words[i]) = Constants(words) \cup (Varying(words) \cap BitsOf(words[i]))
  <2>1. i \in DOMAIN words
    BY DEF Shorts
  <2>2. ASSUME NEW b \in Invariant(words)
        PROVE  b \in BitsOf(words[i]) <=> b \in BitsOf(words[1])
    <3>1. b \in 0..15 /\ Bit(words[i], b) = Bit(words[1], b)
      BY <2>1 DEF Invariant
    <3> QED BY <3>1 DEF BitsOf
  <2>3. BitsOf(words[i]) \in SUBSET (0..15)
    BY DEF BitsOf
  <2> QED BY <1>1, <1>3, <2>2, <2>3, Zenon DEF Constants
<1> QED BY <1>1, <1>2, <1>3, <1>4, <1>5

(* The places of the variable bits, word by word.                          *)
LEMMA CursorIs ==
  ASSUME NEW V \in SUBSET (0..15), NEW p \in Nat, NEW b \in V
  PROVE  /\ Cardinality(V) \in 1..16 /\ Index(b, V) \in 0..(Cardinality(V) - 1)
         /\ Cursor(p, b, V) = Cardinality(V) * p + Index(b, V)
         /\ Cursor(p, b, V) \in Nat
         /\ Cursor(p, b, V) \div Cardinality(V) = p
         /\ Cursor(p, b, V) % Cardinality(V) = Index(b, V)
         /\ \A n \in Nat : p < n => Cursor(p, b, V) < n * Cardinality(V)
<1> DEFINE w == Cardinality(V)
           x == Index(b, V)
<1>1. w \in 0..16 /\ x \in 0..(w - 1)
  BY WidthIs, IndexIs
<1>2. Cursor(p, b, V) = p * w + x
  BY DEF Cursor
<1> HIDE DEF w, x
<1>3. w \in 1..16 /\ w \in Nat \ {0}
  BY <1>1
<1>4. p * w = w * p /\ w * p \in Nat
  BY <1>3
<1>5. Cursor(p, b, V) = w * p + x /\ Cursor(p, b, V) \in Nat
  BY <1>1, <1>2, <1>4
<1>6. (w * p + x) \div w = p /\ (w * p + x) % w = x
  BY <1>1, <1>3, Quotient
<1>7. ASSUME NEW n \in Nat, p < n
      PROVE  w * p + x < n * w
  <2>1. PICK d \in Nat : n = (p + 1) + d
    <3>1. n - (p + 1) \in Nat /\ n = (p + 1) + (n - (p + 1))
      BY <1>7
    <3> QED BY <3>1
  <2>2. n * w = w * p + w + d * w /\ d * w \in Nat
    BY <1>3, <2>1
  <2> QED BY <1>1, <1>4, <2>2
<1>8. Cursor(p, b, V) \div w = p /\ Cursor(p, b, V) % w = x
  BY <1>5, <1>6
<1>9. \A n \in Nat : p < n => Cursor(p, b, V) < n * w
  BY <1>5, <1>7
<1> QED BY <1>1, <1>3, <1>5, <1>8, <1>9 DEF w, x

SetBit(words, k) ==
  /\ k < Len(words) * Width(words)
  /\ \E b \in Varying(words) \cap BitsOf(words[k \div Width(words) + 1]) :
       Index(b, Varying(words)) = k % Width(words)
PayloadByte(words, j) == Number({t \in 0..7 : SetBit(words, 8 * (j - 1) + t)})
Payload(words) ==
  [j \in 1..((Len(words) * Width(words) + 7) \div 8) |-> PayloadByte(words, j)]

LEMMA EncodeIs ==
  ASSUME NEW words
  PROVE  encode_bf16_bitpack(words) =
           (Bytes(Number(Invariant(words))) \o Bytes(Number(Constants(words))))
             \o Payload(words)
BY Zenon DEF encode_bf16_bitpack, Constants, Payload, PayloadByte, SetBit, Width, Varying

LEMMA BytesFollow ==
  ASSUME NEW a \in Seq(Nat), NEW b \in Seq(Nat)
  PROVE  /\ a \o b \in Seq(Nat)
         /\ Len(a \o b) = Len(a) + Len(b)
         /\ \A i \in 1..Len(a) : (a \o b)[i] = a[i]
         /\ \A i \in 1..Len(b) : (a \o b)[Len(a) + i] = b[i]
OBVIOUS

LEMMA BytesAre ==
  ASSUME NEW w \in Nat
  PROVE  /\ Bytes(w) \in Seq(Nat) /\ Len(Bytes(w)) = 2
         /\ Bytes(w)[1] \in Nat /\ Bytes(w)[2] \in Nat
         /\ Bytes(w)[1] + 256 * Bytes(w)[2] = w
<1> DEFINE n == 256
<1>1. w % n \in 0..(n - 1) /\ w \div n \in Nat /\ w = n * (w \div n) + (w % n)
  BY Division
<1>2. Bytes(w) = <<w % n, w \div n>>
  BY DEF Bytes
<1> QED BY <1>1, <1>2

LEMMA Encoded ==
  ASSUME NEW words \in Shorts, Len(words) > 0
  PROVE  /\ encode_bf16_bitpack(words) \in Seq(Nat)
         /\ Len(encode_bf16_bitpack(words)) = PackedLength(words)
         /\ PackedAt(encode_bf16_bitpack(words), 0, words)
         /\ Len(words) * Width(words) \in Nat
<1> DEFINE I == Number(Invariant(words))
           C == Number(Constants(words))
           P == Payload(words)
           e == encode_bf16_bitpack(words)
           total == Len(words) * Width(words)
           nb == (total + 7) \div 8
<1>1. Len(words) \in Nat /\ Width(words) \in 0..16
  BY InvariantIs DEF Shorts
<1>2. total \in Nat
  BY <1>1
<1>3. I \in Nat /\ C \in Nat
  <2>1. I \in Unsigned(16) /\ C \in Unsigned(16)
    BY InvariantIs, BitsOfNumber
  <2> QED BY <2>1, WordBits
<1> HIDE DEF total
<1>4. nb \in Nat /\ nb * 8 >= total /\ \A k \in 0..(total - 1) : k \div 8 + 1 \in 1..nb
  BY <1>2
<1>5. \A j \in 1..nb : PayloadByte(words, j) \in Nat
  <2> SUFFICES ASSUME NEW j \in 1..nb PROVE PayloadByte(words, j) \in Nat
    OBVIOUS
  <2> DEFINE S == {t \in 0..7 : SetBit(words, 8 * (j - 1) + t)}
  <2>1. S \in SUBSET (0..7)
    OBVIOUS
  <2>2. PayloadByte(words, j) = Number(S)
    BY DEF PayloadByte
  <2> HIDE DEF S
  <2>3. Number(S) \in 0..(TwoTo[24] - 1)
    BY NumberBits
  <2> QED BY <2>2, <2>3
<1>6. P = [j \in 1..nb |-> PayloadByte(words, j)]
  BY DEF Payload, total
<1> HIDE DEF nb, P
<1>7. P \in Seq(Nat) /\ Len(P) = nb /\ \A j \in 1..nb : P[j] = PayloadByte(words, j)
  BY <1>4, <1>5, <1>6
<1> DEFINE a == Bytes(I)
           b == Bytes(C)
           h == a \o b
<1>8. e = h \o P
  BY EncodeIs DEF P
<1> HIDE DEF I, C
<1>9. /\ a \in Seq(Nat) /\ Len(a) = 2 /\ a[1] + 256 * a[2] = I
      /\ b \in Seq(Nat) /\ Len(b) = 2 /\ b[1] + 256 * b[2] = C
  <2>1. a \in Seq(Nat) /\ Len(a) = 2 /\ a[1] + 256 * a[2] = I
    BY <1>3, BytesAre, ZenonT(30)
  <2>2. b \in Seq(Nat) /\ Len(b) = 2 /\ b[1] + 256 * b[2] = C
    BY <1>3, BytesAre, ZenonT(30)
  <2> QED BY <2>1, <2>2, Zenon
<1> HIDE DEF a, b, e
<1>10. h \in Seq(Nat) /\ Len(h) = 4 /\ h[1] = a[1] /\ h[2] = a[2] /\ h[3] = b[1] /\ h[4] = b[2]
  <2>1. /\ h \in Seq(Nat) /\ Len(h) = Len(a) + Len(b)
        /\ \A i \in 1..Len(a) : h[i] = a[i]
        /\ \A i \in 1..Len(b) : h[Len(a) + i] = b[i]
    BY <1>9, BytesFollow
  <2>2. 1 \in 1..2 /\ 2 \in 1..2 /\ 2 + 1 = 3 /\ 2 + 2 = 4
    OBVIOUS
  <2> HIDE DEF h
  <2>3. h[2 + 1] = b[1] /\ h[2 + 2] = b[2]
    BY <1>9, <2>1, <2>2
  <2>4. h[1] = a[1] /\ h[2] = a[2]
    BY <1>9, <2>1, <2>2
  <2> QED BY <1>9, <2>1, <2>2, <2>3, <2>4
<1> HIDE DEF h
<1>11. /\ e \in Seq(Nat) /\ Len(e) = 4 + nb
       /\ e[1] = h[1] /\ e[2] = h[2] /\ e[3] = h[3] /\ e[4] = h[4]
       /\ \A j \in 1..nb : e[4 + j] = P[j]
  <2>1. /\ h \o P \in Seq(Nat) /\ Len(h \o P) = Len(h) + Len(P)
        /\ \A i \in 1..Len(h) : (h \o P)[i] = h[i]
        /\ \A i \in 1..Len(P) : (h \o P)[Len(h) + i] = P[i]
    BY <1>7, <1>10, BytesFollow
  <2>2. 1 \in 1..4 /\ 2 \in 1..4 /\ 3 \in 1..4 /\ 4 \in 1..4
    OBVIOUS
  <2>3. e[1] = h[1] /\ e[2] = h[2] /\ e[3] = h[3] /\ e[4] = h[4]
    BY <1>8, <1>10, <2>1, <2>2
  <2> QED BY <1>7, <1>8, <1>10, <2>1, <2>3
<1>12. Word(e, 0) = I /\ Word(e, 0 + 2) = C
  <2>1. e[1] = a[1] /\ e[2] = a[2]
    BY <1>10, <1>11
  <2>2. e[3] = b[1] /\ e[4] = b[2]
    BY <1>10, <1>11
  <2>3. e[0 + 1] = a[1] /\ e[0 + 2] = a[2]
    BY <2>1
  <2>4. e[0 + 2 + 1] = b[1] /\ e[0 + 2 + 2] = b[2]
    BY <2>2
  <2>5. Word(e, 0) = a[1] + 256 * a[2]
    BY <2>3, Zenon DEF Word
  <2>6. Word(e, 0 + 2) = b[1] + 256 * b[2]
    BY <2>4, Zenon DEF Word
  <2> QED BY <1>9, <2>5, <2>6, Zenon
<1>13. ASSUME NEW i \in 1..Len(words), NEW x \in Varying(words)
       PROVE  Bit(e[0 + 4 + Cursor(i - 1, x, Varying(words)) \div 8 + 1],
                  Cursor(i - 1, x, Varying(words)) % 8) = 1
                <=> x \in BitsOf(words[i])
  <2> DEFINE V == Varying(words)
             w == Width(words)
             k == Cursor(i - 1, x, V)
             j == k \div 8 + 1
             t == k % 8
  <2>1. V \in SUBSET (0..15) /\ w = Cardinality(V) /\ x \in V /\ i - 1 \in Nat
    BY <1>1, InvariantIs DEF Width
  <2>2. /\ k \in Nat /\ w \in 1..16 /\ k \div w = i - 1 /\ k % w = Index(x, V)
        /\ k < Len(words) * w
    <3> HIDE DEF V, w
    <3>1. i - 1 < Len(words)
      OBVIOUS
    <3> QED BY <1>1, <2>1, <3>1, CursorIs
  <2>3. \A y \in V : Index(y, V) = Index(x, V) => y = x
    <3> HIDE DEF V
    <3> QED BY <2>1, IndexIs
  <2>4. SetBit(words, k) <=> x \in BitsOf(words[i])
    <3>1. k \div w + 1 = i
      <4> HIDE DEF k, w
      <4> QED BY <2>2
    <3> HIDE DEF k
    <3> QED BY <2>1, <2>2, <2>3, <3>1 DEF SetBit
  <2> HIDE DEF V, k
  <2>5. k \in 0..(total - 1)
    BY <1>2, <2>2 DEF total
  <2>6. j \in 1..nb
    BY <1>4, <2>5
  <2>7. t \in 0..7 /\ 8 * (j - 1) + t = k
    BY <2>2
  <2>8. e[4 + j] = PayloadByte(words, j)
    BY <1>7, <1>11, <2>6
  <2> DEFINE S == {u \in 0..7 : SetBit(words, 8 * (j - 1) + u)}
  <2>9. t \in S <=> SetBit(words, k)
    BY <2>7
  <2>10. S \in SUBSET (0..7) /\ PayloadByte(words, j) = Number(S)
    BY DEF PayloadByte
  <2>11. 0 + 4 + k \div 8 + 1 = 4 + j
    BY <2>2
  <2> HIDE DEF S, t, j
  <2>12. Bit(Number(S), t) = 1 <=> t \in S
    BY <2>7, <2>10, ByteNumber
  <2> QED BY <2>4, <2>8, <2>9, <2>10, <2>11, <2>12 DEF t, k, V
<1>14. PackedAt(e, 0, words)
  BY <1>12, <1>13 DEF PackedAt, I, C
<1>15. Len(e) = PackedLength(words)
  BY <1>11 DEF PackedLength, nb, total
<1> QED BY <1>2, <1>11, <1>14, <1>15 DEF e, total

LEMMA Restored ==
  ASSUME NEW words \in Shorts, Len(words) > 0, NEW i \in 1..Len(words)
  PROVE  Number(Constants(words) \cup {b \in Varying(words) : b \in BitsOf(words[i])}) = words[i]
<1>1. BitsOf(words[i]) = Constants(words) \cup (Varying(words) \cap BitsOf(words[i]))
  BY InvariantIs
<1>2. {b \in Varying(words) : b \in BitsOf(words[i])} = Varying(words) \cap BitsOf(words[i])
  OBVIOUS
<1>3. words[i] \in Unsigned(16)
  BY DEF Shorts
<1> QED BY <1>1, <1>2, <1>3, WordBits

(* The processor reads a packed tile back.                                 *)
LEMMA Decoded ==
  ASSUME NEW words \in Shorts, Len(words) > 0
  PROVE  decode_bf16_bitpack(encode_bf16_bitpack(words), Len(words)) = words
<1> DEFINE s == encode_bf16_bitpack(words)
           n == Len(words)
           F == Varying(words)
           set(k) == Bit(s[4 + k \div 8 + 1], k % 8) = 1
           made(i) == Number(BitsOf(Word(s, 2)) \cup {b \in F : set(Cursor(i - 1, b, F))})
<1>1. /\ Len(s) = PackedLength(words) /\ PackedAt(s, 0, words)
      /\ n * Width(words) \in Nat
  BY Encoded
<1>2. /\ Invariant(words) \in SUBSET (0..15) /\ Constants(words) \in SUBSET (0..15)
      /\ F = (0..15) \ Invariant(words)
  BY InvariantIs
<1> HIDE DEF s
<1>3. Word(s, 0) = Number(Invariant(words)) /\ Word(s, 2) = Number(Constants(words))
  <2>1. 0 + 2 = 2
    OBVIOUS
  <2> QED BY <1>1, <2>1 DEF PackedAt
<1>4. Variable(Word(s, 0)) = F /\ BitsOf(Word(s, 2)) = Constants(words)
  <2>1. Variable(Word(s, 0)) = F
    BY <1>3 DEF Varying
  <2> QED BY <1>2, <1>3, <2>1, BitsOfNumber
<1>5. BitsOf(Word(s, 2)) \cap F = {}
  BY <1>2, <1>4 DEF Constants
<1>6. Len(s) = 4 + (n * Cardinality(F) + 7) \div 8 /\ ~(Len(s) < 4)
  <2>1. Len(s) = 4 + (n * Cardinality(F) + 7) \div 8
    BY <1>1 DEF PackedLength, Width
  <2> DEFINE total == n * Cardinality(F)
  <2>2. total \in Nat
    BY <1>1 DEF Width
  <2> HIDE DEF total
  <2>3. (total + 7) \div 8 \in Nat
    BY <2>2
  <2> HIDE DEF n, F
  <2> QED BY <2>1, <2>3 DEF total
<1>7. decode_bf16_bitpack(s, n) = [i \in 1..n |-> made(i)]
  <2>1. decode_bf16_bitpack(s, n) =
          IF \/ Len(s) < 4
             \/ BitsOf(Word(s, 2)) \cap Variable(Word(s, 0)) # {}
             \/ Len(s) # 4 + (n * Cardinality(Variable(Word(s, 0))) + 7) \div 8
          THEN NoWords
          ELSE [i \in 1..n |-> Number(BitsOf(Word(s, 2)) \cup
                 {b \in Variable(Word(s, 0)) : set(Cursor(i - 1, b, Variable(Word(s, 0))))})]
    BY Zenon DEF decode_bf16_bitpack
  <2> HIDE DEF F, n, set
  <2> QED BY <1>4, <1>5, <1>6, <2>1, Zenon
<1>8. ASSUME NEW i \in 1..n
      PROVE  made(i) = words[i]
  <2>1. ASSUME NEW b \in F
        PROVE  set(Cursor(i - 1, b, F)) <=> b \in BitsOf(words[i])
    <3> DEFINE k == Cursor(i - 1, b, F)
    <3>1. Bit(s[0 + 4 + k \div 8 + 1], k % 8) = 1 <=> b \in BitsOf(words[i])
      BY <1>1, <2>1 DEF PackedAt
    <3>2. k \in Nat
      <4>1. F \in SUBSET (0..15) /\ i - 1 \in Nat /\ b \in F
        BY <1>2, <2>1
      <4> HIDE DEF F
      <4> QED BY <4>1, CursorIs
    <3> HIDE DEF k
    <3>3. 0 + 4 + k \div 8 + 1 = 4 + k \div 8 + 1
      BY <3>2
    <3> QED BY <3>1, <3>3 DEF k
  <2>2. {b \in F : set(Cursor(i - 1, b, F))} = {b \in F : b \in BitsOf(words[i])}
    <3> HIDE DEF set, F
    <3> QED BY <2>1
  <2>3. made(i) = Number(Constants(words) \cup {b \in F : b \in BitsOf(words[i])})
    <3> HIDE DEF set, F
    <3> QED BY <1>4, <2>2
  <2> QED BY <2>3, Restored
<1> HIDE DEF made
<1>9. [i \in 1..n |-> made(i)] = [i \in 1..n |-> words[i]]
  BY <1>8
<1>10. words = [i \in 1..n |-> words[i]]
  BY DEF Shorts
<1> QED BY <1>7, <1>9, <1>10 DEF s

PlaceInTile(row, column, columns, tile_rows) == (row % tile_rows) * columns + column
TileStart(starts, row, tile_rows) == starts[row \div tile_rows + 1]
TileEnd(starts, row, tile_rows) == starts[row \div tile_rows + 2]

(* The kernel cuts any of its words out of the middle of a matrix.         *)
LEMMA CutOutIs ==
  ASSUME NEW words \in Shorts, NEW i \in 1..Len(words), NEW s, NEW base \in Nat, NEW starts,
         NEW row \in Nat, NEW column \in Nat, NEW columns \in Nat, NEW tile_rows \in Nat \ {0},
         PlaceInTile(row, column, columns, tile_rows) = i - 1,
         TileStart(starts, row, tile_rows) = base,
         TileEnd(starts, row, tile_rows) = base + PackedLength(words),
         PackedAt(s, base, words)
  PROVE  si_bf16_bitpack_value(s, starts, row, column, columns, tile_rows) = words[i]
<1> DEFINE F == Varying(words)
           w == Cardinality(F)
           cursor == (i - 1) * w
           payload == base + 4 + cursor \div 8
           end == base + PackedLength(words)
           byte(k) == IF payload + k < end THEN s[payload + k + 1] ELSE 0
           bits == {t \in 0..23 : Bit(byte(t \div 8), t % 8) = 1}
           packed == Number(bits)
           value == (packed \div TwoTo[cursor % 8]) % TwoTo[w]
<1>1. Len(words) > 0 /\ Len(words) \in Nat /\ i - 1 \in Nat /\ i - 1 < Len(words)
  BY DEF Shorts
<1>2. /\ Invariant(words) \in SUBSET (0..15) /\ Constants(words) \in SUBSET (0..15)
      /\ F = (0..15) \ Invariant(words) /\ w \in 0..16
  BY <1>1, InvariantIs DEF Width
<1>3. Word(s, base) = Number(Invariant(words)) /\ Word(s, base + 2) = Number(Constants(words))
  BY DEF PackedAt
<1>4. Variable(Word(s, base)) = F /\ BitsOf(Word(s, base + 2)) = Constants(words)
  <2>1. Variable(Word(s, base)) = F
    BY <1>3 DEF Varying
  <2> QED BY <1>2, <1>3, <2>1, BitsOfNumber
<1>5. si_bf16_bitpack_value(s, starts, row, column, columns, tile_rows)
        = Number(BitsOf(Word(s, base + 2)) \cup {b \in F : Bit(value, Index(b, F)) = 1})
  <2> DEFINE V == Variable(Word(s, base))
             cursor2 == PlaceInTile(row, column, columns, tile_rows) * Cardinality(V)
             payload2 == base + 4 + cursor2 \div 8
             end2 == TileEnd(starts, row, tile_rows)
             byte2(k) == IF payload2 + k < end2 THEN s[payload2 + k + 1] ELSE 0
             packed2 == Number({t \in 0..(8 * 3 - 1) : Bit(byte2(t \div 8), t % 8) = 1})
             value2 == (packed2 \div TwoTo[cursor2 % 8]) % TwoTo[Cardinality(V)]
  <2>1. CutOut(3, s, starts, row, column, columns, tile_rows)
          = Number(BitsOf(Word(s, base + 2)) \cup {b \in V : Bit(value2, Index(b, V)) = 1})
    <3>1. starts[row \div tile_rows + 1] = base
      BY Zenon DEF TileStart
    <3> QED BY <3>1, Zenon DEF CutOut, PlaceInTile, TileEnd
  <2>2. V = F /\ cursor2 = cursor /\ end2 = end
    BY <1>4
  <2>3. 8 * 3 - 1 = 23
    OBVIOUS
  <2> HIDE DEF F, V, end, end2, cursor, cursor2
  <2>4. packed2 = packed /\ Cardinality(V) = w
    BY <2>2, <2>3, Zenon
  <2> HIDE DEF packed, packed2, w
  <2>5. value2 = value
    BY <2>2, <2>4, Zenon
  <2> HIDE DEF value, value2
  <2> QED BY <2>1, <2>2, <2>5, Zenon DEF si_bf16_bitpack_value
<1>6. ASSUME NEW b \in F
      PROVE  Bit(value, Index(b, F)) = 1 <=> b \in BitsOf(words[i])
  <2> DEFINE x == Index(b, F)
             k == Cursor(i - 1, b, F)
             p == i - 1
             r == cursor % 8
             q == cursor \div 8
             t == r + x
  <2>1. /\ F \in SUBSET (0..15) /\ b \in F
        /\ (Bit(s[base + 4 + k \div 8 + 1], k % 8) = 1 <=> b \in BitsOf(words[i]))
    <3>1. F \in SUBSET (0..15) /\ b \in F
      BY <1>2, <1>6
    <3> QED BY <3>1 DEF PackedAt
  <2>2. w \in 1..16 /\ x \in 0..(w - 1) /\ k \in Nat
    <3> HIDE DEF F
    <3> QED BY <1>1, <2>1, CursorIs
  <2>22. p \in Nat
    BY <1>1, Zenon
  <2>23. w \in Nat
    <3>1. w \in 1..16
      BY <2>2, Zenon
    <3> HIDE DEF w
    <3> QED BY <3>1
  <2>20. k = w * p + x
    <3> HIDE DEF F
    <3> QED BY <1>1, <2>1, CursorIs
  <2>21. k < Len(words) * w
    <3> HIDE DEF F
    <3> QED BY <1>1, <2>1, CursorIs
  <2>3. cursor = w * p
    <3>1. p \in Nat /\ w \in Nat
      BY <2>22, <2>23, Zenon
    <3> HIDE DEF p, w
    <3> QED BY <3>1 DEF p
  <2>30. cursor \in Nat
    <3>1. p \in Nat /\ w \in Nat
      BY <2>22, <2>23, Zenon
    <3> HIDE DEF p, w
    <3> QED BY <3>1 DEF p
  <2>4. PackedLength(words) = 4 + (Len(words) * w + 7) \div 8
    BY DEF PackedLength, Width
  <2> DEFINE total == Len(words) * w
  <2>5. total \in Nat /\ k < total /\ end = base + 4 + (total + 7) \div 8
    <3>1. total \in Nat
      <4> DEFINE n == Len(words)
      <4>1. n \in Nat /\ w \in Nat
        BY <1>1, <2>23, Zenon
      <4> HIDE DEF w, n
      <4>2. n * w \in Nat
        BY <4>1
      <4> QED BY <4>2 DEF n
    <3> HIDE DEF total
    <3>2. k < total /\ PackedLength(words) = 4 + (total + 7) \div 8
      BY <2>21, <2>4 DEF total
    <3> QED BY <3>1, <3>2
  <2> HIDE DEF F, x, k, p, total, end, w
  <2>6. r \in 0..7 /\ q \in Nat /\ k = 8 * q + r + x /\ TwoTo[w] \in Nat \ {0}
    <3>1. cursor = 8 * (cursor \div 8) + (cursor % 8) /\ cursor % 8 \in 0..7 /\ cursor \div 8 \in Nat
      <4>1. cursor \in Nat
        BY <2>30
      <4> HIDE DEF cursor
      <4> QED BY <4>1
    <3>2. w \in 0..24
      BY <2>2
    <3>3. k = cursor + x
      BY <2>20, <2>3, Zenon
    <3>4. TwoTo[w] \in Nat \ {0}
      BY <3>2, TwoToNat
    <3> HIDE DEF cursor
    <3>5. r \in 0..7 /\ q \in Nat /\ cursor = 8 * q + r
      BY <3>1 DEF q, r
    <3> HIDE DEF q, r
    <3>6. x \in Int
      BY <2>2
    <3>7. k = 8 * q + r + x
      BY <3>3, <3>5, <3>6
    <3> QED BY <3>4, <3>5, <3>7
  <2> HIDE DEF r, q
  <2>7. t \in 0..22 /\ k \div 8 = q + t \div 8 /\ k % 8 = t % 8 /\ t \div 8 \in Nat
    <3>1. x \in 0..15 /\ r \in 0..7 /\ q \in Nat /\ k = 8 * q + r + x
      <4>1. x \in 0..15
        BY <2>2
      <4>2. r \in 0..7 /\ q \in Nat /\ k = 8 * q + r + x
        BY <2>6, Zenon
      <4> QED BY <4>1, <4>2, Zenon
    <3> HIDE DEF k
    <3> QED BY <3>1
  <2>8. q + t \div 8 < (total + 7) \div 8
    <3>1. k \div 8 < (total + 7) \div 8
      <4>1. x \in Int
        BY <2>2
      <4>2. k \in Int
        BY <2>6, <4>1
      <4>3. k < total /\ total \in Int
        BY <2>5
      <4> QED BY <4>2, <4>3
    <3>2. k \div 8 = q + t \div 8
      BY <2>7, Zenon
    <3> QED BY <3>1, <3>2, Zenon
  <2>9. byte(t \div 8) = s[base + 4 + k \div 8 + 1]
    <3> DEFINE d == t \div 8
    <3>1. payload + d < end
      <4> HIDE DEF d
      <4>1. payload = base + 4 + q
        BY DEF q
      <4> DEFINE m == (total + 7) \div 8
      <4>2. d \in Nat /\ q \in Nat /\ q + d < m /\ end = base + 4 + m
        BY <2>5, <2>6, <2>7, <2>8 DEF d
      <4>3. m \in Int
        BY <2>5
      <4> HIDE DEF m, payload
      <4> QED BY <4>1, <4>2, <4>3
    <3>2. payload + d + 1 = base + 4 + k \div 8 + 1
      <4>1. payload = base + 4 + q
        BY DEF q
      <4>2. k \div 8 = q + d /\ d \in Nat /\ q \in Nat
        BY <2>6, <2>7
      <4> HIDE DEF d, payload
      <4> QED BY <4>1, <4>2
    <3> QED BY <3>1, <3>2
  <2>10. Bit(packed, t) = 1 <=> b \in BitsOf(words[i])
    <3>1. t \in 0..23
      BY <2>7
    <3>2. t \in bits <=> Bit(byte(t \div 8), t % 8) = 1
      BY <3>1
    <3> HIDE DEF bits, byte, t
    <3>3. Bit(packed, t) = 1 <=> t \in bits
      BY <3>1, NumberBits
    <3> QED BY <2>1, <2>7, <2>9, <3>2, <3>3
  <2>11. packed \in Nat
    <3> HIDE DEF bits
    <3>1. packed \in 0..(TwoTo[24] - 1)
      BY NumberBits
    <3> QED BY <3>1
  <2> HIDE DEF packed
  <2>12. Bit(packed \div TwoTo[r], x) = Bit(packed, r + x)
    <3>1. r \in 0..24 /\ x \in 0..24 /\ r + x <= 24
      BY <2>2, <2>6
    <3> QED BY <2>11, <3>1, BitShifted
  <2>13. packed \div TwoTo[r] \in Nat
    <3>1. TwoTo[r] \in Nat \ {0}
      <4>1. r \in 0..24
        BY <2>6
      <4> QED BY <4>1, TwoToNat
    <3> QED BY <2>11, <3>1, Division
  <2> DEFINE y == packed \div TwoTo[r]
  <2>14. Bit(y % TwoTo[w], x) = Bit(y, x)
    <3>1. w \in 0..24 /\ x \in 0..(w - 1)
      BY <2>2
    <3> HIDE DEF y
    <3>2. y \in Nat
      BY <2>13 DEF y
    <3> QED BY <3>1, <3>2, BitLow
  <2> QED BY <2>10, <2>12, <2>14 DEF r, w, x, F
<1> HIDE DEF value
<1>7. {b \in F : Bit(value, Index(b, F)) = 1} = {b \in F : b \in BitsOf(words[i])}
  <2> HIDE DEF F
  <2> QED BY <1>6
<1>8. Number(Constants(words) \cup {b \in F : b \in BitsOf(words[i])}) = words[i]
  BY <1>1, Restored
<1> QED BY <1>4, <1>5, <1>7, <1>8

-----------------------------------------------------------------------------
(* Quantised blocks.                                                       *)
LEMMA SameScales ==
  ASSUME NEW s, NEW block \in Nat, NEW index \in 0..7
  PROVE  get_scale_min(index, s, block + 4) = KernelScale(s, block, index)
<1>1. /\ (block + 4) + index + 1 = block + 4 + index + 1
      /\ (block + 4) + (index + 4) + 1 = block + 8 + index + 1
      /\ (block + 4) + (index - 4) + 1 = block + index + 1
  OBVIOUS
<1> QED BY <1>1, Zenon DEF get_scale_min, KernelScale

(* The elements of a pair of groups.                                       *)
PairElement(s, block, group, quants, high, second, i) ==
  Word(s, block) * get_scale_min(2 * group + second, s, block + 4).scale
      * ((IF second = 0 THEN s[block + quants + group * 32 + i + 1] % 16
          ELSE s[block + quants + group * 32 + i + 1] \div 16) + high)
    - Word(s, block + 2) * get_scale_min(2 * group + second, s, block + 4).minimum

LEMMA PairsAre ==
  ASSUME NEW s, NEW block, NEW group, NEW i \in 1..64
  PROVE  /\ DOMAIN dequantize_q4_k(s, block, group) = 1..64
         /\ DOMAIN dequantize_q5_k(s, block, group) = 1..64
         /\ dequantize_q4_k(s, block, group)[i]
              = PairElement(s, block, group, 16, 0, (i - 1) \div 32, (i - 1) % 32)
         /\ dequantize_q5_k(s, block, group)[i]
              = PairElement(s, block, group, 48,
                  16 * Bit(s[block + 16 + ((i - 1) % 32) + 1], 2 * group + (i - 1) \div 32),
                  (i - 1) \div 32, (i - 1) % 32)
<1> DEFINE four(j) == PairElement(s, block, group, 16, 0, (j - 1) \div 32, (j - 1) % 32)
           five(j) == PairElement(s, block, group, 48,
                  16 * Bit(s[block + 16 + ((j - 1) % 32) + 1], 2 * group + (j - 1) \div 32),
                  (j - 1) \div 32, (j - 1) % 32)
<1>1. dequantize_q4_k(s, block, group) = [j \in 1..64 |-> four(j)]
  BY Zenon DEF dequantize_q4_k, PairOf, PairElement
<1>2. dequantize_q5_k(s, block, group) = [j \in 1..64 |-> five(j)]
  BY Zenon DEF dequantize_q5_k, PairOf, PairElement
<1> HIDE DEF four, five
<1>3. dequantize_q4_k(s, block, group)[i] = four(i) /\ dequantize_q5_k(s, block, group)[i] = five(i)
  BY <1>1, <1>2
<1>4. /\ DOMAIN dequantize_q4_k(s, block, group) = 1..64
      /\ DOMAIN dequantize_q5_k(s, block, group) = 1..64
  BY <1>1, <1>2
<1> QED BY <1>3, <1>4 DEF four, five

BytesAt(s, block, n) == \A j \in 1..n : s[block + j] \in Nat /\ s[block + j] < 256

LEMMA Nibbles ==
  ASSUME NEW byte \in Nat
  PROVE  byte % 16 \in Nat /\ byte \div 16 \in Nat
OBVIOUS

(* Where an element is, for the kernel, within the blocks of pairs.        *)
LEMMA PairPlace ==
  ASSUME NEW group \in 0..3, NEW i \in 1..64
  PROVE  LET local == group * 64 + (i - 1) IN
         /\ local \div 64 = group
         /\ local % 64 = i - 1
         /\ (i - 1) % 32 \in 0..31 /\ (i - 1) \div 32 \in 0..1
         /\ (local % 64) % 32 = (i - 1) % 32
         /\ (i - 1) \div 32 = (IF local % 64 >= 32 THEN 1 ELSE 0)
         /\ 2 * group + (i - 1) \div 32 = group * 2 + (IF local % 64 >= 32 THEN 1 ELSE 0)
         /\ 2 * group + (i - 1) \div 32 \in 0..7
BY SMTT(30)

LEMMA Q4Agree ==
  ASSUME NEW s, NEW block \in Nat, BytesAt(s, block, 144), NEW group \in 0..3, NEW i \in 1..64
  PROVE  dequantize_q4_k(s, block, group)[i] = si_q4_k_value(s, block, group * 64 + (i - 1))
<1> DEFINE local == group * 64 + (i - 1)
           second == (i - 1) \div 32
           x == (i - 1) % 32
           byte == s[block + 16 + group * 32 + x + 1]
           quant == IF second = 0 THEN byte % 16 ELSE byte \div 16
           sm == KernelScale(s, block, group * 2 + second)
<1>1. /\ local \div 64 = group /\ local % 64 = i - 1 /\ x \in 0..31 /\ second \in 0..1
      /\ (local % 64) % 32 = x
      /\ second = (IF local % 64 >= 32 THEN 1 ELSE 0)
      /\ 2 * group + second = group * 2 + (IF local % 64 >= 32 THEN 1 ELSE 0)
      /\ 2 * group + second \in 0..7
  BY PairPlace
<1>2. dequantize_q4_k(s, block, group)[i] = PairElement(s, block, group, 16, 0, second, x)
  BY PairsAre
<1>4. byte \in Nat
  <2>1. 16 + group * 32 + x + 1 \in 1..144
    <3> HIDE DEF x
    <3> QED BY <1>1
  <2> DEFINE j == 16 + group * 32 + x + 1
  <2>2. block + 16 + group * 32 + x + 1 = block + j
    <3> HIDE DEF x
    <3> QED BY <1>1
  <2>3. s[block + j] \in Nat
    <3> HIDE DEF j
    <3> QED BY <2>1 DEF BytesAt, j
  <2> QED BY <2>2, <2>3
<1> HIDE DEF local, second, x
<1>5. quant \in Nat
  <2> HIDE DEF byte
  <2> QED BY <1>4, Nibbles
<1>6. get_scale_min(2 * group + second, s, block + 4) = sm
  <2>1. 2 * group + second = group * 2 + second
    BY <1>1
  <2> QED BY <1>1, <2>1, SameScales
<1>7. si_q4_k_value(s, block, local)
        = Word(s, block) * sm.scale * quant - Word(s, block + 2) * sm.minimum
  <2> DEFINE value(g, t, y) ==
               LET sm2 == KernelScale(s, block, g * 2 + t)
                   byte2 == s[block + 16 + g * 32 + y + 1]
                   quant2 == IF t = 1 THEN byte2 \div 16 ELSE byte2 % 16 IN
               Word(s, block) * sm2.scale * quant2 - Word(s, block + 2) * sm2.minimum
  <2>1. quant = IF second = 1 THEN byte \div 16 ELSE byte % 16
    <3>1. (second = 1) <=> ~(second = 0)
      BY <1>1
    <3> QED BY <3>1, Zenon
  <2>2. si_q4_k_value(s, block, local)
          = value(local \div 64, IF local % 64 >= 32 THEN 1 ELSE 0, (local % 64) % 32)
    BY Zenon DEF si_q4_k_value
  <2>4. value(group, second, x)
          = Word(s, block) * sm.scale * quant - Word(s, block + 2) * sm.minimum
    <3> HIDE DEF quant
    <3> QED BY <2>1, Zenon
  <2> HIDE DEF value, quant, sm
  <2>5. si_q4_k_value(s, block, local) = value(group, second, x)
    BY <1>1, <2>2, Zenon
  <2> QED BY <2>4, <2>5, Zenon
<1>8. PairElement(s, block, group, 16, 0, second, x)
        = Word(s, block) * sm.scale * (quant + 0) - Word(s, block + 2) * sm.minimum
  BY <1>6, Zenon DEF PairElement
<1> HIDE DEF sm, quant
<1>9. quant + 0 = quant
  BY <1>5
<1> QED BY <1>2, <1>7, <1>8, <1>9, Zenon DEF local

LEMMA Q5Agree ==
  ASSUME NEW s, NEW block \in Nat, BytesAt(s, block, 176), NEW group \in 0..3, NEW i \in 1..64
  PROVE  dequantize_q5_k(s, block, group)[i] = si_q5_k_value(s, block, group * 64 + (i - 1))
<1> DEFINE local == group * 64 + (i - 1)
           second == (i - 1) \div 32
           x == (i - 1) % 32
           byte == s[block + 48 + group * 32 + x + 1]
           quant == IF second = 0 THEN byte % 16 ELSE byte \div 16
           sm == KernelScale(s, block, group * 2 + second)
           bit == Bit(s[block + 16 + x + 1], 2 * group + second)
<1>1. /\ local \div 64 = group /\ local % 64 = i - 1 /\ x \in 0..31 /\ second \in 0..1
      /\ (local % 64) % 32 = x
      /\ second = (IF local % 64 >= 32 THEN 1 ELSE 0)
      /\ 2 * group + second = group * 2 + (IF local % 64 >= 32 THEN 1 ELSE 0)
      /\ 2 * group + second \in 0..7
  BY PairPlace
<1>2. dequantize_q5_k(s, block, group)[i]
        = PairElement(s, block, group, 48, 16 * bit, second, x)
  BY PairsAre
<1>3. bit \in {0, 1}
  <2> DEFINE j == 16 + x + 1
             b == 2 * group + second
  <2>1. b \in 0..24
    <3> HIDE DEF second
    <3> QED BY <1>1
  <2>2. j \in 1..176 /\ block + 16 + x + 1 = block + j
    <3> HIDE DEF x
    <3> QED BY <1>1
  <2>3. s[block + j] \in Nat
    <3> HIDE DEF j
    <3> QED BY <2>2 DEF BytesAt
  <2>4. bit = Bit(s[block + j], b)
    BY <2>2
  <2> HIDE DEF bit, b
  <2> DEFINE y == s[block + j]
  <2> HIDE DEF j
  <2>5. y \in Nat /\ bit = Bit(y, b)
    BY <2>3, <2>4
  <2> HIDE DEF y
  <2> QED BY <2>1, <2>5, BitIs
<1> HIDE DEF local, second, x
<1>6. get_scale_min(2 * group + second, s, block + 4) = sm
  <2>1. 2 * group + second = group * 2 + second
    BY <1>1
  <2> QED BY <1>1, <2>1, SameScales
<1>7. si_q5_k_value(s, block, local)
        = Word(s, block) * sm.scale * (quant + (IF bit = 1 THEN 16 ELSE 0))
            - Word(s, block + 2) * sm.minimum
  <2> DEFINE value(g, t, y) ==
               LET sm2 == KernelScale(s, block, g * 2 + t)
                   byte2 == s[block + 48 + g * 32 + y + 1]
                   quant2 == (IF t = 1 THEN byte2 \div 16 ELSE byte2 % 16)
                             + (IF Bit(s[block + 16 + y + 1], g * 2 + t) = 1
                                THEN 16 ELSE 0) IN
               Word(s, block) * sm2.scale * quant2 - Word(s, block + 2) * sm2.minimum
  <2>1. quant = IF second = 1 THEN byte \div 16 ELSE byte % 16
    <3>1. (second = 1) <=> ~(second = 0)
      BY <1>1
    <3> QED BY <3>1, Zenon
  <2>2. si_q5_k_value(s, block, local)
          = value(local \div 64, IF local % 64 >= 32 THEN 1 ELSE 0, (local % 64) % 32)
    BY Zenon DEF si_q5_k_value
  <2>3. bit = Bit(s[block + 16 + x + 1], group * 2 + second)
    <3>1. 2 * group + second = group * 2 + second
      BY <1>1
    <3> QED BY <3>1, Zenon
  <2>4. value(group, second, x)
          = Word(s, block) * sm.scale * (quant + (IF bit = 1 THEN 16 ELSE 0))
              - Word(s, block + 2) * sm.minimum
    <3> HIDE DEF quant, bit
    <3> QED BY <2>1, <2>3, Zenon
  <2> HIDE DEF value, quant, bit, sm
  <2>5. si_q5_k_value(s, block, local) = value(group, second, x)
    BY <1>1, <2>2, Zenon
  <2> QED BY <2>4, <2>5, Zenon
<1>8. PairElement(s, block, group, 48, 16 * bit, second, x)
        = Word(s, block) * sm.scale * (quant + 16 * bit) - Word(s, block + 2) * sm.minimum
  BY <1>6, Zenon DEF PairElement
<1> HIDE DEF sm, quant, bit
<1>9. 16 * bit = (IF bit = 1 THEN 16 ELSE 0)
  BY <1>3
<1> QED BY <1>2, <1>7, <1>8, <1>9, Zenon DEF local

SixQuant(s, block, half, q, i) ==
  CASE q = 0 -> (s[block + half * 64 + i + 1] % 16)
                  + 16 * (s[block + 128 + half * 32 + i + 1] % 4)
    [] q = 1 -> (s[block + half * 64 + (i + 32) + 1] % 16)
                  + 16 * ((s[block + 128 + half * 32 + i + 1] \div 4) % 4)
    [] q = 2 -> s[block + half * 64 + i + 1] \div 16
                  + 16 * ((s[block + 128 + half * 32 + i + 1] \div 16) % 4)
    [] q = 3 -> s[block + half * 64 + (i + 32) + 1] \div 16
                  + 16 * (s[block + 128 + half * 32 + i + 1] \div 64)
SixElement(s, block, half, q, i) ==
  Word(s, block + 208) * Signed(s[block + 192 + half * 8 + 2 * q + i \div 16 + 1])
    * (SixQuant(s, block, half, q, i) - 32)

LEMMA SixIs ==
  ASSUME NEW s, NEW block, NEW half, NEW i \in 1..128
  PROVE  /\ DOMAIN dequantize_q6_k(s, block, half) = 1..128
         /\ dequantize_q6_k(s, block, half)[i]
              = SixElement(s, block, half, (i - 1) \div 32, (i - 1) % 32)
<1> DEFINE six(j) == SixElement(s, block, half, (j - 1) \div 32, (j - 1) % 32)
<1>1. dequantize_q6_k(s, block, half) = [j \in 1..128 |-> six(j)]
  BY DEF dequantize_q6_k, SixElement, SixQuant
<1> HIDE DEF six
<1>2. dequantize_q6_k(s, block, half)[i] = six(i) /\ DOMAIN dequantize_q6_k(s, block, half) = 1..128
  BY <1>1
<1> QED BY <1>2 DEF six

LEMMA SixPlace ==
  ASSUME NEW half \in 0..1, NEW i \in 1..128
  PROVE  LET local == half * 128 + (i - 1) IN
         /\ local \div 128 = half
         /\ local % 128 = i - 1
         /\ (i - 1) % 32 \in 0..31 /\ (i - 1) \div 32 \in 0..3
BY SMTT(30)

KernelQuant(s, block, half, q, i) ==
  LET packed == s[block + half * 64 + (q % 2) * 32 + i + 1]
      nibble == IF q >= 2 THEN packed \div 16 ELSE packed % 16
      high_bits == (s[block + 128 + half * 32 + i + 1] \div TwoTo[q * 2]) % 4 IN
  nibble + 16 * high_bits

LEMMA SameQuant ==
  ASSUME NEW s, NEW block \in Nat, BytesAt(s, block, 210), NEW half \in 0..1,
         NEW q \in 0..3, NEW i \in 0..31
  PROVE  SixQuant(s, block, half, q, i) = KernelQuant(s, block, half, q, i)
<1> DEFINE low == s[block + half * 64 + i + 1]
           next == s[block + half * 64 + (i + 32) + 1]
           high == s[block + 128 + half * 32 + i + 1]
<1>1. TwoTo[0] = 1 /\ TwoTo[2] = 4 /\ TwoTo[4] = 16 /\ TwoTo[6] = 64
  BY TwoToIs
<1>2. high \in Nat /\ high < 256
  <2> DEFINE j == 128 + half * 32 + i + 1
  <2>1. j \in 1..210 /\ block + 128 + half * 32 + i + 1 = block + j
    OBVIOUS
  <2>2. s[block + j] \in Nat /\ s[block + j] < 256
    <3> HIDE DEF j
    <3> QED BY <2>1 DEF BytesAt
  <2> QED BY <2>1, <2>2
<1>3. /\ block + half * 64 + 0 * 32 + i + 1 = block + half * 64 + i + 1
      /\ block + half * 64 + 1 * 32 + i + 1 = block + half * 64 + (i + 32) + 1
  OBVIOUS
<1>4. KernelQuant(s, block, half, q, i) =
        (IF q >= 2 THEN s[block + half * 64 + (q % 2) * 32 + i + 1] \div 16
         ELSE s[block + half * 64 + (q % 2) * 32 + i + 1] % 16)
          + 16 * ((high \div TwoTo[q * 2]) % 4)
  BY Zenon DEF KernelQuant
<1>5. SixQuant(s, block, half, q, i) =
        CASE q = 0 -> (low % 16) + 16 * (high % 4)
          [] q = 1 -> (next % 16) + 16 * ((high \div 4) % 4)
          [] q = 2 -> low \div 16 + 16 * ((high \div 16) % 4)
          [] q = 3 -> next \div 16 + 16 * (high \div 64)
  BY DEF SixQuant
<1>6. CASE q = 0
  <2>1. /\ q % 2 = 0 /\ q * 2 = 0 /\ ~(q >= 2)
    BY <1>6
  <2>2. KernelQuant(s, block, half, q, i) = (low % 16) + 16 * ((high \div 1) % 4)
    BY <1>1, <1>3, <1>4, <2>1
  <2>3. SixQuant(s, block, half, q, i) = (low % 16) + 16 * (high % 4)
    BY <1>5, <1>6
  <2> HIDE DEF high, low
  <2>4. high \div 1 = high
    BY <1>2
  <2> QED BY <2>2, <2>3, <2>4
<1>7. CASE q = 1
  <2>1. /\ q % 2 = 1 /\ q * 2 = 2 /\ ~(q >= 2)
    BY <1>7
  <2>2. KernelQuant(s, block, half, q, i) = (next % 16) + 16 * ((high \div 4) % 4)
    BY <1>1, <1>3, <1>4, <2>1
  <2> QED BY <1>5, <1>7, <2>2
<1>8. CASE q = 2
  <2>1. /\ q % 2 = 0 /\ q * 2 = 4 /\ q >= 2
    BY <1>8
  <2>2. KernelQuant(s, block, half, q, i) = (low \div 16) + 16 * ((high \div 16) % 4)
    BY <1>1, <1>3, <1>4, <2>1
  <2> QED BY <1>5, <1>8, <2>2
<1>9. CASE q = 3
  <2>1. /\ q % 2 = 1 /\ q * 2 = 6 /\ q >= 2
    BY <1>9
  <2>2. KernelQuant(s, block, half, q, i) = (next \div 16) + 16 * ((high \div 64) % 4)
    BY <1>1, <1>3, <1>4, <2>1
  <2>3. SixQuant(s, block, half, q, i) = (next \div 16) + 16 * (high \div 64)
    BY <1>5, <1>9
  <2> HIDE DEF high, next
  <2>4. (high \div 64) % 4 = high \div 64
    BY <1>2
  <2> QED BY <2>2, <2>3, <2>4
<1> QED BY <1>6, <1>7, <1>8, <1>9

LEMMA Q6Agree ==
  ASSUME NEW s, NEW block \in Nat, BytesAt(s, block, 210), NEW half \in 0..1, NEW i \in 1..128
  PROVE  dequantize_q6_k(s, block, half)[i] = si_q6_k_value(s, block, half * 128 + (i - 1))
<1> DEFINE local == half * 128 + (i - 1)
           q == (i - 1) \div 32
           x == (i - 1) % 32
<1>1. local \div 128 = half /\ local % 128 = i - 1 /\ x \in 0..31 /\ q \in 0..3
  BY SixPlace
<1>2. dequantize_q6_k(s, block, half)[i] = SixElement(s, block, half, q, x)
  BY SixIs
<1>3. q = (local % 128) \div 32 /\ x = (local % 128) % 32
  BY <1>1
<1>4. si_q6_k_value(s, block, local) =
        Word(s, block + 208) * Signed(s[block + 192 + half * 8 + x \div 16 + q * 2 + 1])
          * (KernelQuant(s, block, half, q, x) - 32)
  <2> DEFINE value(h, quartet, index) ==
               Word(s, block + 208) * Signed(s[block + 192 + h * 8 + index \div 16 + quartet * 2 + 1])
                 * (KernelQuant(s, block, h, quartet, index) - 32)
  <2>1. si_q6_k_value(s, block, local)
          = value(local \div 128, (local % 128) \div 32, (local % 128) % 32)
    BY Zenon DEF si_q6_k_value, KernelQuant
  <2> HIDE DEF local, q, x
  <2>2. value(local \div 128, (local % 128) \div 32, (local % 128) % 32) = value(half, q, x)
    <3> HIDE DEF value
    <3> QED BY <1>1, <1>3, Zenon
  <2> QED BY <2>1, <2>2, Zenon
<1> HIDE DEF local, q, x
<1>5. SixQuant(s, block, half, q, x) = KernelQuant(s, block, half, q, x)
  BY <1>1, SameQuant
<1>6. block + 192 + half * 8 + x \div 16 + q * 2 + 1 = block + 192 + half * 8 + 2 * q + x \div 16 + 1
  BY <1>1
<1>7. SixElement(s, block, half, q, x)
        = Word(s, block + 208) * Signed(s[block + 192 + half * 8 + 2 * q + x \div 16 + 1])
            * (KernelQuant(s, block, half, q, x) - 32)
  BY <1>5, Zenon DEF SixElement
<1> DEFINE here == block + 192 + half * 8 + 2 * q + x \div 16 + 1
           there == block + 192 + half * 8 + x \div 16 + q * 2 + 1
<1>8. SixElement(s, block, half, q, x) = si_q6_k_value(s, block, local)
  <2>1. here = there
    BY <1>6, Zenon
  <2> HIDE DEF here, there
  <2>2. s[here] = s[there]
    BY <2>1, Zenon
  <2> QED BY <1>4, <1>7, <2>2, Zenon DEF here, there
<1> QED BY <1>2, <1>8, Zenon DEF local

-----------------------------------------------------------------------------
(* Half-precision numbers.                                                 *)
LEMMA MaxOfTwo ==
  ASSUME NEW a \in Int, NEW b \in Int
  PROVE  Max({a, b}) = IF a >= b THEN a ELSE b
<1> DEFINE m == IF a >= b THEN a ELSE b
<1>1. m \in {a, b} /\ \A y \in {a, b} : m >= y
  OBVIOUS
<1>2. Max({a, b}) = CHOOSE x \in {a, b} : \A y \in {a, b} : x >= y
  BY Zenon DEF Max
<1>3. Max({a, b}) \in {a, b} /\ \A y \in {a, b} : Max({a, b}) >= y
  <2> HIDE DEF m
  <2> QED BY <1>1, <1>2
<1> QED BY <1>3

Shifted(fraction, k) == fraction * TwoTo[k] \in TwoTo[10]..(TwoTo[11] - 1)
ShiftOf(fraction) == CHOOSE k \in 1..10 : Shifted(fraction, k)

LEMMA ShiftExists ==
  ASSUME NEW f \in Nat, 0 < f, f < 1024
  PROVE  ShiftOf(f) \in 1..10 /\ Shifted(f, ShiftOf(f))
<1>1. /\ TwoTo[1] = 2 /\ TwoTo[2] = 4 /\ TwoTo[3] = 8 /\ TwoTo[4] = 16 /\ TwoTo[5] = 32
      /\ TwoTo[6] = 64 /\ TwoTo[7] = 128 /\ TwoTo[8] = 256 /\ TwoTo[9] = 512
      /\ TwoTo[10] = 1024 /\ TwoTo[11] = 2048
  BY TwoToIs
<1> DEFINE lo == TwoTo[10]
           hi == TwoTo[11] - 1
<1>2. lo = 1024 /\ hi = 2047 /\ lo \in Int /\ hi \in Int
  BY <1>1
<1> HIDE DEF lo, hi
<1>3. ASSUME NEW k \in 1..10, 1024 <= f * TwoTo[k], f * TwoTo[k] < 2048, f * TwoTo[k] \in Int
      PROVE  Shifted(f, k)
  <2>1. f * TwoTo[k] \in lo..hi
    <3> DEFINE y == f * TwoTo[k]
    <3> HIDE DEF y
    <3>1. 1024 <= y /\ y < 2048 /\ y \in Int
      BY <1>3 DEF y
    <3>2. y \in lo..hi
      BY <1>2, <3>1
    <3> QED BY <3>2 DEF y
  <2> QED BY <2>1 DEF Shifted, lo, hi
<1>4. \E k \in 1..10 : Shifted(f, k)
  <2>1. CASE f < 2
    <3>1. 10 \in 1..10 /\ 1024 <= f * TwoTo[10] /\ f * TwoTo[10] < 2048 /\ f * TwoTo[10] \in Int
      BY <1>1, <2>1
    <3> QED BY <1>3, <3>1
  <2>2. CASE 2 <= f /\ f < 4
    <3>1. 9 \in 1..10 /\ 1024 <= f * TwoTo[9] /\ f * TwoTo[9] < 2048 /\ f * TwoTo[9] \in Int
      BY <1>1, <2>2
    <3> QED BY <1>3, <3>1
  <2>3. CASE 4 <= f /\ f < 8
    <3>1. 8 \in 1..10 /\ 1024 <= f * TwoTo[8] /\ f * TwoTo[8] < 2048 /\ f * TwoTo[8] \in Int
      BY <1>1, <2>3
    <3> QED BY <1>3, <3>1
  <2>4. CASE 8 <= f /\ f < 16
    <3>1. 7 \in 1..10 /\ 1024 <= f * TwoTo[7] /\ f * TwoTo[7] < 2048 /\ f * TwoTo[7] \in Int
      BY <1>1, <2>4
    <3> QED BY <1>3, <3>1
  <2>5. CASE 16 <= f /\ f < 32
    <3>1. 6 \in 1..10 /\ 1024 <= f * TwoTo[6] /\ f * TwoTo[6] < 2048 /\ f * TwoTo[6] \in Int
      BY <1>1, <2>5
    <3> QED BY <1>3, <3>1
  <2>6. CASE 32 <= f /\ f < 64
    <3>1. 5 \in 1..10 /\ 1024 <= f * TwoTo[5] /\ f * TwoTo[5] < 2048 /\ f * TwoTo[5] \in Int
      BY <1>1, <2>6
    <3> QED BY <1>3, <3>1
  <2>7. CASE 64 <= f /\ f < 128
    <3>1. 4 \in 1..10 /\ 1024 <= f * TwoTo[4] /\ f * TwoTo[4] < 2048 /\ f * TwoTo[4] \in Int
      BY <1>1, <2>7
    <3> QED BY <1>3, <3>1
  <2>8. CASE 128 <= f /\ f < 256
    <3>1. 3 \in 1..10 /\ 1024 <= f * TwoTo[3] /\ f * TwoTo[3] < 2048 /\ f * TwoTo[3] \in Int
      BY <1>1, <2>8
    <3> QED BY <1>3, <3>1
  <2>9. CASE 256 <= f /\ f < 512
    <3>1. 2 \in 1..10 /\ 1024 <= f * TwoTo[2] /\ f * TwoTo[2] < 2048 /\ f * TwoTo[2] \in Int
      BY <1>1, <2>9
    <3> QED BY <1>3, <3>1
  <2>10. CASE 512 <= f
    <3>1. 1 \in 1..10 /\ 1024 <= f * TwoTo[1] /\ f * TwoTo[1] < 2048 /\ f * TwoTo[1] \in Int
      BY <1>1, <2>10
    <3> QED BY <1>3, <3>1
  <2> QED BY <2>1, <2>2, <2>3, <2>4, <2>5, <2>6, <2>7, <2>8, <2>9, <2>10
<1> QED BY <1>4 DEF ShiftOf

LEMMA HalfAgree ==
  ASSUME NEW bits \in Unsigned(16)
  PROVE  SameNumber(bits, f16_to_f32(bits))
<1> DEFINE e == (bits \div 1024) % 32
           f == bits % 1024
           subnormal == e = 0 /\ f # 0
           shift == ShiftOf(f)
           float == f16_to_f32(bits)
           scale == Max({e, 1}) + 125 - float.exponent
<1>1. bits \in Nat /\ e \in 0..31 /\ f \in Nat /\ f < 1024
  <2>1. bits \in Nat
    BY WordBits
  <2> DEFINE n == 1024
  <2>5. n \in Nat \ {0}
    OBVIOUS
  <2> HIDE DEF n
  <2>2. bits \div n \in Nat /\ bits % n \in 0..(n - 1)
    BY <2>1, <2>5, Division
  <2> DEFINE q == bits \div n
             r == bits % n
  <2>3. q \in Nat /\ r \in Nat /\ r < 1024
    BY <2>2, <2>5 DEF n
  <2> HIDE DEF q, r
  <2>4. q % 32 \in 0..31
    BY <2>3
  <2> QED BY <2>1, <2>3, <2>4 DEF q, r, n
<1>2. /\ TwoTo[23] = 8388608 /\ TwoTo[13] = 8192 /\ TwoTo[10] = 1024 /\ TwoTo[11] = 2048
  BY TwoToIs
<1>3. float = [sign |-> bits \div 32768,
               exponent |-> CASE subnormal -> 113 - shift
                              [] e = 0 /\ ~subnormal -> 0
                              [] e = 31 -> 255
                              [] OTHER -> e + 112,
               fraction |-> 8192 * (IF subnormal THEN (f * TwoTo[shift]) % 1024 ELSE f)]
  BY DEF f16_to_f32, ShiftOf, Shifted
<1>4. float.sign = bits \div 32768
  BY <1>3
<1>5. SameNumber(bits, float) <=>
        /\ float.sign = bits \div 32768
        /\ e = 31 => float.exponent = 255 /\ (f = 0 <=> float.fraction = 0)
        /\ e = 0 /\ f = 0 => float.exponent = 0 /\ float.fraction = 0
        /\ e # 31 /\ (e # 0 \/ f # 0) =>
             /\ scale \in 0..24
             /\ (IF e = 0 THEN f ELSE 1024 + f) * TwoTo[scale] = TwoTo[23] + float.fraction
  BY DEF SameNumber
<1> HIDE DEF e, f, shift
<1>6. CASE e = 31
  <2>1. float.exponent = 255 /\ float.fraction = 8192 * f
    BY <1>3, <1>6
  <2>2. f = 0 <=> 8192 * f = 0
    BY <1>1
  <2> HIDE DEF float, scale
  <2> QED BY <1>4, <1>5, <1>6, <2>1, <2>2 DEF float
<1>7. CASE e = 0 /\ f = 0
  <2>1. float.exponent = 0 /\ float.fraction = 8192 * 0
    BY <1>3, <1>7
  <2> HIDE DEF float, scale
  <2> QED BY <1>4, <1>5, <1>7, <2>1 DEF float
<1>8. CASE e = 0 /\ f # 0
  <2>1. shift \in 1..10 /\ Shifted(f, shift)
    BY <1>1, <1>8, ShiftExists DEF shift
  <2> DEFINE y == f * TwoTo[shift]
  <2>2. y \in Int /\ 1024 <= y /\ y < 2048
    <3> DEFINE lo == TwoTo[10]
               hi == TwoTo[11] - 1
    <3>1. lo = 1024 /\ hi = 2047
      BY <1>2
    <3> HIDE DEF y, lo, hi
    <3>2. y \in lo..hi
      BY <2>1, Zenon DEF Shifted, y, lo, hi
    <3> QED BY <3>1, <3>2
  <2>3. float.exponent = 113 - shift /\ float.fraction = 8192 * (y % 1024)
    BY <1>3, <1>8
  <2>4. scale = shift + 13 /\ scale \in 0..24
    <3>1. Max({e, 1}) = 1
      BY <1>8, MaxOfTwo
    <3> HIDE DEF float
    <3> QED BY <2>1, <2>3, <3>1
  <2>5. TwoTo[shift + 13] = TwoTo[shift] * 8192
    <3>1. shift \in 0..24 /\ 13 \in 0..24 /\ shift + 13 <= 24
      BY <2>1
    <3>2. TwoTo[shift + 13] = TwoTo[shift] * TwoTo[13]
      BY <3>1, TwoToSum
    <3> QED BY <1>2, <3>2
  <2>6. f * (TwoTo[shift] * 8192) = y * 8192
    <3>1. TwoTo[shift] \in Nat
      <4>1. shift \in 0..24
        BY <2>1
      <4> QED BY <4>1, TwoToNat
    <3> DEFINE p == TwoTo[shift]
    <3> HIDE DEF p
    <3>2. f * (p * 8192) = (f * p) * 8192
      BY <1>1, <3>1 DEF p
    <3> QED BY <3>2 DEF p
  <2> HIDE DEF y
  <2>7. y * 8192 = 8388608 + 8192 * (y % 1024)
    BY <2>2
  <2> HIDE DEF float, scale
  <2>8. f * TwoTo[scale] = TwoTo[23] + float.fraction
    BY <1>2, <2>3, <2>4, <2>5, <2>6, <2>7
  <2> QED BY <1>4, <1>5, <1>8, <2>4, <2>8 DEF float
<1>9. CASE e # 0 /\ e # 31
  <2>1. float.exponent = e + 112 /\ float.fraction = 8192 * f
    BY <1>3, <1>9
  <2>2. scale = 13
    <3>1. Max({e, 1}) = e
      BY <1>1, <1>9, MaxOfTwo
    <3> HIDE DEF float
    <3> QED BY <1>1, <2>1, <3>1
  <2>3. (1024 + f) * 8192 = 8388608 + 8192 * f
    BY <1>1
  <2> HIDE DEF float, scale
  <2>4. scale \in 0..24 /\ (1024 + f) * TwoTo[scale] = TwoTo[23] + float.fraction
    BY <1>2, <2>1, <2>2, <2>3
  <2> QED BY <1>4, <1>5, <1>9, <2>4 DEF float
<1> QED BY <1>6, <1>7, <1>8, <1>9

-----------------------------------------------------------------------------
(* The inductive invariant of a job, by the format of its bytes.           *)
IsSeq(a) == Len(a) \in Nat /\ a = [i \in 1..Len(a) |-> a[i]]

PieceSize(format) == BlockElements \div Pieces(format)

(* The bytes of a tensor of whole blocks.                                  *)
WholeBlocks(format, bytes) ==
  bytes \in Seq(Unsigned(8)) /\ Len(bytes) = BlockCount * BlockBytes[format]

(* The processor has decoded whole pieces, as the kernel reads them.       *)
BlocksRead ==
  job.kind \in DOMAIN BlockBytes =>
    /\ coded = job.bytes
    /\ IsSeq(decoded) /\ Len(decoded) % PieceSize(job.kind) = 0
    /\ \A i \in 1..Len(decoded) : decoded[i] = KernelElement(job.kind, coded, i - 1)

HalfRead == job.kind = "half" => decoded \in {<< >>, <<f16_to_f32(job.bits)>>}

PlanesRead ==
  job.kind = "planes" =>
    /\ \/ taken = 0 /\ coded = << >>
       \/ taken = Len(Words) /\ coded = bf16_plane_transform(Words)
    /\ decoded \in {<< >>, Words}

(* What has been encoded so far decodes to what has been taken.            *)
RunsRead ==
  job.kind = "rle" =>
    /\ taken \in 0..Len(Words)
    /\ coded \in Seq(Nat) /\ WholeRuns(coded)
    /\ decode_bf16_rle(coded) = SubSeq(Words, 1, taken)
    /\ decoded \in {<< >>, Words}

(* The tiles of a matrix: m of them are in s, one after the other.         *)
EndOf(words, size, t) == IF t * size <= Len(words) THEN t * size ELSE Len(words)
TileOf(words, size, t) == SubSeq(words, (t - 1) * size + 1, EndOf(words, size, t))

Packs(words, size, s, starts, m) ==
  /\ s \in Seq(Nat) /\ starts \in Seq(Nat)
  /\ Len(starts) = m + 1 /\ starts[m + 1] = Len(s)
  /\ \A t \in 1..m :
       /\ (t - 1) * size < Len(words)
       /\ starts[t + 1] = starts[t] + PackedLength(TileOf(words, size, t))
       /\ starts[t + 1] <= Len(s)
       /\ SubSeq(s, starts[t] + 1, starts[t + 1]) = encode_bf16_bitpack(TileOf(words, size, t))

Starts == IF offsets = << >> THEN <<0>> ELSE offsets
TileSize == job.source.tile * job.source.columns

TilesRead ==
  job.kind = "bitpack" =>
    /\ offsets = << >> \/ Len(offsets) > 1
    /\ Packs(Words, TileSize, coded, Starts, Len(Starts) - 1)
    /\ taken = EndOf(Words, TileSize, Len(Starts) - 1)
    /\ IsSeq(decoded) /\ Len(decoded) <= Len(Words)
    /\ Len(decoded) = Len(Words) \/ Len(decoded) % TileSize = 0
    /\ decoded = SubSeq(Words, 1, Len(decoded))

CodecInv ==
  /\ job \in Quantised \cup HalfNumbers \cup Lossless
  /\ BlocksRead /\ HalfRead /\ PlanesRead /\ RunsRead /\ TilesRead

(* Sequences joined, and a part of a joined sequence.                      *)
LEMMA SeqIs ==
  ASSUME NEW S, NEW a \in Seq(S)
  PROVE  IsSeq(a)
BY DEF IsSeq

LEMMA Concatenated ==
  ASSUME NEW a, NEW b, IsSeq(a), IsSeq(b)
  PROVE  /\ IsSeq(a \o b) /\ Len(a \o b) = Len(a) + Len(b)
         /\ \A i \in 1..Len(a) : (a \o b)[i] = a[i]
         /\ \A i \in 1..Len(b) : (a \o b)[Len(a) + i] = b[i]
<1> DEFINE S == {a[i] : i \in 1..Len(a)} \cup {b[i] : i \in 1..Len(b)}
<1>1. a \in Seq(S)
  <2> DEFINE n == Len(a)
  <2>1. n \in Nat /\ a = [i \in 1..n |-> a[i]] /\ \A i \in 1..n : a[i] \in S
    BY DEF IsSeq
  <2> HIDE DEF n, S
  <2> QED BY <2>1
<1>2. b \in Seq(S)
  <2> DEFINE n == Len(b)
  <2>1. n \in Nat /\ b = [i \in 1..n |-> b[i]] /\ \A i \in 1..n : b[i] \in S
    BY DEF IsSeq
  <2> HIDE DEF n, S
  <2> QED BY <2>1
<1> HIDE DEF S
<1>3. /\ a \o b \in Seq(S) /\ Len(a \o b) = Len(a) + Len(b)
      /\ \A i \in 1..Len(a) : (a \o b)[i] = a[i]
      /\ \A i \in 1..Len(b) : (a \o b)[Len(a) + i] = b[i]
  BY <1>1, <1>2, ConcatIs
<1> QED BY <1>3, SeqIs

LEMMA FunctionIsSeq ==
  ASSUME NEW n \in Nat, NEW f, DOMAIN f = 1..n, f = [i \in 1..n |-> f[i]]
  PROVE  IsSeq(f) /\ Len(f) = n
<1> DEFINE S == {f[i] : i \in 1..n}
<1>1. \A i \in 1..n : f[i] \in S
  OBVIOUS
<1> HIDE DEF S
<1>2. f \in Seq(S) /\ Len(f) = n
  BY <1>1
<1> QED BY <1>2, SeqIs

LEMMA SameSeq ==
  ASSUME NEW a, NEW b, IsSeq(a), IsSeq(b), Len(a) = Len(b),
         \A i \in 1..Len(a) : a[i] = b[i]
  PROVE  a = b
<1> DEFINE n == Len(a)
<1>1. a = [i \in 1..n |-> a[i]] /\ b = [i \in 1..n |-> b[i]]
  BY DEF IsSeq
<1>2. \A i \in 1..n : a[i] = b[i]
  OBVIOUS
<1> HIDE DEF n
<1>3. [i \in 1..n |-> a[i]] = [i \in 1..n |-> b[i]]
  BY <1>2
<1> QED BY <1>1, <1>3, Zenon

LEMMA PartIs ==
  ASSUME NEW a, IsSeq(a), NEW m \in Nat, NEW n \in Nat, m <= n, n <= Len(a)
  PROVE  /\ IsSeq(SubSeq(a, m + 1, n)) /\ Len(SubSeq(a, m + 1, n)) = n - m
         /\ \A i \in 1..(n - m) : SubSeq(a, m + 1, n)[i] = a[m + i]
<1> DEFINE S == {a[i] : i \in 1..Len(a)}
<1>1. a \in Seq(S)
  <2> DEFINE k == Len(a)
  <2>1. k \in Nat /\ a = [i \in 1..k |-> a[i]] /\ \A i \in 1..k : a[i] \in S
    BY DEF IsSeq
  <2> HIDE DEF k, S
  <2> QED BY <2>1
<1> HIDE DEF S
<1> DEFINE p == SubSeq(a, m + 1, n)
<1>2. p \in Seq(S) /\ Len(p) = n - m /\ \A i \in 1..(n - m) : p[i] = a[m + i]
  BY <1>1
<1> HIDE DEF p
<1>3. IsSeq(p) /\ Len(p) = n - m /\ \A i \in 1..(n - m) : p[i] = a[m + i]
  BY <1>2, SeqIs
<1> QED BY <1>3 DEF p

LEMMA PartsJoined ==
  ASSUME NEW a, NEW b, IsSeq(a), IsSeq(b)
  PROVE  /\ SubSeq(a \o b, Len(a) + 1, Len(a) + Len(b)) = b
         /\ \A m, n \in Nat : m <= n /\ n <= Len(a) =>
              SubSeq(a \o b, m + 1, n) = SubSeq(a, m + 1, n)
<1> DEFINE c == a \o b
<1>1. /\ IsSeq(c) /\ Len(c) = Len(a) + Len(b)
      /\ \A i \in 1..Len(a) : c[i] = a[i]
      /\ \A i \in 1..Len(b) : c[Len(a) + i] = b[i]
      /\ Len(a) \in Nat /\ Len(b) \in Nat
  BY Concatenated DEF IsSeq
<1> HIDE DEF c
<1>2. SubSeq(c, Len(a) + 1, Len(a) + Len(b)) = b
  <2> DEFINE p == SubSeq(c, Len(a) + 1, Len(a) + Len(b))
             total == Len(a) + Len(b)
  <2>1. total \in Nat /\ Len(a) <= total /\ total <= Len(c) /\ total - Len(a) = Len(b)
    BY <1>1
  <2> HIDE DEF total
  <2>2. /\ IsSeq(SubSeq(c, Len(a) + 1, total)) /\ Len(SubSeq(c, Len(a) + 1, total)) = total - Len(a)
        /\ \A i \in 1..(total - Len(a)) : SubSeq(c, Len(a) + 1, total)[i] = c[Len(a) + i]
    BY <1>1, <2>1, PartIs
  <2>3. SubSeq(c, Len(a) + 1, total) = b
    BY <1>1, <2>1, <2>2, SameSeq
  <2> QED BY <2>3 DEF total
<1>3. ASSUME NEW m \in Nat, NEW n \in Nat, m <= n, n <= Len(a)
      PROVE  SubSeq(c, m + 1, n) = SubSeq(a, m + 1, n)
  <2>1. n <= Len(c)
    BY <1>1, <1>3
  <2>2. /\ IsSeq(SubSeq(c, m + 1, n)) /\ Len(SubSeq(c, m + 1, n)) = n - m
        /\ \A i \in 1..(n - m) : SubSeq(c, m + 1, n)[i] = c[m + i]
    BY <1>1, <1>3, <2>1, PartIs
  <2>3. /\ IsSeq(SubSeq(a, m + 1, n)) /\ Len(SubSeq(a, m + 1, n)) = n - m
        /\ \A i \in 1..(n - m) : SubSeq(a, m + 1, n)[i] = a[m + i]
    BY <1>3, PartIs
  <2>4. \A i \in 1..(n - m) : c[m + i] = a[m + i]
    <3> TAKE i \in 1..(n - m)
    <3>1. m + i \in 1..Len(a)
      BY <1>1, <1>3
    <3> QED BY <1>1, <3>1
  <2> QED BY <2>2, <2>3, <2>4, SameSeq
<1> QED BY <1>2, <1>3 DEF c

(* A prefix and what follows it.                                           *)
LEMMA Longer ==
  ASSUME NEW a, IsSeq(a), NEW m \in Nat, NEW n \in Nat, m <= n, n <= Len(a)
  PROVE  SubSeq(a, 1, m) \o SubSeq(a, m + 1, n) = SubSeq(a, 1, n)
<1> DEFINE p == SubSeq(a, 1, m)
           q == SubSeq(a, m + 1, n)
           r == SubSeq(a, 1, n)
<1>1. 0 \in Nat /\ 0 + 1 = 1 /\ m - 0 = m /\ n - 0 = n /\ m <= Len(a) /\ 0 <= m /\ 0 <= n
  BY DEF IsSeq
<1>2. /\ IsSeq(SubSeq(a, 0 + 1, m)) /\ Len(SubSeq(a, 0 + 1, m)) = m - 0
      /\ \A i \in 1..(m - 0) : SubSeq(a, 0 + 1, m)[i] = a[0 + i]
  <2> DEFINE z == 0
  <2>1. z \in Nat /\ z <= m
    BY <1>1
  <2> HIDE DEF z
  <2>2. /\ IsSeq(SubSeq(a, z + 1, m)) /\ Len(SubSeq(a, z + 1, m)) = m - z
        /\ \A i \in 1..(m - z) : SubSeq(a, z + 1, m)[i] = a[z + i]
    BY <1>1, <2>1, PartIs
  <2> QED BY <2>2 DEF z
<1>3. /\ IsSeq(SubSeq(a, 0 + 1, n)) /\ Len(SubSeq(a, 0 + 1, n)) = n - 0
      /\ \A i \in 1..(n - 0) : SubSeq(a, 0 + 1, n)[i] = a[0 + i]
  <2> DEFINE z == 0
  <2>1. z \in Nat /\ z <= n
    BY <1>1
  <2> HIDE DEF z
  <2>2. /\ IsSeq(SubSeq(a, z + 1, n)) /\ Len(SubSeq(a, z + 1, n)) = n - z
        /\ \A i \in 1..(n - z) : SubSeq(a, z + 1, n)[i] = a[z + i]
    BY <1>1, <2>1, PartIs
  <2> QED BY <2>2 DEF z
<1>4. IsSeq(p) /\ Len(p) = m /\ \A i \in 1..m : p[i] = a[i]
  BY <1>1, <1>2
<1>5. IsSeq(r) /\ Len(r) = n /\ \A i \in 1..n : r[i] = a[i]
  BY <1>1, <1>3
<1>6. IsSeq(q) /\ Len(q) = n - m /\ \A i \in 1..(n - m) : q[i] = a[m + i]
  BY PartIs
<1> HIDE DEF p, q, r
<1>7. /\ IsSeq(p \o q) /\ Len(p \o q) = m + (n - m)
      /\ \A i \in 1..m : (p \o q)[i] = a[i]
      /\ \A i \in 1..(n - m) : (p \o q)[m + i] = a[m + i]
  BY <1>4, <1>6, Concatenated
<1> DEFINE c == p \o q
<1> HIDE DEF c
<1>8. \A i \in 1..n : c[i] = r[i]
  <2> TAKE i \in 1..n
  <2>1. CASE i <= m
    <3>1. i \in 1..m
      BY <2>1
    <3> QED BY <1>5, <1>7, <3>1 DEF c
  <2>2. CASE ~(i <= m)
    <3> DEFINE j == i - m
    <3>1. j \in 1..(n - m) /\ m + j = i
      BY <2>2
    <3> HIDE DEF j
    <3>2. c[m + j] = a[m + j]
      BY <1>7, <3>1 DEF c
    <3> QED BY <1>5, <3>1, <3>2
  <2> QED BY <2>1, <2>2
<1>9. p \o q = r
  <2>1. Len(c) = n /\ IsSeq(c)
    BY <1>7 DEF c
  <2>2. c = r
    BY <1>5, <1>8, <2>1, SameSeq
  <2> QED BY <2>2 DEF c
<1> QED BY <1>9 DEF p, q, r

-----------------------------------------------------------------------------
(* The other lossless encodings.                                           *)
LEMMA PlanesInverse ==
  ASSUME NEW words \in Shorts
  PROVE  bf16_plane_inverse(bf16_plane_transform(words)) = words
<1> DEFINE n == Len(words)
           a == [i \in 1..n |-> words[i] \div 256]
           b == [i \in 1..n |-> words[i] % 256]
           s == a \o b
<1>1. n \in Nat /\ words = [i \in 1..n |-> words[i]] /\ \A i \in 1..n : words[i] \in Nat
  <2>1. \A i \in 1..n : words[i] \in Unsigned(16)
    BY DEF Shorts
  <2>2. \A i \in 1..n : words[i] \in Nat
    BY <2>1, WordBits
  <2> QED BY <2>2 DEF Shorts
<1>2. bf16_plane_transform(words) = s
  BY DEF bf16_plane_transform
<1>3. /\ IsSeq(a) /\ Len(a) = n /\ \A i \in 1..n : a[i] = words[i] \div 256
      /\ IsSeq(b) /\ Len(b) = n /\ \A i \in 1..n : b[i] = words[i] % 256
  <2> HIDE DEF n
  <2>1. /\ DOMAIN a = 1..n /\ a = [i \in 1..n |-> a[i]] /\ DOMAIN b = 1..n
        /\ b = [i \in 1..n |-> b[i]]
        /\ \A i \in 1..n : a[i] = words[i] \div 256 /\ b[i] = words[i] % 256
    OBVIOUS
  <2> HIDE DEF a, b
  <2> QED BY <1>1, <2>1, FunctionIsSeq
<1> HIDE DEF n, a, b
<1>4. /\ Len(s) = n + n
      /\ \A i \in 1..n : s[i] = a[i] /\ s[n + i] = b[i]
  BY <1>3, Concatenated
<1> HIDE DEF s
<1>5. Len(s) \div 2 = n /\ Len(s) % 2 = 0
  BY <1>1, <1>4
<1>6. bf16_plane_inverse(s) = [i \in 1..n |-> 256 * s[i] + s[n + i]]
  BY <1>5 DEF bf16_plane_inverse
<1>7. ASSUME NEW i \in 1..n
      PROVE  256 * s[i] + s[n + i] = words[i]
  <2> DEFINE w == words[i]
  <2>1. s[i] = w \div 256 /\ s[n + i] = w % 256 /\ w \in Nat
    BY <1>1, <1>3, <1>4
  <2> HIDE DEF w
  <2>2. 256 * (w \div 256) + (w % 256) = w
    <3> DEFINE d == 256
    <3>1. d \in Nat \ {0}
      OBVIOUS
    <3> HIDE DEF d
    <3>2. w = d * (w \div d) + (w % d)
      BY <2>1, <3>1, Division
    <3> QED BY <3>2 DEF d
  <2> QED BY <2>1, <2>2 DEF w
<1>8. [i \in 1..n |-> 256 * s[i] + s[n + i]] = [i \in 1..n |-> words[i]]
  BY <1>7
<1> QED BY <1>1, <1>2, <1>6, <1>8

LEMMA MaxIs ==
  ASSUME NEW n \in Nat, NEW S \in SUBSET (1..n), S # {}
  PROVE  Max(S) \in S
<1> DEFINE T == {k \in Nat : \E x \in S : k = n - x}
<1>1. T \in SUBSET Nat /\ T # {}
  <2>1. PICK x \in S : TRUE
    OBVIOUS
  <2>2. n - x \in T
    BY <2>1
  <2> QED BY <2>2
<1>2. PICK k \in T : \A j \in T : k <= j
  <2> HIDE DEF T
  <2> QED BY <1>1, LeastElement
<1>3. PICK x \in S : k = n - x
  BY <1>2
<1>4. ASSUME NEW y \in S
      PROVE  x >= y
  <2>1. n - y \in T
    OBVIOUS
  <2>2. k <= n - y
    BY <1>2, <2>1
  <2> QED BY <1>3, <2>2
<1>5. \E z \in S : \A y \in S : z >= y
  BY <1>4
<1> QED BY <1>5 DEF Max

LEMMA MinOfTwo ==
  ASSUME NEW a \in Int, NEW b \in Int
  PROVE  Min({a, b}) = IF a <= b THEN a ELSE b
<1> DEFINE m == IF a <= b THEN a ELSE b
<1>1. m \in {a, b} /\ \A y \in {a, b} : m <= y
  OBVIOUS
<1>2. Min({a, b}) = CHOOSE x \in {a, b} : \A y \in {a, b} : x <= y
  BY Zenon DEF Min
<1>3. Min({a, b}) \in {a, b} /\ \A y \in {a, b} : Min({a, b}) <= y
  <2> HIDE DEF m
  <2> QED BY <1>1, <1>2
<1> QED BY <1>3

(* A run is of one word, and within the words.                             *)
LEMMA RunIs ==
  ASSUME NEW words \in Shorts, NEW from \in Nat, from < Len(words)
  PROVE  /\ RunAt(words, from) \in 1..(Len(words) - from)
         /\ \A k \in 1..RunAt(words, from) : words[from + k] = words[from + 1]
<1> DEFINE rest == Len(words) - from
           n == Min({rest, MaxRun})
           S == {m \in 1..n : \A k \in 1..m : words[from + k] = words[from + 1]}
<1>1. rest \in Nat /\ rest >= 1
  BY DEF Shorts
<1> HIDE DEF rest
<1>2. n \in Nat /\ n <= rest /\ n >= 1
  <2>1. MaxRun \in Nat /\ MaxRun # 0
    BY CodecAssumption
  <2>2. Min({rest, MaxRun}) = IF rest <= MaxRun THEN rest ELSE MaxRun
    BY <1>1, <2>1, MinOfTwo
  <2> QED BY <1>1, <2>1, <2>2
<1>3. RunAt(words, from) = Max(S)
  BY Zenon DEF RunAt, rest
<1> HIDE DEF n
<1>4. S \in SUBSET (1..n) /\ 1 \in S
  <2>1. 1 \in 1..n /\ \A k \in 1..1 : k = 1
    BY <1>2
  <2> QED BY <2>1
<1>5. Max(S) \in S
  <2> HIDE DEF S
  <2> QED BY <1>2, <1>4, MaxIs
<1>6. ASSUME NEW m \in S
      PROVE  m \in 1..rest /\ \A k \in 1..m : words[from + k] = words[from + 1]
  BY <1>1, <1>2
<1> QED BY <1>3, <1>5, <1>6 DEF rest

(* A flattened sequence with one more.                                     *)
LEMMA FlattenOneMore ==
  ASSUME NEW n \in Nat, NEW a, NEW b, Len(a) = n, Len(b) = n + 1,
         \A i \in 1..n : b[i] = a[i]
  PROVE  /\ n = 0 => FlattenSeq(b) = b[1]
         /\ n # 0 => FlattenSeq(b) = FlattenSeq(a) \o b[n + 1]
<1> DEFINE o == n + 1
<1>1. o \in Nat \ {0} /\ o \in 1..o /\ o - 1 = n /\ Len(b) = o
  OBVIOUS
<1>5. (n = 0 => o = 1) /\ (n # 0 => o # 1) /\ \A k \in 1..n : k \in 1..o
  OBVIOUS
<1> HIDE DEF o
<1>2. PICK g : FlattenSeq(b) = g[o] /\ Flat(g, b, o)
  BY <1>1, FlattenIs
<1>3. CASE n = 0
  <2>1. g[o] = b[o]
    BY <1>1, <1>2, <1>3, <1>5 DEF Flat
  <2> QED BY <1>2, <1>3, <1>5, <2>1
<1>4. CASE n # 0
  <2>1. n \in Nat \ {0}
    BY <1>4
  <2>2. PICK f : FlattenSeq(a) = f[n] /\ Flat(f, a, n)
    BY <2>1, FlattenIs
  <2> DEFINE T == {k \in Nat : k \in 1..n /\ f[k] # g[k]}
  <2>3. T = {}
    <3>1. SUFFICES ASSUME T # {} PROVE FALSE
      OBVIOUS
    <3>2. PICK k \in T : \A j \in T : k <= j
      <4>1. T \in SUBSET Nat /\ T # {}
        BY <3>1
      <4> HIDE DEF T
      <4> QED BY <4>1, LeastElement
    <3>3. k \in 1..n /\ k \in 1..o
      BY <3>2, <1>5
    <3>4. CASE k = 1
      <4>1. f[k] = a[k]
        BY <2>2, <3>3, <3>4 DEF Flat
      <4>2. g[k] = b[k]
        BY <1>2, <3>3, <3>4 DEF Flat
      <4> QED BY <3>2, <3>3, <4>1, <4>2
    <3>5. CASE k # 1
      <4>1. f[k] = f[k - 1] \o a[k]
        BY <2>2, <3>3, <3>5 DEF Flat
      <4>4. g[k] = g[k - 1] \o b[k]
        BY <1>2, <3>3, <3>5 DEF Flat
      <4>2. k - 1 \in 1..n /\ k - 1 \in Nat /\ ~(k <= k - 1)
        BY <3>3, <3>5
      <4>3. f[k - 1] = g[k - 1]
        BY <3>2, <4>2
      <4> QED BY <3>2, <3>3, <4>1, <4>3, <4>4
    <3> QED BY <3>4, <3>5
  <2>4. f[n] = g[n]
    <3>1. n \in 1..n
      BY <2>1
    <3> QED BY <2>3, <3>1
  <2>5. o # 1
    BY <1>4, <1>5
  <2>6. g[o] = g[o - 1] \o b[o]
    BY <1>1, <1>2, <2>5 DEF Flat
  <2> QED BY <1>1, <1>2, <2>2, <2>4, <2>6, <1>4 DEF o
<1> QED BY <1>3, <1>4

RunOf(s, p) == [i \in 1..Word(s, 4 * (p - 1)) |-> Word(s, 4 * (p - 1) + 2)]
Runs(s) == [p \in 1..(Len(s) \div 4) |-> RunOf(s, p)]

(* One run more in the bytes is the words of that run more.                *)
LEMMA RunsStep ==
  ASSUME NEW words \in Shorts, NEW from \in Nat, from < Len(words),
         NEW s \in Seq(Nat), WholeRuns(s), decode_bf16_rle(s) = SubSeq(words, 1, from)
  PROVE  LET t == s \o encode_bf16_rle(words, from) IN
         /\ t \in Seq(Nat) /\ WholeRuns(t)
         /\ decode_bf16_rle(t) = SubSeq(words, 1, from + RunAt(words, from))
<1> DEFINE n == RunAt(words, from)
           v == words[from + 1]
           e == Bytes(n) \o Bytes(v)
           t == s \o e
           r == Len(s) \div 4
<1>1. /\ n \in Nat /\ n >= 1 /\ from + n <= Len(words)
      /\ \A k \in 1..n : words[from + k] = v
  <2>1. /\ n \in 1..(Len(words) - from)
        /\ \A k \in 1..n : words[from + k] = words[from + 1]
    BY RunIs
  <2> HIDE DEF n
  <2> QED BY <2>1 DEF Shorts
<1>2. v \in Nat
  <2>1. from + 1 \in 1..Len(words)
    BY DEF Shorts
  <2>2. v \in Unsigned(16)
    BY <2>1 DEF Shorts
  <2> QED BY <2>2, WordBits
<1>3. encode_bf16_rle(words, from) = e
  BY DEF encode_bf16_rle
<1> HIDE DEF n, v
<1>4. /\ Bytes(n) \in Seq(Nat) /\ Len(Bytes(n)) = 2 /\ Bytes(n)[1] + 256 * Bytes(n)[2] = n
      /\ Bytes(v) \in Seq(Nat) /\ Len(Bytes(v)) = 2 /\ Bytes(v)[1] + 256 * Bytes(v)[2] = v
  <2>1. Bytes(n) \in Seq(Nat) /\ Len(Bytes(n)) = 2 /\ Bytes(n)[1] + 256 * Bytes(n)[2] = n
    BY <1>1, BytesAre, ZenonT(30)
  <2>2. Bytes(v) \in Seq(Nat) /\ Len(Bytes(v)) = 2 /\ Bytes(v)[1] + 256 * Bytes(v)[2] = v
    BY <1>2, BytesAre, ZenonT(30)
  <2> QED BY <2>1, <2>2, Zenon
<1>5. /\ e \in Seq(Nat) /\ Len(e) = 4 /\ e[1] + 256 * e[2] = n /\ e[3] + 256 * e[4] = v
  <2> DEFINE a == Bytes(n)
             b == Bytes(v)
  <2> HIDE DEF a, b
  <2>1. /\ a \o b \in Seq(Nat) /\ Len(a \o b) = Len(a) + Len(b)
        /\ \A i \in 1..Len(a) : (a \o b)[i] = a[i]
        /\ \A i \in 1..Len(b) : (a \o b)[Len(a) + i] = b[i]
    <3>1. a \in Seq(Nat) /\ b \in Seq(Nat)
      BY <1>4 DEF a, b
    <3> QED BY <3>1, BytesFollow
  <2> DEFINE c == a \o b
  <2> HIDE DEF c
  <2>2. 1 \in 1..2 /\ 2 \in 1..2 /\ 2 + 1 = 3 /\ 2 + 2 = 4 /\ Len(a) = 2 /\ Len(b) = 2
    BY <1>4 DEF a, b
  <2>3. c[1] = a[1] /\ c[2] = a[2]
    BY <2>1, <2>2 DEF c
  <2>4. c[2 + 1] = b[1] /\ c[2 + 2] = b[2]
    BY <2>1, <2>2 DEF c
  <2>5. c[3] = b[1] /\ c[4] = b[2] /\ Len(c) = 4 /\ c \in Seq(Nat)
    BY <2>1, <2>2, <2>4 DEF c
  <2>6. c = e
    BY DEF a, b, c
  <2>7. a[1] + 256 * a[2] = n /\ b[1] + 256 * b[2] = v
    BY <1>4 DEF a, b
  <2> HIDE DEF e
  <2> QED BY <2>3, <2>5, <2>6, <2>7
<1> HIDE DEF e
<1>6. /\ t \in Seq(Nat) /\ Len(t) = Len(s) + 4
      /\ \A i \in 1..Len(s) : t[i] = s[i]
      /\ \A i \in 1..4 : t[Len(s) + i] = e[i]
  <2>1. /\ s \o e \in Seq(Nat) /\ Len(s \o e) = Len(s) + Len(e)
        /\ \A i \in 1..Len(s) : (s \o e)[i] = s[i]
        /\ \A i \in 1..Len(e) : (s \o e)[Len(s) + i] = e[i]
    BY <1>5, BytesFollow
  <2>2. Len(e) = 4
    BY <1>5
  <2> QED BY <2>1, <2>2, Zenon
<1> HIDE DEF t
<1>7. r \in Nat /\ Len(s) = 4 * r /\ Len(t) \div 4 = r + 1 /\ Len(t) % 4 = 0
  <2> DEFINE l == Len(s)
  <2>1. l \in Nat /\ l % 4 = 0
    <3>1. Len(s) % 4 = 0
      BY Zenon DEF WholeRuns
    <3>2. l \in Nat
      OBVIOUS
    <3> QED BY <3>1, <3>2, Zenon
  <2>2. r = l \div 4 /\ Len(t) = l + 4
    BY <1>6
  <2> HIDE DEF l, r
  <2>3. r \in Nat /\ l = 4 * r /\ (l + 4) \div 4 = r + 1 /\ (l + 4) % 4 = 0
    BY <2>1, <2>2
  <2> QED BY <2>2, <2>3 DEF l
<1> HIDE DEF r
<1>8. Word(t, 4 * r) = n /\ RunOf(t, r + 1) = [i \in 1..n |-> v]
  <2>1. Word(t, 4 * r) = n
    <3>1. 1 \in 1..4 /\ 2 \in 1..4
      OBVIOUS
    <3>2. t[4 * r + 1] = e[1] /\ t[4 * r + 2] = e[2]
      BY <1>6, <1>7, <3>1
    <3> QED BY <1>5, <3>2 DEF Word
  <2>2. Word(t, 4 * r + 2) = v
    <3>1. 3 \in 1..4 /\ 4 \in 1..4 /\ 4 * r + 2 + 1 = 4 * r + 3 /\ 4 * r + 2 + 2 = 4 * r + 4
      BY <1>7
    <3>2. t[4 * r + 3] = e[3] /\ t[4 * r + 4] = e[4]
      BY <1>6, <1>7, <3>1
    <3> QED BY <1>5, <3>1, <3>2 DEF Word
  <2>3. 4 * ((r + 1) - 1) = 4 * r
    BY <1>7
  <2>4. RunOf(t, r + 1) =
          [i \in 1..Word(t, 4 * ((r + 1) - 1)) |-> Word(t, 4 * ((r + 1) - 1) + 2)]
    BY DEF RunOf
  <2> QED BY <2>1, <2>2, <2>3, <2>4, Zenon
<1>9. ASSUME NEW p \in 1..r
      PROVE  RunOf(t, p) = RunOf(s, p) /\ Word(t, 4 * (p - 1)) = Word(s, 4 * (p - 1))
  <2> DEFINE k == 4 * (p - 1)
  <2>1. k \in Nat /\ k + 1 \in 1..Len(s) /\ k + 2 \in 1..Len(s) /\ k + 2 + 1 \in 1..Len(s)
        /\ k + 2 + 2 \in 1..Len(s)
    BY <1>7
  <2> HIDE DEF k
  <2>2. Word(t, k) = Word(s, k) /\ Word(t, k + 2) = Word(s, k + 2)
    <3>1. t[k + 1] = s[k + 1] /\ t[k + 2] = s[k + 2]
      BY <1>6, <2>1, Zenon
    <3>2. t[k + 2 + 1] = s[k + 2 + 1] /\ t[k + 2 + 2] = s[k + 2 + 2]
      BY <1>6, <2>1, Zenon
    <3>3. Word(t, k) = Word(s, k)
      BY <3>1, Zenon DEF Word
    <3>4. Word(t, k + 2) = Word(s, k + 2)
      BY <3>2, Zenon DEF Word
    <3> QED BY <3>3, <3>4, Zenon
  <2> QED BY <2>2 DEF RunOf, k
<1>16. WholeRuns(t)
  <2>1. ASSUME NEW p \in 1..(r + 1)
        PROVE  Word(t, 4 * (p - 1)) # 0
    <3>1. CASE p = r + 1
      <4>1. 4 * (p - 1) = 4 * r
        BY <1>7, <3>1
      <4> QED BY <1>1, <1>8, <4>1
    <3>2. CASE p # r + 1
      <4>1. p \in 1..r
        BY <1>7, <3>2
      <4>2. Word(s, 4 * (p - 1)) # 0
        BY <4>1 DEF WholeRuns, r
      <4> QED BY <1>9, <4>1, <4>2
    <3> QED BY <3>1, <3>2
  <2> QED BY <1>7, <2>1 DEF WholeRuns
<1>10. /\ decode_bf16_rle(s) = FlattenSeq(Runs(s)) /\ decode_bf16_rle(t) = FlattenSeq(Runs(t))
  BY <1>16 DEF decode_bf16_rle, Runs, RunOf
<1>11. /\ Len(Runs(s)) = r /\ Len(Runs(t)) = r + 1 /\ DOMAIN Runs(s) = 1..r
       /\ \A p \in 1..r : Runs(t)[p] = Runs(s)[p]
       /\ Runs(t)[r + 1] = [i \in 1..n |-> v]
  <2> DEFINE m == r + 1
  <2>1. m \in Nat /\ m \in 1..m /\ \A p \in 1..r : p \in 1..m
    BY <1>7
  <2> HIDE DEF m
  <2>2. Runs(s) = [p \in 1..r |-> RunOf(s, p)] /\ Runs(t) = [p \in 1..m |-> RunOf(t, p)]
    BY <1>7 DEF Runs, r, m
  <2>3. Len(Runs(s)) = r /\ DOMAIN Runs(s) = 1..r /\ \A p \in 1..r : Runs(s)[p] = RunOf(s, p)
    BY <1>7, <2>2
  <2>4. Len(Runs(t)) = m /\ \A p \in 1..m : Runs(t)[p] = RunOf(t, p)
    BY <2>1, <2>2
  <2>5. Runs(t)[m] = [i \in 1..n |-> v]
    BY <1>8, <2>1, <2>4 DEF m
  <2> QED BY <1>9, <2>1, <2>3, <2>4, <2>5 DEF m
<1>12. IsSeq(words) /\ from <= Len(words) /\ Len(words) \in Nat
  BY SeqIs DEF Shorts
<1>13. SubSeq(words, from + 1, from + n) = [i \in 1..n |-> v]
  <2> DEFINE a == SubSeq(words, from + 1, from + n)
             b == [i \in 1..n |-> v]
             z == from + n
  <2>1. z \in Nat /\ from <= z /\ z <= Len(words) /\ z - from = n
    BY <1>1
  <2> HIDE DEF z
  <2>2. /\ IsSeq(SubSeq(words, from + 1, z)) /\ Len(SubSeq(words, from + 1, z)) = z - from
        /\ \A i \in 1..(z - from) : SubSeq(words, from + 1, z)[i] = words[from + i]
    BY <1>12, <2>1, PartIs
  <2>3. IsSeq(a) /\ Len(a) = n /\ \A i \in 1..n : a[i] = v
    BY <1>1, <2>1, <2>2 DEF z
  <2>4. DOMAIN b = 1..n /\ b = [i \in 1..n |-> b[i]] /\ \A i \in 1..n : b[i] = v
    OBVIOUS
  <2> HIDE DEF a, b
  <2>5. IsSeq(b) /\ Len(b) = n
    BY <1>1, <2>4, FunctionIsSeq
  <2>6. a = b
    BY <2>3, <2>4, <2>5, SameSeq
  <2> QED BY <2>6 DEF a, b
<1>14. SubSeq(words, 1, from) \o [i \in 1..n |-> v] = SubSeq(words, 1, from + n)
  <2> DEFINE z == from + n
  <2>1. z \in Nat /\ from <= z /\ z <= Len(words)
    BY <1>1
  <2> HIDE DEF z
  <2>2. SubSeq(words, 1, from) \o SubSeq(words, from + 1, z) = SubSeq(words, 1, z)
    BY <1>12, <2>1, Longer
  <2> QED BY <1>13, <2>2 DEF z
<1>15. decode_bf16_rle(t) = SubSeq(words, 1, from + n)
  <2>1. /\ r = 0 => FlattenSeq(Runs(t)) = Runs(t)[1]
        /\ r # 0 => FlattenSeq(Runs(t)) = FlattenSeq(Runs(s)) \o Runs(t)[r + 1]
    <3> DEFINE a == Runs(s)
               b == Runs(t)
    <3>1. Len(a) = r /\ Len(b) = r + 1 /\ \A p \in 1..r : b[p] = a[p]
      BY <1>11
    <3> HIDE DEF a, b
    <3>2. /\ r = 0 => FlattenSeq(b) = b[1]
          /\ r # 0 => FlattenSeq(b) = FlattenSeq(a) \o b[r + 1]
      BY <1>7, <3>1, FlattenOneMore
    <3> QED BY <3>2 DEF a, b
  <2>2. CASE r = 0
    <3>1. FlattenSeq(Runs(s)) = Runs(s) /\ Len(Runs(s)) = 0
      BY <1>11, <2>2 DEF FlattenSeq
    <3>2. Len(SubSeq(words, 1, from)) = from
      BY <1>12 DEF Shorts
    <3>3. from = 0
      BY <1>10, <3>1, <3>2
    <3>4. Runs(t)[1] = [i \in 1..n |-> v]
      BY <1>11, <2>2
    <3> QED BY <1>1, <1>10, <1>13, <2>1, <2>2, <3>3, <3>4
  <2>3. CASE r # 0
    BY <1>10, <1>11, <1>14, <2>1, <2>3
  <2> QED BY <2>2, <2>3
<1> QED BY <1>3, <1>6, <1>15, <1>16 DEF t, n

-----------------------------------------------------------------------------
(* The tiles of a packed matrix.                                           *)
LEMMA Multiples ==
  ASSUME NEW size \in Nat, NEW a \in Nat, NEW b \in Nat, a <= b
  PROVE  a * size \in Nat /\ b * size \in Nat /\ a * size <= b * size
<1>1. PICK d \in Nat : b = a + d
  <2>1. b - a \in Nat /\ b = a + (b - a)
    OBVIOUS
  <2> QED BY <2>1
<1>2. b * size = a * size + d * size /\ d * size \in Nat /\ a * size \in Nat
  BY <1>1
<1> QED BY <1>2

LEMMA ShortsPart ==
  ASSUME NEW words \in Shorts, NEW m \in Nat, NEW n \in Nat, m <= n, n <= Len(words)
  PROVE  SubSeq(words, m + 1, n) \in Shorts
<1> DEFINE S == Unsigned(16)
<1>1. words \in Seq(S)
  BY DEF Shorts
<1> HIDE DEF S
<1>2. SubSeq(words, m + 1, n) \in Seq(S)
  BY <1>1
<1> QED BY <1>2 DEF Shorts, S

LEMMA TileIs ==
  ASSUME NEW words \in Shorts, NEW size \in Nat \ {0}, NEW t \in Nat \ {0},
         (t - 1) * size < Len(words)
  PROVE  /\ (t - 1) * size \in Nat
         /\ EndOf(words, size, t) \in Nat /\ (t - 1) * size < EndOf(words, size, t)
         /\ EndOf(words, size, t) <= Len(words)
         /\ TileOf(words, size, t) \in Shorts
         /\ IsSeq(TileOf(words, size, t))
         /\ Len(TileOf(words, size, t)) = EndOf(words, size, t) - (t - 1) * size
         /\ Len(TileOf(words, size, t)) > 0
         /\ \A k \in 1..Len(TileOf(words, size, t)) :
              TileOf(words, size, t)[k] = words[(t - 1) * size + k]
<1> DEFINE b == (t - 1) * size
           e == EndOf(words, size, t)
           u == t * size
<1>1. b \in Nat /\ u = b + size
  <2>1. t - 1 \in Nat /\ t = (t - 1) + 1
    OBVIOUS
  <2> DEFINE p == t - 1
  <2> HIDE DEF p
  <2>2. p \in Nat /\ t = p + 1
    BY <2>1 DEF p
  <2>3. p * size \in Nat /\ (p + 1) * size = p * size + size
    BY <2>2
  <2> QED BY <2>2, <2>3 DEF p
<1>2. Len(words) \in Nat /\ IsSeq(words)
  BY SeqIs DEF Shorts
<1>3. e = IF u <= Len(words) THEN u ELSE Len(words)
  BY DEF EndOf
<1>4. b < Len(words)
  OBVIOUS
<1> HIDE DEF b, u, e
<1>5. e \in Nat /\ b < e /\ e <= Len(words)
  BY <1>1, <1>2, <1>3, <1>4
<1>6. TileOf(words, size, t) = SubSeq(words, b + 1, e)
  BY DEF TileOf, b, e
<1>7. /\ IsSeq(SubSeq(words, b + 1, e)) /\ Len(SubSeq(words, b + 1, e)) = e - b
      /\ \A i \in 1..(e - b) : SubSeq(words, b + 1, e)[i] = words[b + i]
  <2>1. b <= e
    BY <1>1, <1>5
  <2> QED BY <1>1, <1>2, <1>5, <2>1, PartIs
<1>8. SubSeq(words, b + 1, e) \in Shorts
  BY <1>1, <1>5, ShortsPart
<1>9. e - b > 0
  BY <1>1, <1>5
<1> QED BY <1>1, <1>5, <1>6, <1>7, <1>8, <1>9 DEF b, e

(* A packed tile in the middle of the bytes.                               *)
LEMMA PackedWithin ==
  ASSUME NEW words \in Shorts, Len(words) > 0, NEW s \in Seq(Nat), NEW base \in Nat,
         NEW e, base + PackedLength(words) <= Len(s),
         e = SubSeq(s, base + 1, base + PackedLength(words)),
         PackedAt(e, 0, words)
  PROVE  PackedAt(s, base, words)
<1> DEFINE L == PackedLength(words)
           V == Varying(words)
           total == Len(words) * Width(words)
           nb == (total + 7) \div 8
<1>1. total \in Nat
  BY Encoded
<1>2. L = 4 + nb
  BY DEF PackedLength
<1> HIDE DEF total, L
<1>3. nb \in Nat /\ \A k \in 0..(total - 1) : k \div 8 \in Nat /\ k \div 8 + 1 \in 1..nb
  BY <1>1
<1> HIDE DEF nb
<1>4. ASSUME NEW j \in 1..L
      PROVE  e[j] = s[base + j]
  <2>1. base + L \in Nat /\ base <= base + L /\ base + L <= Len(s) /\ (base + L) - base = L
    BY <1>2, <1>3 DEF L
  <2>2. IsSeq(s)
    BY SeqIs
  <2> DEFINE z == base + L
  <2>3. z \in Nat /\ base <= z /\ z <= Len(s) /\ z - base = L
    BY <2>1
  <2> HIDE DEF z
  <2>4. \A i \in 1..(z - base) : SubSeq(s, base + 1, z)[i] = s[base + i]
    BY <2>2, <2>3, PartIs
  <2>5. e = SubSeq(s, base + 1, z)
    BY DEF z, L
  <2> QED BY <2>3, <2>4, <2>5
<1>5. 1 \in 1..L /\ 2 \in 1..L /\ 3 \in 1..L /\ 4 \in 1..L
  BY <1>2, <1>3
<1>6. e[1] = s[base + 1] /\ e[2] = s[base + 2] /\ e[3] = s[base + 3] /\ e[4] = s[base + 4]
  BY <1>4, <1>5
<1>7. Word(s, base) = Word(e, 0) /\ Word(s, base + 2) = Word(e, 0 + 2)
  <2>1. s[base + 1] = e[0 + 1] /\ s[base + 2] = e[0 + 2]
    <3>1. 0 + 1 = 1 /\ 0 + 2 = 2
      OBVIOUS
    <3> QED BY <1>6, <3>1, Zenon
  <2>2. s[base + 2 + 1] = e[0 + 2 + 1] /\ s[base + 2 + 2] = e[0 + 2 + 2]
    <3>1. base + 2 + 1 = base + 3 /\ base + 2 + 2 = base + 4 /\ 0 + 2 + 1 = 3 /\ 0 + 2 + 2 = 4
      OBVIOUS
    <3> QED BY <1>6, <3>1, Zenon
  <2>3. Word(s, base) = Word(e, 0)
    BY <2>1, Zenon DEF Word
  <2>4. Word(s, base + 2) = Word(e, 0 + 2)
    BY <2>2, Zenon DEF Word
  <2> QED BY <2>3, <2>4, Zenon
<1>8. ASSUME NEW i \in 1..Len(words), NEW b \in V
      PROVE  Bit(s[base + 4 + Cursor(i - 1, b, V) \div 8 + 1], Cursor(i - 1, b, V) % 8) = 1
               <=> b \in BitsOf(words[i])
  <2> DEFINE k == Cursor(i - 1, b, V)
             w == Cardinality(V)
  <2>1. V \in SUBSET (0..15) /\ i - 1 \in Nat /\ i - 1 < Len(words) /\ Len(words) \in Nat
        /\ w = Width(words) /\ b \in V
    BY <1>8, InvariantIs DEF Shorts, Width
  <2>2. k \in Nat /\ k < Len(words) * w
    <3> HIDE DEF V
    <3> QED BY <2>1, CursorIs
  <2>3. k \in 0..(total - 1)
    BY <1>1, <2>1, <2>2 DEF total
  <2>4. Bit(e[0 + 4 + k \div 8 + 1], k % 8) = 1 <=> b \in BitsOf(words[i])
    BY <1>8 DEF PackedAt
  <2> HIDE DEF k
  <2> DEFINE j == 4 + k \div 8 + 1
  <2>5. j \in 1..L /\ 0 + 4 + k \div 8 + 1 = j /\ base + 4 + k \div 8 + 1 = base + j
    BY <1>2, <1>3, <2>3
  <2> HIDE DEF j
  <2>6. e[j] = s[base + j]
    BY <1>4, <2>5
  <2> QED BY <2>4, <2>5, <2>6 DEF k
<1>9. Word(e, 0) = Number(Invariant(words)) /\ Word(e, 0 + 2) = Number(Constants(words))
  BY DEF PackedAt
<1> QED BY <1>7, <1>8, <1>9 DEF PackedAt

(* The kernel reads every word of the tiles there are.                     *)
LEMMA TilesReadable ==
  ASSUME NEW words \in Shorts, NEW columns \in Nat \ {0}, NEW tile \in Nat \ {0},
         NEW size, size = tile * columns, NEW m \in Nat, NEW s, NEW starts,
         Packs(words, size, s, starts, m), NEW i \in 1..EndOf(words, size, m)
  PROVE  si_bf16_bitpack_value(s, starts, (i - 1) \div columns, (i - 1) % columns, columns, tile)
           = words[i]
<1> DEFINE row == (i - 1) \div columns
           column == (i - 1) % columns
           q == row \div tile
           rr == row % tile
           place == rr * columns + column
           t == q + 1
           T == TileOf(words, size, t)
<1>1. size \in Nat \ {0} /\ Len(words) \in Nat
  BY DEF Shorts
<1>2. m * size \in Nat /\ i \in Nat /\ i >= 1 /\ i <= m * size /\ i <= Len(words)
  <2>1. m * size \in Nat
    BY <1>1
  <2> QED BY <1>1, <2>1 DEF EndOf
<1>3. /\ row \in Nat /\ column \in Nat /\ column <= columns - 1
      /\ i - 1 = columns * row + column
  <2> DEFINE x == i - 1
  <2>1. x \in Nat
    BY <1>2
  <2> HIDE DEF x
  <2>2. x % columns \in 0..(columns - 1) /\ x \div columns \in Nat
        /\ x = columns * (x \div columns) + (x % columns)
    BY <2>1, Division
  <2> QED BY <2>2 DEF x
<1> HIDE DEF row, column
<1>4. q \in Nat /\ rr \in Nat /\ rr <= tile - 1 /\ row = tile * q + rr
  <2>1. row % tile \in 0..(tile - 1) /\ row \div tile \in Nat
        /\ row = tile * (row \div tile) + (row % tile)
    BY <1>3, Division
  <2> QED BY <2>1
<1> HIDE DEF q, rr
<1>5. /\ q * size \in Nat /\ place \in Nat /\ place < size /\ i - 1 = q * size + place
  <2>1. columns * row = columns * (tile * q) + columns * rr
    BY <1>4
  <2>2. columns * (tile * q) = q * size /\ q * size \in Nat
    BY <1>1, <1>4
  <2>3. columns * rr = rr * columns /\ rr * columns \in Nat
    BY <1>4
  <2>4. rr * columns <= (tile - 1) * columns
    <3> DEFINE a == tile - 1
    <3>1. a \in Nat /\ rr <= a
      BY <1>4
    <3> HIDE DEF a
    <3>2. rr * columns <= a * columns
      BY <1>4, <3>1, Multiples
    <3> QED BY <3>2 DEF a
  <2>5. (tile - 1) * columns = size - columns
    OBVIOUS
  <2> DEFINE y == rr * columns
             z == q * size
  <2>6. y \in Nat /\ y <= size - columns /\ columns * row = z + y /\ z \in Nat
    BY <2>1, <2>2, <2>3, <2>4, <2>5
  <2> HIDE DEF y, z
  <2>7. y + column \in Nat /\ y + column < size /\ i - 1 = z + (y + column)
    BY <1>1, <1>3, <2>6
  <2> QED BY <2>6, <2>7 DEF y, z
<1> HIDE DEF place
<1>6. q < m
  <2>1. CASE m <= q
    <3>1. m * size <= q * size
      BY <1>1, <1>4, <2>1, Multiples
    <3> DEFINE y == m * size
               z == q * size
    <3>2. y <= z /\ z + place = i - 1 /\ i <= y /\ place \in Nat /\ z \in Nat /\ y \in Nat /\ i \in Nat
      BY <1>2, <1>5, <3>1
    <3> HIDE DEF y, z
    <3> QED BY <3>2
  <2> QED BY <1>4, <2>1
<1>7. t \in 1..m /\ t \in Nat \ {0} /\ t - 1 = q
  BY <1>4, <1>6
<1>8. q * size < Len(words)
  <2> DEFINE z == q * size
  <2>1. z \in Nat /\ z + place = i - 1 /\ i <= Len(words) /\ place \in Nat /\ i \in Nat
    BY <1>2, <1>5
  <2> HIDE DEF z
  <2>2. z < Len(words)
    BY <1>1, <2>1
  <2> QED BY <2>2 DEF z
<1>9. /\ T \in Shorts /\ Len(T) > 0
      /\ Len(T) = EndOf(words, size, t) - q * size
      /\ \A k \in 1..Len(T) : T[k] = words[q * size + k]
  <2>1. (t - 1) * size < Len(words)
    BY <1>7, <1>8
  <2> HIDE DEF t, T
  <2>2. /\ TileOf(words, size, t) \in Shorts /\ Len(TileOf(words, size, t)) > 0
        /\ Len(TileOf(words, size, t)) = EndOf(words, size, t) - (t - 1) * size
        /\ \A k \in 1..Len(TileOf(words, size, t)) :
             TileOf(words, size, t)[k] = words[(t - 1) * size + k]
    BY <1>1, <1>7, <2>1, TileIs
  <2> QED BY <1>7, <2>2 DEF T
<1>10. place + 1 \in 1..Len(T) /\ T[place + 1] = words[i]
  <2> DEFINE z == q * size
             u == t * size
  <2>1. u = z + size
    BY <1>1, <1>4
  <2>2. EndOf(words, size, t) = IF u <= Len(words) THEN u ELSE Len(words)
    BY DEF EndOf
  <2>3. z \in Nat /\ z + place = i - 1 /\ i <= Len(words) /\ place \in Nat /\ i \in Nat /\ place < size
    BY <1>2, <1>5
  <2>4. Len(T) = EndOf(words, size, t) - z /\ \A k \in 1..Len(T) : T[k] = words[z + k]
    BY <1>9
  <2> HIDE DEF z, u, T, t
  <2>5. place + 1 \in 1..(EndOf(words, size, t) - z) /\ z + (place + 1) = i
    BY <1>1, <2>1, <2>2, <2>3
  <2> QED BY <2>4, <2>5
<1>11. /\ starts[t] \in Nat
       /\ starts[t + 1] = starts[t] + PackedLength(T) /\ starts[t + 1] <= Len(s)
       /\ SubSeq(s, starts[t] + 1, starts[t + 1]) = encode_bf16_bitpack(T)
       /\ s \in Seq(Nat)
  <2>1. /\ starts \in Seq(Nat) /\ Len(starts) = m + 1 /\ s \in Seq(Nat)
        /\ \A k \in 1..m :
             /\ starts[k + 1] = starts[k] + PackedLength(TileOf(words, size, k))
             /\ starts[k + 1] <= Len(s)
             /\ SubSeq(s, starts[k] + 1, starts[k + 1]) = encode_bf16_bitpack(TileOf(words, size, k))
    BY Zenon DEF Packs
  <2> HIDE DEF t
  <2>2. starts[t] \in Nat
    <3>1. t \in 1..Len(starts)
      BY <1>7, <2>1
    <3>3. starts \in Seq(Nat)
      BY <2>1
    <3>2. \A k \in 1..Len(starts) : starts[k] \in Nat
      BY <3>3
    <3> QED BY <3>1, <3>2
  <2> QED BY <1>7, <2>1, <2>2 DEF T
<1> HIDE DEF T
<1>12. PackedAt(s, starts[t], T)
  <2> DEFINE base == starts[t]
             e == encode_bf16_bitpack(T)
  <2>1. PackedAt(e, 0, T)
    BY <1>9, Encoded
  <2>2. base \in Nat /\ base + PackedLength(T) <= Len(s) /\ s \in Seq(Nat)
        /\ e = SubSeq(s, base + 1, base + PackedLength(T))
    BY <1>11
  <2> HIDE DEF base, e
  <2>3. PackedAt(s, base, T)
    BY <1>9, <2>1, <2>2, PackedWithin
  <2> QED BY <2>3 DEF base
<1>13. /\ PlaceInTile(row, column, columns, tile) = (place + 1) - 1
       /\ TileStart(starts, row, tile) = starts[t]
       /\ TileEnd(starts, row, tile) = starts[t] + PackedLength(T)
  <2>1. PlaceInTile(row, column, columns, tile) = place
    BY Zenon DEF PlaceInTile, place, rr
  <2>2. TileStart(starts, row, tile) = starts[t]
    BY Zenon DEF TileStart, t, q
  <2>3. TileEnd(starts, row, tile) = starts[q + 2]
    BY Zenon DEF TileEnd, q
  <2>4. q + 2 = t + 1 /\ (place + 1) - 1 = place
    BY <1>4, <1>5
  <2> QED BY <1>11, <2>1, <2>2, <2>3, <2>4
<1> DEFINE j == place + 1
           base == starts[t]
<1>14. j \in 1..Len(T) /\ base \in Nat /\ T[j] = words[i]
  BY <1>10, <1>11
<1>15. PlaceInTile(row, column, columns, tile) = j - 1
       /\ TileStart(starts, row, tile) = base
       /\ TileEnd(starts, row, tile) = base + PackedLength(T)
       /\ PackedAt(s, base, T)
  BY <1>12, <1>13
<1> HIDE DEF j, base
<1>16. si_bf16_bitpack_value(s, starts, row, column, columns, tile) = T[j]
  BY <1>3, <1>9, <1>14, <1>15, CutOutIs
<1> QED BY <1>14, <1>16 DEF row, column

(* One tile more.                                                          *)
LEMMA TilesStep ==
  ASSUME NEW words \in Shorts, NEW size \in Nat \ {0}, NEW m \in Nat, m * size < Len(words),
         NEW s, NEW starts, Packs(words, size, s, starts, m)
  PROVE  LET t == s \o encode_bf16_bitpack(TileOf(words, size, m + 1)) IN
         Packs(words, size, t, Append(starts, Len(t)), m + 1)
<1> DEFINE n == m + 1
           T == TileOf(words, size, n)
           e == encode_bf16_bitpack(T)
           t == s \o e
           more == Append(starts, Len(t))
<1>1. n \in Nat \ {0} /\ n - 1 = m /\ n \in 1..n
  OBVIOUS
<1>2. T \in Shorts /\ Len(T) > 0
  <2>1. (n - 1) * size < Len(words)
    BY <1>1
  <2> HIDE DEF n
  <2> QED BY <1>1, <2>1, TileIs
<1>3. e \in Seq(Nat) /\ Len(e) = PackedLength(T) /\ Len(e) \in Nat
  <2>1. e \in Seq(Nat) /\ Len(e) = PackedLength(T)
    <3> HIDE DEF T
    <3> QED BY <1>2, Encoded
  <2> HIDE DEF e
  <2> QED BY <2>1
<1>4. /\ s \in Seq(Nat) /\ starts \in Seq(Nat) /\ Len(starts) = n /\ starts[n] = Len(s)
      /\ \A k \in 1..m :
           /\ (k - 1) * size < Len(words)
           /\ starts[k + 1] = starts[k] + PackedLength(TileOf(words, size, k))
           /\ starts[k + 1] <= Len(s)
           /\ SubSeq(s, starts[k] + 1, starts[k + 1]) = encode_bf16_bitpack(TileOf(words, size, k))
  BY Zenon DEF Packs
<1> HIDE DEF e, T
<1>5. IsSeq(s) /\ IsSeq(e)
  BY <1>3, <1>4, SeqIs
<1>6. t \in Seq(Nat) /\ Len(t) = Len(s) + Len(e) /\ Len(t) \in Nat /\ Len(s) \in Nat
  <2>1. t \in Seq(Nat) /\ Len(t) = Len(s) + Len(e)
    BY <1>3, <1>4, BytesFollow
  <2> QED BY <1>3, <1>4, <2>1
<1>7. /\ SubSeq(t, Len(s) + 1, Len(s) + Len(e)) = e
      /\ \A a, b \in Nat : a <= b /\ b <= Len(s) => SubSeq(t, a + 1, b) = SubSeq(s, a + 1, b)
  BY <1>5, PartsJoined
<1> HIDE DEF t
<1>8. /\ more \in Seq(Nat) /\ Len(more) = n + 1 /\ more[n + 1] = Len(t)
      /\ \A k \in 1..n : more[k] = starts[k] /\ starts[k] \in Nat
  <2> DEFINE x == Len(t)
  <2>1. x \in Nat /\ starts \in Seq(Nat) /\ Len(starts) = n /\ n \in Nat
    BY <1>1, <1>4, <1>6
  <2> HIDE DEF n, x
  <2>2. /\ Append(starts, x) \in Seq(Nat) /\ Len(Append(starts, x)) = n + 1
        /\ Append(starts, x)[n + 1] = x
        /\ \A k \in 1..n : Append(starts, x)[k] = starts[k] /\ starts[k] \in Nat
    BY <2>1
  <2> QED BY <2>2 DEF x
<1> HIDE DEF more
<1>9. ASSUME NEW k \in 1..n
      PROVE  /\ (k - 1) * size < Len(words)
             /\ more[k + 1] = more[k] + PackedLength(TileOf(words, size, k))
             /\ more[k + 1] <= Len(t)
             /\ SubSeq(t, more[k] + 1, more[k + 1]) = encode_bf16_bitpack(TileOf(words, size, k))
  <2>1. CASE k = n
    <3>1. more[k] = Len(s) /\ more[k + 1] = Len(t)
      BY <1>1, <1>4, <1>8, <2>1
    <3>2. (k - 1) * size < Len(words)
      BY <1>1, <2>1
    <3>3. TileOf(words, size, k) = T
      BY <2>1 DEF T
    <3>4. more[k + 1] = more[k] + PackedLength(T) /\ more[k + 1] <= Len(t)
      BY <1>3, <1>6, <3>1
    <3>5. SubSeq(t, more[k] + 1, more[k + 1]) = e
      BY <1>6, <1>7, <3>1
    <3> HIDE DEF n
    <3> QED BY <3>2, <3>3, <3>4, <3>5 DEF e
  <2>2. CASE k # n
    <3>1. k \in 1..m /\ k + 1 \in 1..n /\ k \in 1..n
      BY <2>2
    <3>2. /\ (k - 1) * size < Len(words)
          /\ starts[k + 1] = starts[k] + PackedLength(TileOf(words, size, k))
          /\ starts[k + 1] <= Len(s)
          /\ SubSeq(s, starts[k] + 1, starts[k + 1]) = encode_bf16_bitpack(TileOf(words, size, k))
      BY <1>4, <3>1
    <3>3. more[k] = starts[k] /\ more[k + 1] = starts[k + 1] /\ starts[k] \in Nat /\ starts[k + 1] \in Nat
      BY <1>8, <3>1
    <3>4. TileOf(words, size, k) \in Shorts /\ Len(TileOf(words, size, k)) > 0
      <4>1. k \in Nat \ {0}
        BY <3>1
      <4> QED BY <3>2, <4>1, TileIs
    <3>5. PackedLength(TileOf(words, size, k)) \in Nat
      <4> DEFINE X == TileOf(words, size, k)
                 x == encode_bf16_bitpack(X)
      <4> HIDE DEF X
      <4>1. X \in Shorts /\ Len(X) > 0
        BY <3>4 DEF X
      <4>2. x \in Seq(Nat) /\ Len(x) = PackedLength(X)
        BY <4>1, Encoded
      <4> HIDE DEF x
      <4>3. Len(x) \in Nat
        BY <4>2
      <4> QED BY <4>2, <4>3 DEF X
    <3> HIDE DEF n
    <3>6. starts[k] <= starts[k + 1]
      <4> DEFINE y == PackedLength(TileOf(words, size, k))
      <4> HIDE DEF y
      <4>1. y \in Nat /\ starts[k + 1] = starts[k] + y
        BY <3>2, <3>5 DEF y
      <4> QED BY <3>3, <4>1
    <3>7. SubSeq(t, starts[k] + 1, starts[k + 1]) = SubSeq(s, starts[k] + 1, starts[k + 1])
      BY <1>7, <3>2, <3>3, <3>6
    <3>8. starts[k + 1] <= Len(t)
      BY <1>3, <1>6, <3>2, <3>3
    <3> QED BY <3>2, <3>3, <3>7, <3>8
  <2> QED BY <2>1, <2>2
<1>10. Packs(words, size, t, more, n)
  <2> HIDE DEF n
  <2> QED BY <1>6, <1>8, <1>9 DEF Packs
<1> QED BY <1>10 DEF t, more, e, T

-----------------------------------------------------------------------------
(* A quantised tensor.                                                     *)
LEMMA FormatsAre ==
  /\ DOMAIN BlockBytes = {"Q4_K", "Q5_K", "Q6_K"}
  /\ BlockBytes["Q4_K"] = 144 /\ BlockBytes["Q5_K"] = 176 /\ BlockBytes["Q6_K"] = 210
BY DEF BlockBytes

LEMMA BlocksAre ==
  ASSUME NEW format \in DOMAIN BlockBytes, NEW bytes, WholeBlocks(format, bytes),
         NEW block \in 0..(BlockCount - 1)
  PROVE  /\ block * BlockBytes[format] \in Nat
         /\ BytesAt(bytes, block * BlockBytes[format], BlockBytes[format])
<1> DEFINE bb == BlockBytes[format]
           total == BlockCount * bb
           base == block * bb
<1>1. bb \in Nat
  BY FormatsAre
<1>2. BlockCount \in Nat
  BY CodecAssumption
<1>4. bytes \in Seq(Unsigned(8)) /\ Len(bytes) = total
  BY DEF WholeBlocks
<1> HIDE DEF bb
<1>3. base \in Nat /\ base + bb <= total /\ total \in Nat
  <2>1. block \in Nat /\ block + 1 <= BlockCount /\ block + 1 \in Nat
    BY <1>2
  <2>2. (block + 1) * bb <= BlockCount * bb
    BY <1>1, <1>2, <2>1, Multiples
  <2>3. (block + 1) * bb = block * bb + bb /\ block * bb \in Nat /\ BlockCount * bb \in Nat
    BY <1>1, <1>2, <2>1
  <2> QED BY <2>2, <2>3
<1>5. ASSUME NEW i \in 1..total
      PROVE  bytes[i] \in Nat /\ bytes[i] < 256
  <2> HIDE DEF total
  <2>1. bytes[i] \in Unsigned(8)
    BY <1>4
  <2>2. Unsigned(8) = 0..255
    BY TwoToIs DEF Unsigned
  <2> DEFINE y == bytes[i]
  <2>3. y \in 0..255
    BY <2>1, <2>2
  <2> HIDE DEF y
  <2>4. y \in Nat /\ y < 256
    BY <2>3
  <2> QED BY <2>4 DEF y
<1> HIDE DEF total, base
<1>6. ASSUME NEW j \in 1..bb
      PROVE  bytes[base + j] \in Nat /\ bytes[base + j] < 256
  <2>1. base + j \in 1..total
    BY <1>1, <1>3
  <2> QED BY <1>5, <2>1
<1> QED BY <1>3, <1>6 DEF BytesAt, base, bb

LEMMA PieceAgrees ==
  ASSUME NEW format \in DOMAIN BlockBytes, NEW s, WholeBlocks(format, s),
         NEW block \in 0..(BlockCount - 1), NEW piece \in 0..(Pieces(format) - 1)
  PROVE  LET x == Piece(format, s, block * BlockBytes[format], piece) IN
         /\ IsSeq(x) /\ Len(x) = PieceSize(format)
         /\ \A i \in 1..PieceSize(format) :
              x[i] = KernelElement(format, s, 256 * block + (piece * PieceSize(format) + (i - 1)))
<1> DEFINE base == block * BlockBytes[format]
           x == Piece(format, s, base, piece)
           size == PieceSize(format)
           column(i) == 256 * block + (piece * size + (i - 1))
<1>1. base \in Nat /\ BytesAt(s, base, BlockBytes[format])
  BY BlocksAre
<1>2. block \in Nat
  BY CodecAssumption
<1>3. /\ format \in {"Q4_K", "Q5_K"} => size = 64 /\ piece \in 0..3
      /\ format = "Q6_K" => size = 128 /\ piece \in 0..1
      /\ format \in {"Q4_K", "Q5_K", "Q6_K"}
  BY FormatsAre DEF PieceSize, Pieces, BlockElements
<1> HIDE DEF size
<1>4. ASSUME NEW i \in 1..size
      PROVE  /\ (column(i) \div BlockElements) * BlockBytes[format] = base
             /\ column(i) % BlockElements = piece * size + (i - 1)
  <2> DEFINE l == piece * size + (i - 1)
             n == 256
  <2>1. l \in 0..255
    BY <1>3
  <2> HIDE DEF l
  <2>2. n \in Nat \ {0} /\ l \in 0..(n - 1)
    BY <2>1
  <2> HIDE DEF n
  <2>3. (n * block + l) \div n = block /\ (n * block + l) % n = l
    BY <1>2, <2>2, Quotient
  <2>4. column(i) = n * block + l /\ BlockElements = n
    BY DEF l, n, BlockElements
  <2> HIDE DEF column
  <2> QED BY <2>3, <2>4 DEF l
<1>5. ASSUME NEW i \in 1..size
      PROVE  KernelElement(format, s, column(i)) =
               CASE format = "Q4_K" -> si_q4_k_value(s, base, piece * size + (i - 1))
                 [] format = "Q5_K" -> si_q5_k_value(s, base, piece * size + (i - 1))
                 [] format = "Q6_K" -> si_q6_k_value(s, base, piece * size + (i - 1))
  <2>1. KernelElement(format, s, column(i)) =
          CASE format = "Q4_K" -> si_q4_k_value(s, (column(i) \div BlockElements) * BlockBytes[format],
                                                column(i) % BlockElements)
            [] format = "Q5_K" -> si_q5_k_value(s, (column(i) \div BlockElements) * BlockBytes[format],
                                                column(i) % BlockElements)
            [] format = "Q6_K" -> si_q6_k_value(s, (column(i) \div BlockElements) * BlockBytes[format],
                                                column(i) % BlockElements)
    BY DEF KernelElement
  <2> HIDE DEF base, column
  <2> QED BY <1>4, <2>1
<1> HIDE DEF base, column
<1> DEFINE Good == /\ IsSeq(x) /\ Len(x) = size
                   /\ \A i \in 1..size : x[i] = KernelElement(format, s, column(i))
<1>7. ASSUME format = "Q4_K" PROVE Good
  <2> DEFINE f == dequantize_q4_k(s, base, piece)
  <2>1. x = f
    BY <1>7 DEF Piece
  <2>2. size = 64 /\ piece \in 0..3 /\ BytesAt(s, base, 144)
    BY <1>1, <1>3, <1>7, FormatsAre
  <2>3. f = [i \in 1..64 |-> f[i]] /\ DOMAIN f = 1..64
    BY DEF dequantize_q4_k, PairOf
  <2>4. ASSUME NEW i \in 1..64
        PROVE  f[i] = KernelElement(format, s, column(i))
    <3>1. f[i] = si_q4_k_value(s, base, piece * 64 + (i - 1))
      BY <1>1, <2>2, Q4Agree
    <3>2. KernelElement(format, s, column(i)) = si_q4_k_value(s, base, piece * 64 + (i - 1))
      BY <1>5, <1>7, <2>2
    <3> QED BY <3>1, <3>2
  <2> HIDE DEF f, x
  <2>5. IsSeq(f) /\ Len(f) = size
    <3>1. size \in Nat
      BY <2>2
    <3> QED BY <2>2, <2>3, <3>1, FunctionIsSeq
  <2>6. Good
    BY <2>1, <2>2, <2>4, <2>5
  <2> QED BY <2>6
<1>8. ASSUME format = "Q5_K" PROVE Good
  <2> DEFINE f == dequantize_q5_k(s, base, piece)
  <2>1. x = f
    BY <1>8 DEF Piece
  <2>2. size = 64 /\ piece \in 0..3 /\ BytesAt(s, base, 176)
    BY <1>1, <1>3, <1>8, FormatsAre
  <2>3. f = [i \in 1..64 |-> f[i]] /\ DOMAIN f = 1..64
    BY DEF dequantize_q5_k, PairOf
  <2>4. ASSUME NEW i \in 1..64
        PROVE  f[i] = KernelElement(format, s, column(i))
    <3>1. f[i] = si_q5_k_value(s, base, piece * 64 + (i - 1))
      BY <1>1, <2>2, Q5Agree
    <3>2. KernelElement(format, s, column(i)) = si_q5_k_value(s, base, piece * 64 + (i - 1))
      BY <1>5, <1>8, <2>2
    <3> QED BY <3>1, <3>2
  <2> HIDE DEF f, x
  <2>5. IsSeq(f) /\ Len(f) = size
    <3>1. size \in Nat
      BY <2>2
    <3> QED BY <2>2, <2>3, <3>1, FunctionIsSeq
  <2>6. Good
    BY <2>1, <2>2, <2>4, <2>5
  <2> QED BY <2>6
<1>9. ASSUME format = "Q6_K" PROVE Good
  <2> DEFINE f == dequantize_q6_k(s, base, piece)
  <2>1. x = f
    BY <1>9 DEF Piece
  <2>2. size = 128 /\ piece \in 0..1 /\ BytesAt(s, base, 210)
    BY <1>1, <1>3, <1>9, FormatsAre
  <2>3. f = [i \in 1..128 |-> f[i]] /\ DOMAIN f = 1..128
    BY DEF dequantize_q6_k
  <2>4. ASSUME NEW i \in 1..128
        PROVE  f[i] = KernelElement(format, s, column(i))
    <3>1. f[i] = si_q6_k_value(s, base, piece * 128 + (i - 1))
      BY <1>1, <2>2, Q6Agree
    <3>2. KernelElement(format, s, column(i)) = si_q6_k_value(s, base, piece * 128 + (i - 1))
      BY <1>5, <1>9, <2>2
    <3> QED BY <3>1, <3>2
  <2> HIDE DEF f, x
  <2>5. IsSeq(f) /\ Len(f) = size
    <3>1. size \in Nat
      BY <2>2
    <3> QED BY <2>2, <2>3, <3>1, FunctionIsSeq
  <2>6. Good
    BY <2>1, <2>2, <2>4, <2>5
  <2> QED BY <2>6
<1>10. Good
  BY <1>3, <1>7, <1>8, <1>9
<1> QED BY <1>10 DEF x, base, size, column

-----------------------------------------------------------------------------
(* A job, from its first state through every step.                         *)
LEMMA JobIs ==
  ASSUME job \in Quantised \cup HalfNumbers \cup Lossless
  PROVE  /\ job.kind \in {"Q4_K", "Q5_K", "Q6_K", "half", "bitpack", "rle", "planes"}
         /\ job.kind \in DOMAIN BlockBytes => job \in Quantised /\ WholeBlocks(job.kind, job.bytes)
         /\ job.kind \notin DOMAIN BlockBytes => job \notin Quantised
         /\ job.kind = "half" => job.bits \in Unsigned(16)
         /\ job.kind \in {"bitpack", "rle", "planes"} =>
              /\ Words \in Shorts /\ TileSize \in Nat \ {0} /\ TileSize = job.source.tile * job.source.columns
              /\ job.source.columns \in Nat \ {0} /\ job.source.tile \in Nat \ {0}
<1>1. DOMAIN BlockBytes = {"Q4_K", "Q5_K", "Q6_K"}
  BY FormatsAre
<1>2. CASE job \in Quantised
  <2>1. /\ job.kind \in DOMAIN BlockBytes /\ job.bytes \in QuantBytes
        /\ Len(job.bytes) = BlockCount * BlockBytes[job.kind]
    BY <1>2 DEF Quantised
  <2>2. WholeBlocks(job.kind, job.bytes)
    BY <2>1, CodecAssumption DEF WholeBlocks
  <2> QED BY <1>1, <1>2, <2>1, <2>2
<1>3. CASE job \in HalfNumbers
  <2>1. job.kind = "half" /\ job.bits \in Halves
    BY <1>3 DEF HalfNumbers
  <2>2. job.bits \in Unsigned(16)
    BY <2>1, CodecAssumption
  <2>3. job \notin Quantised
    BY <1>1, <2>1 DEF Quantised
  <2> QED BY <1>1, <2>1, <2>2, <2>3
<1>4. CASE job \in Lossless
  <2>1. job.kind \in {"bitpack", "rle", "planes"} /\ job.source \in BitSources
    BY <1>4 DEF Lossless
  <2>2. /\ job.source.words \in Seq(Unsigned(16))
        /\ job.source.columns \in Nat \ {0} /\ job.source.tile \in Nat \ {0}
    BY <2>1, CodecAssumption, Zenon
  <2>3. TileSize \in Nat \ {0} /\ TileSize = job.source.tile * job.source.columns
    <3> DEFINE a == job.source.tile
               b == job.source.columns
    <3>1. a \in Nat /\ b \in Nat /\ a # 0 /\ b # 0
      BY <2>2
    <3> HIDE DEF a, b
    <3>2. a * b \in Nat /\ a * b # 0
      BY <3>1
    <3> QED BY <3>2 DEF a, b, TileSize
  <2>4. job \notin Quantised
    BY <1>1, <2>1 DEF Quantised
  <2>5. Words \in Shorts
    BY <2>2 DEF Words, Shorts
  <2> QED BY <1>1, <2>1, <2>2, <2>3, <2>4, <2>5
<1> QED BY <1>2, <1>3, <1>4

LEMMA PieceSizes ==
  ASSUME NEW format \in DOMAIN BlockBytes
  PROVE  \/ PieceSize(format) = 64 /\ Pieces(format) = 4
         \/ PieceSize(format) = 128 /\ Pieces(format) = 2
BY FormatsAre DEF PieceSize, Pieces, BlockElements

LEMMA NothingWhole == WholeRuns(<< >>)
<1>1. Len(<< >>) % 4 = 0 /\ 1..(Len(<< >>) \div 4) = {}
  OBVIOUS
<1> QED BY <1>1 DEF WholeRuns

LEMMA NothingDecoded ==
  ASSUME NEW words \in Shorts
  PROVE  decode_bf16_rle(<< >>) = SubSeq(words, 1, 0)
<1>1. decode_bf16_rle(<< >>) = FlattenSeq(Runs(<< >>))
  <2>1. ASSUME NEW s, WholeRuns(s)
        PROVE  decode_bf16_rle(s) = FlattenSeq(Runs(s))
    BY <2>1 DEF decode_bf16_rle, Runs, RunOf
  <2> QED BY <2>1, NothingWhole
<1>2. Runs(<< >>) = << >>
  BY DEF Runs
<1>3. FlattenSeq(<< >>) = << >>
  BY DEF FlattenSeq
<1>4. SubSeq(words, 1, 0) = << >>
  BY DEF Shorts
<1> QED BY <1>1, <1>2, <1>3, <1>4

LEMMA CodecsInitInv == CodecsInit => CodecInv
<1> SUFFICES ASSUME CodecsInit PROVE CodecInv
  OBVIOUS
<1>1. /\ job \in Quantised \cup HalfNumbers \cup Lossless
      /\ coded = IF job \in Quantised THEN job.bytes ELSE << >>
      /\ offsets = << >> /\ taken = 0 /\ decoded = << >>
  BY Zenon DEF CodecsInit
<1>2. /\ job.kind \in DOMAIN BlockBytes => job \in Quantised /\ WholeBlocks(job.kind, job.bytes)
      /\ job.kind \notin DOMAIN BlockBytes => job \notin Quantised
      /\ job.kind \in {"bitpack", "rle", "planes"} =>
           job.kind \notin DOMAIN BlockBytes /\ Words \in Shorts /\ TileSize \in Nat \ {0}
  BY <1>1, JobIs, FormatsAre
<1>3. IsSeq(decoded) /\ Len(decoded) = 0
  BY <1>1 DEF IsSeq
<1>4. BlocksRead
  <2>1. ASSUME job.kind \in DOMAIN BlockBytes
        PROVE  /\ coded = job.bytes
               /\ IsSeq(decoded) /\ Len(decoded) % PieceSize(job.kind) = 0
               /\ \A i \in 1..Len(decoded) : decoded[i] = KernelElement(job.kind, coded, i - 1)
    <3>1. coded = job.bytes
      BY <1>1, <1>2, <2>1
    <3>2. Len(decoded) % PieceSize(job.kind) = 0
      BY <1>3, <2>1, PieceSizes
    <3>3. 1..Len(decoded) = {}
      BY <1>3
    <3> QED BY <1>3, <3>1, <3>2, <3>3
  <2> QED BY <2>1 DEF BlocksRead
<1>5. HalfRead /\ PlanesRead
  BY <1>1, <1>2 DEF HalfRead, PlanesRead
<1>6. RunsRead
  <2>1. ASSUME job.kind = "rle"
        PROVE  /\ taken \in 0..Len(Words)
               /\ coded \in Seq(Nat) /\ WholeRuns(coded)
               /\ decode_bf16_rle(coded) = SubSeq(Words, 1, taken)
               /\ decoded \in {<< >>, Words}
    <3>1. coded = << >> /\ Words \in Shorts
      BY <1>1, <1>2, <2>1
    <3>2. taken \in 0..Len(Words)
      BY <1>1, <3>1 DEF Shorts
    <3>3. coded \in Seq(Nat) /\ WholeRuns(coded)
      BY <3>1, NothingWhole
    <3> QED BY <1>1, <3>1, <3>2, <3>3, NothingDecoded
  <2> QED BY <2>1 DEF RunsRead
<1>7. TilesRead
  <2>1. ASSUME job.kind = "bitpack"
        PROVE  /\ offsets = << >> \/ Len(offsets) > 1
               /\ Packs(Words, TileSize, coded, Starts, Len(Starts) - 1)
               /\ taken = EndOf(Words, TileSize, Len(Starts) - 1)
               /\ IsSeq(decoded) /\ Len(decoded) <= Len(Words)
               /\ Len(decoded) = Len(Words) \/ Len(decoded) % TileSize = 0
               /\ decoded = SubSeq(Words, 1, Len(decoded))
    <3>1. coded = << >> /\ Words \in Shorts /\ TileSize \in Nat \ {0} /\ Len(Words) \in Nat
      BY <1>1, <1>2, <2>1 DEF Shorts
    <3>2. Starts = <<0>> /\ Len(Starts) - 1 = 0
      BY <1>1 DEF Starts
    <3>3. Packs(Words, TileSize, << >>, <<0>>, 0)
      BY DEF Packs
    <3>4. EndOf(Words, TileSize, 0) = 0
      <4>1. 0 * TileSize = 0
        BY <3>1
      <4> QED BY <3>1, <4>1 DEF EndOf
    <3>5. 0 % TileSize = 0
      BY <3>1
    <3>6. SubSeq(Words, 1, 0) = << >>
      BY <3>1 DEF Shorts
    <3> QED BY <1>1, <1>3, <3>1, <3>2, <3>3, <3>4, <3>5, <3>6
  <2> QED BY <2>1 DEF TilesRead
<1> QED BY <1>1, <1>4, <1>5, <1>6, <1>7 DEF CodecInv

LEMMA DequantizeStep ==
  ASSUME CodecInv, Dequantize
  PROVE  CodecInv'
<1> DEFINE format == job.kind
           size == PieceSize(format)
           L == Len(decoded)
           block == L \div BlockElements
           piece == (L % BlockElements) \div size
           s == coded
           x == Piece(format, s, block * BlockBytes[format], piece)
<1>1. /\ format \in DOMAIN BlockBytes /\ L < BlockCount * BlockElements
      /\ job' = job /\ coded' = coded /\ offsets' = offsets /\ taken' = taken
      /\ decoded' = decoded \o x
  BY DEF Dequantize, PieceSize
<1>2. job \in Quantised \cup HalfNumbers \cup Lossless
  BY DEF CodecInv
<1>3. WholeBlocks(format, job.bytes) /\ format \notin {"half", "bitpack", "rle", "planes"}
  BY <1>1, <1>2, JobIs, FormatsAre
<1>4. /\ s = job.bytes /\ IsSeq(decoded) /\ L % size = 0 /\ L \in Nat
      /\ \A i \in 1..L : decoded[i] = KernelElement(format, s, i - 1)
  BY <1>1 DEF CodecInv, BlocksRead, IsSeq
<1>5. /\ block \in 0..(BlockCount - 1) /\ piece \in 0..(Pieces(format) - 1)
      /\ L = 256 * block + piece * size /\ size \in Nat
  <2>1. BlockCount \in Nat
    BY CodecAssumption
  <2>2. BlockElements = 256
    BY DEF BlockElements
  <2>3. \/ size = 64 /\ Pieces(format) = 4
        \/ size = 128 /\ Pieces(format) = 2
    BY <1>1, PieceSizes
  <2> DEFINE r == L % 256
             b == L \div 256
  <2> HIDE DEF L, size
  <2>4. b \in Nat /\ r \in 0..255 /\ L = 256 * b + r
    BY <1>4
  <2>5. L < BlockCount * 256 /\ L % size = 0
    BY <1>1, <1>4, <2>2 DEF L, size
  <2> HIDE DEF b, r
  <2>6. b \in 0..(BlockCount - 1)
    BY <2>1, <2>4, <2>5
  <2>7. CASE size = 64
    <3>1. r % 64 = 0
      BY <1>4, <2>4, <2>5, <2>7
    <3>2. r \div 64 \in 0..3 /\ r = (r \div 64) * 64
      BY <2>4, <3>1
    <3> QED BY <2>2, <2>3, <2>4, <2>6, <2>7, <3>2 DEF b, r
  <2>8. CASE size = 128
    <3>1. r % 128 = 0
      BY <1>4, <2>4, <2>5, <2>8
    <3>2. r \div 128 \in 0..1 /\ r = (r \div 128) * 128
      BY <2>4, <3>1
    <3>3. piece = r \div 128 /\ block = b
      BY <2>2, <2>8 DEF b, r
    <3>4. Pieces(format) = 2 /\ size \in Nat
      BY <2>3, <2>8
    <3>5. piece \in 0..1 /\ r = piece * 128
      BY <3>2, <3>3
    <3> HIDE DEF piece, block
    <3>6. L = 256 * block + piece * 128 /\ block \in 0..(BlockCount - 1)
      BY <2>4, <2>6, <3>3, <3>5
    <3> QED BY <2>8, <3>4, <3>5, <3>6
  <2> QED BY <2>3, <2>7, <2>8
<1> HIDE DEF block, piece
<1>6. /\ IsSeq(x) /\ Len(x) = size
      /\ \A i \in 1..size :
           x[i] = KernelElement(format, s, 256 * block + (piece * size + (i - 1)))
  <2> HIDE DEF format
  <2> QED BY <1>1, <1>3, <1>4, <1>5, PieceAgrees
<1> HIDE DEF x, size
<1>7. /\ IsSeq(decoded \o x) /\ Len(decoded \o x) = L + size
      /\ \A i \in 1..L : (decoded \o x)[i] = decoded[i]
      /\ \A i \in 1..size : (decoded \o x)[L + i] = x[i]
  BY <1>4, <1>6, Concatenated
<1> DEFINE d == decoded \o x
<1> HIDE DEF d, L
<1>8. ASSUME NEW i \in 1..(L + size)
      PROVE  d[i] = KernelElement(format, s, i - 1)
  <2>1. CASE i <= L
    <3>1. i \in 1..L
      BY <1>4, <2>1
    <3> QED BY <1>4, <1>7, <3>1 DEF d
  <2>2. CASE ~(i <= L)
    <3> DEFINE j == i - L
               p == piece * size
    <3>1. p \in Int
      BY <1>5
    <3> HIDE DEF p
    <3>2. j \in 1..size /\ L + j = i /\ 256 * block + (p + (j - 1)) = i - 1
      BY <1>4, <1>5, <2>2, <3>1 DEF p
    <3> HIDE DEF j
    <3>3. d[L + j] = x[j] /\ x[j] = KernelElement(format, s, 256 * block + (p + (j - 1)))
      BY <1>6, <1>7, <3>2 DEF d, p
    <3> QED BY <3>2, <3>3
  <2> QED BY <2>1, <2>2
<1>9. (L + size) % size = 0
  <2>1. size = 64 \/ size = 128
    BY <1>1, PieceSizes DEF size
  <2> QED BY <1>4, <2>1
<1>10. BlocksRead'
  <2>1. decoded' = d /\ IsSeq(d) /\ Len(d) = L + size
    BY <1>1, <1>7 DEF d
  <2>2. /\ coded' = job'.bytes
        /\ IsSeq(decoded') /\ Len(decoded') % PieceSize(job'.kind) = 0
        /\ \A i \in 1..Len(decoded') : decoded'[i] = KernelElement(job'.kind, coded', i - 1)
    BY <1>1, <1>4, <1>8, <1>9, <2>1 DEF size
  <2> QED BY <2>2 DEF BlocksRead
<1>11. /\ HalfRead' /\ PlanesRead' /\ RunsRead' /\ TilesRead'
  BY <1>1, <1>3 DEF HalfRead, PlanesRead, RunsRead, TilesRead
<1> QED BY <1>1, <1>2, <1>10, <1>11 DEF CodecInv

LEMMA WidenStep ==
  ASSUME CodecInv, Widen
  PROVE  CodecInv'
<1>1. /\ job.kind = "half" /\ job' = job /\ decoded' = <<f16_to_f32(job.bits)>>
  BY DEF Widen
<1>2. job \in Quantised \cup HalfNumbers \cup Lossless
  BY DEF CodecInv
<1>3. job.kind \notin DOMAIN BlockBytes
  BY <1>1, FormatsAre
<1>4. HalfRead'
  BY <1>1 DEF HalfRead
<1>5. /\ BlocksRead' /\ PlanesRead' /\ RunsRead' /\ TilesRead'
  BY <1>1, <1>3 DEF BlocksRead, PlanesRead, RunsRead, TilesRead
<1> QED BY <1>1, <1>2, <1>4, <1>5 DEF CodecInv

LEMMA TransformStep ==
  ASSUME CodecInv, Transform
  PROVE  CodecInv'
<1>1. /\ job.kind = "planes" /\ job' = job /\ decoded' = decoded /\ Words' = Words
      /\ coded' = bf16_plane_transform(Words) /\ taken' = Len(Words)
  BY DEF Transform, Words
<1>2. job \in Quantised \cup HalfNumbers \cup Lossless
  BY DEF CodecInv
<1>3. job.kind \notin DOMAIN BlockBytes
  BY <1>1, FormatsAre
<1>4. decoded \in {<< >>, Words}
  BY <1>1 DEF CodecInv, PlanesRead
<1>5. PlanesRead'
  BY <1>1, <1>4 DEF PlanesRead
<1>6. /\ BlocksRead' /\ HalfRead' /\ RunsRead' /\ TilesRead'
  BY <1>1, <1>3 DEF BlocksRead, HalfRead, RunsRead, TilesRead
<1> QED BY <1>1, <1>2, <1>5, <1>6 DEF CodecInv

LEMMA EncodeRunStep ==
  ASSUME CodecInv, EncodeRun
  PROVE  CodecInv'
<1>1. /\ job.kind = "rle" /\ job' = job /\ decoded' = decoded /\ Words' = Words
      /\ taken < Len(Words)
      /\ coded' = coded \o encode_bf16_rle(Words, taken)
      /\ taken' = taken + RunAt(Words, taken)
  BY DEF EncodeRun, Words
<1>2. job \in Quantised \cup HalfNumbers \cup Lossless
  BY DEF CodecInv
<1>3. job.kind \notin DOMAIN BlockBytes /\ Words \in Shorts
  BY <1>1, <1>2, JobIs, FormatsAre
<1>4. /\ taken \in 0..Len(Words)
      /\ coded \in Seq(Nat) /\ WholeRuns(coded)
      /\ decode_bf16_rle(coded) = SubSeq(Words, 1, taken)
      /\ decoded \in {<< >>, Words}
  BY <1>1 DEF CodecInv, RunsRead
<1>5. taken \in Nat /\ Len(Words) \in Nat
  BY <1>3, <1>4 DEF Shorts
<1>6. RunAt(Words, taken) \in 1..(Len(Words) - taken)
  BY <1>1, <1>3, <1>5, RunIs
<1>7. /\ coded' \in Seq(Nat) /\ WholeRuns(coded')
      /\ decode_bf16_rle(coded') = SubSeq(Words, 1, taken')
  <2> DEFINE W == Words
  <2>1. /\ W \in Shorts /\ taken < Len(W) /\ decode_bf16_rle(coded) = SubSeq(W, 1, taken)
    BY <1>1, <1>3, <1>4
  <2> HIDE DEF W
  <2>2. LET t == coded \o encode_bf16_rle(W, taken) IN
        /\ t \in Seq(Nat) /\ WholeRuns(t)
        /\ decode_bf16_rle(t) = SubSeq(W, 1, taken + RunAt(W, taken))
    BY <1>4, <1>5, <2>1, RunsStep
  <2> QED BY <1>1, <2>2 DEF W
<1>8. taken' \in 0..Len(Words)
  BY <1>1, <1>5, <1>6
<1>9. RunsRead'
  BY <1>1, <1>4, <1>7, <1>8 DEF RunsRead
<1>10. /\ BlocksRead' /\ HalfRead' /\ PlanesRead' /\ TilesRead'
  BY <1>1, <1>3 DEF BlocksRead, HalfRead, PlanesRead, TilesRead
<1> QED BY <1>1, <1>2, <1>9, <1>10 DEF CodecInv

LEMMA EncodeTileStep ==
  ASSUME CodecInv, EncodeTile
  PROVE  CodecInv'
<1> DEFINE W == Words
           size == TileSize
           m == Len(Starts) - 1
           T == TileOf(W, size, m + 1)
           s == coded \o encode_bf16_bitpack(T)
           more == Append(Starts, Len(s))
<1>1. job \in Quantised \cup HalfNumbers \cup Lossless
  BY DEF CodecInv
<1>2. /\ job.kind = "bitpack" /\ job' = job /\ decoded' = decoded
      /\ Words' = Words /\ TileSize' = TileSize /\ taken < Len(W)
  BY DEF EncodeTile, Words, TileSize
<1>3. /\ job.kind \notin DOMAIN BlockBytes /\ W \in Shorts /\ size \in Nat \ {0}
      /\ size = job.source.tile * job.source.columns
  BY <1>1, <1>2, JobIs, FormatsAre
<1>4. /\ offsets = << >> \/ Len(offsets) > 1
      /\ Packs(W, size, coded, Starts, m) /\ taken = EndOf(W, size, m)
      /\ IsSeq(decoded) /\ Len(decoded) <= Len(W)
      /\ Len(decoded) = Len(W) \/ Len(decoded) % size = 0
      /\ decoded = SubSeq(W, 1, Len(decoded))
  BY <1>2 DEF CodecInv, TilesRead
<1>5. Starts \in Seq(Nat) /\ Len(Starts) \in Nat /\ m \in Nat /\ Len(Starts) = m + 1
  <2>1. Starts \in Seq(Nat)
    BY <1>4, Zenon DEF Packs
  <2>2. Len(Starts) # 0
    BY <1>4 DEF Starts
  <2> QED BY <2>1, <2>2
<1>6. EncodeTile =>
        LET count == Min({job.source.tile * job.source.columns, Len(Words) - taken})
            tile == SubSeq(Words, taken + 1, taken + count) IN
        /\ coded' = coded \o encode_bf16_bitpack(tile)
        /\ taken' = taken + count
        /\ offsets' = Append(Starts, Len(coded'))
  BY Zenon DEF EncodeTile, Starts
<1> DEFINE count == Min({size, Len(W) - taken})
<1>7. /\ coded' = coded \o encode_bf16_bitpack(SubSeq(W, taken + 1, taken + count))
      /\ taken' = taken + count
      /\ offsets' = Append(Starts, Len(coded'))
  BY <1>3, <1>6, Zenon
<1> HIDE DEF W, size, m
<1>8. Len(W) \in Nat
  BY <1>3 DEF Shorts
<1>9. /\ m * size \in Nat /\ m * size < Len(W) /\ taken = m * size
  <2>1. m * size \in Nat
    BY <1>3, <1>5
  <2> QED BY <1>2, <1>4, <1>8, <2>1 DEF EndOf
<1>10. (m + 1) * size = taken + size
  <2>1. size \in Nat
    BY <1>3
  <2>2. (m + 1) * size = m * size + size
    BY <1>5, <2>1
  <2> QED BY <1>9, <2>2
<1>11. /\ taken + count = EndOf(W, size, m + 1) /\ taken = ((m + 1) - 1) * size
  <2>1. Min({size, Len(W) - taken}) = IF size <= Len(W) - taken THEN size ELSE Len(W) - taken
    <3> DEFINE y == Len(W) - taken
    <3>1. y \in Int
      BY <1>8, <1>9
    <3> HIDE DEF y
    <3>2. Min({size, y}) = IF size <= y THEN size ELSE y
      BY <1>3, <3>1, MinOfTwo
    <3> QED BY <3>2 DEF y
  <2>2. EndOf(W, size, m + 1) = IF (m + 1) * size <= Len(W) THEN (m + 1) * size ELSE Len(W)
    BY DEF EndOf
  <2>3. (m + 1) - 1 = m
    BY <1>5
  <2>4. taken \in Nat
    BY <1>9
  <2>5. taken + count = EndOf(W, size, m + 1)
    BY <1>3, <1>8, <1>10, <2>1, <2>2, <2>4
  <2> QED BY <1>9, <2>3, <2>5
<1> HIDE DEF count
<1>12. T = SubSeq(W, taken + 1, taken + count)
  BY <1>11 DEF TileOf
<1>13. coded' = s /\ taken' = EndOf(W, size, m + 1) /\ offsets' = more
  BY <1>7, <1>11, <1>12
<1>14. Packs(W, size, s, more, m + 1)
  BY <1>3, <1>4, <1>5, <1>9, TilesStep
<1> DEFINE l == Len(s)
<1>15. more # << >> /\ Len(more) = m + 2 /\ Len(more) > 1
  <2> HIDE DEF s
  <2>1. Len(Append(Starts, Len(s))) = Len(Starts) + 1
    BY <1>5
  <2>2. Len(more) = m + 2
    BY <1>5, <2>1
  <2> HIDE DEF more
  <2> QED BY <1>5, <2>2
<1> HIDE DEF more, s
<1>16. Starts' = more /\ Len(Starts') - 1 = m + 1
  BY <1>5, <1>13, <1>15 DEF Starts
<1>17. TilesRead'
  <2>1. /\ offsets' = << >> \/ Len(offsets') > 1
        /\ Packs(W, size, coded', Starts', Len(Starts') - 1)
        /\ taken' = EndOf(W, size, Len(Starts') - 1)
    BY <1>13, <1>14, <1>15, <1>16
  <2>2. W = Words' /\ size = TileSize' /\ decoded' = decoded
    BY <1>2 DEF W, size
  <2> QED BY <1>4, <2>1, <2>2 DEF TilesRead
<1>18. /\ BlocksRead' /\ HalfRead' /\ PlanesRead' /\ RunsRead'
  BY <1>2, <1>3 DEF BlocksRead, HalfRead, PlanesRead, RunsRead
<1> QED BY <1>1, <1>2, <1>17, <1>18 DEF CodecInv

LEMMA WholePart ==
  ASSUME NEW words \in Shorts
  PROVE  SubSeq(words, 1, Len(words)) = words
BY DEF Shorts

(* The next tile of a stream.                                              *)
LEMMA TileDecoded ==
  ASSUME NEW words \in Shorts, NEW size \in Nat \ {0}, NEW m \in Nat, NEW s, NEW starts,
         Packs(words, size, s, starts, m), EndOf(words, size, m) = Len(words),
         NEW k \in Nat, k * size < Len(words)
  PROVE  LET n == Min({size, Len(words) - k * size}) IN
         /\ k < m
         /\ SubSeq(words, 1, k * size)
              \o decode_bf16_bitpack(SubSeq(s, starts[k + 1] + 1, starts[k + 2]), n)
            = SubSeq(words, 1, EndOf(words, size, k + 1))
         /\ EndOf(words, size, k + 1) \in Nat /\ EndOf(words, size, k + 1) <= Len(words)
         /\ \/ EndOf(words, size, k + 1) = Len(words)
            \/ EndOf(words, size, k + 1) % size = 0
<1> DEFINE t == k + 1
           e == EndOf(words, size, t)
           T == TileOf(words, size, t)
           b == k * size
           n == Min({size, Len(words) - b})
<1>1. Len(words) \in Nat /\ IsSeq(words)
  BY SeqIs DEF Shorts
<1>2. b \in Nat /\ b < Len(words) /\ size \in Nat
  OBVIOUS
<1>3. k < m
  <2>1. CASE m <= k
    <3>1. m * size <= b /\ m * size \in Nat
      BY <2>1, Multiples
    <3> DEFINE y == m * size
    <3>2. Len(words) <= y
      BY <1>1, <3>1 DEF EndOf
    <3> HIDE DEF y, b
    <3>3. y <= b /\ y \in Nat
      BY <3>1 DEF y
    <3> QED BY <1>1, <1>2, <3>2, <3>3
  <2> QED BY <2>1
<1>4. t \in Nat \ {0} /\ t \in 1..m /\ t - 1 = k /\ t + 1 = k + 2
  BY <1>3
<1>5. t * size = b + size
  <2>1. (k + 1) * size = k * size + size
    BY <1>2
  <2> QED BY <2>1
<1>6. (t - 1) * size = b /\ (t - 1) * size < Len(words)
  BY <1>2, <1>4
<1> HIDE DEF b, t
<1>7. /\ e \in Nat /\ b < e /\ e <= Len(words) /\ T \in Shorts /\ Len(T) = e - b /\ Len(T) > 0
  BY <1>4, <1>6, TileIs
<1>8. e = IF b + size <= Len(words) THEN b + size ELSE Len(words)
  BY <1>5 DEF EndOf
<1> HIDE DEF e
<1>9. n = Len(T)
  <2> DEFINE y == Len(words) - b
  <2>1. y \in Int
    BY <1>1, <1>2
  <2> HIDE DEF y
  <2>2. Min({size, y}) = IF size <= y THEN size ELSE y
    BY <1>2, <2>1, MinOfTwo
  <2>3. n = IF size <= y THEN size ELSE y
    BY <2>2 DEF y
  <2> HIDE DEF n, T
  <2> QED BY <1>1, <1>2, <1>7, <1>8, <2>3 DEF y
<1> HIDE DEF n
<1>10. SubSeq(s, starts[t] + 1, starts[t + 1]) = encode_bf16_bitpack(T)
  BY <1>4 DEF Packs
<1>11. decode_bf16_bitpack(encode_bf16_bitpack(T), Len(T)) = T
  <2> HIDE DEF T
  <2> QED BY <1>7, Decoded
<1>12. T = SubSeq(words, b + 1, e)
  BY <1>6 DEF TileOf, e
<1> HIDE DEF T
<1>13. SubSeq(words, 1, b) \o SubSeq(words, b + 1, e) = SubSeq(words, 1, e)
  <2>1. b <= e
    BY <1>2, <1>7
  <2> QED BY <1>1, <1>2, <1>7, <2>1, Longer
<1>14. SubSeq(words, 1, b) \o decode_bf16_bitpack(SubSeq(s, starts[t] + 1, starts[t + 1]), n)
         = SubSeq(words, 1, e)
  BY <1>9, <1>10, <1>11, <1>12, <1>13
<1>15. e = Len(words) \/ e % size = 0
  <2>1. CASE e = b + size
    <3> DEFINE z == 0
    <3>1. z \in 0..(size - 1) /\ size * t + z = e /\ t \in Nat
      <4>1. size * t = t * size
        BY <1>2, <1>4
      <4>2. t \in Nat /\ e = t * size
        BY <1>4, <1>5, <2>1
      <4> QED BY <1>7, <4>1, <4>2
    <3> HIDE DEF z
    <3>2. (size * t + z) % size = z
      BY <3>1, Quotient
    <3> QED BY <3>1, <3>2 DEF z
  <2> QED BY <1>8, <2>1
<1>16. starts[k + 1] = starts[t] /\ starts[k + 2] = starts[t + 1]
  BY <1>4 DEF t
<1> QED BY <1>3, <1>7, <1>14, <1>15, <1>16 DEF e, t, n, b

LEMMA DecodeStep ==
  ASSUME CodecInv, Decode
  PROVE  CodecInv'
<1> DEFINE W == Words
           L == Len(decoded)
<1>1. job \in Quantised \cup HalfNumbers \cup Lossless
  BY DEF CodecInv
<1>2. /\ job.kind \in {"bitpack", "rle", "planes"} /\ job' = job
      /\ coded' = coded /\ offsets' = offsets /\ taken' = taken
      /\ Words' = Words /\ TileSize' = TileSize /\ Starts' = Starts
      /\ taken = Len(W) /\ L < Len(W)
  BY DEF Decode, Words, TileSize, Starts
<1>3. /\ job.kind \notin DOMAIN BlockBytes /\ W \in Shorts /\ Len(W) \in Nat
      /\ TileSize \in Nat \ {0} /\ TileSize = job.source.tile * job.source.columns
  BY <1>1, <1>2, JobIs, FormatsAre DEF Shorts
<1>4. BlocksRead' /\ HalfRead'
  BY <1>2, <1>3 DEF BlocksRead, HalfRead
<1>5. CASE job.kind = "rle"
  <2>1. decoded' = decode_bf16_rle(coded)
    BY <1>5 DEF Decode
  <2>2. decode_bf16_rle(coded) = SubSeq(W, 1, taken) /\ RunsRead
    BY <1>5 DEF CodecInv, RunsRead
  <2>3. decoded' = W
    BY <1>2, <1>3, <2>1, <2>2, WholePart
  <2>4. RunsRead'
    BY <1>2, <2>2, <2>3 DEF RunsRead
  <2> QED BY <1>1, <1>2, <1>4, <1>5, <2>4 DEF CodecInv, PlanesRead, TilesRead
<1>6. CASE job.kind = "planes"
  <2>1. decoded' = bf16_plane_inverse(coded)
    BY <1>6 DEF Decode
  <2>2. PlanesRead /\ decoded \in {<< >>, W}
    BY <1>6 DEF CodecInv, PlanesRead
  <2>3. taken # 0
    BY <1>2, <1>3, <2>2
  <2>4. coded = bf16_plane_transform(W)
    BY <1>6, <2>2, <2>3 DEF PlanesRead
  <2>5. decoded' = W
    BY <1>3, <2>1, <2>4, PlanesInverse
  <2>6. PlanesRead'
    BY <1>2, <1>6, <2>2, <2>5 DEF PlanesRead
  <2> QED BY <1>1, <1>2, <1>4, <1>6, <2>6 DEF CodecInv, RunsRead, TilesRead
<1>7. CASE job.kind = "bitpack"
  <2> DEFINE size == TileSize
             m == Len(Starts) - 1
             k == L \div size
             b == k * size
             n == Min({size, Len(W) - b})
             e == EndOf(W, size, k + 1)
  <2>1. /\ offsets = << >> \/ Len(offsets) > 1
        /\ Packs(W, size, coded, Starts, m) /\ taken = EndOf(W, size, m)
        /\ IsSeq(decoded) /\ L <= Len(W)
        /\ L = Len(W) \/ L % size = 0
        /\ decoded = SubSeq(W, 1, L)
    BY <1>7 DEF CodecInv, TilesRead
  <2>2. Starts \in Seq(Nat) /\ Len(Starts) \in Nat /\ m \in Nat
    <3>1. Starts \in Seq(Nat)
      BY <2>1, Zenon DEF Packs
    <3>2. Len(Starts) # 0
      BY <2>1 DEF Starts
    <3> QED BY <3>1, <3>2
  <2>3. L \in Nat /\ L % size = 0
    BY <1>2, <1>3, <2>1 DEF IsSeq
  <2>4. k \in Nat /\ L = b
    <3> DEFINE d == size
    <3>1. d \in Nat \ {0}
      BY <1>3
    <3> HIDE DEF d, L
    <3>2. L \div d \in Nat /\ L = d * (L \div d) + (L % d)
      BY <2>3, <3>1, Division
    <3>3. d * (L \div d) = (L \div d) * d
      BY <3>1, <3>2
    <3> QED BY <2>3, <3>1, <3>2, <3>3 DEF d
  <2> HIDE DEF k
  <2>5. k * size < Len(W)
    BY <1>2, <2>4
  <2>6. /\ k < m
        /\ SubSeq(W, 1, b) \o decode_bf16_bitpack(SubSeq(coded, Starts[k + 1] + 1, Starts[k + 2]), n)
             = SubSeq(W, 1, e)
        /\ e \in Nat /\ e <= Len(W) /\ (e = Len(W) \/ e % size = 0)
    <3> DEFINE w == W
               z == size
    <3>1. /\ w \in Shorts /\ z \in Nat \ {0} /\ Packs(w, z, coded, Starts, m)
          /\ EndOf(w, z, m) = Len(w) /\ k * z < Len(w)
      BY <1>2, <1>3, <2>1, <2>5
    <3> HIDE DEF w, z, m
    <3>2. LET x == Min({z, Len(w) - k * z}) IN
          /\ k < m
          /\ SubSeq(w, 1, k * z)
               \o decode_bf16_bitpack(SubSeq(coded, Starts[k + 1] + 1, Starts[k + 2]), x)
             = SubSeq(w, 1, EndOf(w, z, k + 1))
          /\ EndOf(w, z, k + 1) \in Nat /\ EndOf(w, z, k + 1) <= Len(w)
          /\ \/ EndOf(w, z, k + 1) = Len(w)
             \/ EndOf(w, z, k + 1) % z = 0
      BY <2>2, <2>4, <3>1, TileDecoded
    <3> QED BY <3>2 DEF w, z
  <2>7. Starts = offsets
    <3>1. k < m /\ k \in Nat
      BY <2>4, <2>6
    <3> DEFINE l == Len(Starts)
    <3>2. l \in Nat /\ m = l - 1
      BY <2>2
    <3> HIDE DEF k, l, m
    <3>3. l # 1
      BY <3>1, <3>2
    <3>4. Len(Starts) # 1
      BY <3>3 DEF l
    <3> QED BY <3>4 DEF Starts
  <2>8. decoded' = decoded \o decode_bf16_bitpack(
          SubSeq(coded, offsets[(L \div (job.source.tile * job.source.columns)) + 1] + 1,
                 offsets[(L \div (job.source.tile * job.source.columns)) + 2]),
          Min({job.source.tile * job.source.columns, taken - L}))
    BY <1>7, Zenon DEF Decode
  <2>9. decoded' = SubSeq(W, 1, b) \o
          decode_bf16_bitpack(SubSeq(coded, Starts[k + 1] + 1, Starts[k + 2]), n)
    <3> HIDE DEF W, L, b
    <3>1. L \div (job.source.tile * job.source.columns) = k
      BY <1>3 DEF k
    <3>2. taken - L = Len(W) - b /\ job.source.tile * job.source.columns = size
      BY <1>2, <1>3, <2>4
    <3>3. decoded = SubSeq(W, 1, b)
      BY <2>1, <2>4
    <3> QED BY <2>7, <2>8, <3>1, <3>2, <3>3, Zenon
  <2> HIDE DEF e, n, b, m
  <2>10. decoded' = SubSeq(W, 1, e)
    BY <2>6, <2>9
  <2>11. IsSeq(SubSeq(W, 1, e)) /\ Len(SubSeq(W, 1, e)) = e
    <3> DEFINE z == 0
    <3>1. z \in Nat /\ z <= e /\ e - z = e /\ z + 1 = 1 /\ IsSeq(W)
      BY <1>3, <2>6, SeqIs DEF Shorts
    <3> HIDE DEF z, W
    <3>2. IsSeq(SubSeq(W, z + 1, e)) /\ Len(SubSeq(W, z + 1, e)) = e - z
      BY <2>6, <3>1, PartIs
    <3> QED BY <3>1, <3>2 DEF z
  <2>12. TilesRead'
    <3>1. IsSeq(decoded') /\ Len(decoded') = e /\ decoded' = SubSeq(W, 1, Len(decoded'))
      BY <2>10, <2>11
    <3>2. TilesRead
      BY DEF CodecInv
    <3>3. /\ offsets' = << >> \/ Len(offsets') > 1
          /\ Packs(Words', TileSize', coded', Starts', Len(Starts') - 1)
          /\ taken' = EndOf(Words', TileSize', Len(Starts') - 1)
      BY <1>2, <2>1 DEF m
    <3>4. /\ Len(decoded') <= Len(Words')
          /\ Len(decoded') = Len(Words') \/ Len(decoded') % TileSize' = 0
          /\ decoded' = SubSeq(Words', 1, Len(decoded'))
      BY <1>2, <2>6, <3>1
    <3> QED BY <3>1, <3>3, <3>4 DEF TilesRead
  <2> QED BY <1>1, <1>2, <1>4, <1>7, <2>12 DEF CodecInv, RunsRead, PlanesRead
<1> QED BY <1>2, <1>5, <1>6, <1>7

LEMMA PrefixOf ==
  ASSUME NEW words \in Shorts, NEW part, IsSeq(part), Len(part) <= Len(words),
         part = SubSeq(words, 1, Len(part))
  PROVE  IsPrefix(part, words)
<1> DEFINE n == Len(part)
           p == SubSeq(words, 1, n)
<1>1. n \in Nat /\ Len(words) \in Nat /\ IsSeq(words)
  BY SeqIs DEF IsSeq, Shorts
<1>2. SubSeq(part, 1, n) = part
  <2> DEFINE z == 0
  <2>1. z \in Nat /\ z <= n /\ n <= Len(part) /\ n - z = n /\ z + 1 = 1 /\ \A i \in 1..n : z + i = i
    <3>1. n = Len(part) /\ z = 0 /\ n \in Nat
      BY <1>1
    <3> HIDE DEF n, z
    <3> QED BY <3>1
  <2> HIDE DEF n, p, z
  <2>2. /\ IsSeq(SubSeq(part, z + 1, n)) /\ Len(SubSeq(part, z + 1, n)) = n - z
        /\ \A i \in 1..(n - z) : SubSeq(part, z + 1, n)[i] = part[z + i]
    BY <1>1, <2>1, PartIs
  <2>3. SubSeq(part, z + 1, n) = part
    <3> DEFINE a == SubSeq(part, z + 1, n)
    <3>1. /\ IsSeq(a) /\ IsSeq(part) /\ Len(a) = Len(part)
          /\ \A i \in 1..Len(part) : a[i] = part[i]
      <4>1. n = Len(part)
        BY DEF n
      <4> HIDE DEF a
      <4>2. IsSeq(a) /\ Len(a) = n /\ \A i \in 1..n : a[i] = part[i]
        <5>1. n - z = n /\ \A i \in 1..n : z + i = i
          BY <2>1, Zenon
        <5> QED BY <2>2, <5>1, Zenon DEF a
      <4> QED BY <1>1, <4>1, <4>2, Zenon
    <3> HIDE DEF a
    <3>2. a = part
      BY <3>1, SameSeq, Zenon
    <3> QED BY <3>2, Zenon DEF a
  <2> QED BY <2>1, <2>3
<1>3. n = Len(part) /\ part = SubSeq(words, 1, n)
  OBVIOUS
<1> HIDE DEF n, p
<1> QED BY <1>1, <1>2, <1>3 DEF IsPrefix

(* What the invariant is for.                                              *)
LEMMA InvariantAgrees == CodecInv => ReadersAgree
<1> SUFFICES ASSUME CodecInv PROVE ReadersAgree
  OBVIOUS
<1>1. job \in Quantised \cup HalfNumbers \cup Lossless
  BY DEF CodecInv
<1>2. job.kind \in DOMAIN BlockBytes =>
        \A i \in DOMAIN decoded : decoded[i] = KernelElement(job.kind, coded, i - 1)
  <2> SUFFICES ASSUME job.kind \in DOMAIN BlockBytes
               PROVE  \A i \in DOMAIN decoded : decoded[i] = KernelElement(job.kind, coded, i - 1)
    OBVIOUS
  <2>1. /\ IsSeq(decoded)
        /\ \A i \in 1..Len(decoded) : decoded[i] = KernelElement(job.kind, coded, i - 1)
    BY DEF CodecInv, BlocksRead
  <2>2. DOMAIN decoded = 1..Len(decoded)
    <3> DEFINE n == Len(decoded)
               f == [i \in 1..n |-> decoded[i]]
    <3>1. decoded = f
      BY <2>1 DEF IsSeq
    <3>2. DOMAIN f = 1..n
      OBVIOUS
    <3> HIDE DEF f
    <3> QED BY <3>1, <3>2
  <2> QED BY <2>1, <2>2
<1>3. job.kind = "half" /\ decoded # << >> => SameNumber(job.bits, decoded[1])
  <2> SUFFICES ASSUME job.kind = "half", decoded # << >>
               PROVE  SameNumber(job.bits, decoded[1])
    OBVIOUS
  <2>1. job.bits \in Unsigned(16)
    BY <1>1, JobIs
  <2>2. decoded = <<f16_to_f32(job.bits)>>
    BY DEF CodecInv, HalfRead
  <2>3. decoded[1] = f16_to_f32(job.bits)
    BY <2>2
  <2> QED BY <2>1, <2>3, HalfAgree
<1>4. job.kind \in {"bitpack", "rle", "planes"} => IsPrefix(decoded, Words)
  <2> SUFFICES ASSUME job.kind \in {"bitpack", "rle", "planes"}
               PROVE  IsPrefix(decoded, Words)
    OBVIOUS
  <2>1. Words \in Shorts
    BY <1>1, JobIs
  <2> DEFINE W == Words
  <2> HIDE DEF W
  <2>2. W \in Shorts /\ IsSeq(W) /\ Len(W) \in Nat /\ SubSeq(W, 1, Len(W)) = W
    BY <2>1, SeqIs, WholePart DEF Shorts, W
  <2>3. CASE job.kind = "bitpack"
    <3>1. IsSeq(decoded) /\ Len(decoded) <= Len(W) /\ decoded = SubSeq(W, 1, Len(decoded))
      BY <2>3 DEF CodecInv, TilesRead, W
    <3>2. IsPrefix(decoded, W)
      BY <2>2, <3>1, PrefixOf
    <3> QED BY <3>2 DEF W
  <2>4. CASE job.kind # "bitpack"
    <3>1. decoded = << >> \/ decoded = W
      BY <2>4 DEF CodecInv, RunsRead, PlanesRead, W
    <3>2. CASE decoded = W
      <4>1. IsPrefix(W, W)
        BY <2>2, PrefixOf
      <4> QED BY <3>2, <4>1 DEF W
    <3>3. CASE decoded = << >>
      <4> DEFINE x == << >>
      <4>1. IsSeq(x) /\ Len(x) = 0
        BY DEF IsSeq
      <4>2. x = SubSeq(W, 1, 0)
        BY <2>2 DEF Shorts
      <4> HIDE DEF x
      <4>4. Len(x) <= Len(W) /\ x = SubSeq(W, 1, Len(x))
        BY <2>2, <4>1, <4>2
      <4>3. IsPrefix(x, W)
        BY <2>2, <4>1, <4>4, PrefixOf
      <4> QED BY <3>3, <4>3 DEF W, x
    <3> QED BY <3>1, <3>2, <3>3
  <2> QED BY <2>3, <2>4
<1>5. job.kind = "bitpack" =>
        \A i \in 1..taken :
          LET c == job.source.columns IN
          si_bf16_bitpack_value(coded, offsets, (i - 1) \div c, (i - 1) % c, c, job.source.tile)
            = Words[i]
  <2> SUFFICES ASSUME job.kind = "bitpack", NEW i \in 1..taken
               PROVE  LET c == job.source.columns IN
                      si_bf16_bitpack_value(coded, offsets, (i - 1) \div c, (i - 1) % c, c,
                                            job.source.tile) = Words[i]
    OBVIOUS
  <2> DEFINE W == Words
             size == TileSize
             c == job.source.columns
             tile == job.source.tile
             m == Len(Starts) - 1
  <2>1. /\ W \in Shorts /\ size \in Nat \ {0} /\ size = tile * c
        /\ c \in Nat \ {0} /\ tile \in Nat \ {0}
    BY <1>1, JobIs
  <2>2. /\ offsets = << >> \/ Len(offsets) > 1
        /\ Packs(W, size, coded, Starts, m) /\ taken = EndOf(W, size, m)
    BY DEF CodecInv, TilesRead
  <2>3. Starts \in Seq(Nat) /\ Len(Starts) \in Nat /\ m \in Nat
    <3>1. Starts \in Seq(Nat)
      BY <2>2, Zenon DEF Packs
    <3>2. Len(Starts) # 0
      BY <2>2 DEF Starts
    <3> QED BY <3>1, <3>2
  <2>4. m # 0
    <3>1. Len(W) \in Nat /\ 0 * size = 0
      BY <2>1 DEF Shorts
    <3>2. EndOf(W, size, 0) = 0
      BY <3>1 DEF EndOf
    <3> HIDE DEF m, W, size
    <3>3. m = 0 => taken = 0
      BY <2>2, <3>2
    <3> QED BY <3>3
  <2>5. Starts = offsets
    <3>1. Len(Starts) # 1
      BY <2>3, <2>4
    <3> QED BY <3>1 DEF Starts
  <2> HIDE DEF W, size, c, tile, m
  <2>6. si_bf16_bitpack_value(coded, Starts, (i - 1) \div c, (i - 1) % c, c, tile) = W[i]
    BY <2>1, <2>2, <2>3, TilesReadable
  <2> QED BY <2>5, <2>6, Zenon DEF W, c, tile
<1> QED BY <1>2, <1>3, <1>4, <1>5, Zenon DEF ReadersAgree

(* The invariant of every job is never left.                               *)
THEOREM CodecsInvariant == CodecsSpec => []CodecInv
<1>1. CodecInv /\ [CodecsNext]_codec_vars => CodecInv'
  <2> SUFFICES ASSUME CodecInv, [CodecsNext]_codec_vars PROVE CodecInv'
    OBVIOUS
  <2>1. CASE UNCHANGED codec_vars
    BY <2>1 DEF codec_vars, CodecInv, BlocksRead, HalfRead, PlanesRead, RunsRead, TilesRead,
                Words, Starts, TileSize
  <2> QED BY <2>1, DequantizeStep, WidenStep, EncodeTileStep, EncodeRunStep, TransformStep,
             DecodeStep DEF CodecsNext
<1> QED BY <1>1, CodecsInitInv, PTL DEF CodecsSpec

(* All readers of the same bytes read the same weights: the kernels at any *)
(* column what the processor decodes from front to back, a half the same   *)
(* number, and out of a packed matrix every word that was packed.          *)
THEOREM AllReadersAgree == CodecsSpec => []ReadersAgree
BY CodecsInvariant, InvariantAgrees, PTL
=============================================================================
