------------------------- MODULE Qwen35StageProofs --------------------------
(***************************************************************************)
(* The staging pipeline is right at every number of layers, every depth    *)
(* and every outcome of its threads: the weights in hand are those of the  *)
(* layer that runs, the look-ahead is full, memory is bounded, and a step  *)
(* of the pipeline is a step of the stack without one.  Behind it, for     *)
(* every file that opens and every choice of what is kept: a layer         *)
(* multiplies by the matrices of the file.                                 *)
(***************************************************************************)
EXTENDS Qwen35Weights, FiniteSetTheorems, SequenceTheorems, WellFoundedInduction, TLAPS

Loop == {"spawn", "execute", "join"}
Outstanding == {"running", "ok", "err", "panicked"}

(* What the place in the program says about the call.                      *)
Calls ==
  /\ pc \in Loop \cup {"first"} => call # "head" /\ ok = TRUE /\ layer < N
  /\ pc = "first" => pipeline /\ layer = 0
  /\ pc = "close" => call # "head" /\ (ok = TRUE => layer = N)
  /\ pc \in {"logits", "head"} => call # "window" /\ (call = "decode" => layer = N)
  /\ pc = "head" => HeadPrefetch

(* Layer 0 is kept from one call to the next only by the pipeline, and is  *)
(* used up by the next decode.                                             *)
KeptLayer ==
  /\ prefetched => pipeline
  /\ pc \in Loop \cup {"close"} /\ call = "decode" => ~prefetched

(* The weights in hand.                                                    *)
StagedInHand ==
  /\ pc \in Loop => staged = IF pipeline THEN layer ELSE None
  /\ pc = "close" /\ ~pipeline => staged = None

(* A handle stands for the layer as far ahead as its place, and its thread *)
(* has been started and not joined; no other thread is outstanding.        *)
HandlesStand ==
  /\ pc \in Loop => \A k \in Slot : handle[k] # None =>
       /\ k <= Ahead /\ layer + k < N
       /\ handle[k] = layer + k /\ thread[layer + k] \in Outstanding
  /\ pc \in {"execute", "join"} =>
       \A k \in Slot : k <= Ahead /\ layer + k < N => handle[k] = layer + k
  /\ pc \in Loop \cup {"close"} => \A l \in Layer :
       thread[l] \in Outstanding => layer < l /\ l <= layer + Ahead

(* Outside the loop nothing is held.                                       *)
NothingHeld ==
  /\ pc \notin Loop \cup {"close"} => handle = NoHandle /\ staged = None
  /\ pc \notin Loop \cup {"close", "head"} => thread = NoThread
  /\ pc = "head" => \A l \in Layer : l # 0 => thread[l] = "none"

(* The layers that are still to run have room.                             *)
HasRoom ==
  /\ pc \in {"first", "spawn", "execute"} =>
       \A l \in Layer : l >= layer => absorbed[l] + Size <= MaxTokens
  /\ pc = "join" =>
       \A l \in Layer : l > layer => absorbed[l] + Size <= MaxTokens

IInv == TypeOK /\ Calls /\ KeptLayer /\ StagedInHand /\ HandlesStand /\ NothingHeld /\ HasRoom

(* A call is of one to eight tokens and looks at most four layers ahead:   *)
(* stage_pipeline_depth and the window check of decode_tokens_many.        *)
LEMMA Sizes == Size \in 1..8 /\ (TypeOK => Ahead \in 0..4)
BY Qwen35StageAssumption DEF Size, Ahead, TypeOK

(* The states of a runtime that has been reset are in range.               *)
LEMMA NoTokens == [l \in Layer |-> 0] \in [Layer -> 0..MaxTokens]
<1>1. 0 \in 0..MaxTokens
  BY Qwen35StageAssumption
<1> QED BY <1>1

(* The runtime of Qwen35Runtime::open is idle and holds nothing.           *)
LEMMA InitInv == Init => IInv
<1> SUFFICES ASSUME Init PROVE IInv
  OBVIOUS
<1> USE Qwen35StageAssumption DEF Init, Layer, Slot, None, NoHandle, NoThread, Loop
<1>1. TypeOK
  <2>1. depth \in 1..4
    BY DEF StagePipelineDepth
  <2>2. absorbed \in [Layer -> 0..MaxTokens]
    BY NoTokens
  <2>3. handle \in [Slot -> 0..N] /\ layer \in 0..N /\ staged \in 0..N
    OBVIOUS
  <2>4. thread \in [Layer -> {"none", "running", "ok", "err", "panicked", "joined"}]
    OBVIOUS
  <2>5. /\ pipeline \in BOOLEAN /\ headAhead \in BOOLEAN /\ prefetched \in BOOLEAN
        /\ ok \in BOOLEAN /\ pc = "idle" /\ call = "decode"
    OBVIOUS
  <2> QED BY <2>1, <2>2, <2>3, <2>4, <2>5 DEF TypeOK
<1>2. Calls /\ KeptLayer /\ StagedInHand /\ HandlesStand /\ NothingHeld /\ HasRoom
  BY DEF Calls, KeptLayer, StagedInHand, HandlesStand, NothingHeld, HasRoom
<1> QED BY <1>1, <1>2 DEF IInv

(* Every step of the main thread and of a staging thread keeps the         *)
(* handles, the weights in hand and the room for tokens in line.           *)
LEMMA NextInv == IInv /\ [Next]_vars => IInv'
<1> SUFFICES ASSUME IInv, [Next]_vars PROVE IInv'
  OBVIOUS
<1> USE Qwen35StageAssumption
        DEF IInv, Layer, Slot, None, NoHandle, NoThread, Loop, chosen, Size, Ahead
<1>1. CASE Begin
  <2>1. TypeOK'
    BY <1>1 DEF Begin, TypeOK
  <2>2. Calls'
    BY <1>1 DEF Begin, Calls, HeadPrefetch
  <2>3. KeptLayer'
    BY <1>1 DEF Begin, KeptLayer
  <2>4. StagedInHand'
    BY <1>1 DEF Begin, StagedInHand, TypeOK, Calls, NothingHeld
  <2>5. HandlesStand'
    BY <1>1 DEF Begin, HandlesStand, TypeOK, Calls, NothingHeld, Outstanding
  <2>6. NothingHeld'
    BY <1>1 DEF Begin, NothingHeld
  <2>7. HasRoom'
    BY <1>1 DEF Begin, HasRoom
  <2> QED BY <2>1, <2>2, <2>3, <2>4, <2>5, <2>6, <2>7
<1>2. CASE HeadAlone
  <2>1. TypeOK'
    BY <1>2 DEF HeadAlone, TypeOK
  <2>2. Calls'
    BY <1>2 DEF HeadAlone, Calls, HeadPrefetch
  <2>3. KeptLayer'
    BY <1>2 DEF HeadAlone, KeptLayer
  <2>4. StagedInHand'
    BY <1>2 DEF HeadAlone, StagedInHand
  <2>5. HandlesStand'
    BY <1>2 DEF HeadAlone, HandlesStand, Outstanding
  <2>6. NothingHeld'
    BY <1>2 DEF HeadAlone, NothingHeld
  <2>7. HasRoom'
    BY <1>2 DEF HeadAlone, HasRoom
  <2> QED BY <2>1, <2>2, <2>3, <2>4, <2>5, <2>6, <2>7
<1>3. CASE TakePrefetched
  <2>1. TypeOK'
    BY <1>3 DEF TakePrefetched, HasPrefetched, TypeOK, Calls
  <2>2. Calls'
    BY <1>3 DEF TakePrefetched, HasPrefetched, Calls, HeadPrefetch
  <2>3. KeptLayer'
    BY <1>3 DEF TakePrefetched, HasPrefetched, KeptLayer
  <2>4. StagedInHand'
    BY <1>3 DEF TakePrefetched, HasPrefetched, StagedInHand, TypeOK, Calls
  <2>5. HandlesStand'
    BY <1>3 DEF TakePrefetched, HasPrefetched, HandlesStand, TypeOK, Calls, NothingHeld, Outstanding
  <2>6. NothingHeld'
    BY <1>3 DEF TakePrefetched, HasPrefetched, NothingHeld
  <2>7. HasRoom'
    BY <1>3 DEF TakePrefetched, HasPrefetched, HasRoom
  <2> QED BY <2>1, <2>2, <2>3, <2>4, <2>5, <2>6, <2>7
<1>4. CASE ReadFirst
  <2>1. TypeOK'
    BY <1>4, SMTT(30) DEF ReadFirst, HasPrefetched, TypeOK
  <2>2. Calls'
    BY <1>4 DEF ReadFirst, HasPrefetched, Calls, HeadPrefetch
  <2>3. KeptLayer'
    BY <1>4 DEF ReadFirst, HasPrefetched, KeptLayer
  <2>4. StagedInHand'
    BY <1>4 DEF ReadFirst, HasPrefetched, StagedInHand, TypeOK, Calls
  <2>5. HandlesStand'
    BY <1>4, SMTT(30) DEF ReadFirst, HasPrefetched, HandlesStand, TypeOK, Calls, NothingHeld, Outstanding
  <2>6. NothingHeld'
    BY <1>4 DEF ReadFirst, HasPrefetched, NothingHeld
  <2>7. HasRoom'
    BY <1>4 DEF ReadFirst, HasPrefetched, HasRoom
  <2> QED BY <2>1, <2>2, <2>3, <2>4, <2>5, <2>6, <2>7
<1>5. CASE Spawn
  <2>1. TypeOK'
    BY <1>5 DEF Spawn, Kept, Target, TypeOK
  <2>2. Calls'
    BY <1>5 DEF Spawn, Kept, Target, Calls, HeadPrefetch
  <2>3. KeptLayer'
    BY <1>5 DEF Spawn, Kept, Target, KeptLayer
  <2>4. StagedInHand'
    BY <1>5 DEF Spawn, Kept, Target, StagedInHand
  <2>5. HandlesStand'
    <3>1. pc' = "execute" /\ layer' = layer /\ Ahead' = Ahead /\ layer \in Nat
      BY <1>5 DEF Spawn, TypeOK
    <3>2. Ahead \in 0..4
      BY Sizes
    <3>a. \A k \in Slot : k <= Ahead =>
            handle'[k] = IF Kept(k) THEN handle[k] ELSE Target(k)
      BY <1>5, <3>2 DEF Spawn
    <3>3. ASSUME NEW k \in Slot, handle'[k] # None
          PROVE  /\ k <= Ahead /\ layer + k < N
                 /\ handle'[k] = layer + k /\ thread'[layer + k] \in Outstanding
      <4>1. k <= Ahead
        BY <1>5, <3>2, <3>3 DEF Spawn
      <4>2. CASE Kept(k)
        <5>1. handle'[k] = handle[k] /\ handle[k] # None
          BY <1>5, <3>a, <4>1, <4>2 DEF Kept
        <5>2. /\ layer + k < N /\ handle[k] = layer + k
              /\ thread[layer + k] \in Outstanding
          BY <1>5, <5>1 DEF Spawn, HandlesStand
        <5>3. thread'[layer + k] \in Outstanding
          BY <1>5, <5>2, <3>1 DEF Spawn, Outstanding
        <5> QED BY <4>1, <5>1, <5>2, <5>3
      <4>3. CASE ~Kept(k)
        <5>1. handle'[k] = Target(k)
          BY <3>a, <4>1, <4>3
        <5>2. layer + k < N /\ Target(k) = layer + k
          BY <3>3, <5>1 DEF Target
        <5>3. k \in 1..Ahead /\ layer + k \in Layer
          BY <3>1, <3>2, <4>1, <5>2
        <5>4. thread'[layer + k] = "running"
          BY <1>5, <4>3, <5>2, <5>3 DEF Spawn
        <5> QED BY <4>1, <5>1, <5>2, <5>4 DEF Outstanding
      <4> QED BY <4>2, <4>3
    <3>4. ASSUME NEW k \in Slot, k <= Ahead, layer + k < N
          PROVE  handle'[k] = layer + k
      <4>1. handle'[k] = IF Kept(k) THEN handle[k] ELSE Target(k)
        BY <3>a, <3>4
      <4>2. Kept(k) => handle[k] = layer + k
        BY <1>5 DEF Spawn, HandlesStand, Kept
      <4> QED BY <3>4, <4>1, <4>2 DEF Target
    <3>5. ASSUME NEW l \in Layer, thread'[l] \in Outstanding
          PROVE  layer < l /\ l <= layer + Ahead
      <4>1. CASE \E k \in 1..Ahead : ~Kept(k) /\ Target(k) = l
        BY <4>1, <3>1, <3>2 DEF Target
      <4>2. CASE ~ \E k \in 1..Ahead : ~Kept(k) /\ Target(k) = l
        <5>1. thread'[l] = thread[l]
          BY <1>5, <4>2 DEF Spawn
        <5> QED BY <1>5, <5>1, <3>5 DEF Spawn, HandlesStand
      <4> QED BY <4>1, <4>2
    <3> QED BY <3>1, <3>3, <3>4, <3>5 DEF HandlesStand
  <2>6. NothingHeld'
    BY <1>5 DEF Spawn, Kept, Target, NothingHeld
  <2>7. HasRoom'
    BY <1>5 DEF Spawn, Kept, Target, HasRoom
  <2> QED BY <2>1, <2>2, <2>3, <2>4, <2>5, <2>6, <2>7
<1>6. CASE Execute
  <2>1. TypeOK'
    <3>a. layer \in Layer
      BY <1>6 DEF Execute, TypeOK, Calls
    <3>b. absorbed[layer] \in 0..MaxTokens /\ absorbed[layer] + Size <= MaxTokens
      BY <1>6, <3>a DEF Execute, TypeOK, HasRoom
    <3>1. layer \in Layer /\ absorbed[layer] + Size \in 0..MaxTokens
      BY <3>a, <3>b, Sizes
    <3>2. absorbed' \in [Layer -> 0..MaxTokens]
      BY <1>6, <3>1 DEF Execute, Absorb, TypeOK
    <3> QED BY <1>6, <3>2 DEF Execute, TypeOK
  <2>2. Calls'
    BY <1>6 DEF Execute, Absorb, Calls, HeadPrefetch
  <2>3. KeptLayer'
    BY <1>6 DEF Execute, Absorb, KeptLayer
  <2>4. StagedInHand'
    BY <1>6 DEF Execute, Absorb, StagedInHand
  <2>5. HandlesStand'
    BY <1>6 DEF Execute, Absorb, HandlesStand, Outstanding
  <2>6. NothingHeld'
    BY <1>6 DEF Execute, Absorb, NothingHeld
  <2>7. HasRoom'
    BY <1>6, SMTT(30) DEF Execute, Absorb, HasRoom, TypeOK
  <2> QED BY <2>1, <2>2, <2>3, <2>4, <2>5, <2>6, <2>7
<1>7. CASE ExecuteFails
  <2>1. TypeOK'
    <3>a. layer \in Layer
      BY <1>7 DEF ExecuteFails, TypeOK, Calls
    <3>b. absorbed[layer] \in 0..MaxTokens /\ absorbed[layer] + Size <= MaxTokens
      BY <1>7, <3>a DEF ExecuteFails, TypeOK, HasRoom
    <3>1. layer \in Layer /\ absorbed[layer] + Size \in 0..MaxTokens
      BY <3>a, <3>b, Sizes
    <3>2. absorbed' \in [Layer -> 0..MaxTokens]
      BY <1>7, <3>1 DEF ExecuteFails, Absorb, TypeOK
    <3> QED BY <1>7, <3>2 DEF ExecuteFails, TypeOK
  <2>2. Calls'
    BY <1>7 DEF ExecuteFails, Absorb, Calls, HeadPrefetch
  <2>3. KeptLayer'
    BY <1>7 DEF ExecuteFails, Absorb, KeptLayer
  <2>4. StagedInHand'
    BY <1>7 DEF ExecuteFails, Absorb, StagedInHand
  <2>5. HandlesStand'
    BY <1>7 DEF ExecuteFails, Absorb, HandlesStand, Outstanding
  <2>6. NothingHeld'
    BY <1>7 DEF ExecuteFails, Absorb, NothingHeld
  <2>7. HasRoom'
    BY <1>7 DEF ExecuteFails, Absorb, HasRoom
  <2> QED BY <2>1, <2>2, <2>3, <2>4, <2>5, <2>6, <2>7
<1>8. CASE JoinNone
  <2>1. TypeOK'
    BY <1>8 DEF JoinNone, Advance, IsLast, Rotated, TypeOK, Calls
  <2>2. Calls'
    BY <1>8 DEF JoinNone, Advance, IsLast, Rotated, Calls, TypeOK, HeadPrefetch
  <2>3. KeptLayer'
    BY <1>8 DEF JoinNone, Advance, IsLast, Rotated, KeptLayer
  <2>4. StagedInHand'
    BY <1>8 DEF JoinNone, Advance, IsLast, Rotated, StagedInHand, TypeOK, Calls, HandlesStand
  <2>5. HandlesStand'
    BY <1>8 DEF JoinNone, Advance, IsLast, Rotated, HandlesStand, TypeOK, Outstanding
  <2>6. NothingHeld'
    BY <1>8 DEF JoinNone, Advance, IsLast, Rotated, NothingHeld
  <2>7. HasRoom'
    BY <1>8 DEF JoinNone, Advance, IsLast, Rotated, HasRoom, TypeOK
  <2> QED BY <2>1, <2>2, <2>3, <2>4, <2>5, <2>6, <2>7
<1>9. CASE JoinNext
  <2>a. /\ pc = "join" /\ call # "head" /\ ok = TRUE /\ layer < N /\ layer \in Nat
        /\ Ahead \in 0..4
    BY <1>9, Sizes DEF JoinNext, Calls, TypeOK
  <2>b. /\ handle[1] = layer + 1 /\ layer + 1 < N /\ 1 <= Ahead
        /\ thread[layer + 1] \in Outstanding
    BY <1>9 DEF JoinNext, HandlesStand
  <2>c. /\ thread' = [thread EXCEPT ![layer + 1] = "joined"]
        /\ UNCHANGED <<chosen, call, absorbed, prefetched>>
        /\ Ahead' = Ahead /\ Size' = Size
    BY <1>9, <2>b DEF JoinNext
  <2>d. \A l \in Layer : thread'[l] = IF l = layer + 1 THEN "joined" ELSE thread[l]
    BY <2>c DEF TypeOK
  <2>e. \/ /\ staged' = layer + 1 /\ ok' = TRUE /\ handle' = Rotated
           /\ layer' = layer + 1 /\ pc' = "spawn"
        \/ ok' = FALSE /\ pc' = "close" /\ UNCHANGED <<staged, handle, layer>>
    BY <1>9, <2>a, <2>b DEF JoinNext, Advance, IsLast
  <2>f. thread' \in [Layer -> {"none", "running", "ok", "err", "panicked", "joined"}]
    BY <2>c DEF TypeOK
  <2>1. CASE /\ staged' = layer + 1 /\ ok' = TRUE /\ handle' = Rotated
             /\ layer' = layer + 1 /\ pc' = "spawn"
    <3>1. TypeOK'
      <4>1. Rotated \in [Slot -> 0..N]
        BY DEF Rotated, TypeOK
      <4>2. layer' \in 0..N /\ staged' \in 0..N
        BY <2>1, <2>a, <2>b
      <4> QED BY <2>1, <2>c, <2>f, <4>1, <4>2 DEF TypeOK
    <3>2. Calls'
      BY <2>1, <2>a, <2>b, <2>c DEF Calls, HeadPrefetch
    <3>3. KeptLayer'
      BY <2>1, <2>a, <2>c DEF KeptLayer
    <3>4. StagedInHand'
      <4>1. pipeline
        BY <2>b
      <4> QED BY <4>1, <2>1, <2>c DEF StagedInHand
    <3>5. HandlesStand'
      <4>1. ASSUME NEW k \in Slot, handle'[k] # None
            PROVE  /\ k <= Ahead /\ layer' + k < N
                   /\ handle'[k] = layer' + k /\ thread'[layer' + k] \in Outstanding
        <5>1. k # 4 /\ handle'[k] = handle[k + 1] /\ k + 1 \in Slot
          BY <2>1, <4>1 DEF Rotated
        <5>2. /\ k + 1 <= Ahead /\ layer + (k + 1) < N
              /\ handle[k + 1] = layer + (k + 1)
              /\ thread[layer + (k + 1)] \in Outstanding
          BY <2>a, <4>1, <5>1 DEF HandlesStand
        <5>3. layer + (k + 1) = layer' + k /\ layer' + k \in Layer /\ layer' + k # layer + 1
          BY <2>1, <2>a, <5>1, <5>2
        <5>4. thread'[layer' + k] = thread[layer + (k + 1)]
          BY <2>d, <5>3
        <5> HIDE DEF Ahead
        <5>5. k <= Ahead /\ layer' + k < N
          BY <2>a, <5>2, <5>3
        <5> QED BY <5>1, <5>2, <5>3, <5>4, <5>5
      <4>2. ASSUME NEW l \in Layer, thread'[l] \in Outstanding
            PROVE  layer' < l /\ l <= layer' + Ahead
        <5>1. l # layer + 1 /\ thread[l] \in Outstanding
          BY <2>d, <4>2 DEF Outstanding
        <5>2. layer < l /\ l <= layer + Ahead
          BY <2>a, <5>1 DEF HandlesStand
        <5> HIDE DEF Ahead
        <5>3. l \in Nat /\ layer' = layer + 1
          BY <2>1
        <5> QED BY <2>a, <5>1, <5>2, <5>3
      <4> QED BY <2>1, <2>c, <4>1, <4>2 DEF HandlesStand
    <3>6. NothingHeld'
      BY <2>1 DEF NothingHeld
    <3>7. HasRoom'
      BY <2>1, <2>a, <2>c DEF HasRoom
    <3> QED BY <3>1, <3>2, <3>3, <3>4, <3>5, <3>6, <3>7
  <2>2. CASE ok' = FALSE /\ pc' = "close" /\ UNCHANGED <<staged, handle, layer>>
    <3>1. TypeOK'
      BY <2>2, <2>c, <2>f DEF TypeOK
    <3>2. Calls'
      BY <2>2, <2>a, <2>c DEF Calls
    <3>3. KeptLayer'
      BY <2>2, <2>a, <2>c DEF KeptLayer
    <3>4. StagedInHand'
      BY <2>2, <2>b, <2>c DEF StagedInHand
    <3>5. HandlesStand'
      <4>1. ASSUME NEW l \in Layer, thread'[l] \in Outstanding
            PROVE  layer < l /\ l <= layer + Ahead
        <5>1. thread[l] \in Outstanding
          BY <2>d, <4>1 DEF Outstanding
        <5> QED BY <2>a, <5>1 DEF HandlesStand
      <4> QED BY <2>2, <2>c, <4>1 DEF HandlesStand
    <3>6. NothingHeld'
      BY <2>2 DEF NothingHeld
    <3>7. HasRoom'
      BY <2>2 DEF HasRoom
    <3> QED BY <3>1, <3>2, <3>3, <3>4, <3>5, <3>6, <3>7
  <2> QED BY <2>e, <2>1, <2>2
<1>10. CASE Close
  <2>1. TypeOK'
    BY <1>10 DEF Close, TypeOK
  <2>2. Calls'
    BY <1>10 DEF Close, Calls, HeadPrefetch
  <2>3. KeptLayer'
    BY <1>10 DEF Close, KeptLayer
  <2>4. StagedInHand'
    BY <1>10 DEF Close, StagedInHand
  <2>5. HandlesStand'
    BY <1>10 DEF Close, HandlesStand, Outstanding
  <2>6. NothingHeld'
    BY <1>10 DEF Close, NothingHeld
  <2>7. HasRoom'
    BY <1>10 DEF Close, HasRoom
  <2> QED BY <2>1, <2>2, <2>3, <2>4, <2>5, <2>6, <2>7
<1>11. CASE Logits
  <2>1. TypeOK'
    BY <1>11 DEF Logits, HeadPrefetch, Returned, TypeOK
  <2>2. Calls'
    BY <1>11 DEF Logits, HeadPrefetch, Returned, Calls
  <2>3. KeptLayer'
    BY <1>11 DEF Logits, HeadPrefetch, Returned, KeptLayer
  <2>4. StagedInHand'
    BY <1>11 DEF Logits, HeadPrefetch, Returned, StagedInHand
  <2>5. HandlesStand'
    BY <1>11 DEF Logits, HeadPrefetch, Returned, HandlesStand, Outstanding
  <2>6. NothingHeld'
    BY <1>11 DEF Logits, HeadPrefetch, Returned, NothingHeld
  <2>7. HasRoom'
    BY <1>11 DEF Logits, HeadPrefetch, Returned, HasRoom
  <2> QED BY <2>1, <2>2, <2>3, <2>4, <2>5, <2>6, <2>7
<1>12. CASE LogitsAhead
  <2>1. TypeOK'
    BY <1>12 DEF LogitsAhead, HeadPrefetch, TypeOK
  <2>2. Calls'
    BY <1>12 DEF LogitsAhead, HeadPrefetch, Calls
  <2>3. KeptLayer'
    BY <1>12 DEF LogitsAhead, HeadPrefetch, KeptLayer
  <2>4. StagedInHand'
    BY <1>12 DEF LogitsAhead, HeadPrefetch, StagedInHand
  <2>5. HandlesStand'
    BY <1>12 DEF LogitsAhead, HeadPrefetch, HandlesStand, Outstanding
  <2>6. NothingHeld'
    BY <1>12 DEF LogitsAhead, HeadPrefetch, NothingHeld
  <2>7. HasRoom'
    BY <1>12 DEF LogitsAhead, HeadPrefetch, HasRoom
  <2> QED BY <2>1, <2>2, <2>3, <2>4, <2>5, <2>6, <2>7
<1>13. CASE JoinHead
  <2>1. TypeOK'
    BY <1>13 DEF JoinHead, HeadPrefetch, Returned, Finished, TypeOK
  <2>2. Calls'
    BY <1>13 DEF JoinHead, HeadPrefetch, Returned, Finished, Calls
  <2>3. KeptLayer'
    BY <1>13 DEF JoinHead, HeadPrefetch, Returned, Finished, KeptLayer, TypeOK, Calls
  <2>4. StagedInHand'
    BY <1>13 DEF JoinHead, HeadPrefetch, Returned, Finished, StagedInHand
  <2>5. HandlesStand'
    BY <1>13 DEF JoinHead, HeadPrefetch, Returned, Finished, HandlesStand, Outstanding
  <2>6. NothingHeld'
    BY <1>13 DEF JoinHead, HeadPrefetch, Returned, Finished, NothingHeld
  <2>7. HasRoom'
    BY <1>13 DEF JoinHead, HeadPrefetch, Returned, Finished, HasRoom
  <2> QED BY <2>1, <2>2, <2>3, <2>4, <2>5, <2>6, <2>7
<1>14. CASE Reset
  <2>1. TypeOK'
    BY <1>14, NoTokens DEF Reset, TypeOK
  <2>2. Calls'
    BY <1>14 DEF Reset, Calls, HeadPrefetch
  <2>3. KeptLayer'
    BY <1>14 DEF Reset, KeptLayer
  <2>4. StagedInHand'
    BY <1>14 DEF Reset, StagedInHand
  <2>5. HandlesStand'
    BY <1>14 DEF Reset, HandlesStand, Outstanding
  <2>6. NothingHeld'
    BY <1>14 DEF Reset, NothingHeld
  <2>7. HasRoom'
    BY <1>14 DEF Reset, HasRoom
  <2> QED BY <2>1, <2>2, <2>3, <2>4, <2>5, <2>6, <2>7
<1>15. CASE \E l \in Layer : Read(l)
  <2>1. TypeOK'
    BY <1>15, SMTT(30) DEF Read, Outstanding, HeadPrefetch, TypeOK
  <2>2. Calls'
    BY <1>15 DEF Read, Outstanding, HeadPrefetch, Calls, TypeOK
  <2>3. KeptLayer'
    BY <1>15 DEF Read, Outstanding, HeadPrefetch, KeptLayer, TypeOK
  <2>4. StagedInHand'
    BY <1>15 DEF Read, Outstanding, HeadPrefetch, StagedInHand, TypeOK
  <2>5. HandlesStand'
    <3>1. PICK r \in Layer : Read(r)
      BY <1>15
    <3>2. \A l \in Layer : thread'[l] \in Outstanding <=> thread[l] \in Outstanding
      BY <3>1 DEF Read, Outstanding, TypeOK
    <3>3. UNCHANGED <<pc, layer, handle, pipeline, call, depth>> /\ Ahead' = Ahead
      BY <3>1 DEF Read
    <3>4. layer \in Nat
      BY DEF TypeOK
    <3>5. \A k \in Slot : layer + k < N => layer + k \in Layer
      BY <3>4
    <3> HIDE DEF Ahead
    <3>6. pc \in Loop => \A k \in Slot : handle[k] # None =>
            /\ k <= Ahead /\ layer + k < N
            /\ handle[k] = layer + k /\ thread'[layer + k] \in Outstanding
      BY <3>2, <3>5 DEF HandlesStand
    <3>7. pc \in Loop \cup {"close"} => \A l \in Layer :
            thread'[l] \in Outstanding => layer < l /\ l <= layer + Ahead
      BY <3>2 DEF HandlesStand
    <3> QED BY <3>3, <3>6, <3>7 DEF HandlesStand
  <2>6. NothingHeld'
    BY <1>15 DEF Read, Outstanding, HeadPrefetch, NothingHeld, TypeOK
  <2>7. HasRoom'
    BY <1>15 DEF Read, Outstanding, HeadPrefetch, HasRoom, TypeOK
  <2> QED BY <2>1, <2>2, <2>3, <2>4, <2>5, <2>6, <2>7
<1>16. CASE UNCHANGED vars
  BY <1>16 DEF vars, TypeOK, Calls, KeptLayer, StagedInHand, HandlesStand, NothingHeld, HasRoom, HeadPrefetch
<1> QED
  BY <1>1, <1>2, <1>3, <1>4, <1>5, <1>6, <1>7, <1>8, <1>9, <1>10, <1>11, <1>12, <1>13, <1>14, <1>15, <1>16 DEF Next, Main, Dead

(* The inductive invariant holds throughout.                               *)
LEMMA Invariant == Spec => []IInv
BY InitInv, NextInv, PTL DEF Spec

(* Type correctness of the pipeline's state.                               *)
THEOREM TypeCorrect == Spec => []TypeOK
<1>1. IInv => TypeOK
  BY DEF IInv
<1> QED BY <1>1, Invariant, PTL

(* At any number of layers and any depth the block of decode_hidden runs   *)
(* with the weights of its own layer.                                      *)
THEOREM StagedRight == Spec => []StagedIsExecuting
<1>1. IInv => StagedIsExecuting
  BY DEF IInv, StagedInHand, Loop, StagedIsExecuting
<1> QED BY <1>1, Invariant, PTL

(* The look-ahead is as deep as SI_STAGE_DEPTH asked for whenever a layer  *)
(* runs: next_handle .. next4_handle stand for the layers behind it.       *)
THEOREM AheadFilled == Spec => []LookaheadFilled
<1>1. ASSUME IInv, pc = "execute", NEW k \in 1..Ahead, layer + k < N
      PROVE  handle[k] = layer + k /\ thread[layer + k] # "none"
  <2>1. k \in Slot /\ k <= Ahead
    BY <1>1, Sizes DEF IInv, Slot
  <2>2. handle[k] = layer + k
    BY <1>1, <2>1 DEF IInv, HandlesStand, Loop
  <2>3. handle[k] # None
    BY <1>1, <2>1, <2>2, Qwen35StageAssumption DEF IInv, TypeOK, None
  <2>4. thread[layer + k] \in Outstanding
    BY <1>1, <2>1, <2>3 DEF IInv, HandlesStand, Loop
  <2> QED BY <2>2, <2>4 DEF Outstanding
<1>2. IInv => LookaheadFilled
  BY <1>1 DEF LookaheadFilled
<1> QED BY <1>2, Invariant, PTL

(* The layers whose threads are outstanding are those of the look-ahead,   *)
(* or layer 0 beside the output head.                                      *)
LEMMA ThreadsBounded ==
  ASSUME IInv
  PROVE  LET Held == {l \in Layer : thread[l] \in {"running", "ok"}}
         IN  /\ Cardinality(Held) \in Nat
             /\ pc \in Loop \cup {"close"} => Cardinality(Held) <= Ahead
             /\ pc = "head" => Cardinality(Held) <= 1
             /\ pc \notin Loop \cup {"close", "head"} => Cardinality(Held) = 0
<1> DEFINE Held == {l \in Layer : thread[l] \in {"running", "ok"}}
<1>1. Layer \subseteq Nat /\ layer \in Nat /\ Ahead \in 0..4
  BY Sizes, Qwen35StageAssumption DEF IInv, TypeOK, Layer
<1>2. IsFiniteSet(Held) /\ Cardinality(Held) \in Nat
  <2>1. IsFiniteSet(0..(N - 1))
    BY FS_Interval, Qwen35StageAssumption
  <2>2. Held \in SUBSET (0..(N - 1))
    BY DEF Layer
  <2>3. IsFiniteSet(Held)
    BY <2>1, <2>2, FS_Subset
  <2> QED BY <2>3, FS_CardinalityType
<1>3. ASSUME pc \in Loop \cup {"close"}
      PROVE  Cardinality(Held) <= Ahead
  <2> DEFINE Window == (layer + 1)..(layer + Ahead)
  <2>1. Held \in SUBSET Window
    <3>1. ASSUME NEW l \in Layer, thread[l] \in {"running", "ok"}
          PROVE  l \in Nat /\ layer < l /\ l <= layer + Ahead
      BY <1>1, <1>3, <3>1 DEF IInv, HandlesStand, Outstanding
    <3>2. ASSUME NEW l \in Held
          PROVE  l \in Window
      <4>1. l \in Nat /\ layer < l /\ l <= layer + Ahead
        BY <3>1, <3>2
      <4> QED BY <1>1, <4>1
    <3> QED BY <3>2
  <2>2. IsFiniteSet(Window) /\ Cardinality(Window) = Ahead
    <3>1. layer + 1 \in Int /\ layer + Ahead \in Int
      BY <1>1
    <3>2. /\ IsFiniteSet(Window)
          /\ Cardinality(Window) =
               IF layer + 1 > layer + Ahead THEN 0 ELSE (layer + Ahead) - (layer + 1) + 1
      BY <3>1, FS_Interval
    <3> HIDE DEF Window
    <3> QED BY <3>2, <1>1
  <2> HIDE DEF Window, Held
  <2>3. Cardinality(Held) <= Cardinality(Window)
    BY <2>1, <2>2, FS_Subset
  <2> QED BY <2>2, <2>3
<1>4. ASSUME pc = "head"
      PROVE  Cardinality(Held) <= 1
  <2>1. Held \in SUBSET (0..0)
    <3>1. ASSUME NEW l \in Held
          PROVE  l = 0
      BY <1>4, <3>1 DEF IInv, NothingHeld, Loop
    <3>2. 0 \in 0..0
      OBVIOUS
    <3> QED BY <3>1, <3>2
  <2>2. IsFiniteSet(0..0) /\ Cardinality(0..0) = 1
    <3>1. /\ IsFiniteSet(0..0)
          /\ Cardinality(0..0) = IF 0 > 0 THEN 0 ELSE 0 - 0 + 1
      <4>1. 0 \in Int
        OBVIOUS
      <4> QED BY <4>1, FS_Interval, Zenon
    <3> QED BY <3>1
  <2> HIDE DEF Held
  <2> QED BY <2>1, <2>2, FS_Subset
<1>5. ASSUME pc \notin Loop \cup {"close", "head"}
      PROVE  Cardinality(Held) = 0
  <2>1. Held = {}
    BY <1>5 DEF IInv, NothingHeld, NoThread, Loop
  <2> QED BY <2>1, FS_EmptySet
<1> QED BY <1>2, <1>3, <1>4, <1>5

(* Memory is bounded by the depth, whatever the threads do and in whatever *)
(* order they end.                                                         *)
THEOREM Bounded == Spec => []ResidencyBound
<1>1. ASSUME IInv
      PROVE  ResidencyBound
  <2> DEFINE held == Cardinality({l \in Layer : thread[l] \in {"running", "ok"}})
  <2>1. /\ held \in Nat
        /\ pc \in Loop \cup {"close"} => held <= Ahead
        /\ pc = "head" => held <= 1
        /\ pc \notin Loop \cup {"close", "head"} => held = 0
    BY <1>1, ThreadsBounded
  <2>2. Resident = held + (IF staged # None THEN 1 ELSE 0)
                        + (IF prefetched THEN 1 ELSE 0)
    BY DEF Resident
  <2> HIDE DEF held
  <2>3. CASE pc \in Loop \cup {"close"}
    <3>1. ~pipeline => staged = None /\ ~prefetched
      BY <1>1, <2>3 DEF IInv, StagedInHand, KeptLayer, Loop
    <3>2. call = "decode" \/ call = "window"
      BY <1>1, <2>3 DEF IInv, Calls, TypeOK, Loop
    <3>3. call = "decode" => ~prefetched
      BY <1>1, <2>3 DEF IInv, KeptLayer
    <3>4. held <= IF ~pipeline THEN 0 ELSE IF call = "window" THEN 1 ELSE depth
      BY <2>1, <2>3 DEF Ahead
    <3>5. depth \in 1..4
      BY <1>1 DEF IInv, TypeOK
    <3> QED BY <2>1, <2>2, <3>1, <3>2, <3>3, <3>4, <3>5 DEF ResidencyBound
  <2>4. CASE pc \notin Loop \cup {"close"}
    <3>1. staged = None
      BY <1>1, <2>4 DEF IInv, NothingHeld
    <3>2. pc = "head" => pipeline
      BY <1>1 DEF IInv, Calls, HeadPrefetch
    <3>3. prefetched => pipeline
      BY <1>1 DEF IInv, KeptLayer
    <3>4. depth \in 1..4
      BY <1>1 DEF IInv, TypeOK
    <3>5. held <= IF pc = "head" THEN 1 ELSE 0
      BY <2>1, <2>4
    <3> QED BY <2>1, <2>2, <3>1, <3>2, <3>3, <3>4, <3>5 DEF ResidencyBound
  <2> QED BY <2>3, <2>4
<1>2. IInv => ResidencyBound
  BY <1>1
<1> QED BY <1>2, Invariant, PTL

-----------------------------------------------------------------------------
(* The layer the stack runs next, and the tokens of its current call.      *)
At == IF Phase # "busy" THEN 0 ELSE IF pc = "join" THEN layer + 1 ELSE layer
Tokens == IF Phase = "busy" THEN Size ELSE 1

(* The four ways a step shows outside.                                     *)
Stutter == UNCHANGED <<absorbed, Phase, At, Tokens>>
Fails ==
  /\ Phase = "busy" /\ Phase' = "failed"
  /\ \/ absorbed' = absorbed
     \/ At < N /\ absorbed' = [absorbed EXCEPT ![At] = @ + Tokens]
Returns == Phase = "busy" /\ At = N /\ Phase' = "idle" /\ absorbed' = absorbed
Executes ==
  /\ Phase = "busy" /\ Phase' = "busy" /\ At < N /\ At' = At + 1
  /\ absorbed' = [absorbed EXCEPT ![At] = @ + Tokens] /\ Tokens' = Tokens

(* Each of them is a step of the stack without a pipeline, or none.        *)
LEMMA Shown ==
  Stutter \/ Fails \/ Returns \/ Executes => [Stack!Next]_(Stack!vars)
<1>1. Stutter => UNCHANGED Stack!vars
  BY DEF Stutter, Stack!vars, At, Tokens
<1>2. Fails => Stack!Fail
  BY DEF Fails, Stack!Fail, Stack!Absorb, At, Tokens
<1>3. Returns => Stack!Return
  BY DEF Returns, Stack!Return, At, Tokens
<1>4. Executes => Stack!Execute
  BY DEF Executes, Stack!Execute, Stack!Absorb, At, Tokens
<1> QED BY <1>1, <1>2, <1>3, <1>4 DEF Stack!Next, Stack!Progress

(* The end of the output head is the end of a decode; beside a call of its *)
(* own it does not show.                                                   *)
LEMMA HeadShown ==
  ASSUME pc \in {"logits", "head"}, call \in {"decode", "head"},
         call = "decode" => layer = N, UNCHANGED <<absorbed, call, ok, layer>>,
         \E good \in BOOLEAN : pc' = Returned(good)
  PROVE  [Stack!Next]_(Stack!vars)
<1> USE DEF Phase
<1>1. pc' \in {"idle", "failed"}
  BY DEF Returned
<1>2. CASE call = "head"
  <2>1. pc' = "idle"
    BY <1>2 DEF Returned
  <2>2. Stutter
    BY <1>2, <2>1 DEF Stutter, At, Tokens
  <2> QED BY <2>2, Shown
<1>3. CASE call = "decode"
  <2>1. Phase = "busy" /\ At = N /\ absorbed' = absorbed
    BY <1>3 DEF At
  <2>2. Fails \/ Returns
    BY <1>1, <2>1 DEF Fails, Returns
  <2> QED BY <2>2, Shown
<1> QED BY <1>2, <1>3

(* A step of the pipelined runtime is a step of running the layers in      *)
(* turn, or does not show: joining, spawning and reading ahead are not     *)
(* seen in the layers' states.                                             *)
LEMMA StepShown == IInv /\ [Next]_vars => [Stack!Next]_(Stack!vars)
<1> SUFFICES ASSUME IInv, [Next]_vars PROVE [Stack!Next]_(Stack!vars)
  OBVIOUS
<1>a. Calls /\ layer \in 0..N /\ ok \in BOOLEAN /\ call \in {"decode", "window", "head"}
  BY DEF IInv, TypeOK
<1> USE DEF Phase, Size, Loop
<1>1. CASE Begin
  <2>1. Phase = "idle" /\ Phase' = "busy" /\ At' = 0
    BY <1>1 DEF Begin, At
  <2>2. Tokens' = Size' /\ Size' \in {1, Batch}
    BY <1>1, <2>1 DEF Begin, Tokens
  <2>3. \A l \in Layer : absorbed[l] + Size' <= MaxTokens
    BY <1>1 DEF Begin
  <2>4. Stack!Begin
    BY <1>1, <2>1, <2>2, <2>3 DEF Begin, Stack!Begin, Stack!Layer, Layer, At, Tokens
  <2> QED BY <2>4 DEF Stack!Next
<1>2. CASE HeadAlone
  <2>1. Stutter
    BY <1>2 DEF HeadAlone, Stutter, At, Tokens
  <2> QED BY <2>1, Shown
<1>3. CASE Reset
  <2>1. Phase \in {"idle", "failed"} /\ Phase' = "idle" /\ UNCHANGED <<At, Tokens>>
    BY <1>3 DEF Reset, At, Tokens
  <2>2. Stack!Reset
    BY <1>3, <2>1 DEF Reset, Stack!Reset, Stack!Layer, Layer, At, Tokens
  <2> QED BY <2>2 DEF Stack!Next
<1>4. CASE TakePrefetched
  <2>1. Stutter
    BY <1>4, <1>a DEF TakePrefetched, Stutter, At, Tokens, Calls
  <2> QED BY <2>1, Shown
<1>5. CASE ReadFirst
  <2>1. Phase = "busy" /\ UNCHANGED <<absorbed, call, layer>>
    BY <1>5, <1>a DEF ReadFirst, Calls
  <2>2. CASE pc' = "spawn"
    <3>1. Stutter
      BY <1>5, <1>a, <2>2 DEF ReadFirst, Stutter, At, Tokens, Calls
    <3> QED BY <3>1, Shown
  <2>3. CASE pc' = "failed"
    <3>1. Fails
      BY <2>1, <2>3 DEF Fails
    <3> QED BY <3>1, Shown
  <2> QED BY <1>5, <2>2, <2>3 DEF ReadFirst
<1>6. CASE Spawn
  <2>1. Stutter
    BY <1>6, <1>a DEF Spawn, Stutter, At, Tokens, Calls
  <2> QED BY <2>1, Shown
<1>7. CASE Execute
  <2>1. Executes
    BY <1>7, <1>a DEF Execute, Absorb, Executes, At, Tokens, Calls
  <2> QED BY <2>1, Shown
<1>8. CASE ExecuteFails
  <2>a. Phase = "busy" /\ At = layer /\ Tokens = Size /\ layer < N /\ Phase' = "failed"
    BY <1>8, <1>a DEF ExecuteFails, At, Tokens, Calls
  <2>b. absorbed' = absorbed \/ absorbed' = [absorbed EXCEPT ![layer] = @ + Size]
    BY <1>8 DEF ExecuteFails, Absorb
  <2>1. Fails
    BY <2>a, <2>b DEF Fails
  <2> QED BY <2>1, Shown
<1>9. CASE JoinNone
  <2>1. Stutter
    BY <1>9, <1>a DEF JoinNone, Advance, Stutter, At, Tokens, Calls
  <2> QED BY <2>1, Shown
<1>10. CASE JoinNext
  <2>1. Phase = "busy" /\ At = layer + 1 /\ Tokens = Size /\ absorbed' = absorbed
    BY <1>10, <1>a DEF JoinNext, At, Tokens, Calls
  <2>2. \/ ok' = TRUE /\ pc' \in {"spawn", "close"} /\ layer' = layer + 1
        \/ ok' = FALSE /\ pc' = "close"
    BY <1>10, <1>a DEF JoinNext, Advance, Calls
  <2>3. call' = call /\ call # "head"
    BY <1>10, <1>a DEF JoinNext, Calls
  <2>4. CASE ok' = TRUE /\ pc' \in {"spawn", "close"} /\ layer' = layer + 1
    <3>1. Phase' = "busy"
      BY <2>3, <2>4
    <3>2. At' = layer + 1 /\ Tokens' = Size'
      BY <2>4, <3>1 DEF At, Tokens
    <3>3. Stutter
      BY <2>1, <2>3, <3>1, <3>2 DEF Stutter
    <3> QED BY <3>3, Shown
  <2>5. CASE ok' = FALSE /\ pc' = "close"
    <3>1. Phase' = "failed"
      BY <2>5
    <3>2. Fails
      BY <2>1, <3>1 DEF Fails
    <3> QED BY <3>2, Shown
  <2> QED BY <2>2, <2>4, <2>5
<1>11. CASE Close
  <2>1. call # "head" /\ (ok = TRUE => layer = N)
    BY <1>11, <1>a DEF Close, Calls
  <2>2. pc = "close" /\ UNCHANGED <<absorbed, call, ok, layer>>
    BY <1>11 DEF Close
  <2>3. CASE ok = FALSE
    <3>1. pc' \in {"dead", "failed"}
      BY <1>11, <2>3 DEF Close
    <3>2. Stutter
      BY <2>2, <2>3, <3>1 DEF Stutter, At, Tokens
    <3> QED BY <3>2, Shown
  <2>4. CASE ok = TRUE
    <3>1. Phase = "busy" /\ At = N /\ Tokens = Size
      BY <2>1, <2>2, <2>4 DEF At, Tokens
    <3>2. CASE pc' = "dead"
      <4>1. Fails
        BY <2>2, <3>1, <3>2 DEF Fails
      <4> QED BY <4>1, Shown
    <3>3. CASE call = "decode" /\ pc' = "logits"
      <4>1. Phase' = "busy" /\ At' = layer' /\ Tokens' = Size'
        BY <2>2, <3>3 DEF At, Tokens
      <4>2. Stutter
        BY <2>1, <2>2, <2>4, <3>1, <4>1 DEF Stutter
      <4> QED BY <4>2, Shown
    <3>4. CASE pc' = "idle"
      <4>1. Returns
        BY <2>2, <3>1, <3>4 DEF Returns
      <4> QED BY <4>1, Shown
    <3> QED BY <1>11, <2>4, <3>2, <3>3, <3>4 DEF Close
  <2> QED BY <1>a, <2>3, <2>4
<1>12. CASE Logits
  <2>1. call # "window" /\ (call = "decode" => layer = N)
    BY <1>12, <1>a DEF Logits, Calls
  <2>2. /\ pc \in {"logits", "head"} /\ UNCHANGED <<absorbed, call, ok, layer>>
        /\ \E good \in BOOLEAN : pc' = Returned(good)
    BY <1>12 DEF Logits
  <2> QED BY <1>a, <2>1, <2>2, HeadShown
<1>13. CASE LogitsAhead
  <2>1. Stutter
    BY <1>13, <1>a DEF LogitsAhead, Stutter, At, Tokens
  <2> QED BY <2>1, Shown
<1>14. CASE JoinHead
  <2>1. call # "window" /\ (call = "decode" => layer = N)
    BY <1>14, <1>a DEF JoinHead, Calls
  <2>2. /\ pc \in {"logits", "head"} /\ UNCHANGED <<absorbed, call, ok, layer>>
        /\ \E good \in BOOLEAN : pc' = Returned(good)
    BY <1>14 DEF JoinHead
  <2> QED BY <1>a, <2>1, <2>2, HeadShown
<1>15. CASE \E l \in Layer : Read(l)
  <2>1. Stutter
    BY <1>15 DEF Read, Stutter, At, Tokens
  <2> QED BY <2>1, Shown
<1>16. CASE UNCHANGED vars
  <2>1. Stutter
    BY <1>16 DEF vars, Stutter, At, Tokens
  <2> QED BY <2>1, Shown
<1> QED
  BY <1>1, <1>2, <1>3, <1>4, <1>5, <1>6, <1>7, <1>8, <1>9, <1>10, <1>11, <1>12, <1>13, <1>14, <1>15, <1>16
     DEF Next, Main, Dead

(* The pipelined runtime implements the stack without a pipeline: every    *)
(* layer absorbs the tokens of a call in depth order, each exactly once    *)
(* (the safety part of ImplementsLayerStack).                              *)
THEOREM Implements == Spec => Stack!Init /\ [][Stack!Next]_(Stack!vars)
<1>1. Init => Stack!Init
  BY DEF Init, Phase, Layer, Stack!Init, Stack!Layer
<1> QED BY <1>1, Invariant, StepShown, PTL DEF Spec

-----------------------------------------------------------------------------
(* The weights.                                                            *)

(* A set of natural numbers that is not empty has a least element: the     *)
(* form of induction used here.                                            *)
LEMMA LeastElement ==
  ASSUME NEW T \in SUBSET Nat, T # {}
  PROVE  \E m \in T : \A n \in T : m <= n
<1>1. PICK m \in T : \A n \in T : <<n, m>> \notin OpToRel(<, Nat)
  BY WFMin, NatLessThanWellFounded, Zenon
<1>2. \A n \in T : ~(n < m)
  BY <1>1, Zenon DEF OpToRel
<1> QED BY <1>2

(* What is collected from the first tensors, and packed from the first     *)
(* runs, as functions that solve their equations.                          *)
Collecting(r, data, order, n) ==
  r = [i \in 0..n |-> IF i = 0 THEN <<>> ELSE Extended(r[i - 1], data[order[i]])]
Packing(p, runs, n) ==
  p = [i \in 0..n |-> IF i = 0 THEN <<>> ELSE p[i - 1] \o Positions(runs[i].start, runs[i].end)]

LEMMA CollectingExists ==
  ASSUME NEW data, NEW order, NEW n \in Nat
  PROVE  \E r : Collecting(r, data, order, n)
<1> DEFINE T == {k \in Nat : ~ \E r : Collecting(r, data, order, k)}
<1>1. SUFFICES ASSUME T # {} PROVE FALSE
  OBVIOUS
<1>2. PICK m \in T : \A k \in T : m <= k
  BY <1>1, LeastElement
<1>3. m # 0
  <2>1. Collecting([k \in 0..0 |-> <<>>], data, order, 0)
    BY DEF Collecting
  <2> QED BY <2>1
<1>4. PICK r : Collecting(r, data, order, m - 1)
  BY <1>2, <1>3
<1> DEFINE g == [k \in 0..m |-> IF k <= m - 1 THEN r[k] ELSE Extended(r[m - 1], data[order[m]])]
<1>5. ASSUME NEW k \in 0..m
      PROVE  g[k] = IF k = 0 THEN <<>> ELSE Extended(g[k - 1], data[order[k]])
  <2>1. CASE k <= m - 1
    <3>1. g[k] = r[k] /\ (k # 0 => g[k - 1] = r[k - 1])
      BY <2>1
    <3>2. k \in 0..(m - 1)
      BY <2>1
    <3>3. r[k] = IF k = 0 THEN <<>> ELSE Extended(r[k - 1], data[order[k]])
      BY <1>4, <3>2, Zenon DEF Collecting
    <3> QED BY <3>1, <3>3, Zenon
  <2>2. CASE k = m
    <3>1. g[k] = Extended(r[m - 1], data[order[m]]) /\ g[k - 1] = r[m - 1] /\ k # 0
      BY <1>3, <2>2
    <3> QED BY <2>2, <3>1, Zenon
  <2> QED BY <2>1, <2>2
<1> HIDE DEF g
<1>6. g = [i \in 0..m |-> IF i = 0 THEN <<>> ELSE Extended(g[i - 1], data[order[i]])]
  <2>1. g = [i \in 0..m |-> g[i]]
    BY DEF g
  <2> QED BY <1>5, <2>1, Zenon
<1>7. Collecting(g, data, order, m)
  BY <1>6 DEF Collecting
<1> QED BY <1>2, <1>7

LEMMA PackingExists ==
  ASSUME NEW runs, NEW n \in Nat
  PROVE  \E p : Packing(p, runs, n)
<1> DEFINE T == {k \in Nat : ~ \E p : Packing(p, runs, k)}
           Of(k) == Positions(runs[k].start, runs[k].end)
<1>1. SUFFICES ASSUME T # {} PROVE FALSE
  OBVIOUS
<1>2. PICK m \in T : \A k \in T : m <= k
  BY <1>1, LeastElement
<1>3. m # 0
  <2>1. Packing([k \in 0..0 |-> <<>>], runs, 0)
    BY DEF Packing
  <2> QED BY <2>1
<1>4. PICK p : Packing(p, runs, m - 1)
  BY <1>2, <1>3
<1> HIDE DEF Of
<1> DEFINE g == [k \in 0..m |-> IF k <= m - 1 THEN p[k] ELSE p[m - 1] \o Of(m)]
<1>5. ASSUME NEW k \in 0..m
      PROVE  g[k] = IF k = 0 THEN <<>> ELSE g[k - 1] \o Of(k)
  <2>1. CASE k <= m - 1
    <3>1. g[k] = p[k] /\ (k # 0 => g[k - 1] = p[k - 1])
      BY <2>1
    <3>2. k \in 0..(m - 1)
      BY <2>1
    <3>3. p[k] = IF k = 0 THEN <<>> ELSE p[k - 1] \o Of(k)
      BY <1>4, <3>2, Zenon DEF Packing, Of
    <3> QED BY <3>1, <3>3, Zenon
  <2>2. CASE k = m
    <3>1. g[k] = p[m - 1] \o Of(m) /\ g[k - 1] = p[m - 1] /\ k # 0
      BY <1>3, <2>2
    <3> QED BY <2>2, <3>1, Zenon
  <2> QED BY <2>1, <2>2
<1> HIDE DEF g
<1>6. g = [i \in 0..m |-> IF i = 0 THEN <<>> ELSE g[i - 1] \o Of(i)]
  <2>1. g = [i \in 0..m |-> g[i]]
    BY DEF g
  <2> QED BY <1>5, <2>1, Zenon
<1>7. Packing(g, runs, m)
  BY <1>6 DEF Packing, Of
<1> QED BY <1>2, <1>7

LEMMA RunsAre ==
  ASSUME NEW s, NEW l, Len(ByStart(Wanted(s, l))) \in Nat
  PROVE  \E r : /\ Collecting(r, Data(s.file), ByStart(Wanted(s, l)), Len(ByStart(Wanted(s, l))))
                /\ Runs(s, l) = r[Len(ByStart(Wanted(s, l)))]
<1> DEFINE data == Data(s.file)
           order == ByStart(Wanted(s, l))
           r == CHOOSE r : Collecting(r, data, order, Len(order))
<1>1. Collecting(r, data, order, Len(order))
  BY CollectingExists
<1>2. Runs(s, l) = r[Len(order)]
  BY DEF Runs, Collecting
<1> HIDE DEF r
<1> QED BY <1>1, <1>2

LEMMA PackedIs ==
  ASSUME NEW runs, Len(runs) \in Nat
  PROVE  Packing(PackedTo(runs), runs, Len(runs))
<1>1. \E p : Packing(p, runs, Len(runs))
  BY PackingExists
<1>2. PackedTo(runs) = CHOOSE p : Packing(p, runs, Len(runs))
  BY DEF PackedTo, Packing
<1> QED BY <1>1, <1>2

(* Where the tensors of a file that opens lie: each behind those with      *)
(* smaller offsets.                                                        *)
Lies(data, T) ==
  /\ \A t \in T : /\ data[t].start \in Int /\ data[t].end \in Int
                  /\ data[t].start <= data[t].end
  /\ \A t, u \in T : t.offset < u.offset => data[t].end <= data[u].start

LEMMA DataAre ==
  ASSUME NEW f \in DOMAIN Files, Opens(f)
  PROVE  Lies(Data(f), Files[f].tensors)
<1> DEFINE T == Files[f].tensors
           base == DataBase(f)
           data == Data(f)
<1>1. base \in Int
  BY GgufAssumption DEF DataBase, AlignedUp
<1>2. \A t \in T : t.offset \in Nat
  BY GgufAssumption
<1>3. Files[f].size \in Int
  BY GgufAssumption
<1> HIDE DEF base
<1>4. ASSUME NEW t \in T
      PROVE  /\ data[t].start = base + t.offset
             /\ data[t].end = IF Behind(f, t) = {} THEN Files[f].size
                              ELSE base + Min({u.offset : u \in Behind(f, t)})
  BY DEF Data, base
<1> HIDE DEF data
<1>5. ASSUME NEW t \in T, NEW u \in Behind(f, t)
      PROVE  /\ Min({v.offset : v \in Behind(f, t)}) \in Nat
             /\ Min({v.offset : v \in Behind(f, t)}) <= u.offset
  <2> DEFINE S == {v.offset : v \in Behind(f, t)}
  <2>1. S \in SUBSET Nat /\ u.offset \in S
    BY <1>2 DEF Behind
  <2> HIDE DEF S
  <2>2. PICK m \in S : \A n \in S : m <= n
    BY <2>1, LeastElement
  <2>3. Min(S) \in S /\ \A n \in S : Min(S) <= n
    BY <2>2, Zenon DEF Min
  <2>4. Min(S) \in Nat /\ Min(S) <= u.offset
    BY <2>1, <2>3
  <2> QED BY <2>4 DEF S
<1>6. ASSUME NEW t \in T
      PROVE  data[t].start \in Int /\ data[t].end \in Int /\ data[t].start <= data[t].end
  <2>1. data[t].start <= data[t].end
    BY DEF Opens, data
  <2>2. data[t].start \in Int
    <3>1. t.offset \in Nat /\ data[t].start = base + t.offset
      BY <1>2, <1>4
    <3> QED BY <1>1, <3>1
  <2>3. data[t].end \in Int
    <3>1. CASE Behind(f, t) = {}
      BY <1>3, <1>4, <3>1
    <3>2. CASE Behind(f, t) # {}
      <4>1. PICK u \in Behind(f, t) : TRUE
        BY <3>2
      <4>2. Min({v.offset : v \in Behind(f, t)}) \in Nat
        BY <1>5, <4>1
      <4>3. data[t].end = base + Min({v.offset : v \in Behind(f, t)})
        BY <1>4, <3>2, Zenon
      <4> QED BY <1>1, <4>2, <4>3
    <3> QED BY <3>1, <3>2
  <2> QED BY <2>1, <2>2, <2>3
<1>7. ASSUME NEW t \in T, NEW u \in T, t.offset < u.offset
      PROVE  data[t].end <= data[u].start
  <2>1. u \in Behind(f, t)
    BY <1>7 DEF Behind
  <2>2. /\ Min({v.offset : v \in Behind(f, t)}) \in Nat
        /\ Min({v.offset : v \in Behind(f, t)}) <= u.offset
    BY <1>5, <2>1
  <2>3. data[t].end = base + Min({v.offset : v \in Behind(f, t)})
    BY <1>4, <2>1
  <2>4. data[u].start = base + u.offset
    BY <1>4
  <2> QED BY <1>1, <1>2, <2>2, <2>3, <2>4
<1> QED BY <1>6, <1>7 DEF Lies, data

(* Tensors in the order of their offsets: each of them once.               *)
Orders(order, W) ==
  /\ Cardinality(W) \in Nat /\ Len(order) = Cardinality(W)
  /\ order \in [1..Cardinality(W) -> W]
  /\ \A t \in W : \E i \in 1..Cardinality(W) : order[i] = t
  /\ \A i, j \in 1..Cardinality(W) : i < j => order[i].offset < order[j].offset

LEMMA ByStartIs ==
  ASSUME NEW W, IsFiniteSet(W), \A t \in W : t.offset \in Nat,
         \A t, u \in W : t.offset = u.offset => t = u
  PROVE  Orders(ByStart(W), W)
<1> DEFINE n == Cardinality(W)
           Under(t) == {u \in W : u.offset < t.offset}
           rank(t) == Cardinality(Under(t))
           order == ByStart(W)
<1>1. n \in Nat
  BY FS_CardinalityType
<1>2. ASSUME NEW t \in W
      PROVE  IsFiniteSet(Under(t)) /\ rank(t) \in Nat
  BY FS_Subset, FS_CardinalityType
<1>3. ASSUME NEW t \in W
      PROVE  rank(t) <= n - 1
  <2>1. IsFiniteSet(W \ {t}) /\ Cardinality(W \ {t}) = n - 1
    BY FS_RemoveElement
  <2>2. Under(t) \subseteq W \ {t}
    OBVIOUS
  <2>3. rank(t) <= Cardinality(W \ {t})
    BY <2>1, <2>2, FS_Subset
  <2> QED BY <2>1, <2>3
<1>4. ASSUME NEW t \in W, NEW u \in W, t.offset < u.offset
      PROVE  rank(t) < rank(u)
  <2>1. /\ IsFiniteSet(Under(t) \union {t})
        /\ Cardinality(Under(t) \union {t}) = rank(t) + 1
    <3>1. t \notin Under(t)
      OBVIOUS
    <3>2. IsFiniteSet(Under(t))
      BY <1>2
    <3> HIDE DEF Under
    <3> QED BY <3>1, <3>2, FS_AddElement
  <2>2. Under(t) \union {t} \subseteq Under(u)
    BY <1>4
  <2>3. Cardinality(Under(t) \union {t}) <= rank(u)
    <3>1. IsFiniteSet(Under(u))
      BY <1>2
    <3> HIDE DEF Under
    <3> QED BY <2>2, <3>1, FS_Subset
  <2>4. rank(t) \in Nat /\ rank(u) \in Nat
    BY <1>2
  <2> HIDE DEF rank
  <2> QED BY <2>1, <2>3, <2>4
<1> HIDE DEF rank
<1> DEFINE g == [t \in W |-> rank(t) + 1]
<1>5. g \in Injection(W, 1..n)
  <2>1. ASSUME NEW t \in W PROVE rank(t) + 1 \in 1..n
    <3>1. rank(t) \in Nat /\ rank(t) <= n - 1
      BY <1>2, <1>3 DEF rank
    <3> QED BY <1>1, <3>1
  <2>2. g \in [W -> 1..n]
    BY <2>1
  <2>3. ASSUME NEW t \in W, NEW u \in W, g[t] = g[u]
        PROVE  t = u
    <3>1. rank(t) \in Nat /\ rank(u) \in Nat
      BY <1>2 DEF rank
    <3>0. rank(t) + 1 = rank(u) + 1
      BY <2>3
    <3>4. rank(t) = rank(u)
      BY <3>0, <3>1
    <3>2. ~(t.offset < u.offset) /\ ~(u.offset < t.offset)
      BY <1>4, <3>1, <3>4
    <3>3. t.offset = u.offset
      BY <3>2
    <3> QED BY <3>3
  <2> HIDE DEF g
  <2> QED BY <2>2, <2>3 DEF Injection, IsInjective
<1>6. g \in Surjection(W, 1..n)
  <2>1. IsFiniteSet(1..n) /\ Cardinality(1..n) = n
    BY <1>1, FS_Interval
  <2> HIDE DEF g
  <2> QED BY <1>5, <2>1, FS_Injection
<1>7. \A i \in 1..n : \E t \in W : g[t] = i
  BY <1>6 DEF Surjection
<1>8. \A i \in 1..n : order[i] = CHOOSE t \in W : rank(t) = i - 1
  BY Zenon DEF ByStart, rank
<1>9. order = [i \in 1..n |-> order[i]] /\ Len(order) = n
  <2> DEFINE h(i) == CHOOSE t \in W : Cardinality({u \in W : u.offset < t.offset}) = i - 1
  <2>0. order = [i \in 1..n |-> h(i)]
    BY Zenon DEF ByStart
  <2> HIDE DEF order, h
  <2>1. order = [i \in 1..n |-> order[i]]
    BY <2>0
  <2> QED BY <1>1, <2>1
<1> HIDE DEF order, g
<1>10. ASSUME NEW i \in 1..n
       PROVE  order[i] \in W /\ rank(order[i]) = i - 1
  <2>1. PICK t \in W : g[t] = i
    BY <1>7
  <2>2. rank(t) = i - 1
    <3>1. rank(t) \in Nat
      BY <1>2 DEF rank
    <3>2. rank(t) + 1 = i
      BY <2>1 DEF g
    <3> QED BY <3>1, <3>2
  <2> QED BY <1>8, <2>2, Zenon
<1>11. order \in [1..n -> W]
  BY <1>9, <1>10
<1>12. ASSUME NEW t \in W
       PROVE  \E i \in 1..n : order[i] = t
  <2>1. g[t] \in 1..n /\ rank(t) = g[t] - 1
    <3>1. rank(t) \in Nat /\ rank(t) <= n - 1
      BY <1>2, <1>3 DEF rank
    <3> QED BY <1>1, <3>1 DEF g
  <2>2. order[g[t]] \in W /\ rank(order[g[t]]) = rank(t)
    BY <1>10, <2>1
  <2>3. rank(t) \in Nat
    BY <1>2 DEF rank
  <2>4. ~(t.offset < order[g[t]].offset) /\ ~(order[g[t]].offset < t.offset)
    BY <1>4, <2>2, <2>3
  <2>5. order[g[t]] = t
    BY <2>2, <2>4
  <2> QED BY <2>1, <2>5
<1>13. ASSUME NEW i \in 1..n, NEW j \in 1..n, i < j
       PROVE  order[i].offset < order[j].offset
  <2>1. order[i] \in W /\ order[j] \in W /\ rank(order[i]) = i - 1 /\ rank(order[j]) = j - 1
    BY <1>10
  <2>2. order[i] # order[j]
    BY <1>13, <2>1
  <2>3. ~(order[j].offset < order[i].offset)
    <3>1. CASE order[j].offset < order[i].offset
      <4>1. rank(order[j]) < rank(order[i])
        BY <1>4, <2>1, <3>1
      <4> QED BY <1>13, <2>1, <4>1
    <3> QED BY <3>1
  <2> QED BY <2>1, <2>2, <2>3
<1> QED BY <1>1, <1>9, <1>11, <1>12, <1>13 DEF Orders, order

(* Which positions lie within a range, and what the runs of the first i    *)
(* tensors are: they hold these tensors and small gaps between them.       *)
Within(x, range) == range.start <= x /\ x < range.end
Inside(inner, range) == range.start <= inner.start /\ inner.end <= range.end

Collected(rs, data, order, i) ==
  /\ rs \in Seq([start : Int, end : Int])
  /\ i = 0 => rs = <<>>
  /\ i # 0 => /\ Len(rs) # 0
              /\ rs[Len(rs)].end = data[order[i]].end
  /\ \A k \in 1..Len(rs) : rs[k].start <= rs[k].end
  /\ \A j \in 1..i : \E k \in 1..Len(rs) : Inside(data[order[j]], rs[k])
  /\ \A k \in 1..Len(rs) : \A x \in Int : Within(x, rs[k]) =>
       \/ \E j \in 1..i : Within(x, data[order[j]])
       \/ \E j \in 1..i : /\ j + 1 <= i
                          /\ data[order[j]].end <= x /\ x < data[order[j + 1]].start
                          /\ data[order[j + 1]].start <= data[order[j]].end + Gap

(* A sequence of ranges in order.                                          *)
Ranges(data, order, n) ==
  /\ \A i \in 1..n : /\ data[order[i]] \in [start : Int, end : Int]
                     /\ data[order[i]].start <= data[order[i]].end
  /\ \A i, j \in 1..n : i < j => data[order[i]].end <= data[order[j]].start

LEMMA ExtendedIs ==
  ASSUME NEW data, NEW order, NEW n \in Nat, Ranges(data, order, n),
         NEW i \in 0..n, i + 1 <= n, NEW rs, Collected(rs, data, order, i)
  PROVE  Collected(Extended(rs, data[order[i + 1]]), data, order, i + 1)
<1> DEFINE range == data[order[i + 1]]
           es == Extended(rs, range)
           R == [start : Int, end : Int]
<1>1. range \in R /\ range.start \in Int /\ range.end \in Int /\ range.start <= range.end
  BY DEF Ranges
<1>2. rs \in Seq(R) /\ Len(rs) \in Nat
  BY DEF Collected
<1>3. \A k \in 1..Len(rs) : rs[k] \in R /\ rs[k].start \in Int /\ rs[k].end \in Int
  <2>1. rs \in [1..Len(rs) -> R] /\ DOMAIN rs = 1..Len(rs)
    <3> HIDE DEF R
    <3> QED BY <1>2
  <2>2. \A e \in R : e.start \in Int /\ e.end \in Int
    OBVIOUS
  <2> HIDE DEF R
  <2> QED BY <2>1, <2>2
<1>4. \A k \in 1..Len(rs) : rs[k].start <= rs[k].end
  BY DEF Collected
<1>5. CASE rs # <<>> /\ Near(Last(rs), range)
  <2> DEFINE m == Len(rs)
             last == rs[m]
  <2>1. m \in 1..Len(rs) /\ Last(rs) = last
    BY <1>2, <1>5 DEF Last
  <2>2. i # 0 /\ i \in 1..n /\ last.end = data[order[i]].end
    BY <1>5, <2>1 DEF Collected
  <2>3. data[order[i]].end <= range.start
    BY <2>2 DEF Ranges
  <2>4. last.end <= range.end /\ last.end <= range.start /\ range.start <= last.end + Gap
    BY <1>1, <1>3, <1>5, <2>1, <2>2, <2>3 DEF Near
  <2>5. Max({last.end, range.end}) = range.end
    <3>1. \E x \in {last.end, range.end} : \A y \in {last.end, range.end} : x >= y
      BY <1>1, <1>3, <2>1, <2>4
    <3>2. /\ Max({last.end, range.end}) \in {last.end, range.end}
          /\ \A y \in {last.end, range.end} : Max({last.end, range.end}) >= y
      BY <3>1, Zenon DEF Max
    <3> QED BY <1>1, <1>3, <2>1, <2>4, <3>2
  <2>6. es = [rs EXCEPT ![m].end = range.end]
    BY <1>5, <2>5 DEF Extended
  <2> DEFINE joined == [last EXCEPT !.end = range.end]
  <2>7. /\ joined \in R /\ joined.start = last.start /\ joined.end = range.end
    BY <1>1, <1>3, <2>1
  <2>8. es = [rs EXCEPT ![m] = joined]
    BY <2>6
  <2> HIDE DEF es, joined
  <2>9. /\ es \in Seq(R) /\ Len(es) = m
        /\ es[m] = joined /\ \A k \in 1..m : k # m => es[k] = rs[k]
    <3>1. rs \in [1..m -> R] /\ DOMAIN rs = 1..m
      <4> HIDE DEF R
      <4> QED BY <1>2
    <3>2. es = [k \in 1..m |-> IF k = m THEN joined ELSE rs[k]]
      BY <2>8, <3>1
    <3>3. es \in [1..m -> R]
      BY <1>3, <2>7, <3>2
    <3>4. \A k \in 1..m : es[k] = IF k = m THEN joined ELSE rs[k]
      BY <3>2
    <3>6. m \in Nat
      BY <1>2
    <3> HIDE DEF m, R
    <3>5. es \in Seq(R) /\ Len(es) = m
      BY <3>3, <3>6
    <3> QED BY <2>1, <3>4, <3>5 DEF m, R
  <2>10. \A k \in 1..Len(es) : es[k].start <= es[k].end
    <3> SUFFICES ASSUME NEW k \in 1..Len(es) PROVE es[k].start <= es[k].end
      OBVIOUS
    <3>1. CASE k = m
      <4>1. last.start <= last.end
        BY <1>4, <2>1
      <4> QED BY <1>1, <1>3, <2>1, <2>4, <2>7, <2>9, <3>1, <4>1
    <3>2. CASE k # m
      BY <1>4, <2>9, <3>2
    <3> QED BY <3>1, <3>2
  <2>11. ASSUME NEW j \in 1..(i + 1)
         PROVE  \E k \in 1..Len(es) : Inside(data[order[j]], es[k])
    <3>1. CASE j = i + 1
      <4>1. last.start <= range.start
        BY <1>1, <1>3, <1>4, <2>1, <2>4
      <4>2. Inside(range, es[m])
        <5>1. es[m].start <= range.start /\ es[m].end = range.end
          BY <2>7, <2>9, <4>1, Zenon
        <5> HIDE DEF range
        <5> QED BY <1>1, <5>1 DEF Inside
      <4> QED BY <2>1, <2>9, <3>1, <4>2
    <3>2. CASE j # i + 1
      <4>1. j \in 1..i
        BY <3>2
      <4>2. PICK k \in 1..Len(rs) : Inside(data[order[j]], rs[k])
        BY <4>1 DEF Collected
      <4>3. CASE k = m
        <5>1. j \in 1..n /\ data[order[j]].end \in Int
          BY <4>1 DEF Ranges
        <5>2. Inside(data[order[j]], es[m])
          <6>1. last.end \in Int /\ last.end <= range.end /\ range.end \in Int
            BY <1>1, <1>3, <2>1, <2>4
          <6>2. last.start <= data[order[j]].start /\ data[order[j]].end <= last.end
            BY <4>2, <4>3 DEF Inside
          <6> HIDE DEF last, R
          <6> QED BY <2>7, <2>9, <5>1, <6>1, <6>2 DEF Inside
        <5> QED BY <2>1, <2>9, <5>2
      <4>4. CASE k # m
        BY <2>9, <4>2, <4>4
      <4> QED BY <4>3, <4>4
    <3> QED BY <3>1, <3>2
  <2>12. ASSUME NEW k \in 1..Len(es), NEW x \in Int, Within(x, es[k])
         PROVE  \/ \E j \in 1..(i + 1) : Within(x, data[order[j]])
                \/ \E j \in 1..(i + 1) :
                     /\ j + 1 <= i + 1
                     /\ data[order[j]].end <= x /\ x < data[order[j + 1]].start
                     /\ data[order[j + 1]].start <= data[order[j]].end + Gap
    <3>1. CASE Within(x, rs[k])
      <4>1. k \in 1..Len(rs)
        BY <2>9
      <4>2. \/ \E j \in 1..i : Within(x, data[order[j]])
            \/ \E j \in 1..i : /\ j + 1 <= i
                               /\ data[order[j]].end <= x /\ x < data[order[j + 1]].start
                               /\ data[order[j + 1]].start <= data[order[j]].end + Gap
        BY <3>1, <4>1 DEF Collected
      <4>3. \A j \in 1..i : j \in 1..(i + 1) /\ (j + 1 <= i => j + 1 <= i + 1)
        OBVIOUS
      <4> HIDE DEF range
      <4> QED BY <4>2, <4>3, Zenon
    <3>2. CASE ~Within(x, rs[k])
      <4>1. k = m
        BY <2>9, <2>12, <3>2
      <4>2. last.end <= x /\ x < range.end
        BY <1>3, <2>1, <2>7, <2>9, <2>12, <3>2, <4>1 DEF Within
      <4>3. CASE range.start <= x
        <5>1. Within(x, range) /\ i + 1 \in 1..(i + 1)
          BY <4>2, <4>3 DEF Within
        <5> QED BY <5>1
      <4>4. CASE x < range.start
        <5>1. i \in 1..(i + 1) /\ i + 1 <= i + 1
          BY <2>2
        <5> QED BY <2>2, <2>4, <4>2, <4>4, <5>1
      <4> QED BY <1>1, <4>3, <4>4
    <3> QED BY <3>1, <3>2
  <2>13. es[Len(es)].end = range.end /\ Len(es) # 0 /\ i + 1 # 0
    BY <1>2, <1>5, <2>1, <2>7, <2>9
  <2> HIDE DEF range
  <2>14. Collected(es, data, order, i + 1)
    BY <2>9, <2>10, <2>11, <2>12, <2>13 DEF Collected, range
  <2> QED BY <2>14 DEF es, range
<1>6. CASE ~(rs # <<>> /\ Near(Last(rs), range))
  <2> DEFINE m == Len(rs)
  <2>1. es = Append(rs, range)
    BY <1>6 DEF Extended
  <2> HIDE DEF es
  <2>2. /\ es \in Seq(R) /\ Len(es) = m + 1 /\ es[m + 1] = range
        /\ \A k \in 1..m : es[k] = rs[k]
    BY <1>1, <1>2, <2>1
  <2>0. m \in Nat /\ 1..Len(es) = 1..(m + 1) /\ Len(rs) = m
    BY <1>2, <2>2
  <2>3. \A k \in 1..Len(es) : es[k].start <= es[k].end
    <3> SUFFICES ASSUME NEW k \in 1..(m + 1) PROVE es[k].start <= es[k].end
      BY <2>0, Zenon
    <3>1. CASE k = m + 1
      BY <1>1, <2>2, <3>1
    <3>2. CASE k # m + 1
      <4>1. k \in 1..m
        BY <2>0, <3>2
      <4> HIDE DEF R, m
      <4> QED BY <1>4, <2>0, <2>2, <4>1
    <3> QED BY <3>1, <3>2
  <2>4. ASSUME NEW j \in 1..(i + 1)
        PROVE  \E k \in 1..Len(es) : Inside(data[order[j]], es[k])
    <3>1. CASE j = i + 1
      <4>1. m + 1 \in 1..Len(es)
        BY <2>0
      <4>2. Inside(range, es[m + 1])
        BY <1>1, <2>2 DEF Inside
      <4> QED BY <3>1, <4>1, <4>2
    <3>2. CASE j # i + 1
      <4>1. j \in 1..i
        BY <3>2
      <4>2. PICK k \in 1..Len(rs) : Inside(data[order[j]], rs[k])
        BY <4>1 DEF Collected
      <4>3. k \in 1..m /\ k \in 1..Len(es)
        BY <2>0, <4>2
      <4> QED BY <2>2, <4>2, <4>3
    <3> QED BY <3>1, <3>2
  <2>5. ASSUME NEW k \in 1..Len(es), NEW x \in Int, Within(x, es[k])
        PROVE  \/ \E j \in 1..(i + 1) : Within(x, data[order[j]])
               \/ \E j \in 1..(i + 1) :
                    /\ j + 1 <= i + 1
                    /\ data[order[j]].end <= x /\ x < data[order[j + 1]].start
                    /\ data[order[j + 1]].start <= data[order[j]].end + Gap
    <3>1. CASE k = m + 1
      <4>1. Within(x, range) /\ i + 1 \in 1..(i + 1)
        BY <2>2, <2>5, <3>1
      <4> QED BY <4>1
    <3>2. CASE k # m + 1
      <4>0. k \in 1..Len(rs) /\ k \in 1..m
        BY <2>0, <2>5, <3>2
      <4>1. k \in 1..Len(rs) /\ Within(x, rs[k])
        BY <2>2, <2>5, <4>0
      <4>2. \/ \E j \in 1..i : Within(x, data[order[j]])
            \/ \E j \in 1..i : /\ j + 1 <= i
                               /\ data[order[j]].end <= x /\ x < data[order[j + 1]].start
                               /\ data[order[j + 1]].start <= data[order[j]].end + Gap
        BY <4>1 DEF Collected
      <4>3. \A j \in 1..i : j \in 1..(i + 1) /\ (j + 1 <= i => j + 1 <= i + 1)
        OBVIOUS
      <4> HIDE DEF range
      <4> QED BY <4>2, <4>3, Zenon
    <3> QED BY <3>1, <3>2
  <2>6. es[Len(es)].end = range.end /\ Len(es) # 0 /\ i + 1 # 0
    BY <1>2, <2>2
  <2> HIDE DEF range
  <2>7. Collected(es, data, order, i + 1)
    BY <2>2, <2>3, <2>4, <2>5, <2>6 DEF Collected, range
  <2> QED BY <2>7 DEF es, range
<1> QED BY <1>5, <1>6

LEMMA CollectingIs ==
  ASSUME NEW data, NEW order, NEW n \in Nat, Ranges(data, order, n),
         NEW r, Collecting(r, data, order, n)
  PROVE  Collected(r[n], data, order, n)
<1> DEFINE T == {k \in 0..n : ~Collected(r[k], data, order, k)}
<1>1. SUFFICES ASSUME T # {} PROVE FALSE
  OBVIOUS
<1>2. T \in SUBSET Nat
  OBVIOUS
<1>3. PICK k \in T : \A j \in T : k <= j
  BY <1>1, <1>2, LeastElement
<1>4. k \in 0..n /\ ~Collected(r[k], data, order, k)
  OBVIOUS
<1>5. r[k] = IF k = 0 THEN <<>> ELSE Extended(r[k - 1], data[order[k]])
  BY <1>4, Zenon DEF Collecting
<1>6. k # 0
  <2>1. CASE k = 0
    <3>1. Collected(<<>>, data, order, 0)
      BY DEF Collected
    <3> QED BY <1>4, <1>5, <2>1, <3>1
  <2> QED BY <2>1
<1>7. k - 1 \in 0..n /\ (k - 1) + 1 = k /\ (k - 1) + 1 <= n
  BY <1>4, <1>6
<1>8. Collected(r[k - 1], data, order, k - 1)
  <2>1. k - 1 \notin T
    BY <1>3, <1>4
  <2> QED BY <1>7, <2>1
<1>9. Collected(Extended(r[k - 1], data[order[(k - 1) + 1]]), data, order, (k - 1) + 1)
  BY <1>7, <1>8, ExtendedIs
<1> QED BY <1>4, <1>5, <1>6, <1>7, <1>9

(* The positions packed before a run, those of the run, and no others.     *)
PackedRuns(p, runs, i) ==
  /\ p[i] \in Seq(Int)
  /\ \A j \in 1..i :
       /\ p[j - 1] \in Seq(Int)
       /\ Len(p[j - 1]) + (runs[j].end - runs[j].start) <= Len(p[i])
       /\ \A k \in 1..(runs[j].end - runs[j].start) :
            p[i][Len(p[j - 1]) + k] = runs[j].start + k - 1
  /\ \A x \in 1..Len(p[i]) : \E j \in 1..i : Within(p[i][x], runs[j])

LEMMA PositionsAre ==
  ASSUME NEW from \in Int, NEW to \in Int, from <= to
  PROVE  /\ Positions(from, to) \in Seq(Int) /\ Len(Positions(from, to)) = to - from
         /\ \A k \in 1..(to - from) : Positions(from, to)[k] = from + k - 1
<1>1. to - from \in Nat
  OBVIOUS
<1>2. Positions(from, to) \in [1..(to - from) -> Int]
  BY DEF Positions
<1>3. \A k \in 1..(to - from) : Positions(from, to)[k] = from + k - 1
  BY DEF Positions
<1> HIDE DEF Positions
<1> QED BY <1>1, <1>2, <1>3

(* A part of a sequence of positions that is a range.                      *)
Copied(s, a, size, from, to) == SubSeq(s, a + 1, a + size) = Positions(from, to)

LEMMA SubSeqIs ==
  ASSUME NEW s \in Seq(Int), NEW a \in Nat, NEW size \in Nat, a + size <= Len(s),
         NEW from \in Int, NEW to \in Int, to - from = size,
         \A k \in 1..size : s[a + k] = from + k - 1
  PROVE  Copied(s, a, size, from, to)
<1> DEFINE q == SubSeq(s, a + 1, a + size)
<1>1. a + 1 \in Int /\ a + size \in Int /\ a + size - (a + 1) + 1 = size
  OBVIOUS
<1>2. \A i \in (a + 1)..(a + size) : s[i] \in Int
  OBVIOUS
<1>3. /\ q \in Seq(Int)
      /\ Len(q) = IF a + 1 <= a + size THEN a + size - (a + 1) + 1 ELSE 0
      /\ \A i \in 1..(a + size - (a + 1) + 1) : q[i] = s[(a + 1) + i - 1]
  <2> HIDE DEF q
  <2> QED BY <1>1, <1>2, SubSeqProperties DEF q
<1> HIDE DEF q
<1>4. Len(q) = size /\ DOMAIN q = 1..size /\ q = [k \in 1..size |-> q[k]]
  <2>1. Len(q) = size
    BY <1>1, <1>3
  <2>2. q \in [1..Len(q) -> Int]
    BY <1>3
  <2>3. q \in [1..size -> Int]
    BY <2>1, <2>2, Zenon
  <2> QED BY <2>1, <2>3
<1>5. ASSUME NEW k \in 1..size PROVE q[k] = from + k - 1
  <2>1. q[k] = s[(a + 1) + k - 1]
    BY <1>1, <1>3
  <2>2. (a + 1) + k - 1 = a + k
    OBVIOUS
  <2> QED BY <2>1, <2>2
<1>6. q = [k \in 1..size |-> from + k - 1]
  BY <1>4, <1>5
<1> QED BY <1>6 DEF q, Positions, Copied

(* What a run keeps of a range it holds.                                   *)
Held(s, b, from, a, e) ==
  SubSeq(s, (b + a - from) + 1, b + a - from + e - a) = Positions(a, e)

LEMMA Placed ==
  ASSUME NEW s \in Seq(Int), NEW b \in Nat, NEW from \in Int, NEW to \in Int,
         NEW a \in Int, NEW e \in Int, from <= a, a <= e, e <= to,
         b + (to - from) <= Len(s), \A k \in 1..(to - from) : s[b + k] = from + k - 1
  PROVE  Held(s, b, from, a, e)
<1> DEFINE at == b + (a - from)
           size == e - a
<1>1. at \in Nat /\ size \in Nat /\ at + size <= Len(s)
  <2>1. Len(s) \in Nat
    OBVIOUS
  <2> QED BY <2>1
<1>2. ASSUME NEW k \in 1..size PROVE s[at + k] = a + k - 1
  <2>1. (a - from) + k \in 1..(to - from) /\ at + k = b + ((a - from) + k)
    OBVIOUS
  <2>2. from + ((a - from) + k) - 1 = a + k - 1
    OBVIOUS
  <2> DEFINE i == (a - from) + k
  <2>3. i \in 1..(to - from)
    BY <2>1
  <2> HIDE DEF i
  <2>4. s[b + i] = from + i - 1
    BY <2>3
  <2> HIDE DEF at
  <2> QED BY <2>1, <2>2, <2>4 DEF i
<1>3. (b + a - from) + 1 = at + 1 /\ b + a - from + e - a = at + size
  OBVIOUS
<1>4. e - a = size
  OBVIOUS
<1> HIDE DEF at, size
<1>5. Copied(s, at, size, a, e)
  BY <1>1, <1>2, <1>4, SubSeqIs
<1>6. SubSeq(s, at + 1, at + size) = Positions(a, e)
  BY <1>5 DEF Copied
<1> QED BY <1>3, <1>6 DEF Held

LEMMA PackingIs ==
  ASSUME NEW runs \in Seq([start : Int, end : Int]),
         \A k \in 1..Len(runs) : runs[k].start <= runs[k].end,
         NEW p, Packing(p, runs, Len(runs))
  PROVE  PackedRuns(p, runs, Len(runs))
<1> DEFINE n == Len(runs)
           T == {k \in 0..n : ~PackedRuns(p, runs, k)}
           Of(k) == Positions(runs[k].start, runs[k].end)
<1>0. n \in Nat
  OBVIOUS
<1>a. \A k \in 1..n : runs[k].start \in Int /\ runs[k].end \in Int /\ runs[k].start <= runs[k].end
  <2> DEFINE R == [start : Int, end : Int]
  <2>1. \A e \in R : e.start \in Int /\ e.end \in Int
    OBVIOUS
  <2>2. \A k \in 1..n : runs[k] \in R
    <3>1. runs \in Seq(R)
      OBVIOUS
    <3> HIDE DEF R
    <3> QED BY <3>1
  <2> QED BY <2>1, <2>2
<1>1. SUFFICES ASSUME T # {} PROVE FALSE
  BY <1>0
<1>2. T \in SUBSET Nat
  BY <1>0
<1>3. PICK k \in T : \A j \in T : k <= j
  BY <1>1, <1>2, LeastElement
<1>4. k \in 0..n /\ ~PackedRuns(p, runs, k)
  OBVIOUS
<1> HIDE DEF Of
<1>5. p[k] = IF k = 0 THEN <<>> ELSE p[k - 1] \o Of(k)
  BY <1>4, Zenon DEF Packing, Of
<1>6. k # 0
  <2>1. CASE k = 0
    <3>1. p[k] = <<>>
      BY <1>5, <2>1
    <3>2. PackedRuns(p, runs, k)
      BY <2>1, <3>1 DEF PackedRuns
    <3> QED BY <1>4, <3>2
  <2> QED BY <2>1
<1>7. k - 1 \in 0..n /\ k \in 1..n
  BY <1>0, <1>4, <1>6
<1>8. PackedRuns(p, runs, k - 1)
  <2>1. k - 1 \notin T
    BY <1>3, <1>4
  <2> QED BY <1>7, <2>1
<1> DEFINE before == p[k - 1]
           run == runs[k]
           size == run.end - run.start
<1>9. /\ run.start \in Int /\ run.end \in Int /\ run.start <= run.end
  BY <1>7, <1>a
<1>10. /\ Of(k) \in Seq(Int) /\ Len(Of(k)) = size
       /\ \A x \in 1..size : Of(k)[x] = run.start + x - 1
  <2> HIDE DEF run
  <2>1. /\ Positions(run.start, run.end) \in Seq(Int)
        /\ Len(Positions(run.start, run.end)) = run.end - run.start
        /\ \A x \in 1..(run.end - run.start) :
             Positions(run.start, run.end)[x] = run.start + x - 1
    BY <1>9, PositionsAre
  <2> QED BY <2>1, Zenon DEF Of, run
<1>11. before \in Seq(Int) /\ Len(before) \in Nat
  <2>1. p[k - 1] \in Seq(Int)
    BY <1>8, Zenon DEF PackedRuns
  <2>2. \A q \in Seq(Int) : Len(q) \in Nat
    OBVIOUS
  <2> QED BY <2>1, <2>2, Zenon
<1>12. p[k] = before \o Of(k)
  BY <1>5, <1>6
<1>13. size \in Nat
  BY <1>9
<1> HIDE DEF before, run, size
<1>14. /\ p[k] \in Seq(Int) /\ Len(p[k]) = Len(before) + size
       /\ \A x \in 1..Len(before) : p[k][x] = before[x]
       /\ \A x \in 1..size : p[k][Len(before) + x] = Of(k)[x]
  <2> DEFINE of == Of(k)
             both == before \o of
  <2>1. before \in Seq(Int) /\ of \in Seq(Int) /\ Len(before) \in Nat /\ Len(of) = size /\ size \in Nat
    BY <1>10, <1>11, <1>13
  <2> HIDE DEF of
  <2>2. both \in Seq(Int) /\ Len(both) = Len(before) + size
    BY <2>1, ConcatProperties
  <2>3. \A x \in 1..Len(before) : both[x] = before[x]
    BY <2>1
  <2>4. \A x \in 1..size : both[Len(before) + x] = of[x]
    BY <2>1
  <2> HIDE DEF both
  <2>5. p[k] = both
    BY <1>12 DEF both, of
  <2> QED BY <2>2, <2>3, <2>4, <2>5 DEF of
<1>15. ASSUME NEW j \in 1..k
       PROVE  /\ p[j - 1] \in Seq(Int)
              /\ Len(p[j - 1]) + (runs[j].end - runs[j].start) <= Len(p[k])
              /\ \A x \in 1..(runs[j].end - runs[j].start) :
                   p[k][Len(p[j - 1]) + x] = runs[j].start + x - 1
  <2>1. CASE j = k
    <3>1. p[j - 1] = before /\ runs[j] = run /\ runs[j].end - runs[j].start = size
      BY <2>1 DEF before, run, size
    <3>2. Len(before) + size <= Len(p[k])
      BY <1>11, <1>13, <1>14
    <3>3. \A x \in 1..size : p[k][Len(before) + x] = run.start + x - 1
      BY <1>10, <1>14
    <3> QED BY <1>11, <3>1, <3>2, <3>3, Zenon
  <2>2. CASE j # k
    <3>1. j \in 1..(k - 1)
      BY <1>4, <2>2
    <3>2. /\ p[j - 1] \in Seq(Int)
          /\ Len(p[j - 1]) + (runs[j].end - runs[j].start) <= Len(before)
          /\ \A x \in 1..(runs[j].end - runs[j].start) :
               before[Len(p[j - 1]) + x] = runs[j].start + x - 1
      BY <1>8, <3>1 DEF PackedRuns, before
    <3>3. runs[j].start \in Int /\ runs[j].end \in Int /\ Len(p[j - 1]) \in Nat
      <4>1. j \in 1..n
        BY <1>7, <3>1
      <4>2. runs[j].start \in Int /\ runs[j].end \in Int
        BY <1>a, <4>1, Zenon
      <4>3. \A q \in Seq(Int) : Len(q) \in Nat
        OBVIOUS
      <4> QED BY <3>2, <4>2, <4>3, Zenon
    <3>6. runs[j].end - runs[j].start \in Int
      <4>1. \A u, v \in Int : u - v \in Int
        OBVIOUS
      <4> QED BY <3>3, <4>1, Zenon
    <3>4. ASSUME NEW x \in 1..(runs[j].end - runs[j].start)
          PROVE  p[k][Len(p[j - 1]) + x] = runs[j].start + x - 1
      <4>1. Len(p[j - 1]) + x \in 1..Len(before)
        <5>1. /\ x \in Int /\ 1 <= x /\ x <= runs[j].end - runs[j].start
              /\ Len(before) \in Nat /\ Len(p[j - 1]) \in Nat
          BY <1>11, <3>3
        <5>2. Len(p[j - 1]) + (runs[j].end - runs[j].start) <= Len(before)
          BY <3>2
        <5> DEFINE d == runs[j].end - runs[j].start
        <5>3. d \in Int
          BY <3>6, Zenon
        <5> HIDE DEF d
        <5>4. x <= d /\ Len(p[j - 1]) + d <= Len(before)
          BY <5>1, <5>2 DEF d
        <5>5. \A u, v, w, z \in Int : 0 <= u /\ 1 <= v /\ v <= w /\ u + w <= z => u + v \in 1..z
          OBVIOUS
        <5>6. Len(p[j - 1]) \in Int /\ Len(before) \in Int /\ 0 <= Len(p[j - 1])
          BY <5>1
        <5> QED BY <5>1, <5>3, <5>4, <5>5, <5>6, Zenon
      <4> QED BY <1>14, <3>2, <4>1
    <3>5. Len(p[j - 1]) + (runs[j].end - runs[j].start) <= Len(p[k])
      <4>1. Len(before) \in Nat /\ size \in Nat /\ Len(p[k]) = Len(before) + size
        BY <1>11, <1>13, <1>14
      <4>2. Len(p[j - 1]) + (runs[j].end - runs[j].start) <= Len(before)
        BY <3>2
      <4> DEFINE d == runs[j].end - runs[j].start
      <4>3. d \in Int /\ Len(p[j - 1]) \in Nat
        BY <3>3, <3>6, Zenon
      <4> HIDE DEF d
      <4>4. Len(p[j - 1]) + d <= Len(before)
        BY <4>2 DEF d
      <4>5. Len(p[j - 1]) + d <= Len(p[k])
        BY <4>1, <4>3, <4>4
      <4> QED BY <4>5 DEF d
    <3> QED BY <3>2, <3>4, <3>5
  <2> QED BY <2>1, <2>2
<1>16. ASSUME NEW x \in 1..Len(p[k])
       PROVE  \E j \in 1..k : Within(p[k][x], runs[j])
  <2>1. CASE x <= Len(before)
    <3>1. x \in 1..Len(before) /\ p[k][x] = before[x]
      BY <1>11, <1>14, <2>1
    <3>2. PICK j \in 1..(k - 1) : Within(before[x], runs[j])
      BY <1>8, <3>1 DEF PackedRuns, before
    <3>3. j \in 1..k
      BY <1>7
    <3> QED BY <3>1, <3>2, <3>3
  <2>2. CASE ~(x <= Len(before))
    <3>1. x - Len(before) \in 1..size /\ Len(before) + (x - Len(before)) = x
      BY <1>11, <1>13, <1>14, <2>2
    <3>2. p[k][x] = run.start + (x - Len(before)) - 1
      BY <1>10, <1>14, <3>1
    <3>3. Within(p[k][x], run)
      BY <1>9, <1>11, <3>1, <3>2 DEF Within, size
    <3> QED BY <1>7, <3>3 DEF run
  <2> QED BY <2>1, <2>2
<1>17. PackedRuns(p, runs, k)
  BY <1>14, <1>15, <1>16 DEF PackedRuns
<1> QED BY <1>4, <1>17

(* A set of numbers up to n that is not empty has a greatest element.      *)
LEMMA GreatestElement ==
  ASSUME NEW n \in Nat, NEW S \in SUBSET (1..n), S # {}
  PROVE  Max(S) \in S
<1> DEFINE U == {n - x : x \in S}
<1>1. U \in SUBSET Nat /\ U # {}
  OBVIOUS
<1>2. PICK m \in U : \A x \in U : m <= x
  BY <1>1, LeastElement
<1>3. PICK y \in S : m = n - y
  OBVIOUS
<1>4. \A x \in S : y >= x
  <2> SUFFICES ASSUME NEW x \in S PROVE y >= x
    OBVIOUS
  <2>1. n - x \in U
    OBVIOUS
  <2>2. n - y <= n - x
    BY <1>2, <1>3, <2>1
  <2> QED BY <2>2
<1> QED BY <1>4, Zenon DEF Max

(* What a staged layer is: a tensor of it as it is in the file, and        *)
(* nothing but its tensors and small gaps between them.                    *)
LEMMA StagedRuns ==
  ASSUME NEW s, s.file \in DOMAIN Files, Opens(s.file), NEW l
  PROVE  /\ IsFiniteSet(Wanted(s, l))
         /\ Orders(ByStart(Wanted(s, l)), Wanted(s, l))
         /\ Collected(Runs(s, l), Data(s.file), ByStart(Wanted(s, l)),
                      Cardinality(Wanted(s, l)))
<1> DEFINE T == Files[s.file].tensors
           W == Wanted(s, l)
           order == ByStart(W)
           data == Data(s.file)
           n == Cardinality(W)
<1>1. W \subseteq T
  BY DEF Wanted
<1>2. /\ IsFiniteSet(T) /\ \A t \in T : t.offset \in Nat
      /\ \A t, u \in T : t.offset = u.offset => t = u
  BY GgufAssumption
<1>3. IsFiniteSet(W)
  BY <1>1, <1>2, FS_Subset
<1> HIDE DEF W
<1>4. Orders(order, W)
  BY <1>1, <1>2, <1>3, ByStartIs
<1>5. Lies(data, T)
  BY DataAre
<1> HIDE DEF data, order
<1>6. n \in Nat /\ Len(order) = n /\ \A i \in 1..n : order[i] \in T
  BY <1>1, <1>4 DEF Orders
<1>7. \A t \in T : data[t] = [start |-> data[t].start, end |-> data[t].end]
  BY DEF data, Data
<1>8. Ranges(data, order, n)
  <2>1. ASSUME NEW i \in 1..n
        PROVE  /\ data[order[i]] \in [start : Int, end : Int]
               /\ data[order[i]].start <= data[order[i]].end
    <3>1. order[i] \in T
      BY <1>6
    <3>2. /\ data[order[i]].start \in Int /\ data[order[i]].end \in Int
          /\ data[order[i]].start <= data[order[i]].end
      BY <1>5, <3>1 DEF Lies
    <3>3. data[order[i]] = [start |-> data[order[i]].start, end |-> data[order[i]].end]
      BY <1>7, <3>1, Zenon
    <3> QED BY <3>2, <3>3
  <2>2. ASSUME NEW i \in 1..n, NEW j \in 1..n, i < j
        PROVE  data[order[i]].end <= data[order[j]].start
    <3>1. order[i] \in T /\ order[j] \in T /\ order[i].offset < order[j].offset
      BY <1>4, <1>6, <2>2 DEF Orders
    <3> QED BY <1>5, <3>1 DEF Lies
  <2> QED BY <2>1, <2>2 DEF Ranges
<1>9. PICK r : Collecting(r, data, order, n) /\ Runs(s, l) = r[n]
  BY <1>6, RunsAre DEF W, order, data
<1>10. Collected(r[n], data, order, n)
  BY <1>6, <1>8, <1>9, CollectingIs
<1> QED BY <1>3, <1>4, <1>9, <1>10 DEF W, order, data

LEMMA StagedExact ==
  ASSUME NEW s, s.file \in DOMAIN Files, Opens(s.file), NEW t \in Files[s.file].tensors,
         t \in Wanted(s, t.layer)
  PROVE  StagedBytes(Opened(s), t) = BytesOf(Opened(s), t)
<1> DEFINE l == t.layer
           W == Wanted(s, l)
           order == ByStart(W)
           data == Data(s.file)
           n == Cardinality(W)
           runs == Runs(s, l)
           range == data[t]
           pt == PackedTo(runs)
           R == [start : Int, end : Int]
<1>1. Orders(order, W) /\ Collected(runs, data, order, n)
  BY StagedRuns
<1>2. Lies(data, Files[s.file].tensors)
  BY DataAre
<1>3. range.start \in Int /\ range.end \in Int /\ range.start <= range.end
  BY <1>2 DEF Lies
<1>4. Opened(s).staged[t.layer] = StagedQwenLayer(s, l) /\ Opened(s).data = data
  BY DEF Opened
<1>5. /\ StagedQwenLayer(s, l).bytes = Packed(runs)
      /\ StagedQwenLayer(s, l).ranges[t] = RangeIn(runs, range)
  BY DEF StagedQwenLayer
<1> HIDE DEF runs, data, order, W
<1>6. runs \in Seq(R) /\ Len(runs) \in Nat /\ \A k \in 1..Len(runs) : runs[k].start <= runs[k].end
  <2>1. runs \in Seq(R) /\ \A k \in 1..Len(runs) : runs[k].start <= runs[k].end
    BY <1>1, Zenon DEF Collected
  <2> HIDE DEF R
  <2>2. Len(runs) \in Nat
    BY <2>1
  <2> QED BY <2>1, <2>2, Zenon
<1>7. PackedRuns(pt, runs, Len(runs))
  BY <1>6, PackedIs, PackingIs
<1> DEFINE S == {j \in DOMAIN runs : runs[j].start <= range.start /\ range.end <= runs[j].end}
           i == Max(S)
<1>8. S \in SUBSET (1..Len(runs)) /\ S # {}
  <2>1. PICK j \in 1..n : order[j] = t
    BY <1>1 DEF Orders, W
  <2>2. PICK k \in 1..Len(runs) : Inside(data[order[j]], runs[k])
    BY <1>1 DEF Collected
  <2>3. DOMAIN runs = 1..Len(runs)
    BY <1>6
  <2>4. k \in S
    BY <2>1, <2>2, <2>3 DEF Inside
  <2> QED BY <2>3, <2>4
<1>9. i \in S
  BY <1>6, <1>8, GreatestElement
<1> HIDE DEF i
<1>10. /\ i \in 1..Len(runs) /\ runs[i].start \in Int /\ runs[i].end \in Int
       /\ runs[i].start <= range.start /\ range.end <= runs[i].end
  <2>1. i \in 1..Len(runs) /\ runs[i].start <= range.start /\ range.end <= runs[i].end
    BY <1>8, <1>9
  <2>2. runs \in Seq(R)
    BY <1>6
  <2>3. \A e \in R : e.start \in Int /\ e.end \in Int
    OBVIOUS
  <2> HIDE DEF R
  <2>4. runs[i] \in R
    BY <2>1, <2>2
  <2> QED BY <2>1, <2>3, <2>4
<1> DEFINE b == Len(pt[i - 1])
           bytes == pt[Len(runs)]
           in == [start |-> b + range.start - runs[i].start,
                  end |-> b + range.start - runs[i].start + range.end - range.start]
<1>11. RangeIn(runs, range) = in
  BY DEF RangeIn, Before, i
<1>12. Packed(runs) = bytes
  BY DEF Packed
<1> HIDE DEF pt, range, S
<1>13. /\ bytes \in Seq(Int)
       /\ pt[i - 1] \in Seq(Int)
       /\ b + (runs[i].end - runs[i].start) <= Len(bytes)
       /\ \A k \in 1..(runs[i].end - runs[i].start) : bytes[b + k] = runs[i].start + k - 1
  BY <1>7, <1>10 DEF PackedRuns
<1>14. b \in Nat /\ Len(bytes) \in Nat
  BY <1>13
<1> HIDE DEF b, bytes
<1>15. SubSeq(bytes, in.start + 1, in.end) = Positions(range.start, range.end)
  <2>1. Held(bytes, b, runs[i].start, range.start, range.end)
    BY <1>3, <1>10, <1>13, <1>14, Placed
  <2> QED BY <2>1 DEF Held
<1>16. StagedBytes(Opened(s), t) = SubSeq(bytes, in.start + 1, in.end)
  <2> HIDE DEF in
  <2> QED BY <1>4, <1>5, <1>11, <1>12, Zenon DEF StagedBytes
<1>17. BytesOf(Opened(s), t) = Positions(range.start, range.end)
  BY <1>4, Zenon DEF BytesOf, range
<1> QED BY <1>15, <1>16, <1>17, Zenon

(* A position of the packed layer is of a tensor of the layer, or of a     *)
(* small gap between two of them.                                          *)
LEMMA StagedNear ==
  ASSUME NEW s, s.file \in DOMAIN Files, Opens(s.file), NEW l,
         NEW t \in Files[s.file].tensors, t \notin Wanted(s, l),
         Data(s.file)[t].end - Data(s.file)[t].start > Gap
  PROVE  ToSet(Positions(Data(s.file)[t].start, Data(s.file)[t].end))
           \cap ToSet(Packed(Runs(s, l))) = {}
<1> DEFINE T == Files[s.file].tensors
           W == Wanted(s, l)
           order == ByStart(W)
           data == Data(s.file)
           n == Cardinality(W)
           runs == Runs(s, l)
           pt == PackedTo(runs)
<1>1. Orders(order, W) /\ Collected(runs, data, order, n)
  BY StagedRuns
<1>2. Lies(data, T)
  BY DataAre
<1>3. W \subseteq T /\ t \notin W
  BY DEF Wanted
<1>4. data[t].end - data[t].start > Gap
  OBVIOUS
<1> HIDE DEF runs, data, order, W
<1>5. runs \in Seq([start : Int, end : Int]) /\ Len(runs) \in Nat
        /\ \A k \in 1..Len(runs) : runs[k].start <= runs[k].end
  <2> DEFINE R == [start : Int, end : Int]
  <2>1. runs \in Seq(R) /\ \A k \in 1..Len(runs) : runs[k].start <= runs[k].end
    BY <1>1, Zenon DEF Collected
  <2> HIDE DEF R
  <2>2. Len(runs) \in Nat
    BY <2>1
  <2> QED BY <2>1, <2>2, Zenon DEF R
<1>6. PackedRuns(pt, runs, Len(runs))
  BY <1>5, PackedIs, PackingIs
<1>7. /\ data[t].start \in Int /\ data[t].end \in Int /\ data[t].start <= data[t].end
  BY <1>2 DEF Lies
<1>8. \A i \in 1..n : order[i] \in T /\ order[i] # t /\ t.offset \in Nat /\ order[i].offset \in Nat
  BY <1>1, <1>3, GgufAssumption DEF Orders
<1>9. \A i \in 1..n : \/ data[t].end <= data[order[i]].start
                      \/ data[order[i]].end <= data[t].start
  <2> SUFFICES ASSUME NEW i \in 1..n
               PROVE  \/ data[t].end <= data[order[i]].start
                      \/ data[order[i]].end <= data[t].start
    OBVIOUS
  <2>1. t.offset # order[i].offset
    BY <1>8, GgufAssumption
  <2>2. t.offset < order[i].offset \/ order[i].offset < t.offset
    BY <1>8, <2>1
  <2> QED BY <1>2, <1>8, <2>2 DEF Lies
<1>10. \A i \in 1..n : /\ data[order[i]].start \in Int /\ data[order[i]].end \in Int
                       /\ data[order[i]].start <= data[order[i]].end
  BY <1>2, <1>8 DEF Lies
<1>11. SUFFICES ASSUME NEW x \in ToSet(Positions(data[t].start, data[t].end)),
                       x \in ToSet(Packed(runs))
                PROVE  FALSE
  BY DEF runs, data
<1>12. x \in Int /\ data[t].start <= x /\ x < data[t].end
  <2>1. DOMAIN Positions(data[t].start, data[t].end) = 1..(data[t].end - data[t].start)
    BY DEF Positions
  <2>2. PICK k \in 1..(data[t].end - data[t].start) : x = Positions(data[t].start, data[t].end)[k]
    BY <1>11, <2>1, Zenon DEF ToSet
  <2>3. x = data[t].start + k - 1
    BY <2>2 DEF Positions
  <2> QED BY <1>7, <2>3
<1>13. PICK k \in 1..Len(runs) : Within(x, runs[k])
  <2>1. pt[Len(runs)] \in Seq(Int)
    BY <1>6 DEF PackedRuns
  <2>2. x \in {pt[Len(runs)][k] : k \in DOMAIN pt[Len(runs)]}
    BY <1>11, Zenon DEF Packed, ToSet
  <2> HIDE DEF pt
  <2>3. PICK k \in 1..Len(pt[Len(runs)]) : x = pt[Len(runs)][k]
    BY <2>1, <2>2
  <2> QED BY <1>6, <2>3 DEF PackedRuns
<1>14. \/ \E j \in 1..n : Within(x, data[order[j]])
       \/ \E j \in 1..n : /\ j + 1 <= n
                          /\ data[order[j]].end <= x /\ x < data[order[j + 1]].start
                          /\ data[order[j + 1]].start <= data[order[j]].end + Gap
  BY <1>1, <1>12, <1>13 DEF Collected
<1>15. CASE \E j \in 1..n : Within(x, data[order[j]])
  <2>1. PICK j \in 1..n : Within(x, data[order[j]])
    BY <1>15
  <2> QED BY <1>7, <1>9, <1>10, <1>12, <2>1 DEF Within
<1>16. CASE \E j \in 1..n : /\ j + 1 <= n
                            /\ data[order[j]].end <= x /\ x < data[order[j + 1]].start
                            /\ data[order[j + 1]].start <= data[order[j]].end + Gap
  <2>1. PICK j \in 1..n : /\ j + 1 <= n
                          /\ data[order[j]].end <= x /\ x < data[order[j + 1]].start
                          /\ data[order[j + 1]].start <= data[order[j]].end + Gap
    BY <1>16
  <2>2. n \in Nat
    BY <1>1 DEF Orders
  <2>3. j + 1 \in 1..n
    BY <2>1, <2>2
  <2>4. data[order[j]].end <= data[t].start
    BY <1>7, <1>9, <1>10, <1>12, <2>1
  <2>5. data[t].end <= data[order[j + 1]].start
    BY <1>7, <1>9, <1>10, <1>12, <2>1, <2>3
  <2>6. Gap \in Int
    BY GgufAssumption
  <2> DEFINE from == data[t].start
             to == data[t].end
             a == data[order[j]].end
             b == data[order[j + 1]].start
  <2>7. from \in Int /\ to \in Int /\ a \in Int /\ b \in Int
    BY <1>7, <1>10, <2>3, Zenon
  <2>8. to - from > Gap /\ b <= a + Gap /\ a <= from /\ to <= b
    BY <1>4, <2>1, <2>4, <2>5, Zenon
  <2> HIDE DEF from, to, a, b
  <2> QED BY <2>6, <2>7, <2>8
<1> QED BY <1>14, <1>15, <1>16

(* What a process was opened with stays: the weights it reads depend on    *)
(* nothing else.                                                           *)
OpenedOnce == process \in {Opened(s) : s \in {s \in Processes : Opens(s.file)}}

LEMMA WholeExact ==
  ASSUME NEW p, NEW t, p.data[t].start \in Int, p.data[t].end \in Int,
         p.data[t].start <= p.data[t].end, t.payload \in Nat
  PROVE  /\ \/ Whole(BytesOf(p, t), t) = PayloadOf(p, t)
            \/ Whole(BytesOf(p, t), t) = RefusedBytes /\ Len(BytesOf(p, t)) # t.payload
         /\ \/ Beginning(BytesOf(p, t), t) = PayloadOf(p, t)
            \/ Beginning(BytesOf(p, t), t) = RefusedBytes /\ Len(BytesOf(p, t)) # t.payload
<1> DEFINE a == p.data[t].start
           e == p.data[t].end
           bytes == BytesOf(p, t)
<1>1. bytes = Positions(a, e) /\ PayloadOf(p, t) = Positions(a, a + t.payload)
  BY DEF BytesOf, PayloadOf
<1>2. a \in Int /\ e \in Int /\ a <= e
  OBVIOUS
<1> HIDE DEF bytes, a, e
<1>3. Len(bytes) = e - a
  BY <1>1, <1>2, PositionsAre
<1>4. Len(bytes) = t.payload => bytes = PayloadOf(p, t)
  <2>1. ASSUME Len(bytes) = t.payload PROVE e = a + t.payload
    BY <1>2, <1>3, <2>1
  <2> QED BY <1>1, <2>1
<1>5. ASSUME Len(bytes) >= t.payload
      PROVE  SubSeq(bytes, 1, t.payload) = PayloadOf(p, t)
  <2>1. bytes \in Seq(Int)
    BY <1>1, <1>2, PositionsAre
  <2>2. ASSUME NEW k \in 1..t.payload
        PROVE  bytes[0 + k] = a + k - 1
    <3>1. 0 + k = k /\ k \in 1..(e - a)
      BY <1>2, <1>3, <1>5
    <3>2. Positions(a, e)[k] = a + k - 1
      BY <1>2, <3>1, PositionsAre
    <3> QED BY <1>1, <3>1, <3>2
  <2>3. 0 + t.payload <= Len(bytes) /\ a + t.payload \in Int
    BY <1>2, <1>5
  <2> DEFINE size == t.payload
  <2>4. size \in Nat
    OBVIOUS
  <2>7. \A k \in 1..size : bytes[0 + k] = a + k - 1
    BY <2>2
  <2> HIDE DEF size
  <2>8. (a + size) - a = size /\ 0 + size <= Len(bytes) /\ a + size \in Int /\ 0 \in Nat
    BY <1>2, <2>3, <2>4 DEF size
  <2>5. Copied(bytes, 0, size, a, a + size)
    BY <1>2, <2>1, <2>4, <2>7, <2>8, SubSeqIs
  <2>6. 0 + 1 = 1 /\ 0 + size = size
    BY <2>4
  <2> QED BY <1>1, <2>5, <2>6 DEF size, Copied
<1>6. Whole(bytes, t) = PayloadOf(p, t) \/ (Whole(bytes, t) = RefusedBytes /\ Len(bytes) # t.payload)
  BY <1>4 DEF Whole
<1>7. \/ Beginning(bytes, t) = PayloadOf(p, t)
      \/ Beginning(bytes, t) = RefusedBytes /\ Len(bytes) # t.payload
  BY <1>2, <1>3, <1>5 DEF Beginning
<1> QED BY <1>6, <1>7 DEF bytes

(* Wherever a weight is found it is the weight of the file.                *)
LEMMA WeightsAreExact ==
  ASSUME OpenedOnce
  PROVE  WeightsExact
<1>1. PICK s \in Processes : Opens(s.file) /\ process = Opened(s)
  BY DEF OpenedOnce
<1> DEFINE T == Files[s.file].tensors
<1>2. s.file \in DOMAIN Files
  BY ProcessesAssumption
<1>3. process.data = Data(s.file) /\ DOMAIN process.data = T
  BY <1>1 DEF Opened, Data
<1>4. ASSUME NEW t \in T
      PROVE  Holds(process, InHand, t) => StagedBytes(process, t) = BytesOf(process, t)
  <2>1. t.layer \in {u.layer : u \in Files[s.file].tensors}
    OBVIOUS
  <2>2. process.staged[t.layer] = StagedQwenLayer(s, t.layer)
    BY <1>1, <2>1 DEF Opened
  <2>3. DOMAIN StagedQwenLayer(s, t.layer).ranges = Wanted(s, t.layer)
    BY DEF StagedQwenLayer
  <2>4. Holds(process, InHand, t) => t \in Wanted(s, t.layer)
    BY <2>2, <2>3, Zenon DEF Holds
  <2>5. t \in Wanted(s, t.layer) => StagedBytes(Opened(s), t) = BytesOf(Opened(s), t)
    BY <1>1, <1>2, StagedExact
  <2> QED BY <1>1, <2>4, <2>5, Zenon
<1>5. SUFFICES ASSUME NEW t \in T, t.layer = layer,
                      t.role \in {"qkv", "z", "q", "k", "v", "ssm_out", "output",
                                  "gate", "up", "down", "norm"}
               PROVE  \/ Found(t) = PayloadOf(process, t)
                      \/ /\ Found(t) = RefusedBytes
                         /\ \/ Len(BytesOf(process, t)) # t.payload
                            \/ call = "window" /\ t.role # "norm" /\ t.type = "F32"
  BY <1>3, Zenon DEF WeightsExact, OfLayer
<1> DEFINE bytes == BytesOf(process, t)
           Exact(b) == \/ b = PayloadOf(process, t)
                       \/ b = RefusedBytes /\ Len(bytes) # t.payload
<1>6. Exact(Whole(bytes, t)) /\ Exact(Beginning(bytes, t))
  <2>1. Lies(process.data, T)
    BY <1>1, <1>2, <1>3, DataAre
  <2>2. /\ process.data[t].start \in Int /\ process.data[t].end \in Int
        /\ process.data[t].start <= process.data[t].end
    BY <2>1 DEF Lies
  <2>3. t.payload \in Nat
    BY <1>2, GgufAssumption
  <2> QED BY <2>2, <2>3, WholeExact
<1>7. Holds(process, InHand, t) => StagedBytes(process, t) = bytes
  BY <1>4
<1>8. IsWeight(process, InHand, t) => WeightBytes(process, t) = bytes
  BY <1>7, Zenon DEF IsWeight, WeightBytes
<1> HIDE DEF Exact, bytes
<1>9. Exact(Alone(process, InHand, t))
  BY <1>6, <1>7 DEF Alone, bytes
<1>10. ASSUME t \in Group
       PROVE  Exact(Grouped(process, InHand, Group, t))
  BY <1>6, <1>7, <1>9, <1>10 DEF Grouped, bytes
<1>11. t \in Mlp <=> t.role \in {"gate", "up", "down"}
  BY <1>3, <1>5 DEF Mlp, OfLayer
<1>12. ASSUME t.role \in {"gate", "up"}
       PROVE  Exact(Gated(process, InHand, Mlp, t))
  <2> DEFINE together == IF process.settings.fused THEN Mlp ELSE {u \in Mlp : u.role # "down"}
  <2>1. t \in together
    BY <1>11, <1>12
  <2>2. (\A u \in together : IsWeight(process, InHand, u)) => WeightBytes(process, t) = bytes
    BY <1>8, <2>1
  <2> QED BY <1>6, <1>7, <2>2 DEF Gated, bytes
<1>13. ASSUME t.role = "down"
       PROVE  Exact(Down(process, InHand, Mlp, t))
  <2>1. (\A u \in Mlp : IsWeight(process, InHand, u)) => WeightBytes(process, t) = bytes
    BY <1>8, <1>11, <1>13
  <2> QED BY <1>6, <1>9, <2>1 DEF Down
<1>14. ASSUME t.type # "F32"
       PROVE  Exact(ForMany(process, InHand, t))
  BY <1>6, <1>8, <1>14 DEF ForMany, IsWeight, bytes
<1>15. ASSUME t.type = "F32"
       PROVE  \/ Exact(ForMany(process, InHand, t))
              \/ ForMany(process, InHand, t) = RefusedBytes
  BY <1>6, <1>8, <1>15 DEF ForMany, IsWeight, bytes
<1>16. CASE t.role = "norm"
  <2>1. t \notin Group
    BY <1>16 DEF Group, OfLayer
  <2>2. Found(t) = Whole(bytes, t)
    BY <1>16, <2>1 DEF Found, bytes
  <2> QED BY <1>6, <2>2 DEF Exact, bytes
<1>17. CASE t.role # "norm" /\ call = "window"
  <2>1. Found(t) = ForMany(process, InHand, t)
    BY <1>17 DEF Found
  <2>2. Exact(Found(t)) \/ (Found(t) = RefusedBytes /\ t.type = "F32")
    BY <1>14, <1>15, <2>1
  <2> QED BY <1>17, <2>2 DEF Exact, bytes
<1>18. CASE t.role # "norm" /\ call # "window"
  <2>1. Exact(Found(t))
    BY <1>9, <1>10, <1>12, <1>13, <1>18 DEF Found
  <2> QED BY <2>1 DEF Exact, bytes
<1> QED BY <1>16, <1>17, <1>18

LEMMA StagedAreOnce ==
  ASSUME OpenedOnce
  PROVE  StagedOnce
<1>1. PICK s \in Processes : Opens(s.file) /\ process = Opened(s)
  BY DEF OpenedOnce
<1>2. /\ s.file \in DOMAIN Files
      /\ Layer \subseteq {t.layer : t \in Files[s.file].tensors}
  BY ProcessesAssumption
<1>3. process.data = Data(s.file) /\ DOMAIN process.data = Files[s.file].tensors
  BY <1>1 DEF Opened, Data
<1>4. SUFFICES ASSUME NEW l \in Layer, NEW t \in DOMAIN process.data \ DOMAIN process.staged[l].ranges,
                      Len(BytesOf(process, t)) > Gap
               PROVE  ToSet(BytesOf(process, t)) \cap ToSet(process.staged[l].bytes) = {}
  BY Zenon DEF StagedOnce
<1>5. process.staged[l] = StagedQwenLayer(s, l)
  BY <1>1, <1>2 DEF Opened
<1>6. /\ DOMAIN process.staged[l].ranges = Wanted(s, l)
      /\ process.staged[l].bytes = Packed(Runs(s, l))
  BY <1>5 DEF StagedQwenLayer
<1>7. t \in Files[s.file].tensors /\ t \notin Wanted(s, l)
  BY <1>3, <1>6
<1>8. /\ Data(s.file)[t].start \in Int /\ Data(s.file)[t].end \in Int
      /\ Data(s.file)[t].start <= Data(s.file)[t].end
  BY <1>1, <1>2, <1>7, DataAre DEF Lies
<1>9. BytesOf(process, t) = Positions(Data(s.file)[t].start, Data(s.file)[t].end)
  BY <1>3, Zenon DEF BytesOf
<1>10. Data(s.file)[t].end - Data(s.file)[t].start > Gap
  <2>1. Len(BytesOf(process, t)) = Data(s.file)[t].end - Data(s.file)[t].start
    BY <1>8, <1>9, PositionsAre
  <2> QED BY <1>4, <2>1
<1>11. ToSet(Positions(Data(s.file)[t].start, Data(s.file)[t].end))
         \cap ToSet(Packed(Runs(s, l))) = {}
  BY <1>1, <1>2, <1>7, <1>10, StagedNear
<1> QED BY <1>6, <1>9, <1>11, Zenon

(* Every reachable state: a process reads what it was opened with.         *)
THEOREM QwenOpened == WSpec => []OpenedOnce
<1>1. WInit => OpenedOnce
  BY DEF WInit, OpenedOnce
<1>2. OpenedOnce /\ [WNext]_<<vars, process>> => OpenedOnce'
  BY DEF OpenedOnce, WNext
<1> QED BY <1>1, <1>2, PTL DEF WSpec

(* Wherever a projection finds a matrix - kept from the start, packed by   *)
(* stage_qwen35_layer_packed, read by itself or in the file - it is the    *)
(* matrix of the file, or it is refused: because of padding behind it, or  *)
(* because it is an F32 matrix and meets a window.                         *)
THEOREM QwenWeightsExact == WSpec => []WeightsExact
<1>1. OpenedOnce => WeightsExact
  BY WeightsAreExact
<1> QED BY <1>1, QwenOpened, PTL

(* A packed layer holds nothing of a tensor it was not asked for, unless   *)
(* the tensor fits in a gap: what is kept elsewhere is not read again.     *)
THEOREM QwenStagedOnce == WSpec => []StagedOnce
<1>1. OpenedOnce => StagedOnce
  BY StagedAreOnce
<1> QED BY <1>1, QwenOpened, PTL

(* With its weights the pipeline behaves as it does without: what is       *)
(* proved of Spec holds of WSpec.                                          *)
THEOREM PipelineAlone == WSpec => Spec
<1>1. WInit => Init
  BY DEF WInit
<1>2. [WNext]_<<vars, process>> => [Next]_vars
  BY DEF WNext
<1> QED BY <1>1, <1>2, PTL DEF WSpec, Spec
=============================================================================
