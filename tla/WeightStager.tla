---------------------------- MODULE WeightStager ----------------------------
(***************************************************************************)
(* The bounded weight-staging worker of the streaming runtime (WeightStager*)
(* in src/src/runtime.rs) and the layer loop that feeds it and consumes    *)
(* its results (MetalQwen3::forward_token_hidden).                         *)
(*                                                                         *)
(* The model thread asks for one fused projection group ahead of the       *)
(* dispatch it needs it for, over a channel of capacity one, and takes the *)
(* group back over an unbounded channel.  A group is known by its layer    *)
(* and its kind.                                                           *)
(***************************************************************************)
EXTENDS Naturals, Sequences

CONSTANT N   \* number of layers

ASSUME WeightStagerAssumption == N \in Nat \ {0}

VARIABLES
  fits,      \* the kinds of group the staging budget has room for
  async,     \* SI_ASYNC_METAL, without row chunking
  pc,        \* where the model thread is
  layer,
  pending,   \* a dispatch was submitted and not yet waited for
  queued,    \* the stager's own flag: a request is not yet taken back
  staged,    \* the group the runtime holds in `staged`
  request,   \* the request channel
  reading,   \* the group the worker reads
  results,   \* the result channel
  worker,    \* "up" or "down"
  failure,   \* how the current forward failed, "" if it did not
  previous   \* how the one before it failed (a history variable)

channels == <<request, reading, results, worker>>
vars == <<fits, async, pc, layer, pending, queued, staged, channels,
          failure, previous>>

None == <<>>
Kinds == {"qkv", "gate_up"}
Group == (0..(N - 1)) \X Kinds
Qkv == <<layer, "qkv">>
GateUp == <<layer, "gate_up">>
(* A fault for comparison: this layer is asked for instead of the next.    *)
NextQkvStale == <<layer, "qkv">>

NextQkv == <<layer + 1, "qkv">>

(* The gate and up projections of the supported models are larger than the *)
(* query, key and value projections: no budget has room for them alone.    *)
Budgets == {{}, {"qkv"}, Kinds}

Init ==
  /\ fits \in Budgets
  /\ async \in BOOLEAN
  /\ pc = "idle"
  /\ layer = 0
  /\ pending = FALSE
  /\ queued = FALSE
  /\ staged = None
  /\ request = <<>> /\ reading = None /\ results = <<>> /\ worker = "up"
  /\ failure = "" /\ previous = ""

Stay == UNCHANGED <<fits, async, previous>>

Go(there) == pc' = there /\ UNCHANGED failure
Fail(why) == pc' = "failed" /\ failure' = why

-----------------------------------------------------------------------------
(* A fault for comparison: a request is sent although one is outstanding.  *)
RefusesFreely(g) == g[2] \notin fits

(* WeightStager::prefetch declines: a request is outstanding, or the group *)
(* is too large.                                                           *)
Refuses(g) == queued \/ g[2] \notin fits

Prefetch(g, there) ==
  /\ IF Refuses(g) THEN Go(there) /\ UNCHANGED <<queued, request>>
     ELSE IF worker = "down" THEN Fail("gone") /\ UNCHANGED <<queued, request>>
     ELSE /\ request = <<>>      \* send blocks on a full channel
          /\ request' = <<g>>
          /\ queued' = TRUE
          /\ Go(there)
  /\ Stay
  /\ UNCHANGED <<layer, pending, staged, reading, results, worker>>

(* What WeightStager::take finds for g once it does not block.             *)
Taken(g) ==
  IF ~queued THEN "none"
  ELSE IF results = <<>> THEN "gone"
  ELSE IF ~Head(results).ok THEN "io"
  ELSE IF Head(results).group # g THEN "order" ELSE "group"

Blocked == queued /\ results = <<>> /\ worker = "up"

(* recv takes the result, whatever it is, before anything is looked at.    *)
Received ==
  IF queued /\ results # <<>>
  THEN queued' = FALSE /\ results' = Tail(results)
  ELSE UNCHANGED <<queued, results>>

(* wait_for_stage.                                                         *)
Await(g, there) ==
  /\ IF staged # None
     THEN Go(there) /\ UNCHANGED <<queued, results, staged>>
     ELSE /\ ~Blocked
          /\ Received
          /\ CASE Taken(g) = "group" -> staged' = g /\ Go(there)
               [] Taken(g) = "none" -> UNCHANGED staged /\ Go(there)
               [] OTHER -> UNCHANGED staged /\ Fail(Taken(g))
  /\ Stay
  /\ UNCHANGED <<layer, pending, request, reading, worker>>

(* take_staged: the group wait_for_stage left, or the worker's.  `there`   *)
(* with staged weights in hand, `without` when nothing was staged.         *)
Consume(g, there, without) ==
  /\ IF staged # None
     THEN /\ IF staged = g THEN staged' = None /\ Go(there)
             ELSE UNCHANGED staged /\ Fail("order")
          /\ UNCHANGED <<queued, results>>
     ELSE /\ ~Blocked
          /\ Received
          /\ UNCHANGED staged
          /\ CASE Taken(g) = "group" -> Go(there)
               [] Taken(g) = "none" -> Go(without)
               [] OTHER -> Fail(Taken(g))
  /\ Stay
  /\ UNCHANGED <<layer, request, reading, worker>>

(* Metal work that may return an error.                                    *)
Compute(there) ==
  /\ Go(there) \/ Fail("compute")
  /\ Stay
  /\ UNCHANGED <<queued, staged, channels>>

-----------------------------------------------------------------------------
(* The layer loop of forward_token_hidden.                                 *)
StartForward ==
  /\ pc = "idle"
  /\ layer' = 0
  /\ pending' = FALSE
  /\ Go("prefetchQkv")
  /\ Stay
  /\ UNCHANGED <<queued, staged, channels>>

PrefetchQkv == pc = "prefetchQkv" /\ Prefetch(Qkv, "awaitQkv")
AwaitQkv == pc = "awaitQkv" /\ Await(Qkv, "submitQkv")

(* matvec_many_async: nothing is taken unless dispatches are asynchronous. *)
Submit(g, here, there) ==
  /\ pc = here
  /\ IF async
     THEN /\ Consume(g, there, there)
          /\ pending' = (staged = g \/ (staged = None /\ Taken(g) = "group"))
     ELSE /\ Go(there) /\ pending' = FALSE
          /\ Stay
          /\ UNCHANGED <<layer, queued, staged, channels>>

SubmitQkv == Submit(Qkv, "submitQkv", "prefetchGateUp")
PrefetchGateUp == pc = "prefetchGateUp" /\ Prefetch(GateUp, "finishQkv")

(* matvec_many: a projection that was not submitted takes its weights now. *)
Finish(g, here, there) ==
  /\ pc = here
  /\ pending' = FALSE
  /\ IF pending THEN Compute(there) /\ UNCHANGED layer
     ELSE Consume(g, there, there)

FinishQkv == Finish(Qkv, "finishQkv", "attend")

Attend == pc = "attend" /\ Compute("submitGateUp") /\ UNCHANGED <<layer, pending>>

SubmitGateUp == Submit(GateUp, "submitGateUp", "gateUp")

(* An asynchronous dispatch overlaps the request for the next layer; a     *)
(* synchronous one comes before it.                                        *)
GateUpSubmitted ==
  /\ pc = "gateUp" /\ pending
  /\ Go("prefetchNext")
  /\ Stay
  /\ UNCHANGED <<layer, pending, queued, staged, channels>>

FinishGateUp == ~pending /\ Finish(GateUp, "gateUp", "prefetchNext")

HasNext == layer + 1 < N

PrefetchNext ==
  /\ pc = "prefetchNext"
  /\ IF HasNext THEN Prefetch(NextQkv, "down")
     ELSE /\ Go("down") /\ Stay
          /\ UNCHANGED <<layer, pending, queued, staged, channels>>

Down ==
  /\ pc = "down"
  /\ pending' = FALSE
  /\ IF layer + 1 < N
     THEN Compute("prefetchQkv") /\ layer' = IF pc' = "failed" THEN layer ELSE layer + 1
     ELSE Compute("end") /\ UNCHANGED layer

Return ==
  /\ pc = "end"
  /\ pc' = "idle"
  /\ previous' = ""
  /\ UNCHANGED <<fits, async, layer, pending, queued, staged, channels, failure>>

(* After an error the caller may clear the caches and start over; neither  *)
(* reset nor prefill touches the stager.                                   *)
Reset ==
  /\ pc = "failed"
  /\ pc' = "idle"
  /\ previous' = failure
  /\ failure' = ""
  /\ UNCHANGED <<fits, async, layer, pending, queued, staged, channels>>

(* Dropping the runtime closes the request channel and joins the worker.   *)
Drop ==
  /\ pc \in {"idle", "failed"}
  /\ Go("dropping")
  /\ Stay
  /\ UNCHANGED <<layer, pending, queued, staged, channels>>

Join ==
  /\ pc = "dropping" /\ worker = "down"
  /\ Go("dropped")
  /\ Stay
  /\ UNCHANGED <<layer, pending, queued, staged, channels>>

Dropped == pc = "dropped" /\ UNCHANGED vars

-----------------------------------------------------------------------------
main == <<fits, async, pc, layer, pending, queued, staged, failure, previous>>

(* The worker: receive, read, send.                                        *)
Accept ==
  /\ worker = "up" /\ reading = None /\ request # <<>>
  /\ reading' = Head(request)
  /\ request' = Tail(request)
  /\ UNCHANGED <<main, results, worker>>

Read ==
  /\ worker = "up" /\ reading # None
  /\ \E good \in BOOLEAN : results' = Append(results, [group |-> reading, ok |-> good])
  /\ reading' = None
  /\ UNCHANGED <<main, request, worker>>

(* A fault for comparison: the channel is closed after the join.           *)
LeaveLate ==
  /\ worker = "up" /\ reading = None /\ request = <<>> /\ pc = "dropped"
  /\ worker' = "down"
  /\ UNCHANGED <<main, request, reading, results>>

(* The request channel is closed and empty.                                *)
Leave ==
  /\ worker = "up" /\ reading = None /\ request = <<>> /\ pc = "dropping"
  /\ worker' = "down"
  /\ UNCHANGED <<main, request, reading, results>>

(* The worker panics while it reads, for want of memory.                   *)
Die ==
  /\ worker = "up" /\ reading # None
  /\ worker' = "down"
  /\ reading' = None
  /\ UNCHANGED <<main, request, results>>

Loop ==
  \/ PrefetchQkv \/ AwaitQkv \/ SubmitQkv \/ PrefetchGateUp \/ FinishQkv
  \/ Attend \/ SubmitGateUp \/ GateUpSubmitted \/ FinishGateUp
  \/ PrefetchNext \/ Down \/ Return \/ Join

Worker == Accept \/ Read \/ Leave

Next == StartForward \/ Loop \/ Reset \/ Drop \/ Dropped \/ Worker \/ Die

(* A forward that was begun keeps running, and so does the worker.         *)
Spec == Init /\ [][Next]_vars /\ WF_vars(Loop) /\ WF_vars(Worker)

-----------------------------------------------------------------------------
Outstanding == Len(request) + Len(results) + (IF reading = None THEN 0 ELSE 1)

(* The flag tells exactly whether a group is under way: at most one is, as *)
(* README.md:300-303 promises, and a send never finds the channel full.    *)
OneOutstanding ==
  /\ Outstanding <= 1
  /\ worker = "up" => (queued <=> Outstanding = 1)

(* Between two tokens nothing is staged or under way, unless a forward     *)
(* failed: a new prompt never meets the weights of an old one.             *)
IdleClean == pc = "idle" /\ previous = "" => ~queued /\ staged = None

(* With any budget, with or without overlap, groups are taken in the order *)
(* they were requested in: the order check fails only in the first forward *)
(* after a failed one, and the one after that starts clean.                *)
OrderKept == failure = "order" => previous \notin {"", "order"}

(* A submitted command is never abandoned: a forward that fails while one  *)
(* reads the staged weights waits for it first, because the request made   *)
(* between submit and wait cannot fail then.  PendingMatvec owns the bytes *)
(* the GPU reads and nothing waits when it is dropped.                     *)
NothingAbandoned == pc \in {"idle", "failed"} => ~pending

(* Every forward comes to an end, whatever the worker does, and dropping   *)
(* the runtime does not hang.                                              *)
ForwardsReturn ==
  /\ pc = "prefetchQkv" ~> pc \in {"idle", "failed"}
  /\ pc = "dropping" ~> pc = "dropped"
=============================================================================
