----------------------------- MODULE ReadAhead ------------------------------
(***************************************************************************)
(* The read-ahead of an open model store (Prefetcher, prefetch_worker,     *)
(* ModelStore::advise_layer_prefix in src/src/model.rs): the thread that   *)
(* runs a layer asks for the beginning of the next one's tensors, a worker *)
(* passes the requests on to the kernel.  The queue is short and a request *)
(* that finds it full is dropped.  Closing the store unmaps the files,     *)
(* then takes the sender away and waits for the worker.                    *)
(***************************************************************************)
EXTENDS PackedCache

CONSTANTS
  Budgets,    \* bytes a caller asks to have read ahead (SI_STREAM_PREFETCH)
  LayerNames  \* the tensor names of the layers, layer by layer

ASSUME ReadAheadAssumption ==
  /\ Budgets \subseteq Nat
  /\ LayerNames \subseteq Seq(UNION {ToSet(Order[m]) : m \in Models})

QueueSize == 2

VARIABLES
  queue,   \* requests the worker has not taken yet
  worker,  \* "none", "waiting", "advising"
  hint,    \* the request the worker passes on
  asked,   \* None, or the advise_layer_prefix that runs
  closing, \* the store is being dropped
  packing  \* a packer runs beside the reader; if not, the reader reads ahead

readahead == <<queue, worker, hint, asked, closing, packing>>
storevars == <<pack_vars, readahead>>

(* A packer and a read-ahead do not meet: the packer writes to the file,   *)
(* the read-ahead reads nothing of it.  They are explored apart, the       *)
(* read-ahead with no packed file or with a finished one.                  *)
PackedFile(m) == FlattenSeq(Chunks(m))
ASSUME NoneAssumption ==
  \A m \in Models : Packable(m) =>
    /\ PackedFile(m) # None
    /\ \A stale \in BOOLEAN :
         [model |-> m, packed |-> TRUE, place |-> PlacesInCache(m), stale |-> stale] # None

RInit ==
  /\ packing \in BOOLEAN
  /\ \/ file = None /\ packed = None
     \/ /\ ~packing
        /\ \E m \in Models : Packable(m) /\ file = PackedFile(m) /\ packed = m
  /\ pc = "idle" /\ model = None /\ at = 1 /\ cursor = 0 /\ reader = None
  /\ queue = <<>> /\ worker = "none" /\ hint = None
  /\ asked = None /\ closing = FALSE

(* A new store starts its worker.                                          *)
StoreOpens ==
  /\ worker = "none"
  /\ \E m \in Models : Open(m) \/ OpenShards(m)
  /\ worker' = "waiting"
  /\ UNCHANGED <<queue, hint, asked, closing, packing>>

(* advise_layer_prefix: the names of the layer, one after the other, until *)
(* the budget is asked for.                                                *)
AdviseLayerPrefix ==
  /\ reader # None /\ asked = None /\ ~closing /\ ~packing
  /\ \E names \in LayerNames, budget \in Budgets :
       asked' = [todo |-> names, budget |-> budget, advised |-> 0]
  /\ UNCHANGED <<pack_vars, queue, worker, hint, closing, packing>>

(* A fault for comparison: each tensor has the whole budget.               *)
WholeBudget == asked.budget

BudgetLeft == asked.budget - asked.advised

(* try_send: the request carries its own handle of the file.               *)
Submit(request) ==
  queue' = IF Len(queue) < QueueSize THEN Append(queue, request) ELSE queue

AdviseTensorPrefix ==
  /\ asked # None /\ asked.todo # <<>> /\ asked.advised < asked.budget
  /\ LET t == Head(asked.todo) IN
     /\ t \in DOMAIN reader.place
     /\ LET place == reader.place[t]
            length == Min({place.to - place.from, BudgetLeft})
        IN  /\ IF length = 0 THEN UNCHANGED queue
               ELSE Submit([shard |-> place.shard, from |-> place.from, count |-> length,
                            model |-> reader.model, tensor |-> t])
            /\ asked' = [asked EXCEPT !.todo = Tail(@), !.advised = @ + length]
  /\ UNCHANGED <<pack_vars, worker, hint, closing, packing>>

(* The budget is used up, the names are, or a name is unknown: an error.   *)
Advised ==
  /\ asked # None
  /\ \/ asked.todo = <<>> \/ asked.advised >= asked.budget
     \/ asked.todo # <<>> /\ Head(asked.todo) \notin DOMAIN reader.place
  /\ asked' = None
  /\ UNCHANGED <<pack_vars, queue, worker, hint, closing, packing>>

(* The fields of the store go one after the other: mappings, then sender.  *)
Drop ==
  /\ reader # None /\ asked = None
  /\ Close
  /\ closing' = TRUE
  /\ UNCHANGED <<queue, worker, hint, asked, packing>>

-----------------------------------------------------------------------------
(* The worker.                                                             *)
Receive ==
  /\ worker = "waiting" /\ queue # <<>>
  /\ hint' = Head(queue)
  /\ queue' = Tail(queue)
  /\ worker' = "advising"
  /\ UNCHANGED <<pack_vars, asked, closing, packing>>

(* A fault for comparison: advice that has no effect is asked for again.   *)
AdviseAgain ==
  /\ worker = "advising"
  /\ Submit(hint)
  /\ hint' = None
  /\ worker' = "waiting"
  /\ UNCHANGED <<pack_vars, asked, closing, packing>>

ReadAdvise ==
  /\ worker = "advising"
  /\ hint' = None
  /\ worker' = "waiting"
  /\ UNCHANGED <<pack_vars, queue, asked, closing, packing>>

(* recv fails when the sender is gone and nothing is left: the join ends.  *)
Joined ==
  /\ worker = "waiting" /\ queue = <<>> /\ closing
  /\ worker' = "none" /\ closing' = FALSE
  /\ UNCHANGED <<pack_vars, queue, hint, asked, packing>>

Packer ==
  /\ packing
  /\ \/ \E m \in Models : Pack(m) \/ PackRefused(m)
     \/ Create \/ SetLen \/ Write \/ Finish \/ Interrupt
  /\ UNCHANGED readahead

Worker == Receive \/ ReadAdvise \/ Joined
Caller == AdviseTensorPrefix \/ Advised

StoreNext == Packer \/ StoreOpens \/ AdviseLayerPrefix \/ Caller \/ Drop \/ Worker

(* The worker keeps running, and a call of the store ends.                 *)
StoreSpec ==
  RInit /\ [][StoreNext]_storevars /\ WF_storevars(Worker) /\ WF_storevars(Caller)

-----------------------------------------------------------------------------
Requests == ToSet(queue) \union (IF hint = None THEN {} ELSE {hint})

(* What reaches the kernel is the beginning of a tensor of the model that  *)
(* was open when it was asked for, in the file it lies in, and one call    *)
(* asks for no more than its budget, dropped requests counted: a request   *)
(* outlives the store's mappings, but not the store.                       *)
HintsExact ==
  /\ \A r \in Requests :
       /\ IF r.shard # None THEN r.from = DataStart(r.model, r.shard, r.tensor)
          ELSE r.from = PlacesInCache(r.model)[r.tensor].from
       /\ r.count <= LengthOfTensor(r.model, r.tensor)
       /\ reader # None => r.model = reader.model
  /\ worker = "none" => Requests = {}
  /\ asked # None => asked.advised <= asked.budget

(* Dropping a store ends: the worker empties its queue and leaves.         *)
DropEnds == closing ~> worker = "none"
=============================================================================
