---------------------------- MODULE TargetModel -----------------------------
(***************************************************************************)
(* MetalQwen3 as the target of speculation: the single-token forward, the  *)
(* batched forward over candidate caches taken from a pool, the tree       *)
(* forward over one cache per branch, the Jacobi loops over both, and the  *)
(* commit of what was verified (src/src/runtime.rs).                       *)
(*                                                                         *)
(* Values are terms.  A hidden state is its token and the rows it was      *)
(* computed from: none when it enters layer 0; after a block, the rows the *)
(* attention read, the row of the token itself last.  A row is a hidden    *)
(* state with the position it was rotated to.  So a term says exactly      *)
(* which rows, in which order and at which positions, a value was computed *)
(* from.  Logits are known by the hidden state they were computed from.    *)
(***************************************************************************)
EXTENDS Naturals, Sequences, FiniteSets

CONSTANTS
  Token,          \* the vocabulary
  Layers,         \* transformer blocks
  MaxContext,     \* capacity of the target's caches
  MaxBatch,       \* candidates of one traversal (8)
  MaxIterations,  \* bound on the Jacobi iterations explored
  Models,         \* the models explored, each a greedy continuation
  None            \* no pool, no call, no answer

Prefixes == UNION {[1..n -> Token] : n \in 1..MaxContext}

ASSUME TargetAssumption ==
  /\ Layers \in Nat \ {0}
  /\ MaxContext \in Nat \ {0}
  /\ MaxBatch \in Nat
  /\ MaxIterations \in Nat \ {0}
  /\ Models \subseteq [Prefixes -> Token]
  /\ None \notin {"token", "forward", "verify", "lookahead", "tree", "tree_lookahead",
                 "logits", "verified", "error"}

VARIABLES
  greedy,     \* the model: greedy[s] is the argmax of the logits after s
  batchable,  \* no row chunking and no staging budget
  caches,     \* caches[l]: rows of layer l
  pool,       \* candidate_cache_pool: None, or rows for every layer
  pc,         \* "idle", or "layer": inside a traversal
  call,       \* the operation in progress
  layer,      \* the layer the traversal is about to run
  hidden,     \* hidden states of all candidates, branch after branch
  work,       \* work[l][b]: candidate cache of branch b
  answer      \* what the last call returned

vars == <<greedy, batchable, caches, pool, pc, call, layer, hidden, work, answer>>

Layer == 0..(Layers - 1)
Row(position, h) == [at |-> position, of |-> h]
Embedding(t) == [token |-> t, from |-> <<>>]
Block(h, rows) == [token |-> h.token, from |-> rows]
TokensOf(rows) == [i \in DOMAIN rows |-> rows[i].of.token]

(* Reference: the hidden state of the last token of s when it enters layer *)
(* l, every token of s having been forwarded one at a time from an empty   *)
(* cache.                                                                  *)
Reference[l \in 0..Layers] ==
  [s \in Prefixes |->
     IF l = 0
       THEN Embedding(s[Len(s)])
       ELSE Block(Embedding(s[Len(s)]),
                  [i \in 1..Len(s) |->
                     Row(i - 1, Reference[l - 1][SubSeq(s, 1, i)])])]

(* The finite maximum of the logits of a hidden state.                     *)
Argmax(h) ==
  LET s == TokensOf(h.from) IN
  IF h = Reference[Layers][s] THEN greedy[s] ELSE CHOOSE t \in Token : TRUE

Longest(S) == CHOOSE n \in S : \A m \in S : m <= n
Least(S) == CHOOSE n \in S : \A m \in S : n <= m

Depth(branches) == Len(branches[1])
Prefix(s, n) == SubSeq(s, 1, n)
Position == Len(caches[0])

(* A fault for comparison: only the last layer is compared.              *)
ConsistentEnds == Len(caches[Layers - 1]) <= Position

(* The consistency check at the head of every forward.                     *)
Consistent == \A l \in Layer : Len(caches[l]) = Position

Idle == [op |-> None]
Nothing == [kind |-> None]
Failure == [kind |-> "error"]

Init ==
  /\ greedy \in Models
  /\ batchable \in BOOLEAN
  /\ caches = [l \in Layer |-> <<>>]
  /\ pool = None
  /\ pc = "idle"
  /\ call = Idle
  /\ layer = 0
  /\ hidden = <<>>
  /\ work = <<>>
  /\ answer = Nothing

-----------------------------------------------------------------------------
(* Operations without a traversal.  A call that its checks refuse changes  *)
(* nothing and is left out.                                                *)

Reset ==
  /\ pc = "idle"
  /\ caches' = [l \in Layer |-> <<>>]
  /\ answer' = Nothing
  /\ UNCHANGED <<greedy, batchable, pool, pc, call, layer, hidden, work>>

(* Every layer is cut in turn; the first that is too short stops the loop. *)
TruncateCacheTo(n) ==
  LET short == {l \in Layer : Len(caches[l]) < n}
      reached == IF short = {} THEN Layers ELSE Least(short) IN
  /\ pc = "idle"
  /\ caches' = [l \in Layer |->
                  IF l < reached THEN Prefix(caches[l], n) ELSE caches[l]]
  /\ answer' = IF short = {} THEN Nothing ELSE Failure
  /\ UNCHANGED <<greedy, batchable, pool, pc, call, layer, hidden, work>>

-----------------------------------------------------------------------------
(* The single-token forward appends to the target's own caches, layer by   *)
(* layer.  prefill resets and runs it over a prompt.                       *)

Forward(tokens, position) ==
  /\ pc' = "layer"
  /\ layer' = 0
  /\ call' = [op |-> "token", position |-> position, rest |-> Tail(tokens)]
  /\ hidden' = <<Embedding(tokens[1])>>
  /\ answer' = Nothing
  /\ UNCHANGED <<greedy, batchable, pool, work>>

ForwardToken(t) ==
  /\ pc = "idle"
  /\ Position < MaxContext
  /\ Consistent
  /\ Forward(<<t>>, Position)
  /\ UNCHANGED caches

Prefill(prompt) ==
  /\ pc = "idle"
  /\ Forward(prompt, 0)
  /\ caches' = [l \in Layer |-> <<>>]

TokenLayer ==
  LET rows == Append(caches[layer], Row(call.position, hidden[1])) IN
  /\ pc = "layer" /\ call.op = "token" /\ layer < Layers
  /\ caches' = [caches EXCEPT ![layer] = rows]
  /\ hidden' = <<Block(hidden[1], rows)>>
  /\ layer' = layer + 1
  /\ UNCHANGED <<greedy, batchable, pool, pc, call, work, answer>>

(* The next token of a prompt, or the logits of the last one.              *)
ReturnToken ==
  /\ pc = "layer" /\ call.op = "token" /\ layer = Layers
  /\ \/ /\ call.rest # <<>>
        /\ Forward(call.rest, call.position + 1)
        /\ UNCHANGED caches
     \/ /\ call.rest = <<>>
        /\ pc' = "idle"
        /\ call' = Idle
        /\ layer' = 0
        /\ hidden' = <<>>
        /\ answer' = [kind |-> "logits", logits |-> hidden]
        /\ UNCHANGED <<greedy, batchable, caches, pool, work>>

-----------------------------------------------------------------------------
(* The batched traversals.  They read the target's caches and write to     *)
(* copies: the pooled candidate caches, or one cache per branch.           *)

Pooled(op) == op \in {"forward", "verify", "lookahead"}

(* A fault for comparison: a pooled cache is taken as it is.     *)
CandidateReused(l) ==
  IF pool # None /\ Len(pool[l]) = Position THEN pool[l] ELSE caches[l]

(* take_candidate_cache_pool overwrites what it takes; a branch cache is   *)
(* new.                                                                    *)
Candidate(l) == caches[l]

BranchOf(k, branches) == ((k - 1) \div Depth(branches)) + 1
IndexOf(k, branches) == ((k - 1) % Depth(branches)) + 1
FlatIndex(b, i, branches) == (b - 1) * Depth(branches) + i

Traverse(op, branches, first, iterations, pass) ==
  /\ pc' = "layer"
  /\ layer' = 0
  /\ call' = [op |-> op, branches |-> branches, first |-> first,
              iterations |-> iterations, pass |-> pass]
  /\ hidden' = [k \in 1..(Len(branches) * Depth(branches)) |->
                  Embedding(branches[BranchOf(k, branches)][IndexOf(k, branches)])]
  /\ work' = [l \in Layer |-> [b \in 1..Len(branches) |-> Candidate(l)]]
  /\ pool' = IF Pooled(op) THEN None ELSE pool
  /\ UNCHANGED <<greedy, batchable, caches>>

(* A fault for comparison: one position too many.                        *)
RoomLate(branches) == Position + Depth(branches) <= MaxContext + 1

(* The window ends inside the context.                                     *)
Room(branches) == Position + Depth(branches) <= MaxContext

StartTraversal(op, branches, first, iterations) ==
  /\ pc = "idle"
  /\ Len(branches) * Depth(branches) <= MaxBatch
  /\ Room(branches)
  /\ Consistent
  /\ batchable
  /\ Traverse(op, branches, first, iterations, 1)
  /\ answer' = Nothing

ForwardTokensMany(candidates) ==
  StartTraversal("forward", <<candidates>>, None, 1)

(* first is the argmax of the logits the caller holds.                     *)
VerifyMany(first, candidates) ==
  /\ candidates[1] = first
  /\ StartTraversal("verify", <<candidates>>, first, 1)

VerifyManyMiss(first) ==
  /\ pc = "idle"
  /\ answer' = [kind |-> "verified", accepted |-> 0, next |-> first,
                logits |-> <<>>, selected |-> 1]
  /\ UNCHANGED <<greedy, batchable, caches, pool, pc, call, layer, hidden, work>>

LookaheadStep(first, width, iterations) ==
  StartTraversal("lookahead", <<[i \in 1..width |-> first]>>, first, iterations)

VerifyTree(first, branches) == StartTraversal("tree", branches, first, 1)

LookaheadTreeStep(first, branches, iterations) ==
  StartTraversal("tree_lookahead", branches, first, iterations)

NewRow(b, i) ==
  Row(Position + i - 1, hidden[FlatIndex(b, i, call.branches)])
NewRows(b) == [i \in DOMAIN call.branches[b] |-> NewRow(b, i)]

(* Attention reads the branch's cache and the candidates before this one.  *)
BatchLayer ==
  LET attended(b, i) == work[layer][b] \o Prefix(NewRows(b), i) IN
  /\ pc = "layer" /\ call.op # "token" /\ layer < Layers
  /\ hidden' = [k \in DOMAIN hidden |->
                  Block(hidden[k], attended(BranchOf(k, call.branches),
                                            IndexOf(k, call.branches)))]
  /\ work' = [work EXCEPT ![layer] =
                 [b \in DOMAIN call.branches |-> @[b] \o NewRows(b)]]
  /\ layer' = layer + 1
  /\ UNCHANGED <<greedy, batchable, caches, pool, pc, call, answer>>

(* The logits of branch b, picked out of those of the whole batch.         *)
Grouped(b) ==
  LET d == Depth(call.branches) IN SubSeq(hidden, (b - 1) * d + 1, b * d)

Recycled(rows) == [l \in Layer |-> Prefix(rows[l], Position)]

(* The projections, the norms and the head may fail anywhere; what was     *)
(* appended to the target's caches stays, candidate caches are dropped.    *)
Fail ==
  /\ pc = "layer"
  /\ pc' = "idle"
  /\ call' = Idle
  /\ layer' = 0
  /\ hidden' = <<>>
  /\ work' = <<>>
  /\ answer' = Failure
  /\ UNCHANGED <<greedy, batchable, caches, pool>>

Complete(op) == pc = "layer" /\ call.op = op /\ layer = Layers

Return(a) ==
  /\ pc' = "idle"
  /\ call' = Idle
  /\ layer' = 0
  /\ hidden' = <<>>
  /\ work' = <<>>
  /\ answer' = a
  /\ UNCHANGED <<greedy, batchable>>

ReturnForward ==
  /\ Complete("forward")
  /\ pool' = Recycled([l \in Layer |-> work[l][1]])
  /\ Return([kind |-> "logits", logits |-> Grouped(1)])
  /\ UNCHANGED caches

-----------------------------------------------------------------------------
(* A fault for comparison: the update is one position late.      *)
UpdatedLate(b) == [i \in DOMAIN call.branches[b] |->
                     IF i = 1 THEN call.branches[b][1] ELSE Argmax(Grouped(b)[i])]

(* Jacobi: each candidate is replaced by the argmax of the logits before   *)
(* it, until the iterations are used up or nothing changes.                *)

Updated(b) == [i \in DOMAIN call.branches[b] |->
                 IF i = 1 THEN call.branches[b][1] ELSE Argmax(Grouped(b)[i - 1])]

NextBranches(branches) == [b \in DOMAIN branches |-> Updated(b)]

Settled == \/ call.pass = call.iterations
           \/ NextBranches(call.branches) = call.branches

(* The candidate caches of the last iteration are recycled, and taken      *)
(* again by the next.                                                      *)
Iterate ==
  /\ Complete("lookahead") \/ Complete("tree_lookahead")
  /\ Depth(call.branches) >= 2
  /\ ~Settled
  /\ Traverse(call.op, NextBranches(call.branches), call.first,
              call.iterations, call.pass + 1)
  /\ UNCHANGED answer

(* A fault for comparison: the comparison is one position late.  *)
AcceptedLate(b) ==
  LET candidates == call.branches[b]
      follows(n) == /\ candidates[1] = call.first
                    /\ \A i \in 2..n : candidates[i] = Argmax(Grouped(b)[i]) IN
  Longest({0} \cup {n \in DOMAIN candidates : follows(n)})

(* assess_verification: the candidates that follow the logits held by the  *)
(* caller, then each other.                                                *)
Accepted(b) ==
  LET candidates == call.branches[b]
      follows(n) == /\ candidates[1] = call.first
                    /\ \A i \in 2..n : candidates[i] = Argmax(Grouped(b)[i - 1]) IN
  Longest({0} \cup {n \in DOMAIN candidates : follows(n)})

Assessment(b) ==
  LET n == Accepted(b) IN
  [kind |-> "verified", accepted |-> n, selected |-> b,
   next |-> IF n = 0 THEN call.first ELSE Argmax(Grouped(b)[n]),
   logits |-> IF n = 0 THEN <<>> ELSE Grouped(b)]

(* A fault for comparison: a later branch wins if it accepts anything.   *)
SelectedLast ==
  Longest({1} \cup {b \in DOMAIN call.branches : Accepted(b) > 0})

(* The first of the branches that accept most.                             *)
Selected ==
  LET best == Longest({Accepted(b) : b \in DOMAIN call.branches}) IN
  Least({b \in DOMAIN call.branches : Accepted(b) = best})

(* The candidate caches become the target's, which go to the pool.         *)
CommitVerified ==
  LET n == Accepted(1) IN
  /\ Complete("verify") \/ (Complete("lookahead") /\ Settled)
  /\ IF n > 0
       THEN /\ caches' = [l \in Layer |-> Prefix(work[l][1], Position + n)]
            /\ pool' = Recycled(caches)
       ELSE /\ pool' = Recycled([l \in Layer |-> work[l][1]])
            /\ UNCHANGED caches
  /\ Return(Assessment(1))

(* The prefix of the selected branch is copied into the target's caches.   *)
CommitTree ==
  LET b == Selected
      n == Accepted(b) IN
  /\ \/ Complete("tree")
     \/ /\ Complete("tree_lookahead")
        /\ Depth(call.branches) >= 2
        /\ Settled
  /\ caches' = IF n > 0
                 THEN [l \in Layer |-> Prefix(work[l][b], Position + n)]
                 ELSE caches
  /\ Return(Assessment(b))
  /\ UNCHANGED pool

-----------------------------------------------------------------------------
Windows == UNION {[1..n -> Token] : n \in 1..MaxBatch}
Shapes == {shape \in (2..MaxBatch) \X (1..MaxBatch) : shape[1] * shape[2] <= MaxBatch}
Trees == UNION {[1..shape[1] -> [1..shape[2] -> Token]] : shape \in Shapes}

Next ==
  \/ Reset
  \/ \E n \in 0..MaxContext : TruncateCacheTo(n)
  \/ \E t \in Token : ForwardToken(t)
  \/ \E prompt \in Prefixes : Prefill(prompt)
  \/ TokenLayer
  \/ ReturnToken
  \/ \E candidates \in Windows :
       \/ ForwardTokensMany(candidates)
       \/ \E first \in Token : VerifyMany(first, candidates)
  \/ \E first \in Token :
       \/ VerifyManyMiss(first)
       \/ \E branches \in Trees :
            \/ VerifyTree(first, branches)
            \/ \E k \in 1..MaxIterations : LookaheadTreeStep(first, branches, k)
       \/ \E width \in 2..MaxBatch, k \in 1..MaxIterations :
            LookaheadStep(first, width, k)
  \/ BatchLayer
  \/ Fail
  \/ ReturnForward
  \/ Iterate
  \/ CommitVerified
  \/ CommitTree

Spec == Init /\ [][Next]_vars

-----------------------------------------------------------------------------
Tokens == TokensOf(caches[0])

(* The tokens every layer holds.                                           *)
Committed == Prefix(Tokens, Least({Len(caches[l]) : l \in Layer}))

(* The rows layer l must hold for the tokens s.                            *)
RowsOf(s, l) == [i \in 1..Len(s) |-> Row(i - 1, Reference[l][Prefix(s, i)])]

(* Control is where the program counter says, no cache passes the context, *)
(* and a traversal's state has the shape of its call.                      *)
TypeOK ==
  /\ greedy \in Models
  /\ batchable \in BOOLEAN
  /\ \A l \in Layer : Len(caches[l]) <= MaxContext
  /\ pool # None => \A l \in Layer : Len(pool[l]) <= MaxContext
  /\ pc \in {"idle", "layer"}
  /\ pc = "idle" <=> call = Idle
  /\ layer \in 0..Layers
  /\ (pc = "layer" /\ call.op # "token") =>
       /\ Len(hidden) = Len(call.branches) * Depth(call.branches)
       /\ \A b \in DOMAIN call.branches, l \in Layer : Len(work[l][b]) <= MaxContext

(* Every row of every layer, in the target's caches and in every candidate *)
(* cache of a traversal, is the row a one-by-one forward of that cache's   *)
(* tokens from an empty cache would have put there: batching, branching,   *)
(* pooling, swapping and copying never mix rows of different sequences,    *)
(* positions or layers, whatever was rejected or failed before.            *)
CachesExact ==
  /\ \A l \in Layer : caches[l] = RowsOf(Prefix(Tokens, Len(caches[l])), l)
  /\ (pc = "layer" /\ call.op # "token") =>
       \A l \in Layer, b \in DOMAIN call.branches :
         work[l][b] = RowsOf(IF l < layer THEN Tokens \o call.branches[b] ELSE Tokens, l)

(* Logits given out are those of the tokens the caller asked about.        *)
AnswersExact ==
  [][answer'.kind = "logits" /\ pc = "layer" =>
       LET s == IF call.op = "token" THEN Tokens ELSE Tokens \o call.branches[1]
           n == Len(answer'.logits) IN
       \A i \in 1..n :
         answer'.logits[i] = Reference[Layers][Prefix(s, Len(s) - n + i)]]_vars

(* Where candidates of a window s leave the greedy continuation of first.  *)
Follows(first, s, n) ==
  /\ s[1] = first
  /\ \A i \in 2..n : s[i] = greedy[Tokens \o Prefix(s, i - 1)]

(* Verification accepts, of the branches it was given, a longest prefix    *)
(* that the model would have produced one token at a time, names the token *)
(* the model puts next, and commits exactly that prefix in every layer.    *)
VerificationExact ==
  [][answer'.kind = "verified" /\ pc = "layer" =>
       LET s == call.branches[answer'.selected]
           n == answer'.accepted IN
       /\ n > 0 => Follows(call.first, s, n)
       /\ \A b \in DOMAIN call.branches :
            n < Len(s) => ~Follows(call.first, call.branches[b], n + 1)
       /\ answer'.next = IF n = 0 THEN call.first
                                  ELSE greedy[Tokens \o Prefix(s, n)]
       /\ \A l \in Layer : caches'[l] = RowsOf(Tokens \o Prefix(s, n), l)]_vars

(* The Jacobi loop starts from guesses; each iteration makes at least one  *)
(* more candidate right, so a window that starts with the right token has  *)
(* as many accepted as there were iterations, and all of them when the     *)
(* loop stopped early because nothing changed any more.                    *)
JacobiConverges ==
  [][(/\ pc = "layer"
      /\ call.op \in {"lookahead", "tree_lookahead"}
      /\ answer'.kind = "verified"
      /\ \E b \in DOMAIN call.branches : call.branches[b][1] = call.first) =>
       LET width == Depth(call.branches) IN
       /\ answer'.accepted >= Least({call.iterations, width})
       /\ call.pass < call.iterations => answer'.accepted = width]_vars

(* Seen through the tokens every layer holds, the target is a log that     *)
(* only its own greedy continuation, or one given token, extends.          *)
Log == INSTANCE VerifiedLog WITH tokens <- Committed
ImplementsVerifiedLog == Log!Spec
=============================================================================
