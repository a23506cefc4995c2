---------------------------- MODULE Speculation -----------------------------
(***************************************************************************)
(* The decoding loop of the resident runtime: run_resident, the schedules  *)
(* of decode_with_schedule, and the drafters and verifiers they call, all  *)
(* in src/src/runtime.rs.                                                  *)
(*                                                                         *)
(* A KV cache is the sequence of the tokens whose keys and values it       *)
(* holds.  The target model is known by its greedy path: after any prefix  *)
(* of the path it predicts the next token of the path, after anything else *)
(* it may predict any token.  A drafter may propose any token.             *)
(***************************************************************************)
EXTENDS Naturals, Sequences

CONSTANTS
  Token,             \* the vocabulary
  Eos,               \* the end-of-sequence token
  PromptLen,         \* tokens of the prompt
  MaxNew,            \* max_new_tokens
  MaxContext,        \* capacity of every KV cache
  Runs,              \* warm-up runs and measured repetitions together
  Paths,             \* the greedy paths explored
  Configs,           \* the schedules explored
  SidecarTreeWidth   \* window from which the sidecar proposes a tree (8)

(* One value of the environment variables LookaheadConfig::from_env reads. *)
Config == [lookahead : BOOLEAN, width : Nat, dynamic : BOOLEAN,
           draftLayers : BOOLEAN, sidecar : BOOLEAN, sidecarTree : BOOLEAN,
           sidecarAuto : BOOLEAN, margin : BOOLEAN, draftModel : BOOLEAN,
           ngram : BOOLEAN, tree : BOOLEAN, depth : Nat]

(* The combinations from_env accepts.                                      *)
FromEnv(c) ==
  /\ c.width >= 2
  /\ c.sidecar => c.draftLayers
  /\ c.sidecarTree \/ c.sidecarAuto \/ c.margin => c.sidecar
  /\ c.tree => /\ c.depth >= 2
               /\ ~(c.draftModel \/ c.draftLayers \/ c.ngram \/ c.sidecar)
  /\ ~(c.draftModel /\ c.draftLayers)
  /\ ~(c.draftModel /\ c.ngram)
  /\ ~(c.draftLayers /\ c.ngram)

(* run_resident refuses an empty prompt and a generation that cannot fit.  *)
ASSUME SpeculationAssumption ==
  /\ Eos \in Token
  /\ PromptLen \in Nat \ {0}
  /\ MaxNew \in Nat
  /\ MaxContext \in Nat
  /\ PromptLen + MaxNew <= MaxContext
  /\ Runs \in Nat \ {0}
  /\ Paths \subseteq [1..(MaxContext + 1) -> Token]
  /\ Configs \subseteq Config
  /\ \A c \in Configs : c.lookahead => FromEnv(c)
  /\ SidecarTreeWidth \in Nat
  /\ SidecarTreeWidth > 2

(* No drafter is selected: the Jacobi control of the documentation.        *)
IsJacobi(c) ==
  c.lookahead /\ ~(c.draftLayers \/ c.draftModel \/ c.ngram \/ c.tree)

VARIABLES
  path, cfg,   \* chosen before the first run and never changed
  pc,
  target,      \* tokens in the target's KV caches
  part,        \* tokens in the retained-prefix draft caches
  ext,         \* tokens in the external draft model's caches
  pred,        \* argmax of previous_logits
  generated, position,
  dynWidth,    \* dynamic_width
  sidecarOn,   \* sidecar_enabled
  window,      \* width of this pass
  cands, accepted, nextTok,  \* candidates, accepted_tokens, next_token
  emitted,     \* accepted candidates already pushed to the output
  outputs      \* outputs of the finished runs

caches == <<target, part, ext>>
pass == <<window, cands, accepted, nextTok, emitted>>
vars == <<path, cfg, pc, caches, pred, generated, position, dynWidth,
          sidecarOn, pass, outputs>>

-----------------------------------------------------------------------------
(* The tokens the target may predict when its cache holds c.               *)
Predict(c) ==
  IF \A i \in 1..Len(c) : c[i] = path[i] THEN {path[Len(c) + 1]} ELSE Token

(* n tokens may be forwarded through cache c at position p.                *)
Fits(c, p, n) == Len(c) = p /\ p + n <= MaxContext

Rewound(c, n) == SubSeq(c, 1, n)

(* A fault for comparison: reset leaves the tokens of the last run.        *)
Kept(c) == c

Cleared(c) == <<>>

AtMost(m, n) == IF m <= n THEN m ELSE n
AtLeast(m, n) == IF m >= n THEN m ELSE n

NextDynamicWidth(configured, current, acc) ==
  AtMost(configured,
         IF acc <= 1 THEN 2
         ELSE IF acc < current THEN AtLeast(current \div 2, 2)
         ELSE AtLeast(current * 2, 2))

(* A fault for comparison: the end of the context is not considered.       *)
WindowUnbounded == dynWidth

(* The candidates the next pass has room for.                              *)
Window == AtMost(dynWidth, MaxContext - position)

(* A fault for comparison: the limit is noticed one token late.            *)
FullLate(out) == Len(out) = MaxNew + 1

Full(out) == Len(out) = MaxNew

(* A fault for comparison: only the limit ends the output.                 *)
EndsAtLimit(out) == Full(out)

Ends(out) == Full(out) \/ out[Len(out)] = Eos

EndPass ==
  /\ window' = 0 /\ cands' = <<>> /\ accepted' = 0
  /\ nextTok' = Eos /\ emitted' = 0

Fail ==
  /\ pc' = "error"
  /\ UNCHANGED <<path, cfg, caches, pred, generated, position, dynWidth,
                 sidecarOn, pass, outputs>>

Init ==
  /\ path \in Paths
  /\ cfg \in Configs
  /\ pc = "prefill"
  /\ target = <<>> /\ part = <<>> /\ ext = <<>>
  /\ pred = Eos
  /\ generated = <<>> /\ position = 0
  /\ dynWidth = 0 /\ sidecarOn = FALSE
  /\ window = 0 /\ cands = <<>> /\ accepted = 0 /\ nextTok = Eos /\ emitted = 0
  /\ outputs = <<>>

(* A run begins: prefill of the target, of the external drafter, and of    *)
(* the retained-prefix drafter, each after its caches are cleared.         *)
Prefill ==
  LET prompt == [i \in 1..PromptLen |-> path[i]] IN
  /\ pc = "prefill"
  /\ pc' = "loop"
  /\ target' = Cleared(target) \o prompt
  /\ part' = IF cfg.draftLayers THEN prompt ELSE <<>>
  /\ ext' = IF cfg.draftModel THEN Cleared(ext) \o prompt ELSE ext
  /\ pred' \in Predict(target')
  /\ generated' = <<>>
  /\ position' = PromptLen
  /\ dynWidth' = cfg.width
  /\ sidecarOn' = cfg.sidecar
  /\ EndPass
  /\ UNCHANGED <<path, cfg, outputs>>

-----------------------------------------------------------------------------
(* One canonical step.  `forwardLast`: the token that fills the output is  *)
(* still forwarded, as decode_greedy and the narrow window do.             *)
Canonical(forwardLast) ==
  LET out == Append(generated, pred)
  IN IF pred = Eos \/ (Full(out) /\ ~forwardLast)
     THEN /\ generated' = out
          /\ pc' = "done"
          /\ UNCHANGED <<target, pred, position>>
     ELSE IF Fits(target, position, 1)
     THEN /\ generated' = out
          /\ pc' = "loop"
          /\ target' = Append(target, pred)
          /\ pred' \in Predict(target')
          /\ position' = position + 1
     ELSE /\ pc' = "error"
          /\ UNCHANGED <<generated, target, pred, position>>

Looping == pc = "loop" /\ ~Full(generated)

FellBack == cfg.sidecarAuto /\ ~sidecarOn

(* The loop condition of both schedules.                                   *)
LoopEnds ==
  /\ pc = "loop" /\ Full(generated)
  /\ pc' = "done"
  /\ UNCHANGED <<path, cfg, caches, pred, generated, position, dynWidth,
                 sidecarOn, pass, outputs>>

GreedyStep ==
  /\ Looping /\ ~cfg.lookahead
  /\ Canonical(TRUE)
  /\ UNCHANGED <<path, cfg, part, ext, dynWidth, sidecarOn, pass, outputs>>

FallbackStep ==
  /\ Looping /\ cfg.lookahead /\ FellBack
  /\ Canonical(FALSE)
  /\ UNCHANGED <<path, cfg, part, ext, dynWidth, sidecarOn, pass, outputs>>

NarrowStep ==
  /\ Looping /\ cfg.lookahead /\ ~FellBack /\ Window < 2
  /\ Canonical(TRUE)
  /\ UNCHANGED <<path, cfg, part, ext, dynWidth, sidecarOn, pass, outputs>>

Speculating == Looping /\ cfg.lookahead /\ ~FellBack /\ Window >= 2

(* The history holds no continuation to look up.                           *)
LookupMiss ==
  /\ Speculating /\ (cfg.ngram \/ cfg.tree)
  /\ Canonical(FALSE)
  /\ UNCHANGED <<path, cfg, part, ext, dynWidth, sidecarOn, pass, outputs>>

-----------------------------------------------------------------------------
(* Proposals start with the target's own greedy token.                     *)
Proposals(n) == {s \in [1..n -> Token] : s[1] = pred}

Propose(s) ==
  /\ pc' = "verify"
  /\ window' = Window
  /\ cands' = s
  /\ UNCHANGED <<path, cfg, target, pred, generated, position, dynWidth,
                 sidecarOn, accepted, nextTok, emitted, outputs>>

(* Tokens copied from the history, at most a window of them; the tree      *)
(* schedule does the same when its branches coincide.                      *)
ProposeLookup ==
  /\ Speculating /\ (cfg.ngram \/ cfg.tree)
  /\ \E n \in 2..Window : \E s \in Proposals(n) : Propose(s)
  /\ UNCHANGED <<part, ext>>

(* The branch lookahead_tree_step selects.                                 *)
ProposeTree ==
  /\ Speculating /\ cfg.tree
  /\ \E s \in Proposals(AtMost(cfg.depth, Window)) : Propose(s)
  /\ UNCHANGED <<part, ext>>

(* The external model forwards every candidate, the last one included.     *)
ProposeExternal ==
  /\ Speculating /\ cfg.draftModel
  /\ IF Fits(ext, position, Window)
     THEN /\ \E s \in Proposals(Window) : Propose(s) /\ ext' = ext \o s
          /\ UNCHANGED part
     ELSE Fail

TreeSidecar == sidecarOn /\ cfg.sidecarTree /\ Window >= SidecarTreeWidth

(* The retained-prefix drafter, alone or under the sidecar scorer: the     *)
(* last candidate is proposed but not forwarded.                           *)
ProposePartial ==
  /\ Speculating /\ ~(cfg.tree \/ cfg.ngram \/ cfg.draftModel) /\ ~TreeSidecar
  /\ IF cfg.draftLayers /\ Fits(part, position, Window - 1)
     THEN /\ \E s \in Proposals(Window) :
               Propose(s) /\ part' = part \o SubSeq(s, 1, Window - 1)
          /\ UNCHANGED ext
     ELSE Fail

(* Two tokens per branch; the draft caches of the selected branch are kept.*)
ProposeSidecarTree ==
  /\ Speculating /\ TreeSidecar
  /\ IF Fits(part, position, 2)
     THEN /\ \E s \in Proposals(2) : Propose(s) /\ part' = part \o s
          /\ UNCHANGED ext
     ELSE Fail

(* The sidecar's margin is too small: a canonical step, after the drafter  *)
(* has already forwarded the first candidate.                              *)
MarginReject ==
  /\ Speculating /\ cfg.margin /\ sidecarOn /\ ~TreeSidecar
  /\ IF Fits(part, position, 1)
     THEN /\ part' = Append(part, pred)
          /\ Canonical(FALSE)
          /\ UNCHANGED <<path, cfg, ext, dynWidth, sidecarOn, pass, outputs>>
     ELSE Fail

-----------------------------------------------------------------------------
(* A fault for comparison: the last accepted candidate is not compared.    *)
AssessShort(k, next) ==
  IF cands[1] # pred THEN k = 0 /\ next = pred
  ELSE /\ k >= 1
       /\ \A j \in 1..(k - 2) : cands[j + 1] \in Predict(target \o SubSeq(cands, 1, j))
       /\ next \in Predict(target \o SubSeq(cands, 1, k))
       /\ k < Len(cands) => next # cands[k + 1]

(* The target forwards the candidates after its cache and accepts k of     *)
(* them; `next` is what it predicts behind the last one it accepts.        *)
Assess(k, next) ==
  IF cands[1] # pred THEN k = 0 /\ next = pred
  ELSE /\ k >= 1
       /\ \A j \in 1..(k - 1) : cands[j + 1] \in Predict(target \o SubSeq(cands, 1, j))
       /\ next \in Predict(target \o SubSeq(cands, 1, k))
       /\ k < Len(cands) => next # cands[k + 1]

(* Verification, the rollback of the draft caches that goes with it, and   *)
(* the policies that follow from the number of accepted tokens.            *)
Verify ==
  /\ pc = "verify"
  /\ IF Fits(target, position, Len(cands))
     THEN \E k \in 0..Len(cands), next \in Token :
       LET acc == AtMost(k, window)
           rollback == cfg.draftLayers /\ k < Len(cands)
       IN
       /\ Assess(k, next)
       /\ IF rollback /\ position + k > Len(part) THEN Fail ELSE
          /\ pc' = IF acc = 0 THEN "correct" ELSE "emit"
          /\ target' = target \o SubSeq(cands, 1, k)
          /\ part' = IF rollback THEN Rewound(part, position + k) ELSE part
          /\ accepted' = acc
          /\ nextTok' = next
          /\ sidecarOn' = (sidecarOn /\ ~(cfg.sidecarAuto /\ acc <= 1))
          /\ dynWidth' = IF cfg.dynamic THEN NextDynamicWidth(cfg.width, window, acc)
                         ELSE dynWidth
          /\ UNCHANGED <<path, cfg, ext, pred, generated, position, window,
                         cands, emitted, outputs>>
     ELSE Fail

(* One accepted candidate is pushed to the output.                         *)
Emit ==
  LET out == Append(generated, cands[emitted + 1])
  IN /\ pc = "emit"
     /\ generated' = out
     /\ emitted' = emitted + 1
     /\ pc' = IF Ends(out) THEN "done"
              ELSE IF emitted + 1 < accepted THEN "emit"
              ELSE IF accepted < window THEN "correct" ELSE "extend"
     /\ UNCHANGED <<path, cfg, caches, pred, position, dynWidth, sidecarOn,
                    window, cands, accepted, nextTok, outputs>>

(* The verifier's token follows the accepted prefix: it is emitted and     *)
(* forwarded, and the drafter is rewound to the prefix and given it too.   *)
Correct ==
  LET out == Append(generated, nextTok)
      p == position + accepted
      usesPart == cfg.sidecar \/ cfg.draftLayers
  IN
  /\ pc = "correct"
  /\ IF Ends(out)
     THEN /\ generated' = out
          /\ pc' = "done"
          /\ UNCHANGED <<path, cfg, caches, pred, position, dynWidth,
                         sidecarOn, pass, outputs>>
     ELSE IF /\ Fits(target, p, 1)
             /\ cfg.draftModel => p <= Len(ext)
             /\ usesPart => p <= Len(part)
     THEN /\ generated' = out
          /\ pc' = "loop"
          /\ target' = Append(target, nextTok)
          /\ pred' \in Predict(target')
          /\ ext' = IF cfg.draftModel THEN Append(Rewound(ext, p), nextTok) ELSE ext
          /\ part' = IF usesPart THEN Append(Rewound(part, p), nextTok) ELSE part
          /\ position' = p + 1
          /\ EndPass
          /\ UNCHANGED <<path, cfg, dynWidth, sidecarOn, outputs>>
     ELSE Fail

(* A fault for comparison: the drafter is given the verifier's token.      *)
LastCandidateNext == nextTok

LastCandidate == cands[Len(cands)]

(* The whole window was accepted: the retained-prefix drafter catches up   *)
(* with the last candidate and the verifier's logits start the next pass.  *)
Extend ==
  LET p == position + accepted
      usesPart == cfg.sidecar \/ cfg.draftLayers
  IN
  /\ pc = "extend"
  /\ IF usesPart => Fits(part, p - 1, 1)
     THEN /\ pc' = "loop"
          /\ part' = IF usesPart THEN Append(part, LastCandidate) ELSE part
          /\ pred' = nextTok
          /\ position' = p
          /\ EndPass
          /\ UNCHANGED <<path, cfg, target, ext, generated, dynWidth,
                         sidecarOn, outputs>>
     ELSE Fail

(* The finished output is recorded and the next repetition starts over     *)
(* with the same caches.                                                   *)
FinishRun ==
  /\ pc = "done"
  /\ outputs' = Append(outputs, generated)
  /\ generated' = <<>>
  /\ pc' = IF Len(outputs) + 1 < Runs THEN "prefill" ELSE "end"
  /\ EndPass
  /\ UNCHANGED <<path, cfg, caches, pred, position, dynWidth, sidecarOn>>

(* The process has reported, or has stopped with an error message.         *)
Exited ==
  /\ pc \in {"end", "error"}
  /\ UNCHANGED vars

Next ==
  \/ Prefill \/ LoopEnds
  \/ GreedyStep \/ FallbackStep \/ NarrowStep \/ LookupMiss \/ MarginReject
  \/ ProposeLookup \/ ProposeTree \/ ProposeExternal \/ ProposePartial
  \/ ProposeSidecarTree
  \/ Verify \/ Emit \/ Correct \/ Extend \/ FinishRun \/ Exited

(* One thread runs the loop to its end.                                    *)
Spec == Init /\ [][Next]_vars /\ WF_vars(Next)

-----------------------------------------------------------------------------
(* The state stays in range: no cache outgrows the capacity it was         *)
(* allocated for, no output the token limit.                               *)
TypeOK ==
  /\ path \in Paths
  /\ cfg \in Configs
  /\ pc \in {"prefill", "loop", "verify", "emit", "correct", "extend",
             "done", "end", "error"}
  /\ \A c \in {target, part, ext} : c \in Seq(Token) /\ Len(c) <= MaxContext
  /\ pred \in Token /\ nextTok \in Token
  /\ generated \in Seq(Token) /\ Len(generated) <= MaxNew
  /\ position \in 0..MaxContext
  /\ dynWidth \in Nat /\ sidecarOn \in BOOLEAN
  /\ window \in Nat /\ cands \in Seq(Token)
  /\ accepted \in 0..window /\ emitted \in 0..accepted
  /\ outputs \in Seq(Seq(Token)) /\ Len(outputs) <= Runs

(* Whatever was proposed, the output is a prefix of what decode_greedy     *)
(* would emit, and nothing follows an end-of-sequence token.               *)
GreedyPrefix ==
  \A i \in 1..Len(generated) :
    /\ generated[i] = path[PromptLen + i]
    /\ generated[i] = Eos => i = Len(generated)

(* Whenever the loop is at its head, the target's caches hold the prompt   *)
(* and the output, no rejected candidate and no gap, so that the logits    *)
(* the next pass starts from are those of the greedy path.                 *)
TargetExact ==
  pc = "loop" =>
    /\ position = PromptLen + Len(generated)
    /\ target = [i \in 1..position |-> path[i]]
    /\ pred = path[position + 1]

(* A drafter that is about to be asked holds exactly the tokens the target *)
(* holds: rolling back after a rejection, catching up after a full window, *)
(* a margin rejection or a correction never leaves a stale or missing one. *)
DraftersAligned ==
  Speculating => /\ cfg.draftModel => ext = target
                 /\ cfg.draftLayers => part = target

(* None of the position and capacity checks the caches, drafters and       *)
(* verifiers make ever fails, up to the last position of the context.      *)
NoInternalError == pc # "error"

(* Every verification accepts at least one candidate: a speculative pass   *)
(* over the model's weights never yields less than a canonical step.       *)
PassesProgress == pc \in {"emit", "correct", "extend"} => accepted >= 1

(* The dynamic width grows only after a fully accepted window.             *)
GrowsAfterFullWindow ==
  [][pc # "prefill" /\ dynWidth' > dynWidth => accepted' = window]_vars

(* Every schedule implements the greedy run: each repetition emits the     *)
(* greedy path, token after token, to the limit or the end-of-sequence     *)
(* token, and all repetitions come to their end.                           *)
Greedy == INSTANCE GreedyOutput
ImplementsGreedy == Greedy!Spec

(* README.md:141-150 runs the plain lookahead schedule, with no drafter    *)
(* chosen, as the Jacobi control: it should not end in an error.           *)
JacobiControlRuns == IsJacobi(cfg) => pc # "error"
=============================================================================
