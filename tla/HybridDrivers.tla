--------------------------- MODULE HybridDrivers ---------------------------
(***************************************************************************)
(* The programs that drive the hybrid runtime: the canonical generation    *)
(* (run_gguf_resident in src/src/runtime.rs) and the probes that speculate *)
(* over it or compare it with itself (src/src/bin/si-qwen35-*-probe.rs).   *)
(* Each is a fixed sequence of calls of HybridState, written here as a     *)
(* program over its actions; the program "free" makes any call at any      *)
(* time.  A vector of logits is known by the hidden vector it is of, and   *)
(* its argmax is chosen when it is first looked at, once and for all.      *)
(***************************************************************************)
EXTENDS HybridState, FiniteSetsExt

CONSTANTS
  Prompts,          \* prompts explored
  Width,            \* --batch: candidates of a window
  Rounds,           \* iterations of the Jacobi probe, runs of a generation
  NewTokens,        \* max_tokens of a generation
  Eos,              \* the token that ends a generation
  DraftVocabulary,  \* tokens an external drafter knows
  PrefixLayers      \* --layers of the prefix probe

ASSUME HybridDriversAssumption ==
  /\ Prompts \subseteq Seq(Token) \ {<<>>}
  /\ Width \in 2..8
  /\ Rounds \in Nat \ {0}
  /\ NewTokens \in Nat \ {0}
  /\ DraftVocabulary \subseteq Token
  /\ PrefixLayers \in Layer

VARIABLES
  program,     \* the program that runs
  prompt,      \* its prompt
  stage,       \* the call it makes next
  greedy,      \* argmax of the logits of every vector looked at so far
  logits,      \* the vector whose logits the program holds
  candidates,  \* the window
  round,       \* iterations or runs begun
  best,        \* best_candidates and how many of them were accepted
  output,      \* tokens generated in the current run
  outputs      \* what the finished runs, or the two sides compared, gave

driver == <<program, prompt, stage, greedy, logits, candidates, round, best, output, outputs>>
allvars == <<vars, driver>>

Speculators == {"speculate", "external", "extrapolate", "jacobi"}
Programs == Speculators \union {"free", "generate", "batch", "prefix"}
All == FirstLayers(Depth)

(* run_gguf_resident refuses a prompt and output longer than the context;  *)
(* the comparing probes feed a single token.                               *)
Accepts(p, tokens) ==
  /\ p = "free" => tokens = CHOOSE t \in Prompts : TRUE
  /\ p = "generate" => Len(tokens) + NewTokens <= Capacity
  /\ p \in {"batch", "prefix"} => Len(tokens) = 1
  /\ p = "external" => \A i \in DOMAIN tokens : tokens[i] \in DraftVocabulary

DriverInit ==
  /\ Init
  /\ program \in Programs /\ prompt \in Prompts
  /\ Accepts(program, prompt)
  /\ stage = "prefill"
  /\ greedy = <<>> /\ logits = None
  /\ candidates = <<>> /\ round = 1
  /\ best = [accepted |-> 0, candidates |-> <<>>]
  /\ output = <<>> /\ outputs = <<>>

-----------------------------------------------------------------------------
(* Logits are computed of the vectors xs.                                  *)
Consult(xs) ==
  \E f \in [xs \ DOMAIN greedy -> Token] :
    greedy' = [x \in xs \union DOMAIN greedy |-> IF x \in DOMAIN greedy THEN greedy[x] ELSE f[x]]

At(s) == stage = s /\ pc = "idle"
Go(s) == stage' = s

Prefill ==
  /\ At("prefill") /\ program # "free"
  /\ Len(log) < Len(prompt)
  /\ Begin(All, <<prompt[Len(log) + 1]>>, Len(log))
  /\ UNCHANGED driver

(* The logits of the last token of the prompt, and where they lead.        *)
Logits ==
  /\ At("prefill") /\ program # "free"
  /\ log = prompt
  /\ Consult({answer.out[1]})
  /\ logits' = answer.out[1]
  /\ Go(CASE program \in Speculators \union {"batch"} -> "draft"
          [] program = "generate" -> "emit"
          [] program = "prefix" -> "compare")
  /\ UNCHANGED <<vars, program, prompt, candidates, round, best, output, outputs>>

First == greedy[logits]

(* Candidates: all begin with the target's own choice.  A drafter goes on  *)
(* as it likes, the Jacobi probe with the same token, and the batch probe  *)
(* with the token of its prompt.  An external drafter that does not know   *)
(* the target's choice begins with another token: the probe gives up.      *)
Window ==
  {w \in [1..Width -> Token] :
     CASE program = "batch" -> \A i \in 1..Width : w[i] = prompt[1]
       [] program = "jacobi" -> \A i \in 1..Width : w[i] = First
       [] program = "external" -> \A i \in 1..Width : w[i] \in DraftVocabulary
       [] OTHER -> w[1] = First}

Draft ==
  /\ At("draft")
  /\ IF program = "jacobi" /\ round > 1
     THEN candidates' = [candidates EXCEPT ![1] = First]
     ELSE candidates' \in Window
  /\ Go(IF candidates'[1] = First \/ program = "batch" THEN "snapshot" ELSE "stopped")
  /\ UNCHANGED <<vars, program, prompt, greedy, logits, round, best, output, outputs>>

Save ==
  /\ stage = "snapshot"
  /\ Snapshot
  /\ Go("window")
  /\ UNCHANGED <<program, prompt, greedy, logits, candidates, round, best, output, outputs>>

Verify ==
  /\ At("window")
  /\ Begin(All, candidates, Len(prompt))
  /\ Go("assess")
  /\ UNCHANGED <<program, prompt, greedy, logits, candidates, round, best, output, outputs>>

(* A fault for comparison: a candidate is held against the answer to       *)
(* itself, not to the one before it.                                       *)
AcceptedShifted(window, choice) ==
  Max({n \in 0..Len(window) : \A i \in 1..n : window[i] = choice[i]})

(* How many candidates, from the first, are what was to be expected after  *)
(* those before; choice gives the argmax of each of the window's answers.  *)
AcceptedPrefix(window, choice) ==
  LET expected == [i \in DOMAIN window |-> IF i = 1 THEN First ELSE choice[i - 1]]
  IN  Max({n \in 0..Len(window) : \A i \in 1..n : window[i] = expected[i]})

(* A fault for comparison: the first answer is taken for the first token.  *)
NextUnshifted(choice) == choice

(* The next iterate, behind the target's own choice.                       *)
NextIterate(choice) == <<First>> \o SubSeq(choice, 1, Width - 1)

Assess ==
  /\ At("assess") /\ program \in Speculators
  /\ Consult({answer.out[c] : c \in 1..Width})
  /\ LET choice == [c \in 1..Width |-> greedy'[answer.out[c]]]
         n == AcceptedPrefix(candidates, choice)
     IN  /\ best' = IF n > best.accepted \/ program # "jacobi"
                    THEN [accepted |-> n, candidates |-> candidates] ELSE best
         /\ candidates' = IF program = "jacobi" THEN NextIterate(choice) ELSE candidates
  /\ Go("restore")
  /\ UNCHANGED <<vars, program, prompt, logits, round, output, outputs>>

Restore ==
  /\ stage = "restore"
  /\ RestoreStates
  /\ IF program = "jacobi" /\ round < Rounds
     THEN Go("draft") /\ round' = round + 1
     ELSE Go("done") /\ UNCHANGED round
  /\ UNCHANGED <<program, prompt, greedy, logits, candidates, best, output, outputs>>

-----------------------------------------------------------------------------
(* The canonical generation.                                               *)
FinishRun == outputs' = Append(outputs, output')

(* A fault for comparison: the position counts the token just chosen.      *)
PositionAfter == Len(prompt) + Len(output) + 1

PositionOfNext == Len(prompt) + Len(output)

Emit ==
  /\ At("emit")
  /\ output' = Append(output, First)
  /\ IF First = Eos
     THEN FinishRun /\ Go("finish") /\ UNCHANGED vars
     ELSE /\ Begin(All, <<First>>, PositionOfNext)
          /\ Go("decoded") /\ UNCHANGED outputs
  /\ UNCHANGED <<program, prompt, greedy, logits, candidates, round, best>>

(* The last token asked for is decoded as well before the loop ends.       *)
Decoded ==
  /\ At("decoded")
  /\ Consult({answer.out[1]})
  /\ logits' = answer.out[1]
  /\ UNCHANGED output
  /\ IF Len(output) < NewTokens
     THEN Go("emit") /\ UNCHANGED outputs
     ELSE Go("finish") /\ FinishRun
  /\ UNCHANGED <<vars, program, prompt, candidates, round, best>>

NextRun ==
  /\ At("finish") /\ round < Rounds
  /\ Reset
  /\ output' = <<>> /\ round' = round + 1
  /\ Go("prefill")
  /\ UNCHANGED <<program, prompt, greedy, logits, candidates, best, outputs>>

-----------------------------------------------------------------------------
(* The batch probe: the window's choices, then those of a new runtime that *)
(* decodes the same tokens one by one.                                     *)
BatchAnswers ==
  /\ At("assess") /\ program = "batch"
  /\ Consult({answer.out[c] : c \in 1..Width})
  /\ outputs' = <<[c \in 1..Width |-> greedy'[answer.out[c]]]>>
  /\ Go("renew")
  /\ UNCHANGED <<vars, program, prompt, logits, candidates, round, best, output>>

NewRuntime ==
  /\ stage = "renew"
  /\ Reset
  /\ Go("separate")
  /\ UNCHANGED <<program, prompt, greedy, logits, candidates, round, best, output, outputs>>

Separate ==
  /\ At("separate") /\ Len(log) < Len(prompt \o candidates)
  /\ Begin(All, <<(prompt \o candidates)[Len(log) + 1]>>, Len(log))
  /\ Go("separated")
  /\ UNCHANGED <<program, prompt, greedy, logits, candidates, round, best, output, outputs>>

Separated ==
  /\ At("separated")
  /\ Consult({answer.out[1]})
  /\ output' = IF Len(log) > Len(prompt) THEN Append(output, greedy'[answer.out[1]]) ELSE output
  /\ IF log = prompt \o candidates THEN FinishRun /\ Go("done")
     ELSE Go("separate") /\ UNCHANGED outputs
  /\ UNCHANGED <<vars, program, prompt, logits, candidates, round, best>>

(* The prefix probe: the whole stack, then its first layers alone.         *)
Compare ==
  /\ stage = "compare"
  /\ Reset
  /\ Go("prefix")
  /\ UNCHANGED <<program, prompt, greedy, logits, candidates, round, best, output, outputs>>

Prefix ==
  /\ At("prefix")
  /\ Begin(FirstLayers(PrefixLayers), prompt, 0)
  /\ Go("compared")
  /\ UNCHANGED <<program, prompt, greedy, logits, candidates, round, best, output, outputs>>

Compared ==
  /\ stage = "compared"
  /\ Reset
  /\ Go("done")
  /\ UNCHANGED <<program, prompt, greedy, logits, candidates, round, best, output, outputs>>

-----------------------------------------------------------------------------
(* An error ends the program.                                              *)
Stop ==
  /\ pc = "failed" /\ program # "free" /\ stage # "stopped"
  /\ Go("stopped")
  /\ UNCHANGED <<vars, program, prompt, greedy, logits, candidates, round, best, output, outputs>>

Ended ==
  /\ stage \in {"done", "stopped"} \/ (stage = "finish" /\ round = Rounds)
  /\ UNCHANGED allvars

Free == program = "free" /\ Next /\ UNCHANGED driver
Inside == program # "free" /\ Advance /\ UNCHANGED driver

DriverNext ==
  \/ Free \/ Inside
  \/ Prefill \/ Logits \/ Draft \/ Save \/ Verify \/ Assess \/ Restore
  \/ Emit \/ Decoded \/ NextRun
  \/ BatchAnswers \/ NewRuntime \/ Separate \/ Separated
  \/ Compare \/ Prefix \/ Compared
  \/ Stop \/ Ended

DriverSpec == DriverInit /\ [][DriverNext]_allvars

-----------------------------------------------------------------------------
(* What the model chooses after these tokens, decoded one by one.          *)
Chosen(tokens, t) ==
  LET x == Sequential(tokens)[Depth].x
  IN  x \in DOMAIN greedy /\ greedy[x] = t

Follows(before, tokens) ==
  \A i \in DOMAIN tokens : Chosen(before \o SubSeq(tokens, 1, i - 1), tokens[i])

(* What a speculating program reports as accepted is what the model would  *)
(* have generated without it, token by token, and it accepts all of it:    *)
(* the first candidate refused is not the model's choice.                  *)
AcceptedGreedy ==
  stage \in {"restore", "done"} /\ program \in Speculators =>
    LET accepted == SubSeq(best.candidates, 1, best.accepted)
    IN  /\ Follows(prompt, accepted)
        /\ best.accepted < Width =>
             ~Chosen(prompt \o accepted, best.candidates[best.accepted + 1])

(* Every iteration of the Jacobi loop settles one more token of the        *)
(* window, whatever the others were guessed to be.                         *)
JacobiSettles ==
  program = "jacobi" /\ stage = "restore" =>
    best.accepted >= Min({round, Width})

(* Runs of the same prompt give the same tokens, those of the model; a     *)
(* window chooses as one token after the other does on a new runtime.      *)
(* These are repetition_outputs_match and ids_match of the reports.        *)
RunsAgree ==
  /\ \A i, j \in DOMAIN outputs : outputs[i] = outputs[j]
  /\ program = "generate" => \A i \in DOMAIN outputs : Follows(prompt, outputs[i])
=============================================================================
