---------------------------- MODULE GreedyOutput ----------------------------
(***************************************************************************)
(* What a decoding run promises, whatever schedule produces it: the tokens *)
(* of the target model's own greedy path, one after the other, up to the   *)
(* token limit or the end-of-sequence token, the same in every repetition. *)
(* This is decode_greedy of src/src/runtime.rs, which the speculative      *)
(* schedules are a faster replacement for.                                 *)
(***************************************************************************)
EXTENDS Naturals, Sequences

CONSTANTS
  Paths,      \* the greedy paths a model may have: prompt, then continuation
  Eos,        \* the end-of-sequence token
  PromptLen,  \* tokens of the prompt
  MaxNew,     \* max_new_tokens
  Runs        \* warm-up runs and measured repetitions together

VARIABLES
  path,       \* the greedy path of this model on this prompt
  generated,  \* the output of the current run so far
  outputs     \* the outputs of the finished runs

vars == <<path, generated, outputs>>

Stopped ==
  \/ Len(generated) = MaxNew
  \/ generated # <<>> /\ generated[Len(generated)] = Eos

Init ==
  /\ path \in Paths
  /\ generated = <<>>
  /\ outputs = <<>>

Emit ==
  /\ Len(outputs) < Runs
  /\ ~Stopped
  /\ generated' = Append(generated, path[PromptLen + Len(generated) + 1])
  /\ UNCHANGED <<path, outputs>>

FinishRun ==
  /\ Stopped
  /\ Len(outputs) < Runs
  /\ outputs' = Append(outputs, generated)
  /\ generated' = <<>>
  /\ UNCHANGED path

Next == Emit \/ FinishRun

Safety == Init /\ [][Next]_vars

Spec == Safety /\ WF_vars(Next)
=============================================================================
