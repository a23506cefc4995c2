----------------------------- MODULE LayerStack -----------------------------
(***************************************************************************)
(* What decoding through the hybrid stack promises: every layer absorbs    *)
(* the tokens of a call in depth order, each exactly once, one after the   *)
(* other.  A call may fail part of the way; the state is then abandoned    *)
(* until it is reset.  This is the staged-off loop of                      *)
(* Qwen35Runtime::decode_hidden in src/src/qwen35_runtime.rs.              *)
(***************************************************************************)
EXTENDS Naturals

CONSTANTS
  N,         \* number of layers
  MaxTokens, \* capacity of the layer states
  Batch      \* tokens of a candidate window

VARIABLES
  absorbed,  \* absorbed[l]: tokens layer l has taken since the last reset
  phase,     \* "idle", "busy", "failed"
  at,        \* the layer to run next
  size       \* tokens of the current call; 1 between calls

vars == <<absorbed, phase, at, size>>

Layer == 0..(N - 1)

Init ==
  /\ absorbed = [l \in Layer |-> 0]
  /\ phase = "idle"
  /\ at = 0
  /\ size = 1

Begin ==
  /\ phase = "idle"
  /\ size' \in {1, Batch}
  /\ \A l \in Layer : absorbed[l] + size' <= MaxTokens
  /\ phase' = "busy"
  /\ at' = 0
  /\ UNCHANGED absorbed

Absorb == absorbed' = [absorbed EXCEPT ![at] = @ + size]

Execute ==
  /\ phase = "busy" /\ at < N
  /\ Absorb
  /\ at' = at + 1
  /\ UNCHANGED <<phase, size>>

Return ==
  /\ phase = "busy" /\ at = N
  /\ phase' = "idle"
  /\ at' = 0
  /\ size' = 1
  /\ UNCHANGED absorbed

(* A block that fails may or may not have updated its own layer's state.   *)
Fail ==
  /\ phase = "busy"
  /\ phase' = "failed"
  /\ UNCHANGED absorbed \/ (at < N /\ Absorb)
  /\ at' = 0
  /\ size' = 1

Reset ==
  /\ phase \in {"idle", "failed"}
  /\ phase' = "idle"
  /\ absorbed' = [l \in Layer |-> 0]
  /\ UNCHANGED <<at, size>>

Progress == Execute \/ Return \/ Fail
Next == Begin \/ Progress \/ Reset

Spec == Init /\ [][Next]_vars /\ WF_vars(Progress)
=============================================================================
