---------------------------- MODULE VerifiedLog -----------------------------
(***************************************************************************)
(* What a target model promises the schedules that drive it: its committed *)
(* tokens are a log that grows by one given token, or by a window whose    *)
(* tokens after the first are the model's own greedy continuation, and     *)
(* that is cut back to a prefix.  Whatever fails leaves the log alone.     *)
(***************************************************************************)
EXTENDS Naturals, Sequences

CONSTANTS Token, MaxContext

VARIABLES
  greedy,  \* greedy[s]: the token the model puts after s
  tokens   \* the committed tokens, oldest first

vars == <<greedy, tokens>>

Prefixes == UNION {[1..n -> Token] : n \in 1..MaxContext}

Init == /\ greedy \in [Prefixes -> Token]
        /\ tokens = <<>>

(* The caller answers for the first token, the model for the others.       *)
Extend(s) ==
  /\ Len(tokens) + Len(s) <= MaxContext
  /\ \A i \in 2..Len(s) : s[i] = greedy[tokens \o SubSeq(s, 1, i - 1)]
  /\ tokens' = tokens \o s
  /\ UNCHANGED greedy

Truncate(n) == /\ tokens' = SubSeq(tokens, 1, n)
               /\ UNCHANGED greedy

Next == \/ \E s \in Prefixes : Extend(s)
        \/ \E n \in 0..Len(tokens) : Truncate(n)

Spec == Init /\ [][Next]_vars
=============================================================================
