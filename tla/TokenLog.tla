------------------------------ MODULE TokenLog ------------------------------
(***************************************************************************)
(* What a set of KV caches promises its callers: every cache is a bounded  *)
(* sequence of token entries.  An entry is a function from head to row.    *)
(* An operation either takes effect as a whole or fails and leaves every   *)
(* cache as it was.                                                        *)
(***************************************************************************)
EXTENDS Naturals, Sequences

CONSTANTS
  Caches,    \* the caches alive in the runtime
  Heads,     \* Heads[c]: number of key/value heads of cache c
  Capacity,  \* Capacity[c]: tokens cache c was allocated for
  Row,       \* the values one head can store for one token
  MaxAppend  \* bound on the entries one call adds

VARIABLES
  log,       \* log[c]: the entries cache c holds, oldest first
  last       \* the last call: operation, cache, argument and outcome

vars == <<log, last>>

Entry(c) == [0..(Heads[c] - 1) -> Row]

Init == /\ log = [c \in Caches |-> <<>>]
        /\ last = <<"new">>

(* Entries are added at the end, all of them or none.                      *)
Extend(c, entries) ==
  LET fits == Len(log[c]) + Len(entries) <= Capacity[c] IN
  /\ last' = <<"append", c, entries, fits>>
  /\ log' = IF fits THEN [log EXCEPT ![c] = @ \o entries] ELSE log

Truncate(c, n) ==
  LET valid == n <= Len(log[c]) IN
  /\ last' = <<"truncate", c, n, valid>>
  /\ log' = IF valid THEN [log EXCEPT ![c] = SubSeq(@, 1, n)] ELSE log

(* The destination becomes equal to the source.                            *)
Copy(d, s) ==
  LET fits == Heads[d] = Heads[s] /\ Len(log[s]) <= Capacity[d] IN
  /\ last' = <<"copy", d, s, fits>>
  /\ log' = IF fits THEN [log EXCEPT ![d] = log[s]] ELSE log

Next ==
  \E c \in Caches :
    \/ \E n \in 0..MaxAppend : \E entries \in [1..n -> Entry(c)] :
         Extend(c, entries)
    \/ \E n \in 0..(Capacity[c] + 1) : Truncate(c, n)
    \/ \E s \in Caches \ {c} : Copy(c, s)

Spec == Init /\ [][Next]_vars
=============================================================================
