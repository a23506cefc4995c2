-------------------------- MODULE SpeculationProofs --------------------------
(***************************************************************************)
(* What is proved of the decoding schedules for every vocabulary, prompt,  *)
(* output length, width and greedy path.                                   *)
(***************************************************************************)
EXTENDS Speculation, TLAPS, WellFoundedInduction, SequenceTheorems

-----------------------------------------------------------------------------
(* The first n tokens of c are those of the path p.                        *)
Follows(c, n, p) ==
  /\ c \in Seq(Token)
  /\ n <= Len(c)
  /\ \A i \in 1..n : c[i] = p[i]

(* c holds the first n tokens of the path p and nothing else.              *)
Holds(c, n, p) == Follows(c, n, p) /\ Len(c) = n

(* The output g is right so far.                                           *)
Right(g, p) ==
  \A i \in 1..Len(g) : g[i] = p[PromptLen + i] /\ (g[i] = Eos => i = Len(g))

(* It has not come to its end.                                             *)
Open(g) == \A i \in 1..Len(g) : g[i] # Eos

(* It has come to its end.                                                 *)
Finished(g) == Len(g) = MaxNew \/ (g # <<>> /\ g[Len(g)] = Eos)

(* What is known at the head of the loop.                                  *)
AtHead ==
  /\ Right(generated, path) /\ Open(generated)
  /\ position = PromptLen + Len(generated)
  /\ Holds(target, position, path)
  /\ pred = path[position + 1]
  /\ cfg.lookahead => dynWidth >= 2
  /\ accepted = 0
  /\ Speculating => /\ cfg.draftModel => Holds(ext, position, path)
                    /\ cfg.draftLayers => Holds(part, position, path)

(* Behind the first n tokens c holds the first k candidates.               *)
Drafted(c, n, k, s) ==
  /\ Len(c) = n + k
  /\ \A j \in 1..k : c[n + j] = s[j]

(* What is known while the candidates wait for their verification: each    *)
(* drafter holds the path and then the candidates it has forwarded.        *)
Proposed ==
  /\ Right(generated, path) /\ Open(generated)
  /\ Len(generated) < MaxNew
  /\ cfg.lookahead
  /\ position = PromptLen + Len(generated)
  /\ Holds(target, position, path)
  /\ pred = path[position + 1]
  /\ accepted = 0
  /\ dynWidth >= 2 /\ window >= 2
  /\ position + window <= MaxContext /\ window <= dynWidth
  /\ Len(cands) >= 1 /\ Len(cands) <= window
  /\ cands[1] = pred
  /\ cfg.draftModel => /\ Len(cands) = window
                       /\ Follows(ext, position, path)
                       /\ Drafted(ext, position, window, cands)
  /\ cfg.draftLayers => /\ Follows(part, position, path)
                        /\ Drafted(part, position, AtMost(Len(cands), window - 1), cands)

(* What is known once the target has accepted a part of the candidates.    *)
Verified ==
  /\ Right(generated, path) /\ Open(generated)
  /\ Len(generated) < MaxNew
  /\ cfg.lookahead
  /\ position + emitted = PromptLen + Len(generated)
  /\ dynWidth >= 2 /\ window >= 2
  /\ position + window <= MaxContext
  /\ accepted >= 1 /\ accepted <= Len(cands) /\ Len(cands) <= window
  /\ Holds(target, position + accepted, path)
  /\ nextTok = path[position + accepted + 1]
  /\ \A j \in 1..accepted : cands[j] = path[position + j]
  /\ cfg.draftModel => /\ Len(cands) = window
                       /\ Follows(ext, position + accepted, path)
                       /\ Len(ext) = position + window
  /\ cfg.draftLayers => Holds(part, position + AtMost(accepted, window - 1), path)
  /\ pc = "emit" => emitted < accepted
  /\ pc # "emit" => emitted = accepted
  /\ pc = "correct" => accepted < window
  /\ pc = "extend" => accepted = window

IInv ==
  /\ TypeOK
  /\ Right(generated, path)
  /\ pc # "end" => Len(outputs) < Runs
  /\ pc = "prefill" => generated = <<>>
  /\ pc = "loop" => AtHead
  /\ pc = "verify" => Proposed
  /\ pc \in {"emit", "correct", "extend"} => Verified
  /\ pc = "done" => Finished(generated)

-----------------------------------------------------------------------------
(* A set of natural numbers that is not empty has a least element: the     *)
(* form of induction the lemmas about accepted prefixes use.               *)
LEMMA LeastElement ==
  ASSUME NEW T \in SUBSET Nat, T # {}
  PROVE  \E m \in T : \A n \in T : m <= n
<1>1. PICK m \in T : \A n \in T : <<n, m>> \notin OpToRel(<, Nat)
  BY WFMin, NatLessThanWellFounded, Zenon
<1>2. \A n \in T : ~(n < m)
  BY <1>1, Zenon DEF OpToRel
<1> QED BY <1>2

(* The path reaches one token beyond the end of the context.               *)
LEMMA PathType ==
  ASSUME TypeOK
  PROVE  path \in [1..(MaxContext + 1) -> Token]
BY SpeculationAssumption DEF TypeOK

(* After a prefix of its greedy path the target predicts the next token.   *)
LEMMA PredictNext ==
  ASSUME NEW c, NEW n \in Nat, Holds(c, n, path)
  PROVE  Predict(c) = {path[n + 1]}
BY DEF Predict, Holds, Follows

(* Appending the next token of the path.                                   *)
LEMMA HoldsAppend ==
  ASSUME NEW p, NEW c, NEW n \in Nat, Holds(c, n, p), NEW tok \in Token, tok = p[n + 1]
  PROVE  Holds(Append(c, tok), n + 1, p)
BY DEF Holds, Follows

(* Rewinding to a part of the path.                                        *)
LEMMA HoldsRewound ==
  ASSUME NEW p, NEW c, NEW n \in Nat, Follows(c, n, p)
  PROVE  Holds(Rewound(c, n), n, p)
BY DEF Holds, Follows, Rewound

(* Appending candidates that lie on the path.                              *)
LEMMA HoldsExtend ==
  ASSUME NEW p, NEW c, NEW n \in Nat, Holds(c, n, p),
         NEW s \in Seq(Token), NEW k \in 0..Len(s),
         \A j \in 1..k : s[j] = p[n + j]
  PROVE  Holds(c \o SubSeq(s, 1, k), n + k, p)
<1> DEFINE q == SubSeq(s, 1, k)
           r == c \o q
<1>1. /\ c \in Seq(Token) /\ Len(c) = n
      /\ \A i \in 1..n : c[i] = p[i]
  BY DEF Holds, Follows
<1>2. q \in Seq(Token) /\ Len(q) = k /\ \A j \in 1..k : q[j] = s[j]
  OBVIOUS
<1> HIDE DEF q
<1>3. r \in Seq(Token) /\ Len(r) = n + k
  <2>1. c \in Seq(Token) /\ q \in Seq(Token) /\ Len(c) = n /\ Len(q) = k
    BY <1>1, <1>2
  <2>2. r \in Seq(Token) /\ Len(r) = Len(c) + Len(q)
    BY <2>1, ConcatProperties, Zenon
  <2>3. Len(c) + Len(q) = n + k
    BY <2>1
  <2> QED BY <2>2, <2>3, Zenon
<1>4. ASSUME NEW i \in 1..(n + k) PROVE r[i] = p[i]
  <2>1. CASE i <= n
    BY <1>1, <1>2, <2>1
  <2>2. CASE i > n
    <3>1. i - n \in 1..k /\ n + (i - n) = i
      BY <2>2
    <3>2. r[i] = q[i - n]
      BY <1>1, <1>2, <2>2, <3>1
    <3>3. q[i - n] = s[i - n] /\ s[i - n] = p[n + (i - n)]
      BY <1>2, <3>1
    <3>4. p[n + (i - n)] = p[i]
      BY <3>1
    <3> QED BY <3>2, <3>3, <3>4, Zenon
  <2>3. i <= n \/ i > n
    OBVIOUS
  <2> QED BY <2>1, <2>2, <2>3, Zenon
<1> HIDE DEF r
<1>5. Holds(r, n + k, p)
  BY <1>3, <1>4 DEF Holds, Follows
<1> QED BY <1>5 DEF q, r

(* A right token keeps the output right.                                   *)
LEMMA OutputGrows ==
  ASSUME NEW p, NEW g \in Seq(Token), Right(g, p), Open(g),
         NEW tok \in Token, tok = p[PromptLen + Len(g) + 1]
  PROVE  /\ Append(g, tok) \in Seq(Token)
         /\ Len(Append(g, tok)) = Len(g) + 1
         /\ Append(g, tok)[Len(Append(g, tok))] = tok
         /\ Right(Append(g, tok), p)
         /\ tok # Eos => Open(Append(g, tok))
BY SpeculationAssumption DEF Right, Open
(* The candidates the target accepts lie on its greedy path, and so does   *)
(* its own token behind them.                                              *)
LEMMA AcceptedFollow ==
  ASSUME NEW k \in 0..Len(cands), NEW next, Assess(k, next),
         cands \in Seq(Token), Len(cands) >= 1, cands[1] = pred,
         position \in Nat, Holds(target, position, path),
         pred = path[position + 1]
  PROVE  /\ k >= 1
         /\ \A j \in 1..k : cands[j] = path[position + j]
         /\ next = path[position + k + 1]
<1>1. /\ k >= 1
      /\ \A j \in 1..(k - 1) : cands[j + 1] \in Predict(target \o SubSeq(cands, 1, j))
      /\ next \in Predict(target \o SubSeq(cands, 1, k))
  BY DEF Assess
<1> DEFINE Wrong == {j \in 1..k : cands[j] # path[position + j]}
<1>2. Wrong = {}
  <2>1. SUFFICES ASSUME Wrong # {} PROVE FALSE
    OBVIOUS
  <2>a. /\ Wrong \in SUBSET Nat
        /\ \A j : j \in Wrong <=> j \in 1..k /\ cands[j] # path[position + j]
    OBVIOUS
  <2> HIDE DEF Wrong
  <2>2. PICK m \in Wrong : \A n \in Wrong : m <= n
    BY <2>1, <2>a, LeastElement
  <2>3. m \in 1..k /\ cands[m] # path[position + m]
    BY <2>a
  <2>4. m # 1
    BY <2>3
  <2>5. m - 1 \in 1..(k - 1) /\ m - 1 \in 0..Len(cands)
    BY <2>3, <2>4
  <2>6. \A j \in 1..(m - 1) : cands[j] = path[position + j]
    <3>1. SUFFICES ASSUME NEW j \in 1..(m - 1) PROVE cands[j] = path[position + j]
      OBVIOUS
    <3>2. j \in 1..k /\ ~(m <= j)
      BY <2>3
    <3>3. j \notin Wrong
      BY <2>2, <3>2
    <3> QED BY <2>a, <3>2, <3>3
  <2>7. Holds(target \o SubSeq(cands, 1, m - 1), position + (m - 1), path)
    BY <2>5, <2>6, HoldsExtend
  <2>8. Predict(target \o SubSeq(cands, 1, m - 1)) = {path[position + (m - 1) + 1]}
    BY <2>5, <2>7, PredictNext
  <2>9. cands[(m - 1) + 1] \in Predict(target \o SubSeq(cands, 1, m - 1))
    BY <1>1, <2>5
  <2>10. (m - 1) + 1 = m /\ position + (m - 1) + 1 = position + m
    BY <2>3
  <2> QED BY <2>3, <2>8, <2>9, <2>10
<1>3. \A j \in 1..k : cands[j] = path[position + j]
  BY <1>2
<1>4. Holds(target \o SubSeq(cands, 1, k), position + k, path)
  BY <1>3, HoldsExtend
<1>5. Predict(target \o SubSeq(cands, 1, k)) = {path[position + k + 1]}
  BY <1>4, PredictNext
<1> QED BY <1>1, <1>3, <1>5

(* A canonical step keeps to the path.  It never fails: the context has    *)
(* room for the prompt and the whole output.                               *)
LEMMA CanonicalStep ==
  ASSUME IInv, Looping, NEW f \in BOOLEAN, Canonical(f)
  PROVE  /\ pc' \in {"loop", "done"}
         /\ generated' = Append(generated, pred)
         /\ generated' \in Seq(Token) /\ Len(generated') <= MaxNew
         /\ Right(generated', path)
         /\ target' \in Seq(Token) /\ Len(target') <= MaxContext
         /\ pred' \in Token
         /\ position' \in 0..MaxContext
         /\ pc' = "done" => Finished(generated')
         /\ pc' = "loop" => /\ Open(generated')
                            /\ position' = position + 1
                            /\ position' = PromptLen + Len(generated')
                            /\ Holds(target', position', path)
                            /\ pred' = path[position' + 1]
<1> DEFINE out == Append(generated, pred)
<1>1. /\ pc = "loop" /\ Len(generated) # MaxNew /\ AtHead /\ TypeOK
  BY DEF Looping, IInv, Full
<1>2. /\ generated \in Seq(Token) /\ Len(generated) <= MaxNew
      /\ pred \in Token /\ target \in Seq(Token) /\ Len(target) <= MaxContext
      /\ position \in 0..MaxContext
  BY <1>1 DEF TypeOK
<1>3. /\ Right(generated, path) /\ Open(generated)
      /\ position = PromptLen + Len(generated)
      /\ Holds(target, position, path)
      /\ pred = path[position + 1]
  BY <1>1 DEF AtHead
<1>4. PromptLen \in Nat /\ MaxNew \in Nat /\ MaxContext \in Nat
      /\ PromptLen + MaxNew <= MaxContext
  BY SpeculationAssumption
<1>5. Len(generated) \in Nat /\ Len(generated) < MaxNew /\ position + 1 <= MaxContext
  BY <1>1, <1>2, <1>3, <1>4
<1>6. pred = path[PromptLen + Len(generated) + 1]
  BY <1>3
<1>7. /\ out \in Seq(Token) /\ Len(out) = Len(generated) + 1
      /\ Right(out, path) /\ (pred # Eos => Open(out)) /\ out[Len(out)] = pred
  BY <1>2, <1>3, <1>6, OutputGrows
<1>8. Fits(target, position, 1)
  BY <1>3, <1>5 DEF Fits, Holds
<1> HIDE DEF out
<1>9. CASE pred = Eos \/ (Full(out) /\ ~f)
  <2>1. generated' = out /\ pc' = "done" /\ UNCHANGED <<target, pred, position>>
    BY <1>9 DEF Canonical, out
  <2>2. generated' \in Seq(Token) /\ Len(generated') <= MaxNew /\ Right(generated', path)
    BY <1>4, <1>5, <1>7, <2>1
  <2>3. Finished(generated')
    <3>1. CASE pred = Eos
      BY <1>5, <1>7, <2>1, <3>1 DEF Finished
    <3>2. CASE Full(out)
      BY <2>1, <3>2 DEF Finished, Full
    <3> QED BY <1>9, <3>1, <3>2
  <2> QED BY <1>2, <2>1, <2>2, <2>3 DEF out
<1>10. CASE ~(pred = Eos \/ (Full(out) /\ ~f))
  <2>1. /\ generated' = out /\ pc' = "loop" /\ target' = Append(target, pred)
        /\ pred' \in Predict(target') /\ position' = position + 1
    BY <1>8, <1>10 DEF Canonical, out
  <2>2. PICK c : c = Append(target, pred)
    OBVIOUS
  <2>3. Holds(c, position + 1, path)
    BY <1>2, <1>3, <2>2, HoldsAppend
  <2>4. Predict(c) = {path[position + 1 + 1]}
    BY <1>2, <2>3, PredictNext
  <2>5. c \in Seq(Token) /\ Len(c) = position + 1
    BY <2>3 DEF Holds, Follows
  <2>6. target' = c /\ pred' = path[position + 1 + 1]
    BY <2>1, <2>2, <2>4
  <2>7. path[position + 1 + 1] \in Token
    BY <1>1, <1>2, <1>4, <1>5, PathType
  <2>8. Open(out)
    BY <1>7, <1>10
  <2>9. /\ generated' \in Seq(Token) /\ Len(generated') <= MaxNew
        /\ Right(generated', path) /\ Open(generated')
    BY <1>4, <1>5, <1>7, <2>1, <2>8
  <2>10. target' \in Seq(Token) /\ Len(target') <= MaxContext
    BY <1>4, <1>5, <2>5, <2>6
  <2>11. position' \in 0..MaxContext /\ position' = PromptLen + Len(generated')
    <3>1. Len(generated') = Len(generated) + 1 /\ position' = position + 1
      BY <1>7, <2>1
    <3> QED BY <1>2, <1>3, <1>4, <1>5, <3>1
  <2>12. Holds(target', position', path)
    BY <2>1, <2>3, <2>6
  <2>13. pred' \in Token /\ pred' = path[position' + 1]
    BY <2>1, <2>6, <2>7
  <2> QED BY <2>1, <2>9, <2>10, <2>11, <2>12, <2>13 DEF out
<1> QED BY <1>9, <1>10

-----------------------------------------------------------------------------
(* The options are what from_env lets through.                             *)
LEMMA AcceptedOptions ==
  ASSUME TypeOK
  PROVE  /\ cfg \in Config
         /\ cfg.lookahead => FromEnv(cfg)
         /\ cfg.width \in Nat /\ cfg.depth \in Nat
<1>1. cfg \in Config /\ (cfg.lookahead => FromEnv(cfg))
  BY SpeculationAssumption DEF TypeOK
<1> QED BY <1>1 DEF Config

(* Drafted candidates follow a prefix of the path.                         *)
LEMMA DraftedBehind ==
  ASSUME NEW p, NEW c, NEW n \in Nat, Holds(c, n, p),
         NEW s \in Seq(Token), NEW k \in 0..Len(s)
  PROVE  /\ c \o SubSeq(s, 1, k) \in Seq(Token)
         /\ Len(c \o SubSeq(s, 1, k)) = n + k
         /\ Follows(c \o SubSeq(s, 1, k), n, p)
         /\ Drafted(c \o SubSeq(s, 1, k), n, k, s)
<1>1. PICK q : q = SubSeq(s, 1, k)
  OBVIOUS
<1>2. q \in Seq(Token) /\ Len(q) = k /\ \A j \in 1..k : q[j] = s[j]
  BY <1>1
<1>3. c \in Seq(Token) /\ Len(c) = n /\ \A i \in 1..n : c[i] = p[i]
  BY DEF Holds, Follows
<1>4. PICK r : r = c \o q
  OBVIOUS
<1>5. /\ r \in Seq(Token) /\ Len(r) = n + k
      /\ \A i \in 1..n : r[i] = c[i]
      /\ \A j \in 1..k : r[n + j] = q[j]
  <2>1. r \in Seq(Token) /\ Len(r) = n + k
    <3>1. c \in Seq(Token) /\ q \in Seq(Token) /\ Len(c) = n /\ Len(q) = k
      BY <1>2, <1>3
    <3>2. c \o q \in Seq(Token) /\ Len(c \o q) = Len(c) + Len(q)
      BY <3>1, ConcatProperties, Zenon
    <3>3. Len(c) + Len(q) = n + k
      BY <3>1
    <3> QED BY <1>4, <3>2, <3>3, Zenon
  <2>2. \A i \in 1..n : r[i] = c[i]
    BY <1>2, <1>3, <1>4
  <2>3. ASSUME NEW j \in 1..k PROVE r[n + j] = q[j]
    <3>1. n + j \in 1..(n + k) /\ n + j > n /\ (n + j) - n = j
      OBVIOUS
    <3>2. r[n + j] = q[(n + j) - n]
      BY <1>2, <1>3, <1>4, <3>1
    <3> QED BY <3>1, <3>2
  <2> QED BY <2>1, <2>2, <2>3
<1>6. Follows(r, n, p) /\ Drafted(r, n, k, s)
  BY <1>2, <1>3, <1>5 DEF Follows, Drafted
<1> QED BY <1>1, <1>4, <1>5, <1>6

(* Candidates found on the path extend the prefix a drafter follows.       *)
LEMMA DraftedFollows ==
  ASSUME NEW p, NEW c, NEW n \in Nat, Follows(c, n, p),
         NEW s, NEW m \in Nat, Drafted(c, n, m, s),
         NEW k \in 0..m, \A j \in 1..k : s[j] = p[n + j]
  PROVE  Follows(c, n + k, p)
<1>1. c \in Seq(Token) /\ Len(c) = n + m /\ \A i \in 1..n : c[i] = p[i]
  BY DEF Follows, Drafted
<1>2. ASSUME NEW i \in 1..(n + k), i > n PROVE c[i] = p[i]
  <2>1. i - n \in 1..k /\ i - n \in 1..m /\ n + (i - n) = i
    BY <1>2
  <2>2. c[n + (i - n)] = s[i - n]
    BY <2>1 DEF Drafted
  <2>3. s[i - n] = p[n + (i - n)]
    BY <2>1
  <2> QED BY <2>1, <2>2, <2>3
<1>3. ASSUME NEW i \in 1..(n + k), ~(i > n) PROVE c[i] = p[i]
  BY <1>1, <1>3
<1>4. \A i \in 1..(n + k) : c[i] = p[i]
  BY <1>2, <1>3
<1> QED BY <1>1, <1>4 DEF Follows

(* An error leaves everything as it was.                                   *)
LEMMA FailKeeps ==
  ASSUME IInv, Fail, pc # "end"
  PROVE  IInv'
BY DEF IInv, Fail, TypeOK, Right, caches, pass

(* The canonical step, whichever schedule takes it, provided the drafters  *)
(* that will be asked again keep up with it.                               *)
LEMMA CanonicalKeeps ==
  ASSUME IInv, Looping, NEW f \in BOOLEAN, Canonical(f),
         UNCHANGED <<path, cfg, ext, dynWidth, sidecarOn, pass, outputs>>,
         part' \in Seq(Token), Len(part') <= MaxContext,
         Speculating' => /\ cfg.draftModel => Holds(ext, position', path)
                         /\ cfg.draftLayers => Holds(part', position', path)
  PROVE  IInv'
<1>1. TypeOK /\ AtHead /\ Len(outputs) < Runs
  BY DEF IInv, Looping
<1>2. /\ pc' \in {"loop", "done"}
      /\ generated' \in Seq(Token) /\ Len(generated') <= MaxNew
      /\ Right(generated', path)
      /\ target' \in Seq(Token) /\ Len(target') <= MaxContext
      /\ pred' \in Token /\ position' \in 0..MaxContext
      /\ pc' = "loop" => /\ Open(generated')
                         /\ position' = PromptLen + Len(generated')
                         /\ Holds(target', position', path)
                         /\ pred' = path[position' + 1]
      /\ pc' = "done" => Finished(generated')
  BY CanonicalStep
<1>3. TypeOK'
  BY <1>1, <1>2 DEF TypeOK, pass
<1>4. (Right(generated, path))'
  BY <1>2 DEF Right
<1>5. ASSUME pc' = "loop" PROVE AtHead'
  <2>1. /\ (Right(generated, path))' /\ (Open(generated))'
        /\ (position = PromptLen + Len(generated))'
        /\ (Holds(target, position, path))'
        /\ (pred = path[position + 1])'
    BY <1>2, <1>4, <1>5 DEF Open, Holds, Follows
  <2>2. (cfg.lookahead => dynWidth >= 2)' /\ (accepted = 0)'
    BY <1>1 DEF AtHead, pass
  <2>3. (Speculating => /\ cfg.draftModel => Holds(ext, position, path)
                        /\ cfg.draftLayers => Holds(part, position, path))'
    BY DEF Holds, Follows
  <2> QED BY <2>1, <2>2, <2>3 DEF AtHead
<1>6. (pc = "done" => Finished(generated))'
  BY <1>2 DEF Finished
<1> QED BY <1>1, <1>2, <1>3, <1>4, <1>5, <1>6 DEF IInv

-----------------------------------------------------------------------------
(* Each action keeps the invariant.                                        *)
LEMMA PrefillKeeps ==
  ASSUME IInv, Prefill
  PROVE  IInv'
<1> DEFINE prompt == [i \in 1..PromptLen |-> path[i]]
<1>1. /\ pc = "prefill" /\ pc' = "loop"
      /\ target' = Cleared(target) \o prompt
      /\ part' = IF cfg.draftLayers THEN prompt ELSE <<>>
      /\ ext' = IF cfg.draftModel THEN Cleared(ext) \o prompt ELSE ext
      /\ pred' \in Predict(target')
      /\ generated' = <<>> /\ position' = PromptLen
      /\ dynWidth' = cfg.width /\ sidecarOn' = cfg.sidecar
      /\ EndPass
      /\ UNCHANGED <<path, cfg, outputs>>
  BY DEF Prefill
<1>2. TypeOK /\ Len(outputs) < Runs
  BY <1>1 DEF IInv
<1>3. PromptLen \in Nat /\ MaxContext \in Nat /\ PromptLen <= MaxContext /\ MaxNew \in Nat
  BY SpeculationAssumption
<1>4. \A i \in 1..(PromptLen + 1) : path[i] \in Token
  BY <1>2, <1>3, PathType
<1>5. /\ prompt \in Seq(Token) /\ Len(prompt) = PromptLen
      /\ \A i \in 1..PromptLen : prompt[i] = path[i]
  BY <1>3, <1>4
<1> HIDE DEF prompt
<1>6. Holds(prompt, PromptLen, path)
  BY <1>3, <1>5 DEF Holds, Follows
<1>7. <<>> \o prompt = prompt
  BY <1>5
<1>8. target' = prompt /\ (cfg.draftModel => ext' = prompt) /\ (~cfg.draftModel => ext' = ext)
      /\ (cfg.draftLayers => part' = prompt) /\ (~cfg.draftLayers => part' = <<>>)
  BY <1>1, <1>7 DEF Cleared
<1>9. Predict(prompt) = {path[PromptLen + 1]}
  BY <1>3, <1>6, PredictNext
<1>10. pred' = path[PromptLen + 1] /\ pred' \in Token
  <2>1. PICK c : c = target'
    OBVIOUS
  <2>2. c = prompt
    BY <1>8, <2>1
  <2>3. pred' \in Predict(prompt)
    BY <1>1, <1>8
  <2> QED BY <1>3, <1>4, <1>9, <2>3
<1>11. /\ cfg.width \in Nat /\ cfg.sidecar \in BOOLEAN
       /\ cfg.lookahead => cfg.width >= 2
  BY <1>2, AcceptedOptions DEF Config, FromEnv
<1>12. TypeOK'
  <2>1. target' \in Seq(Token) /\ Len(target') <= MaxContext
    BY <1>3, <1>5, <1>8
  <2>2. part' \in Seq(Token) /\ Len(part') <= MaxContext
    <3>1. part' = prompt \/ part' = <<>>
      BY <1>8
    <3>2. <<>> \in Seq(Token) /\ Len(<<>>) = 0
      OBVIOUS
    <3>3. CASE part' = prompt
      BY <1>3, <1>5, <3>3
    <3>4. CASE part' = <<>>
      BY <1>3, <3>2, <3>4
    <3> QED BY <3>1, <3>3, <3>4
  <2>3. ext' \in Seq(Token) /\ Len(ext') <= MaxContext
    BY <1>2, <1>3, <1>5, <1>8 DEF TypeOK
  <2>4. generated' \in Seq(Token) /\ Len(generated') <= MaxNew
    BY <1>1, <1>3
  <2>5. /\ nextTok' \in Token /\ window' \in Nat /\ cands' \in Seq(Token)
        /\ accepted' \in 0..window' /\ emitted' \in 0..accepted'
    BY <1>1, SpeculationAssumption DEF EndPass
  <2>6. position' \in 0..MaxContext /\ dynWidth' \in Nat /\ sidecarOn' \in BOOLEAN
    BY <1>1, <1>3, <1>11
  <2> QED BY <1>1, <1>2, <1>10, <2>1, <2>2, <2>3, <2>4, <2>5, <2>6 DEF TypeOK
<1>13. (Right(generated, path))' /\ (Open(generated))'
  BY <1>1 DEF Right, Open
<1>14. AtHead'
  <2>1. (position = PromptLen + Len(generated))'
    BY <1>1, <1>3
  <2>2. (Holds(target, position, path))' /\ (pred = path[position + 1])'
    BY <1>1, <1>6, <1>8, <1>10
  <2>3. (cfg.lookahead => dynWidth >= 2)' /\ (accepted = 0)'
    BY <1>1, <1>11 DEF EndPass
  <2>4. (cfg.draftModel => Holds(ext, position, path))'
    BY <1>1, <1>6, <1>8
  <2>5. (cfg.draftLayers => Holds(part, position, path))'
    BY <1>1, <1>6, <1>8
  <2> QED BY <1>13, <2>1, <2>2, <2>3, <2>4, <2>5 DEF AtHead
<1> QED BY <1>1, <1>2, <1>12, <1>13, <1>14 DEF IInv

(* The loop condition fails: the output is complete.                       *)
LEMMA LoopEndsKeeps ==
  ASSUME IInv, LoopEnds
  PROVE  IInv'
BY DEF IInv, LoopEnds, TypeOK, Right, Finished, Full, caches, pass

(* decode_greedy has no drafters to keep up.                               *)
LEMMA GreedyStepKeeps ==
  ASSUME IInv, GreedyStep
  PROVE  IInv'
<1>1. /\ Looping /\ ~cfg.lookahead /\ Canonical(TRUE)
      /\ UNCHANGED <<path, cfg, part, ext, dynWidth, sidecarOn, pass, outputs>>
  BY DEF GreedyStep
<1>2. part' \in Seq(Token) /\ Len(part') <= MaxContext
  BY <1>1 DEF IInv, TypeOK
<1>3. ~Speculating'
  BY <1>1 DEF Speculating
<1> QED BY <1>1, <1>2, <1>3, CanonicalKeeps

(* Once the sidecar has fallen back the drafters are not asked again.      *)
LEMMA FallbackStepKeeps ==
  ASSUME IInv, FallbackStep
  PROVE  IInv'
<1>1. /\ Looping /\ FellBack /\ Canonical(FALSE)
      /\ UNCHANGED <<path, cfg, part, ext, dynWidth, sidecarOn, pass, outputs>>
  BY DEF FallbackStep
<1>2. part' \in Seq(Token) /\ Len(part') <= MaxContext
  BY <1>1 DEF IInv, TypeOK
<1>3. ~Speculating'
  BY <1>1 DEF Speculating, FellBack
<1> QED BY <1>1, <1>2, <1>3, CanonicalKeeps

(* A window that is too narrow stays so: the position only grows.          *)
LEMMA NarrowStepKeeps ==
  ASSUME IInv, NarrowStep
  PROVE  IInv'
<1>1. /\ Looping /\ cfg.lookahead /\ Window < 2 /\ Canonical(TRUE)
      /\ UNCHANGED <<path, cfg, part, ext, dynWidth, sidecarOn, pass, outputs>>
  BY DEF NarrowStep
<1>2. part' \in Seq(Token) /\ Len(part') <= MaxContext
  BY <1>1 DEF IInv, TypeOK
<1>3. /\ dynWidth \in Nat /\ dynWidth >= 2 /\ position \in 0..MaxContext
      /\ MaxContext \in Nat /\ position = PromptLen + Len(generated)
  BY <1>1, SpeculationAssumption DEF Looping, IInv, TypeOK, AtHead
<1>4. MaxContext - position < 2
  BY <1>1, <1>3 DEF Window, AtMost
<1>5. ASSUME Speculating' PROVE FALSE
  <2>1. pc' = "loop" /\ Window' >= 2
    BY <1>5 DEF Speculating, Looping
  <2>2. position' \in 0..MaxContext
    BY <1>1, CanonicalStep
  <2>3. position' = PromptLen + Len(generated') /\ generated' = Append(generated, pred)
    BY <1>1, <2>1, CanonicalStep
  <2>4. Len(generated') = Len(generated) + 1 /\ Len(generated) \in Nat
    BY <2>3 DEF IInv, TypeOK
  <2>5. MaxContext - position' < 2 /\ MaxContext - position' \in Nat
    BY <1>3, <1>4, <2>2, <2>3, <2>4, SpeculationAssumption
  <2>6. Window' = AtMost(dynWidth, MaxContext - position')
    BY <1>1 DEF Window
  <2> QED BY <1>3, <2>1, <2>5, <2>6 DEF AtMost
<1> QED BY <1>1, <1>2, <1>5, CanonicalKeeps

(* The lookup schedules have no drafter.                                   *)
LEMMA LookupMissKeeps ==
  ASSUME IInv, LookupMiss
  PROVE  IInv'
<1>1. /\ Looping /\ cfg.lookahead /\ (cfg.ngram \/ cfg.tree) /\ Canonical(FALSE)
      /\ UNCHANGED <<path, cfg, part, ext, dynWidth, sidecarOn, pass, outputs>>
  BY DEF LookupMiss, Speculating
<1>2. part' \in Seq(Token) /\ Len(part') <= MaxContext /\ TypeOK
  BY <1>1 DEF IInv, TypeOK
<1>3. ~cfg.draftModel /\ ~cfg.draftLayers
  BY <1>1, <1>2, AcceptedOptions DEF FromEnv
<1> QED BY <1>1, <1>2, <1>3, CanonicalKeeps

(* The drafter has forwarded the token the target then takes.              *)
LEMMA MarginRejectKeeps ==
  ASSUME IInv, MarginReject
  PROVE  IInv'
<1>1. Looping /\ Speculating /\ cfg.lookahead /\ cfg.margin
  BY DEF MarginReject, Speculating
<1>2. TypeOK /\ AtHead /\ pc # "end"
  BY <1>1 DEF IInv, Looping
<1>3. cfg.draftLayers /\ ~cfg.draftModel
  BY <1>1, <1>2, AcceptedOptions DEF FromEnv
<1>4. Holds(part, position, path) /\ pred = path[position + 1] /\ pred \in Token
      /\ position \in 0..MaxContext /\ position \in Nat /\ MaxContext \in Nat
  BY <1>1, <1>2, <1>3, SpeculationAssumption DEF AtHead, TypeOK
<1>5. CASE Fits(part, position, 1)
  <2>1. /\ part' = Append(part, pred) /\ Canonical(FALSE)
        /\ UNCHANGED <<path, cfg, ext, dynWidth, sidecarOn, pass, outputs>>
    BY <1>5 DEF MarginReject
  <2>2. Holds(Append(part, pred), position + 1, path)
    BY <1>4, HoldsAppend
  <2>3. part' \in Seq(Token) /\ Len(part') <= MaxContext
    BY <1>4, <1>5, <2>1, <2>2 DEF Holds, Follows, Fits
  <2>4. ASSUME Speculating' PROVE Holds(part', position', path)
    <3>1. pc' = "loop"
      BY <2>4 DEF Speculating, Looping
    <3>2. position' = position + 1
      BY <1>1, <2>1, <3>1 DEF Canonical
    <3> QED BY <2>1, <2>2, <3>2
  <2> QED BY <1>1, <1>3, <2>1, <2>3, <2>4, CanonicalKeeps
<1>6. CASE ~Fits(part, position, 1)
  BY <1>2, <1>6, FailKeeps DEF MarginReject
<1> QED BY <1>5, <1>6

(* A pass proposes n candidates, each drafter having forwarded its share.  *)
LEMMA ProposeKeeps ==
  ASSUME IInv, Speculating, NEW n \in 1..Window, NEW s \in Proposals(n), Propose(s),
         part' \in Seq(Token), Len(part') <= MaxContext,
         ext' \in Seq(Token), Len(ext') <= MaxContext,
         cfg.draftModel => /\ n = Window
                           /\ Follows(ext', position, path)
                           /\ Drafted(ext', position, Window, s),
         cfg.draftLayers => /\ Follows(part', position, path)
                            /\ Drafted(part', position, AtMost(n, Window - 1), s)
  PROVE  IInv'
<1>1. /\ TypeOK /\ AtHead /\ Len(outputs) < Runs /\ cfg.lookahead /\ Window >= 2
      /\ Len(generated) # MaxNew
  BY DEF IInv, Speculating, Looping, Full
<1>2. /\ pc' = "verify" /\ window' = Window /\ cands' = s
      /\ UNCHANGED <<path, cfg, target, pred, generated, position, dynWidth,
                     sidecarOn, accepted, nextTok, emitted, outputs>>
  BY DEF Propose
<1>3. /\ position \in 0..MaxContext /\ MaxContext \in Nat /\ dynWidth \in Nat
      /\ dynWidth >= 2 /\ accepted = 0 /\ MaxNew \in Nat
      /\ generated \in Seq(Token) /\ Len(generated) <= MaxNew
      /\ Holds(target, position, path)
  BY <1>1, SpeculationAssumption DEF TypeOK, AtHead
<1>4. Window \in Nat /\ Window <= dynWidth /\ position + Window <= MaxContext
  BY <1>3 DEF Window, AtMost
<1>5. s \in [1..n -> Token] /\ s[1] = pred
  BY DEF Proposals
<1>6. s \in Seq(Token) /\ Len(s) = n /\ n >= 1 /\ n <= Window
  BY <1>4, <1>5
<1>7. TypeOK'
  <2>1. window' \in Nat /\ accepted' \in 0..window' /\ emitted' \in 0..accepted'
    BY <1>1, <1>2, <1>3, <1>4 DEF TypeOK
  <2> QED BY <1>1, <1>2, <1>6, <2>1 DEF TypeOK
<1>8. (Right(generated, path))' /\ (Open(generated))'
  BY <1>1, <1>2 DEF AtHead, Right, Open
<1>9. Proposed'
  <2>1. (Len(generated) < MaxNew /\ position = PromptLen + Len(generated))'
    BY <1>1, <1>2, <1>3 DEF AtHead
  <2>2. (Holds(target, position, path) /\ pred = path[position + 1])'
    BY <1>1, <1>2, <1>3 DEF AtHead
  <2>3. /\ (accepted = 0)' /\ (cfg.lookahead)'
        /\ (dynWidth >= 2 /\ window >= 2)'
        /\ (position + window <= MaxContext /\ window <= dynWidth)'
    BY <1>1, <1>2, <1>3, <1>4
  <2>4. (Len(cands) >= 1 /\ Len(cands) <= window /\ cands[1] = pred)'
    BY <1>2, <1>5, <1>6
  <2>5. ASSUME cfg.draftModel
        PROVE  (/\ Len(cands) = window
                /\ Follows(ext, position, path)
                /\ Drafted(ext, position, window, cands))'
    BY <1>2, <1>6, <2>5
  <2>6. ASSUME cfg.draftLayers
        PROVE  (/\ Follows(part, position, path)
                /\ Drafted(part, position, AtMost(Len(cands), window - 1), cands))'
    BY <1>2, <1>6, <2>6
  <2> QED BY <1>2, <1>8, <2>1, <2>2, <2>3, <2>4, <2>5, <2>6 DEF Proposed
<1> QED BY <1>1, <1>2, <1>7, <1>8, <1>9 DEF IInv

(* The width of a pass is in range.                                        *)
LEMMA WindowRange ==
  ASSUME IInv, Speculating
  PROVE  /\ TypeOK /\ AtHead /\ cfg.lookahead /\ pc # "end"
         /\ Window \in Nat /\ Window >= 2
         /\ position \in Nat /\ MaxContext \in Nat
         /\ position + Window <= MaxContext
<1>1. TypeOK /\ AtHead /\ cfg.lookahead /\ pc # "end" /\ Window >= 2
  BY DEF IInv, Speculating, Looping
<1>2. position \in 0..MaxContext /\ MaxContext \in Nat /\ dynWidth \in Nat
  BY <1>1, SpeculationAssumption DEF TypeOK
<1>3. Window \in Nat /\ position + Window <= MaxContext
  BY <1>2 DEF Window, AtMost
<1> QED BY <1>1, <1>2, <1>3

(* Candidates are a sequence that starts with the greedy token.            *)
LEMMA ProposalType ==
  ASSUME NEW n \in Nat, NEW s \in Proposals(n)
  PROVE  s \in Seq(Token) /\ Len(s) = n
BY DEF Proposals

(* A lookup drafts from the history, without caches.                       *)
LEMMA ProposeLookupKeeps ==
  ASSUME IInv, ProposeLookup
  PROVE  IInv'
<1>1. Speculating /\ (cfg.ngram \/ cfg.tree) /\ UNCHANGED <<part, ext>>
  BY DEF ProposeLookup
<1>2. PICK n \in 2..Window : \E s \in Proposals(n) : Propose(s)
  BY DEF ProposeLookup
<1>3. PICK s \in Proposals(n) : Propose(s)
  BY <1>2
<1>4. /\ TypeOK /\ cfg.lookahead /\ Window \in Nat
  BY <1>1, WindowRange
<1>5. ~cfg.draftModel /\ ~cfg.draftLayers
  BY <1>1, <1>4, AcceptedOptions DEF FromEnv
<1>6. n \in 1..Window
  BY <1>4
<1>7. /\ part' \in Seq(Token) /\ Len(part') <= MaxContext
      /\ ext' \in Seq(Token) /\ Len(ext') <= MaxContext
  BY <1>1, <1>4 DEF TypeOK
<1> QED BY <1>1, <1>3, <1>5, <1>6, <1>7, ProposeKeeps

(* So does the branch of the lookup tree.                                  *)
LEMMA ProposeTreeKeeps ==
  ASSUME IInv, ProposeTree
  PROVE  IInv'
<1>1. Speculating /\ cfg.tree /\ UNCHANGED <<part, ext>>
  BY DEF ProposeTree
<1> DEFINE n == AtMost(cfg.depth, Window)
<1>2. PICK s \in Proposals(n) : Propose(s)
  BY DEF ProposeTree
<1>3. TypeOK /\ cfg.lookahead /\ Window \in Nat /\ Window >= 2
  BY <1>1, WindowRange
<1>4. ~cfg.draftModel /\ ~cfg.draftLayers /\ cfg.depth >= 2 /\ cfg.depth \in Nat
  BY <1>1, <1>3, AcceptedOptions DEF FromEnv
<1>5. n \in 1..Window
  BY <1>3, <1>4 DEF AtMost
<1>6. /\ part' \in Seq(Token) /\ Len(part') <= MaxContext
      /\ ext' \in Seq(Token) /\ Len(ext') <= MaxContext
  BY <1>1, <1>3 DEF TypeOK
<1> HIDE DEF n
<1> QED BY <1>1, <1>2, <1>4, <1>5, <1>6, ProposeKeeps

(* A whole sequence of drafted tokens, as ext and the sidecar tree append  *)
(* it.                                                                     *)
LEMMA DraftedWhole ==
  ASSUME NEW p, NEW c, NEW n \in Nat, Holds(c, n, p), NEW s \in Seq(Token)
  PROVE  /\ c \o s \in Seq(Token)
         /\ Len(c \o s) = n + Len(s)
         /\ Follows(c \o s, n, p)
         /\ Drafted(c \o s, n, Len(s), s)
<1>1. SubSeq(s, 1, Len(s)) = s /\ Len(s) \in 0..Len(s)
  OBVIOUS
<1>2. /\ c \o SubSeq(s, 1, Len(s)) \in Seq(Token)
      /\ Len(c \o SubSeq(s, 1, Len(s))) = n + Len(s)
      /\ Follows(c \o SubSeq(s, 1, Len(s)), n, p)
      /\ Drafted(c \o SubSeq(s, 1, Len(s)), n, Len(s), s)
  BY <1>1, DraftedBehind, Zenon
<1> QED BY <1>1, <1>2, Zenon

(* The external model forwards all it proposes.                            *)
LEMMA ProposeExternalKeeps ==
  ASSUME IInv, ProposeExternal
  PROVE  IInv'
<1>1. Speculating /\ cfg.draftModel
  BY DEF ProposeExternal
<1>2. /\ TypeOK /\ AtHead /\ cfg.lookahead /\ pc # "end"
      /\ Window \in Nat /\ Window >= 2
      /\ position \in Nat /\ MaxContext \in Nat
      /\ position + Window <= MaxContext
  BY <1>1, WindowRange
<1>3. ~cfg.draftLayers
  BY <1>1, <1>2, AcceptedOptions DEF FromEnv
<1>4. CASE Fits(ext, position, Window)
  <2>1. PICK s \in Proposals(Window) : Propose(s) /\ ext' = ext \o s
    BY <1>4 DEF ProposeExternal
  <2>2. part' = part
    BY <1>4 DEF ProposeExternal
  <2>3. s \in Seq(Token) /\ Len(s) = Window
    BY <1>2, <2>1, ProposalType
  <2>4. Holds(ext, position, path)
    BY <1>1, <1>2 DEF AtHead
  <2>5. /\ ext \o s \in Seq(Token) /\ Len(ext \o s) = position + Window
        /\ Follows(ext \o s, position, path)
        /\ Drafted(ext \o s, position, Window, s)
    BY <1>2, <2>3, <2>4, DraftedWhole
  <2>6. /\ ext' \in Seq(Token) /\ Len(ext') <= MaxContext
        /\ Follows(ext', position, path) /\ Drafted(ext', position, Window, s)
    BY <1>2, <2>1, <2>5
  <2>7. part' \in Seq(Token) /\ Len(part') <= MaxContext
    BY <1>2, <2>2 DEF TypeOK
  <2>8. Window \in 1..Window
    BY <1>2
  <2> QED BY <1>1, <1>3, <2>1, <2>6, <2>7, <2>8, ProposeKeeps
<1>5. CASE ~Fits(ext, position, Window)
  BY <1>2, <1>5, FailKeeps DEF ProposeExternal
<1> QED BY <1>4, <1>5

(* The retained-prefix drafter forwards all but the last candidate.        *)
LEMMA ProposePartialKeeps ==
  ASSUME IInv, ProposePartial
  PROVE  IInv'
<1>1. Speculating /\ ~cfg.draftModel
  BY DEF ProposePartial
<1>2. /\ TypeOK /\ AtHead /\ cfg.lookahead /\ pc # "end"
      /\ Window \in Nat /\ Window >= 2
      /\ position \in Nat /\ MaxContext \in Nat
      /\ position + Window <= MaxContext
  BY <1>1, WindowRange
<1>4. CASE cfg.draftLayers /\ Fits(part, position, Window - 1)
  <2>1. PICK s \in Proposals(Window) :
               Propose(s) /\ part' = part \o SubSeq(s, 1, Window - 1)
    BY <1>4 DEF ProposePartial
  <2>2. ext' = ext
    BY <1>4 DEF ProposePartial
  <2>3. s \in Seq(Token) /\ Len(s) = Window /\ Window - 1 \in 0..Len(s)
    BY <1>2, <2>1, ProposalType
  <2>4. Holds(part, position, path)
    BY <1>1, <1>2, <1>4 DEF AtHead
  <2>5. /\ part' \in Seq(Token) /\ Len(part') = position + (Window - 1)
        /\ Follows(part', position, path)
        /\ Drafted(part', position, Window - 1, s)
    <3>1. PICK c : c = part \o SubSeq(s, 1, Window - 1)
      OBVIOUS
    <3>2. /\ c \in Seq(Token) /\ Len(c) = position + (Window - 1)
          /\ Follows(c, position, path) /\ Drafted(c, position, Window - 1, s)
      <4>1. PICK k : k = Window - 1
        OBVIOUS
      <4>2. k \in 0..Len(s)
        BY <2>3, <4>1
      <4>3. /\ part \o SubSeq(s, 1, k) \in Seq(Token)
            /\ Len(part \o SubSeq(s, 1, k)) = position + k
            /\ Follows(part \o SubSeq(s, 1, k), position, path)
            /\ Drafted(part \o SubSeq(s, 1, k), position, k, s)
        BY <1>2, <2>3, <2>4, <4>2, DraftedBehind, Zenon
      <4> QED BY <3>1, <4>1, <4>3, Zenon
    <3> QED BY <2>1, <3>1, <3>2
  <2>6. Len(part') <= MaxContext
    BY <1>2, <2>5
  <2>7. ext' \in Seq(Token) /\ Len(ext') <= MaxContext
    BY <1>2, <2>2 DEF TypeOK
  <2>8. Window \in 1..Window /\ AtMost(Window, Window - 1) = Window - 1
    BY <1>2 DEF AtMost
  <2> QED BY <1>1, <2>1, <2>5, <2>6, <2>7, <2>8, ProposeKeeps
<1>5. CASE ~(cfg.draftLayers /\ Fits(part, position, Window - 1))
  BY <1>2, <1>5, FailKeeps DEF ProposePartial
<1> QED BY <1>4, <1>5

(* The sidecar's tree keeps the two tokens of the selected branch.         *)
LEMMA ProposeSidecarTreeKeeps ==
  ASSUME IInv, ProposeSidecarTree
  PROVE  IInv'
<1>1. Speculating /\ cfg.sidecarTree /\ Window >= SidecarTreeWidth
  BY DEF ProposeSidecarTree, TreeSidecar
<1>2. /\ TypeOK /\ AtHead /\ cfg.lookahead /\ pc # "end"
      /\ Window \in Nat
      /\ position \in Nat /\ MaxContext \in Nat
      /\ position + Window <= MaxContext
  BY <1>1, WindowRange
<1>3. ~cfg.draftModel /\ cfg.draftLayers /\ Window > 2
  BY <1>1, <1>2, AcceptedOptions, SpeculationAssumption DEF FromEnv
<1>4. CASE Fits(part, position, 2)
  <2>1. PICK s \in Proposals(2) : Propose(s) /\ part' = part \o s
    BY <1>4 DEF ProposeSidecarTree
  <2>2. ext' = ext
    BY <1>4 DEF ProposeSidecarTree
  <2>3. s \in Seq(Token) /\ Len(s) = 2
    BY <1>2, <2>1, ProposalType
  <2>4. Holds(part, position, path)
    BY <1>1, <1>2, <1>3 DEF AtHead
  <2>5. /\ part \o s \in Seq(Token) /\ Len(part \o s) = position + 2
        /\ Follows(part \o s, position, path)
        /\ Drafted(part \o s, position, 2, s)
    <3>1. /\ part \o s \in Seq(Token)
          /\ Len(part \o s) = position + Len(s)
          /\ Follows(part \o s, position, path)
          /\ Drafted(part \o s, position, Len(s), s)
      BY <1>2, <2>3, <2>4, DraftedWhole
    <3> QED BY <2>3, <3>1
  <2>6. /\ part' \in Seq(Token) /\ Len(part') <= MaxContext
        /\ Follows(part', position, path) /\ Drafted(part', position, 2, s)
    BY <1>2, <1>3, <2>1, <2>5
  <2>7. ext' \in Seq(Token) /\ Len(ext') <= MaxContext
    BY <1>2, <2>2 DEF TypeOK
  <2>8. 2 \in 1..Window /\ AtMost(2, Window - 1) = 2
    BY <1>2, <1>3 DEF AtMost
  <2> QED BY <1>1, <1>3, <2>1, <2>6, <2>7, <2>8, ProposeKeeps
<1>5. CASE ~Fits(part, position, 2)
  BY <1>2, <1>5, FailKeeps DEF ProposeSidecarTree
<1> QED BY <1>4, <1>5

(* The dynamic width is at least two, and grows only after a full window.  *)
LEMMA DynamicWidth ==
  ASSUME NEW width \in Nat, width >= 2, NEW w \in Nat, w >= 2,
         NEW current \in Nat, w <= current, NEW acc \in 0..w
  PROVE  /\ NextDynamicWidth(width, w, acc) \in Nat
         /\ NextDynamicWidth(width, w, acc) >= 2
         /\ acc # w => NextDynamicWidth(width, w, acc) <= current
<1>1. w \div 2 \in Nat /\ w \div 2 <= w
  OBVIOUS
<1>2. AtLeast(w \div 2, 2) \in Nat /\ AtLeast(w \div 2, 2) >= 2 /\ AtLeast(w \div 2, 2) <= w
  BY <1>1 DEF AtLeast
<1>3. AtLeast(w * 2, 2) \in Nat /\ AtLeast(w * 2, 2) >= 2
  BY DEF AtLeast
<1> QED BY <1>2, <1>3 DEF NextDynamicWidth, AtMost

(* A verification keeps the accepted candidates in the target's caches and *)
(* takes the rejected ones out of the drafter's.                           *)
LEMMA VerifyKeeps ==
  ASSUME IInv, Verify
  PROVE  IInv'
<1>1. /\ pc = "verify" /\ TypeOK /\ Proposed /\ Len(outputs) < Runs
  BY DEF Verify, IInv
<1>2. /\ position \in Nat /\ MaxContext \in Nat /\ window \in Nat /\ dynWidth \in Nat
      /\ cands \in Seq(Token) /\ Len(cands) \in Nat
      /\ emitted \in 0..accepted
  BY <1>1, SpeculationAssumption DEF TypeOK
<1>3. /\ Right(generated, path) /\ Open(generated)
      /\ Len(generated) < MaxNew /\ cfg.lookahead
      /\ position = PromptLen + Len(generated)
      /\ Holds(target, position, path) /\ pred = path[position + 1]
      /\ accepted = 0 /\ dynWidth >= 2 /\ window >= 2
      /\ position + window <= MaxContext /\ window <= dynWidth
      /\ Len(cands) >= 1 /\ Len(cands) <= window /\ cands[1] = pred
  BY <1>1 DEF Proposed
<1>4. emitted = 0
  BY <1>2, <1>3
<1>5. CASE ~Fits(target, position, Len(cands))
  BY <1>1, <1>5, FailKeeps DEF Verify
<1>6. CASE Fits(target, position, Len(cands))
  <2>1. PICK k \in 0..Len(cands), next \in Token :
       LET acc == AtMost(k, window)
           rollback == cfg.draftLayers /\ k < Len(cands)
       IN
       /\ Assess(k, next)
       /\ IF rollback /\ position + k > Len(part) THEN Fail ELSE
          /\ pc' = IF acc = 0 THEN "correct" ELSE "emit"
          /\ target' = target \o SubSeq(cands, 1, k)
          /\ part' = IF rollback THEN Rewound(part, position + k) ELSE part
          /\ accepted' = acc
          /\ nextTok' = next
          /\ sidecarOn' = (sidecarOn /\ ~(cfg.sidecarAuto /\ acc <= 1))
          /\ dynWidth' = IF cfg.dynamic THEN NextDynamicWidth(cfg.width, window, acc)
                         ELSE dynWidth
          /\ UNCHANGED <<path, cfg, ext, pred, generated, position, window,
                         cands, emitted, outputs>>
    BY <1>6 DEF Verify
  <2>2. Assess(k, next)
    BY <2>1
  <2>3. /\ k >= 1
        /\ \A j \in 1..k : cands[j] = path[position + j]
        /\ next = path[position + k + 1]
    BY <1>2, <1>3, <2>2, AcceptedFollow
  <2>4. k \in Nat /\ k <= window /\ k <= Len(cands) /\ AtMost(k, window) = k
    BY <1>2, <1>3 DEF AtMost
  <2>5. CASE Fail
    BY <1>1, <2>5, FailKeeps
  <2>6. CASE ~Fail
    <3>1. /\ pc' = "emit"
          /\ target' = target \o SubSeq(cands, 1, k)
          /\ part' = IF cfg.draftLayers /\ k < Len(cands)
                     THEN Rewound(part, position + k) ELSE part
          /\ accepted' = k /\ nextTok' = next
          /\ sidecarOn' = (sidecarOn /\ ~(cfg.sidecarAuto /\ k <= 1))
          /\ dynWidth' = IF cfg.dynamic THEN NextDynamicWidth(cfg.width, window, k)
                         ELSE dynWidth
          /\ UNCHANGED <<path, cfg, ext, pred, generated, position, window,
                         cands, emitted, outputs>>
      BY <2>1, <2>3, <2>4, <2>6
    <3>2. (Holds(target, position + accepted, path))'
      <4>1. Holds(target \o SubSeq(cands, 1, k), position + k, path)
        BY <1>2, <1>3, <2>3, HoldsExtend
      <4> QED BY <3>1, <4>1
    <3>3. target' \in Seq(Token) /\ Len(target') <= MaxContext
      <4>1. Holds(target', position + k, path)
        BY <3>1, <3>2
      <4>2. position + k \in Nat /\ position + k <= MaxContext
        BY <1>2, <1>3, <2>4
      <4> QED BY <4>1, <4>2 DEF Holds, Follows
    <3>4. dynWidth' \in Nat /\ dynWidth' >= 2
      <4>1. cfg.width \in Nat /\ cfg.width >= 2
        BY <1>1, <1>3, AcceptedOptions DEF FromEnv
      <4>2. k \in 0..window
        BY <2>4
      <4>3. NextDynamicWidth(cfg.width, window, k) \in Nat
            /\ NextDynamicWidth(cfg.width, window, k) >= 2
        BY <1>2, <1>3, <4>1, <4>2, DynamicWidth
      <4> QED BY <1>2, <1>3, <3>1, <4>3
    <3>5. ASSUME cfg.draftLayers
          PROVE  (Holds(part, position + AtMost(accepted, window - 1), path))'
      <4> DEFINE m == AtMost(Len(cands), window - 1)
      <4>1. m \in Nat /\ m <= window /\ m <= Len(cands)
            /\ (k < Len(cands) => k <= m /\ AtMost(k, window - 1) = k)
            /\ (k = Len(cands) => m = AtMost(k, window - 1))
        BY <1>2, <1>3, <2>4 DEF AtMost
      <4>2. Follows(part, position, path) /\ Drafted(part, position, m, cands)
        BY <1>1, <3>5 DEF Proposed
      <4> HIDE DEF m
      <4>3. CASE k < Len(cands)
        <5>1. k \in 0..m
          BY <2>4, <4>1, <4>3
        <5>2. Follows(part, position + k, path)
          BY <1>2, <2>3, <4>1, <4>2, <5>1, DraftedFollows
        <5>3. Holds(Rewound(part, position + k), position + k, path)
          BY <1>2, <2>4, <5>2, HoldsRewound
        <5>4. part' = Rewound(part, position + k)
          BY <3>1, <3>5, <4>3
        <5> QED BY <3>1, <4>1, <4>3, <5>3, <5>4
      <4>4. CASE k = Len(cands)
        <5>1. m \in 0..m /\ \A j \in 1..m : cands[j] = path[position + j]
          BY <2>3, <2>4, <4>1, <4>4
        <5>2. Follows(part, position + m, path)
          BY <1>2, <4>1, <4>2, <5>1, DraftedFollows
        <5>3. Holds(part, position + m, path)
          BY <4>2, <5>2 DEF Holds, Drafted
        <5>4. part' = part
          BY <3>1, <4>4
        <5> QED BY <3>1, <4>1, <4>4, <5>3, <5>4
      <4> QED BY <2>4, <1>2, <4>3, <4>4
    <3>6. part' \in Seq(Token) /\ Len(part') <= MaxContext
      <4>1. CASE cfg.draftLayers
        <5>1. AtMost(k, window - 1) \in Nat /\ AtMost(k, window - 1) <= window
          BY <1>2, <1>3, <2>4 DEF AtMost
        <5>2. Holds(part', position + AtMost(k, window - 1), path)
          BY <3>1, <3>5, <4>1
        <5>3. position + AtMost(k, window - 1) <= MaxContext
          BY <1>2, <1>3, <5>1
        <5> QED BY <5>2, <5>3 DEF Holds, Follows
      <4>2. CASE ~cfg.draftLayers
        BY <1>1, <3>1, <4>2 DEF TypeOK
      <4> QED BY <4>1, <4>2
    <3>7. ASSUME cfg.draftModel
          PROVE  (/\ Len(cands) = window
                  /\ Follows(ext, position + accepted, path)
                  /\ Len(ext) = position + window)'
      <4>1. /\ Len(cands) = window /\ Follows(ext, position, path)
            /\ Drafted(ext, position, window, cands)
        BY <1>1, <3>7 DEF Proposed
      <4>2. k \in 0..window
        BY <2>4
      <4>3. Follows(ext, position + k, path)
        BY <1>2, <2>3, <4>1, <4>2, DraftedFollows
      <4> QED BY <3>1, <4>1, <4>3 DEF Drafted
    <3>8. TypeOK'
      <4>1. sidecarOn' \in BOOLEAN
        BY <3>1, <1>1 DEF TypeOK
      <4>2. accepted' \in 0..window' /\ emitted' \in 0..accepted' /\ nextTok' \in Token
        BY <1>2, <1>4, <2>4, <3>1
      <4> QED BY <1>1, <3>1, <3>3, <3>4, <3>6, <4>1, <4>2 DEF TypeOK
    <3>9. (Right(generated, path))' /\ (Open(generated))'
      BY <1>3, <3>1 DEF Right, Open
    <3>10. Verified'
      <4>1. (position + emitted = PromptLen + Len(generated))'
        BY <1>2, <1>3, <1>4, <3>1
      <4>2. (/\ Len(generated) < MaxNew /\ cfg.lookahead
             /\ dynWidth >= 2 /\ window >= 2
             /\ position + window <= MaxContext
             /\ accepted >= 1 /\ accepted <= Len(cands) /\ Len(cands) <= window)'
        BY <1>3, <2>3, <2>4, <3>1, <3>4
      <4>3. (/\ nextTok = path[position + accepted + 1]
             /\ \A j \in 1..accepted : cands[j] = path[position + j])'
        BY <2>3, <3>1
      <4>4. (/\ pc = "emit" => emitted < accepted
             /\ pc # "emit" => emitted = accepted
             /\ pc = "correct" => accepted < window
             /\ pc = "extend" => accepted = window)'
        BY <1>4, <2>3, <2>4, <3>1
      <4> QED BY <3>1, <3>2, <3>5, <3>7, <3>9, <4>1, <4>2, <4>3, <4>4 DEF Verified
    <3> QED BY <1>1, <3>1, <3>8, <3>9, <3>10 DEF IInv
  <2> QED BY <2>5, <2>6
<1> QED BY <1>5, <1>6

(* One accepted candidate reaches the output.                              *)
LEMMA EmitKeeps ==
  ASSUME IInv, Emit
  PROVE  IInv'
<1> DEFINE tok == cands[emitted + 1]
           out == Append(generated, tok)
<1>1. /\ pc = "emit" /\ TypeOK /\ Verified /\ Len(outputs) < Runs
  BY DEF Emit, IInv
<1>2. /\ generated' = out /\ emitted' = emitted + 1
      /\ pc' = IF Ends(out) THEN "done"
               ELSE IF emitted + 1 < accepted THEN "emit"
               ELSE IF accepted < window THEN "correct" ELSE "extend"
      /\ UNCHANGED <<path, cfg, caches, pred, position, dynWidth, sidecarOn,
                     window, cands, accepted, nextTok, outputs>>
  BY DEF Emit
<1>3. /\ generated \in Seq(Token) /\ Len(generated) \in Nat /\ Len(generated) < MaxNew
      /\ Right(generated, path) /\ Open(generated)
      /\ position \in Nat /\ emitted \in Nat /\ accepted \in Nat /\ window \in Nat
      /\ position + emitted = PromptLen + Len(generated)
      /\ emitted < accepted /\ accepted <= Len(cands) /\ Len(cands) <= window
      /\ \A j \in 1..accepted : cands[j] = path[position + j]
      /\ cands \in Seq(Token) /\ MaxNew \in Nat /\ PromptLen \in Nat
  BY <1>1, SpeculationAssumption DEF TypeOK, Verified
<1>4. tok \in Token /\ tok = path[PromptLen + Len(generated) + 1]
  <2>1. emitted + 1 \in 1..accepted /\ emitted + 1 \in 1..Len(cands)
        /\ position + (emitted + 1) = PromptLen + Len(generated) + 1
    <3>1. /\ emitted \in Nat /\ accepted \in Nat /\ emitted < accepted
          /\ accepted <= Len(cands) /\ Len(cands) \in Nat
          /\ position \in Nat /\ PromptLen \in Nat /\ Len(generated) \in Nat
          /\ position + emitted = PromptLen + Len(generated)
      BY <1>3
    <3> QED BY <3>1
  <2>2. tok \in Token /\ tok = path[position + (emitted + 1)]
    <3>1. cands \in Seq(Token) /\ emitted + 1 \in 1..Len(cands)
      BY <1>3, <2>1
    <3>2. cands[emitted + 1] = path[position + (emitted + 1)]
      BY <1>3, <2>1
    <3> QED BY <3>1, <3>2
  <2> QED BY <2>1, <2>2
<1> HIDE DEF tok
<1>5. /\ out \in Seq(Token) /\ Len(out) = Len(generated) + 1 /\ out[Len(out)] = tok
      /\ Right(out, path) /\ (tok # Eos => Open(out))
  BY <1>3, <1>4, OutputGrows
<1> HIDE DEF out
<1>6. TypeOK'
  <2>1. generated' \in Seq(Token) /\ Len(generated') <= MaxNew
    BY <1>2, <1>3, <1>5
  <2>2. emitted' \in 0..accepted'
    BY <1>2, <1>3
  <2>3. pc' \in {"emit", "correct", "extend", "done"}
    BY <1>2
  <2> QED BY <1>1, <1>2, <2>1, <2>2, <2>3 DEF TypeOK, caches
<1>7. (Right(generated, path))'
  BY <1>2, <1>5
<1>8. CASE Ends(out)
  <2>1. (Finished(generated))'
    <3>1. Len(out) = MaxNew \/ out[Len(out)] = Eos
      BY <1>8 DEF Ends, Full
    <3>2. out # <<>>
      BY <1>3, <1>5
    <3> QED BY <1>2, <3>1, <3>2 DEF Finished
  <2> QED BY <1>1, <1>2, <1>6, <1>7, <1>8, <2>1 DEF IInv
<1>9. CASE ~Ends(out)
  <2>1. Len(out) < MaxNew /\ Open(out)
    BY <1>3, <1>5, <1>9 DEF Ends, Full
  <2>2. (position + emitted = PromptLen + Len(generated))'
    BY <1>2, <1>3, <1>5
  <2>3. (/\ pc = "emit" => emitted < accepted
         /\ pc # "emit" => emitted = accepted
         /\ pc = "correct" => accepted < window
         /\ pc = "extend" => accepted = window)'
    BY <1>2, <1>3, <1>9
  <2>4. (Open(generated))' /\ (Len(generated) < MaxNew)'
    BY <1>2, <2>1
  <2>5. Verified'
    BY <1>1, <1>2, <1>7, <2>2, <2>3, <2>4 DEF Verified, caches, Holds, Follows
  <2>6. pc' \in {"emit", "correct", "extend"}
    BY <1>2, <1>9
  <2> QED BY <1>1, <1>2, <1>6, <1>7, <2>5, <2>6 DEF IInv
<1> QED BY <1>8, <1>9

(* What holds when a pass over the whole window or a part of it is over.   *)
LEMMA AfterPass ==
  ASSUME IInv, pc \in {"correct", "extend"}
  PROVE  /\ TypeOK /\ Verified /\ Len(outputs) < Runs /\ cfg.lookahead
         /\ generated \in Seq(Token) /\ Len(generated) \in Nat /\ Len(generated) < MaxNew
         /\ Right(generated, path) /\ Open(generated)
         /\ position \in Nat /\ accepted \in Nat /\ window \in Nat
         /\ MaxContext \in Nat /\ MaxNew \in Nat /\ PromptLen \in Nat
         /\ position + accepted = PromptLen + Len(generated)
         /\ accepted <= window /\ position + window <= MaxContext
         /\ nextTok \in Token /\ nextTok = path[position + accepted + 1]
         /\ Holds(target, position + accepted, path)
         /\ dynWidth >= 2
         /\ (cfg.sidecar \/ cfg.draftLayers) => cfg.draftLayers
<1>1. TypeOK /\ Verified /\ Len(outputs) < Runs /\ pc # "emit"
  BY DEF IInv
<1>2. /\ generated \in Seq(Token) /\ Len(generated) \in Nat
      /\ position \in Nat /\ accepted \in Nat /\ window \in Nat
      /\ MaxContext \in Nat /\ MaxNew \in Nat /\ PromptLen \in Nat /\ nextTok \in Token
  BY <1>1, SpeculationAssumption DEF TypeOK
<1>3. /\ Len(generated) < MaxNew /\ cfg.lookahead
      /\ Right(generated, path) /\ Open(generated)
      /\ position + accepted = PromptLen + Len(generated)
      /\ accepted <= Len(cands) /\ Len(cands) <= window
      /\ position + window <= MaxContext
      /\ nextTok = path[position + accepted + 1]
      /\ Holds(target, position + accepted, path) /\ dynWidth >= 2
  BY <1>1 DEF Verified
<1>4. accepted <= window
  BY <1>1, <1>2 DEF TypeOK
<1>5. (cfg.sidecar \/ cfg.draftLayers) => cfg.draftLayers
  BY <1>1, <1>3, AcceptedOptions DEF FromEnv
<1> QED BY <1>1, <1>2, <1>3, <1>4, <1>5

(* The verifier's own token ends the pass, or the output.                  *)
LEMMA CorrectKeeps ==
  ASSUME IInv, Correct
  PROVE  IInv'
<1> DEFINE out == Append(generated, nextTok)
           p == position + accepted
           usesPart == cfg.sidecar \/ cfg.draftLayers
<1>1. pc = "correct"
  BY DEF Correct
<1>2. /\ TypeOK /\ Verified /\ Len(outputs) < Runs /\ cfg.lookahead
      /\ generated \in Seq(Token) /\ Len(generated) \in Nat /\ Len(generated) < MaxNew
      /\ Right(generated, path) /\ Open(generated)
      /\ position \in Nat /\ accepted \in Nat /\ window \in Nat
      /\ MaxContext \in Nat /\ MaxNew \in Nat /\ PromptLen \in Nat
      /\ position + accepted = PromptLen + Len(generated)
      /\ accepted <= window /\ position + window <= MaxContext
      /\ nextTok \in Token /\ nextTok = path[position + accepted + 1]
      /\ Holds(target, position + accepted, path)
      /\ dynWidth >= 2
      /\ (cfg.sidecar \/ cfg.draftLayers) => cfg.draftLayers
  BY <1>1, AfterPass
<1>3. accepted < window
  BY <1>1, <1>2 DEF Verified
<1>4. /\ out \in Seq(Token) /\ Len(out) = Len(generated) + 1 /\ out[Len(out)] = nextTok
      /\ Right(out, path) /\ (nextTok # Eos => Open(out))
  <2>1. nextTok = path[PromptLen + Len(generated) + 1]
    BY <1>2
  <2> QED BY <1>2, <2>1, OutputGrows
<1> HIDE DEF out
<1>5. CASE Ends(out)
  <2>1. /\ generated' = out /\ pc' = "done"
        /\ UNCHANGED <<path, cfg, caches, pred, position, dynWidth,
                       sidecarOn, pass, outputs>>
    BY <1>5 DEF Correct, out
  <2>2. (Finished(generated))'
    <3>1. Len(out) = MaxNew \/ out[Len(out)] = Eos
      BY <1>5 DEF Ends, Full
    <3>2. out # <<>>
      BY <1>2, <1>4
    <3> QED BY <2>1, <3>1, <3>2 DEF Finished
  <2>3. generated' \in Seq(Token) /\ Len(generated') <= MaxNew
    BY <1>2, <1>4, <2>1
  <2>4. TypeOK'
    BY <1>2, <2>1, <2>3 DEF TypeOK, caches, pass
  <2>5. (Right(generated, path))'
    BY <1>4, <2>1
  <2> QED BY <1>2, <2>1, <2>2, <2>4, <2>5 DEF IInv
<1>6. CASE ~Ends(out) /\ ~(/\ Fits(target, p, 1)
                           /\ cfg.draftModel => p <= Len(ext)
                           /\ usesPart => p <= Len(part))
  <2>1. Fail
    BY <1>6 DEF Correct, out
  <2> QED BY <1>1, <2>1, FailKeeps
<1>7. CASE ~Ends(out) /\ /\ Fits(target, p, 1)
                         /\ cfg.draftModel => p <= Len(ext)
                         /\ usesPart => p <= Len(part)
  <2>1. /\ generated' = out /\ pc' = "loop"
        /\ target' = Append(target, nextTok)
        /\ pred' \in Predict(target')
        /\ ext' = IF cfg.draftModel THEN Append(Rewound(ext, p), nextTok) ELSE ext
        /\ part' = IF usesPart THEN Append(Rewound(part, p), nextTok) ELSE part
        /\ position' = p + 1
        /\ EndPass
        /\ UNCHANGED <<path, cfg, dynWidth, sidecarOn, outputs>>
    BY <1>7 DEF Correct, out
  <2>2. p \in Nat /\ p + 1 \in Nat /\ p + 1 <= MaxContext
    BY <1>2, <1>3
  <2>a. Holds(target, p, path) /\ nextTok = path[p + 1] /\ nextTok \in Token
    BY <1>2
  <2>b. cfg.draftLayers => Holds(part, p, path)
    <3>1. AtMost(accepted, window - 1) = accepted
      BY <1>2, <1>3 DEF AtMost
    <3> QED BY <1>2, <3>1 DEF Verified
  <2>c. cfg.draftModel => Follows(ext, p, path)
    BY <1>2 DEF Verified
  <2>d. path[p + 1 + 1] \in Token
    <3>1. p + 1 + 1 \in 1..(MaxContext + 1)
      BY <1>2, <2>2
    <3> QED BY <1>2, <3>1, PathType
  <2>e. p = PromptLen + Len(generated)
    BY <1>2
  <2> HIDE DEF p, usesPart
  <2>3. Holds(Append(target, nextTok), p + 1, path)
    BY <2>2, <2>a, HoldsAppend
  <2>4. (Holds(target, position, path))'
    BY <2>1, <2>3
  <2>5. pred' = path[p + 1 + 1] /\ pred' \in Token
    <3>1. PICK c : c = Append(target, nextTok)
      OBVIOUS
    <3>2. Predict(c) = {path[p + 1 + 1]}
      BY <2>2, <2>3, <3>1, PredictNext
    <3>3. pred' \in Predict(c)
      BY <2>1, <3>1
    <3> QED BY <2>d, <3>2, <3>3
  <2>6. ASSUME cfg.draftModel PROVE (Holds(ext, position, path))'
    <3>1. Holds(Append(Rewound(ext, p), nextTok), p + 1, path)
      BY <2>2, <2>a, <2>c, <2>6, HoldsRewound, HoldsAppend
    <3> QED BY <2>1, <2>6, <3>1
  <2>7. ASSUME cfg.draftLayers PROVE (Holds(part, position, path))'
    <3>1. Follows(part, p, path)
      BY <2>b, <2>7 DEF Holds
    <3>2. Holds(Append(Rewound(part, p), nextTok), p + 1, path)
      BY <2>2, <2>a, <3>1, HoldsRewound, HoldsAppend
    <3>3. usesPart
      BY <2>7 DEF usesPart
    <3> QED BY <2>1, <3>2, <3>3
  <2>8. TypeOK'
    <3>1. target' \in Seq(Token) /\ Len(target') <= MaxContext
      BY <2>1, <2>2, <2>3 DEF Holds, Follows
    <3>2. ext' \in Seq(Token) /\ Len(ext') <= MaxContext
      <4>1. CASE cfg.draftModel
        <5>1. Holds(ext', p + 1, path)
          BY <2>1, <2>6, <4>1
        <5> QED BY <2>2, <5>1 DEF Holds, Follows
      <4>2. CASE ~cfg.draftModel
        BY <1>2, <2>1, <4>2 DEF TypeOK
      <4> QED BY <4>1, <4>2
    <3>3. part' \in Seq(Token) /\ Len(part') <= MaxContext
      <4>1. CASE cfg.draftLayers
        <5>1. Holds(part', p + 1, path)
          BY <2>1, <2>7, <4>1
        <5> QED BY <2>2, <5>1 DEF Holds, Follows
      <4>2. CASE ~cfg.draftLayers
        <5>1. ~usesPart
          BY <1>2, <4>2 DEF usesPart
        <5> QED BY <1>2, <2>1, <5>1 DEF TypeOK
      <4> QED BY <4>1, <4>2
    <3>4. generated' \in Seq(Token) /\ Len(generated') <= MaxNew
      BY <1>2, <1>4, <2>1
    <3>5. /\ nextTok' \in Token /\ window' \in Nat /\ cands' \in Seq(Token)
          /\ accepted' \in 0..window' /\ emitted' \in 0..accepted'
      BY <2>1, SpeculationAssumption DEF EndPass
    <3>6. position' \in 0..MaxContext
      BY <1>2, <2>1, <2>2
    <3> QED BY <1>2, <2>1, <2>5, <3>1, <3>2, <3>3, <3>4, <3>5, <3>6 DEF TypeOK
  <2>9. (Right(generated, path))' /\ (Open(generated))'
    <3>1. nextTok # Eos
      BY <1>4, <1>7 DEF Ends
    <3> QED BY <1>4, <2>1, <3>1
  <2>10. AtHead'
    <3>1. (position = PromptLen + Len(generated))'
      <4>1. Len(generated') = Len(generated) + 1 /\ position' = p + 1
        BY <1>4, <2>1
      <4>2. Len(generated) \in Nat /\ PromptLen \in Nat
        BY <1>2
      <4> QED BY <2>e, <4>1, <4>2
    <3>2. (pred = path[position + 1])'
      BY <2>1, <2>5
    <3>3. (cfg.lookahead => dynWidth >= 2)' /\ (accepted = 0)'
      BY <1>2, <2>1 DEF EndPass
    <3> QED BY <2>1, <2>4, <2>6, <2>7, <2>9, <3>1, <3>2, <3>3 DEF AtHead
  <2> QED BY <1>2, <2>1, <2>8, <2>9, <2>10 DEF IInv
<1> QED BY <1>5, <1>6, <1>7

(* The whole window was accepted: the drafter catches up.                  *)
LEMMA ExtendKeeps ==
  ASSUME IInv, Extend
  PROVE  IInv'
<1> DEFINE p == position + accepted
           usesPart == cfg.sidecar \/ cfg.draftLayers
<1>1. pc = "extend"
  BY DEF Extend
<1>2. /\ TypeOK /\ Verified /\ Len(outputs) < Runs /\ cfg.lookahead
      /\ generated \in Seq(Token) /\ Len(generated) \in Nat /\ Len(generated) < MaxNew
      /\ Right(generated, path) /\ Open(generated)
      /\ position \in Nat /\ accepted \in Nat /\ window \in Nat
      /\ MaxContext \in Nat /\ MaxNew \in Nat /\ PromptLen \in Nat
      /\ position + accepted = PromptLen + Len(generated)
      /\ accepted <= window /\ position + window <= MaxContext
      /\ nextTok \in Token /\ nextTok = path[position + accepted + 1]
      /\ Holds(target, position + accepted, path)
      /\ dynWidth >= 2
      /\ (cfg.sidecar \/ cfg.draftLayers) => cfg.draftLayers
  BY <1>1, AfterPass
<1>3. /\ accepted = window /\ Len(cands) = window /\ window >= 2
      /\ \A j \in 1..accepted : cands[j] = path[position + j]
      /\ cfg.draftModel => Follows(ext, p, path) /\ Len(ext) = position + window
      /\ cfg.draftLayers => Holds(part, position + AtMost(accepted, window - 1), path)
  BY <1>1, <1>2 DEF Verified, TypeOK
<1>4. CASE ~(usesPart => Fits(part, p - 1, 1))
  <2>1. Fail
    BY <1>4 DEF Extend
  <2> QED BY <1>1, <2>1, FailKeeps
<1>5. CASE usesPart => Fits(part, p - 1, 1)
  <2>1. /\ pc' = "loop"
        /\ part' = IF usesPart THEN Append(part, LastCandidate) ELSE part
        /\ pred' = nextTok /\ position' = p
        /\ EndPass
        /\ UNCHANGED <<path, cfg, target, ext, generated, dynWidth, sidecarOn, outputs>>
    BY <1>5 DEF Extend
  <2>2. p \in Nat /\ p - 1 \in Nat /\ p <= MaxContext /\ (p - 1) + 1 = p
    BY <1>2, <1>3
  <2>3. LastCandidate = path[p] /\ LastCandidate \in Token
    <3>1. window \in 1..accepted /\ window \in 1..Len(cands) /\ position + window = p
      BY <1>2, <1>3
    <3>2. cands[window] = path[position + window] /\ cands[window] \in Token
      BY <1>2, <1>3, <3>1 DEF TypeOK
    <3> QED BY <1>3, <3>1, <3>2 DEF LastCandidate
  <2>4. cfg.draftLayers => Holds(part, p - 1, path)
    <3>1. position + AtMost(accepted, window - 1) = p - 1
      BY <1>2, <1>3 DEF AtMost
    <3> QED BY <1>3, <3>1
  <2>5. cfg.draftModel => Holds(ext, p, path)
    BY <1>3 DEF Holds
  <2>6. Holds(target, p, path) /\ nextTok = path[p + 1] /\ p = PromptLen + Len(generated)
    BY <1>2
  <2> HIDE DEF p, usesPart
  <2>7. ASSUME cfg.draftLayers PROVE Holds(part', p, path)
    <3>1. LastCandidate = path[(p - 1) + 1]
      BY <2>2, <2>3
    <3>2. Holds(Append(part, LastCandidate), (p - 1) + 1, path)
      BY <2>2, <2>3, <2>4, <2>7, <3>1, HoldsAppend
    <3>3. usesPart
      BY <2>7 DEF usesPart
    <3> QED BY <2>1, <2>2, <3>2, <3>3
  <2>8. TypeOK'
    <3>1. part' \in Seq(Token) /\ Len(part') <= MaxContext
      <4>1. CASE cfg.draftLayers
        BY <2>2, <2>7, <4>1 DEF Holds, Follows
      <4>2. CASE ~cfg.draftLayers
        <5>1. ~usesPart
          BY <1>2, <4>2 DEF usesPart
        <5> QED BY <1>2, <2>1, <5>1 DEF TypeOK
      <4> QED BY <4>1, <4>2
    <3>2. /\ nextTok' \in Token /\ window' \in Nat /\ cands' \in Seq(Token)
          /\ accepted' \in 0..window' /\ emitted' \in 0..accepted'
      BY <2>1, SpeculationAssumption DEF EndPass
    <3>3. position' \in 0..MaxContext
      BY <1>2, <2>1, <2>2
    <3> QED BY <1>2, <2>1, <3>1, <3>2, <3>3 DEF TypeOK
  <2>9. (Right(generated, path))' /\ (Open(generated))'
    BY <1>2, <2>1
  <2>10. AtHead'
    <3>1. (position = PromptLen + Len(generated) /\ pred = path[position + 1])'
      BY <2>1, <2>6
    <3>2. (Holds(target, position, path))'
      BY <2>1, <2>6
    <3>3. (cfg.lookahead => dynWidth >= 2)' /\ (accepted = 0)'
      BY <1>2, <2>1 DEF EndPass
    <3>4. (cfg.draftModel => Holds(ext, position, path))'
      BY <2>1, <2>5
    <3>5. (cfg.draftLayers => Holds(part, position, path))'
      BY <2>1, <2>7
    <3> QED BY <2>9, <3>1, <3>2, <3>3, <3>4, <3>5 DEF AtHead
  <2> QED BY <1>2, <2>1, <2>8, <2>9, <2>10 DEF IInv
<1> QED BY <1>4, <1>5

(* The next repetition starts with an empty output.                        *)
LEMMA FinishRunKeeps ==
  ASSUME IInv, FinishRun
  PROVE  IInv'
<1>1. /\ pc = "done" /\ TypeOK /\ Len(outputs) < Runs
      /\ outputs' = Append(outputs, generated) /\ generated' = <<>>
      /\ pc' = IF Len(outputs) + 1 < Runs THEN "prefill" ELSE "end"
      /\ EndPass
      /\ UNCHANGED <<path, cfg, caches, pred, position, dynWidth, sidecarOn>>
  BY DEF FinishRun, IInv
<1>2. /\ outputs \in Seq(Seq(Token)) /\ generated \in Seq(Token) /\ Runs \in Nat
      /\ MaxNew \in Nat
  BY <1>1, SpeculationAssumption DEF TypeOK
<1>3. /\ outputs' \in Seq(Seq(Token)) /\ Len(outputs') = Len(outputs) + 1
      /\ Len(outputs') <= Runs
  BY <1>1, <1>2
<1>4. pc' \in {"prefill", "end"} /\ (pc' # "end" => Len(outputs') < Runs)
  BY <1>1, <1>3
<1>5. /\ nextTok' \in Token /\ window' \in Nat /\ cands' \in Seq(Token)
      /\ accepted' \in 0..window' /\ emitted' \in 0..accepted'
  BY <1>1, SpeculationAssumption DEF EndPass
<1>6. generated' \in Seq(Token) /\ Len(generated') <= MaxNew
  BY <1>1, <1>2
<1>7. TypeOK'
  BY <1>1, <1>3, <1>4, <1>5, <1>6 DEF TypeOK, caches
<1>8. (Right(generated, path))'
  BY <1>1 DEF Right
<1> QED BY <1>1, <1>4, <1>7, <1>8 DEF IInv

-----------------------------------------------------------------------------
(* The invariant holds at the start.                                       *)
LEMMA InitHolds ==
  ASSUME Init
  PROVE  IInv
<1>1. <<>> \in Seq(Token) /\ Len(<<>>) = 0 /\ <<>> \in Seq(Seq(Token))
  OBVIOUS
<1>2. Eos \in Token /\ MaxNew \in Nat /\ MaxContext \in Nat /\ Runs \in Nat \ {0}
  BY SpeculationAssumption
<1>3. TypeOK
  <2>1. path \in Paths /\ cfg \in Configs /\ pc = "prefill"
    BY DEF Init
  <2>2. \A c \in {target, part, ext} : c \in Seq(Token) /\ Len(c) <= MaxContext
    <3>1. target = <<>> /\ part = <<>> /\ ext = <<>>
      BY DEF Init
    <3>2. 0 <= MaxContext
      BY <1>2
    <3> SUFFICES ASSUME NEW c \in {target, part, ext}
                 PROVE  c \in Seq(Token) /\ Len(c) <= MaxContext
      OBVIOUS
    <3>3. c = <<>>
      BY <3>1
    <3> QED BY <1>1, <3>2, <3>3, Zenon
  <2>3. /\ pred \in Token /\ nextTok \in Token
        /\ generated \in Seq(Token) /\ Len(generated) <= MaxNew
        /\ position \in 0..MaxContext
    BY <1>1, <1>2 DEF Init
  <2>4. /\ dynWidth \in Nat /\ sidecarOn \in BOOLEAN
        /\ window \in Nat /\ cands \in Seq(Token)
        /\ accepted \in 0..window /\ emitted \in 0..accepted
    <3>1. sidecarOn = FALSE /\ dynWidth = 0 /\ window = 0 /\ cands = <<>>
          /\ accepted = 0 /\ emitted = 0
      BY DEF Init
    <3>2. sidecarOn \in BOOLEAN
      BY <3>1
    <3> QED BY <1>1, <3>1, <3>2
  <2>5. outputs \in Seq(Seq(Token)) /\ Len(outputs) <= Runs
    BY <1>1, <1>2 DEF Init
  <2> QED BY <2>1, <2>2, <2>3, <2>4, <2>5 DEF TypeOK
<1>4. Right(generated, path) /\ Len(outputs) < Runs
  BY <1>1, <1>2 DEF Init, Right
<1> QED BY <1>3, <1>4 DEF Init, IInv

(* Every step keeps it.                                                    *)
LEMMA StepKeeps ==
  ASSUME IInv, [Next]_vars
  PROVE  IInv'
<1>1. CASE Prefill
  BY <1>1, PrefillKeeps
<1>2. CASE LoopEnds
  BY <1>2, LoopEndsKeeps
<1>3. CASE GreedyStep
  BY <1>3, GreedyStepKeeps
<1>4. CASE FallbackStep
  BY <1>4, FallbackStepKeeps
<1>5. CASE NarrowStep
  BY <1>5, NarrowStepKeeps
<1>6. CASE LookupMiss
  BY <1>6, LookupMissKeeps
<1>7. CASE MarginReject
  BY <1>7, MarginRejectKeeps
<1>8. CASE ProposeLookup
  BY <1>8, ProposeLookupKeeps
<1>9. CASE ProposeTree
  BY <1>9, ProposeTreeKeeps
<1>10. CASE ProposeExternal
  BY <1>10, ProposeExternalKeeps
<1>11. CASE ProposePartial
  BY <1>11, ProposePartialKeeps
<1>12. CASE ProposeSidecarTree
  BY <1>12, ProposeSidecarTreeKeeps
<1>13. CASE Verify
  BY <1>13, VerifyKeeps
<1>14. CASE Emit
  BY <1>14, EmitKeeps
<1>15. CASE Correct
  BY <1>15, CorrectKeeps
<1>16. CASE Extend
  BY <1>16, ExtendKeeps
<1>17. CASE FinishRun
  BY <1>17, FinishRunKeeps
<1>18. CASE Exited \/ UNCHANGED vars
  <2>1. UNCHANGED vars
    BY <1>18 DEF Exited
  <2>2. /\ UNCHANGED <<path, cfg, pc, target, part, ext, pred, generated, position>>
        /\ UNCHANGED <<dynWidth, sidecarOn, window, cands, accepted, nextTok, emitted,
                       outputs>>
    BY <2>1 DEF vars, caches, pass
  <2>3. TypeOK <=> TypeOK'
    BY <2>2 DEF TypeOK
  <2>4. Right(generated, path) <=> (Right(generated, path))'
    BY <2>2
  <2>5. Speculating <=> Speculating'
    BY <2>2 DEF Speculating, Looping, Window, FellBack, Full
  <2>6. AtHead <=> AtHead'
    BY <2>2, <2>5 DEF AtHead
  <2>7. Proposed <=> Proposed'
    BY <2>2 DEF Proposed
  <2>8. Verified <=> Verified'
    BY <2>2 DEF Verified
  <2>9. Finished(generated) <=> (Finished(generated))'
    BY <2>2
  <2> QED BY <2>2, <2>3, <2>4, <2>6, <2>7, <2>8, <2>9 DEF IInv
<1> QED BY <1>1, <1>2, <1>3, <1>4, <1>5, <1>6, <1>7, <1>8, <1>9, <1>10, <1>11,
           <1>12, <1>13, <1>14, <1>15, <1>16, <1>17, <1>18 DEF Next

(* The inductive invariant.                                                *)
THEOREM Invariant == Spec => []IInv
<1>1. Init => IInv
  BY InitHolds
<1>2. IInv /\ [Next]_vars => IInv'
  BY StepKeeps
<1> QED BY <1>1, <1>2, PTL DEF Spec

(* No cache outgrows its capacity and no output the token limit, whatever  *)
(* the schedule, the widths and the proposals.                             *)
THEOREM TypeCorrect == Spec => []TypeOK
<1>1. IInv => TypeOK
  BY DEF IInv
<1> QED BY <1>1, Invariant, PTL

(* Every output is a prefix of the greedy one: speculation is lossless.    *)
THEOREM Lossless == Spec => []GreedyPrefix
<1>1. IInv => GreedyPrefix
  BY DEF IInv, Right, GreedyPrefix
<1> QED BY <1>1, Invariant, PTL

(* At the head of the loop the target's caches hold the prompt and the     *)
(* output and nothing else.                                                *)
THEOREM CommittedExactly == Spec => []TargetExact
<1>1. ASSUME IInv, pc = "loop"
      PROVE  target = [i \in 1..position |-> path[i]]
  <2>1. Holds(target, position, path) /\ position \in Nat
    BY <1>1 DEF IInv, AtHead, TypeOK
  <2>2. /\ target \in Seq(Token) /\ Len(target) = position
        /\ \A i \in 1..position : target[i] = path[i]
    BY <2>1 DEF Holds, Follows
  <2> QED BY <2>1, <2>2
<1>2. IInv => TargetExact
  BY <1>1 DEF IInv, AtHead, TargetExact
<1> QED BY <1>2, Invariant, PTL

(* A drafter that is asked for candidates holds what the target holds.     *)
THEOREM Aligned == Spec => []DraftersAligned
<1>1. ASSUME IInv, Speculating
      PROVE  /\ cfg.draftModel => ext = target
             /\ cfg.draftLayers => part = target
  <2>1. AtHead /\ position \in Nat
    BY <1>1 DEF IInv, Speculating, Looping, TypeOK
  <2>2. ASSUME NEW c, Holds(c, position, path) PROVE c = target
    <3>1. /\ target \in Seq(Token) /\ Len(target) = position
          /\ \A i \in 1..position : target[i] = path[i]
      BY <2>1 DEF AtHead, Holds, Follows
    <3>2. /\ c \in Seq(Token) /\ Len(c) = position
          /\ \A i \in 1..position : c[i] = path[i]
      BY <2>2 DEF Holds, Follows
    <3> QED BY <2>1, <3>1, <3>2
  <2> QED BY <1>1, <2>1, <2>2 DEF AtHead
<1>2. IInv => DraftersAligned
  BY <1>1 DEF DraftersAligned
<1> QED BY <1>2, Invariant, PTL

(* Every verification accepts at least the target's own first token.       *)
THEOREM Progress == Spec => []PassesProgress
<1>1. IInv => PassesProgress
  BY DEF IInv, Verified, PassesProgress
<1> QED BY <1>1, Invariant, PTL

(* The dynamic width grows only when a pass accepted its whole window.     *)
THEOREM WidthGrowth == Spec => GrowsAfterFullWindow
<1>1. ASSUME IInv, Next, pc # "prefill"
      PROVE  dynWidth' = dynWidth \/ Verify
  BY <1>1 DEF Next, Prefill, LoopEnds, GreedyStep, FallbackStep, NarrowStep, LookupMiss,
     MarginReject, ProposeLookup, ProposeTree, ProposeExternal, ProposePartial,
     ProposeSidecarTree, Propose, Fail, Emit, Correct, Extend, FinishRun, Exited, vars
<1>2. ASSUME IInv, Verify, dynWidth' > dynWidth
      PROVE  accepted' = window
  <2>1. /\ TypeOK /\ Proposed
    BY <1>2 DEF IInv, Verify
  <2>2. /\ window \in Nat /\ window >= 2 /\ dynWidth \in Nat /\ window <= dynWidth
        /\ cfg.width \in Nat /\ cfg.width >= 2
        /\ Len(cands) \in Nat /\ Len(cands) <= window
    <3>1. window \in Nat /\ dynWidth \in Nat /\ Len(cands) \in Nat
      BY <2>1 DEF TypeOK
    <3>2. window >= 2 /\ window <= dynWidth /\ Len(cands) <= window /\ cfg.lookahead
      BY <2>1 DEF Proposed
    <3>3. cfg.width \in Nat /\ cfg.width >= 2
      BY <2>1, <3>2, AcceptedOptions DEF FromEnv
    <3> QED BY <3>1, <3>2, <3>3
  <2>3. dynWidth' # dynWidth
    BY <1>2, <2>2
  <2>4. ~Fail
    BY <2>3 DEF Fail
  <2>5. PICK k \in 0..Len(cands) :
          /\ accepted' = AtMost(k, window)
          /\ dynWidth' = IF cfg.dynamic
                         THEN NextDynamicWidth(cfg.width, window, AtMost(k, window))
                         ELSE dynWidth
    BY <1>2, <2>4 DEF Verify
  <2>6. AtMost(k, window) \in 0..window
    BY <2>2 DEF AtMost
  <2>7. dynWidth' = NextDynamicWidth(cfg.width, window, accepted')
    BY <2>3, <2>5
  <2>8. accepted' # window => dynWidth' <= dynWidth /\ dynWidth' \in Nat
    <3>1. accepted' \in 0..window
      BY <2>5, <2>6
    <3> QED BY <2>2, <2>7, <3>1, DynamicWidth
  <2> QED BY <1>2, <2>2, <2>8
<1>3. IInv /\ [Next]_vars => [pc # "prefill" /\ dynWidth' > dynWidth => accepted' = window]_vars
  <2>1. SUFFICES ASSUME IInv, Next, pc # "prefill", dynWidth' > dynWidth
                 PROVE  accepted' = window
    OBVIOUS
  <2>2. dynWidth \in Nat
    BY <2>1 DEF IInv, TypeOK
  <2>3. Verify
    BY <1>1, <2>1, <2>2
  <2> QED BY <1>2, <2>1, <2>3
<1> QED BY <1>3, Invariant, PTL DEF Spec, GrowsAfterFullWindow

-----------------------------------------------------------------------------
(* One more token of the path is a step of the greedy run.                 *)
LEMMA GreedyEmits ==
  ASSUME IInv, pc # "end", Open(generated), Len(generated) < MaxNew,
         NEW tok, tok = path[PromptLen + Len(generated) + 1],
         generated' = Append(generated, tok), UNCHANGED <<path, outputs>>
  PROVE  Greedy!Emit
<1>1. generated \in Seq(Token) /\ MaxNew \in Nat /\ Len(outputs) < Runs
  BY SpeculationAssumption DEF IInv, TypeOK
<1>2. ~Greedy!Stopped
  <2>1. Len(generated) # MaxNew
    BY <1>1
  <2>2. ASSUME generated # <<>> PROVE generated[Len(generated)] # Eos
    <3>1. Len(generated) \in 1..Len(generated)
      BY <1>1, <2>2
    <3> QED BY <3>1 DEF Open
  <2> QED BY <2>1, <2>2 DEF Greedy!Stopped
<1> QED BY <1>1, <1>2 DEF Greedy!Emit

(* A canonical step is a step of the greedy run.                           *)
LEMMA CanonicalIsGreedy ==
  ASSUME IInv, Looping, NEW f \in BOOLEAN, Canonical(f), UNCHANGED <<path, outputs>>
  PROVE  Greedy!Emit
<1>1. generated' = Append(generated, pred)
  BY CanonicalStep
<1>2. pc = "loop" /\ AtHead /\ TypeOK /\ Len(generated) # MaxNew
  BY DEF Looping, Full, IInv
<1>3. /\ Open(generated) /\ Len(generated) < MaxNew
      /\ pred = path[PromptLen + Len(generated) + 1]
  BY <1>2, SpeculationAssumption DEF AtHead, TypeOK
<1> QED BY <1>1, <1>2, <1>3, GreedyEmits

(* Every step is a step of the greedy run or leaves its state alone.       *)
LEMMA StepIsGreedy ==
  ASSUME IInv, Next
  PROVE  Greedy!Next \/ UNCHANGED Greedy!vars
<1>1. CASE Prefill
  BY <1>1 DEF Prefill, IInv, Greedy!vars
<1>2. CASE GreedyStep \/ FallbackStep \/ NarrowStep \/ LookupMiss
  <2>1. Looping /\ UNCHANGED <<path, outputs>> /\ (Canonical(TRUE) \/ Canonical(FALSE))
    BY <1>2 DEF GreedyStep, FallbackStep, NarrowStep, LookupMiss, Speculating
  <2> QED BY <2>1, CanonicalIsGreedy DEF Greedy!Next
<1>3. CASE MarginReject
  <2>1. Looping
    BY <1>3 DEF MarginReject, Speculating
  <2>2. Fail \/ (Canonical(FALSE) /\ UNCHANGED <<path, outputs>>)
    BY <1>3 DEF MarginReject
  <2> QED BY <2>1, <2>2, CanonicalIsGreedy DEF Greedy!Next, Greedy!vars, Fail
<1>4. CASE \/ LoopEnds \/ ProposeLookup \/ ProposeTree \/ ProposeExternal
           \/ ProposePartial \/ ProposeSidecarTree \/ Verify \/ Extend \/ Exited
  <2>1. UNCHANGED <<path, generated, outputs>>
    BY <1>4 DEF LoopEnds, ProposeLookup, ProposeTree, ProposeExternal, ProposePartial,
       ProposeSidecarTree, Propose, Verify, Extend, Exited, Fail, vars
  <2> QED BY <2>1 DEF Greedy!vars
<1>5. CASE Emit
  <2>1. /\ pc = "emit" /\ generated' = Append(generated, cands[emitted + 1])
        /\ UNCHANGED <<path, outputs>>
    BY <1>5 DEF Emit
  <2>2. TypeOK /\ Verified
    BY <2>1 DEF IInv
  <2>3. /\ Open(generated) /\ Len(generated) < MaxNew /\ generated \in Seq(Token)
        /\ emitted \in Nat /\ accepted \in Nat /\ emitted < accepted
        /\ position \in Nat /\ PromptLen \in Nat
        /\ position + emitted = PromptLen + Len(generated)
        /\ \A j \in 1..accepted : cands[j] = path[position + j]
    BY <2>1, <2>2, SpeculationAssumption DEF TypeOK, Verified
  <2>4. cands[emitted + 1] = path[PromptLen + Len(generated) + 1]
    <3>1. emitted + 1 \in 1..accepted
          /\ position + (emitted + 1) = PromptLen + Len(generated) + 1
      BY <2>3
    <3> QED BY <2>3, <3>1
  <2>5. Greedy!Emit
    BY <2>1, <2>3, <2>4, GreedyEmits
  <2> QED BY <2>5 DEF Greedy!Next
<1>6. CASE Correct
  <2>1. /\ pc = "correct"
        /\ UNCHANGED <<path, outputs>>
        /\ generated' = Append(generated, nextTok) \/ generated' = generated
    BY <1>6 DEF Correct, Fail
  <2>2. CASE generated' = generated
    BY <2>1, <2>2 DEF Greedy!vars
  <2>3. CASE generated' = Append(generated, nextTok)
    <3>1. /\ Open(generated) /\ Len(generated) < MaxNew
          /\ nextTok = path[PromptLen + Len(generated) + 1]
      BY <2>1, AfterPass
    <3>2. Greedy!Emit
      BY <2>1, <2>3, <3>1, GreedyEmits
    <3> QED BY <3>2 DEF Greedy!Next
  <2> QED BY <2>1, <2>2, <2>3
<1>7. CASE FinishRun
  <2>1. /\ pc = "done" /\ outputs' = Append(outputs, generated) /\ generated' = <<>>
        /\ UNCHANGED path
    BY <1>7 DEF FinishRun
  <2>2. Finished(generated) /\ Len(outputs) < Runs
    BY <2>1 DEF IInv
  <2>3. Greedy!FinishRun
    BY <2>1, <2>2 DEF Greedy!FinishRun, Greedy!Stopped, Finished
  <2> QED BY <2>3 DEF Greedy!Next
<1> QED BY <1>1, <1>2, <1>3, <1>4, <1>5, <1>6, <1>7 DEF Next

(* Every schedule refines the greedy run: each step adds the next token of *)
(* the greedy path to the output, ends the output where greedy decoding    *)
(* ends it, or leaves it alone.                                            *)
THEOREM RefinesGreedy == Spec => Greedy!Safety
<1>1. Init => Greedy!Init
  BY DEF Init, Greedy!Init
<1>2. IInv /\ [Next]_vars => [Greedy!Next]_(Greedy!vars)
  <2>1. SUFFICES ASSUME IInv, [Next]_vars
                 PROVE  Greedy!Next \/ UNCHANGED Greedy!vars
    OBVIOUS
  <2>2. CASE UNCHANGED vars
    BY <2>2 DEF vars, Greedy!vars
  <2> QED BY <2>1, <2>2, StepIsGreedy
<1> QED BY <1>1, <1>2, Invariant, PTL DEF Spec, Greedy!Safety

-----------------------------------------------------------------------------
(* With a drafter, a lookup or a tree selected, no check the caches, the   *)
(* drafters and the verifier make on positions and capacity fails.         *)
LEMMA DraftersFit ==
  ASSUME IInv, Speculating
  PROVE  /\ cfg.draftModel => Fits(ext, position, Window)
         /\ cfg.draftLayers => /\ Fits(part, position, Window - 1)
                               /\ Fits(part, position, 1)
                               /\ Window > 2 => Fits(part, position, 2)
<1>1. /\ AtHead /\ Window \in Nat /\ Window >= 2
      /\ position \in Nat /\ MaxContext \in Nat /\ position + Window <= MaxContext
  BY WindowRange
<1>2. /\ cfg.draftModel => Len(ext) = position
      /\ cfg.draftLayers => Len(part) = position
  BY <1>1 DEF AtHead, Holds
<1> QED BY <1>1, <1>2 DEF Fits

(* The target has room for the candidates, and a rollback rewinds the      *)
(* drafter to tokens it holds.                                             *)
LEMMA VerifyFits ==
  ASSUME IInv, Verify
  PROVE  pc' # "error"
<1>1. pc = "verify" /\ TypeOK /\ Proposed
  BY DEF Verify, IInv
<1>2. /\ position \in Nat /\ MaxContext \in Nat /\ window \in Nat /\ window >= 2
      /\ Len(cands) \in Nat /\ Len(cands) <= window
      /\ position + window <= MaxContext /\ Len(target) = position
      /\ cfg.draftLayers => Len(part) = position + AtMost(Len(cands), window - 1)
  <2>1. /\ position \in Nat /\ MaxContext \in Nat /\ window \in Nat
        /\ Len(cands) \in Nat
    BY <1>1, SpeculationAssumption DEF TypeOK
  <2>2. /\ window >= 2 /\ Len(cands) <= window /\ position + window <= MaxContext
        /\ Len(target) = position
    BY <1>1 DEF Proposed, Holds
  <2>3. cfg.draftLayers => Len(part) = position + AtMost(Len(cands), window - 1)
    BY <1>1 DEF Proposed, Drafted
  <2> QED BY <2>1, <2>2, <2>3
<1>3. Fits(target, position, Len(cands))
  BY <1>2 DEF Fits
<1>4. PICK k \in 0..Len(cands) :
       IF cfg.draftLayers /\ k < Len(cands) /\ position + k > Len(part) THEN Fail
       ELSE pc' \in {"correct", "emit"}
  BY <1>3 DEF Verify
<1>5. ~(cfg.draftLayers /\ k < Len(cands) /\ position + k > Len(part))
  <2>1. SUFFICES ASSUME cfg.draftLayers, k < Len(cands), position + k > Len(part)
                 PROVE  FALSE
    OBVIOUS
  <2>2. Len(part) = position + AtMost(Len(cands), window - 1)
    BY <1>2, <2>1
  <2>3. k <= AtMost(Len(cands), window - 1) /\ AtMost(Len(cands), window - 1) \in Nat
    BY <1>2, <2>1 DEF AtMost
  <2> QED BY <1>2, <2>1, <2>2, <2>3
<1> QED BY <1>4, <1>5

(* The verifier's token fits behind the accepted prefix.                   *)
LEMMA CorrectFits ==
  ASSUME IInv, Correct
  PROVE  pc' # "error"
<1>1. pc = "correct"
  BY DEF Correct
<1>2. /\ TypeOK /\ Verified
      /\ position \in Nat /\ accepted \in Nat /\ window \in Nat /\ MaxContext \in Nat
      /\ position + window <= MaxContext
      /\ Len(target) = position + accepted
      /\ (cfg.sidecar \/ cfg.draftLayers) => cfg.draftLayers
  BY <1>1, AfterPass DEF Holds
<1>3. accepted < window /\ AtMost(accepted, window - 1) = accepted
  BY <1>1, <1>2 DEF Verified, AtMost
<1>4. Fits(target, position + accepted, 1)
  BY <1>2, <1>3 DEF Fits
<1>5. cfg.draftModel => position + accepted <= Len(ext)
  BY <1>2 DEF Verified, Follows
<1>6. (cfg.sidecar \/ cfg.draftLayers) => position + accepted <= Len(part)
  <2>1. cfg.draftLayers => Len(part) = position + accepted
    BY <1>2, <1>3 DEF Verified, Holds
  <2> QED BY <1>2, <2>1
<1>7. \/ pc' = "done"
      \/ pc' = "loop"
      \/ ~ /\ Fits(target, position + accepted, 1)
           /\ cfg.draftModel => position + accepted <= Len(ext)
           /\ (cfg.sidecar \/ cfg.draftLayers) => position + accepted <= Len(part)
  BY DEF Correct
<1>8. pc' = "done" \/ pc' = "loop"
  BY <1>4, <1>5, <1>6, <1>7, Zenon
<1> QED BY <1>8

(* The drafter that catches up lacks exactly the last candidate.           *)
LEMMA ExtendFits ==
  ASSUME IInv, Extend
  PROVE  pc' # "error"
<1>1. pc = "extend"
  BY DEF Extend
<1>2. /\ TypeOK /\ Verified
      /\ position \in Nat /\ accepted \in Nat /\ window \in Nat /\ MaxContext \in Nat
      /\ position + window <= MaxContext
      /\ (cfg.sidecar \/ cfg.draftLayers) => cfg.draftLayers
  BY <1>1, AfterPass
<1>3. accepted = window /\ window >= 2
  BY <1>1, <1>2 DEF Verified
<1>4. AtMost(accepted, window - 1) = window - 1
  BY <1>2, <1>3 DEF AtMost
<1>5. cfg.draftLayers => Len(part) = position + accepted - 1
  BY <1>2, <1>3, <1>4 DEF Verified, Holds
<1>6. (cfg.sidecar \/ cfg.draftLayers) => Fits(part, (position + accepted) - 1, 1)
  BY <1>2, <1>3, <1>5 DEF Fits
<1>7. pc' = "loop"
  BY <1>6 DEF Extend
<1> QED BY <1>7

(* Of all schedules but the Jacobi control no run ends in an error: none   *)
(* of the position and capacity checks of the caches, the drafters and     *)
(* the verifier fails.                                                     *)
THEOREM NeverFails ==
  ASSUME \A c \in Configs : ~IsJacobi(c)
  PROVE  Spec => []NoInternalError
<1>1. Init => NoInternalError
  BY DEF Init, NoInternalError
<1>2. ASSUME IInv, NoInternalError, Next
      PROVE  NoInternalError'
  <2>1. CASE GreedyStep \/ FallbackStep \/ NarrowStep \/ LookupMiss
    <3>1. Looping /\ (Canonical(TRUE) \/ Canonical(FALSE))
      BY <2>1 DEF GreedyStep, FallbackStep, NarrowStep, LookupMiss, Speculating
    <3>2. pc' \in {"loop", "done"}
      BY <1>2, <3>1, CanonicalStep
    <3> QED BY <3>2 DEF NoInternalError
  <2>2. CASE MarginReject
    <3>1. Looping /\ Speculating /\ cfg.lookahead /\ cfg.margin /\ TypeOK
      BY <1>2, <2>2 DEF MarginReject, Speculating, IInv
    <3>2. cfg.draftLayers
      BY <3>1, AcceptedOptions DEF FromEnv
    <3>3. Fits(part, position, 1)
      BY <1>2, <3>1, <3>2, DraftersFit
    <3>4. Canonical(FALSE)
      BY <2>2, <3>3 DEF MarginReject
    <3>5. pc' \in {"loop", "done"}
      BY <1>2, <3>1, <3>4, CanonicalStep
    <3> QED BY <3>5 DEF NoInternalError
  <2>3. CASE ProposeExternal
    <3>1. Fits(ext, position, Window)
      BY <1>2, <2>3, DraftersFit DEF ProposeExternal
    <3> QED BY <2>3, <3>1 DEF ProposeExternal, Propose, NoInternalError
  <2>4. CASE ProposePartial
    <3>1. Speculating /\ cfg \in Configs /\ cfg.lookahead
      BY <1>2, <2>4 DEF ProposePartial, Speculating, IInv, TypeOK
    <3>2. cfg.draftLayers
      BY <2>4, <3>1 DEF ProposePartial, IsJacobi
    <3>3. Fits(part, position, Window - 1)
      BY <1>2, <3>1, <3>2, DraftersFit
    <3> QED BY <2>4, <3>2, <3>3 DEF ProposePartial, Propose, NoInternalError
  <2>5. CASE ProposeSidecarTree
    <3>1. Speculating /\ cfg.sidecarTree /\ Window >= SidecarTreeWidth
      BY <2>5 DEF ProposeSidecarTree, TreeSidecar
    <3>2. TypeOK /\ cfg.lookahead /\ Window \in Nat
      BY <1>2, <3>1, WindowRange
    <3>3. cfg.draftLayers /\ Window > 2
      BY <3>1, <3>2, AcceptedOptions, SpeculationAssumption DEF FromEnv
    <3>4. Fits(part, position, 2)
      BY <1>2, <3>1, <3>3, DraftersFit
    <3> QED BY <2>5, <3>4 DEF ProposeSidecarTree, Propose, NoInternalError
  <2>6. CASE Verify \/ Correct \/ Extend
    BY <1>2, <2>6, VerifyFits, CorrectFits, ExtendFits DEF NoInternalError
  <2>7. CASE \/ Prefill \/ LoopEnds \/ ProposeLookup \/ ProposeTree
             \/ Emit \/ FinishRun \/ Exited
    BY <1>2, <2>7 DEF Prefill, LoopEnds, ProposeLookup, ProposeTree, Propose, Emit,
       FinishRun, Exited, vars, NoInternalError
  <2> QED BY <1>2, <2>1, <2>2, <2>3, <2>4, <2>5, <2>6, <2>7 DEF Next
<1>3. IInv /\ NoInternalError /\ [Next]_vars => NoInternalError'
  BY <1>2 DEF vars, NoInternalError
<1> QED BY <1>1, <1>3, Invariant, PTL DEF Spec
=============================================================================
