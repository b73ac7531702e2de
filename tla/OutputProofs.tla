------------------------------ MODULE OutputProofs -----------------------------
(***************************************************************************)
(* What becomes of an output, for every output and every set of texts,     *)
(* scores and limits: what the weights of the quality model guarantee,     *)
(* that cleaning keeps the balance of brackets and an honest confidence,   *)
(* that the static check accepts exactly what nests, and that the          *)
(* beautifier's blanks and line breaks are read as the program.            *)
(***************************************************************************)
EXTENDS Quality, MultiPass, Validate, Beautify, Lemmas

--------------------------------------------------------------------------------
(* The scores.                                                             *)

(* A clamped measure is a percentage.                                      *)
LEMMA ClampedScore == \A n \in Int : clamp01(n) \in 0..100
BY DEF clamp01, minimum, maximum

(* The four measures besides syntax are percentages.                       *)
LEMMA Percentages ==
  ASSUME NEW p \in Profiles
  PROVE  /\ readabilityScore(p) \in 0..100
         /\ recoveryScore(p) \in 0..100
         /\ residualObfuscationScore(p) \in 0..100
         /\ p.residue \in 0..100
<1>0. /\ p.bytes \in Nat /\ p.inputBytes \in Nat \ {0} /\ p.lines \in Nat
      /\ p.nonWhitespaceChars \in Nat /\ p.functionCount \in Nat /\ p.stringLiterals \in Nat
      /\ p.longStrings \in Nat /\ p.comments \in Nat /\ p.residualMarkers \in Nat
      /\ p.hexEscapes \in Nat /\ p.crypticTenths \in 0..10 /\ p.residue \in 0..100
  BY QualityAssumption
<1>1. readabilityScore(p) \in 0..100
  BY <1>0, ClampedScore DEF readabilityScore, points, minimum
<1>2. recoveryScore(p) \in 0..100
  <2>1. reduction(p) \in Int
    BY <1>0 DEF reduction
  <2> QED
    BY <1>0, <2>1, ClampedScore DEF recoveryScore, points, minimum
<1>3. residualObfuscationScore(p) \in 0..100
  <2>1. p.residualMarkers \div 2 \in Int
    BY <1>0
  <2> QED
    BY <1>0, <2>1, ClampedScore DEF residualObfuscationScore, points, minimum
<1> QED
  BY <1>0, <1>1, <1>2, <1>3

(* A source that parses gets full marks for syntax, one error costs half   *)
(* of them and three cost nine tenths.                                     *)
LEMMA SyntaxGrades ==
  ASSUME NEW p \in Profiles
  PROVE  /\ syntaxScore(p) \in 0..100
         /\ p.syntaxErrors = 0 => syntaxScore(p) = 100
         /\ p.syntaxErrors >= 1 => syntaxScore(p) <= 50
         /\ p.syntaxErrors >= 3 => syntaxScore(p) = 10
BY QualityAssumption DEF syntaxScore

(* A broken output outranks a valid one only by beating it on two of the   *)
(* four other measures, one with three errors or more on three: what the   *)
(* weights of scoreOutputDetailed allow.                                   *)
THEOREM BrokenMustEarnItAlways == ScoreSpec => []BrokenMustEarnIt
<1>1. ASSUME a \in Profiles, b \in Profiles PROVE BrokenMustEarnIt
  <2> SUFFICES ASSUME a.syntaxErrors = 0, scoreOutputDetailed(b) > scoreOutputDetailed(a)
               PROVE  /\ b.syntaxErrors >= 1 => better >= 2
                      /\ b.syntaxErrors >= 3 => better >= 3
    BY DEF BrokenMustEarnIt
  <2>1. PICK ra \in 0..100, ca \in 0..100, oa \in 0..100, ma \in 0..100 :
          /\ ra = readabilityScore(a) /\ ca = recoveryScore(a)
          /\ oa = residualObfuscationScore(a) /\ ma = a.residue
    BY <1>1, Percentages
  <2>2. PICK rb \in 0..100, cb \in 0..100, ob \in 0..100, mb \in 0..100 :
          /\ rb = readabilityScore(b) /\ cb = recoveryScore(b)
          /\ ob = residualObfuscationScore(b) /\ mb = b.residue
    BY <1>1, Percentages
  <2>3. PICK s \in 0..100 :
          /\ s = syntaxScore(b)
          /\ b.syntaxErrors >= 1 => s <= 50
          /\ b.syntaxErrors >= 3 => s <= 10
    BY <1>1, SyntaxGrades
  <2>4. 40 * s + 18 * rb + 18 * cb + 10 * ob + 14 * mb
          > 40 * 100 + 18 * ra + 18 * ca + 10 * oa + 14 * ma
    BY <1>1, <2>1, <2>2, <2>3, SyntaxGrades DEF scoreOutputDetailed
  <2>5. PICK gr \in 0..1, gc \in 0..1, go \in 0..1, gm \in 0..1 :
          /\ gr = beats(rb, ra) /\ gc = beats(cb, ca) /\ go = beats(ob, oa) /\ gm = beats(mb, ma)
          /\ rb - ra <= 100 * gr /\ cb - ca <= 100 * gc
          /\ ob - oa <= 100 * go /\ mb - ma <= 100 * gm
    BY DEF beats
  <2>6. better = gr + gc + go + gm
    BY <2>1, <2>2, <2>5 DEF better
  <2>7. PICK n \in Int : n = gr + gc + go + gm
    OBVIOUS
  <2>8. 40 * s + 1800 * n > 4000
    BY <2>4, <2>5, <2>7
  <2> QED
    BY <2>3, <2>6, <2>7, <2>8
<1>2. ScoreInit => a \in Profiles /\ b \in Profiles
  BY DEF ScoreInit
<1>3. (a \in Profiles /\ b \in Profiles) /\ [ScoreNext]_<<a, b>> => (a \in Profiles /\ b \in Profiles)'
  BY DEF ScoreNext
<1> QED
  BY <1>1, <1>2, <1>3, PTL DEF ScoreSpec

(* No source scores above 0.90, so that the early exit of runMultiPass at  *)
(* 0.985 is never taken: the model of it (MultiPass) assumes this.         *)
THEOREM ScoreBelowExit == \A p \in Profiles : scoreLuaSource(p) \in 0..90
<1> SUFFICES ASSUME NEW p \in Profiles PROVE scoreLuaSource(p) \in 0..90
  OBVIOUS
<1> DEFINE sum == 20 + points(p.balanced, 20)
             + points(p.functionCount > 0, 10)
             + points(100 * p.nonWhitespaceChars > 35 * p.bytes, 10)
             + points(p.stringLiterals < maximum(25, 20 * p.functionCount), 10)
             + points(p.suspiciousVmTokens = 0, 15)
             + points(p.lines >= 2, 5)
             - points(p.bytes < 32, 20)
             - points(p.suspiciousVmTokens > 100, 15)
<1>1. sum \in Int /\ sum <= 90
  BY DEF points
<1>2. \A n \in Int : n <= 90 => clamp01(n) \in 0..90
  BY DEF clamp01, minimum, maximum
<1>3. scoreLuaSource(p) = clamp01(sum)
  BY DEF scoreLuaSource
<1> HIDE DEF sum
<1> QED
  BY <1>1, <1>2, <1>3

--------------------------------------------------------------------------------
(* The cleaning rounds.                                                    *)

(* Of the results: before the first round has ended, the best is the       *)
(* engine's own.                                                           *)
IInv ==
  /\ base \in [output : Texts, confidence : 0..100] /\ pass \in Nat \ {0}
  /\ best \in [output : Texts, confidence : 0..100] /\ current \in Texts
  /\ best.confidence >= minimum(99, base.confidence)
  /\ best.confidence <= maximum(99, base.confidence)
  /\ pc \notin {"done", "failed"} /\ pass = 1 => best = base
  /\ best.confidence > base.confidence => pass > 1 \/ best.output # base.output

(* What a test lets through is balanced.                                   *)
LEMMA AcceptedBalanced ==
  ASSUME NEW p, NEW c, NEW t, accepted(p, c, t)
  PROVE  t \in balanced
  BY MultiPassAssumption DEF accepted, scoresAsWell

(* The confidence of a cleaned text is that of the engine or more, up to   *)
(* 99.                                                                     *)
LEMMA ImprovedConfidence ==
  ASSUME NEW t \in Texts, NEW gain \in Nat, base.confidence \in 0..100
  PROVE  /\ improved(t, gain) \in [output : Texts, confidence : 0..100]
         /\ improved(t, gain).output = t
         /\ improved(t, gain).confidence >= minimum(99, base.confidence)
         /\ improved(t, gain).confidence <= 99
  BY DEF improved, minimum, maximum

(* Whatever the steps make of a text, the output is the engine's own or    *)
(* bracket-balanced.                                                       *)
THEOREM KeepsBalanceCorrect == Spec => []KeepsBalance
<1>1. Init => KeepsBalance
  BY DEF Init, KeepsBalance
<1>2. KeepsBalance /\ [Next]_vars => KeepsBalance'
  <2> SUFFICES ASSUME KeepsBalance, [Next]_vars PROVE KeepsBalance'
    OBVIOUS
  <2>1. ASSUME NEW p, NEW next, rewrite(p, next) PROVE KeepsBalance'
    BY <2>1, AcceptedBalanced DEF rewrite, KeepsBalance
  <2>2. CASE \/ foldConstants \/ resolveModernVm \/ inlineTables \/ flattenStates
             \/ recoverFunctionLevel \/ recoverBinaryTree \/ recoverControlFlow
             \/ recoverIdentifiers \/ renameLocals
    BY <2>1, <2>2 DEF foldConstants, resolveModernVm, inlineTables, flattenStates,
      recoverFunctionLevel, recoverBinaryTree, recoverControlFlow, recoverIdentifiers, renameLocals
  <2>3. CASE RejectTruncated \/ RejectUnbalanced \/ GenericThrows \/ Finished \/ UNCHANGED vars
    BY <2>3 DEF RejectTruncated, RejectUnbalanced, GenericThrows, Finished, vars, KeepsBalance
  <2>4. CASE KeepRewrites
    BY <2>4 DEF KeepRewrites, improved, KeepsBalance
  <2>5. CASE Accept
    BY <2>5 DEF Accept, improved, KeepsBalance
  <2> QED BY <2>2, <2>3, <2>4, <2>5 DEF Next
<1> QED BY <1>1, <1>2, PTL DEF Spec

(* Every step keeps it.                                                    *)
LEMMA IInvInvariant == Spec => []IInv
<1>1. Init => IInv
  <2> SUFFICES ASSUME Init PROVE IInv
    OBVIOUS
  <2>1. PICK x \in Texts, n \in 0..100 : base = [output |-> x, confidence |-> n]
    BY MultiPassAssumption DEF Init
  <2>2. base \in [output : Texts, confidence : 0..100] /\ base.output = x /\ base.confidence = n
    BY <2>1
  <2>3. minimum(99, n) <= n /\ n <= maximum(99, n) /\ ~(n > n)
    BY DEF minimum, maximum
  <2>4. best = base /\ current = x /\ pass = 1
    BY <2>2 DEF Init
  <2> QED BY <2>2, <2>3, <2>4 DEF IInv
<1>2. IInv /\ [Next]_vars => IInv'
  <2> SUFFICES ASSUME IInv, [Next]_vars PROVE IInv'
    OBVIOUS
  <2> USE DEF IInv
  <2>1. ASSUME NEW p, NEW next, next \notin {"done", "failed"}, p \notin {"done", "failed"},
               rewrite(p, next)
        PROVE  IInv'
    BY <2>1 DEF rewrite
  <2>2. CASE \/ foldConstants \/ resolveModernVm \/ inlineTables \/ flattenStates
             \/ recoverFunctionLevel \/ recoverBinaryTree \/ recoverControlFlow
             \/ recoverIdentifiers \/ renameLocals
    BY <2>1, <2>2 DEF foldConstants, resolveModernVm, inlineTables, flattenStates,
      recoverFunctionLevel, recoverBinaryTree, recoverControlFlow, recoverIdentifiers, renameLocals
  <2>3. CASE RejectTruncated \/ RejectUnbalanced \/ GenericThrows \/ Finished \/ UNCHANGED vars
    BY <2>3 DEF RejectTruncated, RejectUnbalanced, GenericThrows, Finished, stop, vars
  <2>4. CASE KeepRewrites
    <3>1. pc' = "done" /\ UNCHANGED <<pass, base, current>> /\ pc = "generic"
      BY <2>4 DEF KeepRewrites, stop
    <3>2. CASE current = best.output
      BY <2>4, <3>1, <3>2 DEF KeepRewrites
    <3>3. CASE current # best.output
      <4>1. best' = improved(current, 2)
        BY <2>4, <3>3 DEF KeepRewrites
      <4>2. /\ best' \in [output : Texts, confidence : 0..100]
            /\ best'.output = current
            /\ best'.confidence >= minimum(99, base.confidence)
            /\ best'.confidence <= 99
        BY <4>1, ImprovedConfidence
      <4>3. best'.confidence <= maximum(99, base.confidence)
        BY <4>2 DEF maximum
      <4>4. pass > 1 \/ current # base.output
        BY <3>1, <3>3
      <4> QED BY <3>1, <4>2, <4>3, <4>4 DEF minimum, maximum
    <3> QED BY <3>2, <3>3
  <2>5. CASE Accept
    <3>1. /\ pass' = pass + 1 /\ UNCHANGED base /\ current' \in Texts
          /\ best' = best \/ best' = improved(current', maximum(0, delta(current')))
      BY <2>5, MultiPassAssumption DEF Accept
    <3>2. delta(current') \in Int
      BY <3>1, MultiPassAssumption DEF delta
    <3>3. maximum(0, delta(current')) \in Nat
      BY <3>2 DEF maximum
    <3>4. /\ best' \in [output : Texts, confidence : 0..100]
          /\ best'.confidence >= minimum(99, base.confidence)
          /\ best'.confidence <= maximum(99, base.confidence)
      <4>1. CASE best' = best
        BY <4>1
      <4>2. CASE best' = improved(current', maximum(0, delta(current')))
        <5>1. base.confidence \in 0..100
          OBVIOUS
        <5>2. /\ best' \in [output : Texts, confidence : 0..100]
              /\ best'.confidence >= minimum(99, base.confidence)
              /\ best'.confidence <= 99
          BY <4>2, <5>1, <3>1, <3>3, ImprovedConfidence
        <5>3. best'.confidence <= maximum(99, base.confidence)
          BY <5>1, <5>2 DEF maximum
        <5> QED BY <5>2, <5>3
      <4> QED BY <3>1, <4>1, <4>2
    <3> QED BY <3>1, <3>4 DEF minimum, maximum
  <2> QED BY <2>2, <2>3, <2>4, <2>5 DEF Next
<1> QED BY <1>1, <1>2, PTL DEF Spec

(* Confidence never falls below the engine's, never becomes certainty, and *)
(* is raised only for a text that was rewritten.                           *)
THEOREM ConfidenceCorrect == Spec => []ConfidenceOfBase
<1>1. IInv => ConfidenceOfBase
  BY DEF IInv, ConfidenceOfBase
<1> QED BY <1>1, IInvInvariant, PTL

(* Both at once: what the orchestrator is handed can be trusted, whatever  *)
(* the passes made of it.                                                  *)
THEOREM OutputTrustedCorrect == Spec => []OutputTrusted
<1>1. KeepsBalance /\ ConfidenceOfBase => OutputTrusted
  BY DEF OutputTrusted
<1> QED BY <1>1, KeepsBalanceCorrect, ConfidenceCorrect, PTL

(* A text replaces the best of the rounds before only when it scores at    *)
(* least as well; only what ends the run is kept whatever it scores.       *)
THEOREM BestImproves == Spec => BestOnlyImproves
<1> DEFINE Improves == pc' # "done" \/ pass' # pass => score[best'.output] >= score[best.output]
<1>1. IInv /\ [Next]_vars => [Improves]_vars
  <2> SUFFICES ASSUME IInv, Next PROVE Improves
    OBVIOUS
  <2>1. score[best.output] \in 0..90
    BY MultiPassAssumption DEF IInv
  <2>2. CASE best' = best
    BY <2>1, <2>2
  <2>3. ASSUME NEW p, NEW next, rewrite(p, next) PROVE Improves
    BY <2>2, <2>3 DEF rewrite
  <2>4. CASE \/ foldConstants \/ resolveModernVm \/ inlineTables \/ flattenStates
             \/ recoverFunctionLevel \/ recoverBinaryTree \/ recoverControlFlow
             \/ recoverIdentifiers \/ renameLocals
    BY <2>3, <2>4 DEF foldConstants, resolveModernVm, inlineTables, flattenStates,
      recoverFunctionLevel, recoverBinaryTree, recoverControlFlow, recoverIdentifiers, renameLocals
  <2>5. CASE RejectTruncated \/ RejectUnbalanced \/ GenericThrows \/ Finished
    BY <2>2, <2>5 DEF RejectTruncated, RejectUnbalanced, GenericThrows, Finished, vars
  <2>6. CASE KeepRewrites
    BY <2>6 DEF KeepRewrites, stop
  <2>7. CASE Accept
    <3>1. PICK t \in balanced : best' = IF score[t] >= score[best.output]
                                        THEN improved(t, maximum(0, delta(t))) ELSE best
      BY <2>7 DEF Accept
    <3>2. improved(t, maximum(0, delta(t))).output = t
      BY DEF improved
    <3> QED BY <2>2, <3>1, <3>2
  <2> QED BY <2>4, <2>5, <2>6, <2>7 DEF Next
<1>2. Spec => [][Improves]_vars
  <2> HIDE DEF Improves
  <2> QED BY <1>1, IInvInvariant, PTL DEF Spec
<1> QED BY <1>2, PTL DEF BestOnlyImproves

--------------------------------------------------------------------------------
(* The static check. The reference says which stretches of a source nest;  *)
(* the proof runs one stack over the source and shows that the run ends    *)
(* empty exactly if all of it nests, and that the stacks of the code       *)
(* follow such runs until a token is blamed.                               *)

(* The stretch from i to j nests if E says what the shorter ones from      *)
(* later positions do: the recursion of Nested.                            *)
stretch(i, j, O, C, R, E) ==
  \/ i \notin R /\ j \in E[i + 1]
  \/ i \in O /\ \E k \in (i + 1)..j : <<i, k>> \in C /\ k - 1 \in E[i + 1] /\ j \in E[k + 1]

(* E says of every position of a text of L tokens where the stretches that *)
(* nest and start there end.                                               *)
Ends(E, L, O, C, R) == E = [i \in 1..(L + 1) |-> {i - 1} \cup {j \in i..L : stretch(i, j, O, C, R, E)}]

(* Positions O open something, C pairs them with positions that close it,  *)
(* and R are all of these.                                                 *)
Pairing(L, O, C, R) == O \subseteq R /\ R \subseteq 1..L /\ C \subseteq O \X (R \ O)

(* What such a function says of one stretch.                               *)
LEMMA EndsAre ==
  ASSUME NEW L \in Nat, NEW O, NEW C, NEW R, NEW E, Ends(E, L, O, C, R)
  PROVE  \A i \in 1..(L + 1) : \A j : j \in E[i] <=> j = i - 1 \/ (j \in i..L /\ stretch(i, j, O, C, R, E))
  BY DEF Ends

(* Such a function exists.                                                 *)
LEMMA EndsExist ==
  ASSUME NEW L \in Nat, NEW O, NEW C, NEW R
  PROVE  \E E : Ends(E, L, O, C, R)
  <1> DEFINE A == [1..(L + 1) -> SUBSET (0..L)]
             ends(i, g) == {i - 1} \cup {j \in i..L : stretch(i, j, O, C, R, g)}
             G == [p \in (1..(L + 1)) \X A |-> [p[2] EXCEPT ![L + 2 - p[1]] = ends(L + 2 - p[1], p[2])]]
             none == [i \in 1..(L + 1) |-> {}]
  <1>1. \A i \in 1..(L + 1) : \A g : ends(i, g) \in SUBSET (0..L)
    OBVIOUS
  <1>2. none \in A
    OBVIOUS
  <1> HIDE DEF ends
  <1>3. G \in [(1..(L + 1)) \X A -> A]
    <2>1. ASSUME NEW m \in 1..(L + 1), NEW g \in A
          PROVE  [g EXCEPT ![L + 2 - m] = ends(L + 2 - m, g)] \in A
      <3>1. L + 2 - m \in 1..(L + 1)
        OBVIOUS
      <3>2. ends(L + 2 - m, g) \in SUBSET (0..L)
        BY <1>1, <3>1
      <3>. QED  BY <3>2
    <2>. QED  BY <2>1
  <1>4. \A m \in 1..(L + 1) : \A g \in A : G[<<m, g>>] = [g EXCEPT ![L + 2 - m] = ends(L + 2 - m, g)]
    OBVIOUS
  <1> HIDE DEF G, A
  <1>5. PICK f \in [0..(L + 1) -> A] : Steps(f, L + 1, none, G)
    <2>1. L + 1 \in Nat
      OBVIOUS
    <2>. QED  BY <1>2, <1>3, <2>1, StepsExist
  <1>6. \A m \in 1..(L + 1) : f[m - 1] \in A /\ f[m] = [f[m - 1] EXCEPT ![L + 2 - m] = ends(L + 2 - m, f[m - 1])]
    <2>1. \A m \in 1..(L + 1) : f[m] = G[<<m, f[m - 1]>>] /\ m - 1 \in 0..(L + 1)
      BY <1>5 DEF Steps
    <2>. QED  BY <1>4, <2>1
  <1>7. \A m \in 1..(L + 1) : /\ f[m][L + 2 - m] = ends(L + 2 - m, f[m - 1])
                              /\ \A i \in 1..(L + 1) : i # L + 2 - m => f[m][i] = f[m - 1][i]
    <2>1. \A m \in 1..(L + 1) : L + 2 - m \in 1..(L + 1)
      OBVIOUS
    <2>. QED  BY <1>6, <2>1 DEF A
  <1>8. ASSUME NEW i \in 1..(L + 1)
        PROVE  \A m \in 0..(L + 1) : m >= L + 2 - i => f[m][i] = ends(i, f[L + 1 - i])
    <2> DEFINE S == {m \in 0..(L + 1) : m >= L + 2 - i => f[m][i] = ends(i, f[L + 1 - i])}
    <2>1. 0 \in S
      OBVIOUS
    <2>2. ASSUME NEW m \in 1..(L + 1), m - 1 \in S
          PROVE  m \in S
      <3>1. CASE m = L + 2 - i
        BY <1>7, <3>1
      <3>2. CASE m # L + 2 - i
        BY <1>7, <2>2, <3>2
      <3>. QED  BY <3>1, <3>2
    <2> HIDE DEF S
    <2>3. \A m \in 0..(L + 1) : m \in S
      BY <2>1, <2>2, UpTo
    <2>. QED  BY <2>3 DEF S
  <1> DEFINE E == f[L + 1]
  <1>9. ASSUME NEW i \in 1..(L + 1)
        PROVE  E[i] = ends(i, E)
    <2> DEFINE g == f[L + 1 - i]
    <2>1. E[i] = ends(i, g)
      BY <1>8
    <2>2. ASSUME NEW q \in (i + 1)..(L + 1)
          PROVE  g[q] = E[q]
      <3>1. L + 1 - i \in 0..(L + 1) /\ L + 1 - i >= L + 2 - q /\ L + 1 \in 0..(L + 1) /\ L + 1 >= L + 2 - q
        OBVIOUS
      <3>2. q \in 1..(L + 1)
        OBVIOUS
      <3>. QED  BY <1>8, <3>1, <3>2
    <2> HIDE DEF E, g
    <2>3. \A j \in i..L : stretch(i, j, O, C, R, g) <=> stretch(i, j, O, C, R, E)
      <3>1. ASSUME NEW j \in i..L
            PROVE  stretch(i, j, O, C, R, g) <=> stretch(i, j, O, C, R, E)
        <4>1. g[i + 1] = E[i + 1] /\ \A k \in (i + 1)..j : g[k + 1] = E[k + 1]
          BY <2>2
        <4>. QED  BY <4>1 DEF stretch
      <3>. QED  BY <3>1
    <2>. QED  BY <2>1, <2>3 DEF ends
  <1>10. E \in A
    BY <1>5
  <1>11. E = [i \in 1..(L + 1) |-> ends(i, E)]
    <2> HIDE DEF E
    <2>. QED  BY <1>9, <1>10 DEF A
  <1> HIDE DEF E
  <1>. QED  BY <1>11 DEF Ends, ends

(* A stretch that nests and the next one together do.                      *)
LEMMA Joined ==
  ASSUME NEW L \in Nat, NEW O, NEW C, NEW R, NEW E, Ends(E, L, O, C, R)
  PROVE  \A i, p \in 1..(L + 1) : \A j : p - 1 \in E[i] /\ j \in E[p] => j \in E[i]
  <1> DEFINE S == {d \in 0..L : \A i, p \in 1..(L + 1) : \A j :
                      p - i = d /\ p - 1 \in E[i] /\ j \in E[p] => j \in E[i]}
  <1>1. ASSUME NEW d \in 0..L, \A e \in 0..(d - 1) : e \in S
        PROVE  d \in S
    <2>1. ASSUME NEW i \in 1..(L + 1), NEW p \in 1..(L + 1), NEW j, p - i = d, p - 1 \in E[i], j \in E[p]
          PROVE  j \in E[i]
      <3>1. CASE p = i
        BY <2>1, <3>1
      <3>2. CASE p # i
        <4>1. p - 1 \in i..L /\ stretch(i, p - 1, O, C, R, E)
          BY <2>1, <3>2, EndsAre
        <4>2. j = p - 1 \/ j \in p..L
          BY <2>1, EndsAre
        <4>3. j \in i..L
          BY <4>1, <4>2
        <4>4. stretch(i, j, O, C, R, E)
          <5>1. CASE i \notin R /\ p - 1 \in E[i + 1]
            <6>1. i + 1 \in 1..(L + 1) /\ d - 1 \in 0..(d - 1) /\ p - (i + 1) = d - 1
              BY <2>1, <3>2, <4>1
            <6>2. d - 1 \in S
              BY <1>1, <6>1
            <6>3. j \in E[i + 1]
              BY <2>1, <5>1, <6>1, <6>2
            <6>. QED  BY <5>1, <6>3 DEF stretch
          <5>2. ASSUME i \in O, NEW k \in (i + 1)..(p - 1),
                       <<i, k>> \in C, k - 1 \in E[i + 1], p - 1 \in E[k + 1]
                PROVE  stretch(i, j, O, C, R, E)
            <6>1. k + 1 \in 1..(L + 1) /\ p - (k + 1) \in 0..(d - 1) /\ k \in (i + 1)..j
              BY <2>1, <4>1, <4>2
            <6>2. p - (k + 1) \in S
              BY <1>1, <6>1
            <6>3. j \in E[k + 1]
              BY <2>1, <5>2, <6>1, <6>2
            <6>. QED  BY <5>2, <6>1, <6>3 DEF stretch
          <5>. QED  BY <4>1, <5>1, <5>2 DEF stretch
        <4>. QED  BY <4>3, <4>4, EndsAre
      <3>. QED  BY <3>1, <3>2
    <2>. QED  BY <2>1
  <1>2. \A d \in 0..L : d \in S
    <2> HIDE DEF S
    <2>. QED  BY <1>1, Descent
  <1>3. ASSUME NEW i \in 1..(L + 1), NEW p \in 1..(L + 1), NEW j, p - 1 \in E[i], j \in E[p]
        PROVE  j \in E[i]
    <2>1. p - i \in 0..L
      <3>1. p - 1 = i - 1 \/ p - 1 \in i..L
        BY <1>3, EndsAre
      <3>. QED  BY <3>1
    <2>. QED  BY <1>2, <1>3, <2>1
  <1>. QED  BY <1>3

(* A stack that met a wrong closer; no position is 0.                      *)
lost == <<0>>

(* What position n makes of a stack of openers.                            *)
shift(n, s, O, C, R) ==
  IF s = lost \/ n \notin R THEN s
  ELSE IF n \in O THEN Append(s, n)
  ELSE IF s # <<>> /\ <<s[Len(s)], n>> \in C THEN Front(s) ELSE lost

(* f[n] is the stack after n positions.                                    *)
IsRun(f, L, O, C, R) ==
  /\ DOMAIN f = 0..L /\ f[0] = <<>>
  /\ \A n \in 0..L : f[n] = lost \/ f[n] \in Seq(1..n)
  /\ \A n \in 1..L : f[n] = shift(n, f[n - 1], O, C, R)

(* A stack that loses its last element again.                              *)
LEMMA PushPop ==
  ASSUME NEW n \in Nat, NEW s \in Seq(1..n), NEW x \in Nat \ {0}
  PROVE  /\ Append(s, x) # lost /\ Append(s, x) # <<>> /\ s # lost
         /\ Append(s, x)[Len(Append(s, x))] = x /\ Front(Append(s, x)) = s
  <1>1. PICK t : t = Append(s, x)
    OBVIOUS
  <1>2. PICK m \in Nat \ {0} : m = Len(s) + 1
    OBVIOUS
  <1>3. /\ s \in Seq(Nat) /\ t \in Seq(Nat) /\ Len(t) = m
        /\ t[m] = x /\ \A i \in 1..(m - 1) : t[i] = s[i] /\ s[i] \in 1..n
    BY <1>1, <1>2
  <1>4. t[1] # 0 /\ t # <<>>
    BY <1>2, <1>3
  <1>5. t # lost
    <2>1. lost[1] = 0
      BY DEF lost
    <2>. QED  BY <1>4, <2>1
  <1>6. s # lost
    <2>1. lost[1] = 0 /\ Len(lost) = 1
      BY DEF lost
    <2>2. Len(s) = 1 => s[1] # 0
      BY <1>2, <1>3
    <2>. QED  BY <2>1, <2>2
  <1>7. Front(t) \in Seq(Nat) /\ Len(Front(t)) = m - 1 /\ \A i \in 1..(m - 1) : Front(t)[i] = t[i]
    BY <1>2, <1>3, FrontElements
  <1>8. Front(t) = s
    BY <1>2, <1>3, <1>7, SeqEqual
  <1>. QED  BY <1>1, <1>3, <1>4, <1>5, <1>6, <1>8

(* A stretch that nests leaves the stack as it was.                        *)
LEMMA NestKeepsStack ==
  ASSUME NEW L \in Nat, NEW O, NEW C, NEW R, Pairing(L, O, C, R),
         NEW E, Ends(E, L, O, C, R), NEW f, IsRun(f, L, O, C, R)
  PROVE  \A i \in 1..(L + 1) : \A j : j \in E[i] /\ f[i - 1] # lost => j \in 0..L /\ f[j] = f[i - 1]
  <1> DEFINE S == {d \in 0..L : \A i \in 1..(L + 1) : \A j \in 0..L :
                      j + 1 - i = d /\ j \in E[i] /\ f[i - 1] # lost => f[j] = f[i - 1]}
  <1>1. ASSUME NEW d \in 0..L, \A e \in 0..(d - 1) : e \in S
        PROVE  d \in S
    <2>1. ASSUME NEW i \in 1..(L + 1), NEW j \in 0..L, j + 1 - i = d, j \in E[i], f[i - 1] # lost
          PROVE  f[j] = f[i - 1]
      <3>1. CASE j = i - 1
        BY <3>1
      <3>2. CASE j # i - 1
        <4>1. j \in i..L /\ stretch(i, j, O, C, R, E)
          BY <2>1, <3>2, EndsAre
        <4>2. i \in 1..L /\ f[i] = shift(i, f[i - 1], O, C, R) /\ f[i - 1] \in Seq(1..(i - 1)) /\ i - 1 \in Nat
          BY <2>1, <4>1 DEF IsRun
        <4>3. CASE i \notin R /\ j \in E[i + 1]
          <5>1. f[i] = f[i - 1]
            BY <4>2, <4>3 DEF shift
          <5>2. i + 1 \in 1..(L + 1) /\ (i + 1) - 1 = i /\ d - 1 \in 0..(d - 1) /\ j + 1 - (i + 1) = d - 1
            BY <2>1, <4>1
          <5>3. d - 1 \in S
            BY <1>1, <5>2
          <5>. QED  BY <2>1, <4>3, <5>1, <5>2, <5>3
        <4>4. ASSUME i \in O, NEW k \in (i + 1)..j, <<i, k>> \in C, k - 1 \in E[i + 1], j \in E[k + 1]
              PROVE  f[j] = f[i - 1]
          <5>1. i \in R /\ k \in R /\ k \notin O
            BY <4>4 DEF Pairing
          <5>2. f[i] = Append(f[i - 1], i)
            BY <2>1, <4>2, <4>4, <5>1 DEF shift
          <5>3. /\ f[i] # lost /\ f[i] # <<>> /\ f[i - 1] # lost
                /\ f[i][Len(f[i])] = i /\ Front(f[i]) = f[i - 1]
            <6>1. PICK t : t = f[i - 1] /\ i - 1 \in Nat /\ t \in Seq(1..(i - 1))
              BY <2>1, <4>2
            <6>2. i \in Nat \ {0}
              OBVIOUS
            <6>3. /\ Append(t, i) # lost /\ Append(t, i) # <<>> /\ t # lost
                  /\ Append(t, i)[Len(Append(t, i))] = i /\ Front(Append(t, i)) = t
              BY <6>1, <6>2, PushPop
            <6>. QED  BY <5>2, <6>1, <6>3
          <5>4. f[k - 1] = f[i]
            <6>1. /\ i + 1 \in 1..(L + 1) /\ (i + 1) - 1 = i /\ k - 1 \in 0..L
                  /\ (k - 1) + 1 - (i + 1) \in 0..(d - 1)
              BY <2>1, <4>1
            <6>2. (k - 1) + 1 - (i + 1) \in S
              BY <1>1, <6>1
            <6>. QED  BY <4>4, <5>3, <6>1, <6>2
          <5>5. f[k] = f[i - 1]
            <6>1. k \in 1..L
              BY <4>1
            <6>2. f[k] = shift(k, f[k - 1], O, C, R)
              BY <6>1 DEF IsRun
            <6>. QED  BY <4>4, <5>1, <5>3, <5>4, <6>2 DEF shift
          <5>6. f[j] = f[k]
            <6>1. k + 1 \in 1..(L + 1) /\ (k + 1) - 1 = k /\ j + 1 - (k + 1) \in 0..(d - 1)
              BY <2>1, <4>1
            <6>2. j + 1 - (k + 1) \in S
              BY <1>1, <6>1
            <6>. QED  BY <4>4, <5>3, <5>5, <6>1, <6>2
          <5>. QED  BY <5>5, <5>6
        <4>. QED  BY <4>1, <4>3, <4>4 DEF stretch
      <3>. QED  BY <3>1, <3>2
    <2>. QED  BY <2>1
  <1>2. \A d \in 0..L : d \in S
    <2> HIDE DEF S
    <2>. QED  BY <1>1, Descent
  <1>3. ASSUME NEW i \in 1..(L + 1), NEW j, j \in E[i], f[i - 1] # lost
        PROVE  j \in 0..L /\ f[j] = f[i - 1]
    <2>1. j \in 0..L /\ j + 1 - i \in 0..L
      <3>1. j = i - 1 \/ j \in i..L
        BY <1>3, EndsAre
      <3>. QED  BY <3>1
    <2>. QED  BY <1>2, <1>3, <2>1
  <1>. QED  BY <1>3

(* What lies between the openers on a stack nests.                         *)
from(s, m) == IF m = 0 THEN 1 ELSE s[m] + 1
upto(s, n, m) == IF m = Len(s) THEN n ELSE s[m + 1] - 1
Layered(s, n, E) == s \in Seq(1..n) /\ \A m \in 0..Len(s) : upto(s, n, m) \in E[from(s, m)]

(* Over a run, what lies between the openers on its stack, and above the   *)
(* last of them, always nests.                                             *)
LEMMA StackKeepsNest ==
  ASSUME NEW L \in Nat, NEW O, NEW C, NEW R, Pairing(L, O, C, R),
         NEW E, Ends(E, L, O, C, R), NEW f, IsRun(f, L, O, C, R)
  PROVE  \A n \in 0..L : f[n] # lost => Layered(f[n], n, E)
  <1> DEFINE S == {n \in 0..L : f[n] # lost => Layered(f[n], n, E)}
  <1>1. 0 \in S
    <2>1. f[0] = <<>> /\ 0 \in E[1]
      <3>1. 1 \in 1..(L + 1) /\ 0 = 1 - 1
        OBVIOUS
      <3>. QED  BY <3>1, EndsAre DEF IsRun
    <2>2. <<>> \in Seq(1..0) /\ Len(<<>>) = 0 /\ 0..0 = {0}
      OBVIOUS
    <2>3. upto(<<>>, 0, 0) = 0 /\ from(<<>>, 0) = 1
      BY <2>2 DEF upto, from
    <2>4. PICK none : none = <<>>
      OBVIOUS
    <2>5. \A m \in 0..Len(none) : upto(none, 0, m) \in E[from(none, m)]
      <3>1. \A m \in 0..Len(none) : m = 0
        BY <2>2, <2>4
      <3>. QED  BY <2>1, <2>3, <2>4, <3>1
    <2>6. Layered(none, 0, E)
      BY <2>2, <2>4, <2>5 DEF Layered
    <2>7. f[0] = none
      BY <2>1, <2>4
    <2>. QED  BY <2>6, <2>7
  <1>2. ASSUME NEW n \in 1..L, n - 1 \in S
        PROVE  n \in S
    <2> SUFFICES ASSUME f[n] # lost
                 PROVE  Layered(f[n], n, E)
      OBVIOUS
    <2>1. PICK s, t : s = f[n - 1] /\ t = f[n]
      OBVIOUS
    <2>2. PICK l \in Nat : l = n - 1
      OBVIOUS
    <2>3. t = shift(n, s, O, C, R) /\ s # lost /\ Layered(s, l, E)
      BY <1>2, <2>1, <2>2 DEF IsRun, shift
    <2>4. /\ s \in Seq(1..l) /\ s \in Seq(1..n) /\ Len(s) \in Nat
          /\ \A m \in 1..Len(s) : s[m] \in 1..l
          /\ \A m \in 0..Len(s) : upto(s, l, m) \in E[from(s, m)]
      BY <2>2, <2>3 DEF Layered
    <2>5. n \in E[n + 1] /\ n \in 1..(L + 1) /\ n + 1 \in 1..(L + 1)
      <3>1. n + 1 \in 1..(L + 1) /\ n = (n + 1) - 1 /\ n \in 1..(L + 1)
        OBVIOUS
      <3>2. n \in E[n + 1]
        BY <3>1, EndsAre
      <3>. QED  BY <3>1, <3>2
    <2>6. l \in E[from(s, Len(s))] /\ from(s, Len(s)) \in 1..(L + 1)
      BY <2>2, <2>4 DEF upto, from
    <2>7. CASE n \notin R
      <3>1. t = s
        BY <2>3, <2>7 DEF shift
      <3>2. n \in E[n]
        <4>1. n \in n..L /\ stretch(n, n, O, C, R, E)
          BY <2>5, <2>7 DEF stretch
        <4>. QED  BY <2>5, <4>1, EndsAre
      <3>3. n \in E[from(s, Len(s))]
        <4>1. n - 1 \in E[from(s, Len(s))]
          BY <2>2, <2>6
        <4>. QED  BY <2>5, <2>6, <3>2, <4>1, Joined
      <3>4. \A m \in 0..Len(s) : upto(s, n, m) \in E[from(s, m)]
        BY <2>4, <3>3 DEF upto
      <3>. QED  BY <2>1, <2>4, <3>1, <3>4 DEF Layered
    <2>8. CASE n \in O
      <3>1. t = Append(s, n)
        BY <2>3, <2>8 DEF shift, Pairing
      <3>2. /\ t \in Seq(1..n) /\ Len(t) = Len(s) + 1 /\ t[Len(s) + 1] = n
            /\ \A m \in 1..Len(s) : t[m] = s[m]
        BY <2>4, <3>1
      <3>3. ASSUME NEW m \in 0..Len(t)
            PROVE  upto(t, n, m) \in E[from(t, m)]
        <4>1. CASE m = Len(s) + 1
          <5>1. upto(t, n, m) = n /\ from(t, m) = n + 1
            BY <2>4, <3>2, <4>1 DEF upto, from
          <5>. QED  BY <2>5, <5>1
        <4>2. CASE m = Len(s)
          <5>1. upto(t, n, m) = n - 1
            BY <2>4, <3>2, <4>2 DEF upto
          <5>2. from(t, m) = from(s, m)
            <6>1. m = 0 \/ m \in 1..Len(s)
              BY <2>4, <4>2
            <6>. QED  BY <3>2, <6>1 DEF from
          <5>. QED  BY <2>2, <2>6, <4>2, <5>1, <5>2
        <4>3. CASE m \in 0..(Len(s) - 1)
          <5>1. upto(t, n, m) = upto(s, l, m)
            <6>1. m # Len(t) /\ m # Len(s) /\ m + 1 \in 1..Len(s)
              BY <2>4, <3>2, <4>3
            <6>. QED  BY <3>2, <6>1 DEF upto
          <5>2. from(t, m) = from(s, m)
            <6>1. m = 0 \/ m \in 1..Len(s)
              BY <2>4, <4>3
            <6>. QED  BY <3>2, <6>1 DEF from
          <5>3. m \in 0..Len(s)
            BY <2>4, <4>3
          <5>. QED  BY <2>4, <5>1, <5>2, <5>3
        <4>. QED  BY <2>4, <3>2, <4>1, <4>2, <4>3
      <3>. QED  BY <2>1, <3>2, <3>3 DEF Layered
    <2>9. CASE n \in R /\ n \notin O
      <3>1. s # <<>> /\ <<s[Len(s)], n>> \in C /\ t = Front(s)
        BY <2>1, <2>3, <2>9 DEF shift
      <3>2. PICK q \in Nat \ {0} : q = Len(s)
        BY <2>4, <3>1
      <3>3. t \in Seq(1..l) /\ Len(t) = q - 1 /\ \A m \in 1..(q - 1) : t[m] = s[m]
        BY <2>4, <3>2, <3>1, FrontElements
      <3>4. PICK p \in 1..l : p = s[q]
        BY <2>4, <3>2
      <3>5. n \in E[p]
        <4>1. p \in O /\ <<p, n>> \in C
          BY <3>1, <3>2, <3>4 DEF Pairing
        <4>2. n - 1 \in E[p + 1]
          BY <2>2, <2>6, <3>2, <3>4 DEF from
        <4>3. n \in (p + 1)..n /\ n \in p..L /\ p \in 1..(L + 1)
          BY <2>2
        <4>4. stretch(p, n, O, C, R, E)
          BY <2>5, <4>1, <4>2, <4>3 DEF stretch
        <4>. QED  BY <4>3, <4>4, EndsAre
      <3>6. p - 1 \in E[from(s, q - 1)] /\ from(s, q - 1) \in 1..(L + 1) /\ p \in 1..(L + 1)
        <4>1. q - 1 \in 0..Len(s) /\ upto(s, l, q - 1) = p - 1
          BY <3>2, <3>4 DEF upto
        <4>2. from(s, q - 1) \in 1..(L + 1)
          <5>1. q - 1 = 0 \/ q - 1 \in 1..Len(s)
            BY <3>2
          <5>2. \A m \in 1..Len(s) : s[m] + 1 \in 1..(L + 1)
            BY <2>2, <2>4
          <5>. QED  BY <5>1, <5>2 DEF from
        <4>3. p - 1 \in E[from(s, q - 1)]
          BY <2>4, <4>1
        <4>. QED  BY <2>2, <4>2, <4>3
      <3>7. n \in E[from(s, q - 1)]
        BY <3>5, <3>6, Joined
      <3>8. ASSUME NEW m \in 0..Len(t)
            PROVE  upto(t, n, m) \in E[from(t, m)]
        <4>1. from(t, m) = from(s, m)
          BY <3>2, <3>3 DEF from
        <4>2. CASE m = q - 1
          BY <3>3, <3>7, <4>1, <4>2 DEF upto
        <4>3. CASE m \in 0..(q - 2)
          <5>1. upto(t, n, m) = upto(s, l, m) /\ m \in 0..Len(s)
            BY <3>2, <3>3, <4>3 DEF upto
          <5>. QED  BY <2>4, <4>1, <5>1
        <4>. QED  BY <3>2, <3>3, <4>2, <4>3
      <3>9. t \in Seq(1..n)
        BY <2>2, <3>3
      <3>. QED  BY <2>1, <3>8, <3>9 DEF Layered
    <2>. QED  BY <2>7, <2>8, <2>9
  <1>3. \A n \in 0..L : n \in S
    <2> HIDE DEF S
    <2>. QED  BY <1>1, <1>2, UpTo
  <1>. QED  BY <1>3

(* A run ends with an empty stack exactly if all of it nests.              *)
LEMMA NestsIfEmpty ==
  ASSUME NEW L \in Nat, NEW O, NEW C, NEW R, Pairing(L, O, C, R),
         NEW E, Ends(E, L, O, C, R), NEW f, IsRun(f, L, O, C, R)
  PROVE  L \in E[1] <=> f[L] = <<>>
  <1>1. f[0] = <<>> /\ <<>> # lost /\ 0 = 1 - 1 /\ 1 \in 1..(L + 1) /\ L \in 0..L
    BY DEF IsRun, lost
  <1>2. ASSUME L \in E[1]
        PROVE  f[L] = <<>>
    BY <1>1, <1>2, NestKeepsStack
  <1>3. ASSUME f[L] = <<>>
        PROVE  L \in E[1]
    <2>1. Layered(<<>>, L, E)
      BY <1>1, <1>3, StackKeepsNest
    <2>2. 0 \in 0..Len(<<>>) /\ upto(<<>>, L, 0) = L /\ from(<<>>, 0) = 1
      BY DEF upto, from
    <2>. QED  BY <2>1, <2>2 DEF Layered
  <1>. QED  BY <1>2, <1>3

(* What Nested says of the source.                                         *)
LEMMA NestedIs ==
  ASSUME NEW O, NEW C, NEW R, source \in Seq(Tokens), Pairing(Len(source), O, C, R),
         NEW f, IsRun(f, Len(source), O, C, R)
  PROVE  Nested(O, C, R) <=> f[Len(source)] = <<>>
  <1> DEFINE E == CHOOSE E : Ends(E, Len(source), O, C, R)
  <1>1. Len(source) \in Nat
    OBVIOUS
  <1>2. Ends(E, Len(source), O, C, R)
    <2>1. \E g : Ends(g, Len(source), O, C, R)
      BY <1>1, EndsExist
    <2>. QED  BY <2>1, Zenon
  <1>3. Nested(O, C, R) <=> Len(source) \in E[1]
    BY Zenon DEF Nested, Ends, stretch
  <1> HIDE DEF E
  <1>. QED  BY <1>1, <1>2, <1>3, NestsIfEmpty

(* What a position makes of a stack is a stack.                            *)
LEMMA ShiftType ==
  ASSUME NEW L \in Nat, NEW O, NEW C, NEW R, NEW s, s = lost \/ s \in Seq(1..L)
  PROVE  shift(L + 1, s, O, C, R) = lost \/ shift(L + 1, s, O, C, R) \in Seq(1..(L + 1))
  <1>1. CASE s = lost
    BY <1>1 DEF shift
  <1>2. CASE s \in Seq(1..L) /\ s # lost
    <2>1. L + 1 \in 1..(L + 1) /\ s \in Seq(1..(L + 1))
      BY <1>2
    <2>2. Append(s, L + 1) \in Seq(1..(L + 1))
      BY <2>1
    <2>3. s # <<>> => Front(s) \in Seq(1..(L + 1))
      <3>1. ASSUME s # <<>>
            PROVE  Front(s) \in Seq(1..(L + 1))
        <4>1. PICK q \in Nat \ {0} : q = Len(s)
          BY <2>1, <3>1
        <4>. QED  BY <2>1, <4>1, FrontElements
      <3>. QED  BY <3>1
    <2>. QED  BY <2>1, <2>2, <2>3 DEF shift
  <1>. QED  BY <1>1, <1>2

(* The openers, pairs and closers of a text and of the text with a token   *)
(* more.                                                                   *)
Grows(L, O, C, R, P, D, Q) ==
  /\ \A n \in 1..L : (n \in P <=> n \in O) /\ (n \in Q <=> n \in R)
  /\ \A i, n \in 1..L : <<i, n>> \in D <=> <<i, n>> \in C

(* The run over the longer text goes on from the one over the shorter.     *)
LEMMA RunGrows ==
  ASSUME NEW L \in Nat, NEW O, NEW C, NEW R, NEW P, NEW D, NEW Q, Grows(L, O, C, R, P, D, Q),
         NEW f, IsRun(f, L, O, C, R)
  PROVE  \E g : IsRun(g, L + 1, P, D, Q) /\ g[L + 1] = shift(L + 1, f[L], P, D, Q)
  <1> DEFINE v == shift(L + 1, f[L], P, D, Q)
             g == [n \in 0..(L + 1) |-> IF n = L + 1 THEN v ELSE f[n]]
  <1>1. v = lost \/ v \in Seq(1..(L + 1))
    <2>1. f[L] = lost \/ f[L] \in Seq(1..L)
      BY DEF IsRun
    <2>. QED  BY <2>1, ShiftType
  <1> HIDE DEF v
  <1>2. g[L + 1] = v /\ \A n \in 0..L : g[n] = f[n]
    OBVIOUS
  <1>3. DOMAIN g = 0..(L + 1) /\ g[0] = <<>>
    BY <1>2 DEF IsRun
  <1> HIDE DEF g
  <1>4. ASSUME NEW n \in 0..(L + 1)
        PROVE  g[n] = lost \/ g[n] \in Seq(1..n)
    <2>1. CASE n = L + 1
      BY <1>1, <1>2, <2>1
    <2>2. CASE n # L + 1
      BY <1>2, <2>2 DEF IsRun
    <2>. QED  BY <2>1, <2>2
  <1>5. ASSUME NEW n \in 1..(L + 1)
        PROVE  g[n] = shift(n, g[n - 1], P, D, Q)
    <2>1. CASE n = L + 1
      BY <1>2, <2>1 DEF v
    <2>2. CASE n \in 1..L
      <3>1. PICK s : s = f[n - 1]
        OBVIOUS
      <3>2. g[n] = shift(n, s, O, C, R) /\ g[n - 1] = s /\ (s = lost \/ s \in Seq(1..(n - 1)))
        BY <1>2, <2>2, <3>1 DEF IsRun
      <3>3. (n \in P <=> n \in O) /\ (n \in Q <=> n \in R)
        BY <2>2 DEF Grows
      <3>4. s # lost /\ s # <<>> => (<<s[Len(s)], n>> \in D <=> <<s[Len(s)], n>> \in C)
        <4>1. ASSUME s # lost, s # <<>>
              PROVE  s[Len(s)] \in 1..L
          BY <2>2, <3>2, <4>1
        <4>. QED  BY <2>2, <4>1 DEF Grows
      <3>. QED  BY <3>2, <3>3, <3>4 DEF shift
    <2>. QED  BY <2>1, <2>2
  <1>. QED  BY <1>2, <1>3, <1>4, <1>5 DEF IsRun, v

--------------------------------------------------------------------------------

(* The runs over the brackets of the source, and over its blocks.          *)
bracketRun(f) ==
  IsRun(f, Len(source), at(DOMAIN Closer), bracketPairs, at(DOMAIN Closer \cup Closers))
blockRun(f) ==
  IsRun(f, Len(source), blockOpeners, blockPairs, blockOpeners \cup at({"end", "until"}))

(* Brackets, and blocks, are opened by some tokens and closed by others.   *)
LEMMA PairingBrackets ==
  ASSUME source \in Seq(Tokens)
  PROVE  Pairing(Len(source), at(DOMAIN Closer), bracketPairs, at(DOMAIN Closer \cup Closers))
  BY DEF Pairing, at, bracketPairs, Closer, Closers

(* So are blocks.                                                          *)
LEMMA PairingBlocks ==
  ASSUME source \in Seq(Tokens)
  PROVE  Pairing(Len(source), blockOpeners, blockPairs, blockOpeners \cup at({"end", "until"}))
  BY DEF Pairing, at, blockPairs, blockOpeners, Openers

(* A token more.                                                           *)
LEMMA AtGrows ==
  ASSUME source \in Seq(Tokens), NEW t \in Tokens, source' = Append(source, t)
  PROVE  /\ source' \in Seq(Tokens) /\ Len(source') = Len(source) + 1 /\ Len(source) \in Nat
         /\ source'[Len(source) + 1] = t /\ \A i \in 1..Len(source) : source'[i] = source[i]
  OBVIOUS

(* The run of the brackets goes on when a token is read, and so does that  *)
(* of the blocks.                                                          *)
LEMMA BracketsGrow ==
  ASSUME source \in Seq(Tokens), NEW t \in Tokens, source' = Append(source, t),
         NEW f, bracketRun(f)
  PROVE  \E g : /\ bracketRun(g)'
                /\ g[Len(source) + 1] = shift(Len(source) + 1, f[Len(source)], at(DOMAIN Closer)',
                                              bracketPairs', at(DOMAIN Closer \cup Closers)')
  <1>1. /\ Len(source') = Len(source) + 1 /\ Len(source) \in Nat
        /\ \A i \in 1..Len(source) : i \in 1..Len(source') /\ source'[i] = source[i]
    BY AtGrows
  <1>2. Grows(Len(source), at(DOMAIN Closer), bracketPairs, at(DOMAIN Closer \cup Closers),
              at(DOMAIN Closer)', bracketPairs', at(DOMAIN Closer \cup Closers)')
    BY <1>1 DEF Grows, at, bracketPairs
  <1>. QED  BY <1>1, <1>2, RunGrows DEF bracketRun

(* The run of the blocks goes on when a token is read.                     *)
LEMMA BlocksGrow ==
  ASSUME source \in Seq(Tokens), NEW t \in Tokens, source' = Append(source, t),
         NEW f, blockRun(f)
  PROVE  \E g : /\ blockRun(g)'
                /\ g[Len(source) + 1] = shift(Len(source) + 1, f[Len(source)], blockOpeners',
                                              blockPairs', blockOpeners' \cup at({"end", "until"})')
  <1>1. /\ Len(source') = Len(source) + 1 /\ Len(source) \in Nat
        /\ \A i \in 1..Len(source) : i \in 1..Len(source') /\ source'[i] = source[i]
    BY AtGrows
  <1>2. \A i \in 1..Len(source) : (i \in blockOpeners' <=> i \in blockOpeners)
                                  /\ \A S : i \in at(S)' <=> i \in at(S)
    <2>1. \A i \in 1..Len(source) : i > 1 => source'[i - 1] = source[i - 1]
      BY <1>1
    <2>. QED  BY <1>1, <2>1 DEF at, blockOpeners
  <1>3. Grows(Len(source), blockOpeners, blockPairs, blockOpeners \cup at({"end", "until"}),
              blockOpeners', blockPairs', blockOpeners' \cup at({"end", "until"})')
    BY <1>1, <1>2 DEF Grows, blockPairs
  <1>. QED  BY <1>1, <1>3, RunGrows DEF blockRun

(* What the token read at the end of the source is.                        *)
LEMMA TokenRead ==
  ASSUME source \in Seq(Tokens), NEW t \in Tokens, source' = Append(source, t),
         NEW n \in Nat, n = Len(source) + 1
  PROVE  /\ \A S : n \in at(S)' <=> t \in S
         /\ \A S : at(S) \subseteq at(S)' /\ at(S)' \subseteq at(S) \cup {n}
         /\ n \in blockOpeners' <=> t \in Openers /\ ~(t = "if" /\ prevSig \in EXPR_PREV)
         /\ \A i \in at(DOMAIN Closer) : <<i, n>> \in bracketPairs' <=> Closer[source[i]] = t
         /\ \A i \in blockOpeners : <<i, n>> \in blockPairs'
                                    <=> t = "end" \/ (t = "until" /\ source[i] = "repeat")
  <1>1. /\ Len(source') = n /\ n \in 1..n /\ Len(source) \in Nat
        /\ source'[n] = t /\ \A i \in 1..Len(source) : i \in 1..n /\ source'[i] = source[i]
    BY AtGrows
  <1>2. \A S : n \in at(S)' <=> t \in S
    BY <1>1 DEF at
  <1>3. \A S : at(S) \subseteq at(S)' /\ at(S)' \subseteq at(S) \cup {n}
    BY <1>1 DEF at
  <1>4. n \in blockOpeners' <=> t \in Openers /\ ~(t = "if" /\ prevSig \in EXPR_PREV)
    <2>1. CASE source = <<>>
      <3>1. prevSig = "" /\ "" \notin EXPR_PREV
        BY <2>1 DEF prevSig, EXPR_PREV
      <3>2. n \in at(Openers)' <=> t \in Openers
        BY <1>1 DEF at
      <3>4. ~(n > 1)
        BY <2>1
      <3>3. n \in blockOpeners' <=> n \in at(Openers)'
        BY <3>4 DEF blockOpeners
      <3>. QED  BY <3>1, <3>2, <3>3
    <2>2. CASE source # <<>>
      <3>1. n > 1 /\ n - 1 \in 1..Len(source) /\ prevSig = source[n - 1]
        BY <2>2 DEF prevSig, top
      <3>2. source'[n - 1] = source[n - 1]
        BY <1>1, <3>1
      <3>. QED  BY <1>1, <1>2, <3>1, <3>2 DEF blockOpeners
    <2>. QED  BY <2>1, <2>2
  <1>5. ASSUME NEW i \in at(DOMAIN Closer)
        PROVE  <<i, n>> \in bracketPairs' <=> Closer[source[i]] = t
    <2>1. i \in at(DOMAIN Closer)' /\ source'[i] = source[i] /\ source[i] \in DOMAIN Closer
      BY <1>1, <1>3 DEF at
    <2>2. Closer[source[i]] \in Closers
      BY <2>1 DEF Closer, Closers
    <2>. QED  BY <1>1, <1>2, <2>1, <2>2 DEF bracketPairs
  <1>6. ASSUME NEW i \in blockOpeners
        PROVE  <<i, n>> \in blockPairs' <=> t = "end" \/ (t = "until" /\ source[i] = "repeat")
    <2>1. i \in 1..Len(source) /\ source'[i] = source[i] /\ (i > 1 => source'[i - 1] = source[i - 1])
      BY <1>1 DEF blockOpeners, at
    <2>2. i \in blockOpeners'
      BY <1>1, <1>3, <2>1 DEF blockOpeners
    <2>. QED  BY <1>1, <1>2, <2>1, <2>2 DEF blockPairs
  <1>. QED  BY <1>2, <1>3, <1>4, <1>5, <1>6

(* A stack of positions has not met a wrong closer.                        *)
LEMMA StackIsKnown == \A L \in Nat : \A s \in Seq(1..L) : s # lost
  <1>1. Len(lost) = 1 /\ lost[1] = 0
    BY DEF lost
  <1>2. ASSUME NEW L \in Nat, lost \in Seq(1..L)
        PROVE  FALSE
    <2>1. lost[1] \in 1..L
      BY <1>1, <1>2
    <2>. QED  BY <1>1, <2>1
  <1>. QED  BY <1>2

(* What the token read makes of a stack of brackets.                       *)
LEMMA BracketShift ==
  ASSUME source \in Seq(Tokens), NEW t \in Tokens, source' = Append(source, t),
         NEW n \in Nat, n = Len(source) + 1,
         NEW s \in Seq(1..Len(source)), \A m \in 1..Len(s) : s[m] \in at(DOMAIN Closer)
  PROVE  shift(n, s, at(DOMAIN Closer)', bracketPairs', at(DOMAIN Closer \cup Closers)')
           = IF t \in DOMAIN Closer THEN Append(s, n)
             ELSE IF t \in Closers
             THEN IF s # <<>> /\ Closer[source[s[Len(s)]]] = t THEN Front(s) ELSE lost
             ELSE s
  <1>1. s # lost
    BY StackIsKnown
  <1>2. s # <<>> => s[Len(s)] \in at(DOMAIN Closer)
    OBVIOUS
  <1>3. /\ n \in at(DOMAIN Closer)' <=> t \in DOMAIN Closer
        /\ n \in at(DOMAIN Closer \cup Closers)' <=> t \in DOMAIN Closer \cup Closers
        /\ s # <<>> => (<<s[Len(s)], n>> \in bracketPairs' <=> Closer[source[s[Len(s)]]] = t)
    BY <1>2, TokenRead
  <1>. QED  BY <1>1, <1>3 DEF shift

(* What the token read makes of a stack of blocks.                         *)
LEMMA BlockShift ==
  ASSUME source \in Seq(Tokens), NEW t \in Tokens, source' = Append(source, t),
         NEW n \in Nat, n = Len(source) + 1,
         NEW s \in Seq(1..Len(source)), \A m \in 1..Len(s) : s[m] \in blockOpeners
  PROVE  shift(n, s, blockOpeners', blockPairs', blockOpeners' \cup at({"end", "until"})')
           = IF t \in Openers /\ ~(t = "if" /\ prevSig \in EXPR_PREV) THEN Append(s, n)
             ELSE IF t \in {"end", "until"}
             THEN IF s # <<>> /\ (t = "end" \/ source[s[Len(s)]] = "repeat") THEN Front(s) ELSE lost
             ELSE s
  <1>1. s # lost
    BY StackIsKnown
  <1>2. s # <<>> => s[Len(s)] \in blockOpeners
    OBVIOUS
  <1>3. /\ n \in blockOpeners' <=> t \in Openers /\ ~(t = "if" /\ prevSig \in EXPR_PREV)
        /\ n \in at({"end", "until"})' <=> t \in {"end", "until"}
        /\ s # <<>> => (<<s[Len(s)], n>> \in blockPairs'
                        <=> t = "end" \/ (t = "until" /\ source[s[Len(s)]] = "repeat"))
    BY <1>2, TokenRead
  <1>. QED  BY <1>1, <1>3 DEF shift

--------------------------------------------------------------------------------

(* The invariant. Stacks and issues hold positions, the stacks those of    *)
(* openers.                                                                *)
Positions == Seq(1..Len(source))

CheckTypes ==
  /\ source \in Seq(Tokens) /\ done \in BOOLEAN
  /\ stack \in Positions /\ blockStack \in Positions /\ issues \in Positions
  /\ \A m \in 1..Len(stack) : stack[m] \in at(DOMAIN Closer)
  /\ \A m \in 1..Len(blockStack) : blockStack[m] \in blockOpeners

(* No position is in a sequence twice, or in two.                          *)
Single(s) == \A i, j \in 1..Len(s) : s[i] = s[j] => i = j
Apart(s, t) == \A i \in 1..Len(s), j \in 1..Len(t) : s[i] # t[j]
Separate ==
  /\ Single(stack) /\ Single(blockStack) /\ Single(issues)
  /\ Apart(stack, blockStack) /\ Apart(issues, stack) /\ Apart(issues, blockStack)

(* While nothing is blamed, the stacks of the code are those of the two    *)
(* runs; once a token is, one of the runs is lost or a string is open, and *)
(* will stay so.                                                           *)
clean(f, h) == f[Len(source)] = stack /\ h[Len(source)] = blockStack /\ at({"open"}) = {}
broken(f, h) == f[Len(source)] = lost \/ h[Len(source)] = lost \/ at({"open"}) # {}
Tracked ==
  \E f, h : /\ bracketRun(f) /\ blockRun(h)
            /\ issues = <<>> => clean(f, h)
            /\ issues # <<>> => broken(f, h)

(* At the end nothing is blamed exactly if both runs are empty and no      *)
(* string is open.                                                         *)
Judged ==
  \E f, h : /\ bracketRun(f) /\ blockRun(h)
            /\ issues = <<>> <=> f[Len(source)] = <<>> /\ h[Len(source)] = <<>> /\ at({"open"}) = {}

CheckInv ==
  /\ CheckTypes
  /\ Single(issues)
  /\ ~done => Separate /\ Tracked
  /\ done => Judged

(* The invariant decides what is accepted: at the end a run is empty       *)
(* exactly if its source nests.                                            *)
LEMMA InvAccepts == CheckInv => AcceptsNested
  <1> SUFFICES ASSUME CheckInv
               PROVE  AcceptsNested
    OBVIOUS
  <1>1. source \in Seq(Tokens)
    BY DEF CheckInv, CheckTypes
  <1>2. ASSUME done
        PROVE  ok <=> NestedBrackets /\ NestedBlocks /\ at({"open"}) = {}
    <2>1. PICK f, h : /\ bracketRun(f) /\ blockRun(h)
                      /\ issues = <<>> <=> f[Len(source)] = <<>> /\ h[Len(source)] = <<>>
                                           /\ at({"open"}) = {}
      BY <1>2, Zenon DEF CheckInv, Judged
    <2>2. NestedBrackets <=> f[Len(source)] = <<>>
      BY <1>1, <2>1, PairingBrackets, NestedIs DEF NestedBrackets, bracketRun
    <2>3. NestedBlocks <=> h[Len(source)] = <<>>
      BY <1>1, <2>1, PairingBlocks, NestedIs DEF NestedBlocks, blockRun
    <2>. QED  BY <2>1, <2>2, <2>3 DEF ok
  <1>. QED  BY <1>2 DEF CheckInv, AcceptsNested, Single

(* It holds before anything is read.                                       *)
LEMMA CheckInitInv == CheckInit => CheckInv
  <1> SUFFICES ASSUME CheckInit
               PROVE  CheckInv
    OBVIOUS
  <1>1. /\ source = <<>> /\ stack = <<>> /\ blockStack = <<>> /\ issues = <<>> /\ done = FALSE
        /\ Len(source) = 0 /\ Len(stack) = 0 /\ Len(blockStack) = 0 /\ Len(issues) = 0
    BY DEF CheckInit
  <1>2. CheckTypes
    <2>1. <<>> \in Seq(Tokens) /\ <<>> \in Seq(1..Len(source))
      OBVIOUS
    <2>2. stack \in Positions /\ blockStack \in Positions /\ issues \in Positions
      BY <1>1, <2>1 DEF Positions
    <2>3. \A m \in 1..0 : FALSE
      OBVIOUS
    <2>. QED  BY <1>1, <2>1, <2>2, <2>3 DEF CheckTypes
  <1>3. Separate
    BY <1>1 DEF Separate, Single, Apart
  <1>4. Tracked
    <2> DEFINE f == [n \in 0..0 |-> <<>>]
    <2>1. f[0] = <<>> /\ DOMAIN f = 0..0
      OBVIOUS
    <2>2. \A O, C, R : IsRun(f, 0, O, C, R)
      <3>1. <<>> \in Seq(1..0) /\ (\A n \in 0..0 : n = 0) /\ (\A n \in 1..0 : FALSE)
        OBVIOUS
      <3> HIDE DEF f
      <3>. QED  BY <2>1, <3>1 DEF IsRun
    <2>3. at({"open"}) = {}
      BY <1>1 DEF at
    <2> HIDE DEF f
    <2>. QED  BY <1>1, <2>1, <2>2, <2>3 DEF Tracked, clean, broken, bracketRun, blockRun
  <1>. QED  BY <1>1, <1>2, <1>3, <1>4 DEF CheckInv, Separate

(* A new position at the end of a sequence of positions.                   *)
LEMMA NewPosition ==
  ASSUME NEW L \in Nat, NEW s \in Seq(1..L), NEW u \in Seq(1..L), Single(s), Apart(s, u)
  PROVE  /\ s \in Seq(1..(L + 1)) /\ Append(s, L + 1) \in Seq(1..(L + 1))
         /\ Append(s, L + 1) # <<>> /\ Single(Append(s, L + 1))
         /\ Apart(Append(s, L + 1), u) /\ Apart(u, Append(s, L + 1)) /\ Apart(u, s)
  <1>1. PICK t : t = Append(s, L + 1)
    OBVIOUS
  <1>2. PICK p, q \in Nat : p = Len(s) /\ q = Len(u)
    OBVIOUS
  <1>3. /\ t \in Seq(1..(L + 1)) /\ Len(t) = p + 1 /\ t[p + 1] = L + 1
        /\ \A i \in 1..p : t[i] = s[i] /\ s[i] \in 1..L
    BY <1>1, <1>2
  <1>4. \A j \in 1..q : u[j] \in 1..L
    BY <1>2
  <1>5. Single(t)
    <2>1. \A i, j \in 1..p : s[i] = s[j] => i = j
      BY <1>2 DEF Single
    <2>2. \A i \in 1..(p + 1) : i \in 1..p \/ i = p + 1
      OBVIOUS
    <2>3. \A i \in 1..p : t[i] # t[p + 1]
      BY <1>3
    <2>4. \A i, j \in 1..p : t[i] = t[j] => i = j
      BY <1>3, <2>1
    <2>5. \A i, j \in 1..(p + 1) : t[i] = t[j] => i = j
      BY <2>2, <2>3, <2>4, Zenon
    <2>. QED  BY <1>3, <2>5 DEF Single
  <1>6. Apart(t, u) /\ Apart(u, t) /\ Apart(u, s)
    <2>1. \A i \in 1..p, j \in 1..q : s[i] # u[j]
      BY <1>2 DEF Apart
    <2>2. \A i \in 1..(p + 1) : i \in 1..p \/ i = p + 1
      OBVIOUS
    <2>3. \A j \in 1..q : t[p + 1] # u[j]
      BY <1>3, <1>4
    <2>4. \A i \in 1..p, j \in 1..q : t[i] # u[j]
      BY <1>3, <2>1
    <2>5. \A i \in 1..(p + 1), j \in 1..q : t[i] # u[j]
      BY <2>2, <2>3, <2>4, Zenon
    <2>. QED  BY <1>2, <1>3, <2>1, <2>5 DEF Apart
  <1>7. s \in Seq(1..(L + 1)) /\ t # <<>>
    BY <1>2, <1>3
  <1>. QED  BY <1>1, <1>3, <1>5, <1>6, <1>7

(* The first few positions of a sequence.                                  *)
LEMMA FirstPositions ==
  ASSUME NEW L \in Nat, NEW s \in Seq(1..L), NEW m \in 0..Len(s)
  PROVE  /\ SubSeq(s, 1, m) \in Seq(1..(L + 1)) /\ Len(SubSeq(s, 1, m)) = m
         /\ \A i \in 1..m : SubSeq(s, 1, m)[i] = s[i]
         /\ Single(s) => Single(SubSeq(s, 1, m))
         /\ \A u : Apart(s, u) => Apart(SubSeq(s, 1, m), u)
         /\ \A u : Apart(u, s) => Apart(u, SubSeq(s, 1, m))
  <1>1. PICK t : t = SubSeq(s, 1, m)
    OBVIOUS
  <1>2. /\ t \in Seq(1..(L + 1)) /\ Len(t) = m /\ \A i \in 1..m : t[i] = s[i]
    BY <1>1
  <1>3. \A i \in 1..m : i \in 1..Len(s)
    OBVIOUS
  <1>. QED  BY <1>1, <1>2, <1>3 DEF Single, Apart

(* Sequences that share nothing, one after the other.                      *)
LEMMA Together ==
  ASSUME NEW L \in Nat, NEW s \in Seq(1..L), NEW t \in Seq(1..L)
  PROVE  /\ s \o t \in Seq(1..L) /\ (s \o t = <<>> <=> s = <<>> /\ t = <<>>)
         /\ Single(s) /\ Single(t) /\ Apart(s, t) => Single(s \o t)
         /\ \A u : Apart(s, u) /\ Apart(t, u) => Apart(s \o t, u)
  <1>1. PICK w : w = s \o t
    OBVIOUS
  <1>2. PICK p, q \in Nat : p = Len(s) /\ q = Len(t)
    OBVIOUS
  <1>3. /\ w \in Seq(1..L) /\ Len(w) = p + q
        /\ \A i \in 1..(p + q) : \/ i \in 1..p /\ w[i] = s[i]
                                 \/ i \notin 1..p /\ i - p \in 1..q /\ w[i] = t[i - p]
    BY <1>1, <1>2
  <1>4. w = <<>> <=> s = <<>> /\ t = <<>>
    BY <1>2, <1>3
  <1>5. ASSUME Single(s), Single(t), Apart(s, t)
        PROVE  Single(w)
    <2>1. ASSUME NEW i \in 1..(p + q), NEW j \in 1..(p + q), w[i] = w[j]
          PROVE  i = j
      <3>1. CASE i \in 1..p /\ j \in 1..p
        BY <1>2, <1>3, <1>5, <2>1, <3>1 DEF Single
      <3>2. CASE i \notin 1..p /\ j \notin 1..p
        <4>1. i - p \in 1..q /\ j - p \in 1..q /\ t[i - p] = t[j - p]
          BY <1>3, <2>1, <3>2
        <4>2. i - p = j - p
          BY <1>2, <1>5, <4>1 DEF Single
        <4>. QED  BY <4>2
      <3>3. CASE i \in 1..p /\ j \notin 1..p
        BY <1>2, <1>3, <1>5, <2>1, <3>3 DEF Apart
      <3>4. CASE i \notin 1..p /\ j \in 1..p
        BY <1>2, <1>3, <1>5, <2>1, <3>4 DEF Apart
      <3>. QED  BY <3>1, <3>2, <3>3, <3>4
    <2>. QED  BY <1>3, <2>1 DEF Single
  <1>6. ASSUME NEW u, Apart(s, u), Apart(t, u)
        PROVE  Apart(w, u)
    <2>1. \A j \in 1..Len(u) : (\A i \in 1..p : s[i] # u[j]) /\ (\A i \in 1..q : t[i] # u[j])
      BY <1>2, <1>6 DEF Apart
    <2>2. \A i \in 1..(p + q), j \in 1..Len(u) : w[i] # u[j]
      BY <1>3, <2>1
    <2>. QED  BY <1>3, <2>2 DEF Apart
  <1>. QED  BY <1>1, <1>3, <1>4, <1>5, <1>6

(* What is taken off a stack, from its top to just above position left.    *)
LEMMA TakenOff ==
  ASSUME NEW L \in Nat, NEW s \in Seq(1..L), NEW left \in 0..Len(s), Single(s),
         NEW off, off = reversed(SubSeq(s, left + 1, Len(s)))
  PROVE  /\ off \in Seq(1..L) /\ Single(off) /\ (off = <<>> <=> left = Len(s))
         /\ \A m \in 0..left : Apart(off, SubSeq(s, 1, m))
         /\ \A u : Apart(s, u) => Apart(off, u)
         /\ \A u : Apart(u, s) => Apart(u, off)
  <1>1. PICK q \in Nat : q = Len(s)
    OBVIOUS
  <1>2. PICK d \in Nat : d = q - left
    <2>1. left \in 0..q
      BY <1>1
    <2>. QED  BY <2>1
  <1>3. PICK c : c = SubSeq(s, left + 1, q)
    OBVIOUS
  <1>4. c \in Seq(1..L) /\ Len(c) = d /\ \A i \in 1..d : c[i] = s[left + i]
    BY <1>1, <1>2, <1>3
  <1>5. off = [i \in 1..d |-> c[d + 1 - i]]
    BY <1>1, <1>3, <1>4 DEF reversed
  <1>6. off \in Seq(1..L) /\ Len(off) = d /\ \A i \in 1..d : off[i] = c[d + 1 - i]
    <2>1. \A i \in 1..d : c[d + 1 - i] \in 1..L
      BY <1>4
    <2>2. off \in [1..d -> 1..L]
      BY <1>5, <2>1
    <2>. QED  BY <1>5, <2>2
  <1>7. \A i \in 1..d : off[i] = s[q + 1 - i] /\ q + 1 - i \in 1..q /\ q + 1 - i > left
    <2>1. ASSUME NEW i \in 1..d
          PROVE  off[i] = s[q + 1 - i]
      <3>1. PICK j \in 1..d : j = d + 1 - i
        OBVIOUS
      <3>2. off[i] = c[j] /\ c[j] = s[left + j] /\ left + j = q + 1 - i
        BY <1>2, <1>4, <1>6, <3>1
      <3>. QED  BY <3>2
    <2>. QED  BY <1>1, <1>2, <2>1
  <1>8. \A i, j \in 1..q : s[i] = s[j] => i = j
    BY <1>1 DEF Single
  <1>9. Single(off)
    <2>1. ASSUME NEW i \in 1..d, NEW j \in 1..d, off[i] = off[j]
          PROVE  i = j
      <3>1. q + 1 - i = q + 1 - j
        BY <1>7, <1>8, <2>1
      <3>. QED  BY <3>1
    <2>. QED  BY <1>6, <2>1 DEF Single
  <1>10. off = <<>> <=> left = q
    BY <1>1, <1>2, <1>6
  <1>11. ASSUME NEW m \in 0..left
         PROVE  Apart(off, SubSeq(s, 1, m))
    <2>1. m \in 0..Len(s) /\ m \in 0..q
      BY <1>1
    <2>2. PICK part : part = SubSeq(s, 1, m)
      OBVIOUS
    <2>3. Len(part) = m /\ \A i \in 1..m : part[i] = s[i]
      BY <2>1, <2>2, FirstPositions
    <2>4. ASSUME NEW i \in 1..d, NEW j \in 1..m, off[i] = part[j]
          PROVE  FALSE
      <3>1. PICK x \in 1..q : x = q + 1 - i
        BY <1>7
      <3>2. s[x] = s[j] /\ j \in 1..q /\ x # j
        BY <1>7, <2>1, <2>3, <2>4, <3>1
      <3>. QED  BY <1>8, <3>2
    <2>. QED  BY <1>6, <2>2, <2>3, <2>4 DEF Apart
  <1>12. ASSUME NEW u
         PROVE  (Apart(s, u) => Apart(off, u)) /\ (Apart(u, s) => Apart(u, off))
    <2>1. ASSUME Apart(s, u)
          PROVE  Apart(off, u)
      <3>1. \A x \in 1..q, j \in 1..Len(u) : s[x] # u[j]
        BY <1>1, <2>1 DEF Apart
      <3>2. \A i \in 1..d, j \in 1..Len(u) : off[i] # u[j]
        BY <1>7, <3>1
      <3>. QED  BY <1>6, <3>2 DEF Apart
    <2>2. ASSUME Apart(u, s)
          PROVE  Apart(u, off)
      <3>1. \A j \in 1..Len(u), x \in 1..q : u[j] # s[x]
        BY <1>1, <2>2 DEF Apart
      <3>2. \A j \in 1..Len(u), i \in 1..d : u[j] # off[i]
        BY <1>7, <3>1
      <3>. QED  BY <1>6, <3>2 DEF Apart
    <2>. QED  BY <2>1, <2>2
  <1>. QED  BY <1>1, <1>6, <1>9, <1>10, <1>11, <1>12

--------------------------------------------------------------------------------

(* The runs go on with the token read.                                     *)
LEMMA RunsGrow ==
  ASSUME CheckTypes, Tracked, NEW t \in Tokens, source' = Append(source, t),
         NEW n \in Nat, n = Len(source) + 1
  PROVE  \E g, k : /\ bracketRun(g)' /\ blockRun(k)'
                   /\ issues # <<>> => g[n] = lost \/ k[n] = lost \/ at({"open"})' # {}
                   /\ issues = <<>> =>
                        /\ at({"open"}) = {}
                        /\ g[n] = shift(n, stack, at(DOMAIN Closer)', bracketPairs', at(DOMAIN Closer \cup Closers)')
                        /\ k[n] = shift(n, blockStack, blockOpeners', blockPairs', blockOpeners' \cup at({"end", "until"})')
  <1>1. PICK f, h : /\ bracketRun(f) /\ blockRun(h)
                    /\ issues = <<>> => clean(f, h)
                    /\ issues # <<>> => broken(f, h)
    BY Zenon DEF Tracked
  <1>2. source \in Seq(Tokens)
    BY DEF CheckTypes
  <1>3. PICK g : /\ bracketRun(g)'
                 /\ g[n] = shift(n, f[Len(source)], at(DOMAIN Closer)', bracketPairs', at(DOMAIN Closer \cup Closers)')
    BY <1>1, <1>2, BracketsGrow
  <1>4. PICK k : /\ blockRun(k)'
                 /\ k[n] = shift(n, h[Len(source)], blockOpeners', blockPairs', blockOpeners' \cup at({"end", "until"})')
    BY <1>1, <1>2, BlocksGrow
  <1>5. at({"open"}) \subseteq at({"open"})'
    BY <1>2, TokenRead
  <1>6. \A O, C, R : shift(n, lost, O, C, R) = lost
    BY DEF shift
  <1>7. issues # <<>> => g[n] = lost \/ k[n] = lost \/ at({"open"})' # {}
    BY <1>1, <1>3, <1>4, <1>5, <1>6, Zenon DEF broken
  <1>8. issues = <<>> => at({"open"}) = {} /\ f[Len(source)] = stack /\ h[Len(source)] = blockStack
    BY <1>1, Zenon DEF clean
  <1>. QED  BY <1>3, <1>4, <1>7, <1>8

(* What a step that reads a token owes to the runs.                        *)
LEMMA StillTracked ==
  ASSUME CheckTypes, Tracked, NEW t \in Tokens, source' = Append(source, t),
         NEW n \in Nat, n = Len(source) + 1, issues # <<>> => issues' # <<>>,
         NEW brackets, brackets = shift(n, stack, at(DOMAIN Closer)', bracketPairs', at(DOMAIN Closer \cup Closers)'),
         NEW blocks, blocks = shift(n, blockStack, blockOpeners', blockPairs', blockOpeners' \cup at({"end", "until"})'),
         issues' = <<>> => brackets = stack' /\ blocks = blockStack' /\ t # "open",
         issues = <<>> /\ issues' # <<>> => brackets = lost \/ blocks = lost \/ t = "open"
  PROVE  Tracked'
  <1>1. PICK g, k : /\ bracketRun(g)' /\ blockRun(k)'
                    /\ issues # <<>> => g[n] = lost \/ k[n] = lost \/ at({"open"})' # {}
                    /\ issues = <<>> => at({"open"}) = {} /\ g[n] = brackets /\ k[n] = blocks
    BY RunsGrow
  <1>2. source \in Seq(Tokens)
    BY DEF CheckTypes
  <1>3. Len(source') = n
    BY <1>2, AtGrows
  <1>4. (at({"open"}) = {} /\ t # "open" => at({"open"})' = {}) /\ (t = "open" => at({"open"})' # {})
    <2>1. (n \in at({"open"})' <=> t \in {"open"}) /\ at({"open"})' \subseteq at({"open"}) \cup {n}
      BY <1>2, TokenRead
    <2>. QED  BY <2>1
  <1>5. issues' = <<>> => g[n] = stack' /\ k[n] = blockStack' /\ at({"open"})' = {}
    BY <1>1, <1>4, Zenon
  <1>6. issues' # <<>> => g[n] = lost \/ k[n] = lost \/ at({"open"})' # {}
    BY <1>1, <1>4, Zenon
  <1>7. (issues = <<>> => clean(g, k))' /\ (issues # <<>> => broken(g, k))'
    BY <1>3, <1>5, <1>6, Zenon DEF clean, broken
  <1>. QED  BY <1>1, <1>7, Zenon DEF Tracked

(* Before the end of the source, what a step starts from.                  *)
LEMMA Known ==
  ASSUME CheckInv, ~done
  PROVE  /\ CheckTypes /\ Separate /\ Tracked
         /\ source \in Seq(Tokens) /\ Len(source) \in Nat
         /\ stack \in Seq(1..Len(source)) /\ blockStack \in Seq(1..Len(source)) /\ issues \in Seq(1..Len(source))
         /\ \A m \in 1..Len(stack) : stack[m] \in at(DOMAIN Closer)
         /\ \A m \in 1..Len(blockStack) : blockStack[m] \in blockOpeners
         /\ Single(stack) /\ Single(blockStack) /\ Single(issues)
         /\ Apart(stack, blockStack) /\ Apart(issues, stack) /\ Apart(issues, blockStack)
         /\ Apart(blockStack, stack) /\ Apart(stack, issues) /\ Apart(blockStack, issues)
  <1>1. CheckTypes /\ Separate /\ Tracked
    BY DEF CheckInv
  <1>2. Apart(blockStack, stack) /\ Apart(stack, issues) /\ Apart(blockStack, issues)
    BY <1>1 DEF Separate, Apart
  <1>. QED  BY <1>1, <1>2 DEF Separate, CheckTypes, Positions

(* What was a stack of openers is one when a token more is read.           *)
LEMMA StillOpeners ==
  ASSUME source \in Seq(Tokens), NEW t \in Tokens, source' = Append(source, t),
         NEW n \in Nat, n = Len(source) + 1
  PROVE  /\ at(DOMAIN Closer) \subseteq at(DOMAIN Closer)' /\ blockOpeners \subseteq blockOpeners'
         /\ Len(source') = n /\ source' \in Seq(Tokens)
         /\ \A s : s \in Seq(1..Len(source)) => s \in Seq(1..n)
  <1>1. /\ Len(source') = n /\ Len(source) \in Nat /\ source' \in Seq(Tokens)
        /\ \A i \in 1..Len(source) : i \in 1..n /\ source'[i] = source[i]
    BY AtGrows
  <1>2. \A S : at(S) \subseteq at(S)'
    BY TokenRead
  <1>3. ASSUME NEW i \in blockOpeners
        PROVE  i \in blockOpeners'
    <2>1. i \in 1..Len(source) /\ source'[i] = source[i] /\ (i > 1 => source'[i - 1] = source[i - 1])
      BY <1>1, <1>3 DEF blockOpeners, at
    <2>2. i \in at(Openers)'
      BY <1>2, <1>3 DEF blockOpeners
    <2>. QED  BY <1>3, <2>1, <2>2 DEF blockOpeners
  <1>4. 1..Len(source) \subseteq 1..n
    BY <1>1
  <1>5. \A s : s \in Seq(1..Len(source)) => s \in Seq(1..n)
    BY <1>4
  <1>6. at(DOMAIN Closer) \subseteq at(DOMAIN Closer)'
    BY <1>2
  <1>. QED  BY <1>1, <1>3, <1>5, <1>6

(* What a step that reads a token has to show.                             *)
LEMMA ReadStep ==
  ASSUME CheckInv, ~done, ~done', done' \in BOOLEAN, NEW t \in Tokens, source' = Append(source, t),
         NEW n \in Nat, n = Len(source) + 1,
         stack' \in Seq(1..n), blockStack' \in Seq(1..n), issues' \in Seq(1..n),
         \A m \in 1..Len(stack') : stack'[m] \in at(DOMAIN Closer)',
         \A m \in 1..Len(blockStack') : blockStack'[m] \in blockOpeners',
         Single(stack'), Single(blockStack'), Single(issues'),
         Apart(stack', blockStack'), Apart(issues', stack'), Apart(issues', blockStack'),
         issues # <<>> => issues' # <<>>,
         NEW brackets, brackets = IF t \in DOMAIN Closer THEN Append(stack, n)
                                  ELSE IF t \in Closers
                                  THEN IF stack # <<>> /\ Closer[source[stack[Len(stack)]]] = t THEN Front(stack) ELSE lost
                                  ELSE stack,
         NEW blocks, blocks = IF t \in Openers /\ ~(t = "if" /\ prevSig \in EXPR_PREV) THEN Append(blockStack, n)
                              ELSE IF t \in {"end", "until"}
                              THEN IF blockStack # <<>> /\ (t = "end" \/ source[blockStack[Len(blockStack)]] = "repeat")
                                   THEN Front(blockStack) ELSE lost
                              ELSE blockStack,
         issues' = <<>> => brackets = stack' /\ blocks = blockStack' /\ t # "open",
         issues = <<>> /\ issues' # <<>> => brackets = lost \/ blocks = lost \/ t = "open"
  PROVE  CheckInv'
  <1>1. /\ CheckTypes /\ Tracked
        /\ source \in Seq(Tokens) /\ stack \in Seq(1..Len(source)) /\ blockStack \in Seq(1..Len(source))
        /\ \A m \in 1..Len(stack) : stack[m] \in at(DOMAIN Closer)
        /\ \A m \in 1..Len(blockStack) : blockStack[m] \in blockOpeners
    BY Known
  <1>2. Len(source') = n /\ source' \in Seq(Tokens)
    BY <1>1, StillOpeners
  <1>3. CheckTypes'
    BY <1>2 DEF CheckTypes, Positions
  <1>4. Separate'
    BY DEF Separate
  <1>5. brackets = shift(n, stack, at(DOMAIN Closer)', bracketPairs', at(DOMAIN Closer \cup Closers)')
    BY <1>1, BracketShift
  <1>6. blocks = shift(n, blockStack, blockOpeners', blockPairs', blockOpeners' \cup at({"end", "until"})')
    BY <1>1, BlockShift
  <1>7. Tracked'
    BY <1>1, <1>5, <1>6, StillTracked
  <1>. QED  BY <1>3, <1>4, <1>7 DEF CheckInv

(* The kinds of tokens are apart.                                          *)
LEMMA Kinds ==
  /\ \A t \in DOMAIN Closer : t \notin Closers /\ t \notin Openers /\ t \notin {"end", "until", "closed", "open", "escaped"}
  /\ \A t \in Closers : t \notin Openers /\ t \notin {"end", "until", "closed", "open", "escaped"}
  /\ \A t \in Openers : t \notin {"end", "until", "closed", "open", "escaped"}
  /\ \A t \in {"end", "until", "closed", "open", "escaped"} :
       t \notin DOMAIN Closer /\ t \notin Closers /\ t \notin Openers
  BY DEF Closer, Closers, Openers

(* What a step that reads t at position n starts from, and what it keeps.  *)
Reads(t, n) ==
  /\ n \in Nat /\ n = Len(source) + 1 /\ n = here
  /\ ~done /\ ~done' /\ done' \in BOOLEAN /\ source' = Append(source, t)
  /\ source \in Seq(Tokens) /\ Len(source) \in Nat
  /\ stack \in Seq(1..Len(source)) /\ blockStack \in Seq(1..Len(source)) /\ issues \in Seq(1..Len(source))
  /\ stack \in Seq(1..n) /\ blockStack \in Seq(1..n) /\ issues \in Seq(1..n)
  /\ \A m \in 1..Len(stack) : stack[m] \in at(DOMAIN Closer)'
  /\ \A m \in 1..Len(blockStack) : blockStack[m] \in blockOpeners'
  /\ Single(stack) /\ Single(blockStack) /\ Single(issues)
  /\ Apart(stack, blockStack) /\ Apart(issues, stack) /\ Apart(issues, blockStack)
  /\ Apart(blockStack, stack) /\ Apart(stack, issues) /\ Apart(blockStack, issues)
  /\ t \in DOMAIN Closer => n \in at(DOMAIN Closer)'
  /\ t \in Openers /\ ~(t = "if" /\ prevSig \in EXPR_PREV) => n \in blockOpeners'

(* Every action but EndOfSource reads a token so.                          *)
LEMMA Reading ==
  ASSUME CheckInv, NEW t \in Tokens, read(t), done' = done
  PROVE  \E n : Reads(t, n)
  <1>1. ~done /\ ~done' /\ done' \in BOOLEAN /\ source' = Append(source, t)
    BY DEF read, CheckInv, CheckTypes
  <1>2. PICK n \in Nat : n = Len(source) + 1
    BY <1>1, Known
  <1>3. /\ at(DOMAIN Closer) \subseteq at(DOMAIN Closer)' /\ blockOpeners \subseteq blockOpeners'
        /\ \A s : s \in Seq(1..Len(source)) => s \in Seq(1..n)
    BY <1>1, <1>2, Known, StillOpeners
  <1>4. /\ t \in DOMAIN Closer => n \in at(DOMAIN Closer)'
        /\ t \in Openers /\ ~(t = "if" /\ prevSig \in EXPR_PREV) => n \in blockOpeners'
    BY <1>1, <1>2, Known, TokenRead
  <1>5. /\ \A m \in 1..Len(stack) : stack[m] \in at(DOMAIN Closer)'
        /\ \A m \in 1..Len(blockStack) : blockStack[m] \in blockOpeners'
    BY <1>1, <1>3, Known
  <1>6. stack \in Seq(1..n) /\ blockStack \in Seq(1..n) /\ issues \in Seq(1..n)
    BY <1>1, <1>3, Known
  <1>7. n = here
    BY <1>2 DEF here
  <1>. QED  BY <1>1, <1>2, <1>4, <1>5, <1>6, <1>7, Known DEF Reads

(* A stack one shorter.                                                    *)
LEMMA Popped ==
  ASSUME NEW L \in Nat, NEW s \in Seq(1..L), s # <<>>, Single(s)
  PROVE  /\ pop(s) = Front(s) /\ pop(s) \in Seq(1..(L + 1)) /\ Single(pop(s))
         /\ \A u : (Apart(s, u) => Apart(pop(s), u)) /\ (Apart(u, s) => Apart(u, pop(s)))
         /\ \A S : (\A m \in 1..Len(s) : s[m] \in S) => \A m \in 1..Len(pop(s)) : pop(s)[m] \in S
  <1>1. PICK q \in Nat \ {0} : q = Len(s)
    OBVIOUS
  <1>2. pop(s) = SubSeq(s, 1, q - 1) /\ Front(s) = SubSeq(s, 1, q - 1)
    BY <1>1 DEF pop, Front
  <1>3. q - 1 \in 0..Len(s)
    BY <1>1
  <1>4. /\ pop(s) \in Seq(1..(L + 1)) /\ Len(pop(s)) = q - 1 /\ \A i \in 1..(q - 1) : pop(s)[i] = s[i]
        /\ Single(pop(s)) /\ \A u : (Apart(s, u) => Apart(pop(s), u)) /\ (Apart(u, s) => Apart(u, pop(s)))
    BY <1>2, <1>3, FirstPositions
  <1>. QED  BY <1>1, <1>2, <1>4

(* An opening bracket goes on the stack of the run and of the code.        *)
LEMMA OpenBracketInv ==
  ASSUME CheckInv, OpenBracket
  PROVE  CheckInv'
  <1>1. PICK t \in Tokens : t \in DOMAIN Closer /\ read(t)
    BY DEF OpenBracket
  <1>2. stack' = Append(stack, here) /\ blockStack' = blockStack /\ issues' = issues /\ done' = done
    BY DEF OpenBracket
  <1>3. PICK n : Reads(t, n)
    BY <1>1, <1>2, Reading
  <1>4. stack' \in Seq(1..n) /\ Single(stack') /\ Apart(stack', blockStack') /\ Apart(issues', stack')
    BY <1>2, <1>3, NewPosition DEF Reads
  <1>5. \A m \in 1..Len(stack') : stack'[m] \in at(DOMAIN Closer)'
    <2>1. stack' = Append(stack, n) /\ n \in at(DOMAIN Closer)'
      BY <1>1, <1>2, <1>3 DEF Reads
    <2>2. \A m \in 1..Len(stack') : stack'[m] = n \/ \E k \in 1..Len(stack) : stack'[m] = stack[k]
      BY <1>3, <2>1 DEF Reads
    <2>. QED  BY <1>3, <2>1, <2>2 DEF Reads
  <1>6. t \notin Openers /\ t \notin {"end", "until"} /\ t # "open"
    BY <1>1, Kinds
  <1>. QED  BY <1>1, <1>2, <1>3, <1>4, <1>5, <1>6, ReadStep DEF Reads

(* A closing bracket takes its opener off both stacks, or is blamed and    *)
(* loses the run.                                                          *)
LEMMA CloseBracketInv ==
  ASSUME CheckInv, CloseBracket
  PROVE  CheckInv'
  <1>1. PICK t \in Tokens : /\ t \in Closers /\ read(t)
                            /\ issues' = IF stack = <<>> \/ Closer[source[top(stack)]] # t
                                         THEN Append(issues, here) ELSE issues
    BY DEF CloseBracket
  <1>2. /\ stack' = IF stack = <<>> THEN <<>> ELSE pop(stack)
        /\ blockStack' = blockStack /\ done' = done
    BY DEF CloseBracket
  <1>3. PICK n : Reads(t, n)
    BY <1>1, <1>2, Reading
  <1>4. /\ stack' \in Seq(1..n) /\ Single(stack') /\ Apart(stack', blockStack') /\ Apart(issues, stack')
        /\ Apart(stack', issues)
        /\ \A m \in 1..Len(stack') : stack'[m] \in at(DOMAIN Closer)'
        /\ stack # <<>> => stack' = Front(stack)
    <2>1. CASE stack = <<>>
      <3>1. stack' = stack
        BY <1>2, <2>1
      <3>. QED  BY <1>2, <1>3, <2>1, <3>1 DEF Reads
    <2>2. CASE stack # <<>>
      BY <1>2, <1>3, <2>2, Popped DEF Reads
    <2>. QED  BY <2>1, <2>2
  <1>5. /\ issues' \in Seq(1..n) /\ Single(issues') /\ Apart(issues', blockStack') /\ (issues # <<>> => issues' # <<>>)
    BY <1>1, <1>2, <1>3, NewPosition DEF Reads
  <1>6. Apart(issues', stack')
    <2>1. CASE issues' = issues
      BY <1>4, <2>1
    <2>2. CASE issues' = Append(issues, n)
      <3>1. stack' \in Seq(1..Len(source))
        <4>1. CASE stack = <<>>
          BY <1>2, <1>3, <4>1 DEF Reads
        <4>2. CASE stack # <<>>
          <5>1. PICK q \in Nat \ {0} : q = Len(stack)
            BY <1>3, <4>2 DEF Reads
          <5>2. stack' = Front(stack) /\ Front(stack) \in Seq(1..Len(source))
            BY <1>3, <1>4, <4>2, <5>1, FrontElements DEF Reads
          <5>. QED  BY <5>2
        <4>. QED  BY <4>1, <4>2
      <3>. QED  BY <1>3, <1>4, <2>2, <3>1, NewPosition DEF Reads
    <2>. QED  BY <1>1, <1>3, <2>1, <2>2 DEF Reads
  <1>7. t \notin DOMAIN Closer /\ t \notin Openers /\ t \notin {"end", "until"} /\ t # "open"
    BY <1>1, Kinds
  <1>8. Append(issues, n) # <<>>
    BY <1>3, NewPosition DEF Reads
  <1>9. issues' = <<>> <=> issues = <<>> /\ stack # <<>> /\ Closer[source[stack[Len(stack)]]] = t
    BY <1>1, <1>3, <1>8 DEF Reads, top
  <1>. QED  BY <1>1, <1>2, <1>3, <1>4, <1>5, <1>6, <1>7, <1>9, ReadStep DEF Reads

(* A block opener goes on both stacks, an `if` after an operator on none.  *)
LEMMA OpenBlockInv ==
  ASSUME CheckInv, OpenBlock
  PROVE  CheckInv'
  <1>1. PICK t \in Tokens : /\ t \in Openers /\ read(t)
                            /\ blockStack' = IF t = "if" /\ prevSig \in EXPR_PREV THEN blockStack
                                             ELSE Append(blockStack, here)
    BY DEF OpenBlock
  <1>2. stack' = stack /\ issues' = issues /\ done' = done
    BY DEF OpenBlock
  <1>3. PICK n : Reads(t, n)
    BY <1>1, <1>2, Reading
  <1>4. /\ blockStack' \in Seq(1..n) /\ Single(blockStack') /\ Apart(stack', blockStack')
        /\ Apart(issues', blockStack')
    BY <1>1, <1>2, <1>3, NewPosition DEF Reads
  <1>5. \A m \in 1..Len(blockStack') : blockStack'[m] \in blockOpeners'
    <2>1. CASE t = "if" /\ prevSig \in EXPR_PREV
      BY <1>1, <1>3, <2>1 DEF Reads
    <2>2. CASE ~(t = "if" /\ prevSig \in EXPR_PREV)
      <3>1. blockStack' = Append(blockStack, n) /\ n \in blockOpeners'
        BY <1>1, <1>3, <2>2 DEF Reads
      <3>2. \A m \in 1..Len(blockStack') : blockStack'[m] = n \/ \E k \in 1..Len(blockStack) : blockStack'[m] = blockStack[k]
        BY <1>3, <3>1 DEF Reads
      <3>. QED  BY <1>3, <3>1, <3>2 DEF Reads
    <2>. QED  BY <2>1, <2>2
  <1>6. t \notin DOMAIN Closer /\ t \notin Closers /\ t \notin {"end", "until"} /\ t # "open"
    BY <1>1, Kinds
  <1>. QED  BY <1>1, <1>2, <1>3, <1>4, <1>5, <1>6, ReadStep DEF Reads

(* `end` takes any opener off both stacks, or is blamed and loses the run. *)
LEMMA EndInv ==
  ASSUME CheckInv, End
  PROVE  CheckInv'
  <1>1. PICK t \in Tokens : t = "end" /\ read(t)
    BY DEF End
  <1>2. /\ blockStack' = IF blockStack = <<>> THEN <<>> ELSE pop(blockStack)
        /\ issues' = IF blockStack = <<>> THEN Append(issues, here) ELSE issues
        /\ stack' = stack /\ done' = done
    BY DEF End
  <1>3. PICK n : Reads(t, n)
    BY <1>1, <1>2, Reading
  <1>4. /\ blockStack' \in Seq(1..n) /\ Single(blockStack') /\ Apart(stack', blockStack') /\ Apart(issues, blockStack')
        /\ \A m \in 1..Len(blockStack') : blockStack'[m] \in blockOpeners'
        /\ blockStack # <<>> => blockStack' = Front(blockStack)
    <2>1. CASE blockStack = <<>>
      <3>1. blockStack' = blockStack
        BY <1>2, <2>1
      <3>. QED  BY <1>2, <1>3, <2>1, <3>1 DEF Reads
    <2>2. CASE blockStack # <<>>
      BY <1>2, <1>3, <2>2, Popped DEF Reads
    <2>. QED  BY <2>1, <2>2
  <1>5. /\ issues' \in Seq(1..n) /\ Single(issues') /\ Apart(issues', stack') /\ Apart(issues', blockStack')
        /\ (issues # <<>> => issues' # <<>>)
    <2>1. CASE blockStack = <<>>
      <3>1. issues' = Append(issues, n) /\ blockStack' = blockStack
        BY <1>2, <1>3, <2>1 DEF Reads
      <3>2. /\ Append(issues, n) \in Seq(1..n) /\ Single(Append(issues, n)) /\ Append(issues, n) # <<>>
            /\ Apart(Append(issues, n), stack) /\ Apart(Append(issues, n), blockStack)
        BY <1>3, NewPosition DEF Reads
      <3>. QED  BY <1>2, <3>1, <3>2
    <2>2. CASE blockStack # <<>>
      BY <1>2, <1>3, <1>4, <2>2 DEF Reads
    <2>. QED  BY <2>1, <2>2
  <1>6. t \notin DOMAIN Closer /\ t \notin Closers /\ t \notin Openers /\ t \in {"end", "until"} /\ t # "open"
    BY <1>1, Kinds
  <1>7. issues' = <<>> <=> issues = <<>> /\ blockStack # <<>>
    <2>1. Append(issues, n) # <<>>
      BY <1>3, NewPosition DEF Reads
    <2>. QED  BY <1>2, <1>3, <2>1 DEF Reads
  <1>. QED  BY <1>1, <1>2, <1>3, <1>4, <1>5, <1>6, <1>7, ReadStep DEF Reads

(* A string leaves the stacks alone and is blamed if it is open.           *)
LEMMA StringInv ==
  ASSUME CheckInv, String
  PROVE  CheckInv'
  <1>1. PICK t \in Tokens : /\ t \in {"closed", "open", "escaped"} /\ read(t)
                            /\ issues' = IF t = "open" THEN Append(issues, here) ELSE issues
    BY DEF String
  <1>2. stack' = stack /\ blockStack' = blockStack /\ done' = done
    BY DEF String
  <1>3. PICK n : Reads(t, n)
    BY <1>1, <1>2, Reading
  <1>4. /\ issues' \in Seq(1..n) /\ Single(issues') /\ Apart(issues', blockStack') /\ Apart(issues', stack')
        /\ (t = "open" => issues' # <<>>) /\ (issues # <<>> => issues' # <<>>)
    BY <1>1, <1>2, <1>3, NewPosition DEF Reads
  <1>5. t \notin DOMAIN Closer /\ t \notin Closers /\ t \notin Openers /\ t \notin {"end", "until"}
    BY <1>1, Kinds
  <1>. QED  BY <1>1, <1>2, <1>3, <1>4, <1>5, ReadStep DEF Reads

(* Any other token leaves all as it was.                                   *)
LEMMA OtherInv ==
  ASSUME CheckInv, Other
  PROVE  CheckInv'
  <1>1. PICK t \in Tokens : /\ read(t) /\ t \notin DOMAIN Closer /\ t \notin Closers /\ t \notin Openers
                            /\ t \notin {"end", "until", "closed", "open", "escaped"}
    BY DEF Other
  <1>2. stack' = stack /\ blockStack' = blockStack /\ issues' = issues /\ done' = done
    BY DEF Other
  <1>3. PICK n : Reads(t, n)
    BY <1>1, <1>2, Reading
  <1>. QED  BY <1>1, <1>2, <1>3, ReadStep DEF Reads

(* `until` on top of its `repeat` takes it off both stacks; otherwise what *)
(* is in between, or it, is blamed, and the run is lost.                   *)
LEMMA UntilInv ==
  ASSUME CheckInv, Until
  PROVE  CheckInv'
  <1>1. PICK t \in Tokens : t = "until" /\ read(t)
    BY DEF Until
  <1>2. PICK left : left = IF repeats = {} THEN 0 ELSE innermostRepeat
    OBVIOUS
  <1>3. PICK off : off = reversed(SubSeq(blockStack, left + 1, Len(blockStack)))
    OBVIOUS
  <1>4. /\ blockStack' = SubSeq(blockStack, 1, left - 1)
        /\ issues' = issues \o off \o (IF repeats = {} THEN <<here>> ELSE <<>>)
        /\ stack' = stack /\ done' = done
    BY <1>2, <1>3 DEF Until
  <1>5. PICK n : Reads(t, n)
    BY <1>1, <1>4, Reading
  <1>6. PICK L, q \in Nat : L = Len(source) /\ q = Len(blockStack) /\ n = L + 1
    BY <1>5 DEF Reads
  <1>7. /\ repeats = {} => left = 0
        /\ repeats # {} => left \in 1..q /\ source[blockStack[left]] = "repeat"
        /\ q > 0 /\ source[blockStack[q]] = "repeat" => left = q
    <2>1. repeats \in SUBSET (1..q) /\ \A i \in 1..q : i \in repeats <=> source[blockStack[i]] = "repeat"
      BY <1>6 DEF repeats
    <2>2. repeats # {} => innermostRepeat \in repeats /\ \A j \in repeats : j <= innermostRepeat
      <3>1. ASSUME repeats # {}
            PROVE  \E i \in repeats : \A j \in repeats : j <= i
        BY <1>6, <2>1, <3>1, Greatest
      <3>. QED  BY <3>1 DEF innermostRepeat
    <2>3. CASE repeats = {}
      BY <1>2, <1>6, <2>1, <2>3
    <2>4. CASE repeats # {}
      <3>1. left \in repeats /\ \A j \in repeats : j <= left
        BY <1>2, <2>2, <2>4
      <3>2. left \in 1..q /\ source[blockStack[left]] = "repeat"
        BY <2>1, <3>1
      <3>3. q > 0 /\ source[blockStack[q]] = "repeat" => q \in repeats
        BY <2>1
      <3>4. q > 0 /\ source[blockStack[q]] = "repeat" => left = q
        BY <3>1, <3>2, <3>3
      <3>. QED  BY <2>4, <3>2, <3>4
    <2>. QED  BY <2>3, <2>4
  <1>8. left \in 0..Len(blockStack)
    BY <1>6, <1>7
  <1>9. /\ off \in Seq(1..L) /\ Single(off) /\ (off = <<>> <=> left = q)
        /\ \A m \in 0..left : Apart(off, SubSeq(blockStack, 1, m))
        /\ Apart(off, stack) /\ Apart(issues, off)
    BY <1>3, <1>5, <1>6, <1>8, TakenOff DEF Reads
  <1>10. PICK m \in 0..Len(blockStack) : m \in 0..left /\ blockStack' = SubSeq(blockStack, 1, m)
    <2>1. CASE left = 0
      <3>1. blockStack' = SubSeq(blockStack, 1, 0)
        BY <1>4, <1>5, <2>1 DEF Reads
      <3>. QED  BY <1>6, <2>1, <3>1
    <2>2. CASE left # 0
      BY <1>4, <1>6, <1>8, <2>2
    <2>. QED  BY <2>1, <2>2
  <1>11. /\ blockStack' \in Seq(1..n) /\ Single(blockStack') /\ Apart(stack', blockStack') /\ Apart(issues, blockStack')
         /\ Apart(off, blockStack') /\ blockStack' \in Seq(1..L)
         /\ \A i \in 1..Len(blockStack') : blockStack'[i] \in blockOpeners'
    <2>1. /\ blockStack' \in Seq(1..n) /\ Len(blockStack') = m /\ \A i \in 1..m : blockStack'[i] = blockStack[i]
          /\ Single(blockStack') /\ Apart(stack, blockStack') /\ Apart(issues, blockStack')
      BY <1>5, <1>6, <1>10, FirstPositions DEF Reads
    <2>2. \A i \in 1..m : i \in 1..Len(blockStack)
      BY <1>6, <1>10
    <2>3. blockStack' \in Seq(1..L)
      BY <1>5, <1>6, <1>10 DEF Reads
    <2>. QED  BY <1>4, <1>5, <1>9, <1>10, <2>1, <2>2, <2>3 DEF Reads
  <1>12. PICK joined : joined = issues \o off
    OBVIOUS
  <1>13. /\ joined \in Seq(1..L) /\ (joined = <<>> <=> issues = <<>> /\ left = q) /\ Single(joined)
         /\ Apart(joined, stack) /\ Apart(joined, blockStack')
    BY <1>5, <1>6, <1>9, <1>11, <1>12, Together DEF Reads
  <1>14. /\ issues' = IF repeats = {} THEN Append(joined, n) ELSE joined
    <2>1. joined \o <<n>> = Append(joined, n) /\ joined \o <<>> = joined
      BY <1>6, <1>13
    <2>. QED  BY <1>4, <1>5, <1>12, <2>1 DEF Reads
  <1>15. /\ Append(joined, n) \in Seq(1..n) /\ Single(Append(joined, n)) /\ Append(joined, n) # <<>>
         /\ Apart(Append(joined, n), stack) /\ Apart(Append(joined, n), blockStack') /\ joined \in Seq(1..n)
    BY <1>5, <1>6, <1>11, <1>13, NewPosition DEF Reads
  <1>16. /\ issues' \in Seq(1..n) /\ Single(issues') /\ Apart(issues', stack') /\ Apart(issues', blockStack')
         /\ (issues # <<>> => issues' # <<>>)
    BY <1>4, <1>13, <1>14, <1>15
  <1>17. issues' = <<>> <=> issues = <<>> /\ q > 0 /\ source[blockStack[q]] = "repeat"
    BY <1>6, <1>7, <1>13, <1>14, <1>15
  <1>18. blockStack # <<>> <=> q > 0
    BY <1>5, <1>6 DEF Reads
  <1>19. issues' = <<>> => blockStack' = Front(blockStack)
    BY <1>4, <1>6, <1>7, <1>17 DEF Front
  <1>20. t \notin DOMAIN Closer /\ t \notin Closers /\ t \notin Openers /\ t \in {"end", "until"} /\ t # "open" /\ t # "end"
    BY <1>1, Kinds
  <1>. QED  BY <1>4, <1>5, <1>6, <1>11, <1>16, <1>17, <1>18, <1>19, <1>20, ReadStep DEF Reads

(* At the end both runs are empty exactly if nothing is blamed.            *)
LEMMA EndOfSourceInv ==
  ASSUME CheckInv, EndOfSource
  PROVE  CheckInv'
  <1>1. /\ ~done /\ done' = TRUE /\ issues' = issues \o stack \o blockStack
        /\ source' = source /\ stack' = stack /\ blockStack' = blockStack
    BY DEF EndOfSource
  <1>2. PICK L \in Nat : L = Len(source)
    BY <1>1, Known
  <1>3. /\ issues \o stack \in Seq(1..L) /\ (issues \o stack = <<>> <=> issues = <<>> /\ stack = <<>>)
        /\ Single(issues \o stack) /\ Apart(issues \o stack, blockStack)
    BY <1>1, <1>2, Known, Together
  <1>4. /\ issues' \in Seq(1..L) /\ Single(issues')
        /\ issues' = <<>> <=> issues = <<>> /\ stack = <<>> /\ blockStack = <<>>
    <2>1. PICK joined : joined = issues \o stack
      OBVIOUS
    <2>2. joined \in Seq(1..L) /\ Single(joined) /\ Apart(joined, blockStack)
      BY <1>3, <2>1
    <2>3. blockStack \in Seq(1..L) /\ Single(blockStack)
      BY <1>1, <1>2, Known
    <2>4. /\ joined \o blockStack \in Seq(1..L) /\ Single(joined \o blockStack)
          /\ joined \o blockStack = <<>> <=> joined = <<>> /\ blockStack = <<>>
      BY <2>2, <2>3, Together
    <2>5. issues' = joined \o blockStack
      BY <1>1, <2>1
    <2>. QED  BY <1>3, <2>1, <2>4, <2>5
  <1>5. CheckTypes'
    BY <1>1, <1>2, <1>4, Known DEF CheckTypes, Positions, at, blockOpeners
  <1>6. PICK f, h : /\ bracketRun(f) /\ blockRun(h)
                    /\ issues = <<>> => clean(f, h)
                    /\ issues # <<>> => broken(f, h)
    BY <1>1, Known, Zenon DEF Tracked
  <1>7. lost # <<>>
    BY DEF lost
  <1>8. issues' = <<>> <=> f[Len(source)] = <<>> /\ h[Len(source)] = <<>> /\ at({"open"}) = {}
    <2>1. CASE issues = <<>>
      <3>1. f[Len(source)] = stack /\ h[Len(source)] = blockStack /\ at({"open"}) = {}
        BY <1>6, <2>1 DEF clean
      <3>. QED  BY <1>4, <2>1, <3>1
    <2>2. CASE issues # <<>>
      <3>1. f[Len(source)] = lost \/ h[Len(source)] = lost \/ at({"open"}) # {}
        BY <1>6, <2>2 DEF broken
      <3>. QED  BY <1>4, <1>7, <2>2, <3>1
    <2>. QED  BY <2>1, <2>2
  <1>9. bracketRun(f)' /\ blockRun(h)' /\ at({"open"})' = at({"open"}) /\ Len(source') = Len(source)
    BY <1>1, <1>6 DEF bracketRun, blockRun, at, bracketPairs, blockPairs, blockOpeners
  <1>10. Judged'
    BY <1>8, <1>9, Zenon DEF Judged
  <1>. QED  BY <1>1, <1>4, <1>5, <1>10 DEF CheckInv

(* validateLuaSource accepts exactly the sources whose brackets and blocks *)
(* nest and whose strings end, and blames no token twice.                  *)
THEOREM AcceptsNestedCorrect == CheckSpec => []AcceptsNested
  <1>1. CheckInit => CheckInv
    BY CheckInitInv
  <1>2. CheckInv /\ [CheckNext]_checkVars => CheckInv'
    <2> SUFFICES ASSUME CheckInv, [CheckNext]_checkVars
                 PROVE  CheckInv'
      OBVIOUS
    <2>1. CASE UNCHANGED checkVars
      BY <2>1 DEF checkVars, CheckInv, CheckTypes, Positions, Separate, Tracked, Judged, clean, broken,
                  bracketRun, blockRun, at, bracketPairs, blockPairs, blockOpeners
    <2>. QED  BY <2>1, OpenBracketInv, CloseBracketInv, OpenBlockInv, EndInv, UntilInv, StringInv, OtherInv,
                 EndOfSourceInv DEF CheckNext
  <1>3. CheckInv => AcceptsNested
    BY InvAccepts
  <1>. QED  BY <1>1, <1>2, <1>3, PTL DEF CheckSpec

--------------------------------------------------------------------------------
(* The layout.                                                             *)

(* The records of the beautifier.                                          *)
Lexeme == [kind : STRING, text : STRING, depth : Nat, ifExpr : BOOLEAN, newlines : Nat]
Written == [tok : Lexeme, at : Nat, spaced : BOOLEAN]
Line == [indent : Nat, words : Seq(Written)]
Printer ==
  [cur : Seq(Written), lines : Seq(Line), indent : Nat, lineIndent : Nat,
   inIfExpr : BOOLEAN, suppressNextThen : BOOLEAN, inLoopHeader : BOOLEAN,
   prevTok : Lexeme \cup {noToken}, prevPrevTok : Lexeme \cup {noToken}]

apart(v, w) ==
  /\ v.tok.kind # "comment"
  /\ w.spaced \/ runTogether(v.tok, w.tok) \/ ~readsOtherwise(v.tok, w.tok)

legible(words) == \A k \in 1..(Len(words) - 1) : apart(words[k], words[k + 1])

capped(depth) == IF depth < MAX_INDENT THEN depth ELSE MAX_INDENT

leftAt(indent, words) == words[1].tok.kind # "comment" => indent = capped(words[1].tok.depth)

(* The text that a printer has written can be read.                        *)
Readable(p) ==
  /\ legible(p.cur)
  /\ \A n \in DOMAIN p.lines : p.lines[n].words # <<>> /\ legible(p.lines[n].words)

(* Its lines begin where they should.                                      *)
Aligned(p) ==
  /\ p.cur # <<>> => leftAt(p.lineIndent, p.cur)
  /\ \A n \in DOMAIN p.lines : leftAt(p.lines[n].indent, p.lines[n].words)

(* t is the last of n tokens that is no comment.                           *)
lastOf(s, n, t) ==
  \/ t = noToken /\ \A j \in 1..n : s[j].kind = "comment"
  \/ \E k \in 1..n : t = s[k] /\ s[k].kind # "comment" /\ \A j \in (k + 1)..n : s[j].kind = "comment"

Follows(p, s, n) ==
  p.cur # <<>> => /\ n > 0 /\ p.prevTok = s[n] /\ s[n].kind # "comment"
                  /\ p.cur[Len(p.cur)].tok = s[n]

(* The printer knows where in the program it is.                           *)
Oriented(p, s, n) ==
  /\ p.indent = depthAfter(s, n)
  /\ p.inIfExpr <=> awaited(s, n, "else")
  /\ p.suppressNextThen <=> awaited(s, n, "then")

(* The words are the tokens of the program, one after another.             *)
told(words, s) == \A k \in DOMAIN words : words[k].at \in DOMAIN s /\ words[k].tok = s[words[k].at]

successive(words) == \A k \in 1..(Len(words) - 1) : words[k + 1].at = words[k].at + 1

Complete(p, s, n) ==
  /\ told(p.cur, s) /\ successive(p.cur)
  /\ IF p.cur = <<>> THEN endOf(p.lines, Len(p.lines)) = n
     ELSE p.cur[1].at = endOf(p.lines, Len(p.lines)) + 1 /\ p.cur[Len(p.cur)].at = n
  /\ \A i \in DOMAIN p.lines :
       LET words == p.lines[i].words
       IN told(words, s) /\ successive(words) /\ words[1].at = endOf(p.lines, i - 1) + 1

(* What is returned, once it is.                                           *)
Returned ==
  /\ consumed = Len(tokens) /\ printer.cur = <<>>
  /\ out = [n \in DOMAIN printer.lines |-> collapsedLine(printer.lines[n])]

PrintInv ==
  /\ tokens \in Listings /\ consumed \in 0..Len(tokens) /\ printer \in Printer
  /\ out # <<>> => Returned
  /\ Complete(printer, tokens, consumed)
  /\ Readable(printer) /\ Follows(printer, tokens, consumed)
  /\ lastOf(tokens, consumed, printer.prevTok)
  /\ understood(tokens) => Oriented(printer, tokens, consumed) /\ Aligned(printer)

(* What a listing is.                                                      *)
LEMMA ListingShape ==
  ASSUME NEW s \in Listings
  PROVE  /\ s \in Seq(Lexeme) /\ Len(s) \in Nat
         /\ \A i \in 1..Len(s) :
              /\ s[i] \in Lexeme /\ spelled(s[i])
              /\ depthAfter(s, i - 1) = IF closes(s[i]) THEN s[i].depth + 1 ELSE s[i].depth
         /\ depthAfter(s, Len(s)) = 0
         /\ \A i \in 1..(Len(s) - 1) : besides(s[i], s[i + 1])
         /\ understood(s) => \A i \in 1..Len(s) :
              /\ s[i].text = "then" => (s[i].ifExpr <=> awaited(s, i - 1, "then"))
              /\ s[i].text \in {"else", "elseif"} => (s[i].ifExpr <=> awaited(s, i - 1, "else"))
  <1>1. s \in Seq(Lexeme)
    BY BeautifyAssumption DEF Lexeme
  <1>2. Len(s) \in Nat /\ \A i \in 1..Len(s) : s[i] \in Lexeme
    BY <1>1
  <1>. QED  BY <1>1, <1>2, BeautifyAssumption

(* A blank is left out only where nothing is read otherwise without it.    *)
LEMMA BlanksKept ==
  ASSUME NEW p \in Printer, NEW t \in Lexeme, p.cur # <<>>, p.prevTok \in Lexeme, ~spaced(p, t), t.kind # "comment",
         spelled(p.prevTok), spelled(t), besides(p.prevTok, t)
  PROVE  runTogether(p.prevTok, t) \/ ~readsOtherwise(p.prevTok, t)
  <1>1. PICK prev \in Lexeme : prev = p.prevTok
    OBVIOUS
  <1>2. prev.kind \in STRING /\ prev.text \in STRING /\ t.kind \in STRING /\ t.text \in STRING
    BY DEF Lexeme
  <1>3. CASE unarySignCtx(p, t)
    BY <1>1, <1>2, <1>3 DEF unarySignCtx, readsOtherwise, spelled, Signs, Numerals, Words
  <1>4. CASE prevIsUnarySign(p) /\ (t.kind \in {"number", "identifier"} \/ t.text = "(")
    BY <1>1, <1>2, <1>4 DEF prevIsUnarySign, readsOtherwise, spelled, Signs, Numerals, Words
  <1>5. CASE noSpaceBefore(p, t)
    <2>1. CASE t.text \in {")", "]", "}", ",", ";", ":", ".", "..", "..."}
      <3>1. t.kind \in {"punct", "operator"} /\ t.text \in Signs
        BY <1>2, <2>1 DEF spelled, Signs
      <3>2. prev.kind = "number" \/ prev.text = ".." => t.text # "." /\ (prev.kind = "number" => t.text # "...")
        BY <1>1 DEF besides
      <3>3. prev.text = "." => t.kind \notin {"punct", "operator"}
        BY <1>1 DEF besides
      <3>4. prev.text = ":" => t.text # ":"
        BY <1>1 DEF besides
      <3>5. prev.text = ".." => t.text # ".."
        BY <1>1 DEF besides
      <3>. QED
        BY <1>1, <1>2, <2>1, <3>1, <3>2, <3>3, <3>4, <3>5 DEF readsOtherwise, runTogether
    <2>2. CASE prev.text = "5."
      <3>1. prev.kind = "number" /\ t.text \notin {".", "..."}
        BY <1>1, <1>2, <2>2 DEF spelled, Numerals, besides
      <3>2. t.text = ".5" => t.kind = "number"
        BY DEF spelled, Numerals
      <3>. QED
        BY <1>1, <1>2, <2>2, <3>1, <3>2 DEF readsOtherwise, runTogether
    <2>3. CASE prev.text \in {"(", "[", "{", ":", "::", ".", "..", "..."}
      <3>1. prev.kind \in {"punct", "operator"}
        BY <1>1, <1>2, <2>3 DEF spelled, Signs
      <3>2. /\ prev.text = "." => t.kind = "identifier"
            /\ prev.text \in {"[", ":"} => t.text # prev.text
            /\ prev.text = ".." => t.text \notin {".", ".."}
        BY <1>1 DEF besides
      <3>3. t.kind = "identifier" => t.text \notin {".", "..", "...", ".5"}
        BY <1>2 DEF spelled, Signs, Numerals
      <3>. QED
        BY <1>1, <1>2, <2>3, <3>1, <3>2, <3>3 DEF readsOtherwise, runTogether
    <2>. QED  BY <1>1, <1>5, <2>1, <2>2, <2>3 DEF noSpaceBefore
  <1>6. CASE t.text \in {"[", "("} /\ prevIsIndexable(p)
    BY <1>1, <1>2, <1>6 DEF prevIsIndexable, readsOtherwise, spelled, Signs, Numerals, Words
  <1>. QED  BY <1>3, <1>4, <1>5, <1>6 DEF spaced

(* What one word more leaves legible.                                      *)
LEMMA AppendLegible ==
  ASSUME NEW words \in Seq(Written), NEW w \in Written, legible(words),
         words # <<>> => apart(words[Len(words)], w)
  PROVE  legible(Append(words, w))
  <1>1. PICK n \in Nat : n = Len(words)
    OBVIOUS
  <1>2. /\ Len(Append(words, w)) = n + 1 /\ Append(words, w)[n + 1] = w
        /\ \A i \in 1..n : Append(words, w)[i] = words[i]
    BY <1>1
  <1>3. ASSUME NEW k \in 1..n
        PROVE  apart(Append(words, w)[k], Append(words, w)[k + 1])
    <2>1. CASE k < n
      <3>1. k \in 1..(n - 1) /\ k + 1 \in 1..n
        BY <2>1
      <3>. QED  BY <1>1, <1>2, <3>1 DEF legible
    <2>2. CASE k = n
      BY <1>1, <1>2, <2>2
    <2>. QED  BY <1>1, <2>1, <2>2
  <1>. QED  BY <1>1, <1>2, <1>3 DEF legible

(* flushLine.                                                              *)
LEMMA Flushed ==
  ASSUME NEW p \in Printer
  PROVE  /\ flushLine(p) \in Printer
         /\ flushLine(p).cur = <<>>
         /\ flushLine(p).lines = Append(p.lines, [indent |-> p.lineIndent, words |-> p.cur])
         /\ flushLine(p).indent = p.indent /\ flushLine(p).prevTok = p.prevTok
         /\ flushLine(p).inIfExpr = p.inIfExpr /\ flushLine(p).suppressNextThen = p.suppressNextThen
  <1>1. [indent |-> p.lineIndent, words |-> p.cur] \in Line
    BY DEF Printer, Line
  <1>2. Append(p.lines, [indent |-> p.lineIndent, words |-> p.cur]) \in Seq(Line)
    BY <1>1 DEF Printer
  <1>3. <<>> \in Seq(Written)
    OBVIOUS
  <1>. QED  BY <1>2, <1>3 DEF flushLine, Printer

(* A line that is flushed stays as it is.                                  *)
LEMMA FlushKeeps ==
  ASSUME NEW p \in Printer, p.cur # <<>>, Readable(p)
  PROVE  /\ Readable(flushLine(p))
         /\ Aligned(p) => Aligned(flushLine(p))
  <1>1. PICK lines \in Seq(Line) : lines = p.lines
    BY DEF Printer
  <1>2. PICK line \in Line : line = [indent |-> p.lineIndent, words |-> p.cur]
    BY DEF Printer, Line
  <1>3. /\ DOMAIN Append(lines, line) = 1..(Len(lines) + 1)
        /\ \A n \in 1..(Len(lines) + 1) : Append(lines, line)[n] = IF n = Len(lines) + 1 THEN line ELSE lines[n]
    OBVIOUS
  <1>4. Len(lines) \in Nat /\ DOMAIN lines = 1..Len(lines)
    OBVIOUS
  <1>5. flushLine(p).lines = Append(lines, line) /\ flushLine(p).cur = <<>>
    BY <1>1, <1>2, Flushed
  <1>6. legible(<<>>)
    BY DEF legible
  <1>7. line.words = p.cur /\ line.indent = p.lineIndent
    BY <1>2
  <1>8. Readable(flushLine(p))
    BY <1>1, <1>3, <1>4, <1>5, <1>6, <1>7 DEF Readable
  <1>9. ASSUME Aligned(p)
        PROVE  Aligned(flushLine(p))
    BY <1>1, <1>3, <1>4, <1>5, <1>7, <1>9 DEF Aligned
  <1>. QED  BY <1>8, <1>9

(* Nor does it move among the tokens.                                      *)
LEMMA FlushComplete ==
  ASSUME NEW p \in Printer, p.cur # <<>>, NEW s, NEW n, Complete(p, s, n)
  PROVE  Complete(flushLine(p), s, n)
  <1>1. PICK lines \in Seq(Line) : lines = p.lines
    BY DEF Printer
  <1>2. PICK words \in Seq(Written) : words = p.cur /\ words # <<>>
    BY DEF Printer
  <1>3. PICK line \in Line : line = [indent |-> p.lineIndent, words |-> p.cur]
    BY DEF Printer, Line
  <1>13. line.words = words
    BY <1>2, <1>3
  <1>4. PICK q : q = flushLine(p)
    OBVIOUS
  <1>5. PICK m \in Nat : m = Len(lines) /\ DOMAIN lines = 1..m
    OBVIOUS
  <1>6. /\ DOMAIN Append(lines, line) = 1..(m + 1) /\ Len(Append(lines, line)) = m + 1
        /\ Append(lines, line)[m + 1] = line
        /\ \A i \in 1..m : Append(lines, line)[i] = lines[i]
    BY <1>5
  <1>7. q.lines = Append(lines, line) /\ q.cur = <<>>
    BY <1>1, <1>3, <1>4, Flushed
  <1>8. /\ told(words, s) /\ successive(words)
        /\ words[1].at = endOf(lines, m) + 1 /\ words[Len(words)].at = n
        /\ \A i \in 1..m : /\ told(lines[i].words, s) /\ successive(lines[i].words)
                          /\ lines[i].words[1].at = endOf(lines, i - 1) + 1
    BY <1>1, <1>2, <1>5 DEF Complete
  <1>9. \A i \in 0..m : endOf(q.lines, i) = endOf(lines, i)
    BY <1>5, <1>6, <1>7 DEF endOf
  <1>10. endOf(q.lines, Len(q.lines)) = n
    BY <1>13, <1>5, <1>6, <1>7, <1>8 DEF endOf, Last
  <1>11. ASSUME NEW i \in DOMAIN q.lines
         PROVE  /\ told(q.lines[i].words, s) /\ successive(q.lines[i].words)
                /\ q.lines[i].words[1].at = endOf(q.lines, i - 1) + 1
    <2>1. CASE i \in 1..m
      <3>1. i - 1 \in 0..m /\ q.lines[i] = lines[i]
        BY <1>6, <1>7, <2>1
      <3>. QED  BY <1>8, <1>9, <2>1, <3>1
    <2>2. CASE i = m + 1
      <3>1. i - 1 = m /\ m \in 0..m /\ q.lines[i] = line
        BY <1>5, <1>6, <1>7, <2>2
      <3>. QED  BY <1>13, <1>8, <1>9, <3>1
    <2>. QED  BY <1>5, <1>6, <1>7, <1>11, <2>1, <2>2
  <1>12. told(<<>>, s) /\ successive(<<>>)
    BY DEF told, successive
  <1>. QED  BY <1>4, <1>7, <1>10, <1>11, <1>12 DEF Complete

(* The tests of the printer.                                               *)
outward(p, t) == t.text \in {"end", "until", "elseif", "}", ")"} \/ (t.text = "else" /\ ~p.inIfExpr)

inward(p, t) ==
  \/ t.text \in {"do", "function", "repeat", "{", "("}
  \/ t.text = "then" /\ ~p.suppressNextThen
  \/ t.text = "else" /\ ~p.inIfExpr

guarded(p, t) == t.text = "if" /\ inExpression(p.prevTok)

(* What a token does to the indent before its line begins.                 *)
LEMMA Dedented ==
  ASSUME NEW p \in Printer, NEW t \in Lexeme
  PROVE  LET q == dedented(p, t)
         IN /\ q \in Printer
            /\ q.cur = p.cur /\ q.lines = p.lines /\ q.lineIndent = p.lineIndent /\ q.prevTok = p.prevTok
            /\ q.indent = IF outward(p, t) /\ p.indent > 0 THEN p.indent - 1 ELSE p.indent
            /\ q.inIfExpr <=> p.inIfExpr \/ guarded(p, t)
            /\ q.suppressNextThen <=> p.suppressNextThen \/ guarded(p, t)
  <1>1. p.indent \in Nat /\ p.inIfExpr \in BOOLEAN /\ p.suppressNextThen \in BOOLEAN
    BY DEF Printer
  <1>2. CASE outward(p, t)
    <2>1. PICK d \in Nat : d = IF p.indent > 0 THEN p.indent - 1 ELSE p.indent
      BY <1>1
    <2>2. [p EXCEPT !.indent = IF @ > 0 THEN @ - 1 ELSE 0] = [p EXCEPT !.indent = d]
      BY <1>1, <2>1
    <2>3. dedented(p, t) = [p EXCEPT !.indent = d]
      BY <1>2, <2>2 DEF dedented, outward
    <2>4. ~guarded(p, t)
      BY <1>2, Zenon DEF outward, guarded
    <2>. QED  BY <1>1, <1>2, <2>1, <2>3, <2>4 DEF Printer
  <1>3. CASE t.text \in {"for", "while"}
    <2>1. dedented(p, t) = [p EXCEPT !.inLoopHeader = TRUE]
      BY <1>3 DEF dedented
    <2>2. ~guarded(p, t) /\ ~outward(p, t)
      BY <1>3, Zenon DEF outward, guarded
    <2>. QED  BY <1>1, <2>1, <2>2 DEF Printer
  <1>4. CASE t.text = "do"
    <2>1. dedented(p, t) = [p EXCEPT !.inLoopHeader = FALSE]
      BY <1>4 DEF dedented
    <2>2. ~guarded(p, t) /\ ~outward(p, t)
      BY <1>4, Zenon DEF outward, guarded
    <2>. QED  BY <1>1, <2>1, <2>2 DEF Printer
  <1>5. CASE guarded(p, t)
    <2>1. dedented(p, t) = [p EXCEPT !.inIfExpr = TRUE, !.suppressNextThen = TRUE]
      BY <1>5 DEF dedented, guarded
    <2>2. ~outward(p, t)
      BY <1>5, Zenon DEF outward, guarded
    <2>. QED  BY <1>1, <1>5, <2>1, <2>2 DEF Printer
  <1>6. CASE ~outward(p, t) /\ ~guarded(p, t) /\ t.text \notin {"for", "while", "do"}
    <2>1. dedented(p, t) = p
      BY <1>6 DEF dedented, outward, guarded
    <2>. QED  BY <1>1, <1>6, <2>1
  <1>. QED  BY <1>2, <1>3, <1>4, <1>5, <1>6

(* And after it.                                                           *)
LEMMA Indented ==
  ASSUME NEW p \in Printer, NEW t \in Lexeme
  PROVE  LET q == indented(p, t)
         IN /\ q \in Printer
            /\ q.cur = p.cur /\ q.lines = p.lines /\ q.lineIndent = p.lineIndent /\ q.prevTok = p.prevTok
            /\ q.indent = IF inward(p, t) THEN p.indent + 1 ELSE p.indent
            /\ q.inIfExpr <=> p.inIfExpr /\ t.text # "else"
            /\ q.suppressNextThen <=> p.suppressNextThen /\ t.text # "then"
  <1>1. p.indent \in Nat /\ p.inIfExpr \in BOOLEAN /\ p.suppressNextThen \in BOOLEAN
    BY DEF Printer
  <1>2. CASE t.text = "then" /\ p.suppressNextThen
    <2>1. indented(p, t) = [p EXCEPT !.suppressNextThen = FALSE]
      BY <1>1, <1>2 DEF indented
    <2>2. ~inward(p, t)
      BY <1>2, Zenon DEF inward
    <2>. QED  BY <1>1, <1>2, <2>1, <2>2 DEF Printer
  <1>3. CASE t.text = "else" /\ p.inIfExpr
    <2>1. indented(p, t) = [p EXCEPT !.inIfExpr = FALSE]
      BY <1>1, <1>3 DEF indented
    <2>2. ~inward(p, t)
      BY <1>3, Zenon DEF inward
    <2>. QED  BY <1>1, <1>3, <2>1, <2>2 DEF Printer
  <1>4. CASE inward(p, t)
    <2>1. /\ ~(t.text = "then" /\ p.suppressNextThen) /\ ~(t.text = "else" /\ p.inIfExpr)
      BY <1>4, Zenon DEF inward
    <2>2. indented(p, t) = [p EXCEPT !.indent = @ + 1]
      BY <1>4, <2>1, Zenon DEF indented, inward
    <2>3. (p.inIfExpr <=> p.inIfExpr /\ t.text # "else") /\ (p.suppressNextThen <=> p.suppressNextThen /\ t.text # "then")
      BY <2>1
    <2>. QED  BY <1>1, <1>4, <2>2, <2>3 DEF Printer
  <1>5. CASE ~inward(p, t) /\ t.text # "then" /\ t.text # "else"
    <2>1. indented(p, t) = p
      BY <1>5 DEF indented, inward
    <2>. QED  BY <1>1, <1>5, <2>1
  <1>6. t.text \in {"then", "else"} => inward(p, t) \/ (t.text = "then" /\ p.suppressNextThen) \/ (t.text = "else" /\ p.inIfExpr)
    BY Zenon DEF inward
  <1>. QED  BY <1>2, <1>3, <1>4, <1>5, <1>6

(* A line is begun.                                                        *)
LEMMA Started ==
  ASSUME NEW p \in Printer
  PROVE  LET q == startLineIfNeeded(p)
         IN /\ q \in Printer
            /\ q.cur = p.cur /\ q.lines = p.lines /\ q.prevTok = p.prevTok /\ q.indent = p.indent
            /\ q.lineIndent = IF p.cur = <<>> THEN capped(p.indent) ELSE p.lineIndent
            /\ q.inIfExpr = p.inIfExpr /\ q.suppressNextThen = p.suppressNextThen
  <1>1. p.indent \in Nat /\ MAX_INDENT \in Nat
    BY BeautifyAssumption DEF Printer
  <1>2. CASE p.cur = <<>>
    <2>1. startLineIfNeeded(p) = [p EXCEPT !.lineIndent = capped(p.indent)]
      BY <1>2 DEF startLineIfNeeded, capped
    <2>2. capped(p.indent) \in Nat
      BY <1>1 DEF capped
    <2>. QED  BY <1>2, <2>1, <2>2 DEF Printer
  <1>3. CASE p.cur # <<>>
    BY <1>3 DEF startLineIfNeeded
  <1>. QED  BY <1>2, <1>3

(* What is awaited after one token more.                                   *)
LEMMA AwaitedNext ==
  ASSUME NEW s \in Listings, NEW n \in 1..Len(s), NEW arm \in {"then", "else"}
  PROVE  awaited(s, n, arm) <=> ifExpression(s[n]) \/ (awaited(s, n - 1, arm) /\ s[n].text # arm)
  <1>1. PICK m \in Nat : m = n - 1 /\ n = m + 1
    <2>1. n \in Nat /\ n >= 1
      BY ListingShape
    <2>. QED  BY <2>1
  <1>2. s[n].text = arm => ~ifExpression(s[n])
    BY DEF ifExpression
  <1>3. ASSUME awaited(s, n, arm)
        PROVE  ifExpression(s[n]) \/ (awaited(s, m, arm) /\ s[n].text # arm)
    <2>1. PICK i \in 1..n : ifExpression(s[i]) /\ \A k \in (i + 1)..n : s[k].text # arm
      BY <1>3 DEF awaited
    <2>2. CASE i = n
      BY <2>1, <2>2
    <2>3. CASE i # n
      <3>1. i \in 1..m /\ n \in (i + 1)..n /\ (i + 1)..m \subseteq (i + 1)..n
        BY <1>1, <2>3
      <3>. QED  BY <2>1, <3>1 DEF awaited
    <2>. QED  BY <2>2, <2>3
  <1>4. ASSUME ifExpression(s[n])
        PROVE  awaited(s, n, arm)
    <2>1. n \in 1..n /\ (n + 1)..n = {}
      BY <1>1
    <2>. QED  BY <1>4, <2>1 DEF awaited
  <1>5. ASSUME awaited(s, m, arm), s[n].text # arm
        PROVE  awaited(s, n, arm)
    <2>1. PICK i \in 1..m : ifExpression(s[i]) /\ \A k \in (i + 1)..m : s[k].text # arm
      BY <1>5 DEF awaited
    <2>2. i \in 1..n /\ \A k \in (i + 1)..n : k = n \/ k \in (i + 1)..m
      BY <1>1
    <2>. QED  BY <1>5, <2>1, <2>2 DEF awaited
  <1>. QED  BY <1>1, <1>3, <1>4, <1>5

(* A comment is nothing to the program.                                    *)
LEMMA CommentPlain ==
  ASSUME NEW t \in Lexeme, spelled(t), t.kind = "comment"
  PROVE  /\ ~begins(t) /\ ~closes(t) /\ ~inExpression(t) /\ ~ifExpression(t)
         /\ t.text # "then" /\ t.text # "else"
  <1>1. t.text \notin Words /\ t.text \notin Signs
    BY Zenon DEF spelled
  <1>2. /\ t.text # "then" /\ t.text # "else" /\ t.text # "if" /\ t.text # "elseif"
        /\ t.text \notin {"do", "function", "repeat", "end", "until", "return", "or", "and", "not"}
    BY <1>1, Zenon DEF Words
  <1>3. t.text \notin {"{", "(", "}", ")", "=", ",", "["}
    BY <1>1, Zenon DEF Signs
  <1>4. ~begins(t) /\ ~closes(t)
    BY <1>2, <1>3, Zenon DEF begins, closes
  <1>5. ~inExpression(t)
    BY <1>2, <1>3, Zenon DEF inExpression
  <1>. QED  BY <1>2, <1>4, <1>5 DEF ifExpression

(* What the last token says of an `if`, it says over comments too.         *)
LEMMA LastSays ==
  ASSUME NEW s \in Listings, NEW n \in 0..Len(s), NEW t, lastOf(s, n, t)
  PROVE  inExpression(t) <=>
           \E k \in 1..n : inExpression(s[k]) /\ \A j \in (k + 1)..n : s[j].kind = "comment"
  <1>1. n \in Nat /\ \A j \in 1..n : s[j] \in Lexeme /\ spelled(s[j])
    BY ListingShape
  <1>2. \A j \in 1..n : s[j].kind = "comment" => ~inExpression(s[j])
    BY <1>1, CommentPlain
  <1>3. CASE t = noToken /\ \A j \in 1..n : s[j].kind = "comment"
    <2>1. ~inExpression(noToken)
      BY Zenon DEF inExpression, noToken
    <2>. QED  BY <1>2, <1>3, <2>1
  <1>4. ASSUME NEW i \in 1..n, t = s[i], s[i].kind # "comment", \A j \in (i + 1)..n : s[j].kind = "comment"
        PROVE  inExpression(t) <=>
                 \E k \in 1..n : inExpression(s[k]) /\ \A j \in (k + 1)..n : s[j].kind = "comment"
    <2>1. ASSUME NEW k \in 1..n, inExpression(s[k]), \A j \in (k + 1)..n : s[j].kind = "comment"
          PROVE  k = i
      <3>1. ~(i \in (k + 1)..n)
        BY <1>4, <2>1
      <3>2. ~(k \in (i + 1)..n)
        BY <1>2, <1>4, <2>1
      <3>. QED  BY <1>1, <3>1, <3>2
    <2>. QED  BY <1>4, <2>1
  <1>. QED  BY <1>3, <1>4 DEF lastOf

(* An understood if-expression has no `elseif`.                            *)
LEMMA NoElseif ==
  ASSUME NEW s \in Listings, understood(s), NEW n \in 1..Len(s), s[n].text = "elseif"
  PROVE  ~awaited(s, n - 1, "else")
  <1>1. Len(s) \in Nat /\ DOMAIN s = 1..Len(s)
    BY ListingShape
  <1>2. SUFFICES ASSUME NEW i \in 1..(n - 1), ifExpression(s[i]), \A k \in (i + 1)..(n - 1) : s[k].text # "else"
                 PROVE  FALSE
    BY DEF awaited
  <1>3. i \in DOMAIN s /\ s[i].text = "if" /\ s[i].ifExpr
    BY <1>1, <1>2 DEF ifExpression
  <1>4. PICK k \in i..Len(s) : /\ s[k].text = "else" /\ s[k].ifExpr
                               /\ \A j \in (i + 1)..(k - 1) : s[j].text \notin {"if", "elseif"}
    BY <1>3, Zenon DEF understood
  <1>5. k # i /\ k # n
    BY <1>3, <1>4
  <1>6. ~(k \in (i + 1)..(n - 1))
    BY <1>2, <1>4
  <1>7. n \in (i + 1)..(k - 1)
    BY <1>1, <1>5, <1>6
  <1>. QED  BY <1>4, <1>7

(* In an understood program the printer takes the next token for what it   *)
(* is, and its line for what it is nested in.                              *)
LEMMA OrientedNext ==
  ASSUME NEW s \in Listings, understood(s), NEW n \in 1..Len(s), s[n].kind # "comment",
         NEW p \in Printer, Oriented(p, s, n - 1), lastOf(s, n - 1, p.prevTok)
  PROVE  /\ dedented(p, s[n]).indent = s[n].depth
         /\ \A q \in Printer :
              /\ q.indent = s[n].depth
              /\ q.inIfExpr = dedented(p, s[n]).inIfExpr
              /\ q.suppressNextThen = dedented(p, s[n]).suppressNextThen
              => Oriented(indented(q, s[n]), s, n)
  <1>1. PICK t \in Lexeme : t = s[n]
    BY ListingShape
  <1>2. /\ spelled(t)
        /\ depthAfter(s, n - 1) = IF closes(t) THEN t.depth + 1 ELSE t.depth
        /\ t.text = "then" => (t.ifExpr <=> awaited(s, n - 1, "then"))
        /\ t.text \in {"else", "elseif"} => (t.ifExpr <=> awaited(s, n - 1, "else"))
    BY <1>1, ListingShape
  <1>3. n \in Nat /\ n > 0 /\ n - 1 \in 0..Len(s) /\ n \in DOMAIN s /\ t.depth \in Nat
    BY <1>1, ListingShape DEF Lexeme
  <1>4. /\ p.indent = depthAfter(s, n - 1)
        /\ p.inIfExpr <=> awaited(s, n - 1, "else")
        /\ p.suppressNextThen <=> awaited(s, n - 1, "then")
    BY DEF Oriented
  <1>5. guarded(p, t) <=> ifExpression(t)
    <2>1. inExpression(p.prevTok) <=>
            \E k \in 1..(n - 1) : inExpression(s[k]) /\ \A j \in (k + 1)..(n - 1) : s[j].kind = "comment"
      BY <1>3, LastSays
    <2>2. t.text = "if" => (t.ifExpr <=> inExpression(p.prevTok))
      BY <1>1, <1>3, <2>1 DEF understood
    <2>. QED  BY <2>2 DEF ifExpression, guarded
  <1>6. t.text = "elseif" => ~t.ifExpr
    BY <1>1, <1>2, NoElseif
  <1>7. closes(t) <=> outward(p, t)
    BY <1>2, <1>4, <1>6, Zenon DEF closes, outward
  <1>8. /\ dedented(p, t).indent = IF closes(t) /\ p.indent > 0 THEN p.indent - 1 ELSE p.indent
        /\ dedented(p, t).inIfExpr <=> p.inIfExpr \/ ifExpression(t)
        /\ dedented(p, t).suppressNextThen <=> p.suppressNextThen \/ ifExpression(t)
    BY <1>5, <1>7, Dedented
  <1>9. dedented(p, t).indent = t.depth
    BY <1>2, <1>3, <1>4, <1>8
  <1>10. ASSUME NEW q \in Printer, q.indent = t.depth,
                q.inIfExpr = dedented(p, t).inIfExpr, q.suppressNextThen = dedented(p, t).suppressNextThen
         PROVE  Oriented(indented(q, t), s, n)
    <2>1. /\ q.inIfExpr <=> awaited(s, n - 1, "else") \/ ifExpression(t)
          /\ q.suppressNextThen <=> awaited(s, n - 1, "then") \/ ifExpression(t)
      BY <1>4, <1>8, <1>10, Zenon
    <2>2. begins(t) <=> inward(q, t)
      <3>1. t.text \in {"then", "else"} => ~ifExpression(t)
        BY Zenon DEF ifExpression
      <3>. QED  BY <1>2, <2>1, <3>1, Zenon DEF begins, inward
    <2>3. indented(q, t).indent = IF begins(t) THEN t.depth + 1 ELSE t.depth
      BY <1>10, <2>2, Indented
    <2>4. depthAfter(s, n) = IF begins(t) THEN t.depth + 1 ELSE t.depth
      BY <1>1, <1>3 DEF depthAfter
    <2>5. /\ awaited(s, n, "else") <=> ifExpression(t) \/ (awaited(s, n - 1, "else") /\ t.text # "else")
          /\ awaited(s, n, "then") <=> ifExpression(t) \/ (awaited(s, n - 1, "then") /\ t.text # "then")
      BY <1>1, AwaitedNext
    <2>6. /\ indented(q, t).inIfExpr <=> q.inIfExpr /\ t.text # "else"
          /\ indented(q, t).suppressNextThen <=> q.suppressNextThen /\ t.text # "then"
      BY Indented
    <2>7. ifExpression(t) => t.text # "else" /\ t.text # "then"
      BY DEF ifExpression
    <2>. QED  BY <2>1, <2>3, <2>4, <2>5, <2>6, <2>7 DEF Oriented
  <1>. QED  BY <1>1, <1>9, <1>10

(* What is kept when a line is flushed.                                    *)
LEMMA FlushedInv ==
  ASSUME NEW p \in Printer, p.cur # <<>>, Readable(p), NEW s \in Listings, NEW n \in 0..Len(s),
         Complete(p, s, n), lastOf(s, n, p.prevTok), understood(s) => Oriented(p, s, n) /\ Aligned(p)
  PROVE  /\ flushLine(p) \in Printer /\ Readable(flushLine(p)) /\ flushLine(p).cur = <<>>
         /\ Complete(flushLine(p), s, n)
         /\ lastOf(s, n, flushLine(p).prevTok)
         /\ understood(s) => Oriented(flushLine(p), s, n) /\ Aligned(flushLine(p))
  <1>1. understood(s) => Oriented(flushLine(p), s, n)
    BY Flushed DEF Oriented
  <1>. QED  BY <1>1, Flushed, FlushKeeps, FlushComplete

(* A word is added to the line.                                            *)
LEMMA Appended ==
  ASSUME NEW p \in Printer, NEW w \in Written, NEW q \in Printer,
         Readable(p), p.cur # <<>> => apart(p.cur[Len(p.cur)], w),
         q.cur = Append(p.cur, w), q.lines = p.lines
  PROVE  /\ Readable(q) /\ q.cur # <<>> /\ q.cur[Len(q.cur)] = w
         /\ q.cur[1] = IF p.cur = <<>> THEN w ELSE p.cur[1]
  <1>1. PICK words \in Seq(Written) : words = p.cur
    BY DEF Printer
  <1>2. legible(Append(words, w))
    BY <1>1, AppendLegible DEF Readable
  <1>3. /\ Append(words, w) # <<>> /\ Append(words, w)[Len(Append(words, w))] = w
        /\ Append(words, w)[1] = IF words = <<>> THEN w ELSE words[1]
    OBVIOUS
  <1>. QED  BY <1>1, <1>2, <1>3 DEF Readable

(* The word is the next token.                                             *)
LEMMA AppendComplete ==
  ASSUME NEW s \in Listings, NEW n \in 1..Len(s),
         NEW p \in Printer, Complete(p, s, n - 1), NEW w \in Written, w.tok = s[n], w.at = n,
         NEW q, q.cur = Append(p.cur, w), q.lines = p.lines
  PROVE  Complete(q, s, n)
  <1>1. PICK words \in Seq(Written) : words = p.cur
    BY DEF Printer
  <1>2. PICK m \in Nat : m = Len(words) /\ DOMAIN words = 1..m
    OBVIOUS
  <1>3. /\ q.cur # <<>> /\ Len(q.cur) = m + 1 /\ DOMAIN q.cur = 1..(m + 1) /\ q.cur[m + 1] = w
        /\ \A k \in 1..m : q.cur[k] = words[k]
    BY <1>1, <1>2
  <1>4. n \in DOMAIN s /\ n \in Nat /\ n = (n - 1) + 1
    BY ListingShape
  <1>5. /\ told(words, s) /\ successive(words)
        /\ words = <<>> => endOf(p.lines, Len(p.lines)) = n - 1
        /\ words # <<>> => words[1].at = endOf(p.lines, Len(p.lines)) + 1 /\ words[m].at = n - 1
    BY <1>1, <1>2 DEF Complete
  <1>6. told(q.cur, s)
    <2>. SUFFICES ASSUME NEW k \in 1..(m + 1)
                  PROVE  q.cur[k].at \in DOMAIN s /\ q.cur[k].tok = s[q.cur[k].at]
      BY <1>3 DEF told
    <2>3. k \in 1..m \/ k = m + 1
      BY <1>2
    <2>1. CASE k \in 1..m
      BY <1>2, <1>3, <1>5, <2>1 DEF told
    <2>2. CASE k = m + 1
      BY <1>3, <1>4, <2>2
    <2>. QED  BY <2>1, <2>2, <2>3
  <1>7. successive(q.cur)
    <2>. SUFFICES ASSUME NEW k \in 1..m
                  PROVE  q.cur[k + 1].at = q.cur[k].at + 1
      BY <1>2, <1>3 DEF successive
    <2>3. k \in 1..(m - 1) \/ k = m
      BY <1>2
    <2>1. CASE k \in 1..(m - 1)
      <3>1. k \in 1..m /\ k + 1 \in 1..m
        BY <1>2, <2>1
      <3>. QED  BY <1>2, <1>3, <1>5, <2>1, <3>1 DEF successive
    <2>2. CASE k = m
      <3>1. words # <<>>
        BY <1>2, <2>2
      <3>. QED  BY <1>2, <1>3, <1>4, <1>5, <2>2, <3>1
    <2>. QED  BY <2>1, <2>2, <2>3
  <1>8. q.cur[1].at = endOf(q.lines, Len(q.lines)) + 1 /\ q.cur[Len(q.cur)].at = n
    <2>1. CASE words = <<>>
      BY <1>2, <1>3, <1>4, <1>5, <2>1
    <2>2. CASE words # <<>>
      <3>1. 1 \in 1..m
        BY <1>2, <2>2
      <3>. QED  BY <1>3, <1>5, <2>2, <3>1
    <2>. QED  BY <2>1, <2>2
  <1>. QED  BY <1>3, <1>6, <1>7, <1>8 DEF Complete

(* The printer before its first token.                                     *)
LEMMA PrintInitInv == BeautifyInit => PrintInv
  <1> SUFFICES ASSUME BeautifyInit
               PROVE  PrintInv
    OBVIOUS
  <1>1. /\ tokens \in Listings /\ consumed = 0 /\ printer.cur = <<>> /\ printer.lines = <<>> /\ printer.indent = 0
        /\ printer.inIfExpr = FALSE /\ printer.suppressNextThen = FALSE /\ printer.prevTok = noToken
    BY DEF BeautifyInit
  <1>2. printer \in Printer
    <2>2. <<>> \in Seq(Written) /\ <<>> \in Seq(Line)
      OBVIOUS
    <2>. QED  BY <2>2 DEF BeautifyInit, Printer
  <1>3. Readable(printer) /\ Follows(printer, tokens, consumed) /\ Aligned(printer)
    BY <1>1 DEF Readable, legible, Follows, Aligned
  <1>6. Complete(printer, tokens, 0) /\ out = <<>>
    BY <1>1 DEF BeautifyInit, Complete, told, successive, endOf
  <1>4. lastOf(tokens, 0, noToken)
    BY DEF lastOf
  <1>5. Oriented(printer, tokens, 0)
    <2>1. ~awaited(tokens, 0, "else") /\ ~awaited(tokens, 0, "then")
      BY DEF awaited
    <2>2. depthAfter(tokens, 0) = 0
      BY DEF depthAfter
    <2>. QED  BY <1>1, <2>1, <2>2 DEF Oriented
  <1>. QED  BY <1>1, <1>2, <1>3, <1>4, <1>5, <1>6, ListingShape DEF PrintInv

(* Comments.                                                               *)
LEMMA CommentPrinted == PrintInv /\ PrintComment => PrintInv'
  <1> SUFFICES ASSUME PrintInv, PrintComment
               PROVE  PrintInv'
    OBVIOUS
  <1>1. /\ tokens \in Listings /\ consumed \in 0..Len(tokens) /\ printer \in Printer
        /\ Complete(printer, tokens, consumed) /\ Readable(printer) /\ Follows(printer, tokens, consumed)
        /\ lastOf(tokens, consumed, printer.prevTok)
        /\ understood(tokens) => Oriented(printer, tokens, consumed) /\ Aligned(printer)
    BY DEF PrintInv
  <1>2. PICK n \in 1..Len(tokens) : n = consumed + 1 /\ consumed = n - 1 /\ n \in Nat /\ n > 0
    BY <1>1, ListingShape DEF PrintComment
  <1>3. PICK t \in Lexeme : t = tokens[n] /\ spelled(t) /\ t.kind = "comment"
    BY <1>1, <1>2, ListingShape DEF PrintComment
  <1>4. ~begins(t) /\ ~closes(t) /\ ~ifExpression(t) /\ t.text # "then" /\ t.text # "else"
    BY <1>3, CommentPlain
  <1>5. PICK w \in Written : w = [tok |-> t, at |-> n, spaced |-> printer.cur # <<>>]
    <2>1. PICK begun \in BOOLEAN : begun = (printer.cur # <<>>)
      OBVIOUS
    <2>. QED  BY <1>2, <2>1 DEF Written
  <1>6. PICK q : q = appended(printer, t, printer.cur # <<>>)
    OBVIOUS
  <1>7. /\ q \in Printer /\ q.cur = Append(printer.cur, w) /\ q.lines = printer.lines
        /\ q.lineIndent = printer.lineIndent /\ q.indent = printer.indent /\ q.prevTok = printer.prevTok
        /\ q.inIfExpr = printer.inIfExpr /\ q.suppressNextThen = printer.suppressNextThen
    <2>1. Append(printer.cur, w) \in Seq(Written)
      BY <1>1 DEF Printer
    <2>. QED  BY <1>1, <1>2, <1>5, <1>6, <2>1 DEF appended, Printer
  <1>8. printer' = flushLine(q) /\ consumed' = n /\ tokens' = tokens /\ out' = <<>>
    <2>1. out = <<>>
      BY ListingShape DEF PrintInv, PrintComment, Returned
    <2>. QED  BY <1>2, <1>3, <1>6, <2>1 DEF PrintComment
  <1>9. printer.cur # <<>> => apart(printer.cur[Len(printer.cur)], w)
    BY <1>1, <1>5, <1>2 DEF Follows, apart
  <1>10. Readable(q) /\ q.cur # <<>> /\ q.cur[1] = IF printer.cur = <<>> THEN w ELSE printer.cur[1]
    BY <1>1, <1>7, <1>9, Appended
  <1>11. lastOf(tokens, n, q.prevTok)
    <2>1. lastOf(tokens, n - 1, printer.prevTok)
      BY <1>1, <1>2
    <2>2. CASE printer.prevTok = noToken /\ \A j \in 1..(n - 1) : tokens[j].kind = "comment"
      <3>1. \A j \in 1..n : j = n \/ j \in 1..(n - 1)
        BY <1>2
      <3>. QED  BY <1>3, <1>7, <2>2, <3>1 DEF lastOf
    <2>3. ASSUME NEW k \in 1..(n - 1), printer.prevTok = tokens[k], tokens[k].kind # "comment",
                 \A j \in (k + 1)..(n - 1) : tokens[j].kind = "comment"
          PROVE  lastOf(tokens, n, q.prevTok)
      <3>1. k \in 1..n /\ \A j \in (k + 1)..n : j = n \/ j \in (k + 1)..(n - 1)
        BY <1>2
      <3>. QED  BY <1>3, <1>7, <2>3, <3>1 DEF lastOf
    <2>. QED  BY <2>1, <2>2, <2>3 DEF lastOf
  <1>12. ASSUME understood(tokens)
         PROVE  Oriented(q, tokens, n) /\ Aligned(q)
    <2>1. Oriented(printer, tokens, n - 1) /\ Aligned(printer)
      BY <1>1, <1>2, <1>12
    <2>2. depthAfter(tokens, n) = depthAfter(tokens, n - 1)
      <3>1. depthAfter(tokens, n) = t.depth
        <4>1. depthAfter(tokens, n) = IF begins(t) THEN t.depth + 1 ELSE t.depth
          <5>1. t.depth \in Nat
            BY DEF Lexeme
          <5>2. tokens[n] = t /\ n # 0 /\ n > 0
            BY <1>2, <1>3
          <5>. QED  BY <5>1, <5>2 DEF depthAfter
        <4>. QED  BY <1>4, <4>1
      <3>. QED  BY <1>1, <1>3, <1>4, <3>1, ListingShape
    <2>3. /\ awaited(tokens, n, "else") <=> awaited(tokens, n - 1, "else")
          /\ awaited(tokens, n, "then") <=> awaited(tokens, n - 1, "then")
      BY <1>1, <1>3, <1>4, AwaitedNext
    <2>4. Oriented(q, tokens, n)
      BY <1>7, <2>1, <2>2, <2>3 DEF Oriented
    <2>5. leftAt(q.lineIndent, q.cur)
      BY <1>3, <1>5, <1>7, <1>10, <2>1 DEF leftAt, Aligned
    <2>. QED  BY <1>7, <2>1, <2>4, <2>5 DEF Aligned
  <1>13. n \in 0..Len(tokens)
    BY <1>2
  <1>15. Complete(q, tokens, n)
    BY <1>1, <1>2, <1>3, <1>5, <1>7, AppendComplete
  <1>14. PrintInv'
    BY <1>1, <1>7, <1>8, <1>10, <1>11, <1>12, <1>13, <1>15, FlushedInv DEF PrintInv, Follows
  <1>. QED  BY <1>14

(* The last line, and the text.                                            *)
LEMMA LineFinished == PrintInv /\ Finish => PrintInv'
  <1> SUFFICES ASSUME PrintInv, Finish
               PROVE  PrintInv'
    OBVIOUS
  <1>1. /\ printer' \in Printer /\ Readable(printer') /\ printer'.cur = <<>>
        /\ Complete(printer', tokens, consumed) /\ lastOf(tokens, consumed, printer'.prevTok)
        /\ understood(tokens) => Oriented(printer', tokens, consumed) /\ Aligned(printer')
    BY FlushedInv DEF PrintInv, Finish
  <1>2. Returned'
    BY <1>1 DEF Finish, Returned
  <1>. QED  BY <1>1, <1>2 DEF PrintInv, Finish, Follows

(* What a token makes of a printer that has ended the line, if it must.    *)
printed(p, t) ==
  LET begun == startLineIfNeeded(dedented(p, t))
  IN [appended(indented(begun, t), t, spaced(begun, t)) EXCEPT !.prevPrevTok = begun.prevTok, !.prevTok = t]

(* What is printed stays readable, and the printer where the token is.      *)
LEMMA TokenWritten ==
  ASSUME NEW s \in Listings, NEW n \in 1..Len(s), s[n].kind # "comment",
         consumed = n - 1, NEW p \in Printer, Complete(p, s, n - 1), Readable(p), Follows(p, s, n - 1),
         lastOf(s, n - 1, p.prevTok),
         understood(s) => Oriented(p, s, n - 1) /\ Aligned(p)
  PROVE  LET q == printed(p, s[n])
         IN /\ q \in Printer /\ Complete(q, s, n) /\ Readable(q) /\ Follows(q, s, n) /\ q.cur # <<>>
            /\ lastOf(s, n, q.prevTok)
            /\ understood(s) => Oriented(q, s, n) /\ Aligned(q)
  <1>1. PICK t \in Lexeme : t = s[n] /\ spelled(t) /\ t.kind # "comment"
    BY ListingShape
  <1>2. n \in Nat /\ n > 0
    BY ListingShape
  <1>3. PICK d \in Printer : d = dedented(p, t)
    BY Dedented
  <1>4. /\ d.cur = p.cur /\ d.lines = p.lines /\ d.lineIndent = p.lineIndent /\ d.prevTok = p.prevTok
    BY <1>3, Dedented
  <1>5. PICK g \in Printer : g = startLineIfNeeded(d)
    BY Started
  <1>6. /\ g.cur = p.cur /\ g.lines = p.lines /\ g.prevTok = p.prevTok /\ g.indent = d.indent
        /\ g.lineIndent = IF p.cur = <<>> THEN capped(d.indent) ELSE p.lineIndent
        /\ g.inIfExpr = d.inIfExpr /\ g.suppressNextThen = d.suppressNextThen
    BY <1>4, <1>5, Started
  <1>7. PICK i \in Printer : i = indented(g, t)
    BY Indented
  <1>8. i.cur = p.cur /\ i.lines = p.lines /\ i.lineIndent = g.lineIndent
    BY <1>6, <1>7, Indented
  <1>9. PICK w \in Written : w = [tok |-> t, at |-> consumed + 1, spaced |-> spaced(g, t)]
    <2>1. PICK blank \in BOOLEAN : blank = spaced(g, t)
      BY DEF spaced
    <2>2. consumed + 1 \in Nat
      BY <1>2
    <2>. QED  BY <2>1, <2>2 DEF Written
  <1>18. w.at = n
    BY <1>2, <1>9
  <1>10. PICK q : q = printed(p, t)
    OBVIOUS
  <1>11. /\ q \in Printer /\ q.cur = Append(p.cur, w) /\ q.lines = p.lines
         /\ q.lineIndent = g.lineIndent /\ q.indent = i.indent /\ q.prevTok = t
         /\ q.inIfExpr = i.inIfExpr /\ q.suppressNextThen = i.suppressNextThen
    <2>1. PICK c \in Seq(Written) : c = Append(p.cur, w)
      <3>1. PICK words \in Seq(Written) : words = p.cur
        BY DEF Printer
      <3>2. Append(words, w) \in Seq(Written)
        OBVIOUS
      <3>. QED  BY <3>1, <3>2
    <2>2. PICK j \in Printer : j = [i EXCEPT !.cur = c]
      BY DEF Printer
    <2>3. /\ j.cur = c /\ j.lines = i.lines /\ j.lineIndent = i.lineIndent /\ j.indent = i.indent
          /\ j.inIfExpr = i.inIfExpr /\ j.suppressNextThen = i.suppressNextThen
      BY <2>2 DEF Printer
    <2>4. PICK u \in Lexeme \cup {noToken} : u = g.prevTok
      BY DEF Printer
    <2>5. appended(i, t, spaced(g, t)) = j
      BY <1>8, <1>9, <2>1, <2>2, Zenon DEF appended
    <2>6. q = [j EXCEPT !.prevPrevTok = u, !.prevTok = t]
      BY <1>3, <1>5, <1>7, <1>10, <2>4, <2>5, Zenon DEF printed
    <2>7. PICK v \in Printer : v = [j EXCEPT !.prevPrevTok = u]
      BY DEF Printer
    <2>8. /\ q \in Printer /\ q.prevTok = t
          /\ q.cur = j.cur /\ q.lines = j.lines /\ q.lineIndent = j.lineIndent /\ q.indent = j.indent
          /\ q.inIfExpr = j.inIfExpr /\ q.suppressNextThen = j.suppressNextThen
      BY <2>6 DEF Printer
    <2>. QED  BY <1>8, <2>1, <2>3, <2>8
  <1>12. ASSUME p.cur # <<>>
         PROVE  apart(p.cur[Len(p.cur)], w)
    <2>1. /\ n - 1 \in 1..Len(s) /\ p.prevTok = s[n - 1] /\ s[n - 1].kind # "comment"
          /\ p.cur[Len(p.cur)].tok = s[n - 1]
      BY <1>2, <1>12 DEF Follows
    <2>2. n - 1 \in 1..(Len(s) - 1) /\ n = (n - 1) + 1
      BY <1>2, <2>1, ListingShape
    <2>3. p.prevTok \in Lexeme /\ spelled(p.prevTok) /\ besides(p.prevTok, t)
      BY <1>1, <2>1, <2>2, ListingShape
    <2>4. spaced(g, t) \/ runTogether(p.prevTok, t) \/ ~readsOtherwise(p.prevTok, t)
      BY <1>1, <1>6, <1>12, <2>3, BlanksKept
    <2>. QED  BY <1>9, <2>1, <2>4 DEF apart
  <1>13. /\ Readable(q) /\ q.cur # <<>> /\ q.cur[Len(q.cur)] = w
         /\ q.cur[1] = IF p.cur = <<>> THEN w ELSE p.cur[1]
    <2>1. q \in Printer /\ q.cur = Append(p.cur, w) /\ q.lines = p.lines
      BY <1>11
    <2>2. p.cur # <<>> => apart(p.cur[Len(p.cur)], w)
      BY <1>12
    <2>. QED  BY <2>1, <2>2, Appended, ZenonT(30)
  <1>14. Follows(q, s, n)
    BY <1>1, <1>2, <1>9, <1>11, <1>13 DEF Follows
  <1>15. lastOf(s, n, q.prevTok)
    <2>1. n \in 1..n /\ (n + 1)..n = {}
      BY <1>2
    <2>. QED  BY <1>1, <1>11, <2>1 DEF lastOf
  <1>16. ASSUME understood(s)
         PROVE  Oriented(q, s, n) /\ Aligned(q)
    <2>1. d.indent = t.depth
      BY <1>1, <1>3, <1>16, OrientedNext
    <2>2. Oriented(i, s, n)
      BY <1>1, <1>3, <1>6, <1>7, <1>16, <2>1, OrientedNext
    <2>3. Oriented(q, s, n)
      BY <1>11, <2>2 DEF Oriented
    <2>4. leftAt(q.lineIndent, q.cur)
      <3>1. CASE p.cur = <<>>
        BY <1>6, <1>9, <1>11, <1>13, <2>1, <3>1 DEF leftAt
      <3>2. CASE p.cur # <<>>
        BY <1>6, <1>11, <1>13, <1>16, <3>2 DEF leftAt, Aligned
      <3>. QED  BY <3>1, <3>2
    <2>. QED  BY <1>11, <1>16, <2>3, <2>4 DEF Aligned
  <1>17. Complete(q, s, n)
    <2>1. w.tok = s[n] /\ q.cur = Append(p.cur, w) /\ q.lines = p.lines
      BY <1>1, <1>9, <1>11
    <2>. QED  BY <1>18, <2>1, AppendComplete
  <1>. QED  BY <1>1, <1>10, <1>11, <1>13, <1>14, <1>15, <1>16, <1>17

(* Tokens.                                                                 *)
LEMMA TokenPrinted == PrintInv /\ PrintToken => PrintInv'
  <1> SUFFICES ASSUME PrintInv, PrintToken
               PROVE  PrintInv'
    OBVIOUS
  <1>1. /\ tokens \in Listings /\ consumed \in 0..Len(tokens) /\ printer \in Printer
        /\ Complete(printer, tokens, consumed) /\ Readable(printer) /\ Follows(printer, tokens, consumed)
        /\ lastOf(tokens, consumed, printer.prevTok)
        /\ understood(tokens) => Oriented(printer, tokens, consumed) /\ Aligned(printer)
    BY DEF PrintInv
  <1>2. PICK n \in 1..Len(tokens) : n = consumed + 1 /\ consumed = n - 1
    BY <1>1, ListingShape DEF PrintToken
  <1>3. PICK t : t = tokens[n] /\ t.kind # "comment"
    BY <1>1, <1>2, ListingShape DEF PrintToken
  <1>4. PICK rest : rest = IF shouldBreakBefore(printer, t) THEN flushLine(printer) ELSE printer
    OBVIOUS
  <1>5. /\ rest \in Printer /\ Complete(rest, tokens, n - 1) /\ Readable(rest) /\ Follows(rest, tokens, n - 1)
        /\ lastOf(tokens, n - 1, rest.prevTok)
        /\ understood(tokens) => Oriented(rest, tokens, n - 1) /\ Aligned(rest)
    <2>1. CASE shouldBreakBefore(printer, t)
      <3>1. printer.cur # <<>> /\ rest = flushLine(printer)
        BY <1>4, <2>1 DEF shouldBreakBefore
      <3>. QED  BY <1>1, <1>2, <3>1, FlushedInv DEF Follows
    <2>2. CASE ~shouldBreakBefore(printer, t)
      BY <1>1, <1>2, <1>4, <2>2
    <2>. QED  BY <2>1, <2>2
  <1>6. PICK q : q = printed(rest, t)
    OBVIOUS
  <1>7. /\ q \in Printer /\ Complete(q, tokens, n) /\ Readable(q) /\ Follows(q, tokens, n) /\ q.cur # <<>>
        /\ lastOf(tokens, n, q.prevTok)
        /\ understood(tokens) => Oriented(q, tokens, n) /\ Aligned(q)
    BY <1>1, <1>2, <1>3, <1>5, <1>6, TokenWritten
  <1>8. /\ printer' = flushLine(q) \/ printer' = q
        /\ consumed' = n /\ tokens' = tokens /\ out' = out
    BY <1>2, <1>3, <1>4, <1>6, Zenon DEF PrintToken, printed
  <1>12. out' = <<>>
    BY <1>8, ListingShape DEF PrintInv, PrintToken, Returned
  <1>9. n \in 0..Len(tokens)
    BY <1>2
  <1>10. CASE printer' = flushLine(q)
    BY <1>1, <1>7, <1>8, <1>9, <1>10, <1>12, FlushedInv DEF PrintInv, Follows
  <1>11. CASE printer' = q
    BY <1>1, <1>7, <1>8, <1>9, <1>11, <1>12 DEF PrintInv
  <1>. QED  BY <1>8, <1>10, <1>11

(* Collapsing changes the line breaks of a token and nothing else.         *)
LEMMA LineCollapsed ==
  ASSUME NEW line \in Line
  PROVE  LET words == line.words
             kept == collapsedLine(line).words
         IN /\ collapsedLine(line).indent = line.indent
            /\ Len(words) \in Nat /\ DOMAIN words = 1..Len(words)
            /\ Len(kept) = Len(words) /\ DOMAIN kept = DOMAIN words
            /\ \A k \in DOMAIN words :
                 /\ kept[k].at = words[k].at /\ kept[k].spaced = words[k].spaced
                 /\ kept[k].tok = IF words[k].tok.newlines > 2 THEN [words[k].tok EXCEPT !.newlines = 2] ELSE words[k].tok
                 /\ kept[k].tok.kind = words[k].tok.kind /\ kept[k].tok.text = words[k].tok.text
                 /\ kept[k].tok.depth = words[k].tok.depth
  <1>1. PICK words \in Seq(Written) : words = line.words
    BY DEF Line
  <1>2. PICK kept : kept = [k \in DOMAIN words |-> collapsedWord(words[k])]
    OBVIOUS
  <1>3. collapsedLine(line).words = kept /\ collapsedLine(line).indent = line.indent
    BY <1>1, <1>2 DEF collapsedLine, Line
  <1>4. ASSUME NEW k \in DOMAIN words
        PROVE  /\ kept[k].at = words[k].at /\ kept[k].spaced = words[k].spaced
               /\ kept[k].tok = IF words[k].tok.newlines > 2 THEN [words[k].tok EXCEPT !.newlines = 2] ELSE words[k].tok
               /\ kept[k].tok.kind = words[k].tok.kind /\ kept[k].tok.text = words[k].tok.text
               /\ kept[k].tok.depth = words[k].tok.depth
    <2>1. PICK w \in Written : w = words[k]
      BY <1>4
    <2>2. PICK t \in Lexeme : t = w.tok
      BY DEF Written
    <2>3. kept[k] = [w EXCEPT !.tok = collapsed(t)]
      BY <1>2, <2>1, <2>2 DEF collapsedWord
    <2>4. kept[k].at = w.at /\ kept[k].spaced = w.spaced /\ kept[k].tok = collapsed(t)
      BY <2>3 DEF Written
    <2>5. /\ collapsed(t) = IF t.newlines > 2 THEN [t EXCEPT !.newlines = 2] ELSE t
          /\ collapsed(t).kind = t.kind /\ collapsed(t).text = t.text /\ collapsed(t).depth = t.depth
      BY DEF collapsed, Lexeme
    <2>. QED  BY <2>1, <2>2, <2>4, <2>5
  <1>5. Len(words) \in Nat /\ DOMAIN words = 1..Len(words) /\ DOMAIN kept = DOMAIN words /\ Len(kept) = Len(words)
    BY <1>2
  <1>. QED  BY <1>1, <1>3, <1>4, <1>5

(* So a line that tells the program and can be read still does.            *)
LEMMA LineKept ==
  ASSUME NEW line \in Line, NEW s, line.words # <<>>, told(line.words, s), successive(line.words), legible(line.words)
  PROVE  LET kept == collapsedLine(line).words
         IN /\ kept[1].at = line.words[1].at /\ Last(kept).at = Last(line.words).at
            /\ \A k \in DOMAIN kept :
                 kept[k].tok = IF s[kept[k].at].newlines > 2 THEN [s[kept[k].at] EXCEPT !.newlines = 2] ELSE s[kept[k].at]
            /\ \A k \in 1..(Len(kept) - 1) : kept[k + 1].at = kept[k].at + 1 /\ apart(kept[k], kept[k + 1])
            /\ leftAt(line.indent, line.words) => leftAt(collapsedLine(line).indent, kept)
  <1>1. PICK words \in Seq(Written) : words = line.words
    BY DEF Line
  <1>2. PICK kept : kept = collapsedLine(line).words
    OBVIOUS
  <1>3. /\ collapsedLine(line).indent = line.indent
        /\ Len(words) \in Nat /\ DOMAIN words = 1..Len(words)
        /\ Len(kept) = Len(words) /\ DOMAIN kept = DOMAIN words
        /\ \A k \in DOMAIN words :
             /\ kept[k].at = words[k].at /\ kept[k].spaced = words[k].spaced
             /\ kept[k].tok = IF words[k].tok.newlines > 2 THEN [words[k].tok EXCEPT !.newlines = 2] ELSE words[k].tok
             /\ kept[k].tok.kind = words[k].tok.kind /\ kept[k].tok.text = words[k].tok.text
             /\ kept[k].tok.depth = words[k].tok.depth
    BY <1>1, <1>2, LineCollapsed
  <1>4. 1 \in DOMAIN words /\ Len(words) \in DOMAIN words
    BY <1>1, <1>3
  <1>5. kept[1].at = words[1].at /\ Last(kept).at = Last(words).at
    BY <1>3, <1>4 DEF Last
  <1>6. ASSUME NEW k \in DOMAIN kept
        PROVE  kept[k].tok = IF s[kept[k].at].newlines > 2 THEN [s[kept[k].at] EXCEPT !.newlines = 2] ELSE s[kept[k].at]
    <2>1. PICK i : i = kept[k].at
      OBVIOUS
    <2>2. k \in DOMAIN words /\ words[k].at = i /\ words[k].tok = s[i]
      BY <1>1, <1>3, <1>6, <2>1 DEF told
    <2>. QED  BY <1>3, <2>1, <2>2, Zenon
  <1>7. ASSUME NEW k \in 1..(Len(kept) - 1)
        PROVE  kept[k + 1].at = kept[k].at + 1 /\ apart(kept[k], kept[k + 1])
    <2>1. k \in DOMAIN words /\ k + 1 \in DOMAIN words /\ k \in 1..(Len(words) - 1)
      BY <1>3, <1>7
    <2>2. words[k + 1].at = words[k].at + 1 /\ apart(words[k], words[k + 1])
      BY <1>1, <2>1 DEF successive, legible
    <2>3. /\ kept[k].at = words[k].at /\ kept[k + 1].at = words[k + 1].at /\ kept[k + 1].spaced = words[k + 1].spaced
          /\ kept[k].tok.kind = words[k].tok.kind /\ kept[k].tok.text = words[k].tok.text
          /\ kept[k + 1].tok.kind = words[k + 1].tok.kind /\ kept[k + 1].tok.text = words[k + 1].tok.text
      BY <1>3, <2>1
    <2>4. /\ runTogether(words[k].tok, words[k + 1].tok) => runTogether(kept[k].tok, kept[k + 1].tok)
          /\ readsOtherwise(kept[k].tok, kept[k + 1].tok) => readsOtherwise(words[k].tok, words[k + 1].tok)
      BY <2>3 DEF runTogether, readsOtherwise
    <2>. QED  BY <2>2, <2>3, <2>4 DEF apart
  <1>8. leftAt(line.indent, words) => leftAt(collapsedLine(line).indent, kept)
    BY <1>3, <1>4 DEF leftAt
  <1>. QED  BY <1>1, <1>2, <1>5, <1>6, <1>7, <1>8

(* What is returned when all is read.                                      *)
LEMMA PrintInvHolds == PrintInv => BeautifyKeepsProgram
  <1> SUFFICES ASSUME PrintInv, out # <<>>
               PROVE  BeautifyKeepsProgram
    BY DEF BeautifyKeepsProgram, beautified
  <1>1. PICK lines \in Seq(Line) : lines = printer.lines
    BY DEF PrintInv, Printer
  <1>2. /\ Len(lines) \in Nat /\ DOMAIN lines = 1..Len(lines) /\ DOMAIN out = DOMAIN lines /\ Len(out) = Len(lines)
        /\ \A n \in DOMAIN lines : lines[n] \in Line /\ out[n] = collapsedLine(lines[n])
    BY <1>1 DEF PrintInv, Returned
  <1>3. ASSUME NEW n \in DOMAIN lines
        PROVE  /\ lines[n].words # <<>> /\ told(lines[n].words, tokens) /\ successive(lines[n].words)
               /\ legible(lines[n].words) /\ lines[n].words[1].at = endOf(lines, n - 1) + 1
    BY <1>1, <1>3 DEF PrintInv, Complete, Readable
  <1>4. ASSUME NEW n \in DOMAIN lines
        PROVE  LET kept == out[n].words
               IN /\ kept[1].at = lines[n].words[1].at /\ Last(kept).at = Last(lines[n].words).at
                  /\ \A k \in DOMAIN kept :
                       kept[k].tok = IF tokens[kept[k].at].newlines > 2
                                     THEN [tokens[kept[k].at] EXCEPT !.newlines = 2] ELSE tokens[kept[k].at]
                  /\ \A k \in 1..(Len(kept) - 1) : kept[k + 1].at = kept[k].at + 1 /\ apart(kept[k], kept[k + 1])
                  /\ leftAt(lines[n].indent, lines[n].words) => leftAt(out[n].indent, kept)
    <2>1. PICK line \in Line : line = lines[n]
      BY <1>2, <1>4
    <2>2. line.words # <<>> /\ told(line.words, tokens) /\ successive(line.words) /\ legible(line.words)
      BY <1>3, <1>4, <2>1
    <2>3. out[n] = collapsedLine(line)
      BY <1>2, <1>4, <2>1
    <2>4. PICK kept : kept = collapsedLine(line)
      OBVIOUS
    <2>5. /\ kept.words[1].at = line.words[1].at /\ Last(kept.words).at = Last(line.words).at
          /\ \A k \in DOMAIN kept.words :
               kept.words[k].tok = IF tokens[kept.words[k].at].newlines > 2
                                   THEN [tokens[kept.words[k].at] EXCEPT !.newlines = 2] ELSE tokens[kept.words[k].at]
          /\ \A k \in 1..(Len(kept.words) - 1) :
               kept.words[k + 1].at = kept.words[k].at + 1 /\ apart(kept.words[k], kept.words[k + 1])
          /\ leftAt(line.indent, line.words) => leftAt(kept.indent, kept.words)
      BY <2>2, <2>4, LineKept
    <2>. QED  BY <2>1, <2>3, <2>4, <2>5
  <1>5. \A n \in 0..Len(lines) : endOf(out, n) = endOf(lines, n)
    BY <1>2, <1>4 DEF endOf
  <1>6. endOf(out, Len(out)) = Len(tokens)
    BY <1>1, <1>2, <1>5 DEF PrintInv, Complete, Returned
  <1>7. ASSUME NEW n \in DOMAIN out
        PROVE  out[n].words[1].at = endOf(out, n - 1) + 1
    <2>1. n - 1 \in 0..Len(lines) /\ n \in DOMAIN lines
      BY <1>2, <1>7
    <2>. QED  BY <1>3, <1>4, <1>5, <2>1
  <1>8. ASSUME understood(tokens)
        PROVE  /\ printer.indent = 0
               /\ \A n \in DOMAIN out : leftAt(out[n].indent, out[n].words)
    <2>1. Oriented(printer, tokens, Len(tokens)) /\ Aligned(printer)
      BY <1>8 DEF PrintInv, Returned
    <2>2. printer.indent = 0
      BY <2>1, ListingShape DEF PrintInv, Oriented
    <2>3. \A n \in DOMAIN lines : leftAt(lines[n].indent, lines[n].words)
      BY <1>1, <2>1 DEF Aligned
    <2>. QED  BY <1>2, <1>4, <2>2, <2>3
  <1>. QED  BY <1>2, <1>4, <1>6, <1>7, <1>8, Zenon DEF BeautifyKeepsProgram, apart, leftAt, capped

(* For every program, of any length and nesting, and every cap on the      *)
(* indent: beautifyLua returns every token once and in its place, changed  *)
(* only where line breaks are collapsed, and side by side they are read as *)
(* the program's; and, if its if-expressions are understood, every line    *)
(* has the indent of the block it begins in and the last one leaves none   *)
(* open.                                                                   *)
THEOREM BeautifyKeepsProgramCorrect == BeautifySpec => []BeautifyKeepsProgram
  <1>1. BeautifyInit => PrintInv
    BY PrintInitInv
  <1>2. PrintInv /\ [BeautifyNext]_beautifyVars => PrintInv'
    <2> SUFFICES ASSUME PrintInv, [BeautifyNext]_beautifyVars
                 PROVE  PrintInv'
      OBVIOUS
    <2>1. CASE PrintComment
      BY <2>1, CommentPrinted
    <2>2. CASE PrintToken
      BY <2>2, TokenPrinted
    <2>3. CASE Finish
      BY <2>3, LineFinished
    <2>4. CASE UNCHANGED beautifyVars
      BY <2>4, Zenon DEF beautifyVars, PrintInv, Returned, Follows, Complete
    <2>. QED  BY <2>1, <2>2, <2>3, <2>4 DEF BeautifyNext
  <1>3. PrintInv => BeautifyKeepsProgram
    BY PrintInvHolds
  <1>. QED  BY <1>1, <1>2, <1>3, PTL DEF BeautifySpec
================================================================================
