-------------------------------- MODULE Quality --------------------------------
(***************************************************************************)
(* The static scores of src/utils/quality.ts, which rank the outputs of    *)
(* the engines, over profiles: records of what the scorer counts in a      *)
(* source.  The state is a pair of outputs of the same input.  Scores are  *)
(* hundredths, a weighted sum of them ten-thousandths.                     *)
(***************************************************************************)
EXTENDS Ordering

CONSTANT Profiles
(* A profile has the fields bytes, inputBytes, lines, nonWhitespaceChars,  *)
(* functionCount, stringLiterals, longStrings, comments,                   *)
(* suspiciousVmTokens, residualMarkers, hexEscapes, crypticTenths (the     *)
(* share of cryptic identifiers), residue (the mean of the four structural *)
(* metrics), balanced and syntaxErrors.                                    *)

ASSUME QualityAssumption ==
  /\ Profiles \subseteq
       [bytes : Nat, inputBytes : Nat \ {0}, lines : Nat \ {0}, nonWhitespaceChars : Nat,
        functionCount : Nat, stringLiterals : Nat, longStrings : Nat, comments : Nat,
        suspiciousVmTokens : Nat, residualMarkers : Nat, hexEscapes : Nat,
        crypticTenths : 0..10, residue : 0..100, balanced : BOOLEAN, syntaxErrors : Nat]
  /\ \A p \in Profiles : p.syntaxErrors = 0 => p.balanced  \* as validate.ts counts brackets

VARIABLES a, b

ScoreInit == a \in Profiles /\ b \in Profiles
ScoreNext == UNCHANGED <<a, b>>
ScoreSpec == ScoreInit /\ [][ScoreNext]_<<a, b>>

clamp01(n) == maximum(0, minimum(100, n))
points(condition, n) == IF condition THEN n ELSE 0

(* The definitions named ...Fault are plausible slips in the definition    *)
(* after them and show what a property would notice.                      *)

scoreLuaSource(p) ==
  clamp01(20 + points(p.balanced, 20)
             + points(p.functionCount > 0, 10)
             + points(100 * p.nonWhitespaceChars > 35 * p.bytes, 10)
             + points(p.stringLiterals < maximum(25, 20 * p.functionCount), 10)
             + points(p.suspiciousVmTokens = 0, 15)
             + points(p.lines >= 2, 5)
             - points(p.bytes < 32, 20)
             - points(p.suspiciousVmTokens > 100, 15))

syntaxScore(p) ==
  CASE p.syntaxErrors >= 3 -> 10
    [] p.syntaxErrors = 2 -> 30
    [] p.syntaxErrors = 1 -> 50
    [] OTHER -> IF p.balanced THEN 100 ELSE 40

readabilityScore(p) ==
  clamp01(40 + points(p.nonWhitespaceChars > 0 /\ p.nonWhitespaceChars < 90 * p.lines, 20)
             + points(p.lines >= 4, 15)
             + points(p.comments > 0, 5)
             + 2 * (10 - minimum(10, 2 * p.crypticTenths)))

reduction(p) == 100 - (100 * p.bytes) \div p.inputBytes

recoveryScore(p) ==
  clamp01(30 + points(reduction(p) > 0, minimum(30, reduction(p)))
             - points(reduction(p) < -50, 20)
             + points(p.functionCount > 0, 15)
             + points(p.stringLiterals > 5, 10))

residualObfuscationScore(p) ==
  clamp01(100 - minimum(50, p.residualMarkers \div 2)
              - points(p.hexEscapes > 100, 20)
              - points(p.longStrings > 3, 10))

scoreOutputDetailedFaultWeight(p) ==  \* 45/20/20/15 % less the syntax
  20 * syntaxScore(p) + 28 * readabilityScore(p) + 28 * recoveryScore(p)
    + 10 * residualObfuscationScore(p) + 14 * p.residue

scoreOutputDetailed(p) ==
  40 * syntaxScore(p) + 18 * readabilityScore(p) + 18 * recoveryScore(p)
    + 10 * residualObfuscationScore(p) + 14 * p.residue

--------------------------------------------------------------------------------

beats(m, n) == IF m > n THEN 1 ELSE 0

better ==  \* how many measures besides syntax b beats a on
  beats(readabilityScore(b), readabilityScore(a)) + beats(recoveryScore(b), recoveryScore(a))
    + beats(residualObfuscationScore(b), residualObfuscationScore(a)) + beats(b.residue, a.residue)

(* A broken output can outrank a valid one only by beating it on several   *)
(* other measures: two for one error, three for three errors.              *)
BrokenMustEarnIt ==
  a.syntaxErrors = 0 /\ scoreOutputDetailed(b) > scoreOutputDetailed(a) =>
    /\ b.syntaxErrors >= 1 => better >= 2
    /\ b.syntaxErrors >= 3 => better >= 3

(* "a broken output can never outrank a valid-but-less-recovered one"      *)
BrokenNeverOutranks ==
  a.syntaxErrors = 0 /\ b.syntaxErrors > 0 =>
    scoreOutputDetailed(b) <= scoreOutputDetailed(a)
================================================================================
