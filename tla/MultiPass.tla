------------------------------- MODULE MultiPass -------------------------------
(***************************************************************************)
(* runMultiPass of src/deobfuscators/multipass.ts: rounds of nine rewriting *)
(* passes and the generic cleanup over the output of an engine.  Each pass *)
(* rewrites the current text or leaves it (nothing to change, or it threw) *)
(* and its result is taken under a test of its own.  Texts are model       *)
(* values; scores are hundredths of scoreLuaSource(...).score, which       *)
(* moves in steps of five and ends at 90, so that the early exit at 0.985  *)
(* (see ScoreBelowExit in QualityProofs) never applies and is left out.    *)
(***************************************************************************)
EXTENDS Ordering

CONSTANTS
  Texts, Empty,        \* Empty is the output of length zero
  score, balanced, valid, length, tail,  \* of a text: see the assumption
  big,                 \* <<pass, before, after>> whose pass reports enough rewrites on its own
  Confidences,         \* of engine results, in hundredths
  MaxPassesChoices,    \* opts.maxPasses of the callers
  minImprovement       \* opts.minImprovement, in hundredths

ASSUME MultiPassAssumption ==
  /\ Empty \in Texts /\ valid \subseteq balanced /\ balanced \subseteq Texts
  /\ \A t \in Texts : score[t] \in 0..90 /\ length[t] \in Nat
  /\ Confidences \subseteq 0..100 /\ MaxPassesChoices \subseteq Int
  /\ minImprovement \in Nat \ {0}

Passes == {"fold", "modern", "tables", "flatten", "functionLevel", "binaryTree",
           "controlFlow", "semantic", "rename"}

tolerance == [fold |-> 1, modern |-> 2, tables |-> 2, flatten |-> 10, functionLevel |-> 10,
              binaryTree |-> 5, semantic |-> 3, rename |-> 2]

VARIABLES pc, pass, maxPasses,
          base, current, best   \* results [output, confidence]; current is a text

vars == <<pc, pass, maxPasses, base, current, best>>

Init ==
  /\ pc = "fold" /\ pass = 1 /\ maxPasses \in MaxPassesChoices
  /\ base \in [output : Texts \ {Empty}, confidence : Confidences]
  /\ current = base.output /\ best = base

--------------------------------------------------------------------------------

preservesTail(c, t) == tail[t] = tail[c]

scoresAsWell(p, c, t) == t \in balanced /\ score[t] >= score[c] - tolerance[p]

(* The definitions named ...Fault are plausible slips in the definition    *)
(* after them and show what a property would notice.                      *)

(* A pass that reports enough rewrites is not asked for balance.           *)
acceptedFault(p, c, t) ==
  \/ p = "controlFlow" /\ t \in valid
  \/ p # "controlFlow" /\ (scoresAsWell(p, c, t) \/ <<p, c, t>> \in big)

(* The test under which the result t of a pass replaces the text c.        *)
accepted(p, c, t) ==
  \/ p \in {"modern", "semantic", "rename"} /\ scoresAsWell(p, c, t)
  \/ p = "tables" /\ scoresAsWell(p, c, t) /\ (length[t] >= length[c] \/ preservesTail(c, t))
  \/ p \in {"fold", "flatten", "functionLevel", "binaryTree"}
     /\ (scoresAsWell(p, c, t) \/ (t \in balanced /\ <<p, c, t>> \in big))
  \/ p = "controlFlow" /\ t \in valid

rewrite(p, next) ==
  /\ pc = p /\ pc' = next
  /\ current' \in {current} \cup {t \in Texts \ {Empty} : accepted(p, current, t)}
  /\ UNCHANGED <<pass, maxPasses, base, best>>

foldConstants == rewrite("fold", "modern")
resolveModernVm == rewrite("modern", "tables")
inlineTables == rewrite("tables", "flatten")
flattenStates == rewrite("flatten", "functionLevel")
recoverFunctionLevel == rewrite("functionLevel", "binaryTree")
recoverBinaryTree == rewrite("binaryTree", "controlFlow")
recoverControlFlow == rewrite("controlFlow", "semantic")
recoverIdentifiers == rewrite("semantic", "rename")
renameLocals == rewrite("rename", "generic")

--------------------------------------------------------------------------------
(* Step B: the generic cleanup turns the current text into t.              *)

truncates(t) == length[t] < length[current] /\ ~preservesTail(current, t)
delta(t) == score[t] - score[current]
noProgress(t) == t = Empty \/ t = current \/ delta(t) < minImprovement

improved(t, gain) ==
  [output |-> t, confidence |-> minimum(99, maximum(base.confidence, base.confidence + gain))]

stop == pc' = "done" /\ UNCHANGED pass

(* A truncated text ends the run, with what was best before this round.    *)
RejectTruncated ==
  /\ pc = "generic" /\ \E t \in Texts : truncates(t)
  /\ stop
  /\ UNCHANGED <<maxPasses, base, current, best>>

(* Without progress the run ends, but keeps what the passes did.           *)
KeepRewrites ==
  /\ pc = "generic" /\ \E t \in Texts : ~truncates(t) /\ noProgress(t)
  /\ best' = IF current # best.output THEN improved(current, 2) ELSE best
  /\ stop
  /\ UNCHANGED <<maxPasses, base, current>>

RejectUnbalanced ==
  /\ pc = "generic" /\ \E t \in Texts \ balanced : ~truncates(t) /\ ~noProgress(t)
  /\ stop
  /\ UNCHANGED <<maxPasses, base, current, best>>

rounds == minimum(12, maximum(1, maxPasses))

(* The cleaned text is the best whatever it scores.                        *)
AcceptFaultWorse ==
  /\ pc = "generic"
  /\ \E t \in balanced :
       /\ ~truncates(t) /\ ~noProgress(t)
       /\ current' = t
       /\ best' = improved(t, maximum(0, delta(t)))
  /\ pass' = pass + 1 /\ pc' = IF pass < rounds THEN "fold" ELSE "done"
  /\ UNCHANGED <<maxPasses, base>>

(* The loop has no bound but progress.                                     *)
AcceptFaultLoop ==
  /\ pc = "generic"
  /\ \E t \in balanced :
       /\ ~truncates(t) /\ ~noProgress(t)
       /\ current' = t
       /\ best' = IF score[t] >= score[best.output]
                  THEN improved(t, maximum(0, delta(t))) ELSE best
  /\ pc' = "fold"
  /\ UNCHANGED <<pass, maxPasses, base>>

(* A text that improves is cleaned again; it is the best if it beats it.   *)
Accept ==
  /\ pc = "generic"
  /\ \E t \in balanced :
       /\ ~truncates(t) /\ ~noProgress(t)
       /\ current' = t
       /\ best' = IF score[t] >= score[best.output]
                  THEN improved(t, maximum(0, delta(t))) ELSE best
  /\ pass' = pass + 1 /\ pc' = IF pass < rounds THEN "fold" ELSE "done"
  /\ UNCHANGED <<maxPasses, base>>

(* The generic engine is called outside any try.                           *)
GenericThrows ==
  /\ pc = "generic" /\ pc' = "failed"
  /\ UNCHANGED <<pass, maxPasses, base, current, best>>

Finished == pc \in {"done", "failed"} /\ UNCHANGED vars

Next ==
  \/ foldConstants \/ resolveModernVm \/ inlineTables \/ flattenStates
  \/ recoverFunctionLevel \/ recoverBinaryTree \/ recoverControlFlow
  \/ recoverIdentifiers \/ renameLocals
  \/ RejectTruncated \/ KeepRewrites \/ RejectUnbalanced \/ Accept \/ GenericThrows
  \/ Finished

Spec == Init /\ [][Next]_vars /\ WF_vars(Next)

--------------------------------------------------------------------------------

(* What the orchestrator relies on.  The output is the engine's own or a   *)
(* bracket-balanced one, whichever of the nine tests let it through.       *)
KeepsBalance ==
  /\ best.output \in balanced \cup {base.output}
  /\ current \in balanced \cup {base.output}

(* The confidence never falls below the engine's (0.99 aside), never       *)
(* reaches certainty by cleaning, and is raised only for a text that was   *)
(* rewritten.                                                              *)
ConfidenceOfBase ==
  /\ best.confidence >= minimum(99, base.confidence)
  /\ best.confidence <= maximum(99, base.confidence)
  /\ best.confidence > base.confidence => pass > 1 \/ best.output # base.output

OutputTrusted == KeepsBalance /\ ConfidenceOfBase

(* While rounds go on, the best only gets better ("keeping only            *)
(* objectively better candidates").                                        *)
BestOnlyImproves == [][pc' # "done" \/ pass' # pass => score[best'.output] >= score[best.output]]_vars

(* Every run ends: rounds that undo each other's work are cut off.         *)
Termination == <>(pc \in {"done", "failed"})
================================================================================
