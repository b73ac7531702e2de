------------------------------ MODULE ControlFlow ------------------------------
(***************************************************************************)
(* tryUnrollDispatcher of src/passes/control-flow.ts: a `while true` loop  *)
(* over `if VAR == CONST` branches that set VAR to the next constant is    *)
(* replaced by the bodies of its branches one after the other, where the   *)
(* walk from the entry state visits every branch once.  The module then    *)
(* runs the original loop beside the straight code.                        *)
(*                                                                         *)
(* A machine gives its branches [state, own, tail, to, early]: own is      *)
(* FALSE where another variable is tested, tail says how the body ends     *)
(* ("assign" to the state to, "break", "return" or "other") and early that *)
(* it may leave the loop in its middle; rest is what follows them in the   *)
(* loop ("nothing", "else" or "statements"); found says that a literal     *)
(* entry was seen, and recomputed that VAR is computed between it and the  *)
(* loop.                                                                   *)
(***************************************************************************)
EXTENDS Integers, Sequences, FiniteSets, SequencesExt

CONSTANTS Machines,
          ComputedEntries  \* values that VAR may be computed to have

ASSUME UnrollAssumption ==
  /\ ComputedEntries \subseteq Int
  /\ \A m \in Machines :
       /\ m.entry \in Int /\ m.branches \in Seq(Range(m.branches))
       /\ \A b \in DOMAIN m.branches :
            /\ m.branches[b].state \in Int /\ m.branches[b].to \in Int
            /\ m.branches[b].tail \in {"assign", "break", "return", "other"}

VARIABLES machine,
          stage,       \* "walk", "walked", then "untouched" or "run", then "left" or "returned"
          cur, order,  \* of the walk: the state to visit, the branches visited
          var,         \* VAR of the running program
          ran          \* history: the branches the running program went through

unrollVars == <<machine, stage, cur, order, var, ran>>

Branches == DOMAIN machine.branches

UnrollInit ==
  /\ machine \in Machines
  /\ stage = "walk" /\ cur = machine.entry /\ order = <<>>
  /\ var \in IF machine.recomputed THEN ComputedEntries ELSE {machine.entry}
  /\ ran = <<>>

--------------------------------------------------------------------------------

(* The definitions named ...Fault are plausible slips in the definition    *)
(* after them and show what a property would notice.                       *)

eligibleFault ==  \* a state may have two branches
  /\ machine.rest = "nothing" /\ machine.found
  /\ \A b \in Branches : machine.branches[b].tail # "other"

(* What the text must look like before it is walked.                       *)
eligible ==
  /\ machine.rest = "nothing" /\ machine.found
  /\ \A b \in Branches : machine.branches[b].tail # "other"
  /\ \A b, c \in Branches : machine.branches[b].state = machine.branches[c].state => b = c

byState(s) == {b \in Branches : machine.branches[b].state = s}

Walk(b) ==
  /\ stage = "walk" /\ eligible
  /\ b \in byState(cur) /\ b \notin Range(order) /\ Len(order) <= 500
  /\ order' = Append(order, b)
  /\ IF machine.branches[b].tail = "assign"
     THEN cur' = machine.branches[b].to /\ UNCHANGED stage
     ELSE stage' = "walked" /\ UNCHANGED cur
  /\ UNCHANGED <<machine, var, ran>>

(* Not eligible, an unknown state, a cycle, or more states than any loop.  *)
Refuse ==
  /\ stage = "walk"
  /\ eligible => Len(order) > 500 \/ \A b \in byState(cur) : b \in Range(order)
  /\ stage' = "untouched"
  /\ UNCHANGED <<machine, cur, order, var, ran>>

(* Branches that are not visited, or bodies that are all empty, keep the   *)
(* loop.                                                                   *)
Splice ==
  /\ stage = "walked"
  /\ \/ Len(order) = Len(machine.branches) /\ stage' = "run"
     \/ stage' = "untouched"
  /\ UNCHANGED <<machine, cur, order, var, ran>>

(* The value VAR is given after the straight code.                         *)
finalValue == machine.branches[Last(order)].state

--------------------------------------------------------------------------------
(* One iteration of the original loop.                                     *)

matches(b) == IF machine.branches[b].own THEN machine.branches[b].state = var ELSE TRUE

reached == {b \in Branches : matches(b)
                             /\ \A c \in 1..(b - 1) : machine.branches[c].own => ~matches(c)}

RunBranch(b) ==
  /\ stage = "run" /\ b \in reached
  /\ Len(ran) <= Len(order)  \* bound, for model checking
  /\ ran' = Append(ran, b)
  /\ \/ machine.branches[b].tail = "assign" /\ var' = machine.branches[b].to /\ UNCHANGED stage
     \/ machine.branches[b].tail = "return" /\ stage' = "returned" /\ UNCHANGED var
     \/ /\ machine.branches[b].tail = "break" \/ machine.branches[b].early
        /\ stage' = "left" /\ UNCHANGED var
  /\ UNCHANGED <<machine, cur, order>>

UnrollEnded ==
  /\ stage \notin {"walk", "walked"}
  /\ stage = "run" => reached = {} \/ Len(ran) > Len(order)
  /\ UNCHANGED unrollVars

Unroll == Refuse \/ Splice \/ \E b \in Branches : Walk(b)

UnrollNext == Unroll \/ (\E b \in Branches : RunBranch(b)) \/ UnrollEnded

UnrollSpec == UnrollInit /\ [][UnrollNext]_unrollVars

--------------------------------------------------------------------------------

(* The variables keep their types, and no branch is visited twice.         *)
UnrollTypeOK ==
  /\ stage \in {"walk", "walked", "untouched", "run", "left", "returned"}
  /\ order \in Seq(Branches) /\ IsInjective(order)
  /\ cur \in Int /\ var \in Int

(* Every branch tests VAR and leaves the loop at its end or not at all,    *)
(* and VAR has its literal value when the loop is entered.                 *)
plain ==
  /\ ~machine.recomputed
  /\ \A b \in Branches : machine.branches[b].own /\ ~machine.branches[b].early

(* "provably equivalent", where the bodies are plain: the loop runs the    *)
(* bodies of the straight code, all of them, and leaves VAR as it does.    *)
UnrolledFollowsOriginal ==
  /\ UnrollTypeOK
  /\ plain /\ stage \in {"run", "left", "returned"} =>
       /\ IsPrefix(ran, order)
       /\ stage = "run" => reached # {} /\ Len(ran) < Len(order)
       /\ stage # "run" => ran = order
       /\ stage = "left" => var = finalValue
================================================================================
