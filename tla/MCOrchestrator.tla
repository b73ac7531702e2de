---------------------------- MODULE MCOrchestrator ----------------------------
(***************************************************************************)
(* One run of three engines over outputs that differ in score, validity    *)
(* and length; and two runs of two engines over a one-entry cache.         *)
(***************************************************************************)
EXTENDS Orchestrator, TLC

CONSTANTS r1, r2, i0, i1, i2, vm, strings, raw, broken, tidy, clean, bloated

MCOutputs == {raw, broken, tidy, clean, bloated}
MCscore == [o \in MCOutputs |-> CASE o = raw -> 40 [] o = broken -> 70 [] o = tidy -> 60
                                  [] o = clean -> 72 [] OTHER -> 62]
MCvalid == {raw, tidy, clean, bloated}
MCconverged == {clean}
MCsize == [o \in MCOutputs |-> IF o = bloated THEN 20 ELSE 10]

MCdetectScore ==
  [i \in {i0, i1, i2} |-> [e \in {vm, strings, generic} |->
     CASE e = vm /\ i # i2 -> 90 [] e = strings /\ i = i0 -> 50 [] OTHER -> 0]]

res(o, c, ok) == [success |-> ok, confidence |-> c, output |-> o]

MCengineResult ==
  [i \in {i0, i1, i2} |-> [e \in {vm, strings, generic} |->
     CASE e = vm -> IF i = i0 THEN {res(broken, 95, TRUE), res(tidy, 80, TRUE)}
                    ELSE {res(clean, 95, TRUE)}
       [] e = strings -> {res(tidy, 30, TRUE), res(raw, 0, FALSE)}
       [] OTHER -> IF i = i0 THEN {res(raw, 50, TRUE)}
                   ELSE {res(raw, 50, TRUE), res(raw, 5, FALSE)}]]

MCcleanup == [o \in MCOutputs |-> CASE o = raw -> {tidy} [] o = tidy -> {clean, raw}
                                    [] o = broken -> {tidy} [] OTHER -> {}]
MCnested == [o \in MCOutputs |-> CASE o = raw -> {tidy, bloated, None}
                                   [] o = tidy -> {clean, broken, bloated, raw}
                                   [] o = bloated -> {tidy, clean} [] OTHER -> {broken, raw}]

MCplace == vm :> 1 @@ strings :> 2 @@ generic :> 3

opt(par, useCache, deep) ==
  [parallel |-> par, useCache |-> useCache, deepRounds |-> deep, deepMinImprovement |-> 1]

alone == {opt(TRUE, TRUE, 2), opt(FALSE, TRUE, 5), opt(FALSE, FALSE, 0), opt(TRUE, FALSE, 1)}
shared == {opt(TRUE, TRUE, 0), opt(FALSE, TRUE, 1)}
ask(i, o) == [input |-> i, opts |-> o]

(* One run that goes through everything, or two that share the cache.      *)
MCRequests ==
  [{r1} -> [input : {i0}, opts : alone]]
    \cup {r1 :> ask(i1, opt(TRUE, TRUE, 0)) @@ r2 :> ask(i, o) : i \in {i1, i2}, o \in shared}
MCgains == {2, 10}
================================================================================
