----------------------------- MODULE FunctionLevelVm -----------------------------
(***************************************************************************)
(* recoverFunction of src/passes/function-level-vm.ts: a loop that runs    *)
(* `state = C - state` and a tree of comparisons is replaced by the bodies *)
(* it runs, inlined one in the other: build() walks the states depth       *)
(* first, and gives up on cycles, unknown transitions and too many states. *)
(* The module then runs the original loop beside the inlined code.         *)
(*                                                                         *)
(* A loop gives for every normalised state the number of its body or 0     *)
(* (leaf), a body being [kind, to, early]: it ends by setting the register *)
(* to one of the raw states to, by a literal ("const"), an if-expression   *)
(* ("branch") or otherwise ("unknown"), or is "terminal"; early are the    *)
(* states it may set before a `continue` in its middle.                    *)
(***************************************************************************)
EXTENDS Integers, Sequences, FiniteSets, SequencesExt, Functions

CONSTANTS Loops, functionMaxStates

ASSUME InlineAssumption ==
  /\ functionMaxStates \in Nat
  /\ \A l \in Loops :
       /\ l.constant \in Int /\ l.initial \in Int
       /\ \A v \in DOMAIN l.leaf : l.leaf[v] # 0 => l.leaf[v] \in DOMAIN l.bodies
       /\ \A b \in DOMAIN l.bodies :
            LET body == l.bodies[b]
            IN /\ body.kind \in {"const", "branch", "unknown", "terminal"}
               /\ body.to \in Seq(Int) /\ body.early \subseteq Int
               /\ body.kind = "const" => Len(body.to) = 1
               /\ body.kind = "branch" => Len(body.to) = 2

VARIABLES loop,
          pass,        \* "build", then "untouched" or "run", then "left"
          stack,       \* calls of build: [state, todo], todo the states still to inline
          stateCount,
          failed,      \* a call has returned null; its callers will
          code,        \* the inlined code: the path of states to each of its bodies
          counter,     \* of the running program, before it is normalised
          path         \* where the running program is in the inlined code

building == <<stack, stateCount, failed, code>>
inlineVars == <<loop, pass, building, counter, path>>

normalizeState(raw) == loop.constant - raw

InlineInit ==
  /\ loop \in Loops
  /\ pass = "build"
  /\ stack = <<[state |-> "none", todo |-> <<normalizeState(loop.initial)>>]>>
  /\ stateCount = 0 /\ failed = FALSE /\ code = {}
  /\ counter = loop.initial /\ path = <<>>

leafFor(v) == IF v \in DOMAIN loop.leaf THEN loop.leaf[v] ELSE 0
bodyOf(v) ==
  IF leafFor(v) = 0 THEN [kind |-> "none", to |-> <<>>, early |-> {}] ELSE loop.bodies[leafFor(v)]

--------------------------------------------------------------------------------
(* build() is called for the first state a caller still has to inline.     *)

top == stack[Len(stack)]
callers == Front(stack)
called == [top EXCEPT !.todo = Tail(@)]
next == Head(top.todo)
calling == pass = "build" /\ top.todo # <<>>

active == {stack[i].state : i \in 2..Len(stack)}
here == [i \in 1..(Len(stack) - 1) |-> stack[i + 1].state]

(* A cycle, or too deep, before the state is counted.                      *)
cutOff == Len(stack) - 1 > functionMaxStates \/ next \in active

(* The definitions named ...Fault are plausible slips in the definition    *)
(* after them and show what a property would notice.                      *)

GiveUpFault ==  \* the place of a state that closes a cycle is left empty
  /\ calling /\ cutOff
  /\ stack' = Append(callers, called)
  /\ UNCHANGED <<loop, pass, stateCount, failed, code, counter, path>>

GiveUp ==
  /\ calling /\ cutOff
  /\ stack' = Append(callers, called) /\ failed' = TRUE
  /\ UNCHANGED <<loop, pass, stateCount, code, counter, path>>

(* Too many states, a state without a body, or one with an unknown         *)
(* transition.                                                             *)
hopeless == stateCount > functionMaxStates \/ bodyOf(next).kind \in {"none", "unknown"}

Fail ==
  /\ calling /\ ~cutOff /\ hopeless
  /\ stateCount' = stateCount + 1
  /\ stack' = Append(callers, called) /\ failed' = TRUE
  /\ UNCHANGED <<loop, pass, code, counter, path>>

todoOf(body) == [i \in DOMAIN body.to |-> normalizeState(body.to[i])]

(* The body becomes part of the code; where it leads is inlined after it:  *)
(* for an if-expression both states, even if the first fails.              *)
InlineFaultFirst ==  \* only one arm of a branch is inlined
  /\ calling /\ ~cutOff /\ ~hopeless
  /\ stateCount' = stateCount + 1
  /\ code' = code \cup {Append(here, next)}
  /\ LET body == bodyOf(next)
     IN IF body.kind = "terminal" THEN stack' = Append(callers, called)
        ELSE stack' = Append(callers, called)
                        \o <<[state |-> next, todo |-> <<Head(todoOf(body))>>]>>
  /\ UNCHANGED <<loop, pass, failed, counter, path>>

Inline ==
  /\ calling /\ ~cutOff /\ ~hopeless
  /\ stateCount' = stateCount + 1
  /\ code' = code \cup {Append(here, next)}
  /\ LET body == bodyOf(next)
     IN IF body.kind = "terminal" THEN stack' = Append(callers, called)
        ELSE stack' = Append(callers, called) \o <<[state |-> next, todo |-> todoOf(body)]>>
  /\ UNCHANGED <<loop, pass, failed, counter, path>>

Return ==
  /\ pass = "build" /\ top.todo = <<>> /\ Len(stack) > 1
  /\ stack' = callers
  /\ UNCHANGED <<loop, pass, stateCount, failed, code, counter, path>>

(* The code replaces the loop unless a call failed, it grew too long, or   *)
(* it still holds a loop.                                                  *)
Recover ==
  /\ pass = "build" /\ top.todo = <<>> /\ Len(stack) = 1
  /\ \/ ~failed /\ pass' = "run"
     \/ pass' = "untouched"
  /\ UNCHANGED <<loop, building, counter, path>>

--------------------------------------------------------------------------------
(* One iteration of the original loop, followed as long as the inlined     *)
(* code has what it does.                                                  *)

current == normalizeState(counter)
inCode == pass = "run" /\ (path = <<>> \/ path \in code)

RunInlined ==
  /\ inCode /\ leafFor(current) # 0
  /\ path' = Append(path, current)
  /\ LET body == bodyOf(current)
     IN IF body.kind = "terminal"
        THEN pass' = "left" /\ UNCHANGED counter
        ELSE counter' \in Range(body.to) \cup body.early /\ UNCHANGED pass
  /\ UNCHANGED <<loop, building>>

InlineEnded ==
  /\ pass # "build" /\ ~(inCode /\ leafFor(current) # 0)
  /\ UNCHANGED inlineVars

Build == GiveUp \/ Fail \/ Inline \/ Return \/ Recover

InlineNext == Build \/ RunInlined \/ InlineEnded

InlineSpec == InlineInit /\ [][InlineNext]_inlineVars /\ WF_inlineVars(Build) /\ WF_inlineVars(RunInlined)

--------------------------------------------------------------------------------

(* Every variable keeps its type; the code grows with the states counted,  *)
(* which no number of branches takes far beyond functionMaxStates.         *)
InlineTypeOK ==
  /\ pass \in {"build", "untouched", "run", "left"}
  /\ failed \in BOOLEAN /\ counter \in Int
  /\ stateCount <= 2 * functionMaxStates + 2 /\ Cardinality(code) <= functionMaxStates + 1
  /\ \A i \in 2..Len(stack) : \A j \in DOMAIN stack[i].todo : stack[i].todo[j] \in Int

oneWay == \A b \in DOMAIN loop.bodies : loop.bodies[b].early = {}

(* A loop whose bodies have no early `continue` runs, body by body, what   *)
(* the inlined code does, whichever way its branches go: the code has a    *)
(* body wherever the loop does.  It is never longer than the limit says.   *)
InlinedFollowsOriginal ==
  /\ InlineTypeOK
  /\ pass = "run" /\ oneWay => leafFor(current) # 0 /\ Append(path, current) \in code

(* Building ends, and so does every loop that is replaced: it went round   *)
(* no cycle.                                                               *)
CyclesUntouched == <>(pass \in {"untouched", "left"} \/ (pass = "run" /\ ~oneWay))
================================================================================
