----------------------------- MODULE StateFlattener -----------------------------
(***************************************************************************)
(* flattenStateDispatchers of src/passes/state-dispatch-flattener.ts: a    *)
(* loop that keeps a program counter in a register, normalises it, and     *)
(* finds the body to run by a tree of comparisons, is rewritten as a flat  *)
(* if/elseif chain over the states the pass has found.  After the rewrite  *)
(* the module runs the original loop, to compare what the flat one does.   *)
(*                                                                         *)
(* A program has a tree (node -> [op, value, then, else], where a child is *)
(* a node n > 0, the body -n, or 0 for an empty arm), bodies (number ->    *)
(* [kind, to, skips]), a normaliser and the register's initial value       *)
(* (initial, and whether findInitialState sees it).  A body sets the       *)
(* register to a literal ("const") or by an if-expression ("branch"),      *)
(* computes it, leaves it alone ("keeps") or ends the loop ("terminal");   *)
(* to are the literals it may set, and skips says that it may continue     *)
(* before it does.                                                         *)
(***************************************************************************)
EXTENDS Integers, Sequences, FiniteSets

CONSTANTS Programs,
          Computed,    \* register values the program may compute
          maxStates,
          Bound        \* bound on the register, for model checking

ASSUME StateFlattenerAssumption ==
  /\ maxStates \in Nat \ {0} /\ Computed \subseteq Int /\ Bound \subseteq Int
  /\ \A p \in Programs :
       /\ p.mode \in {"identity", "sub", "add", "revsub"}
       /\ p.constant \in Int /\ p.initial \in Int /\ p.found \in BOOLEAN
       /\ \A l \in DOMAIN p.bodies : p.bodies[l].to \subseteq Int /\ IsFiniteSet(p.bodies[l].to)

VARIABLES prog,
          phase,       \* "collect", then "untouched" or "run", then "left"
          queue, seen,
          cases,       \* state -> body, an arm of the flat dispatcher
          register,    \* of the running program, before it is normalised
          followed     \* history: every transition so far is one the pass understands

vars == <<prog, phase, queue, seen, cases, register, followed>>

holds(op, v, n) ==
  \/ op = "<" /\ v < n
  \/ op = "<=" /\ v <= n
  \/ op = ">" /\ v > n
  \/ op = ">=" /\ v >= n
  \/ op = "==" /\ v = n
  \/ op = "~=" /\ v # n

(* The body the tree leads to for the state v, 0 if the arm is empty.      *)
evalTree(p, v) ==
  LET eval[n \in DOMAIN p.tree] ==
        LET node == p.tree[n]
            child == IF holds(node.op, v, node.value) THEN node.then ELSE node.else
        IN IF child > 0 THEN eval[child] ELSE -child
  IN eval[1]

normalize(p, raw) ==
  CASE p.mode = "identity" -> raw
    [] p.mode = "revsub" -> p.constant - raw
    [] p.mode = "add" -> raw + p.constant
    [] p.mode = "sub" -> raw - p.constant

(* Literals assigned directly anywhere in the loop; the arms of an         *)
(* if-expression are not among them.                                       *)
collectDirectStates(p) ==
  UNION {p.bodies[l].to : l \in {m \in DOMAIN p.bodies : p.bodies[m].kind = "const"}}

candidates(p) == collectDirectStates(p) \cup (IF p.found THEN {p.initial} ELSE {})

ASSUME FinitelyManyStates == \A p \in Programs : IsFiniteSet(collectDirectStates(p))

(* The states in the queue are normalised, in whatever order the source    *)
(* has them.                                                               *)
orders(S) ==
  {q \in [1..Cardinality(S) -> S] : \A x \in S : \E i \in DOMAIN q : q[i] = x}
normalized(p, q) == [i \in DOMAIN q |-> normalize(p, q[i])]

Init ==
  /\ prog \in Programs
  /\ phase = "collect" /\ seen = {}
  /\ \E q \in orders(candidates(prog)) : queue = normalized(prog, q)
  /\ cases = [x \in {} |-> 0]
  /\ register = prog.initial /\ followed = prog.found

--------------------------------------------------------------------------------

(* What parseTransition reads off a body: the raw states it leads to.      *)
transition(p, l) ==
  IF l \in DOMAIN p.bodies /\ p.bodies[l].kind \in {"const", "branch"}
  THEN p.bodies[l].to ELSE {}

successors(p, v) == transition(p, evalTree(p, v))

collecting == phase = "collect" /\ queue # <<>> /\ Cardinality(seen) < maxStates

SkipSeen ==
  /\ collecting /\ Head(queue) \in seen
  /\ queue' = Tail(queue)
  /\ UNCHANGED <<prog, phase, seen, cases, register, followed>>

SkipEmpty ==
  /\ collecting /\ Head(queue) \notin seen /\ evalTree(prog, Head(queue)) = 0
  /\ queue' = Tail(queue) /\ seen' = seen \cup {Head(queue)}
  /\ UNCHANGED <<prog, phase, cases, register, followed>>

withArm(v, l) == [x \in DOMAIN cases \cup {v} |-> IF x = v THEN l ELSE cases[x]]

(* The definitions named ...Fault are plausible slips in the definition    *)
(* after them and show what a property would notice.                      *)

VisitFaultRaw ==  \* a state reached is not normalised
  /\ collecting /\ Head(queue) \notin seen /\ evalTree(prog, Head(queue)) # 0
  /\ LET v == Head(queue)
     IN /\ seen' = seen \cup {v}
        /\ cases' = withArm(v, evalTree(prog, v))
        /\ \E q \in orders(successors(prog, v)) : queue' = Tail(queue) \o q
  /\ UNCHANGED <<prog, phase, register, followed>>

(* A new state with a body becomes an arm; where it leads is queued.       *)
Visit ==
  /\ collecting /\ Head(queue) \notin seen /\ evalTree(prog, Head(queue)) # 0
  /\ LET v == Head(queue)
     IN /\ seen' = seen \cup {v}
        /\ cases' = withArm(v, evalTree(prog, v))
        /\ \E q \in orders(successors(prog, v)) : queue' = Tail(queue) \o normalized(prog, q)
  /\ UNCHANGED <<prog, phase, register, followed>>

(* The loop is rewritten unless it has fewer than two arms or grows too    *)
(* long.  States still queued at maxStates get no arm.                     *)
Rewrite ==
  /\ phase = "collect" /\ ~collecting
  /\ \/ Cardinality(DOMAIN cases) >= 2 /\ phase' = "run"
     \/ phase' = "untouched"
  /\ followed' = (followed /\ queue = <<>>)
  /\ UNCHANGED <<prog, queue, seen, cases, register>>

--------------------------------------------------------------------------------
(* One iteration of the original loop.                                     *)

state == normalize(prog, register)
running == phase = "run"

(* The register holds the normalised state, to be normalised once more.    *)
keep ==
  /\ state \in Bound
  /\ register' = state /\ followed' = (followed /\ prog.mode = "identity")
  /\ UNCHANGED <<prog, phase, queue, seen, cases>>

NoBody == running /\ evalTree(prog, state) = 0 /\ keep

RunBody ==
  /\ running /\ evalTree(prog, state) # 0
  /\ LET body == prog.bodies[evalTree(prog, state)]
     IN \/ /\ register' \in transition(prog, evalTree(prog, state))
           /\ UNCHANGED <<prog, phase, queue, seen, cases, followed>>
        \/ /\ body.kind = "computed" /\ register' \in Computed /\ followed' = FALSE
           /\ UNCHANGED <<prog, phase, queue, seen, cases>>
        \/ (body.kind = "keeps" \/ body.skips) /\ keep

LeaveLoop ==
  /\ running /\ evalTree(prog, state) # 0
  /\ prog.bodies[evalTree(prog, state)].kind = "terminal"
  /\ phase' = "left"
  /\ UNCHANGED <<prog, queue, seen, cases, register, followed>>

Ended ==
  /\ phase \in {"untouched", "left"} \/ (running /\ state \notin Bound)
  /\ UNCHANGED vars

Collect == SkipSeen \/ SkipEmpty \/ Visit \/ Rewrite

Next == Collect \/ NoBody \/ RunBody \/ LeaveLoop \/ Ended

Spec == Init /\ [][Next]_vars /\ WF_vars(Collect)

--------------------------------------------------------------------------------

flatArm(v) == IF v \in DOMAIN cases THEN cases[v] ELSE 0

(* As long as the program goes by transitions the pass understands, from   *)
(* an initial state it has found, the flat dispatcher runs the very bodies *)
(* the tree would, round every cycle.                                      *)
FollowsOriginal == running /\ followed => flatArm(state) = evalTree(prog, state)

(* Collecting ends, whatever cycles the states form.                       *)
Termination == <>(phase # "collect")

(* "it rewrites the nested tree into an equivalent flat dispatcher.        *)
(* Cycles are preserved."                                                  *)
FlatEquivalent == running => flatArm(state) = evalTree(prog, state)
================================================================================
