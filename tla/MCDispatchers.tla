------------------------------ MODULE MCDispatchers ------------------------------
(***************************************************************************)
(* The four passes that take dispatchers apart, each over small programs:  *)
(* StateFlattener over two trees of comparisons, four bodies each and      *)
(* every normaliser; FunctionLevelVm over four states with every kind of   *)
(* body in three of them; BinaryTreeDispatch over trees of three or four   *)
(* comparisons; ControlFlow over loops of three branches.  LuraphDispatch  *)
(* over interpreters of ten opcodes, and the decoder that takes a whole    *)
(* program out of its build: Ironveil over the builds of MCBuilds.  A      *)
(* behaviour is one of them at work; the others have ended.                *)
(***************************************************************************)
EXTENDS StateFlattener, FunctionLevelVm, BinaryTreeDispatch, ControlFlow, LuraphDispatch

CONSTANTS MaxCodes, maxShuffled

VARIABLES original, options, build, veil, assembled, payload, ir, output

node(op, value, then, else) == [op |-> op, value |-> value, then |-> then, else |-> else]

split == <<node("<", 2, 2, 3), node("<", 1, -1, -2), node(">=", 4, -4, -3)>>
gap == <<node("==", 1, -1, 2), node("<=", 3, 3, -4), node("~=", 2, -3, 0)>>

body(kind, to, skips) == [kind |-> kind, to |-> to, skips |-> skips]

Bodies ==
  {body("const", {1}, FALSE), body("const", {3}, TRUE), body("const", {0, 4}, FALSE),
   body("branch", {2, 5}, FALSE), body("computed", {}, FALSE), body("keeps", {}, FALSE)}

Normalizers == {<<"identity", 0>>, <<"revsub", 5>>, <<"add", 1>>, <<"sub", 1>>}

MCBound == -2..7

MCPrograms ==
  {[tree |-> t, bodies |-> <<first, second, third, body("terminal", {}, FALSE)>>,
    mode |-> normalizer[1], constant |-> normalizer[2], initial |-> 3, found |-> found] :
     t \in {split, gap}, first \in Bodies, second \in Bodies,
     third \in {body("const", {1}, FALSE), body("branch", {2, 5}, FALSE)},
     normalizer \in Normalizers, found \in BOOLEAN}

step(kind, to, early) == [kind |-> kind, to |-> to, early |-> early]

Steps ==
  {step("const", <<raw>>, {}) : raw \in {0, 1, 2}}
    \cup {step("branch", to, {}) : to \in {<<0, 1>>, <<2, 1>>}}
    \cup {step("const", <<2>>, {1}), step("unknown", <<0, 1>>, {}), step("terminal", <<>>, {})}

(* States 4, 3, 2 and 1 stand for the raw states 0, 1, 2 and 3.            *)
MCLoops ==
  {[constant |-> 4, initial |-> 3, leaf |-> [v \in 1..4 |-> IF v = 2 /\ hole THEN 0 ELSE v],
    bodies |-> <<first, second, third, step("terminal", <<>>, {})>>] :
     first \in Steps, second \in Steps, third \in Steps, hole \in BOOLEAN}

compare(v, op, value, then, else) ==
  [var |-> v, op |-> op, value |-> value, then |-> then, else |-> else]

(* Search trees, balanced and not, and trees that are not all of one kind. *)
MCTrees ==
  {<<compare("s", op, 2, 2, 3), compare("s", "<", low, -1, -2), compare(v, second, 4, -3, last),
     compare("s", "==", 3, -5, -6)>> :
       op \in {"<", "<=", ">"}, low \in {1, 3}, v \in {"s", "t"}, second \in {"<", ">="},
       last \in {-4, 4, 0}}
    \cup {<<compare("s", "~=", 9, 2, 3), compare("s", "<", 1, -1, 4), compare("s", "<", 1, -5, 6),
            compare("s", "<", 2, -2, 5), compare("s", "<", 3, -3, -4),
            compare("s", ">=", 2, 7, -6), compare("s", ">=", 4, -7, -8)>>}

branch(n, own, tail, to, early) ==
  [state |-> n, own |-> own, tail |-> tail, to |-> to, early |-> early]

BranchKinds(n) ==
  {branch(n, TRUE, "assign", to, FALSE) : to \in 1..3}
    \cup {branch(n, TRUE, "break", 0, FALSE), branch(n, TRUE, "return", 0, FALSE),
          branch(n, TRUE, "other", 0, FALSE), branch(n, FALSE, "assign", 2, FALSE),
          branch(n, TRUE, "assign", 3, TRUE), branch(1, TRUE, "return", 0, FALSE)}

MCMachines ==
  {[entry |-> entry, branches |-> <<one, two, three>>, rest |-> "nothing",
    found |-> TRUE, recomputed |-> recomputed] :
     entry \in 1..2, recomputed \in BOOLEAN,
     one \in BranchKinds(1), two \in BranchKinds(2), three \in BranchKinds(3)}
  \cup {[entry |-> 1, branches |-> <<branch(1, TRUE, "break", 0, FALSE)>>, rest |-> rest,
         found |-> found, recomputed |-> FALSE] :
          rest \in {"nothing", "else", "statements"}, found \in BOOLEAN}

test(op, negated, k, then, kind, else) ==
  [test |-> TRUE, op |-> op, negated |-> negated, k |-> k, then |-> then, kind |-> kind, else |-> else]
other == [test(">=", FALSE, 0, <<<<"stmt", 7>>>>, "none", <<>>) EXCEPT !.test = FALSE]
stmts(ns) == [j \in DOMAIN ns |-> <<"stmt", ns[j]>>]
inner(n) == <<<<"if", n>>>>

(* Node 1 tests 5; what it leads to is plain, another test, a condition of *)
(* the handler, or a mixture.                                              *)
MCInterpreters ==
  {[complete |-> ending[1], begins |-> ending[4],
    nodes |-> <<test(root[1], root[2], 5, then, ending[2], ending[3]),
                test(second[1], FALSE, second[2], stmts(<<1>>), last, IF last = "none" THEN <<>> ELSE stmts(<<2>>)),
                test(third[1], FALSE, third[2], stmts(<<3, 4>>), "else", inner(5)), other, other>>] :
     root \in {<<"<", FALSE>>, <<">=", FALSE>>, <<">", FALSE>>, <<"<=", FALSE>>, <<"==", FALSE>>, <<"~=", TRUE>>,
               <<"<", TRUE>>},
     then \in {<<>>, stmts(<<5>>), inner(2), inner(4), inner(2) \o stmts(<<6>>), stmts(<<6>>) \o inner(4) \o stmts(<<5>>),
               <<<<"loop", 6>>>> \o stmts(<<5>>)},
     ending \in {<<TRUE, "none", <<>>, TRUE>>, <<TRUE, "else", inner(3), TRUE>>, <<TRUE, "else", stmts(<<8, 9>>), TRUE>>,
                 <<TRUE, "elseif", inner(3), TRUE>>, <<FALSE, "else", inner(3), TRUE>>, <<TRUE, "none", <<>>, FALSE>>},
     second \in {<<"<", 2>>, <<">=", 3>>, <<"==", 0>>, <<"~=", 7>>}, last \in {"none", "else"},
     third \in {<<">", 7>>, <<"<=", 6>>, <<"==", 9>>, <<"~=", 9>>, <<"==", 2>>}}

MCValues == 0..5

M == INSTANCE MCBuilds
V == INSTANCE Ironveil WITH Cases <- M!MCCases

ironveilVars == <<original, options, build, veil, assembled, payload, ir, output>>

FlattenerEnded ==
  /\ prog = (CHOOSE p \in MCPrograms : TRUE) /\ phase = "left"
  /\ queue = <<>> /\ seen = {} /\ cases = <<>> /\ register = 0 /\ followed = FALSE

FunctionLevelEnded ==
  /\ loop = (CHOOSE p \in MCLoops : TRUE) /\ pass = "left"
  /\ stack = <<>> /\ stateCount = 0 /\ failed = FALSE /\ code = {} /\ counter = 0 /\ path = <<>>

BinaryTreeEnded == tree = (CHOOSE t \in MCTrees : TRUE) /\ chains = <<>> /\ rewrites = 0

ControlFlowEnded ==
  /\ machine = (CHOOSE m \in MCMachines : TRUE) /\ stage = "untouched"
  /\ cur = 0 /\ order = <<>> /\ var = 0 /\ ran = <<>>

NoWalk == interpreter = (CHOOSE i \in MCInterpreters : TRUE) /\ walks = <<>> /\ handlers = <<>>

NoBuild ==
  /\ original = <<>> /\ options = <<>> /\ build = <<>> /\ veil = "ended"
  /\ assembled = <<>> /\ payload = <<>> /\ ir = <<>> /\ output = <<>>

Flatten == Next /\ UNCHANGED <<inlineVars, treeVars, unrollVars, ironveilVars, walkVars>>
InlineLoops == InlineNext /\ UNCHANGED <<vars, treeVars, unrollVars, ironveilVars, walkVars>>
RewriteTrees == TreeNext /\ UNCHANGED <<vars, inlineVars, unrollVars, ironveilVars, walkVars>>
UnrollLoops == UnrollNext /\ UNCHANGED <<vars, inlineVars, treeVars, ironveilVars, walkVars>>
Unveil == V!Next /\ UNCHANGED <<vars, inlineVars, treeVars, unrollVars, walkVars>>
WalkTree == WalkNext /\ UNCHANGED <<vars, inlineVars, treeVars, unrollVars, ironveilVars>>

DispatchersInit ==
  \/ Init /\ FunctionLevelEnded /\ BinaryTreeEnded /\ ControlFlowEnded /\ NoBuild /\ NoWalk
  \/ InlineInit /\ FlattenerEnded /\ BinaryTreeEnded /\ ControlFlowEnded /\ NoBuild /\ NoWalk
  \/ TreeInit /\ FlattenerEnded /\ FunctionLevelEnded /\ ControlFlowEnded /\ NoBuild /\ NoWalk
  \/ UnrollInit /\ FlattenerEnded /\ FunctionLevelEnded /\ BinaryTreeEnded /\ NoBuild /\ NoWalk
  \/ V!Init /\ FlattenerEnded /\ FunctionLevelEnded /\ BinaryTreeEnded /\ ControlFlowEnded /\ NoWalk
  \/ WalkInit /\ FlattenerEnded /\ FunctionLevelEnded /\ BinaryTreeEnded /\ ControlFlowEnded /\ NoBuild

DispatchersSpec ==
  /\ DispatchersInit
  /\ [][Flatten \/ InlineLoops \/ RewriteTrees \/ UnrollLoops \/ Unveil \/ WalkTree]_
        <<vars, inlineVars, treeVars, unrollVars, ironveilVars, walkVars>>
  /\ WF_vars(Collect) /\ WF_inlineVars(Build) /\ WF_inlineVars(RunInlined)

(* Collecting and building end, whatever cycles the states form, and a     *)
(* loop that is inlined goes round none.                                   *)
PassesEnd == Termination /\ CyclesUntouched

(* What is hidden in a build is the program that Lua reads in the output.  *)
RecoversProgram == V!RecoversProgram
================================================================================
