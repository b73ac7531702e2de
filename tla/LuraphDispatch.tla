------------------------------ MODULE LuraphDispatch ------------------------------
(***************************************************************************)
(* parseDispatchTree of src/vm/luraph-dispatch.ts: the tests of the opcode *)
(* in the body of an interpreter are walked with the range of opcodes that *)
(* is left, and the text at each leaf becomes the handler of its range.    *)
(*                                                                         *)
(* interpreter.nodes is a sequence of `if` statements [test, negated, op,  *)
(* k, then, kind, else]; test is FALSE when the condition is about         *)
(* something else; kind is "none", "else" or "elseif", where else is       *)
(* <<<<"if", m>>>>.  Blocks are sequences of <<"stmt", s>>, <<"loop", s>>  *)
(* (a statement with a block of its own: a loop, a function) and           *)
(* <<"if", n>>.  The body begins with node 1, or begins is FALSE; complete *)
(* is FALSE when its end is beyond maxBytes.                               *)
(***************************************************************************)
EXTENDS Integers, SequencesExt

CONSTANTS Dispatchers,
          MaxOpcode,        \* 4095 in the code
          LEAF_RANGE_CAP    \* 512 in the code

Items == {"stmt", "loop", "if"} \X Nat

block(s, n, arm) == IF arm = "then" THEN s[n].then ELSE s[n].else

(* A statement stands in one place, and after the one it is nested in.     *)
ASSUME DispatchAssumption ==
  /\ MaxOpcode \in Nat /\ LEAF_RANGE_CAP \in Nat
  /\ \A i \in Dispatchers :
       /\ i.nodes \in Seq([test : BOOLEAN, negated : BOOLEAN, op : {">=", "<", ">", "<=", "==", "~="}, k : Int,
                          then : Seq(Items), kind : {"none", "else", "elseif"}, else : Seq(Items)])
       /\ i.begins => i.nodes # <<>>
       /\ \A n \in DOMAIN i.nodes :
            /\ i.nodes[n].kind = "none" => i.nodes[n].else = <<>>
            /\ \A arm \in {"then", "else"} : \A j \in DOMAIN block(i.nodes, n, arm) :
                 LET item == block(i.nodes, n, arm)[j]
                 IN  item[1] = "if" =>
                       /\ item[2] \in DOMAIN i.nodes /\ n < item[2]
                       /\ \A m \in DOMAIN i.nodes, way \in {"then", "else"} :
                            item \in Range(block(i.nodes, m, way)) => m = n /\ way = arm

VARIABLES interpreter,
          walks,       \* the walks begun, the innermost first
          handlers     \* opcode -> text

walkVars == <<interpreter, walks, handlers>>

nodes == interpreter.nodes
Opcodes == 0..MaxOpcode

walk(items, next, range) == [items |-> items, next |-> next, lo |-> range[1], hi |-> range[2]]

WalkInit ==
  /\ interpreter \in Dispatchers
  /\ walks = IF interpreter.begins THEN <<walk(<<<<"if", 1>>>>, 0, <<0, MaxOpcode>>)>> ELSE <<>>
  /\ handlers = [op \in {} |-> <<>>]

--------------------------------------------------------------------------------
(* classifyCondition.                                                      *)
inverse == [o \in {">=", "<", ">", "<=", "==", "~="} |->
  CASE o = ">=" -> "<" [] o = "<" -> ">=" [] o = ">" -> "<=" [] o = "<=" -> ">" [] o = "==" -> "~=" [] OTHER -> "=="]

operator(n) == IF nodes[n].negated THEN inverse[nodes[n].op] ELSE nodes[n].op

(* The ranges of the two arms, in the order in which they are walked.      *)
rangesFault(n, lo, hi) ==      \* k falls out of both arms of >
  LET k == nodes[n].k
      o == operator(n)
  IN CASE o = ">=" -> [then |-> <<<<k, hi>>>>, else |-> <<<<lo, k - 1>>>>]
       [] o = "<" -> [then |-> <<<<lo, k - 1>>>>, else |-> <<<<k, hi>>>>]
       [] o = ">" -> [then |-> <<<<k + 1, hi>>>>, else |-> <<<<lo, k - 1>>>>]
       [] o = "<=" -> [then |-> <<<<lo, k>>>>, else |-> <<<<k + 1, hi>>>>]
       [] o = "==" -> [then |-> <<<<k, k>>>>, else |-> <<<<lo, k - 1>>, <<k + 1, hi>>>>]
       [] OTHER -> [then |-> <<<<lo, k - 1>>, <<k + 1, hi>>>>, else |-> <<<<k, k>>>>]

ranges(n, lo, hi) ==
  LET k == nodes[n].k
      o == operator(n)
  IN CASE o = ">=" -> [then |-> <<<<k, hi>>>>, else |-> <<<<lo, k - 1>>>>]
       [] o = "<" -> [then |-> <<<<lo, k - 1>>>>, else |-> <<<<k, hi>>>>]
       [] o = ">" -> [then |-> <<<<k + 1, hi>>>>, else |-> <<<<lo, k>>>>]
       [] o = "<=" -> [then |-> <<<<lo, k>>>>, else |-> <<<<k + 1, hi>>>>]
       [] o = "==" -> [then |-> <<<<k, k>>>>, else |-> <<<<lo, k - 1>>, <<k + 1, hi>>>>]
       [] OTHER -> [then |-> <<<<lo, k - 1>>, <<k + 1, hi>>>>, else |-> <<<<k, k>>>>]

(* What stands behind `elseif` is walked from its condition on.            *)
continued(n) == IF nodes[n].kind = "elseif" THEN nodes[n].else[1][2] ELSE 0

walksOf(n, lo, hi) ==
  LET s == nodes[n]
      both == ranges(n, lo, hi)
      after == IF s.kind # "elseif" THEN s.else
               ELSE <<<<"test", continued(n)>>>> \o nodes[continued(n)].then
      next == IF s.kind # "elseif" THEN 0 ELSE continued(continued(n))
  IN  [j \in DOMAIN both.then |-> walk(s.then, continued(n), both.then[j])]
      \o (IF s.kind = "none" THEN <<>> ELSE [j \in DOMAIN both.else |-> walk(after, next, both.else[j])])

(* findStatementEnd: to the first `end`, which may be that of a statement  *)
(* inside, or to an `else`; an `elseif` is run past.                       *)
blocks(items) == {j \in DOMAIN items : items[j][1] \in {"if", "loop"}}
cutAt(items) == SubSeq(items, 1, Min(blocks(items)) - 1) \o <<<<"cut", items[Min(blocks(items))][2]>>>>

leafText(items, next) ==
  LET from(list, m, rest) ==
        IF blocks(list) # {} THEN cutAt(list) ELSE list \o (IF m = 0 THEN <<>> ELSE rest)
      behind[m \in DOMAIN nodes] ==
        <<<<"test", m>>>>
        \o from(nodes[m].then, continued(m), IF continued(m) = 0 THEN <<>> ELSE behind[continued(m)])
  IN  from(items, next, IF next = 0 THEN <<>> ELSE behind[next])

--------------------------------------------------------------------------------

walker == Head(walks)
head == IF walker.items = <<>> THEN <<"nothing", 0>> ELSE walker.items[1]
isTest(item) == item[1] = "if" /\ nodes[item[2]].test
empty == walker.lo > walker.hi

handle(text) ==
  handlers' = IF walker.hi - walker.lo >= LEAF_RANGE_CAP THEN handlers
              ELSE [op \in DOMAIN handlers \cup walker.lo..walker.hi |->
                      IF op \in walker.lo..walker.hi THEN text ELSE handlers[op]]

EmptyRange == walks # <<>> /\ empty /\ walks' = Tail(walks) /\ UNCHANGED <<interpreter, handlers>>

Leaf ==
  /\ walks # <<>> /\ ~empty /\ head[1] # "if"
  /\ handle(leafText(walker.items, walker.next))
  /\ walks' = Tail(walks) /\ UNCHANGED interpreter

(* scanIf finds no `end` of the first statement, nor of any within.        *)
Unended ==
  /\ walks # <<>> /\ ~empty /\ head[1] = "if" /\ ~interpreter.complete
  /\ walks' = Tail(walks) /\ UNCHANGED <<interpreter, handlers>>

(* What follows an `if` in its block is in no handler.                     *)
OtherCondition ==
  /\ walks # <<>> /\ ~empty /\ head[1] = "if" /\ interpreter.complete /\ ~isTest(head)
  /\ handle(<<head>>)
  /\ walks' = Tail(walks) /\ UNCHANGED interpreter

Branch ==
  /\ walks # <<>> /\ ~empty /\ interpreter.complete /\ isTest(head)
  /\ walks' = walksOf(head[2], walker.lo, walker.hi) \o Tail(walks)
  /\ UNCHANGED <<interpreter, handlers>>

WalkNext == EmptyRange \/ Leaf \/ Unended \/ OtherCondition \/ Branch

WalkSpec == WalkInit /\ [][WalkNext]_walkVars

--------------------------------------------------------------------------------
(* How the interpreter dispatches an opcode.                               *)

satisfies(op, node) ==
  LET plain == CASE node.op = ">=" -> op >= node.k [] node.op = "<" -> op < node.k [] node.op = ">" -> op > node.k
                 [] node.op = "<=" -> op <= node.k [] node.op = "==" -> op = node.k [] OTHER -> op # node.k
  IN  plain # node.negated

armOf(s, n, op) == IF satisfies(op, s[n]) THEN "then" ELSE "else"
taken(s, n, op) == block(s, n, armOf(s, n, op))

(* The statements an opcode runs from a node on, and the tests it meets.   *)
runs(s, op) ==
  LET run[n \in DOMAIN s] ==
        IF ~s[n].test THEN <<<<"if", n>>>>
        ELSE LET arm == taken(s, n, op)
             IN  FlattenSeq([j \in DOMAIN arm |-> IF arm[j][1] = "if" THEN run[arm[j][2]] ELSE <<arm[j]>>])
  IN  run

meets(s, op) ==
  LET met[n \in DOMAIN s] ==
        IF ~s[n].test THEN {}
        ELSE {n} \cup UNION {met[item[2]] : item \in {i \in Range(taken(s, n, op)) : i[1] = "if"}}
  IN  met

(* The arm in which an opcode ends.                                        *)
endOf(s, op) ==
  LET met == meets(s, op)[1] IN IF met = {} THEN <<0, "none">> ELSE <<Max(met), armOf(s, Max(met), op)>>

hasText(s, end) == end[1] = 0 \/ end[2] = "then" \/ s[end[1]].kind # "none"

(* A run of opcodes with one end is given a handler if it is short enough. *)
together(s, op) ==
  {other \in Opcodes : \A between \in (IF op < other THEN op..other ELSE other..op) :
                         endOf(s, between) = endOf(s, op)}

handled(s, op) == hasText(s, endOf(s, op)) /\ Cardinality(together(s, op)) <= LEAF_RANGE_CAP

--------------------------------------------------------------------------------

(* Each block is a list of plain statements or one `if`, and each test is  *)
(* met by consecutive opcodes, the number it compares with among them.     *)
consecutive(i) ==
  /\ i.begins /\ i.complete
  /\ \A n \in DOMAIN i.nodes :
       /\ i.nodes[n].kind # "elseif"
       /\ \A arm \in {"then", "else"} :
            LET items == block(i.nodes, n, arm)
            IN  blocks(items) # {} => items[1][1] = "if" /\ Len(items) = 1
       /\ i.nodes[n].test =>
            LET met == {op \in Opcodes : n \in meets(i.nodes, op)[1]}
            IN  met # {} => i.nodes[n].k \in met /\ met = Min(met)..Max(met)

(* The handler of an opcode is the code the interpreter runs for it, and   *)
(* every opcode of a narrow leaf has one.                                  *)
HandlersExact ==
  walks = <<>> /\ consecutive(interpreter) =>
    \A op \in Opcodes :
      /\ op \in DOMAIN handlers <=> handled(nodes, op)
      /\ handled(nodes, op) => handlers[op] = runs(nodes, op)[1]
================================================================================
