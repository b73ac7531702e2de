-------------------------------- MODULE LuraphIR --------------------------------
(***************************************************************************)
(* The intermediate form of src/vm/luraph-lifter.ts (Sym) and              *)
(* luraph-structure.ts (IRStmt, IRInst), and a machine that runs it.       *)
(*                                                                         *)
(* An instruction is [vip, stmt, jumpTo, condJump]: no rule of the lifter  *)
(* yields more than one statement, so that stmts is a statement or None.   *)
(* jumpTo and condJump.target are 0 where the code has null.  No rule      *)
(* yields a `ret` either.  Constants are numbers (konst) or strings        *)
(* (name).  Operators are +, - and %: *, / and .. have the same shape.     *)
(***************************************************************************)
EXTENDS Integers, Sequences, SequencesExt

CONSTANT Registers  \* the registers of a program, 0..n

reg(n) == [k |-> "reg", n |-> n]
konst(v) == [k |-> "konst", v |-> v]
imm(v) == [k |-> "imm", v |-> v]
name(s) == [k |-> "name", name |-> s]
global(s) == [k |-> "global", name |-> s]
scratch(s) == [k |-> "scratch", name |-> s]
index(obj, key) == [k |-> "index", obj |-> obj, key |-> key]
bin(op, a, b) == [k |-> "bin", op |-> op, a |-> a, b |-> b]
notOf(a) == [k |-> "un", a |-> a]
globals == [k |-> "globals"]
regs == [k |-> "regs"]
table == [k |-> "table"]
unk == [k |-> "unk"]

assign(r, src) == [kind |-> "assign", reg |-> r, src |-> src]
kstore(obj, key, val) == [kind |-> "kstore", obj |-> obj, key |-> key, val |-> val]
callstmt(base, argc, retc) == [kind |-> "callstmt", base |-> base, argc |-> argc, retc |-> retc]
clearrange(lo, hi) == [kind |-> "clearrange", lo |-> lo, hi |-> hi]
comment == [kind |-> "comment"]
None == [kind |-> "none"]
NoJump == [cond |-> unk, target |-> 0]

(* The expressions a statement is made of.                                 *)
exprs(s) ==
  CASE s.kind = "assign" -> <<s.src>>
    [] s.kind = "kstore" -> <<s.obj, s.key, s.val>>
    [] OTHER -> <<>>

RECURSIVE regsIn(_)
(* The registers an expression reads, in order and as often as it does.    *)
regsIn(s) ==
  CASE s.k = "reg" -> <<s.n>>
    [] s.k = "index" -> regsIn(s.obj) \o regsIn(s.key)
    [] s.k = "bin" -> regsIn(s.a) \o regsIn(s.b)
    [] s.k = "un" -> regsIn(s.a)
    [] OTHER -> <<>>

regsInStmt(s) == FlattenSeq([n \in DOMAIN exprs(s) |-> regsIn(exprs(s)[n])])

(* The registers of a call's arguments are not among them.                 *)
stmtReadsReg(s, r) ==
  r \in Range(regsInStmt(s)) \/ (s.kind = "callstmt" /\ s.base = r)

RECURSIVE inlineInSym(_, _)
(* s with the registers in the domain of m replaced by what m has for them.*)
inlineInSym(s, m) ==
  CASE s.k = "reg" /\ s.n \in DOMAIN m -> m[s.n]
    [] s.k = "index" -> index(inlineInSym(s.obj, m), inlineInSym(s.key, m))
    [] s.k = "bin" -> bin(s.op, inlineInSym(s.a, m), inlineInSym(s.b, m))
    [] s.k = "un" -> notOf(inlineInSym(s.a, m))
    [] OTHER -> s

inlineInStmt(s, m) ==
  CASE s.kind = "assign" -> assign(s.reg, inlineInSym(s.src, m))
    [] s.kind = "kstore" ->
         kstore(inlineInSym(s.obj, m), inlineInSym(s.key, m), inlineInSym(s.val, m))
    [] OTHER -> s

--------------------------------------------------------------------------------
(* The machine.  Its values are tagged tuples: numbers, strings, functions *)
(* and library tables of the environment, fields of these, tables by their *)
(* place in heap, results of calls by the number of the call.  A fault is  *)
(* a run-time error.  The table of constants is heap[1].                   *)

Nil == <<"nil">>
Fault == <<"fault">>
num(v) == <<"num", v>>

(* Unknown fields of heap tables are nil; a table just made has no field.  *)
fieldOf(t, key, heap) ==
  IF t[2] \in DOMAIN heap /\ key \in DOMAIN heap[t[2]] THEN heap[t[2]][key] ELSE Nil

arith(op, x, y) ==
  CASE op = "~=" -> <<"bool", x # y>>
    [] x[1] # "num" \/ y[1] # "num" -> Fault
    [] op = "+" -> num(x[2] + y[2])
    [] op = "-" -> num(x[2] - y[2])
    [] op = "%" -> IF y[2] = 0 THEN Fault ELSE num(x[2] % y[2])
    [] op = ">=" -> <<"bool", x[2] >= y[2]>>

lookup(obj, key, m, env) ==
  CASE obj[1] = "table" -> fieldOf(obj, key, m.heap)
    [] obj[1] = "env" /\ key[1] = "name" -> IF key[2] \in DOMAIN env THEN env[key[2]] ELSE Nil
    [] obj[1] = "regs" /\ key[1] = "num" -> m.regs[key[2]]
    [] obj[1] \in {"lib", "field"} -> <<"field", obj, key>>
    [] OTHER -> Fault

RECURSIVE eval(_, _, _)
(* Only the interpreter itself has scratch variables and its registers in  *)
(* a table; in a listing that table is called R and is nil.                *)
eval(s, m, env) ==
  CASE s.k = "reg" -> m.regs[s.n]
    [] s.k \in {"konst", "imm"} -> num(s.v)
    [] s.k = "name" -> <<"name", s.name>>
    [] s.k = "global" /\ s.name = "K" -> <<"table", 1>>
    [] s.k = "global" /\ s.name # "K" -> IF s.name \in DOMAIN env THEN env[s.name] ELSE Nil
    [] s.k = "globals" -> <<"env">>
    [] s.k = "regs" -> IF m.listing THEN Nil ELSE <<"regs">>
    [] s.k = "scratch" -> IF s.name \in DOMAIN m.scratch THEN m.scratch[s.name] ELSE Nil
    [] s.k = "table" -> <<"table", Len(m.heap) + 1>>
    [] s.k = "index" -> LET obj == eval(s.obj, m, env)
                            key == eval(s.key, m, env)
                        IN IF Fault \in {obj, key} THEN Fault ELSE lookup(obj, key, m, env)
    [] s.k = "bin" -> arith(s.op, eval(s.a, m, env), eval(s.b, m, env))
    [] s.k = "un" -> <<"bool", eval(s.a, m, env) \in {Nil, <<"bool", FALSE>>}>>
    [] OTHER -> Fault

failed(m) == [m EXCEPT !.status = "failed"]

(* A table just made takes its place in the heap when it is stored.        *)
store(m, r, v) ==
  [m EXCEPT !.regs[r] = v,
            !.heap = IF v = <<"table", Len(m.heap) + 1>> THEN Append(@, <<>>) ELSE @]

setField(m, obj, key, v) ==
  CASE obj[1] = "regs" /\ key[1] = "num" -> store(m, key[2], v)
    [] obj[1] = "table" /\ obj[2] \in DOMAIN m.heap ->
         [m EXCEPT !.heap[obj[2]] = (key :> v) @@ @]
    [] obj[1] = "table" /\ obj[2] \notin DOMAIN m.heap -> m
    [] OTHER -> failed(m)

(* What a callee sees: the fields of a table, not where it is.             *)
shown(v, heap) ==
  IF v[1] = "table" THEN <<"table", IF v[2] \in DOMAIN heap THEN heap[v[2]] ELSE <<>>>> ELSE v

call(m, s) ==
  LET seen == [n \in 1..s.argc |-> shown(m.regs[s.base + n], m.heap)]
      calls == Append(m.calls, <<m.regs[s.base], seen>>)
  IN IF m.regs[s.base][1] \notin {"lib", "field"} THEN failed(m)
     ELSE [m EXCEPT !.calls = calls, !.callers = Append(@, m.at),
                    !.regs[s.base] = IF s.retc = 1 THEN <<"result", Len(calls)>> ELSE @]

perform(s, m, env) ==
  LET values == [n \in DOMAIN exprs(s) |-> eval(exprs(s)[n], m, env)]
  IN CASE Fault \in Range(values) -> failed(m)
       [] s.kind = "assign" -> store(m, s.reg, values[1])
       [] s.kind = "kstore" /\ s.obj.k = "regs" /\ s.key.k = "imm" -> store(m, s.key.v, values[3])
       [] s.kind = "kstore" -> setField(m, values[1], values[2], values[3])
       [] s.kind = "callstmt" -> call(m, s)
       [] s.kind = "clearrange" ->
            [m EXCEPT !.regs = [r \in Registers |-> IF r \in s.lo..s.hi THEN Nil ELSE @[r]]]
       [] OTHER -> m

machine(listing, constants) ==
  [listing |-> listing, status |-> "running", pc |-> 1, at |-> 0, steps |-> 0,
   regs |-> [r \in Registers |-> Nil], heap |-> <<constants>>, scratch |-> <<>>,
   calls |-> <<>>, callers |-> <<>>]
================================================================================
