------------------------------ MODULE LuraphLifter ------------------------------
(***************************************************************************)
(* src/vm/luraph-lifter.ts: the handlers of Luraph's instructions, as the  *)
(* interpreter runs them, and decompileProgram up to the intermediate      *)
(* form, with a trace of the sandbox correcting jump targets.              *)
(*                                                                         *)
(* An instruction is [op, a, b, j, i, c, k, to]: the operand columns regA, *)
(* regB, jump, imm and regC, its constant, and where it really jumps to if *)
(* it does.  Its vip is its position.  A handler is known by the name of   *)
(* the rule that matches it, or is "OP" if none does.                      *)
(***************************************************************************)
EXTENDS LuraphIR

(* Instructions that are no part of the program: a column of the           *)
(* interpreter goes into a register, or nothing is done.                   *)
Junk == {"LOADCOL", "NOP"}

(* The calls, of the function in a register with those that follow it.     *)
called(ins) ==
  CASE ins.op = "CALL1R0" -> callstmt(ins.a, 1, 0)
    [] ins.op = "CALL2R0" -> callstmt(ins.j, 2, 0)
    [] ins.op = "CALL1R1" -> callstmt(ins.b, 1, 1)
    [] ins.op = "CALL2R1" -> callstmt(ins.a, 2, 1)
    [] OTHER -> None

(* Fields, and operators of one operand.                                   *)
fetched(ins) ==
  CASE ins.op = "GETTABLE_K" -> assign(ins.a, index(reg(ins.j), ins.k))
    [] ins.op = "GETTABLE_R" -> assign(ins.j, index(reg(ins.b), reg(ins.a)))
    [] ins.op = "NOT" -> assign(ins.a, notOf(reg(ins.b)))
    [] OTHER -> called(ins)

(* What direct ops write, for the interpreter and the lifter alike: each   *)
(* rule stands under the text of its handler.  Of rules that differ in     *)
(* their operand columns or operator only, one or two are kept.            *)
direct(ins) ==
  CASE ins.op \in Junk -> None
    [] ins.op = "LOADK" -> assign(ins.a, ins.k)
    [] ins.op = "MOVE" -> assign(ins.j, reg(ins.a))
    [] ins.op = "NEWTABLE" -> assign(ins.a, table)
    [] ins.op = "SETTABLE_KR" -> kstore(reg(ins.a), ins.k, reg(ins.j))
    [] ins.op = "SETTABLE_PI" -> kstore(reg(ins.a), imm(ins.i), ins.k)
    [] ins.op = "GETGLOBAL" -> assign(ins.a, global(ins.k.name))
    [] ins.op = "LOADNILRANGE" -> clearrange(ins.j, ins.b)
    [] ins.op = "SUB_KI" -> assign(ins.a, imm(ins.k.v - ins.i))
    [] ins.op = "ADD_RI" -> assign(ins.a, bin("+", reg(ins.b), imm(ins.i)))
    [] ins.op = "SUB_RR" -> assign(ins.a, bin("-", reg(ins.j), reg(ins.b)))
    [] ins.op = "MOD_RI" -> assign(ins.a, bin("%", reg(ins.a), imm(ins.i)))
    [] OTHER -> fetched(ins)

(* Assignments of the scratch ops, in order.                               *)
scratchOps(ins) ==
  LET s(v) == scratch(v)
  IN CASE ins.op = "S_ECI" -> <<<<"e", s("I")>>, <<"C", s("I")>>, <<"I", imm(ins.b)>>>>
       [] ins.op = "S_IZ2" -> <<<<"I", imm(ins.j)>>, <<"z", imm(ins.b)>>>>
       [] ins.op = "S_Z" -> <<<<"z", imm(ins.a)>>>>
       [] ins.op = "S_If" -> <<<<"I", regs>>>>
       [] ins.op = "S_eR" -> <<<<"e", globals>>>>
       [] ins.op = "S_Ck" -> <<<<"C", ins.k>>>>
       [] ins.op = "S_eC" -> <<<<"e", index(s("e"), s("C"))>>>>
       [] ins.op = "S_IZz" -> <<<<"I", index(s("I"), s("z"))>>, <<"z", regs>>, <<"e", imm(ins.b)>>>>
       [] ins.op = "S_DECI" -> <<<<"M", imm(1)>>, <<"I", bin("-", s("I"), imm(1))>>,
                                <<"b", bin("+", s("C"), s("I"))>>>>
       [] OTHER -> <<>>

S_STORE == kstore(scratch("I"), scratch("z"), scratch("e"))

(* The lifter does not resolve the bounds of this one.                     *)
S_CLEAR == clearrange(0, 0)

(* The condition on which a handler jumps.                                 *)
jumpCond(ins) ==
  CASE ins.op = "JGE" -> bin(">=", reg(ins.b), imm(ins.c))
    [] ins.op = "JNE" -> bin("~=", reg(ins.a), imm(ins.c))
    [] OTHER -> unk

conditional(ins) == ins.op \in {"JGE", "JNE"}

--------------------------------------------------------------------------------
(* The interpreter.                                                        *)

assigned(m, pair, env) ==
  LET v == eval(pair[2], m, env)
  IN IF v = Fault THEN failed(m) ELSE [m EXCEPT !.scratch = (pair[1] :> v) @@ @]

(* What a handler does to registers, tables and scratch variables.         *)
handler(ins, m, env) ==
  CASE ins.op = "S_STORE" -> perform(S_STORE, m, env)
    [] ins.op = "S_CLEAR" ->
         perform(clearrange(m.scratch["I"][2], m.scratch["z"][2]), m, env)
    [] ins.op = "LOADCOL" -> store(m, ins.j, <<"lib", "column">>)
    [] OTHER -> FoldLeft(LAMBDA x, pair : IF x.status = "failed" THEN x ELSE assigned(x, pair, env),
                         perform(direct(ins), m, env), scratchOps(ins))

taken(ins, m, env) ==
  IF conditional(ins) THEN eval(jumpCond(ins), m, env)
  ELSE <<"bool", ins.op = "JMP" \/ (ins.op = "OP" /\ ins.to # 0)>>

(* One step of the interpreter, which runs off the end or jumps out.       *)
interpret(prog, m, env) ==
  LET ins == prog[m.pc]
      jumps == taken(ins, m, env)
      after == IF jumps = Fault THEN failed(m) ELSE handler(ins, [m EXCEPT !.at = m.pc], env)
      pc == IF jumps = <<"bool", TRUE>> THEN ins.to ELSE m.pc + 1
  IN IF after.status = "failed" THEN after
     ELSE [after EXCEPT !.pc = pc, !.steps = @ + 1,
                        !.status = IF pc \in DOMAIN prog THEN @ ELSE "ended"]

--------------------------------------------------------------------------------
(* The lifter.                                                             *)

RECURSIVE resolveSym(_, _)
resolveSym(s, known) ==
  CASE s.k = "scratch" -> IF s.name \in DOMAIN known THEN known[s.name] ELSE unk
    [] s.k = "index" -> index(resolveSym(s.obj, known), resolveSym(s.key, known))
    [] s.k = "bin" -> bin(s.op, resolveSym(s.a, known), resolveSym(s.b, known))
    [] OTHER -> s

resolveStmt(s, known) ==
  IF s.kind = "kstore"
  THEN kstore(resolveSym(s.obj, known), resolveSym(s.key, known), resolveSym(s.val, known))
  ELSE s

(* Scratch variables after an instruction, by position in the program and  *)
(* not by the order of execution.                                          *)
scratchAfter(known, ins) ==
  FoldLeft(LAMBDA x, pair : (pair[1] :> resolveSym(pair[2], x)) @@ x, known, scratchOps(ins))

inProgram(prog, target) == target \in DOMAIN prog

(* The interpreter adds one to the operand of a jump when it goes on.      *)
staticTarget(prog, ins) ==
  IF (ins.op = "JMP" \/ conditional(ins)) /\ inProgram(prog, ins.j + 1) THEN ins.j + 1 ELSE 0

lifted(prog, vip, known) ==
  LET ins == prog[vip]
      target == staticTarget(prog, ins)
      stmt == CASE ins.op = "S_STORE" -> resolveStmt(S_STORE, known)
                [] ins.op = "S_CLEAR" -> S_CLEAR
                [] OTHER -> direct(ins)
  IN [vip |-> vip, stmt |-> stmt,
      jumpTo |-> IF conditional(ins) THEN 0 ELSE target,
      condJump |-> IF conditional(ins) /\ target # 0
                   THEN [cond |-> jumpCond(ins), target |-> target] ELSE NoJump]

(* What parseTrace makes of a trace: a segment [instrCount, vips] for each *)
(* stretch in which one program was run.  The first one of as many         *)
(* instructions as the program is taken for its own; there may be none.    *)
traceOf(prog, segments) ==
  LET fits == SelectSeq(segments, LAMBDA t : t.instrCount = Len(prog))
  IN IF fits = <<>> THEN <<>> ELSE fits[1].vips

(* vip -> the targets it was seen to jump to.                              *)
jumpsOf(vips, vip) ==
  LET at == SelectSeq([n \in 1..(Len(vips) - 1) |-> n],
                      LAMBDA n : vips[n] = vip /\ vips[n + 1] # vip + 1)
  IN [n \in DOMAIN at |-> vips[at[n] + 1]]

analyzeFlow(vips) ==
  [v \in {w \in Range(vips) : jumpsOf(vips, w) # <<>>} |-> jumpsOf(vips, v)]

times(target, targets) == Len(SelectSeq(targets, LAMBDA t : t = target))

(* The most frequent one, the first of them.                               *)
observed(targets) ==
  targets[CHOOSE n \in DOMAIN targets :
            \A l \in DOMAIN targets :
              \/ times(targets[l], targets) < times(targets[n], targets)
              \/ times(targets[l], targets) = times(targets[n], targets) /\ n <= l]

(* The definitions named ...Fault are plausible slips in the definition    *)
(* after them and show what a property would notice.                       *)

patchedFault(prog, ins, flow) ==  \* corrects bare jumps only
  IF ins.vip \notin DOMAIN flow \/ ins.condJump # NoJump THEN ins
  ELSE LET target == observed(flow[ins.vip])
       IN IF ins.jumpTo \in Range(flow[ins.vip]) \/ ~inProgram(prog, target) THEN ins
          ELSE [ins EXCEPT !.jumpTo = target]

(* A target that was never taken gives way to the one that was.            *)
patched(prog, ins, flow) ==
  IF ins.vip \notin DOMAIN flow THEN ins
  ELSE LET target == observed(flow[ins.vip])
           static == IF ins.jumpTo # 0 THEN ins.jumpTo ELSE ins.condJump.target
       IN CASE static \in Range(flow[ins.vip]) \/ ~inProgram(prog, target) -> ins
            [] ins.condJump # NoJump -> [ins EXCEPT !.condJump.target = target]
            [] OTHER -> [ins EXCEPT !.jumpTo = target]

(* Unresolved handlers, junk and scratch ops leave a comment.              *)
commented(ins) ==
  IF ins.stmt = None /\ ins.jumpTo = 0 /\ ins.condJump = NoJump
  THEN [ins EXCEPT !.stmt = comment] ELSE ins

decompileProgram(prog, flow) ==
  LET all == FoldLeft(LAMBDA x, vip :
                        [known |-> scratchAfter(x.known, prog[vip]),
                         ir |-> Append(x.ir, lifted(prog, vip, scratchAfter(x.known, prog[vip])))],
                      [known |-> <<>>, ir |-> <<>>], [n \in DOMAIN prog |-> n]).ir
      corrected == [n \in DOMAIN all |-> patched(prog, all[n], flow)]
  IN SelectSeq([n \in DOMAIN all |-> commented(corrected[n])],
               LAMBDA ins : prog[ins.vip].op = "NOP" => ins.jumpTo # 0)
================================================================================
