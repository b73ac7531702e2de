----------------------------- MODULE LuraphDecompile -----------------------------
(***************************************************************************)
(* A Luraph program from its run in the sandbox to its listing: the        *)
(* interpreter runs it, decompileProgram lifts it with what the trace of   *)
(* the sandbox seems to tell of it, structureProgram rewrites it pass by   *)
(* pass and prints it.  The listing is then run in the environment of the  *)
(* interpreter.                                                            *)
(*                                                                         *)
(* In half the behaviours the passes are left out, so that what the lifter *)
(* makes of a program can be told from what the passes make of it.         *)
(***************************************************************************)
EXTENDS LuraphLifter, LuraphStructure

CONSTANTS
  Programs,
  Environments,  \* what names mean to a script: functions from names to values
  Others,        \* segments of the trace left by programs that were run before
  MaxSteps       \* bound, for model checking: steps of a run

VARIABLES prog, env, vm,
          trace,        \* what the program dispatched in its run
          flow,         \* what the lifter is told of its jumps
          structured,
          ir, original, \* the present form, and the form that was lifted
          pass, rounds, \* the pass at work and its rounds so far
          constants,    \* kPool
          out           \* the run of the listing

vars == <<prog, env, vm, trace, flow, structured, ir, original, pass, rounds, constants, out>>

(* Pass order matters: clean the symbolic IR first.                        *)
passes ==
  <<"junk", "collapse", "kpool", "scratch", "fold", "gotos", "constants", "scratch", "fold", "gotos">>

roundLimit ==
  [junk |-> 1, collapse |-> 50, kpool |-> 1, scratch |-> 6, fold |-> 4, gotos |-> 30, constants |-> 8]

round(name_, x) ==
  CASE name_ = "junk" -> removeJunkBlocks(x)
    [] name_ = "collapse" -> collapseGlobalChains(x)
    [] name_ = "kpool" -> extractKPool(x)
    [] name_ = "scratch" -> propagateScratch(x)
    [] name_ = "fold" -> foldArithChains(x)
    [] name_ = "gotos" -> eliminateTrivialGotos(x)
    [] name_ = "constants" -> propagateCrossBlockConstants(x)

idle == machine(TRUE, <<>>)

Init ==
  /\ prog \in Programs /\ env \in Environments /\ structured \in BOOLEAN
  /\ vm = machine(FALSE, <<>>) /\ trace = <<>> /\ flow = <<>>
  /\ ir = <<>> /\ original = <<>> /\ pass = 0 /\ rounds = 0 /\ constants = <<>>
  /\ out = idle

Interpret ==
  /\ pass = 0 /\ vm.status = "running" /\ vm.steps < MaxSteps
  /\ vm' = interpret(prog, vm, env)
  /\ trace' = Append(trace, vm.pc)
  /\ UNCHANGED <<prog, env, flow, structured, ir, original, pass, rounds, constants, out>>

(* The program's own stretch of the trace, up to where another program is  *)
(* run in its midst or the trace is full; or with a further run of the     *)
(* program itself at its end, which no marker tells from the first.        *)
stretches ==
  {SubSeq(trace, 1, n) : n \in 0..Len(trace)} \cup (IF vm.status = "ended" THEN {Append(trace, 1)} ELSE {})

(* Another program, maybe of the same length, may have been run before.    *)
Segments ==
  {before \o <<[instrCount |-> Len(prog), vips |-> own]>> :
     before \in {<<>>} \cup {<<other>> : other \in Others}, own \in stretches}

Lift ==
  /\ pass = 0 /\ (vm.status # "running" \/ vm.steps = MaxSteps)
  /\ \E told \in {analyzeFlow(traceOf(prog, segments)) : segments \in Segments} :
       flow' = told /\ original' = decompileProgram(prog, told)
  /\ IF structured THEN ir' = original' /\ pass' = 1
     ELSE ir' = structureAndEmit(original') /\ pass' = Len(passes) + 1
  /\ UNCHANGED <<prog, env, vm, trace, structured, rounds, constants, out>>

(* One more round, of the same pass while it changes something.            *)
Round ==
  /\ pass \in DOMAIN passes
  /\ LET next == round(passes[pass], ir)
     IN /\ rounds < roundLimit[passes[pass]] /\ next # ir
        /\ ir' = next
  /\ rounds' = rounds + 1
  /\ constants' = IF passes[pass] = "kpool" THEN kPool(ir) ELSE constants
  /\ UNCHANGED <<prog, env, vm, trace, flow, structured, original, pass, out>>

(* The form is settled, or the pass has had its rounds.                    *)
NextPass ==
  /\ pass \in DOMAIN passes
  /\ rounds = roundLimit[passes[pass]] \/ round(passes[pass], ir) = ir
  /\ pass' = pass + 1 /\ rounds' = 0
  /\ ir' = IF pass = Len(passes) THEN structureAndEmit(ir) ELSE ir
  /\ UNCHANGED <<prog, env, vm, trace, flow, structured, original, constants, out>>

--------------------------------------------------------------------------------
(* The listing at work.                                                    *)

printed == pass = Len(passes) + 1

line(vip) == CHOOSE n \in DOMAIN ir : ir[n].vip = vip

started ==
  [machine(TRUE, [key \in {num(v) : v \in DOMAIN constants} |-> eval(constants[key[2]], idle, env)])
     EXCEPT !.status = IF danglingGotos(ir) # {} THEN "invalid"
                       ELSE IF ir = <<>> THEN "ended" ELSE "started"]

Load ==
  /\ printed /\ out = idle
  /\ out' = started
  /\ UNCHANGED <<prog, env, vm, trace, flow, structured, ir, original, pass, rounds, constants>>

(* A jump is printed in place of the statement of its instruction.         *)
Execute ==
  /\ printed /\ out.status = "started" /\ out.steps < MaxSteps
  /\ LET ins == ir[out.pc]
         jumps == IF ins.jumpTo # 0 THEN <<"bool", TRUE>>
                  ELSE IF ins.condJump # NoJump THEN eval(ins.condJump.cond, out, env)
                  ELSE <<"bool", FALSE>>
         target == IF ins.jumpTo # 0 THEN ins.jumpTo ELSE ins.condJump.target
         after == IF ins.jumpTo # 0 \/ ins.condJump # NoJump
                  THEN IF jumps = Fault THEN failed(out) ELSE out
                  ELSE perform(ins.stmt, [out EXCEPT !.at = ins.vip], env)
         pc == IF jumps = <<"bool", TRUE>> THEN line(target) ELSE out.pc + 1
     IN out' = IF after.status = "failed" THEN after
               ELSE [after EXCEPT !.pc = pc, !.steps = @ + 1,
                                  !.status = IF pc \in DOMAIN ir THEN @ ELSE "ended"]
  /\ UNCHANGED <<prog, env, vm, trace, flow, structured, ir, original, pass, rounds, constants>>

Ended ==
  /\ printed /\ out # idle
  /\ out.status = "started" => out.steps = MaxSteps
  /\ UNCHANGED vars

Next == Interpret \/ Lift \/ Round \/ NextPass \/ Load \/ Execute \/ Ended

Spec == Init /\ [][Next]_vars /\ WF_vars(Next)

--------------------------------------------------------------------------------

(* The listing makes the calls of the program, in its order and with its   *)
(* values.                                                                 *)
follows ==
  /\ out.status \notin {"invalid", "failed"}
  /\ IsPrefix(out.calls, vm.calls) \/ (vm.status = "running" /\ IsPrefix(vm.calls, out.calls))
  /\ out.status = "ended" /\ vm.status = "ended" => out.calls = vm.calls

judged == printed /\ out # idle /\ vm.status # "failed"

targets ==
  ({prog[v].to : v \in DOMAIN prog} \cup {staticTarget(prog, prog[v]) : v \in DOMAIN prog}) \ {0}

RECURSIVE printable(_)
(* Lua for a value: nothing unknown and not the array of registers.        *)
printable(s) ==
  CASE s.k = "index" -> printable(s.obj) /\ printable(s.key)
    [] s.k = "bin" -> printable(s.a) /\ printable(s.b)
    [] OTHER -> s \notin {unk, regs}

(* What the lifter takes for granted of the trace: that every jump in the  *)
(* segment that it is given is one of the program, which is so for a       *)
(* beginning of its own run and by accident only for another's; and that   *)
(* the segment has the jumps, of those taken, whose operands are misread.  *)
wellTold ==
  /\ \A v \in DOMAIN flow : v \in DOMAIN prog /\ Range(flow[v]) = {prog[v].to}
  /\ \A n \in 1..(Len(trace) - 1) :
       trace[n + 1] # trace[n] + 1 =>
         trace[n] \in DOMAIN flow \/ staticTarget(prog, prog[trace[n]]) = trace[n + 1]

(* Of the program: handlers it knows, jumps that stay in the program and   *)
(* lead to something, and no way into the middle of a sequence that goes   *)
(* through scratch variables.                                              *)
liftable ==
  /\ wellTold
  /\ \A v \in DOMAIN prog : prog[v].op \notin {"LOADCOL", "S_CLEAR", "S_IZz"}
  /\ \A t \in targets : t \in DOMAIN prog /\ prog[t].op # "NOP"
  /\ \A v \in DOMAIN prog : prog[v].to = v + 1 => staticTarget(prog, prog[v]) \in {0, v + 1}
  /\ \A t \in targets : \A v, w \in DOMAIN prog :
       v < t /\ t <= w => scratchOps(prog[v]) = <<>> \/ prog[w].op # "S_STORE"
  /\ \A ins \in Range(original) :
       ins.stmt.kind = "kstore" => printable(ins.stmt.val) /\ ins.stmt.key.k # "unk"

(* Lifting keeps the behaviour: conditions, targets (static, or taken from *)
(* the segment, whole or cut off, that is found for the program) and the   *)
(* statements that scratch sequences amount to.                            *)
LiftingFollowsProgram == judged /\ ~structured /\ liftable => follows

--------------------------------------------------------------------------------
(* What the passes take for granted, said of the form that was lifted.     *)

writers(r) ==
  {i \in DOMAIN original :
     \/ writes(original[i].stmt, r)
     \/ original[i].stmt.kind = "kstore" /\ original[i].stmt.obj = regs /\ original[i].stmt.key = imm(r)
     \/ original[i].stmt.kind = "clearrange" /\ r \in original[i].stmt.lo..original[i].stmt.hi}

visibleReaders(r) == {i \in DOMAIN original : stmtReadsReg(original[i].stmt, r)}

(* Conditions and calls read registers in ways that the passes do not see. *)
hiddenReaders(r) ==
  {i \in DOMAIN original :
     \/ original[i].stmt.kind = "callstmt"
        /\ r \in original[i].stmt.base..(original[i].stmt.base + original[i].stmt.argc)
     \/ r \in Range(regsIn(original[i].condJump.cond))}

(* A bare jump goes nowhere but on.                                        *)
onlyConditional == \A ins \in Range(original) : ins.jumpTo \in {0, ins.vip + 1}

(* Tables that hold junk may be cleared afterwards.                        *)
onlyJunk(r) ==
  hiddenReaders(r) = {} /\ \A i \in visibleReaders(r) : junkStore(original[i].stmt)

(* Registers are written once, to be read after that, and no jump passes   *)
(* over a write.                                                           *)
writtenOnce ==
  \A r \in Registers :
    /\ Cardinality(writers(r)) <= 1 \/ onlyJunk(r)
    /\ \A w \in writers(r), i \in visibleReaders(r) \cup hiddenReaders(r) : w < i
    /\ \A w \in writers(r), i \in DOMAIN original :
         i < w => original[i].condJump.target <= original[w].vip

(* Jumps lead to statements that no pass takes away.                       *)
targetsStay ==
  \A ins \in Range(original) :
    ins.vip \in {x.jumpTo : x \in Range(original)} \cup {x.condJump.target : x \in Range(original)} =>
      ins.stmt.kind \in {"callstmt", "comment", "none"}

(* What a condition or a call reads is not read by one other statement.    *)
hiddenKept ==
  \A r \in Registers : hiddenReaders(r) # {} => Cardinality(visibleReaders(r)) # 1

noJumpOver(i) == \A j \in 1..(i - 1) : original[j].condJump.target <= original[i].vip

(* A table is the table of constants, filled before it is used otherwise,  *)
(* or junk that is only stored to.                                         *)
filledFirst(r) ==
  LET used == visibleReaders(r) \ poolStores(original, r)
  IN r \in kPoolRegister(original) /\ \A i \in poolStores(original, r) :
       original[i].stmt.val.k \in {"konst", "name"} /\ noJumpOver(i) /\ \A l \in used : i < l

tablesKnown ==
  \A ins \in Range(original) :
    ins.stmt.kind = "assign" /\ ins.stmt.src = table =>
      /\ hiddenReaders(ins.stmt.reg) = {}
      /\ \/ filledFirst(ins.stmt.reg)
         \/ onlyJunk(ins.stmt.reg)

(* No register that is read once is copied into another one that is.       *)
noChains ==
  \A r, q \in Registers :
    Cardinality(visibleReaders(r)) = 1 /\ Cardinality(visibleReaders(q)) = 1 =>
      \A i \in visibleReaders(r) \cap writers(q) :
        \A w \in writers(r) : original[w].stmt.kind = "assign" => original[w].stmt.src.k \in seedKinds

plain ==
  onlyConditional /\ writtenOnce /\ targetsStay /\ hiddenKept /\ tablesKnown /\ noChains

(* The listing of such a program behaves as the program does.              *)
ListingFollowsProgram == judged /\ structured /\ liftable /\ plain => follows

(* "Normal output MUST preserve control flow": the listing calls nothing   *)
(* that the program does not call.                                         *)
ControlFlowPreserved ==
  judged /\ structured /\ liftable =>
    IsPrefix(out.callers, vm.callers) \/ (vm.status = "running" /\ IsPrefix(vm.callers, out.callers))
================================================================================
