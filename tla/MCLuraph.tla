--------------------------------- MODULE MCLuraph ---------------------------------
(***************************************************************************)
(* The way of a Luraph program.  DynamicDecode runs a loader of two        *)
(* programs, one beginning like the other, in the sandbox.  LuraphDecompile*)
(* takes programs of five to nine instructions in four families, each with *)
(* three free places: jumps; sequences through scratch variables; flows of *)
(* data; tables of constants and junk.  They print n, which is 0 or 1.     *)
(***************************************************************************)
EXTENDS DynamicDecode, LuraphIR

CONSTANT MaxVmSteps
VARIABLES prog, env, vm, jumps, flow, structured, ir, original, pass, rounds, constants, out

MCcode == [p1 |-> <<7, 3>>, p2 |-> <<7, 5>>]

instr(op, a, b, j, i) == [op |-> op, a |-> a, b |-> b, j |-> j, i |-> i, c |-> i, k |-> konst(7), to |-> 0]
with(ins, k) == [ins EXCEPT !.k = k]
jump(op, a, j, to) == [instr(op, a, a, j, 1) EXCEPT !.to = to]

getglobal(a, s) == with(instr("GETGLOBAL", a, 0, 0, 0), name(s))
setTable(a, i, v) == with(instr("SETTABLE_PI", a, 0, 0, i), konst(v))
getTable(a, j, k) == with(instr("GETTABLE_K", a, 0, j, 0), k)

MCEnvironments == {[print |-> <<"lib", "print">>, n |-> num(v)] : v \in {0, 1}}

Prefix == <<getglobal(1, "print"), getglobal(2, "n")>>

(* Jumps whose operand is right, wrong, out of the program or missing.     *)
Control ==
  {instr("CALL1R0", 1, 0, 0, 0), instr("ADD_RI", 2, 2, 0, 1), instr("NOP", 0, 0, 0, 0),
   jump("JGE", 2, 2, 3), jump("JNE", 2, 4, 5), jump("JMP", 0, 5, 6), jump("JMP", 0, 3, 4),
   jump("JMP", 0, 3, 6), jump("JMP", 0, 9, 10), jump("JNE", 2, 3, 6),
   jump("OP", 0, 0, 4), jump("OP", 0, 0, 0)}

ControlPrograms ==
  {Prefix \o p \o <<instr("CALL1R0", 1, 0, 0, 0)>> : p \in [1..3 -> Control]}

(* What assigns, completes and cuts off the sequences.                     *)
ScratchSteps ==
  {instr("S_Z", 2, 0, 0, 0), with(instr("S_Ck", 0, 0, 0, 0), name("n")), instr("S_eC", 0, 0, 0, 0),
   instr("S_If", 0, 0, 0, 0), instr("S_STORE", 0, 0, 0, 0), instr("S_IZ2", 0, 2, 2, 0),
   instr("S_ECI", 0, 3, 0, 0), jump("JNE", 2, 4, 5)}

ScratchPrograms ==
  {Prefix \o p \o q \o <<instr("S_STORE", 0, 0, 0, 0), instr("CALL1R0", 1, 0, 0, 0)>> :
     p \in [1..3 -> ScratchSteps],
     q \in {<<instr("S_eR", 0, 0, 0, 0), with(instr("S_Ck", 0, 0, 0, 0), name("n")),
              instr("S_eC", 0, 0, 0, 0), instr("S_If", 0, 0, 0, 0)>>,
            <<instr("S_If", 0, 0, 0, 0)>>}}

(* Copies, arithmetic, fields, calls and jumps over R2 to R5.              *)
DataSteps ==
  {instr("MOVE", 3, 0, 2, 0), instr("MOVE", 4, 0, 2, 0), instr("MOVE", 4, 0, 5, 0),
   instr("MOVE", 5, 0, 2, 0), instr("ADD_RI", 4, 3, 0, 1), instr("ADD_RI", 2, 4, 0, 1),
   instr("SUB_KI", 4, 0, 0, 3), getTable(4, 1, name("x")), instr("NOT", 2, 3, 0, 0),
   instr("MOD_RI", 2, 0, 0, 2), instr("LOADNILRANGE", 0, 4, 2, 0), instr("CALL1R1", 0, 4, 0, 0),
   instr("CALL1R0", 1, 0, 0, 0), instr("CALL2R0", 0, 0, 1, 0), jump("JNE", 3, 5, 6),
   jump("JGE", 2, 3, 4)}

DataPrograms ==
  {<<getglobal(1, "print"), getglobal(3, "n")>> \o p
      \o <<instr("CALL1R0", 1, 0, 0, 0), instr("CALL1R0", 1, 0, 0, 0)>> : p \in [1..3 -> DataSteps]}

(* A table of constants in R4, and tables filled with junk in R5.          *)
TableSteps ==
  {setTable(4, 3, 7), setTable(4, 1, 8), with(instr("SETTABLE_KR", 4, 0, 1, 0), konst(2)),
   getTable(2, 4, konst(1)), getTable(3, 4, konst(3)), instr("MOVE", 4, 0, 2, 0),
   instr("NEWTABLE", 5, 0, 0, 0), instr("NEWTABLE", 4, 0, 0, 0), setTable(5, 1, 7),
   setTable(3, 1, 7), instr("LOADNILRANGE", 0, 5, 5, 0), instr("SUB_KI", 5, 0, 0, 7),
   instr("CALL1R0", 1, 0, 0, 0), jump("JNE", 3, 5, 6)}

TablePrograms ==
  {<<getglobal(1, "print"), instr("NEWTABLE", 4, 0, 0, 0), setTable(4, 1, 5), setTable(4, 2, 6)>>
      \o p \o <<getTable(2, 4, konst(1)), instr("CALL1R0", 1, 0, 0, 0)>> : p \in [1..3 -> TableSteps]}

MCPrograms ==
  ControlPrograms \cup ScratchPrograms \cup DataPrograms \cup TablePrograms

(* A program as long as those of ControlPrograms, which jumps as some of   *)
(* these do, and one of another length.                                    *)
MCOthers == {[instrCount |-> 6, vips |-> <<1, 2, 3, 4, 6>>], [instrCount |-> 5, vips |-> <<1, 3, 5>>]}

--------------------------------------------------------------------------------
(* A behaviour is a run in the sandbox, or a program on its way to its     *)
(* listing.                                                                *)

L == INSTANCE LuraphDecompile WITH
  Programs <- MCPrograms, Environments <- MCEnvironments, Others <- MCOthers,
  MaxSteps <- MaxVmSteps, trace <- jumps

decompileVars == <<prog, env, vm, jumps, flow, structured, ir, original, pass, rounds, constants, out>>

NoDecode ==
  /\ pc = "out" /\ instrumented = FALSE /\ now = 0 /\ loop = 0 /\ guestLog = 0 /\ waitCalls = 0
  /\ decoded = <<>> /\ vmseen = <<>> /\ rawJsons = <<>> /\ budgetHit = FALSE /\ runError = Nothing
  /\ vmids = {} /\ vmcurz = Nothing /\ vmt = <<>> /\ trace = <<>> /\ finalDumps = <<>>
  /\ executed = <<>> /\ dumps = <<>>

NoProgram ==
  /\ prog = <<>> /\ env = (CHOOSE e \in MCEnvironments : TRUE) /\ structured = FALSE
  /\ vm = machine(FALSE, <<>>) /\ jumps = <<>> /\ flow = <<>>
  /\ ir = <<>> /\ original = <<>> /\ pass = 0 /\ rounds = 0 /\ constants = <<>>
  /\ out = L!idle

LuraphInit == (L!Init /\ NoDecode) \/ (NoProgram /\ Init)

Decode == pc # "out" /\ Next /\ UNCHANGED decompileVars
Decompile == pc = "out" /\ L!Next /\ UNCHANGED vars

LuraphSpec == LuraphInit /\ [][Decode \/ Decompile]_<<vars, decompileVars>>

(* A run in the sandbox that is scheduled fairly, whether by the guest or  *)
(* by the host.                                                            *)
DecodeSpec ==
  /\ NoProgram /\ Init
  /\ [][Decode]_<<vars, decompileVars>>
  /\ WF_vars(Guest) /\ WF_vars(Return)

(* Lifting keeps the behaviour: conditions, targets (static, or taken from *)
(* the segment, whole or cut off, that is found for the program) and the   *)
(* statements that scratch sequences amount to.                            *)
LiftingFollowsProgram == L!LiftingFollowsProgram

(* The listing of a program that is plain behaves as the program does.     *)
ListingFollowsProgram == L!ListingFollowsProgram

(* "Normal output MUST preserve control flow": the listing calls nothing   *)
(* that the program does not call.                                         *)
ControlFlowPreserved == L!ControlFlowPreserved
====================================================================================
