--------------------------------- MODULE Ironveil --------------------------------
(***************************************************************************)
(* runIronveilPipeline of src/deobfuscators/ironveil.ts.  The obfuscator   *)
(* hides a program in a build; the pipeline takes the build apart step by  *)
(* step.  A program has its names, its strings and its functions, the      *)
(* first of which is the chunk, as trees of the nodes of IronveilOpcodes,  *)
(* with identifiers and strings in place of numbers; a node "mini" has the *)
(* expression that the obfuscator turns into stack operations.             *)
(***************************************************************************)
EXTENDS IronveilCodegen

CONSTANTS
  Cases     \* the programs and how each is hidden

VARIABLES
  original, options,
  build,    \* what the source file contains
  veil,     \* the next step
  assembled, payload, ir, output

vars == <<original, options, build, veil, assembled, payload, ir, output>>

None == <<>>

--------------------------------------------------------------------------------
(* The obfuscator.  M says what becomes of names, texts, functions and     *)
(* mini-expressions.                                                       *)

indexOf(x, s) == num(CHOOSE k \in DOMAIN s : s[k] = x[2])

step(code, operand) == list(<<num(code)>> \o operand)

RECURSIVE rpn(_, _)
rpn(M, e) ==
  CASE tagOf(e) = "id" -> <<step(1, <<indexOf(arg(e, 1), M.names)>>)>>
    [] tagOf(e) = "str" -> <<step(2, <<indexOf(arg(e, 1), M.strings)>>)>>
    [] tagOf(e) = "num" -> <<step(3, <<arg(e, 1)>>)>>
    [] tagOf(e) = "bool" -> <<step(4, <<arg(e, 1)>>)>>
    [] tagOf(e) = "nil" -> <<step(5, <<>>)>>
    [] tagOf(e) = "member" -> IF arg(e, 3) = num(1) THEN rpn(M, arg(e, 1)) \o rpn(M, arg(e, 2)) \o <<step(7, <<>>)>>
                              ELSE Append(rpn(M, arg(e, 1)), step(6, <<indexOf(arg(e, 2), M.names)>>))
    [] tagOf(e) = "unary" -> Append(rpn(M, arg(e, 2)), step(8, <<indexOf(arg(e, 1), UNARY_NAMES)>>))
    [] tagOf(e) = "binary" ->
         rpn(M, arg(e, 2)) \o rpn(M, arg(e, 3)) \o <<step(9, <<indexOf(arg(e, 1), BINARY_NAMES)>>)>>

RECURSIVE walk(_, _, _)

walkAll(M, roles, xs) == [i \in DOMAIN xs |-> walk(M, roles[i], xs[i])]

leaf(M, role, x) ==
  CASE role = "raw" -> x
    [] role = "name" -> IF M.hide THEN indexOf(x, M.names) ELSE x
    [] role = "names" -> IF M.hide THEN list([i \in DOMAIN x[2] |-> indexOf(x[2][i], M.names)]) ELSE x
    [] role = "text" -> IF M.hide THEN indexOf(x, M.strings) ELSE x
    [] role = "fn" -> IF M.hide THEN x
                      ELSE LET f == M.fns[x[2]] IN list(<<f.params, f.vararg, walk(M, "stmts", f.body)>>)
    [] role = "mini" -> list(rpn(M, x))

walk(M, role, x) ==
  CASE x = null \/ role \in {"binary", "unary"} -> x
    [] role \in Raw -> leaf(M, role, x)
    [] role = "stmts" /\ M.hide -> list(FlattenSeq([i \in DOMAIN x[2] |-> M.dead \o <<walk(M, "stmt", x[2][i])>>]))
    [] role \in DOMAIN single -> list(walkAll(M, [i \in DOMAIN x[2] |-> single[role]], x[2]))
    [] role = "branch" -> list(walkAll(M, <<"expr", "stmts">>, x[2]))
    [] tagOf(x) = "mini" /\ ~M.hide -> walk(M, "expr", arg(x, 1))
    [] OTHER -> list(<<x[2][1]>> \o walkAll(M, rolesOf(tagOf(x), x[2]), Tail(x[2])))

(* The program with its functions where they are used.                     *)
Source == walk([hide |-> FALSE, fns |-> original.fns], "stmts", original.fns[1].body)

(* Codes are any numbers; each list of specs has the names in their order. *)
tagCode(n, named, tag) == n * CHOOSE k \in DOMAIN named : named[k] = tag
operatorCodes(named) == [o \in {name(t) : t \in Range(named)} |-> tagCode(3001, named, o[2])]
Codes ==
  [expr |-> [t \in Range(EXPR_NAMES) |-> tagCode(4001, EXPR_NAMES, t)],
   stmt |-> [t \in Range(STMT_NAMES) |-> tagCode(4001, STMT_NAMES, t)],
   lval |-> [id |-> 17, member |-> 9], field |-> [array |-> 1, record |-> 2, general |-> 3],
   binary |-> operatorCodes(BINARY_NAMES \o <<"and", "or">>), unary |-> operatorCodes(UNARY_NAMES)]

opcodeSeed == 4711
defSeed == 815

specs(n, named, salt) ==
  list([k \in DOMAIN named |-> list(<<num(encodeStaticOpcode(n * k, k, defSeed, salt)), list(<<num(k)>>)>>)])

encodeFunction(M, D, f) ==
  list(<<walk(M, "names", f.params), encode(D, "stmts", walk(M, "stmts", f.body), Fresh)[1], f.vararg>>)

payloadText(M, salts) ==
  write(list(<<object(<<bytes(<<118>>), boolean(TRUE)>>), num(1),
               list([i \in DOMAIN M.fns |->
                       encodeFunction(M, [key |-> deriveFunctionKey(opcodeSeed, i), salts |-> salts, codes |-> Codes],
                                      M.fns[i])]),
               list(<<num(opcodeSeed), num(defSeed), specs(3001, BINARY_NAMES, salts.defBinary),
                      specs(3001, UNARY_NAMES, salts.defUnary), specs(4001, EXPR_NAMES, salts.defExpr),
                      specs(4001, STMT_NAMES, salts.defStmt)>>)>>))

hiddenTable(entries, order) ==
  [k \in DOMAIN order |-> [key |-> 250 + k,
                          codes |-> xorDecodeTableEntry([key |-> 250 + k, codes |-> entries[order[k]]])]]

(* Where the k-th string is to stand so that stride and offset find it.    *)
placed(n, o) == [q \in 1..n |-> CHOOSE a \in 1..n : ((a - 1) * o.stride + o.offset) % n = q - 1]

written(text, o) ==
  [frags |-> fragments(xorDecryptBytes(lzwCompress(text), 91), Len(o.order), o.order),
   key |-> 91, seed |-> 7, hash |-> payloadChecksum(text, 7),
   found |-> [dec |-> o.salts.dec, decB |-> IF o.exchanged THEN Reverse(o.salts.decB) ELSE o.salts.decB,
              def |-> [i \in 1..4 |-> o.salts.def[o.listed[i]]]],
   andor |-> IF o.shown /\ ~o.exchanged THEN <<Codes.binary[name("and")], Codes.binary[name("or")]>> ELSE <<>>,
   tables |-> [names |-> hiddenTable(original.names, [k \in DOMAIN original.names |-> k]),
               strings |-> hiddenTable(original.strings, placed(Len(original.strings), o)),
               stride |-> o.stride, offset |-> o.offset]]

Obfuscate ==
  /\ veil = "program" /\ veil' = "assemble"
  /\ build' = written(payloadText([hide |-> TRUE, names |-> original.names, strings |-> original.strings,
                                   fns |-> original.fns, dead |-> options.dead],
                                  makeSalts(options.salts.dec, options.salts.decB, options.salts.def)), options)
  /\ UNCHANGED <<original, options, assembled, payload, ir, output>>

--------------------------------------------------------------------------------
(* The pipeline.                                                           *)

Init ==
  /\ \E c \in Cases : original = c[1] /\ options = c[2]
  /\ build = None /\ veil = "program"
  /\ assembled = None /\ payload = None /\ ir = None /\ output = None

Assemble ==
  /\ veil = "assemble" /\ veil' = "extract"
  /\ assembled' = assembleFragments(build.frags, build)
  /\ UNCHANGED <<original, options, build, payload, ir, output>>

checked(st) ==
  IF st.status # "corrupt" /\ payloadChecksum(st.out, build.seed) = build.hash
  THEN veil' = "decode" /\ payload' = deserializeTagged(st.out)
  ELSE veil' = "failed" /\ UNCHANGED payload

extractPayload ==
  /\ veil = "extract" /\ checked(extracted(assembled, build.key))
  /\ UNCHANGED <<original, options, build, assembled, ir, output>>

metaOf(meta) ==
  [defSeed |-> meta[2][2], binary |-> meta[3][2], unary |-> meta[4][2], expr |-> meta[5][2], stmt |-> meta[6][2]]
meta == metaOf(payload[2][4][2])

withControl(map) ==
  [c \in DOMAIN map \cup Range(build.andor) |->
     IF c \in Range(build.andor) THEN IF c = build.andor[2] THEN "or" ELSE "and" ELSE map[c]]

roleMaps(salts) ==
  [binary |-> withControl(buildStaticOpcodeMap(meta.binary, meta.defSeed, salts.defBinary, BINARY_NAMES)),
   unary |-> buildStaticOpcodeMap(meta.unary, meta.defSeed, salts.defUnary, UNARY_NAMES),
   expr |-> buildStaticOpcodeMap(meta.expr, meta.defSeed, salts.defExpr, EXPR_NAMES),
   stmt |-> buildStaticOpcodeMap(meta.stmt, meta.defSeed, salts.defStmt, STMT_NAMES)]

RECURSIVE subtrees(_)
subtrees(x) == {x} \cup IF x[1] = "list" THEN UNION {subtrees(x[2][i]) : i \in DOMAIN x[2]} ELSE {}

operators == {name("binary"), name("unary")}
isNode(x) == x[1] = "list" /\ x[2] # <<>> /\ x[2][1][1] = "name"
nodes(x) == {n \in subtrees(x) : isNode(n)}
unresolved(x) == \E n \in nodes(x) : n[2][1] \in operators /\ n[2][2] = name("?")

bodies(fns) == list([i \in DOMAIN fns |-> fns[i].body])

sane(decoded) ==
  ir' = decoded /\ veil' = IF unresolved(bodies(decoded.fns)) THEN "retry" ELSE "trim"

decodeWith(salts, swapped) == decodeIr(payload, swapped, roleMaps(salts))

Decode ==
  /\ veil = "decode"
  /\ LET salts == resolveDecodeSalts(extractSaltCandidates(build.found), meta)
     IN  sane(decodeWith(salts, salts))
  /\ UNCHANGED <<original, options, build, assembled, payload, output>>

(* Operators that are not known are read once more, with the salts of the  *)
(* two kinds of operators exchanged.                                       *)
Retry ==
  /\ veil = "retry" /\ veil' = "trim"
  /\ LET salts == resolveDecodeSalts(extractSaltCandidates(build.found), meta)
     IN  ir' = decodeWith(salts, [salts EXCEPT !.binary = salts.unary, !.unary = salts.binary])
  /\ UNCHANGED <<original, options, build, assembled, payload, output>>

Trim ==
  /\ veil = "trim" /\ veil' = "print"
  /\ ir' = [ir EXCEPT !.fns = [i \in DOMAIN @ |-> [@[i] EXCEPT !.body = trimDeadIfs(@)]]]
  /\ UNCHANGED <<original, options, build, assembled, payload, output>>

printed(tables) == program([names |-> tables.names, strings |-> tables.strings, fns |-> ir.fns], ir)

Generate ==
  /\ veil = "print" /\ veil' = "done"
  /\ output' = printed(extractNamesAndStrings(build.tables))
  /\ UNCHANGED <<original, options, build, assembled, payload, ir>>

Ended == veil \in {"failed", "done"} /\ UNCHANGED vars

Next == Obfuscate \/ Assemble \/ extractPayload \/ Decode \/ Retry \/ Trim \/ Generate \/ Ended

Spec == Init /\ [][Next]_vars

--------------------------------------------------------------------------------

(* What a build must be like: salts that differ, in the order in which the *)
(* pipeline takes them; fragments in order, or few; and, or to be seen     *)
(* where they are used.                                                    *)
uses(S) == \E n \in nodes(Source) : n[2][1] \in operators /\ n[2][2] \in {name(o) : o \in S}

supportedBuild ==
  LET salts == options.salts.dec \o options.salts.decB \o options.salts.def
  IN /\ IsInjective(salts) /\ options.listed = <<1, 2, 3, 4>>
     /\ Len(options.order) > maxShuffled => options.order = [i \in DOMAIN options.order |-> i]
     /\ (options.shown /\ ~options.exchanged) \/ ~uses({"and", "or"})

(* What a program must be like: no prefix on an operation, other than a    *)
(* looser one in a mini-expression; no power or concatenation of one as    *)
(* left operand; no operator on bits; no mini-expression with an operator  *)
(* as an operand; no method by the first name; and what has a field or is  *)
(* called is a name, a field or a call, never an operation, a string, a    *)
(* table or a function, which would have to stand in brackets.             *)
RECURSIVE outside(_)   \* the subtrees that are not in a mini-expression
outside(t) ==
  {t} \cup IF t[1] # "list" \/ (isNode(t) /\ tagOf(t) = "mini") THEN {}
           ELSE UNION {outside(t[2][i]) : i \in DOMAIN t[2]}

within(e) == IF tagOf(e) = "mini" THEN arg(e, 1) ELSE e
prefix(e) == tagOf(within(e)) \in {"id", "member", "call"}

plainOperands(n) == arg(n, 1)[2] \in {"^", ".."} => operatorOf(arg(n, 2)) # arg(n, 1)[2]

plainNode(n) ==
  CASE tagOf(n) = "unary" -> operatorOf(within(arg(n, 2))) = "none"
    [] tagOf(n) = "binary" ->
         /\ plainOperands(n)
         /\ \A e \in {arg(n, 2), arg(n, 3)} : tagOf(e) = "mini" => operatorOf(within(e)) = "none"
    [] tagOf(n) = "member" -> prefix(arg(n, 1))
    [] tagOf(n) = "call" ->
         prefix(arg(n, 1)) /\ (arg(n, 3) = num(1) => arg(arg(n, 1), 2)[2] # original.names[1])
    [] OTHER -> TRUE

plainMini(n) ==
  CASE tagOf(n) = "unary" -> operatorOf(arg(n, 2)) = "none" \/ needsParens(arg(n, 1)[2], operatorOf(arg(n, 2)), FALSE)
    [] tagOf(n) = "binary" -> plainOperands(n)
    [] tagOf(n) = "member" -> prefix(arg(n, 1))
    [] OTHER -> TRUE

plainProgram ==
  LET trees == {n \in UNION {outside(f.body) : f \in Range(original.fns)} : isNode(n)}
  IN /\ ~uses({"&", "|", "~", "<<", ">>"})
     /\ \A n \in trees : plainNode(n) /\ (tagOf(n) = "mini" => \A m \in nodes(arg(n, 1)) : plainMini(m))

(* A supported build of a plain program gives a source that Lua reads as   *)
(* the program: nothing is lost in fragments, codes, tags, tables, stacks  *)
(* and the brackets of operations, and what the obfuscator added is gone.  *)
RecoversProgram ==
  veil \in {"failed", "done"} /\ supportedBuild /\ plainProgram =>
    veil = "done" /\ Reading(output) = Source
===============================================================================
