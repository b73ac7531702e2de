----------------------------- MODULE IronveilCodegen -----------------------------
(***************************************************************************)
(* LuaCodegen of src/deobfuscators/ironveil.ts: a decoded tree as Lua      *)
(* tokens, with the names and texts of the tables of the build.  A token   *)
(* is <<kind, text>> with kind "identifier", "string", "number" or "op"    *)
(* (keywords and punctuation).  C has the names, the strings and the       *)
(* functions.  Indentation is left out.                                    *)
(***************************************************************************)
EXTENDS IronveilOpcodes

tok(t) == <<"op", t>>
arg(x, k) == x[2][k + 1]

--------------------------------------------------------------------------------
(* The tables: every entry is xored with a key of its own, and the strings *)
(* stand three times over, in steps of stride from offset.                 *)
xorDecodeTableEntry(entry) ==
  [i \in DOMAIN entry.codes |-> entry.codes[i] ^^ ((entry.key + i) % 256)]

extractPermutedTable(entries) == [k \in DOMAIN entries |-> xorDecodeTableEntry(entries[k])]

permuted(raw, stride, offset) ==
  IF stride = 1 /\ offset = 0 THEN raw
  ELSE [a \in 1..3 * Len(raw) |-> raw[(((a - 1) * stride + offset) % Len(raw)) + 1]]

extractNamesAndStrings(tables) ==
  [names |-> extractPermutedTable(tables.names),
   strings |-> permuted(extractPermutedTable(tables.strings), tables.stride, tables.offset)]

(* An empty name is none.                                                  *)
nameOf(C, ref) ==
  <<"identifier", IF ref[2] \in DOMAIN C.names /\ C.names[ref[2]] # <<>> THEN C.names[ref[2]]
                  ELSE <<"_n", ref[2]>>>>

luaStringLiteral(C, ref) ==
  <<"string", IF ref[2] \in DOMAIN C.strings THEN C.strings[ref[2]] ELSE <<>>>>

--------------------------------------------------------------------------------
(* Operators of no precedence get no brackets: the four on bits, `?`.      *)
PRECEDENCE ==
  [o \in {"or", "and", "<", "<=", ">", ">=", "==", "~=", "..", "+", "-", "*", "/", "%", "#", "not", "^"} |->
     CASE o = "or" -> 1 [] o = "and" -> 2 [] o \in {"<", "<=", ">", ">=", "==", "~="} -> 3 [] o = ".." -> 4
       [] o \in {"+", "-"} -> 5 [] o \in {"*", "/", "%"} -> 6 [] o \in {"#", "not"} -> 7 [] OTHER -> 8]
precedence(o) == IF o \in DOMAIN PRECEDENCE THEN PRECEDENCE[o] ELSE 0

needsParensFault(outer, inner, isRhs) ==
  precedence(inner) # 0 /\ precedence(outer) > precedence(inner)

needsParens(outer, inner, isRhs) ==
  /\ precedence(inner) # 0
  /\ \/ precedence(outer) > precedence(inner)
     \/ precedence(outer) = precedence(inner) /\ isRhs /\ outer # "^"

operatorOf(e) == IF e # null /\ tagOf(e) \in {"binary", "unary"} THEN arg(e, 1)[2] ELSE "none"

commas(texts) ==
  FoldLeft(LAMBDA out, t : IF out = <<>> THEN t ELSE out \o <<tok(",")>> \o t, <<>>, texts)
enclosed(open, toks, close) == <<tok(open)>> \o toks \o <<tok(close)>>
names(C, refs) == commas([i \in DOMAIN refs[2] |-> <<nameOf(C, refs[2][i])>>])

side(outer, operator, isRhs, toks) ==
  IF needsParens(outer, operator, isRhs) THEN enclosed("(", toks, ")") ELSE toks

infix(o, l, lo, r, ro) == side(o, lo, FALSE, l) \o <<tok(o)>> \o side(o, ro, TRUE, r)

(* Two minus signs without a blank between them begin a comment.           *)
signed(o, toks) ==
  IF o = "-" /\ toks # <<>> /\ toks[1] = tok("-") THEN <<tok("--")>> \o Tail(toks) ELSE <<tok(o)>> \o toks

(* miniStack: one step on the stack of texts and their operators.          *)
push(stack, toks, operator) == Append(stack, [v |-> toks, op |-> operator])
drop(stack, n) == SubSeq(stack, 1, Len(stack) - n)
top(stack, n) == stack[Len(stack) - n]

mini(C, stack, code, operand) ==
  CASE code = 1 -> push(stack, <<nameOf(C, operand)>>, "none")
    [] code = 2 -> push(stack, <<luaStringLiteral(C, operand)>>, "none")
    [] code = 3 -> push(stack, <<<<"number", operand[2]>>>>, "none")
    [] code = 4 -> push(stack, <<tok(IF operand = num(1) THEN "true" ELSE "false")>>, "none")
    [] code = 5 -> push(stack, <<tok("nil")>>, "none")
    [] code = 6 -> push(drop(stack, 1), top(stack, 0).v \o <<tok("."), nameOf(C, operand)>>, "none")
    [] code = 7 -> push(drop(stack, 2), top(stack, 1).v \o enclosed("[", top(stack, 0).v, "]"), "none")
    [] code = 8 -> push(drop(stack, 1),
                        signed(UNARY_NAMES[operand[2]],
                               side(UNARY_NAMES[operand[2]], top(stack, 0).op, FALSE, top(stack, 0).v)),
                        UNARY_NAMES[operand[2]])
    [] code = 9 -> push(drop(stack, 2),
                        infix(BINARY_NAMES[operand[2]], top(stack, 1).v, top(stack, 1).op,
                              top(stack, 0).v, top(stack, 0).op), BINARY_NAMES[operand[2]])

miniStack(C, ops) ==
  IF ops[2] = <<>> THEN <<tok("nil")>>
  ELSE FoldLeft(LAMBDA stack, ins : mini(C, stack, ins[2][1][2], IF Len(ins[2]) > 1 THEN ins[2][2] ELSE null),
                <<>>, ops[2])[1].v

--------------------------------------------------------------------------------

RECURSIVE expr(_, _), field(_, _), stmt(_, _), block(_, _)

exprs(C, es) == commas([i \in DOMAIN es[2] |-> expr(C, es[2][i])])

parameters(C, fn) ==
  IF fn.vararg THEN commas((IF fn.params[2] = <<>> THEN <<>> ELSE <<names(C, fn.params)>>) \o <<<<tok("...")>>>>)
  ELSE names(C, fn.params)

missing(C, ref) == ref[2] \notin DOMAIN C.fns

body(C, ref) ==
  IF missing(C, ref) THEN <<tok("("), tok(")"), tok("end")>>
  ELSE enclosed("(", parameters(C, C.fns[ref[2]]), ")") \o block(C, C.fns[ref[2]].body) \o <<tok("end")>>

funcExpr(C, ref) ==
  IF missing(C, ref) THEN <<tok("function"), tok("("), tok("..."), tok(")"), tok("end")>>
  ELSE <<tok("function")>> \o body(C, ref)

access(C, base, e) ==
  IF arg(e, 3) = num(1) THEN base \o enclosed("[", expr(C, arg(e, 2)), "]")
  ELSE base \o <<tok("."), nameOf(C, arg(e, 2))>>

(* The key of the callee is taken for its flag: a method whose name is the *)
(* first is called like a function.                                        *)
isMethod(e) == arg(e, 3) = num(1) /\ tagOf(arg(e, 1)) = "member" /\ arg(arg(e, 1), 2) # num(1)

expr(C, e) ==
  CASE e = null -> <<tok("?")>>
    [] tagOf(e) = "id" -> <<nameOf(C, arg(e, 1))>>
    [] tagOf(e) = "str" -> <<luaStringLiteral(C, arg(e, 1))>>
    [] tagOf(e) = "num" -> <<<<"number", arg(e, 1)[2]>>>>
    [] tagOf(e) = "bool" -> <<tok(IF arg(e, 1) = num(1) THEN "true" ELSE "false")>>
    [] tagOf(e) = "vararg" -> <<tok("...")>>
    [] tagOf(e) = "binary" ->
         infix(arg(e, 1)[2], expr(C, arg(e, 2)), operatorOf(arg(e, 2)), expr(C, arg(e, 3)), operatorOf(arg(e, 3)))
    [] tagOf(e) = "unary" -> signed(arg(e, 1)[2], expr(C, arg(e, 2)))
    [] tagOf(e) = "member" -> access(C, expr(C, arg(e, 1)), e)
    [] tagOf(e) = "call" ->
         (IF isMethod(e) THEN expr(C, arg(arg(e, 1), 1)) \o <<tok(":"), nameOf(C, arg(arg(e, 1), 2))>>
          ELSE expr(C, arg(e, 1)))
         \o enclosed("(", exprs(C, arg(e, 2)), ")")
    [] tagOf(e) = "table" -> enclosed("{", commas([i \in DOMAIN arg(e, 1)[2] |-> field(C, arg(e, 1)[2][i])]), "}")
    [] tagOf(e) = "function" -> funcExpr(C, arg(e, 1))
    [] tagOf(e) = "mini" -> miniStack(C, arg(e, 1))
    [] OTHER -> <<tok("nil")>>

field(C, f) ==
  CASE tagOf(f) = "array" -> expr(C, arg(f, 1))
    [] tagOf(f) = "record" -> <<nameOf(C, arg(f, 1)), tok("=")>> \o expr(C, arg(f, 2))
    [] OTHER -> enclosed("[", expr(C, arg(f, 1)), "]") \o <<tok("=")>> \o expr(C, arg(f, 2))

lvalue(C, lv) == IF tagOf(lv) = "id" THEN <<nameOf(C, arg(lv, 1))>> ELSE access(C, expr(C, arg(lv, 1)), lv)

branch(C, b, first) ==
  <<tok(IF first THEN "if" ELSE "elseif")>> \o expr(C, b[2][1]) \o <<tok("then")>> \o block(C, b[2][2])

(* A statement of unknown name leaves nothing.                             *)
stmt(C, s) ==
  CASE tagOf(s) = "local" ->
         <<tok("local")>> \o names(C, arg(s, 1))
         \o IF arg(s, 2)[2] = <<>> THEN <<>> ELSE <<tok("=")>> \o exprs(C, arg(s, 2))
    [] tagOf(s) = "assign" ->
         commas([i \in DOMAIN arg(s, 1)[2] |-> lvalue(C, arg(s, 1)[2][i])]) \o <<tok("=")>> \o exprs(C, arg(s, 2))
    [] tagOf(s) = "expr" -> expr(C, arg(s, 1))
    [] tagOf(s) = "return" -> <<tok("return")>> \o exprs(C, arg(s, 1))
    [] tagOf(s) = "if" ->
         FlattenSeq([i \in DOMAIN arg(s, 1)[2] |-> branch(C, arg(s, 1)[2][i], i = 1)])
         \o (IF arg(s, 2) = null THEN <<>> ELSE <<tok("else")>> \o block(C, arg(s, 2))) \o <<tok("end")>>
    [] tagOf(s) = "while" -> <<tok("while")>> \o expr(C, arg(s, 1)) \o enclosed("do", block(C, arg(s, 2)), "end")
    [] tagOf(s) = "repeat" -> enclosed("repeat", block(C, arg(s, 1)), "until") \o expr(C, arg(s, 2))
    [] tagOf(s) = "fornum" ->
         <<tok("for"), nameOf(C, arg(s, 1)), tok("=")>>
         \o commas([i \in 1..(IF arg(s, 4) = null THEN 2 ELSE 3) |-> expr(C, arg(s, i + 1))])
         \o enclosed("do", block(C, arg(s, 5)), "end")
    [] tagOf(s) = "forin" ->
         enclosed("for", names(C, arg(s, 1)), "in") \o exprs(C, arg(s, 2)) \o enclosed("do", block(C, arg(s, 3)), "end")
    [] tagOf(s) \in {"break", "continue"} -> <<tok(tagOf(s))>>
    [] tagOf(s) = "do" -> enclosed("do", block(C, arg(s, 1)), "end")
    [] tagOf(s) = "func" ->
         (IF arg(s, 1) = num(1) THEN <<tok("local")>> ELSE <<>>)
         \o <<tok("function")>> \o lvalue(C, arg(s, 2)) \o body(C, arg(s, 3))
    [] OTHER -> <<>>

block(C, stmts) == FlattenSeq([i \in DOMAIN stmts[2] |-> stmt(C, stmts[2][i])])

program(C, ir) == IF ir.entry \in DOMAIN ir.fns THEN block(C, ir.fns[ir.entry].body) ELSE <<>>

--------------------------------------------------------------------------------
(* How Lua reads tokens: the tree of a chunk by the grammar and the        *)
(* operator priorities of its reference manual, in the nodes of            *)
(* IronveilOpcodes, with identifiers and strings in place of numbers.      *)

got(parts, next) == [parts |-> parts, next |-> next]
Bad == got(<<>>, 0)

node(tag, parts) == list(<<name(tag)>> \o parts)
wrapped(tag, r) == IF r = Bad THEN Bad ELSE got(<<node(tag, r.parts)>>, r.next)
listed(r) == IF r = Bad THEN Bad ELSE got(<<list(r.parts)>>, r.next)
joined(r, rest) == IF rest = Bad THEN Bad ELSE got(r.parts \o rest.parts, rest.next)

next(toks, i, S) == i \in DOMAIN toks /\ toks[i] \in {tok(t) : t \in S}

Priority(o) ==
  CASE o = "or" -> <<1, 1>> [] o = "and" -> <<2, 2>> [] o \in {"<", "<=", ">", ">=", "==", "~="} -> <<3, 3>>
    [] o = ".." -> <<5, 4>> [] o \in {"+", "-"} -> <<6, 6>> [] o \in {"*", "/", "%"} -> <<7, 7>> [] o = "^" -> <<10, 9>>
BinaryOperators == {"or", "and", "<", "<=", ">", ">=", "==", "~=", "..", "+", "-", "*", "/", "%", "^"}
UnaryPriority == 8

K(t) == <<"keyword", t>>
R(role) == <<"role", role>>

While == <<K("while"), R("expr"), K("do"), R("block"), K("end")>>
Repeat == <<K("repeat"), R("block"), K("until"), R("expr")>>
Do == <<K("do"), R("block"), K("end")>>
Branch == <<R("expr"), K("then"), R("block")>>
ForIn == <<K("for"), R("names"), K("in"), R("exprs"), K("do"), R("block"), K("end")>>
ForNum == <<K("for"), R("name"), K("="), R("expr"), K(","), R("expr")>>
Body == <<K("("), R("parameters"), K(")"), R("block"), K("end")>>

RECURSIVE read(_, _, _), readAll(_, _, _), readSeparated(_, _, _), readBlock(_, _),
          readBranches(_, _), readExpr(_, _, _), climb(_, _, _), readSuffixes(_, _), readParameters(_, _)

onward(toks, r, items) == IF r = Bad THEN Bad ELSE joined(r, readAll(toks, r.next, items))
readAll(toks, i, items) ==
  IF items = <<>> THEN got(<<>>, i) ELSE onward(toks, read(toks, i, Head(items)), Tail(items))

more(toks, r, role) ==
  IF r # Bad /\ next(toks, r.next, {","}) THEN joined(r, readSeparated(toks, r.next + 1, role)) ELSE r
readSeparated(toks, i, role) == more(toks, read(toks, i, R(role)), role)

--------------------------------------------------------------------------------
(* Expressions.                                                            *)

arguments(toks, r, f) ==    \* r: the arguments, f: what is called
  IF r = Bad THEN Bad ELSE readSuffixes(toks, got(<<node("call", f.parts \o r.parts \o <<f.flag>>)>>, r.next))

called(toks, f, flag, i) ==
  arguments(toks, IF next(toks, i + 1, {")"}) THEN got(<<list(<<>>)>>, i + 2)
                  ELSE readAll(toks, i, <<K("("), R("exprs"), K(")")>>), [parts |-> f, flag |-> flag])

indexed(toks, base, r) ==
  IF r = Bad THEN Bad ELSE readSuffixes(toks, got(<<node("member", base.parts \o r.parts \o <<num(1)>>)>>, r.next))

field1(base, t) == <<node("member", base.parts \o <<t, num(0)>>)>>

readSuffixes(toks, base) ==
  LET i == base.next
      named == i + 1 \in DOMAIN toks /\ toks[i + 1][1] = "identifier"
  IN CASE base = Bad -> Bad
       [] next(toks, i, {"("}) -> called(toks, base.parts, num(0), i)
       [] next(toks, i, {"."}) /\ named -> readSuffixes(toks, got(field1(base, toks[i + 1]), i + 2))
       [] next(toks, i, {":"}) /\ named /\ next(toks, i + 2, {"("}) ->
            called(toks, field1(base, toks[i + 1]), num(1), i + 2)
       [] next(toks, i, {"["}) -> indexed(toks, base, readAll(toks, i, <<K("["), R("expr"), K("]")>>))
       [] OTHER -> base

readField(toks, i) ==
  CASE next(toks, i, {"["}) -> wrapped("general", readAll(toks, i, <<K("["), R("expr"), K("]"), K("="), R("expr")>>))
    [] next(toks, i + 1, {"="}) -> wrapped("record", readAll(toks, i, <<R("name"), K("="), R("expr")>>))
    [] OTHER -> wrapped("array", read(toks, i, R("expr")))

readSimple(toks, i) ==
  CASE i \notin DOMAIN toks -> Bad
    [] toks[i][1] = "identifier" -> readSuffixes(toks, got(<<node("id", <<toks[i]>>)>>, i + 1))
    [] toks[i][1] = "string" -> got(<<node("str", <<toks[i]>>)>>, i + 1)
    [] toks[i][1] = "number" -> got(<<node("num", <<num(toks[i][2])>>)>>, i + 1)
    [] toks[i] \in {tok("true"), tok("false")} ->
         got(<<node("bool", <<num(IF toks[i] = tok("true") THEN 1 ELSE 0)>>)>>, i + 1)
    [] toks[i] = tok("nil") -> got(<<node("nil", <<>>)>>, i + 1)
    [] toks[i] = tok("...") -> got(<<node("vararg", <<>>)>>, i + 1)
    [] toks[i] = tok("(") -> readSuffixes(toks, readAll(toks, i, <<K("("), R("expr"), K(")")>>))
    [] toks[i] = tok("{") ->
         IF next(toks, i + 1, {"}"}) THEN got(<<node("table", <<list(<<>>)>>)>>, i + 2)
         ELSE wrapped("table", readAll(toks, i, <<K("{"), R("fields"), K("}")>>))
    [] toks[i] = tok("function") -> wrapped("function", listed(readAll(toks, i + 1, Body)))
    [] toks[i] \in {tok("not"), tok("-"), tok("#")} ->
         wrapped("unary", joined(got(<<name(toks[i][2])>>, i), readExpr(toks, i + 1, UnaryPriority)))
    [] OTHER -> Bad

operated(toks, limit, left, right) ==
  IF right = Bad THEN Bad
  ELSE climb(toks, limit, got(<<node("binary", <<name(toks[left.next][2])>> \o left.parts \o right.parts)>>, right.next))

climb(toks, limit, left) ==
  IF left # Bad /\ next(toks, left.next, {o \in BinaryOperators : Priority(o)[1] > limit})
  THEN operated(toks, limit, left, readExpr(toks, left.next + 1, Priority(toks[left.next][2])[2]))
  ELSE left

readExpr(toks, i, limit) == climb(toks, limit, readSimple(toks, i))

(* Names, and perhaps `...` at the end.                                    *)
readParameters(toks, i) ==
  CASE next(toks, i, {")"}) -> got(<<list(<<>>), num(0)>>, i)
    [] next(toks, i, {"..."}) -> got(<<list(<<>>), num(1)>>, i + 1)
    [] OTHER -> LET to == CHOOSE k \in i..Len(toks) : next(toks, k, {")"}) /\ \A m \in i..k - 1 : ~next(toks, m, {")"})
                    given == SelectSeq(SubSeq(toks, i, to - 1), LAMBDA t : t[1] = "identifier")
                IN  got(<<list(given), num(IF next(toks, to - 1, {"..."}) THEN 1 ELSE 0)>>, to)

--------------------------------------------------------------------------------
(* Statements.                                                             *)

ends(toks, i) == i > Len(toks) \/ next(toks, i, {"end", "else", "elseif", "until"})

afterBranches(toks, bs) ==
  CASE bs = Bad -> Bad
    [] next(toks, bs.next, {"else"}) -> joined(listed(bs), readAll(toks, bs.next + 1, <<R("block"), K("end")>>))
    [] OTHER -> joined(joined(listed(bs), got(<<null>>, bs.next)), readAll(toks, bs.next, <<K("end")>>))

afterBranch(toks, b) ==
  IF b # Bad /\ next(toks, b.next, {"elseif"}) THEN joined(b, readBranches(toks, b.next)) ELSE b
readBranches(toks, i) == afterBranch(toks, listed(readAll(toks, i + 1, Branch)))

afterRange(toks, r) ==
  CASE r = Bad -> Bad
    [] next(toks, r.next, {","}) -> joined(r, readAll(toks, r.next, <<K(","), R("expr")>> \o Do))
    [] OTHER -> joined(joined(r, got(<<null>>, r.next)), readAll(toks, r.next, Do))

afterNames(toks, r) ==
  IF r # Bad /\ next(toks, r.next, {"="}) THEN joined(r, readAll(toks, r.next, <<K("="), R("exprs")>>))
  ELSE joined(r, got(<<list(<<>>)>>, r.next))

(* A call, or targets and values.                                          *)
afterTargets(toks, r) ==
  CASE r = Bad -> Bad
    [] next(toks, r.next, {"="}) -> wrapped("assign", joined(listed(r), readAll(toks, r.next, <<K("="), R("exprs")>>)))
    [] Len(r.parts) = 1 -> IF tagOf(r.parts[1]) = "call" THEN wrapped("expr", r) ELSE Bad
    [] OTHER -> Bad

functionOf(toks, own, target) ==
  IF target = Bad THEN Bad
  ELSE wrapped("func", joined(got(<<num(own)>> \o target.parts, target.next), listed(readAll(toks, target.next, Body))))

readTarget(toks, i) ==
  LET to == CHOOSE k \in i..Len(toks) : next(toks, k, {"("}) /\ \A m \in i..k - 1 : ~next(toks, m, {"("})
  IN  IF \A k \in i..Len(toks) : ~next(toks, k, {"("}) THEN Bad ELSE readSuffixes(SubSeq(toks, 1, to - 1), got(<<node("id", <<toks[i]>>)>>, i + 1))

readStmt(toks, i) ==
  CASE next(toks, i, {"while"}) -> wrapped("while", readAll(toks, i, While))
    [] next(toks, i, {"repeat"}) -> wrapped("repeat", readAll(toks, i, Repeat))
    [] next(toks, i, {"do"}) -> wrapped("do", readAll(toks, i, Do))
    [] next(toks, i, {"break", "continue"}) -> got(<<node(toks[i][2], <<>>)>>, i + 1)
    [] next(toks, i, {"if"}) -> wrapped("if", afterBranches(toks, readBranches(toks, i)))
    [] next(toks, i, {"for"}) /\ next(toks, i + 2, {"="}) -> wrapped("fornum", afterRange(toks, readAll(toks, i, ForNum)))
    [] next(toks, i, {"for"}) -> wrapped("forin", readAll(toks, i, ForIn))
    [] next(toks, i, {"return"}) ->
         wrapped("return", IF ends(toks, i + 1) THEN got(<<list(<<>>)>>, i + 1) ELSE read(toks, i + 1, R("exprs")))
    [] next(toks, i, {"local"}) /\ next(toks, i + 1, {"function"}) -> functionOf(toks, 1, readTarget(toks, i + 2))
    [] next(toks, i, {"local"}) -> wrapped("local", afterNames(toks, read(toks, i + 1, R("names"))))
    [] next(toks, i, {"function"}) -> functionOf(toks, 0, readTarget(toks, i + 1))
    [] OTHER -> afterTargets(toks, readSeparated(toks, i, "suffixed"))

afterStmt(toks, r) == IF r = Bad THEN Bad ELSE joined(r, readBlock(toks, r.next))
readBlock(toks, i) == IF ends(toks, i) THEN got(<<>>, i) ELSE afterStmt(toks, readStmt(toks, i))

read(toks, i, item) ==
  CASE item[1] = "keyword" -> IF next(toks, i, {item[2]}) THEN got(<<>>, i + 1) ELSE Bad
    [] item[2] = "expr" -> readExpr(toks, i, 0)
    [] item[2] = "suffixed" -> readSimple(toks, i)
    [] item[2] = "name" -> IF i \in DOMAIN toks /\ toks[i][1] = "identifier" THEN got(<<toks[i]>>, i + 1) ELSE Bad
    [] item[2] = "field" -> readField(toks, i)
    [] item[2] = "block" -> listed(readBlock(toks, i))
    [] item[2] = "parameters" -> readParameters(toks, i)
    [] item[2] = "exprs" -> listed(readSeparated(toks, i, "expr"))
    [] item[2] = "names" -> listed(readSeparated(toks, i, "name"))
    [] item[2] = "fields" -> listed(readSeparated(toks, i, "field"))

whole(toks, r) == IF r = Bad \/ r.next <= Len(toks) THEN null ELSE list(r.parts)

(* The block a chunk is, or null.                                          *)
Reading(toks) == whole(toks, readBlock(toks, 1))
================================================================================
