----------------------------- MODULE MCOutputChecks ----------------------------
(***************************************************************************)
(* What becomes of the output of an engine: its scores, over pairs of      *)
(* outputs of a 100-byte input on both sides of the thresholds; its static *)
(* check, over every source of up to MaxTokens tokens; its tokens, literals*)
(* and names, over texts made of a few pieces and programs of three        *)
(* statements; their layout, over programs of two; and the passes that     *)
(* clean it, over five texts: an engine's output, a cleaner one, a folded  *)
(* one that scores less, a truncated one and an unbalanced one.  A         *)
(* behaviour does one of these.                                            *)
(***************************************************************************)
EXTENDS Quality, MultiPass, Validate, Beautify

--------------------------------------------------------------------------------
(* The texts, as bytes, and the programs.                                  *)

RECURSIVE made(_, _)
made(pieces, n) ==
  IF n = 0 THEN {<<>>} ELSE {<<>>} \cup {s \o p : s \in made(pieces, n - 1), p \in pieces}

quoted(quote, bodies) == {<<quote>> \o s \o <<quote>> : s \in bodies}

(* `[` `=` `]` `[=[` `]=]` `--` CR LF, `a`                                 *)
Brackets ==
  made({<<91>>, <<61>>, <<93>>, <<91, 61, 91>>, <<93, 61, 93>>, <<45, 45>>, <<13, 10>>, <<97>>}, 4)

(* The quotes, `\`, LF, `5`, `n`, `\z`, `\x`, `\x41`, `\001`, `\200`,      *)
(* `\u{e9}`, `\u{41}`                                                      *)
Quotes ==
  made({<<34>>, <<39>>, <<92>>, <<10>>, <<53>>, <<110>>, <<92, 122>>, <<92, 120>>, <<92, 120, 52, 49>>, <<92, 48, 48, 49>>,
        <<92, 50, 48, 48>>, <<92, 117, 123, 101, 57, 125>>, <<92, 117, 123, 52, 49, 125>>}, 3)

(* `0x` `0b` `1` `.` `e` `p` `_` `+`                                       *)
Numbers == made({<<48, 120>>, <<48, 98>>, <<49>>, <<46>>, <<101>>, <<112>>, <<95>>, <<43>>}, 4)

(* `=` `<` `.` `~` `/` `:` `or`                                            *)
Symbols == made({<<61>>, <<60>>, <<46>>, <<126>>, <<47>>, <<58>>, <<111, 114>>}, 3)

MCLuaScripts == Brackets \cup quoted(34, Quotes) \cup quoted(39, Quotes) \cup Numbers \cup Symbols

--------------------------------------------------------------------------------
(* A statement has its tokens and the events in it, by its own tokens.     *)

id(n) == <<"identifier", n>>
op(t) == <<"op", t>>
key(t) == <<"keyword", t>>
stmt(toks, events) == [toks |-> toks, events |-> events]

shifted(events, by) == [k \in DOMAIN events |-> [events[k] EXCEPT ![2] = @ + by]]
then(s, t) == stmt(s.toks \o t.toks, s.events \o shifted(t.events, Len(s.toks)))

use(p) == <<"use", p>>
declare(p) == <<"declare", p>>
field(p) == <<"field", p>>
open == <<"open", 0>>
close == <<"close", 0>>

ab == <<"short", 1>>
v1 == <<"short", 2>>
IllI == <<"soup", 1>>
O0O0 == <<"soup", 2>>
print == <<"plain", 1>>
num1 == <<"num", 1>>
var1 == <<"var", 1>>
fn1 == <<"fn", 1>>

(* What a local may be given, as a statement that is completed later.      *)
Values(n) ==
  {stmt(<<<<"number", 5>>>>, <<>>), stmt(<<<<"string", IllI>>>>, <<>>), stmt(<<id(n)>>, <<use(1)>>),
   stmt(<<id(n), op("["), <<"number", 1>>, op("]")>>, <<use(1)>>), stmt(<<id(n), op("+"), id(n)>>, <<use(1), use(3)>>),
   stmt(<<op("{"), id(n), op("="), id(ab), op("}")>>, <<field(2), use(4)>>),
   stmt(<<key("function"), op("("), id(n), op(","), id(IllI), op(")"), key("return"), id(n), key("end")>>,
        <<open, declare(3), declare(5), use(8), close>>)}

local(n, value) ==
  stmt(<<key("local"), id(n), op("=")>> \o value.toks, Append(shifted(value.events, 3), declare(2)))

assign(n, value) == stmt(<<id(n), op("=")>> \o value.toks, Append(shifted(value.events, 2), use(1)))

(* Statements about two names.                                             *)
About(n, m) ==
  {stmt(<<key("local"), id(n), op(","), id(m)>>, <<declare(2), declare(4)>>),
   stmt(<<id(n), op("("), id(m), op(")")>>, <<use(1), use(3)>>),
   stmt(<<id(n), op("."), id(m), op("="), id(m)>>, <<use(1), field(3), use(5)>>),
   stmt(<<id(n), op(":"), id(m), op("("), op(")")>>, <<use(1), field(3)>>),
   stmt(<<key("do"), key("local"), id(n), key("end"), id(m), op("("), op(")")>>, <<open, declare(3), close, use(5)>>),
   stmt(<<key("repeat"), key("local"), id(n), key("until"), id(m)>>, <<open, declare(3), use(5), close>>),
   stmt(<<key("for"), id(n), op("="), id(m), op(","), id(n), key("do"), id(n), op("("), op(")"), key("end")>>,
        <<use(4), use(6), open, declare(2), use(8), close>>),
   stmt(<<key("local"), key("function"), id(n), op("("), id(m), op(")"), id(n), op("("), id(m), op(")"), key("end")>>,
        <<declare(3), open, declare(5), use(7), use(9), close>>),
   stmt(<<key("function"), id(n), op("."), id(m), op("("), id(m), op(")"), key("end")>>,
        <<use(2), field(4), open, declare(6), close>>)}

First ==
  {local(n, value) : n \in {ab, IllI}, value \in Values(v1)}
    \cup UNION {About(n, m) : n \in {ab, IllI}, m \in {O0O0, fn1}}

Second ==
  {local(v1, value) : value \in Values(ab)}
    \cup {assign(n, value) : n \in {print, IllI}, value \in Values(IllI)}
    \cup UNION {About(n, m) : n \in {ab, fn1}, m \in {IllI, num1, var1}}

Third == {stmt(<<id(n), op("("), id(m), op(")")>>, <<use(1), use(3)>>) : n \in {ab, num1}, m \in {O0O0, v1}}

MCNamed == {then(then(s, t), u) : s \in First, t \in Second, u \in Third}

--------------------------------------------------------------------------------
(* Tokens for the beautifier, and what they are nested in.                 *)

tok(kind, text) == <<[kind |-> kind, text |-> text, depth |-> 0, ifExpr |-> FALSE, newlines |-> 0]>>
broken(t, n) == <<[t[1] EXCEPT !.newlines = n]>>
word(t) == tok("keyword", t)
punct(t) == tok("punct", t)
x == tok("identifier", "x")
remark == tok("comment", "--")
long == tok("longstring", "[[l]]")

inside(s) == [k \in DOMAIN s |-> [s[k] EXCEPT !.depth = @ + 1]]
ofIf(s) == [k \in DOMAIN s |-> [s[k] EXCEPT !.ifExpr = TRUE]]
parens(s) == punct("(") \o inside(s) \o punct(")")
braces(s) == punct("{") \o inside(s) \o punct("}")
function(s) == word("function") \o inside(parens(x) \o s) \o word("end")
conditional(c, a_, b_) == ofIf(word("if")) \o c \o ofIf(word("then")) \o a_ \o ofIf(word("else")) \o b_

Atoms ==
  {x, tok("number", "1"), tok("number", "5."), tok("number", ".5"), tok("operator", "..."),
   tok("string", "s"), long}

Binary == {punct("-"), tok("operator", ".."), tok("operator", "=="), word("and")}

Simple ==
  {e \o o \o f : e \in Atoms, o \in Binary, f \in Atoms}
    \cup UNION {{punct("-") \o e, x \o parens(e), braces(e), x \o punct("[") \o e \o punct("]"),
                x \o parens(x \o punct(",") \o punct("-") \o e), x \o punct(".") \o x \o punct(":") \o x \o e} :
                 e \in Atoms}

choice == conditional(x, x, x)
Deep ==
  {x \o broken(long, 2), parens(broken(long, 3)) \o broken(remark, 4) \o x,
   choice, conditional(x, choice, x), conditional(choice, x, x), conditional(x, x, choice),
   punct("-") \o parens(punct("-") \o x), x \o punct("-") \o punct("-") \o x, x \o punct("+") \o choice, x \o word("and") \o choice,
   x \o parens(choice), braces(choice \o punct(",") \o x), x \o parens(function(remark \o x \o parens(x))),
   ofIf(word("if")) \o x \o ofIf(word("then")) \o x \o ofIf(word("elseif")) \o x \o ofIf(word("then")) \o x
     \o ofIf(word("else")) \o x,
   conditional(x, function(word("if") \o x \o word("then") \o word("else") \o word("end")), x), braces(braces(x))}

ifStatement(c, s, t) == word("if") \o c \o word("then") \o inside(s) \o t \o word("end")
otherwise(s) == word("else") \o inside(s)
also(c, s) == word("elseif") \o c \o word("then") \o inside(s)
loop(head, s) == head \o word("do") \o inside(s) \o word("end")

Given(e) ==
  {word("local") \o x \o punct("=") \o e, x \o parens(e) \o punct(";"),
   word("local") \o word("function") \o inside(x \o parens(x) \o word("return") \o e) \o word("end")}

Around(e, s) ==
  {ifStatement(e, s, otherwise(s)), ifStatement(e, s, also(x, s) \o otherwise(s)), loop(word("while") \o e, s),
   loop(word("for") \o x \o punct("=") \o e \o punct(",") \o x, s), loop(<<>>, s),
   word("repeat") \o inside(s) \o word("until") \o e, x \o punct("=") \o function(s \o word("return") \o e)}

Blocks == {<<>>, remark \o x \o parens(x)} \cup Given(choice) \cup Around(x, loop(<<>>, x \o parens(x)))

MCListings ==
  {s \o t : s \in UNION {Given(e) : e \in Simple \cup Deep} \cup UNION {Around(e, s) : e \in {x} \cup Deep, s \in Blocks},
            t \in {remark \o word("return") \o x, ifStatement(x, x \o parens(x), <<>>),
                  remark \o ifStatement(x, word("return") \o x, <<>>)}}

--------------------------------------------------------------------------------
(* One of the seven at work.                                               *)
CONSTANTS Rounds, lifted, cleaned, folded, truncated, unbalanced
VARIABLES script, place, lexemes, respelled, payloads,
          program, before, now, turn

X == INSTANCE Lexer WITH Scripts <- MCLuaScripts
N == INSTANCE Rename WITH Programs <- MCNamed

ASSUME TextAssumptions == N!RenameAssumption

MCTexts == {lifted, cleaned, folded, truncated, unbalanced, Empty}
MCscore == [t \in MCTexts |->
  CASE t = lifted -> 60 [] t = cleaned -> 75 [] t = folded -> 50 [] t = truncated -> 65
    [] t = unbalanced -> 70 [] OTHER -> 0]
MClength == [t \in MCTexts |->
  CASE t \in {lifted, unbalanced} -> 9 [] t = cleaned -> 6 [] t = folded -> 8
    [] t = truncated -> 3 [] OTHER -> 0]
MCtail == [t \in MCTexts |->
  IF t \in {lifted, cleaned, folded} THEN "return f()" ELSE IF t = Empty THEN "" ELSE "f("]

MCbalanced == {lifted, cleaned, folded, truncated, Empty}
MCvalid == {lifted, cleaned, truncated, Empty}
MCbig == {<<"fold", lifted, folded>>, <<"flatten", cleaned, folded>>, <<"fold", lifted, unbalanced>>}

profile(bytes, lines, functions, vm, cryptic, residue, errors) ==
  [bytes |-> bytes, inputBytes |-> 100, lines |-> lines,
   nonWhitespaceChars |-> bytes \div 2, functionCount |-> functions,
   stringLiterals |-> 8 * functions, longStrings |-> IF vm = 0 THEN 0 ELSE 4, comments |-> functions,
   suspiciousVmTokens |-> vm, residualMarkers |-> vm, hexEscapes |-> vm,
   crypticTenths |-> cryptic, residue |-> residue,
   balanced |-> errors < 2, syntaxErrors |-> errors]

MCProfiles ==
  {profile(bytes, lines, functions, vm, cryptic, residue, errors) :
     bytes \in {20, 70, 140, 200}, lines \in {1, 4}, functions \in {0, 1}, vm \in {0, 150},
     cryptic \in {0, 5}, residue \in {0, 100}, errors \in 0..3}

NothingToCheck ==
  source = <<>> /\ stack = <<>> /\ blockStack = <<>> /\ issues = <<>> /\ done = TRUE

NothingToScore == a = (CHOOSE p \in MCProfiles : TRUE) /\ b = a

NothingToClean ==
  /\ pc = "done" /\ pass = 1 /\ maxPasses = 0
  /\ base = [output |-> lifted, confidence |-> 50] /\ current = lifted /\ best = base

NothingToLex == script = <<>> /\ place = 1 /\ lexemes = <<>> /\ respelled = <<>> /\ payloads = <<>>

NothingToName == program = <<>> /\ before = <<>> /\ now = <<>> /\ turn = -1

NothingToPrint == tokens = <<>> /\ consumed = 0 /\ printer = [cur |-> <<>>, lines |-> <<>>, indent |-> 0] /\ out = <<>>

lexVars == <<script, place, lexemes, respelled, payloads>>
nameVars == <<program, before, now, turn>>

NothingToRead == NothingToLex /\ NothingToName /\ NothingToPrint
NothingElse == NothingToScore /\ NothingToCheck /\ NothingToClean

OutputChecksInit ==
  \/ ScoreInit /\ NothingToCheck /\ NothingToClean /\ NothingToRead
  \/ CheckInit /\ NothingToScore /\ NothingToClean /\ NothingToRead
  \/ Init /\ NothingToScore /\ NothingToCheck /\ NothingToRead
  \/ X!Init /\ NothingElse /\ NothingToName /\ NothingToPrint
  \/ N!Init /\ NothingElse /\ NothingToLex /\ NothingToPrint
  \/ BeautifyInit /\ NothingElse /\ NothingToLex /\ NothingToName

Check == CheckNext /\ UNCHANGED <<a, b, vars, lexVars, nameVars, beautifyVars>>
Clean == Next /\ UNCHANGED <<a, b, checkVars, lexVars, nameVars, beautifyVars>>
Lex == X!Next /\ UNCHANGED <<a, b, vars, checkVars, nameVars, beautifyVars>>
Name == N!Next /\ UNCHANGED <<a, b, vars, checkVars, lexVars, beautifyVars>>
Layout == BeautifyNext /\ UNCHANGED <<a, b, vars, checkVars, lexVars, nameVars>>

OutputChecksSpec ==
  /\ OutputChecksInit
  /\ [][Check \/ Clean \/ Lex \/ Name \/ Layout]_<<a, b, checkVars, vars, lexVars, nameVars, beautifyVars>>
  /\ WF_vars(Next)

(* The lexer finds the tokens that Lua reads, and literals that are        *)
(* respelled or decoded keep their values.                                 *)
LiteralsKeepValue == X!LiteralsKeepValue

(* Renaming leaves every name with the declaration it had.                 *)
RenamingKeepsBindings == N!RenamingKeepsBindings
================================================================================
