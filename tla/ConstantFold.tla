------------------------------ MODULE ConstantFold -----------------------------
(***************************************************************************)
(* foldConstants of src/passes/constant-fold.ts over the tokens of one     *)
(* expression.  A writer puts the expression together piece by piece; once *)
(* it is complete the passes rewrite it, each in one scan from left to     *)
(* right whose edits do not overlap.  The source is minified: an edit that *)
(* takes a bracket away may bring two minus signs together, which Lua      *)
(* reads as a comment.                                                     *)
(***************************************************************************)
EXTENDS ConstEval, SequencesExt

CONSTANTS Literals, Names, Operators, UnaryOps, Brackets, MaxPieces, maxPasses

FoldAssumption ==
  /\ UnaryOps \subseteq {"-", "#", "not"}
  /\ Brackets \subseteq {"(", "({", "f(", "iife"}
  /\ MaxPieces \in Nat /\ maxPasses \in Nat \ {0}

VARIABLES
  source,  \* what was written
  open,    \* the brackets still open, innermost first
  pieces,  \* how many pieces were written
  work,    \* what the passes have made of it
  before,  \* work at the start of this round
  pass, step

vars == <<source, open, pieces, work, before, pass, step>>

None == <<>>

isLiteral(t) == t[1] \in {"number", "string"}
isOp(toks, i, S) == i \in DOMAIN toks /\ toks[i] \in ops(S)

(* What a scan makes of the tokens i..to - 1.                              *)
keep(toks, i, to) == [out |-> SubSeq(toks, i, to - 1), to |-> to]
skip(toks, i) == keep(toks, i, i + 1)
edit(out, to) == [out |-> out, to |-> to]

endsValue(toks, i) ==
  i \in DOMAIN toks /\ (toks[i][1] # "op" \/ toks[i] \in ops({")", "]", "}"}))

(* With the bracket before it gone, a minus sign is read with the one      *)
(* before that.                                                            *)
comment == op("--")
unwrapped(toks, i, out, to) ==
  edit(IF isOp(toks, i - 1, {"-"}) /\ out[1] = op("-") THEN <<comment>> \o out ELSE out, to)

--------------------------------------------------------------------------------
(* The definitions named ...Fault are plausible slips in the definition    *)
(* after them and show what a property would notice.                      *)

(* foldConstEvalNoise: a bracketed expression, the call of a function      *)
(* literal, or a length.                                                   *)
wordLike(t) == t[1] = "identifier" \/ t \in ops({"and", "or", "not", "return", "function"})

isCallParen(toks, i) ==
  i > 1 /\ (wordLike(toks[i - 1]) \/ toks[i - 1][1] = "string" \/ isOp(toks, i - 1, {")", "]", "}"}))

noiseLength(toks, i, ev) ==
  IF (i + 1) \in DOMAIN toks /\ (toks[i + 1][1] = "string" \/ toks[i + 1] = op("{"))
     /\ ev # Fail /\ isScalar(ev.v)
  THEN edit(constToLua(ev.v), ev.next) ELSE skip(toks, i)

noiseCall(toks, i, ev) ==
  IF ev # Fail /\ isScalar(ev.v) THEN edit(constToLua(ev.v), ev.next) ELSE skip(toks, i)

noiseParen(toks, i, ev) ==
  LET last == ev.next + 1
      used == isOp(toks, last, {"(", "{", "["})
              \/ (last \in DOMAIN toks /\ toks[last][1] = "string")
  IN  IF ev # Fail /\ isScalar(ev.v) /\ isOp(toks, ev.next, {")"}) /\ ~used
      THEN edit(constToLua(ev.v), last) ELSE skip(toks, i)

noise(toks, i) ==
  CASE isOp(toks, i, {"("}) /\ ~isCallParen(toks, i) ->
         IF isOp(toks, i + 1, {"function"}) THEN noiseCall(toks, i, evalExprFromTokens(toks, i))
         ELSE noiseParen(toks, i, evalExprFromTokens(toks, i + 1))
    [] isOp(toks, i, {"#"}) -> noiseLength(toks, i, evalUnaryFromTokens(toks, i))
    [] OTHER -> skip(toks, i)

(* foldStringConcatLiterals: the longest chain of literals from here.      *)
concat(toks, i) ==
  LET chain == {k \in i..Len(toks) :
                  \A m \in i..k : IF (m - i) % 2 = 0 THEN toks[m][1] = "string"
                                  ELSE toks[m] = op("..")}
      to == Max({k \in chain : (k - i) % 2 = 0})
  IN  IF toks[i][1] # "string" \/ to = i THEN skip(toks, i)
      ELSE edit(<<string(FoldLeft(LAMBDA s, m : IF toks[m][1] = "string" THEN s \o toks[m][2] ELSE s,
                                  <<>>, [m \in 1..to - i + 1 |-> i + m - 1]))>>, to + 1)

(* foldArithmeticLiterals.                                                 *)
Tighter == {"+", "-", "*", "%", "^", "//", "not", "#"}
FoldOps == Tighter \cup {"..", "==", "~=", "<", "and", "or"}

startsFoldFault(toks, i) == isLiteral(toks[i]) \/ (isOp(toks, i, {"-"}) /\ ~endsValue(toks, i - 1)) \/ isOp(toks, i, {"#"})

startsFold(toks, i) ==
  \/ isLiteral(toks[i]) /\ ~isOp(toks, i - 1, Tighter)
  \/ isOp(toks, i, {"-"}) /\ ~endsValue(toks, i - 1)
  \/ isOp(toks, i, {"#"})

folded(toks, i, ev) ==
  CASE ev = Fail -> skip(toks, i)
    [] isScalar(ev.v) /\ (\E k \in i..ev.next - 1 : isOp(toks, k, FoldOps)) ->
         edit(constToLua(ev.v), ev.next)
    [] OTHER -> keep(toks, i, ev.next)

arithmeticLiterals(toks, i) ==
  IF startsFold(toks, i) THEN folded(toks, i, evalExprFromTokens(toks, i)) ELSE skip(toks, i)

(* foldParensAroundLiteral.                                                *)
parens(toks, i) ==
  LET at == IF isOp(toks, i + 1, {"-"}) THEN i + 2 ELSE i + 1
      single == at \in DOMAIN toks /\ isLiteral(toks[at]) /\ isOp(toks, at + 1, {")"})
      comments == isOp(toks, i - 1, {"-"}) /\ isOp(toks, i + 1, {"-"})
  IN  IF isOp(toks, i, {"("}) /\ single /\ ~isOp(toks, at + 2, {"^"})
         /\ ~endsValue(toks, i - 1) /\ ~comments
      THEN unwrapped(toks, i, SubSeq(toks, i + 1, at), at + 2) ELSE skip(toks, i)

(* foldSingleElementTableIndex: ({E})[1].                                  *)
tableIndex(toks, i) ==
  LET close == matching(toks, i + 1)
      indexed == /\ isOp(toks, i, {"("}) /\ isOp(toks, i + 1, {"{"}) /\ close > i + 2
                 /\ isOp(toks, close + 1, {")"}) /\ isOp(toks, close + 2, {"["})
                 /\ (close + 4) \in DOMAIN toks
                 /\ toks[close + 3] = number(1) /\ isOp(toks, close + 4, {"]"})
      comments == isOp(toks, i - 1, {"-"}) /\ isOp(toks, i + 2, {"-"})
  IN  IF indexed /\ ~endsValue(toks, i - 1) /\ ~comments
      THEN unwrapped(toks, i, SubSeq(toks, i + 2, close - 1), close + 5) ELSE skip(toks, i)

Passes == <<"noise", "concat", "arithmetic", "parens", "index">>

RECURSIVE rewrite(_, _, _), onward(_, _, _)

onward(s, toks, e) == e.out \o rewrite(s, toks, e.to)

rewrite(s, toks, i) ==
  IF i > Len(toks) THEN <<>>
  ELSE onward(s, toks, CASE s = "noise" -> noise(toks, i)
                         [] s = "concat" -> concat(toks, i)
                         [] s = "arithmetic" -> arithmeticLiterals(toks, i)
                         [] s = "parens" -> parens(toks, i)
                         [] OTHER -> tableIndex(toks, i))

--------------------------------------------------------------------------------
(* The writer.                                                             *)

operandDue == IF source = <<>> THEN TRUE ELSE ~endsOperand(source[Len(source)])

write(piece) == source' = source \o piece /\ pieces' = pieces + 1
writing == step = "write" /\ UNCHANGED <<work, before, pass, step>>
room(n) == pieces + Len(open) + n <= MaxPieces

WriteOperand ==
  /\ writing /\ operandDue /\ room(1)
  /\ \E t \in Literals \cup {<<"identifier", x>> : x \in Names} : write(<<t>>)
  /\ UNCHANGED open

WritePrefix ==
  /\ writing /\ operandDue /\ room(2)
  /\ \E o \in UnaryOps : write(<<op(o)>>)
  /\ UNCHANGED open

WriteOperator ==
  /\ writing /\ ~operandDue /\ room(2)
  /\ \E o \in Operators : write(<<op(o)>>)
  /\ UNCHANGED open

WriteOpen ==
  /\ writing /\ operandDue /\ room(3)
  /\ \E b \in Brackets :
       /\ write(CASE b = "(" -> <<op("(")>>
                  [] b = "({" -> <<op("("), op("{")>>
                  [] b = "f(" -> <<<<"identifier", "f">>, op("(")>>
                  [] OTHER -> <<op("("), op("function"), op("("), <<"identifier", "p">>, op(")"),
                                op("return")>>)
       /\ open' = <<b>> \o open

(* A bracket may be followed by the index, method or call that needs it.   *)
WriteClose ==
  /\ writing /\ ~operandDue /\ open # <<>>
  /\ \E tail \in CASE Head(open) = "(" ->
                        {<<op(")")>>, <<op(")"), op(":"), <<"identifier", "rep">>, op("("), number(2), op(")")>>}
                   [] Head(open) = "({" -> {<<op("}"), op(")"), op("["), number(1), op("]")>>}
                   [] Head(open) = "f(" -> {<<op(")")>>}
                   [] OTHER -> {<<op("end"), op(")"), op("("), t, op(")")>> : t \in Literals} :
       write(tail)
  /\ open' = Tail(open)

--------------------------------------------------------------------------------

Init ==
  /\ source = <<>> /\ open = <<>> /\ pieces = 0 /\ step = "write"
  /\ work = None /\ before = None /\ pass = 0

Start ==
  /\ step = "write" /\ open = <<>> /\ ~operandDue
  /\ step' = "noise" /\ work' = source /\ before' = source /\ pass' = 1
  /\ UNCHANGED <<source, open, pieces>>

fold(s, next) ==
  /\ step = s /\ step' = next
  /\ work' = rewrite(s, work, 1)
  /\ UNCHANGED <<source, open, pieces, before, pass>>

foldConstEvalNoise == fold("noise", "concat")
foldStringConcatLiterals == fold("concat", "arithmetic")
foldArithmeticLiterals == fold("arithmetic", "parens")
foldParensAroundLiteral == fold("parens", "index")
foldSingleElementTableIndex == fold("index", "round")

Round ==
  /\ step = "round"
  /\ IF work = before \/ pass = maxPasses
     THEN step' = "done" /\ UNCHANGED <<before, pass>>
     ELSE step' = "noise" /\ before' = work /\ pass' = pass + 1
  /\ UNCHANGED <<source, open, pieces, work>>

Done == step = "done" /\ UNCHANGED vars

Next ==
  \/ WriteOperand \/ WritePrefix \/ WriteOperator \/ WriteOpen \/ WriteClose \/ Start
  \/ foldConstEvalNoise \/ foldStringConcatLiterals \/ foldArithmeticLiterals
  \/ foldParensAroundLiteral \/ foldSingleElementTableIndex \/ Round \/ Done

Spec == Init /\ [][Next]_vars

--------------------------------------------------------------------------------

Environments ==
  {[y \in {"x", "f"} |-> IF y = "f" THEN <<"builtin">> ELSE v] : v \in {Nil, number(1)}}

(* An expression that raises may come to have a value.                     *)
KeepsMeaning ==
  \A env \in Environments : Meaning(source, env) \in {Error, Meaning(work, env)}

occurs(S) == {k \in DOMAIN source : source[k] \in ops(S)}
comparisons == occurs({"==", "~=", "<"})
signs == {k \in occurs({"-"}) : k = 1 \/ ~endsOperand(source[k - 1])}
unknowns ==
  occurs({"["}) \cup
  {k \in DOMAIN source : source[k][1] = "identifier" /\ source[k][2] \notin {"p", "rep"}}

(* Where folding is right: no bracket is missed by a power, a method or    *)
(* the operators around an element; comparisons are not chained; what is   *)
(* unknown meets no comparison, and, or or prefix; keywords do not meet    *)
(* and, or, comparisons and signs.                                         *)
plain ==
  LET logic == comparisons \cup occurs({"and", "or"})
      keywords == occurs({"true", "false", "nil", "not"})
  IN /\ \A k \in 2..Len(source) : source[k] \in ops({"^", ":"}) => source[k - 1] # op(")")
     /\ \A k \in occurs({"{"}) : source[k + 2] = op("}")
     /\ Cardinality(comparisons) <= 1
     /\ unknowns # {} => logic \cup signs \cup occurs({"not", "#"}) = {}
     /\ keywords # {} => logic \cup signs = {}

(* Whatever is folded, in whichever order and however often, a plain       *)
(* expression keeps the value Lua gives it.                                *)
FoldKeepsValue == step \in {"write", "noise"} \/ ~plain \/ KeepsMeaning

(* "The engine is idempotent": what it leaves, it would leave again, as    *)
(* long as tables are not nested deeper than it makes rounds.              *)
Idempotent ==
  step = "done" /\ Cardinality(occurs({"{"})) < maxPasses =>
    FoldLeft(LAMBDA toks, s : rewrite(s, toks, 1), work, Passes) = work
================================================================================
