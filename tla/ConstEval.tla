------------------------------- MODULE ConstEval -------------------------------
(***************************************************************************)
(* What Lua makes of an expression, the meaning that rewriting a source    *)
(* has to keep; and the evaluator of constant expressions of               *)
(* src/utils/const-eval.ts, which knows some of it.  A token is            *)
(* <<kind, text>> with kind "number", "string", "identifier" or "op"       *)
(* (punctuation, operators and keywords), without blanks and comments; a   *)
(* value is a tuple that begins with its type.                             *)
(***************************************************************************)
EXTENDS Integers, Sequences, FiniteSetsExt

(* A sequence of tokens that is no expression has the value Malformed, one *)
(* that would raise has Error.                                             *)
op(t) == <<"op", t>>
ops(S) == {op(t) : t \in S}

Error == <<"error">>
Malformed == <<"malformed">>
Nil == <<"nil">>
bool(b) == <<"boolean", b>>
number(n) == <<"number", n>>
string(s) == <<"string", s>>

truthy(v) == v # Nil /\ v # bool(FALSE)

floorDiv(a, b) == IF b > 0 THEN a \div b ELSE (-a) \div (-b)
(* Powers are the same function of doubles in Lua and JavaScript; what it  *)
(* is at negative exponents, a fraction, makes no difference here.         *)
power(a, b) == IF b < 0 THEN 0 ELSE a ^ b

RECURSIVE numeral(_)
numeral(n) ==
  IF n < 0 THEN <<"-">> \o numeral(-n)
  ELSE LET digit == <<"0", "1", "2", "3", "4", "5", "6", "7", "8", "9">>[(n % 10) + 1]
       IN  IF n < 10 THEN <<digit>> ELSE Append(numeral(n \div 10), digit)

text(v) == IF v[1] = "number" THEN numeral(v[2]) ELSE v[2]

arithmetic(o, a, b) ==
  IF a[1] # "number" \/ b[1] # "number" THEN Error
  ELSE LET m == a[2]  n == b[2]
       IN CASE o = "+" -> number(m + n)
            [] o = "-" -> number(m - n)
            [] o = "*" -> number(m * n)
            [] o = "^" -> number(power(m, n))
            [] o = "%" /\ n # 0 -> number(m - floorDiv(m, n) * n)
            [] o = "//" /\ n # 0 -> number(floorDiv(m, n))
            [] OTHER -> <<"nan">>

(* Strings are ordered by their lengths, which is enough for strings of    *)
(* one letter.                                                             *)
below(a, b) ==
  CASE a[1] = "number" /\ b[1] = "number" -> bool(a[2] < b[2])
    [] a[1] = "string" /\ b[1] = "string" -> bool(Len(a[2]) < Len(b[2]))
    [] OTHER -> Error

applied(o, a, b) ==
  CASE Malformed \in {a, b} -> Malformed
    [] o = "or" -> IF a = Error \/ truthy(a) THEN a ELSE b
    [] o = "and" -> IF a # Error /\ truthy(a) THEN b ELSE a
    [] Error \in {a, b} -> Error
    [] o = "==" -> bool(a = b)
    [] o = "~=" -> bool(a # b)
    [] o = "<" -> below(a, b)
    [] o = ".." -> IF {a[1], b[1]} \subseteq {"number", "string"}
                   THEN string(text(a) \o text(b)) ELSE Error
    [] OTHER -> arithmetic(o, a, b)

prefixed(o, v) ==
  CASE v \in {Malformed, Error} -> v
    [] o = "not" -> bool(~truthy(v))
    [] o = "-" -> IF v[1] = "number" THEN number(-v[2]) ELSE Error
    [] o = "#" /\ v[1] \in {"string", "table"} -> number(Len(v[2]))
    [] OTHER -> Error

--------------------------------------------------------------------------------

Openers == ops({"(", "{", "[", "function"})
Closers == ops({")", "}", "]", "end"})
endsOperand(t) == t[1] # "op" \/ t[2] \in {")", "}", "]", "end", "true", "false", "nil"}

depthAt(s, i, k) ==
  Cardinality({m \in i..k - 1 : s[m] \in Openers}) - Cardinality({m \in i..k : s[m] \in Closers})

(* The bracket that closes the one at i, or 0.                             *)
matching(s, i) ==
  LET closing == {k \in i + 1..Len(s) : s[k] \in Closers /\ depthAt(s, i, k) = 0}
  IN  IF closing = {} THEN 0 ELSE Min(closing)

(* By falling precedence upwards; concatenation and power associate to the *)
(* right.                                                                  *)
Precedences == <<{"or"}, {"and"}, {"==", "~=", "<"}, {".."}, {"+", "-"}, {"*", "%", "//"}>>

literal(t, env) ==
  CASE t[1] \in {"number", "string"} -> t
    [] t[1] = "identifier" -> IF t[2] \in DOMAIN env THEN env[t[2]] ELSE Nil
    [] t \in ops({"true", "false"}) -> bool(t = op("true"))
    [] t = op("nil") -> Nil
    [] OTHER -> Malformed

RECURSIVE meaning(_, _, _, _)

(* f(E), (E)[E], (E):len(), (E):rep(E), (E), {E} and function(p) return E  *)
(* end: what a bracket that ends the operand i..j has before it.           *)
suffixed(s, i, j, env) ==
  LET opening == {k \in i..j - 1 : s[k] \in Openers /\ matching(s, k) = j}
      k == Max(opening)
      callable == i < k /\ (s[i][1] = "identifier" \/ s[i] = op("("))
      inner == meaning(s, k + 1, j - 1, env)
      called == meaning(s, i, k - 1, env)
  IN CASE opening = {} -> Malformed
       [] s[j] = op(")") /\ k = i -> inner
       [] s[j] = op("}") /\ k = i ->
            IF inner \in {Malformed, Error} THEN inner ELSE <<"table", <<inner>>>>
       [] s[j] = op("end") /\ k = i /\ j > i + 5 ->
            IF meaning(s, i + 5, j - 1, env) = Malformed THEN Malformed
            ELSE <<"function", s[i + 2][2], i + 5, j - 1>>
       [] s[j] = op(")") /\ callable /\ k > i + 2 /\ s[k - 2] = op(":") ->
            LET self == meaning(s, i, k - 3, env)
            IN  CASE Malformed = self -> Malformed
                  [] s[k - 1][2] = "len" /\ j = k + 1 -> prefixed("#", self)
                  [] inner = Malformed -> Malformed
                  [] s[k - 1][2] = "rep" /\ self[1] = "string" /\ inner[1] = "number" ->
                       string(FoldSet(LAMBDA n, r : self[2] \o r, <<>>, 1..inner[2]))
                  [] OTHER -> Error
       [] s[j] = op(")") /\ callable ->
            CASE Malformed \in {called, inner} -> Malformed
              [] Error \in {called, inner} -> Error
              [] called[1] = "function" ->
                   meaning(s, called[3], called[4],
                           [y \in DOMAIN env \cup {called[2]} |->
                              IF y = called[2] THEN inner ELSE env[y]])
              [] called = <<"builtin">> -> <<"result", inner>>
              [] OTHER -> Error
       [] s[j] = op("]") /\ callable ->
            CASE Malformed \in {called, inner} -> Malformed
              [] called[1] = "table" /\ inner[1] = "number" ->
                   IF inner[2] \in DOMAIN called[2] THEN called[2][inner[2]] ELSE Nil
              [] OTHER -> Error
       [] OTHER -> Malformed

(* The meaning of the tokens i..j of s.                                    *)
meaning(s, i, j, env) ==
  LET at(S) == {k \in i + 1..j - 1 :
                  s[k] \in ops(S) /\ endsOperand(s[k - 1]) /\ depthAt(s, i, k) = 0}
      levels == {l \in DOMAIN Precedences : at(Precedences[l]) # {}}
      binary(k) == applied(s[k][2], meaning(s, i, k - 1, env), meaning(s, k + 1, j, env))
  IN CASE i > j -> Malformed
       [] levels # {} ->
            LET S == Precedences[Min(levels)]
            IN  binary(IF S = {".."} THEN Min(at(S)) ELSE Max(at(S)))
       [] s[i] \in ops({"not", "-", "#"}) -> prefixed(s[i][2], meaning(s, i + 1, j, env))
       [] at({"^"}) # {} -> binary(Min(at({"^"})))
       [] i = j -> literal(s[i], env)
       [] OTHER -> suffixed(s, i, j, env)

Meaning(s, env) == meaning(s, 1, Len(s), env)

--------------------------------------------------------------------------------
(* The evaluator.  A value it cannot know is <<"ident", e>>, with e        *)
(* standing for the text the code shows for it.  Functions have one        *)
(* parameter and tables positional elements; the budget of 400 tokens is   *)
(* out of reach of the bounds.                                             *)

unknown(e) == <<"ident", e>>

isTruthy(v) == v # Nil /\ v # bool(FALSE)

arith(a, b, o) ==
  IF a[1] = "number" /\ b[1] = "number" /\ ~(o \in {"%", "//"} /\ b[2] = 0)
  THEN number(CASE o = "+" -> a[2] + b[2]
                [] o = "-" -> a[2] - b[2]
                [] o = "*" -> a[2] * b[2]
                [] o = "%" -> a[2] - floorDiv(a[2], b[2]) * b[2]
                [] o = "//" -> floorDiv(a[2], b[2])
                [] OTHER -> power(a[2], b[2]))
  ELSE unknown(<<o, a, b>>)

compareValues(a, b, o) ==
  LET eq == a[1] = b[1] /\ a[1] \in {"nil", "boolean", "number", "string", "ident"} /\ a = b
  IN CASE o = "==" -> bool(eq)
       [] o = "~=" -> bool(~eq)
       [] a[1] = b[1] /\ a[1] \in {"number", "string"} -> below(a, b)
       [] OTHER -> unknown(<<o, a, b>>)

concatValues(a, b) ==
  IF {a[1], b[1]} \subseteq {"number", "string"}
  THEN string(text(a) \o text(b)) ELSE unknown(<<"..", a, b>>)

combine(level, o, a, b) ==
  CASE level = 1 -> IF isTruthy(a) THEN a ELSE b
    [] level = 2 -> IF isTruthy(a) THEN b ELSE a
    [] level = 3 -> compareValues(a, b, o)
    [] level = 4 -> concatValues(a, b)
    [] OTHER -> arith(a, b, o)

--------------------------------------------------------------------------------
(* The parser.  A result is the value and the index of the next token; a   *)
(* ParseError is Fail.                                                     *)

Fail == [v |-> <<"fail">>, next |-> 0]
result(v, next) == [v |-> v, next |-> next]

check(toks, i, S) == i \in DOMAIN toks /\ toks[i] \in ops(S)

(* r is the result of what was read last, and f what follows it.           *)
andThen(r, f) == IF r = Fail THEN Fail ELSE f

Unary == Len(Precedences) + 1

RECURSIVE parse(_, _, _, _), loop(_, _, _, _), parseUnary(_, _, _), suffixes(_, _, _)

parseExpression(toks, env, i) == parse(toks, env, 1, i)

(* parseOr, parseAnd, parseCmp, parseConcat, parseAdd and parseMul: a      *)
(* comparison is not repeated, the others go on with their result.         *)
parse(toks, env, level, i) ==
  IF level = Unary THEN parseUnary(toks, env, i)
  ELSE loop(toks, env, level, parse(toks, env, level + 1, i))

joined(toks, level, left, right) ==
  andThen(right, result(combine(level, toks[left.next][2], left.v, right.v), right.next))

loop(toks, env, level, left) ==
  CASE left = Fail \/ ~check(toks, left.next, Precedences[level]) -> left
    [] level = 3 -> joined(toks, level, left, parse(toks, env, level + 1, left.next + 1))
    [] OTHER -> loop(toks, env, level, joined(toks, level, left, parse(toks, env, level + 1, left.next + 1)))

negated(v) == IF v[1] = "number" THEN number(-v[2]) ELSE unknown(<<"-", v>>)

lengthOf(v) == IF v[1] \in {"string", "table"} THEN number(Len(v[2])) ELSE unknown(<<"#", v>>)

functionOf(toks, i, body) ==
  IF check(toks, i + 3, {")"}) /\ check(toks, i + 4, {"return"})
     /\ body # Fail /\ check(toks, body.next, {"end"})
  THEN result(<<"func", toks[i + 2][2], i + 5>>, body.next + 1) ELSE Fail

parseFunctionLiteral(toks, env, i) == functionOf(toks, i, parseExpression(toks, env, i + 5))

(* One element and no more, or none.                                       *)
tableOf(toks, element) ==
  IF element # Fail /\ check(toks, element.next, {"}"})
  THEN result(<<"table", <<element.v>>>>, element.next + 1) ELSE Fail

parseTable(toks, env, i) ==
  IF check(toks, i, {"}"}) THEN result(<<"table", <<>>>>, i + 1)
  ELSE tableOf(toks, parseExpression(toks, env, i))

bracketed(toks, inner) ==
  IF inner # Fail /\ check(toks, inner.next, {")"}) THEN result(inner.v, inner.next + 1) ELSE Fail

primary(toks, env, i, t) ==
  CASE t[1] \in {"number", "string"} -> result(t, i + 1)
    [] t \in ops({"nil", "true", "false"}) -> result(literal(t, <<>>), i + 1)
    [] t[1] = "identifier" ->
         result(IF t[2] \in DOMAIN env THEN env[t[2]] ELSE unknown(<<t[2]>>), i + 1)
    [] t = op("function") -> parseFunctionLiteral(toks, env, i)
    [] t = op("(") -> bracketed(toks, IF check(toks, i + 1, {"function"})
                                      THEN parseFunctionLiteral(toks, env, i + 1)
                                      ELSE parseExpression(toks, env, i + 1))
    [] t = op("{") -> parseTable(toks, env, i + 1)
    [] OTHER -> Fail

parsePrimary(toks, env, i) == IF i \in DOMAIN toks THEN primary(toks, env, i, toks[i]) ELSE Fail

raised(base, exponent) == andThen(exponent, result(arith(base.v, exponent.v, "^"), exponent.next))

powered(toks, env, base) ==
  IF base # Fail /\ check(toks, base.next, {"^"})
  THEN raised(base, parseUnary(toks, env, base.next + 1)) ELSE base

parsePow(toks, env, i) == suffixes(toks, env, powered(toks, env, parsePrimary(toks, env, i)))

signed(o, operand) ==
  andThen(operand, result(CASE o = "-" -> negated(operand.v)
                            [] o = "#" -> lengthOf(operand.v)
                            [] OTHER -> bool(~isTruthy(operand.v)), operand.next))

parseUnary(toks, env, i) ==
  IF check(toks, i, {"-", "#", "not"}) THEN signed(toks[i][2], parseUnary(toks, env, i + 1))
  ELSE parsePow(toks, env, i)

stringMethod(self, name, arg) ==
  CASE self[1] = "string" /\ name = "len" /\ arg = Nil -> number(Len(self[2]))
    [] self[1] = "string" /\ name = "rep" /\ arg[1] = "number" ->
         string(FoldSet(LAMBDA n, r : self[2] \o r, <<>>, 1..arg[2]))
    [] OTHER -> Fail.v

(* The calls of a function value, then the methods of a string.            *)
bound(toks, env, f, arg) ==
  parseExpression(toks, [y \in DOMAIN env \cup {f[2]} |-> IF y = f[2] THEN arg.v ELSE env[y]], f[3])

argument(toks, env, i) ==
  IF check(toks, i, {")"}) THEN result(Nil, i) ELSE parseExpression(toks, env, i)

appliedTo(toks, env, base, arg) ==
  IF base.v[1] = "func" THEN bound(toks, env, base.v, arg).v
  ELSE stringMethod(base.v, toks[base.next + 1][2], arg.v)

after(toks, env, arg, value) ==
  IF value = Fail.v THEN Fail ELSE suffixes(toks, env, result(value, arg.next + 1))

called(toks, env, base, arg) ==
  IF arg = Fail \/ ~check(toks, arg.next, {")"}) THEN Fail
  ELSE after(toks, env, arg, appliedTo(toks, env, base, arg))

suffixes(toks, env, base) ==
  CASE base = Fail -> Fail
    [] base.v[1] = "func" /\ check(toks, base.next, {"("}) ->
         called(toks, env, base, argument(toks, env, base.next + 1))
    [] check(toks, base.next, {":"}) -> called(toks, env, base, argument(toks, env, base.next + 3))
    [] OTHER -> base

evalExprFromTokens(toks, i) == parseExpression(toks, <<>>, i)
evalUnaryFromTokens(toks, i) == parseUnary(toks, <<>>, i)

isScalar(v) == v[1] \in {"boolean", "number", "string"}

(* The literal for a scalar, as tokens.                                    *)
constToLua(v) ==
  CASE v[1] = "boolean" -> <<op(IF v[2] THEN "true" ELSE "false")>>
    [] v[1] = "number" /\ v[2] < 0 -> <<op("-"), number(-v[2])>>
    [] OTHER -> <<v>>
================================================================================
