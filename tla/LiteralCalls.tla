------------------------------- MODULE LiteralCalls ------------------------------
(***************************************************************************)
(* Calls of library functions with literal arguments: string.*, tonumber,  *)
(* tostring and bit32.* of src/passes/constant-fold.ts, and the methods of *)
(* a string of src/utils/const-eval.ts.  A string is the sequence of its   *)
(* bytes; bit32 has Width bits.  An argument is <<kind, value>>: a literal *)
(* of kind "string", "number", "boolean" or "nil", a number too "huge" for *)
(* a double, a string followed by something ("partial"), or another        *)
(* expression ("other") that stands for the value it will have.            *)
(***************************************************************************)
EXTENDS Integers, SequencesExt, Bitwise

CONSTANTS Calls, Width

CallsAssumption == Width \in Nat \ {0}

VARIABLES call, result

vars == <<call, result>>

Keep == <<"keep">>       \* null or undefined: the call stays
Raises == <<"raises">>
Nil == <<"nil">>
Undefined == <<"undefined">>
str(s) == <<"string", s>>
num(n) == <<"number", n>>
isNum(v) == v[1] = "number"
isStr(v) == v[1] = "string"

clamp(n, low, high) == Max({low, Min({n, high})})
digit == 48
percent == 37
decimal(n) ==
  LET d[k \in 0..999] == IF k < 10 THEN <<digit + k>> ELSE Append(d[k \div 10], digit + (k % 10))
  IN  IF n < 0 THEN <<45>> \o d[-n] ELSE d[n]

--------------------------------------------------------------------------------
(* argToValue: the first token of a string is taken for all of it.         *)
argToValue(a) ==
  CASE a[1] \in {"string", "partial"} -> str(a[2])
    [] a[1] = "other" -> Undefined
    [] a[1] = "huge" -> Nil
    [] OTHER -> a

(* Case mapping is that of Unicode: a sharp s (223) has a capital of two   *)
(* letters, and an accented capital (192) a small letter.                  *)
toUpperCase(c) == CASE c = 97 -> <<65>> [] c = 223 -> <<83, 83>> [] OTHER -> <<c>>
toLowerCase(c) == CASE c = 65 -> <<97>> [] c = 192 -> <<224>> [] OTHER -> <<c>>
mapped(f(_), s) == FlattenSeq([k \in DOMAIN s |-> f(s[k])])
rep(s, n) == [k \in 1..n * Len(s) |-> s[((k - 1) % Len(s)) + 1]]

isDigit(c) == c \in digit..digit + 9

(* luaFormat: flags, width and precision are read past.                    *)
luaFormatFault(fmt, args) == str(fmt)
luaFormat(fmt, args) ==
  LET f[i \in 1..Len(fmt) + 1, ai \in 1..Len(args) + 1] ==
        LET past == CHOOSE k \in i + 1..Len(fmt) + 1 :
                      (k > Len(fmt) \/ ~isDigit(fmt[k])) /\ \A m \in i + 1..k - 1 : isDigit(fmt[m])
            shown == IF ai > Len(args) \/ past > Len(fmt) THEN Keep
                     ELSE CASE fmt[past] = 115 /\ isStr(args[ai]) -> args[ai]
                            [] fmt[past] \in {100, 115} /\ isNum(args[ai]) -> str(decimal(args[ai][2]))
                            [] OTHER -> Keep
            rest == f[past + 1, ai + 1]
        IN CASE i > Len(fmt) -> str(<<>>)
             [] fmt[i] # percent -> LET r == f[i + 1, ai] IN IF r = Keep THEN Keep ELSE str(<<fmt[i]>> \o r[2])
             [] i < Len(fmt) /\ fmt[i + 1] = percent ->
                  LET r == f[i + 2, ai] IN IF r = Keep THEN Keep ELSE str(<<percent>> \o r[2])
             [] OTHER -> IF shown = Keep THEN Keep ELSE IF rest = Keep THEN Keep ELSE str(shown[2] \o rest[2])
  IN  f[1, 1]

tryFoldStringCall(method, vals) ==
  LET n == Len(vals)
      s == IF n > 0 THEN vals[1] ELSE Undefined
      given(k, default) == IF k <= n /\ isNum(vals[k]) THEN vals[k][2] ELSE default
      byte == LET from == clamp(given(2, 1) - 1, 0, Len(s[2]))
                  to == clamp(given(3, given(2, 1)), 0, Len(s[2]))
              IN  IF to = from + 1 THEN num(s[2][to]) ELSE Keep
      sub == LET len == Len(s[2])
                 i == vals[2][2]
                 j == given(3, -1)
             IN  str(SubSeq(s[2], Max({1, IF i < 0 THEN len + i + 1 ELSE i}),
                                  Min({len, IF j < 0 THEN len + j + 1 ELSE j})))
  IN CASE method = "char" -> IF n > 0 /\ (\A k \in 1..n : isNum(vals[k]) /\ vals[k][2] \in 0..255)
                             THEN str([k \in 1..n |-> vals[k][2]]) ELSE Keep
       [] ~isStr(s) -> Keep
       [] method = "byte" -> IF s[2] = <<>> THEN Keep ELSE byte
       [] method = "sub" -> IF n >= 2 /\ isNum(vals[2]) THEN sub ELSE Keep
       [] method = "rep" -> IF n >= 2 /\ isNum(vals[2]) /\ vals[2][2] >= 0
                            THEN str(rep(s[2], vals[2][2])) ELSE Keep
       [] method = "reverse" -> str(Reverse(s[2]))
       [] method = "lower" -> str(mapped(toLowerCase, s[2]))
       [] method = "upper" -> str(mapped(toUpperCase, s[2]))
       [] OTHER -> luaFormat(s[2], Tail(vals))

(* parseInt stops at the first character that is no digit of the base.     *)
digitValue(c) == IF isDigit(c) THEN c - digit ELSE IF c \in 97..102 THEN c - 87 ELSE 99
toInt(s, base) ==
  LET v[k \in 0..Len(s)] == IF k = 0 THEN 0 ELSE v[k - 1] * base + digitValue(s[k]) IN v[Len(s)]
parseInt(s, base) ==
  LET good == {k \in 0..Len(s) : \A m \in 1..k : digitValue(s[m]) < base}
  IN  IF Max(good) = 0 THEN Keep ELSE num(toInt(SubSeq(s, 1, Max(good)), base))

(* An argument of more than one token is left alone.                       *)
tryFoldConv(fn, args) ==
  LET v == argToValue(args[1])
      base == IF Len(args) > 1 /\ args[2][1] = "number" THEN args[2][2] ELSE 10
      digits == \A k \in DOMAIN v[2] : digitValue(v[2][k]) < (IF base = 10 THEN 10 ELSE 16)
  IN CASE args = <<>> -> Keep
       [] \E k \in DOMAIN args : args[k][1] = "partial" \/ (args[k][1] = "number" /\ args[k][2] < 0) -> Keep
       [] fn = "tonumber" -> CASE isNum(v) -> v
                               [] isStr(v) -> IF base \in 2..36 /\ v[2] # <<>> /\ digits
                                              THEN parseInt(v[2], base) ELSE Keep
                               [] OTHER -> Keep
       [] OTHER -> CASE isNum(v) -> str(decimal(v[2]))
                     [] v = Nil -> str(<<"nil">>)
                     [] isStr(v) -> v
                     [] v[1] = "boolean" -> str(<<v[2]>>)
                     [] OTHER -> Keep

Size == 2^Width
signed(n) == IF n >= Size \div 2 THEN n - Size ELSE n
rightBy(n, s) == n \div 2^s    \* towards minus infinity

tryFoldBit(method, vals) ==
  LET n(k) == vals[k][2] % Size
      s == vals[2][2] % Width
      two == Len(vals) = 2
  IN CASE \E k \in DOMAIN vals : ~isNum(vals[k]) -> Keep
       [] method \in {"band", "bor", "bxor"} ->
            IF Len(vals) < 2 THEN Keep
            ELSE num(FoldLeft(LAMBDA a, v : CASE method = "band" -> a & (v[2] % Size)
                                              [] method = "bor" -> a | (v[2] % Size)
                                              [] OTHER -> a ^^ (v[2] % Size), n(1), Tail(vals)))
       [] method = "bnot" -> IF Len(vals) = 1 THEN num(Size - 1 - n(1)) ELSE Keep
       [] method = "lshift" -> IF two THEN num((n(1) * 2^s) % Size) ELSE Keep
       [] method = "rshift" -> IF two THEN num(rightBy(n(1), s)) ELSE Keep
       [] OTHER -> IF two THEN num(rightBy(signed(n(1)), s)) ELSE Keep

(* ('ab'):name(...) in a constant expression, on values that are known.    *)
stringMethod(s, name, vals) ==
  LET n(k, default) == IF k <= Len(vals) THEN vals[k][2] ELSE default
      len == Len(s)
      i == n(1, 1)
      j == n(2, len)
      at(pat, k) == k + Len(pat) - 1 <= len /\ SubSeq(s, k, k + Len(pat) - 1) = pat
      found == {k \in Max({1, n(2, 1)})..len + 1 : at(vals[1][2], k)}
  IN CASE name = "find" -> IF Len(vals) = 0 \/ ~isStr(vals[1]) \/ (Len(vals) > 1 /\ ~isNum(vals[2])) THEN Keep
                           ELSE IF found = {} THEN Nil ELSE num(Min(found))
       [] \E k \in DOMAIN vals : ~isNum(vals[k]) -> Keep
       [] name = "len" -> num(len)
       [] name = "lower" -> str(mapped(toLowerCase, s))
       [] name = "upper" -> str(mapped(toUpperCase, s))
       [] name = "reverse" -> str(Reverse(s))
       [] name = "rep" -> str(rep(s, Max({0, i})))
       [] name = "byte" -> IF i \in 1..len THEN num(s[i]) ELSE Nil
       [] OTHER -> str(SubSeq(s, CASE i < 0 -> Max({len + i + 1, 1}) [] i = 0 -> 1 [] OTHER -> i,
                                 CASE j < 0 -> len + j + 1 [] j > len -> len [] OTHER -> j))

--------------------------------------------------------------------------------

Init == call \in Calls /\ result = <<>>

foldCalls(library, outcome) == result = <<>> /\ call.library = library /\ result' = outcome /\ UNCHANGED call

values == [k \in DOMAIN call.args |-> argToValue(call.args[k])]

foldStringLibraryCalls == foldCalls("string", tryFoldStringCall(call.name, values))
foldNumberStringConv == foldCalls("global", tryFoldConv(call.name, call.args))
foldBitCalls == foldCalls("bit32", tryFoldBit(call.name, values))

(* The receiver is the first argument; the evaluator gives up on an        *)
(* argument it does not know.                                              *)
foldMethod ==
  foldCalls("method", stringMethod(call.args[1][2], call.name, Tail(values)))

Done == result # <<>> /\ UNCHANGED vars

Next == foldStringLibraryCalls \/ foldNumberStringConv \/ foldBitCalls \/ foldMethod \/ Done

Spec == Init /\ [][Next]_vars

--------------------------------------------------------------------------------
(* What Luau's libraries answer: the reference manual, not this program.   *)

LuaPosition(n, len) == IF n >= 0 THEN n ELSE IF -n > len THEN 0 ELSE len + n + 1

(* Formats are texts without a conversion, %d, and %d with a width.        *)
LuaFormat(fmt, args) ==
  LET width == IF Len(fmt) = 3 THEN fmt[2] - digit ELSE 0
      digits == decimal(args[1][2])
  IN CASE percent \notin Range(fmt) -> str(fmt)
       [] args = <<>> -> Raises
       [] ~isNum(args[1]) -> Raises
       [] OTHER -> str(rep(<<32>>, Max({0, width - Len(digits)})) \o digits)

LuaFind(s, pat, init) ==
  LET from == Max({1, LuaPosition(init, Len(s))})
      at(k) == k + Len(pat) - 1 <= Len(s) /\ \A m \in DOMAIN pat : pat[m] \in {46, s[k + m - 1]}
      found == {k \in from..Len(s) + 1 : at(k)}
  IN  IF found = {} THEN Nil ELSE num(Min(found))

LuaString(name, a) ==
  LET s == a[1][2]
      len == Len(s)
      int(k, default) == IF k > Len(a) \/ a[k] = Nil THEN default ELSE a[k][2]
      bad(K) == \E k \in K : k <= Len(a) /\ a[k][1] \notin {"number", "nil"}
      sub(i, j) == SubSeq(s, Max({1, LuaPosition(i, len)}), Min({len, LuaPosition(j, len)}))
      bytes == sub(int(2, 1), int(3, IF LuaPosition(int(2, 1), len) = 0 THEN 0 ELSE int(2, 1)))
  IN CASE name = "char" -> IF \A k \in DOMAIN a : isNum(a[k]) /\ a[k][2] \in 0..255
                           THEN str([k \in DOMAIN a |-> a[k][2]]) ELSE Raises
       [] a = <<>> -> Raises
       [] ~isStr(a[1]) -> Raises
       [] name = "find" -> IF Len(a) = 1 THEN Raises
                           ELSE IF ~isStr(a[2]) \/ bad({3}) THEN Raises ELSE LuaFind(s, a[2][2], int(3, 1))
       [] name = "format" -> LuaFormat(s, Tail(a))
       [] bad({2, 3}) -> Raises
       [] name = "len" -> num(len)
       [] name = "byte" -> IF Len(bytes) = 1 THEN num(bytes[1]) ELSE Nil
       [] name = "sub" -> IF Len(a) = 1 THEN Raises ELSE str(sub(int(2, 1), int(3, -1)))
       [] name = "rep" -> IF Len(a) = 1 THEN Raises ELSE str(rep(s, Max({0, int(2, 0)})))
       [] name = "reverse" -> str(Reverse(s))
       [] name = "lower" -> str([k \in 1..len |-> IF s[k] = 65 THEN 97 ELSE s[k]])
       [] OTHER -> str([k \in 1..len |-> IF s[k] = 97 THEN 65 ELSE s[k]])

LuaConv(name, a) ==
  LET s == IF isNum(a[1]) THEN decimal(a[1][2]) ELSE a[1][2]
      base == IF Len(a) > 1 /\ isNum(a[2]) THEN a[2][2] ELSE 10
      digits == s # <<>> /\ \A k \in DOMAIN s : digitValue(s[k]) < base
  IN CASE a = <<>> -> Raises
       [] name = "tonumber" ->
            IF a[1][1] \in {"string", "number"} /\ base \in 2..36
            THEN IF digits THEN num(toInt(s, base)) ELSE IF isNum(a[1]) /\ base = 10 THEN a[1] ELSE Nil
            ELSE IF base \in 2..36 THEN Nil ELSE Raises
       [] isNum(a[1]) -> str(decimal(a[1][2]))
       [] a[1][1] = "huge" -> str(<<"inf">>)
       [] isStr(a[1]) -> a[1]
       [] a[1] = Nil -> str(<<"nil">>)
       [] OTHER -> str(<<a[1][2]>>)

bitsOf(n) == {k \in 0..Width - 1 : ((n % Size) \div 2^k) % 2 = 1}
ofBits(B) == num(FoldSet(LAMBDA k, n : 2^k + n, 0, B))

LuaBit(name, a) ==
  LET n(k) == a[k][2] % Size
      having(k) == {m \in DOMAIN a : k \in bitsOf(a[m][2])}
      among(S) == ofBits({k \in 0..Width - 1 : Cardinality(having(k)) \in S})
      shift(k) == CASE k >= Width \/ -k >= Width -> 0
                    [] k >= 0 -> (n(1) * 2^k) % Size
                    [] OTHER -> rightBy(n(1), -k)
      arithmetic(k) == IF k < 0 THEN shift(-k) ELSE rightBy(signed(n(1)), Min({k, Width})) % Size
  IN CASE a = <<>> \/ \E k \in DOMAIN a : ~isNum(a[k]) -> Raises
       [] name \in {"lshift", "rshift", "arshift"} ->
            IF Len(a) < 2 THEN Raises
            ELSE num(CASE name = "lshift" -> shift(a[2][2]) [] name = "rshift" -> shift(-a[2][2])
                       [] OTHER -> arithmetic(a[2][2]))
       [] name = "band" -> among({Len(a)})
       [] name = "bor" -> among(1..Len(a))
       [] name = "bxor" -> among({k \in 1..Len(a) : k % 2 = 1})
       [] OTHER -> ofBits((0..Width - 1) \ bitsOf(a[1][2]))

(* What an argument is when the program runs.                              *)
actual(a) == CASE a[1] = "partial" -> str(a[2] \o <<97>>) [] a[1] = "other" -> a[2] [] OTHER -> a

Lua ==
  LET a == [k \in DOMAIN call.args |-> actual(call.args[k])]
  IN CASE call.library \in {"string", "method"} -> LuaString(call.name, a)
       [] call.library = "global" -> LuaConv(call.name, a)
       [] OTHER -> LuaBit(call.name, a)

(* A call is only replaced by what Lua would answer.  A call that raises   *)
(* may come to have a value.                                               *)
CallsKeepMeaning == result \in {<<>>, Keep} \/ Lua \in {Raises, result}

(* Where folding is right: every argument is one literal, or an expression *)
(* where one is required; indices, shifts and digits are in range, letters *)
(* are ASCII, conversions have no width and patterns no magic.             *)
plainCall ==
  LET a == call.args
      name == call.name
      number(k, S) == k <= Len(a) /\ isNum(a[k]) => a[k][2] \in S
      optional == name \in {"byte", "sub", "tonumber"}
      first == IF a # <<>> /\ isStr(a[1]) THEN a[1][2] ELSE <<>>
      bytes == Range(first)
  IN /\ \A k \in DOMAIN a : a[k][1] \notin {"partial", "huge"}
                             /\ ~(a[k][1] = "other" /\ k > 1 /\ optional)
     /\ name = "byte" => /\ \A k \in {2, 3} : number(k, Nat \ {0})
                         /\ call.library = "method" => Len(a) <= 2
     /\ name \in {"lower", "upper"} => bytes \subseteq 0..127
     /\ name = "format" => \A k \in 2..Len(first) : isDigit(first[k]) => first[k - 1] # percent
     /\ name \in {"lshift", "rshift", "arshift"} => number(2, 0..Width - 1)
     /\ name = "arshift" => number(1, 0..Size \div 2 - 1)
     /\ name = "tonumber" /\ Len(a) > 1 =>
          /\ ~isNum(a[1])
          /\ isNum(a[2]) => \A c \in bytes : digitValue(c) < a[2][2]
     /\ name = "find" => number(3, Nat) /\ (Len(a) > 1 /\ isStr(a[2]) => 46 \notin Range(a[2][2]))

CallsExact == plainCall => CallsKeepMeaning
================================================================================
