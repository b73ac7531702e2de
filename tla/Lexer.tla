---------------------------------- MODULE Lexer ----------------------------------
(***************************************************************************)
(* The lexer of src/utils/lua-utils.ts, on which every pass over a text is *)
(* built, and the two ways in which the escapes of its string literals are *)
(* decoded: in place, by unescapeStringLiterals, and for the table of an   *)
(* engine (wearedevs), whose entries a regular expression finds, by        *)
(* decodeLuaEscapes.  A text is a sequence of bytes.  A token goes from    *)
(* start to before end; value is that of a string.                         *)
(*                                                                         *)
(* The first part says how Lua reads a text: the longest name, number,     *)
(* string, comment, run of blanks or symbol at each place, or not at all.  *)
(* The syntax is that of Lua 5.3 with the numbers and assignments of Luau  *)
(* and those of shifts, but for `//=` and `->`, which the lexer cuts in    *)
(* two.                                                                    *)
(***************************************************************************)
EXTENDS Integers, SequencesExt

CONSTANTS Scripts   \* the texts

VARIABLES
  script,
  place,      \* where the next token begins
  lexemes,    \* the tokens so far
  respelled,  \* the text with its literals respelled
  payloads    \* the entries of the text as a table of strings, decoded

vars == <<script, place, lexemes, respelled, payloads>>

NotYet == <<-1>>

--------------------------------------------------------------------------------
Byte == 0..255
NoByte == -1
LF == 10
CR == 13
QUOTE == 34
APOSTROPHE == 39
DASH == 45
DOT == 46
ZERO == 48
EQUAL == 61
OPEN == 91
BACKSLASH == 92
CLOSE == 93
UNDERSCORE == 95
LBRACE == 123
BRACE == 125

Digit == 48..57
Letter == 65..90 \cup 97..122 \cup {UNDERSCORE}
Hex == Digit \cup 65..70 \cup 97..102
Space == 9..13 \cup {32}
Sign == {43, DASH}

Symbols ==
  {<<c>> : c \in {43, DASH, 42, 47, 37, 94, 35, 38, 126, 124, 60, 62, EQUAL, 40, 41, LBRACE, BRACE, OPEN, CLOSE,
                  59, 58, 44, DOT}}
  \cup {<<c, EQUAL>> : c \in {EQUAL, 126, 60, 62, 43, DASH, 42, 47, 37, 94}}
  \cup {<<c, c>> : c \in {60, 62, 47, 58, DOT}}
  \cup {<<DOT, DOT, DOT>>, <<DOT, DOT, EQUAL>>, <<60, 60, EQUAL>>, <<62, 62, EQUAL>>}

at(s, i) == IF i \in DOMAIN s THEN s[i] ELSE NoByte
starts(s, i, t) == \A k \in DOMAIN t : at(s, i + k - 1) = t[k]

(* The first place from i on with another byte than those of a class.      *)
after(s, i, class) ==
  CHOOSE j \in i..Len(s) + 1 : at(s, j) \notin class /\ \A k \in i..j - 1 : s[k] \in class

digit(c) == IF c \in Digit THEN c - 48 ELSE IF c < 97 THEN c - 55 ELSE c - 87
number(digits, base) == FoldLeft(LAMBDA n, c : base * n + digit(c), 0, digits)

--------------------------------------------------------------------------------
(* The forms of tokens.                                                    *)

isName(t) == t[1] \in Letter /\ Range(t) \subseteq Letter \cup Digit

mantissa(t, class) ==
  /\ Range(t) \subseteq class \cup {DOT} /\ Range(t) \cap class # {}
  /\ Cardinality({k \in DOMAIN t : t[k] = DOT}) < 2

isExponent(t) ==
  LET digits == IF t # <<>> /\ t[1] \in Sign THEN Tail(t) ELSE t
  IN  digits # <<>> /\ Range(digits) \subseteq Digit

numeral(t, class, marks) ==
  \/ mantissa(t, class)
  \/ \E k \in DOMAIN t : t[k] \in marks /\ mantissa(SubSeq(t, 1, k - 1), class) /\ isExponent(SubSeq(t, k + 1, Len(t)))

isNumeral(written) ==
  LET t == SelectSeq(written, LAMBDA c : c # UNDERSCORE)
      rest == SubSeq(t, 3, Len(t))
  IN IF at(t, 1) = ZERO /\ at(t, 2) \in {88, 120} THEN numeral(rest, Hex, {80, 112})
     ELSE IF at(t, 1) = ZERO /\ at(t, 2) \in {66, 98} THEN rest # <<>> /\ Range(rest) \subseteq {ZERO, ZERO + 1}
     ELSE numeral(t, Digit, {69, 101})

(* A number takes every letter, digit and dot, and signs of an exponent.   *)
inNumeral(t, k) ==
  t[k] \in Letter \cup Digit \cup {DOT}
    \/ (t[k] \in Sign /\ at(t, k - 1) \in IF at(t, 2) \in {88, 120} THEN {80, 112} ELSE {69, 101})
beginsNumeral(s, i) == at(s, i) \in Digit \/ (at(s, i) = DOT /\ at(s, i + 1) \in Digit)
isNumeralRun(t) == beginsNumeral(t, 1) /\ \A k \in DOMAIN t : inNumeral(t, k)

isLong(t) ==
  LET level == after(t, 2, {EQUAL}) - 2
      closes(j) == at(t, j) = CLOSE /\ at(t, j + level + 1) = CLOSE /\ \A k \in j + 1..j + level : at(t, k) = EQUAL
  IN /\ t[1] = OPEN /\ at(t, level + 2) = OPEN
     /\ {j \in level + 3..Len(t) : closes(j)} = {Len(t) - level - 1}

longValue(t) ==
  LET level == after(t, 2, {EQUAL}) - 2
      body == SubSeq(t, level + 3, Len(t) - level - 2)
  IN CASE starts(body, 1, <<CR, LF>>) -> SubSeq(body, 3, Len(body))
       [] at(body, 1) = LF -> Tail(body)
       [] OTHER -> body

isComment(t) ==
  /\ starts(t, 1, <<DASH, DASH>>)
  /\ LET rest == SubSeq(t, 3, Len(t))
         level == after(rest, 2, {EQUAL}) - 2
     IN IF at(rest, 1) = OPEN /\ at(rest, level + 2) = OPEN THEN isLong(rest) ELSE LF \notin Range(rest)

(* Where a comment or a long string begins, nothing shorter is read.       *)
opens(s, i) == at(s, i) = OPEN /\ at(s, after(s, i + 1, {EQUAL})) = OPEN
isWhole(s, i, t) ==
  /\ isNumeralRun(t) => isNumeral(t)
  /\ opens(s, i) => isLong(t)
  /\ starts(s, i, <<DASH, DASH>>) => isComment(t) /\ (opens(s, i + 2) => isLong(SubSeq(t, 3, Len(t))))

(* Inside quotes: what each piece stands for; NoByte where Lua objects.    *)
lettered == 110 :> LF @@ 116 :> 9 @@ 114 :> CR @@ 97 :> 7 @@ 98 :> 8 @@ 102 :> 12 @@ 118 :> 11

utf8(n) ==
  CASE n < 128 -> <<n>>
    [] n \in 128..2047 -> <<192 + n \div 64, 128 + (n % 64)>>
    [] n \in 2048..65535 -> <<224 + n \div 4096, 128 + ((n \div 64) % 64), 128 + (n % 64)>>
    [] n > 65535 -> <<240 + n \div 262144, 128 + ((n \div 4096) % 64), 128 + ((n \div 64) % 64), 128 + (n % 64)>>

(* The number of bytes of the piece at i, and its value.                   *)
piece(value, size) == [value |-> value, size |-> size]
refused == piece(<<NoByte>>, 1)

pieceAt(t, i) ==
  LET next == at(t, i + 1)
      digits == CHOOSE n \in 1..3 : (\A k \in 1..n : at(t, i + k) \in Digit) /\ (n = 3 \/ at(t, i + n + 1) \notin Digit)
      close == after(t, i + 3, Hex)
      code == number(SubSeq(t, i + 3, close - 1), 16)
  IN IF t[i] # BACKSLASH THEN IF t[i] \in {LF, CR, t[1]} THEN refused ELSE piece(<<t[i]>>, 1)
     ELSE IF next \in DOMAIN lettered THEN piece(<<lettered[next]>>, 2)
     ELSE IF next = 122 THEN piece(<<>>, after(t, i + 2, Space) - i)
     ELSE IF next = 120
     THEN IF {at(t, i + 2), at(t, i + 3)} \subseteq Hex THEN piece(<<number(SubSeq(t, i + 2, i + 3), 16)>>, 4) ELSE refused
     ELSE IF next = 117
     THEN IF at(t, i + 2) = LBRACE /\ close > i + 3 /\ at(t, close) = BRACE /\ code < 1114112
          THEN piece(utf8(code), close + 1 - i) ELSE refused
     ELSE IF next \in Digit
     THEN IF number(SubSeq(t, i + 1, i + digits), 10) < 256
          THEN piece(<<number(SubSeq(t, i + 1, i + digits), 10)>>, digits + 1) ELSE refused
     ELSE IF next = NoByte THEN refused ELSE piece(<<next>>, 2)

RECURSIVE shortValue(_, _)
shortValue(t, i) ==
  IF i = Len(t) THEN <<>>
  ELSE IF i > Len(t) THEN <<NoByte>>
  ELSE pieceAt(t, i).value \o shortValue(t, i + pieceAt(t, i).size)

isShort(t) ==
  Len(t) > 1 /\ t[1] \in {QUOTE, APOSTROPHE} /\ t[Len(t)] = t[1] /\ NoByte \notin Range(shortValue(t, 2))

isToken(t) ==
  \/ Range(t) \subseteq Space \/ isName(t) \/ isNumeralRun(t) \/ isLong(t) \/ isShort(t) \/ isComment(t) \/ t \in Symbols

--------------------------------------------------------------------------------

Unreadable == <<<<"unreadable">>>>

read(t) ==
  CASE isShort(t) -> <<<<"string", shortValue(t, 2)>>>>
    [] isLong(t) -> <<<<"string", longValue(t)>>>>
    [] isComment(t) \/ Range(t) \subseteq Space -> <<>>
    [] OTHER -> <<<<"text", t>>>>

RECURSIVE readFrom(_, _)
readFrom(s, i) ==
  LET ends == {j \in i..Len(s) : isToken(SubSeq(s, i, j))}
      end == CHOOSE j \in ends : \A k \in ends : k <= j
      t == SubSeq(s, i, end)
      rest == readFrom(s, end + 1)
  IN IF i > Len(s) THEN <<>>
     ELSE IF ends = {} \/ ~isWhole(s, i, t) \/ rest = Unreadable THEN Unreadable
     ELSE read(t) \o rest

(* The tokens of a text, strings by their values.                          *)
reading(s) == readFrom(s, 1)

--------------------------------------------------------------------------------

KEYWORDS ==  \* and break do else elseif end false for function goto if in local nil not or repeat return ...
  {<<97, 110, 100>>, <<98, 114, 101, 97, 107>>, <<100, 111>>, <<101, 108, 115, 101>>, <<101, 108, 115, 101, 105, 102>>,
   <<101, 110, 100>>, <<102, 97, 108, 115, 101>>, <<102, 111, 114>>, <<102, 117, 110, 99, 116, 105, 111, 110>>,
   <<103, 111, 116, 111>>, <<105, 102>>, <<105, 110>>, <<108, 111, 99, 97, 108>>, <<110, 105, 108>>, <<110, 111, 116>>,
   <<111, 114>>, <<114, 101, 112, 101, 97, 116>>, <<114, 101, 116, 117, 114, 110>>, <<116, 104, 101, 110>>,
   <<116, 114, 117, 101>>, <<117, 110, 116, 105, 108>>, <<119, 104, 105, 108, 101>>}

Three == {<<DOT, DOT, DOT>>, <<DOT, DOT, EQUAL>>, <<60, 60, EQUAL>>, <<62, 62, EQUAL>>}
Two ==
  {<<DOT, DOT>>, <<58, 58>>, <<EQUAL, EQUAL>>, <<126, EQUAL>>, <<60, EQUAL>>, <<62, EQUAL>>, <<62, 62>>,
   <<60, 60>>, <<47, 47>>, <<43, EQUAL>>, <<DASH, EQUAL>>, <<42, EQUAL>>, <<47, EQUAL>>, <<37, EQUAL>>,
   <<94, EQUAL>>}

longBracketLevel(s, i) ==
  LET j == after(s, i + 1, {EQUAL})
  IN  IF at(s, i) = OPEN /\ at(s, j) = OPEN THEN j - i - 1 ELSE -1

(* Where the bracket of a level is closed; 0 if nowhere.                   *)
findLongBracketClose(s, i, level) ==
  LET closes == {j \in i + 2 + level..Len(s) :
                   /\ s[j] = CLOSE /\ at(s, j + level + 1) = CLOSE
                   /\ \A k \in j + 1..j + level : at(s, k) = EQUAL}
  IN  IF closes = {} THEN 0 ELSE Min(closes)

token(kind, i, end) == [kind |-> kind, start |-> i, end |-> end, value |-> <<>>]

longEnd(s, close, level) == IF close = 0 THEN Len(s) + 1 ELSE close + 2 + level

(* One line end at the beginning is not part of the value.                 *)
longString(s, i, level) ==
  LET close == findLongBracketClose(s, i, level)
      body == i + 2 + level
      line == IF at(s, body) = CR THEN body + 1 ELSE body
      first == IF at(s, line) = LF THEN line + 1 ELSE line
  IN  [token("longstring", i, longEnd(s, close, level)) EXCEPT
         !.value = SubSeq(s, first, IF close = 0 THEN Len(s) ELSE close - 1)]

bracket(s, i) ==
  IF longBracketLevel(s, i) >= 0 THEN longString(s, i, longBracketLevel(s, i)) ELSE token("punct", i, i + 1)

comment(s, i) ==
  LET level == longBracketLevel(s, i + 2)
  IN  IF level >= 0 THEN token("longcomment", i, longEnd(s, findLongBracketClose(s, i + 2, level), level))
      ELSE token("comment", i, after(s, i + 2, Byte \ {LF}))

newline(s, i) == token("newline", i, IF s[i] = CR /\ at(s, i + 1) = LF THEN i + 2 ELSE i + 1)

--------------------------------------------------------------------------------
(* Escapes: what one stands for, and how far it goes.                      *)
escape(value, consumed) == [value |-> value, consumed |-> consumed]

simpleEscapes ==
  [c \in {110, 116, 114, 97, 98, 102, 118, BACKSLASH, QUOTE, APOSTROPHE, LF} |->
     CASE c = 110 -> 10 [] c = 116 -> 9 [] c = 114 -> 13 [] c = 97 -> 7 [] c = 98 -> 8 [] c = 102 -> 12
       [] c = 118 -> 11 [] OTHER -> c]

(* Lead byte and places of six bits.                                       *)
utf8Encode(code) ==
  LET more == IF code < 2048 THEN 1 ELSE IF code < 65536 THEN 2 ELSE IF code < 2097152 THEN 3 ELSE 4
      lead == <<192, 224, 240, 248>>[more]
  IN  IF code < 128 THEN <<code>>
      ELSE <<lead + code \div 64 ^ more>> \o [k \in 1..more |-> 128 + ((code \div 64 ^ (more - k)) % 64)]

(* The blanks of a regular expression: those of Lua, and one more byte.    *)
blank == Space \cup {160}

closeBrace(s, i) == after(s, i, Byte \ {BRACE})

(* At most six digits in braces; otherwise the letter.                     *)
unicode(s, i) ==
  LET close == closeBrace(s, i + 3)
  IN  IF at(s, i + 2) = LBRACE /\ close <= Len(s) /\ close - (i + 3) \in 1..6
         /\ \A k \in i + 3..close - 1 : s[k] \in Hex
      THEN escape(utf8Encode(number(SubSeq(s, i + 3, close - 1), 16)), close + 1 - i)
      ELSE escape(<<117>>, 2)

(* parseInt of the two characters: a digit is enough, a blank or a sign    *)
(* may stand before it, and 0x is the beginning of a number.               *)
hexDigits(c, d) ==
  CASE {c, d} \subseteq Hex -> number(<<c, d>>, 16)
    [] c \in Hex /\ d \notin Hex /\ ~(c = ZERO /\ d \in {88, 120}) -> digit(c)
    [] c \in blank \cup {43} /\ d \in Hex -> digit(d)
    [] c = DASH /\ d \in Hex -> (65536 - digit(d)) % 65536
    [] OTHER -> NoByte

hexEscape(s, i) ==
  LET code == hexDigits(at(s, i + 2), at(s, i + 3))
  IN  IF code = NoByte THEN escape(<<120>>, 2) ELSE escape(<<code>>, 4)

decimalEscape(s, i) ==
  LET end == after(s, i + 1, Digit)
      last == IF end > i + 4 THEN i + 3 ELSE end - 1
  IN  escape(<<number(SubSeq(s, i + 1, last), 10) % 256>>, last + 1 - i)

resolveStringEscape(s, i) ==
  LET next == at(s, i + 1)
  IN CASE next \in DOMAIN simpleEscapes -> escape(<<simpleEscapes[next]>>, 2)
       [] next = 122 -> escape(<<>>, after(s, i + 2, blank) - i)
       [] next = 117 -> unicode(s, i)
       [] next = 120 -> hexEscape(s, i)
       [] next \in Digit -> decimalEscape(s, i)
       [] next = NoByte -> escape(<<>>, 2)
       [] OTHER -> escape(<<next>>, 2)

(* A string goes on behind a line end only in single quotes.               *)
RECURSIVE shortString(_, _, _)
shortString(s, i, tok) ==
  LET quote == s[tok.start]
      e == resolveStringEscape(s, i)
  IN IF at(s, i) = quote THEN [tok EXCEPT !.end = i + 1]
     ELSE IF i > Len(s) \/ (s[i] = LF /\ quote = QUOTE) THEN [tok EXCEPT !.end = i]
     ELSE IF s[i] = BACKSLASH THEN shortString(s, i + e.consumed, [tok EXCEPT !.value = @ \o e.value])
     ELSE shortString(s, i + 1, [tok EXCEPT !.value = Append(@, s[i])])

--------------------------------------------------------------------------------

fraction(s, j, class) == IF at(s, j) = DOT THEN after(s, j + 1, class) ELSE j

exponent(s, j, marks) ==
  IF at(s, j) \notin marks THEN j
  ELSE after(s, IF at(s, j + 1) \in Sign THEN j + 2 ELSE j + 1, Digit \cup {UNDERSCORE})

numberEnd(s, i) ==
  LET hex == Hex \cup {UNDERSCORE}
      decimal == Digit \cup {UNDERSCORE}
  IN IF s[i] = ZERO /\ at(s, i + 1) \in {88, 120}
     THEN exponent(s, fraction(s, after(s, i + 2, hex), hex), {80, 112})
     ELSE IF s[i] = ZERO /\ at(s, i + 1) \in {66, 98}
     THEN after(s, i + 2, {ZERO, ZERO + 1, UNDERSCORE})
     ELSE exponent(s, fraction(s, after(s, i, decimal), decimal), {69, 101})

word(s, i) ==
  LET end == after(s, i, Letter \cup Digit)
  IN  token(IF SubSeq(s, i, end - 1) \in KEYWORDS THEN "keyword" ELSE "identifier", i, end)

operator(s, i) ==
  LET longest == IF \E t \in Three : starts(s, i, t) THEN 3 ELSE IF \E t \in Two : starts(s, i, t) THEN 2 ELSE 1
  IN  token(IF longest = 1 THEN "punct" ELSE "operator", i, i + longest)

nextToken(s, i) ==
  CASE s[i] \in {9, 32} -> token("whitespace", i, after(s, i, {9, 32}))
    [] s[i] \in {LF, CR} -> newline(s, i)
    [] starts(s, i, <<DASH, DASH>>) -> comment(s, i)
    [] s[i] = OPEN -> bracket(s, i)
    [] s[i] \in {QUOTE, APOSTROPHE} -> shortString(s, i + 1, token("string", i, i))
    [] s[i] \in Digit \/ (s[i] = DOT /\ at(s, i + 1) \in Digit) -> token("number", i, numberEnd(s, i))
    [] s[i] \in Letter -> word(s, i)
    [] OTHER -> operator(s, i)

raw(s, tok) == SubSeq(s, tok.start, IF tok.end > Len(s) THEN Len(s) ELSE tok.end - 1)

--------------------------------------------------------------------------------
(* The bytes of a value that are written as a number are those Lua does    *)
(* not print.                                                              *)
decimals(n) ==
  IF n < 10 THEN <<ZERO + n>>
  ELSE (IF n < 100 THEN <<ZERO + n \div 10>> ELSE <<ZERO + n \div 100, ZERO + ((n \div 10) % 10)>>) \o <<ZERO + (n % 10)>>

reencodeFault(c, quote) ==  \* the quote is not escaped
  CASE c = BACKSLASH -> <<BACKSLASH, c>>
    [] c \in {LF, CR, 9} -> <<BACKSLASH, CASE c = LF -> 110 [] c = CR -> 114 [] c = 9 -> 116>>
    [] c \in 32..126 \ {BACKSLASH} -> <<c>>
    [] OTHER -> <<BACKSLASH>> \o decimals(c)

reencode(c, quote) ==
  CASE c \in {BACKSLASH, quote} -> <<BACKSLASH, c>>
    [] c \in {LF, CR, 9} -> <<BACKSLASH, CASE c = LF -> 110 [] c = CR -> 114 [] c = 9 -> 116>>
    [] c \in 32..126 \ {BACKSLASH, quote} -> <<c>>
    [] OTHER -> <<BACKSLASH>> \o decimals(c)

reencodeLuaString(value, quote) ==
  <<quote>> \o FlattenSeq([k \in DOMAIN value |-> reencode(value[k], quote)]) \o <<quote>>

(* Only short literals of ASCII values.                                    *)
unescapeStringLiterals(s, toks) ==
  FlattenSeq([k \in DOMAIN toks |->
    IF toks[k].kind = "string" /\ toks[k].end > toks[k].start + 1 /\ Range(toks[k].value) \subseteq 0..127
    THEN reencodeLuaString(toks[k].value, s[toks[k].start]) ELSE raw(s, toks[k])])

(* The other decoder: a line end after a backslash goes, two digits or     *)
(* none, and a character code in place of its bytes.                       *)
codePoint(s, i) ==
  LET close == closeBrace(s, i + 3)
  IN  IF close <= Len(s) /\ close - (i + 3) \in 1..6 /\ \A k \in i + 3..close - 1 : s[k] \in Hex
      THEN escape(IF number(SubSeq(s, i + 3, close - 1), 16) > 1114111 THEN SubSeq(s, i, close)
                  ELSE <<number(SubSeq(s, i + 3, close - 1), 16)>>, close + 1 - i)
      ELSE escape(<<117>>, 2)

bodyEscape(s, i) ==
  LET next == at(s, i + 1)
  IN CASE next = LF -> escape(<<>>, 2)
       [] next = 120 -> IF {at(s, i + 2), at(s, i + 3)} \subseteq Hex THEN hexEscape(s, i) ELSE escape(<<next>>, 2)
       [] next = 117 -> IF at(s, i + 2) = LBRACE THEN codePoint(s, i) ELSE escape(<<next>>, 2)
       [] OTHER -> resolveStringEscape(s, i)

RECURSIVE decodeFrom(_, _)
decodeFrom(s, i) ==
  LET e == bodyEscape(s, i)
  IN CASE i > Len(s) -> <<>>
       [] s[i] # BACKSLASH -> <<s[i]>> \o decodeFrom(s, i + 1)
       [] OTHER -> e.value \o decodeFrom(s, i + e.consumed)

decodeLuaEscapes(body) == decodeFrom(body, 1)

(* The entries of a table: what stands between double quotes, where a      *)
(* backslash takes the next character along unless it ends the line.       *)
RECURSIVE closingQuote(_, _)
closingQuote(s, i) ==
  CASE i > Len(s) -> 0
    [] s[i] = QUOTE -> i
    [] s[i] = BACKSLASH -> IF at(s, i + 1) \in {NoByte, LF, CR} THEN 0 ELSE closingQuote(s, i + 2)
    [] OTHER -> closingQuote(s, i + 1)

RECURSIVE entriesFrom(_, _)
entriesFrom(s, i) ==
  LET close == closingQuote(s, i + 1)
  IN  IF i > Len(s) THEN <<>>
      ELSE IF s[i] = QUOTE /\ close > 0 THEN <<SubSeq(s, i + 1, close - 1)>> \o entriesFrom(s, close + 1)
      ELSE entriesFrom(s, i + 1)

extractStringLiterals(s) == entriesFrom(s, 1)

--------------------------------------------------------------------------------

Init ==
  /\ script \in Scripts
  /\ place = 1 /\ lexemes = <<>> /\ respelled = NotYet /\ payloads = NotYet

Token(tok) == lexemes' = Append(lexemes, tok) /\ place' = tok.end

Tokenize ==
  /\ place <= Len(script)
  /\ Token(nextToken(script, place))
  /\ UNCHANGED <<script, respelled, payloads>>

Rewrite ==
  /\ place > Len(script) /\ respelled = NotYet
  /\ lexemes' = Append(lexemes, token("eof", place, place))
  /\ respelled' = unescapeStringLiterals(script, lexemes)
  /\ payloads' = LET entries == extractStringLiterals(script)
                 IN  [k \in DOMAIN entries |-> decodeLuaEscapes(entries[k])]
  /\ UNCHANGED <<script, place>>

Next == Tokenize \/ Rewrite

Spec == Init /\ [][Next]_vars

--------------------------------------------------------------------------------

significant(toks) ==
  SelectSeq(toks, LAMBDA t : t.kind \notin {"whitespace", "newline", "comment", "longcomment", "eof"})

(* What Lua reads: the tokens with their texts, strings by their values.   *)
meaning(s, toks) ==
  LET sig == significant(toks)
  IN [k \in DOMAIN sig |-> IF sig[k].kind \in {"string", "longstring"} THEN <<"string", sig[k].value>>
                           ELSE <<"text", raw(s, sig[k])>>]

(* A byte written as a number must not stand before a digit, which would   *)
(* be read as part of it.                                                  *)
unprinted(c) == c \notin 32..126 /\ c \notin {LF, CR, 9}
spellable(value) ==
  \A k \in 1..Len(value) - 1 : unprinted(value[k]) /\ value[k] < 100 => value[k + 1] \notin Digit

(* The other decoder differs on line ends and beyond ASCII, and what finds *)
(* the entries knows neither the other literals nor comments.              *)
plainTable(s) ==
  /\ {APOSTROPHE, OPEN} \cap Range(s) = {}
  /\ \A k \in DOMAIN s : s[k] # LF /\ (s[k] = 117 => at(s, k + 1) # LBRACE) /\ ~starts(s, k, <<DASH, DASH>>)

(* In a text that Lua can read the lexer finds the tokens that Lua finds;  *)
(* with its literals respelled the text reads as before; and the entries   *)
(* of a plain table are decoded to the strings that Lua reads.             *)
LiteralsKeepValue ==
  LET lua == reading(script)
      found == SelectSeq(lexemes, LAMBDA t : t.kind = "string")
  IN respelled # NotYet /\ lua # Unreadable =>
       /\ meaning(script, lexemes) = lua
       /\ (\A k \in DOMAIN found : spellable(found[k].value)) => reading(respelled) = lua
       /\ plainTable(script) => payloads = [k \in DOMAIN found |-> found[k].value]
================================================================================
