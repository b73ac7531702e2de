-------------------------------- MODULE Beautify --------------------------------
(***************************************************************************)
(* beautifyLua of src/utils/lua-utils.ts, which nearly every engine calls  *)
(* on what it found: the tokens of a program are written again, with line  *)
(* breaks, indents and blanks of its own.                                  *)
(*                                                                         *)
(* A token has its kind and its text; blanks are not tokens here.  It also *)
(* says what the beautifier has to find out: how many blocks and brackets  *)
(* of the program it stands in, and whether it belongs to an if-expression *)
(* of Luau; and, of its text, how many line breaks follow one another in   *)
(* it, for at the end the beautifier collapses line breaks wherever they   *)
(* stand.  A line is its indent and its words: each a token, which of the  *)
(* program's it is, and whether a blank stands before it.                  *)
(***************************************************************************)
EXTENDS Integers, SequencesExt

CONSTANTS
  Listings,    \* sequences of tokens
  MAX_INDENT   \* 100

noToken == [kind |-> "none", text |-> "none", depth |-> 0, ifExpr |-> FALSE, newlines |-> 0]

--------------------------------------------------------------------------------
(* What Lua makes of a sequence of tokens.                                 *)

Words ==
  {"and", "break", "do", "else", "elseif", "end", "false", "for", "function", "goto", "if", "in",
   "local", "nil", "not", "or", "repeat", "return", "then", "true", "until", "while"}

(* A number ends in a dot, begins with one, or does neither.               *)
Numerals == {"1", "5.", ".5"}

Signs ==
  {"(", ")", "{", "}", "[", "]", ",", ";", ":", "::", ".", "..", "...", "=", "==", "<", ">", "~",
   "-", "+", "/"}

spelled(t) ==
  /\ t.kind = "keyword" <=> t.text \in Words
  /\ t.kind = "number" <=> t.text \in Numerals
  /\ t.text \in Signs => t.kind \in {"punct", "operator"}

(* The grammar has a name behind a dot, no bracket behind `[`, no label    *)
(* behind a colon, and an operand between two operators.                   *)
besides(a, b) ==
  /\ a.text = "." => b.kind \in {"identifier", "comment"}
  /\ a.text \in {"[", ":"} => b.text # a.text
  /\ a.text = ".." => b.text \notin {".", ".."}
  /\ a.kind = "number" => b.text \notin {".", "..."}

(* An if-expression has neither a block nor an end.                        *)
begins(t) == t.text \in {"do", "function", "repeat", "{", "("} \/ (t.text \in {"then", "else"} /\ ~t.ifExpr)
closes(t) == t.text \in {"end", "until", "}", ")"} \/ (t.text \in {"else", "elseif"} /\ ~t.ifExpr)

depthAfter(s, n) ==
  CASE n = 0 -> 0
    [] n > 0 /\ begins(s[n]) -> s[n].depth + 1
    [] OTHER -> s[n].depth

ifExpression(t) == t.text = "if" /\ t.ifExpr

(* After n tokens an if-expression waits for its `then`, or its `else`.    *)
awaited(s, n, arm) ==
  \E i \in 1..n : ifExpression(s[i]) /\ \A k \in (i + 1)..n : s[k].text # arm

inExpression(prev) ==
  prev.kind = "operator" \/ prev.text \in {"return", "or", "and", "not", "=", ",", "(", "{", "["}

(* What the beautifier takes for granted: the token before an `if` tells   *)
(* if-expressions from statements, and an if-expression has two arms and   *)
(* no other `if` before the second one.                                    *)
understood(s) ==
  \A i \in {j \in DOMAIN s : s[j].text = "if"} :
    /\ s[i].ifExpr <=>
         \E k \in 1..(i - 1) : inExpression(s[k]) /\ \A j \in (k + 1)..(i - 1) : s[j].kind = "comment"
    /\ s[i].ifExpr =>
         \E k \in i..Len(s) :
           /\ s[k].text = "else" /\ s[k].ifExpr
           /\ \A j \in (i + 1)..(k - 1) : s[j].text \notin {"if", "elseif"}

ASSUME BeautifyAssumption ==
  /\ MAX_INDENT \in Nat
  /\ \A s \in Listings :
       /\ s \in Seq([kind : STRING, text : STRING, depth : Nat, ifExpr : BOOLEAN, newlines : Nat])
       /\ \A i \in 1..Len(s) :
            spelled(s[i]) /\ depthAfter(s, i - 1) = IF closes(s[i]) THEN s[i].depth + 1 ELSE s[i].depth
       /\ depthAfter(s, Len(s)) = 0
       /\ \A i \in 1..(Len(s) - 1) : besides(s[i], s[i + 1])
       /\ understood(s) => \A i \in 1..Len(s) :
            /\ s[i].text = "then" => (s[i].ifExpr <=> awaited(s, i - 1, "then"))
            /\ s[i].text \in {"else", "elseif"} => (s[i].ifExpr <=> awaited(s, i - 1, "else"))

--------------------------------------------------------------------------------

VARIABLES
  tokens,
  consumed,        \* how many of them were read
  printer,
  out              \* the lines that are returned, <<>> before

beautifyVars == <<tokens, consumed, printer, out>>

startLineIfNeeded(p) ==
  IF p.cur = <<>> THEN [p EXCEPT !.lineIndent = IF p.indent < MAX_INDENT THEN p.indent ELSE MAX_INDENT] ELSE p

flushLine(p) ==
  [p EXCEPT !.lines = Append(@, [indent |-> p.lineIndent, words |-> p.cur]), !.cur = <<>>]

--------------------------------------------------------------------------------
(* Where a line ends.                                                      *)

shouldBreakBefore(p, tok) ==
  LET prev == p.prevTok
  IN /\ p.cur # <<>>
     /\ \/ tok.kind = "identifier" /\ prev.text \in {"end", "until"}
        \/ tok.text \in {"end", "until"}
        \/ tok.text \in {"else", "elseif"} /\ ~p.inIfExpr
        \/ tok.text \in {"local", "return", "if", "for", "while", "repeat"} /\ prev.text \notin {"(", "{"}
        \/ /\ tok.text = "function" /\ prev.kind # "operator"
           /\ prev.text \notin {"=", ",", "(", "{", "[", "return"}
        \/ tok.text = "do" /\ ~p.inLoopHeader

(* Not after the `then` of an if-expression.                               *)
shouldBreakAfter(p, tok) ==
  \/ tok.text \in {";", "do", "repeat"}
  \/ tok.text = "then" /\ ~p.suppressNextThen

--------------------------------------------------------------------------------
(* What a token does to the indent, before its line begins and after it.   *)

dedentedFault(p, tok) ==  \* the drift of an earlier version
  LET outer == [p EXCEPT !.indent = IF @ > 0 THEN @ - 1 ELSE 0]
  IN CASE tok.text \in {"end", "until", "}", ")"} -> outer
       [] tok.text = "else" /\ ~p.inIfExpr -> outer
       [] tok.text \in {"for", "while"} -> [p EXCEPT !.inLoopHeader = TRUE]
       [] tok.text = "do" -> [p EXCEPT !.inLoopHeader = FALSE]
       [] tok.text = "if" /\ inExpression(p.prevTok) -> [p EXCEPT !.inIfExpr = TRUE, !.suppressNextThen = TRUE]
       [] OTHER -> p

dedented(p, tok) ==
  LET outer == [p EXCEPT !.indent = IF @ > 0 THEN @ - 1 ELSE 0]
  IN CASE tok.text \in {"end", "until", "elseif", "}", ")"} -> outer
       [] tok.text = "else" /\ ~p.inIfExpr -> outer
       [] tok.text \in {"for", "while"} -> [p EXCEPT !.inLoopHeader = TRUE]
       [] tok.text = "do" -> [p EXCEPT !.inLoopHeader = FALSE]
       [] tok.text = "if" /\ inExpression(p.prevTok) -> [p EXCEPT !.inIfExpr = TRUE, !.suppressNextThen = TRUE]
       [] OTHER -> p

indented(p, tok) ==
  CASE tok.text = "then" /\ p.suppressNextThen -> [p EXCEPT !.suppressNextThen = FALSE]
    [] tok.text = "else" /\ p.inIfExpr -> [p EXCEPT !.inIfExpr = FALSE]
    [] \/ tok.text \in {"do", "function", "repeat", "{", "("}
       \/ tok.text = "then" /\ ~p.suppressNextThen
       \/ tok.text = "else" /\ ~p.inIfExpr -> [p EXCEPT !.indent = @ + 1]
    [] OTHER -> p

--------------------------------------------------------------------------------
(* Blanks.                                                                 *)

isValueEnding(t) ==
  t.kind \in {"number", "string", "longstring", "identifier"} \/ t.text \in {")", "]", "}"}

prevIsUnarySign(p) == p.prevTok.text \in {"-", "+"} /\ ~isValueEnding(p.prevPrevTok)

unarySignCtx(p, tok) == tok.text \in {"-", "+"} /\ p.prevTok.text \in {",", "(", "{", "["}

prevIsIndexable(p) ==
  p.prevTok.kind \in {"identifier", "string", "longstring"} \/ p.prevTok.text \in {")", "]"}

(* What ends in an open bracket, a colon or a dot, and what attaches to    *)
(* the token before it.                                                    *)
noSpaceBefore(p, tok) ==
  \/ p.prevTok.text \in {"(", "[", "{", ":", "::", ".", "..", "...", "5."}
  \/ tok.text \in {")", "]", "}", ",", ";", ":", ".", "..", "..."}

spaced(p, tok) ==
  /\ p.cur # <<>>
  /\ ~unarySignCtx(p, tok)
  /\ ~(prevIsUnarySign(p) /\ (tok.kind \in {"number", "identifier"} \/ tok.text = "("))
  /\ ~noSpaceBefore(p, tok)
  /\ ~(tok.text \in {"[", "("} /\ prevIsIndexable(p))

--------------------------------------------------------------------------------

BeautifyInit ==
  /\ tokens \in Listings /\ consumed = 0
  /\ printer = [cur |-> <<>>, lines |-> <<>>, indent |-> 0, lineIndent |-> 0,
                inIfExpr |-> FALSE, suppressNextThen |-> FALSE, inLoopHeader |-> FALSE,
                prevTok |-> noToken, prevPrevTok |-> noToken]
  /\ out = <<>>

appended(p, tok, space) ==
  [p EXCEPT !.cur = Append(@, [tok |-> tok, at |-> consumed + 1, spaced |-> space])]

(* A comment ends its line; a line of its own is indented as the last one. *)
PrintComment ==
  /\ consumed < Len(tokens) /\ tokens[consumed + 1].kind = "comment"
  /\ printer' = flushLine(appended(printer, tokens[consumed + 1], printer.cur # <<>>))
  /\ consumed' = consumed + 1
  /\ UNCHANGED <<tokens, out>>

PrintToken ==
  /\ consumed < Len(tokens) /\ tokens[consumed + 1].kind # "comment"
  /\ LET tok == tokens[consumed + 1]
         broken == IF shouldBreakBefore(printer, tok) THEN flushLine(printer) ELSE printer
         begun == startLineIfNeeded(dedented(broken, tok))
         written == [appended(indented(begun, tok), tok, spaced(begun, tok))
                       EXCEPT !.prevPrevTok = begun.prevTok, !.prevTok = tok]
     IN printer' = IF shouldBreakAfter(begun, tok) THEN flushLine(written) ELSE written
  /\ consumed' = consumed + 1
  /\ UNCHANGED <<tokens, out>>

(* More than two line breaks in a row become two.  No line is empty, so    *)
(* they stand inside a token: a long string or a long comment.             *)
collapsed(tok) == [tok EXCEPT !.newlines = IF @ > 2 THEN 2 ELSE @]
collapsedWord(word) == [word EXCEPT !.tok = collapsed(@)]
collapsedLine(line) == [line EXCEPT !.words = [k \in DOMAIN @ |-> collapsedWord(@[k])]]

Finish ==
  /\ consumed = Len(tokens) /\ out = <<>>
  /\ printer' = IF printer.cur = <<>> THEN printer ELSE flushLine(printer)
  /\ out' = [n \in DOMAIN printer'.lines |-> collapsedLine(printer'.lines[n])]
  /\ UNCHANGED <<tokens, consumed>>

BeautifyNext == PrintComment \/ PrintToken \/ Finish

BeautifySpec == BeautifyInit /\ [][BeautifyNext]_beautifyVars

--------------------------------------------------------------------------------

beautified == out # <<>>

(* Two tokens that Lua reads as others if nothing stands between them.     *)
readsOtherwise(a, b) ==
  LET wordlike(t) == t.kind \in {"identifier", "keyword", "number"}
      dotted(t) == t.text \in {".", "..", "...", ".5"}
  IN \/ wordlike(a) /\ wordlike(b)
     \/ (a.kind = "number" \/ a.text = "..") /\ dotted(b)
     \/ a.text = "." /\ (dotted(b) \/ b.kind = "number")
     \/ a.text = "[" /\ (b.text = "[" \/ b.kind = "longstring")
     \/ a.text = "-" /\ (b.text = "-" \/ b.kind = "comment")
     \/ a.text \in {"=", "<", ">", "~"} /\ b.text \in {"=", "=="}
     \/ a.text = b.text /\ a.text \in {"<", ">", "/", ":"}

(* The blanks that are missing: after a number that ends in a dot, between *)
(* a number and a concatenation, from a concatenation to what begins with  *)
(* a dot, and before a long string in brackets.                            *)
runTogether(a, b) ==
  \/ a.text = "5." /\ b.kind \in {"identifier", "keyword", "number"}
  \/ a.kind = "number" /\ b.text = ".."
  \/ a.text = ".." /\ b.text \in {".5", "..."}
  \/ a.text = "[" /\ b.kind = "longstring"

(* The last token of the first n lines.                                    *)
endOf(lines, n) == IF n = 0 THEN 0 ELSE Last(lines[n].words).at

(* "It never breaks syntax": every token of the program is printed once    *)
(* and in its place; the tokens that stand side by side are read as the    *)
(* program has them, the four cases of runTogether aside, and no comment   *)
(* swallows what follows.  "Preserves all tokens exactly" is not so: a     *)
(* long string or comment with more than two line breaks in a row keeps    *)
(* two of them, and a string its program never had; but no other token     *)
(* changes.  "Nested blocks balance back to zero": every line has the      *)
(* indent of the block it begins in, and the last one leaves none open.    *)
BeautifyKeepsProgram ==
  beautified =>
    /\ endOf(out, Len(out)) = Len(tokens)
    /\ \A n \in DOMAIN out :
         LET words == out[n].words
         IN /\ words[1].at = endOf(out, n - 1) + 1
            /\ \A k \in DOMAIN words :
                 LET tok == tokens[words[k].at]
                 IN words[k].tok = IF tok.newlines > 2 THEN [tok EXCEPT !.newlines = 2] ELSE tok
            /\ \A k \in 1..(Len(words) - 1) :
                 /\ words[k + 1].at = words[k].at + 1
                 /\ words[k].tok.kind # "comment"
                 /\ words[k + 1].spaced \/ runTogether(words[k].tok, words[k + 1].tok)
                      \/ ~readsOtherwise(words[k].tok, words[k + 1].tok)
    /\ understood(tokens) =>
         /\ printer.indent = 0
         /\ \A n \in DOMAIN out :
              LET line == out[n]
                  depth == line.words[1].tok.depth
              IN line.words[1].tok.kind # "comment" =>
                   line.indent = IF depth < MAX_INDENT THEN depth ELSE MAX_INDENT
================================================================================
