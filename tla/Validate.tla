------------------------------- MODULE Validate -------------------------------
(***************************************************************************)
(* validateLuaSource of src/utils/validate.ts: the static check every      *)
(* output passes before it is ranked or returned.  It reads the tokens of  *)
(* a source once, with a stack of brackets and a stack of blocks; an issue *)
(* is the position of the token it blames.  (The code makes one pass per   *)
(* stack; the two never meet, and here they advance together.)             *)
(*                                                                         *)
(* A token is its text.  Strings come in three forms, as the lexer of      *)
(* lua-utils.ts cuts them: "closed", "open" (it ran into a line end or the *)
(* end of the source) and "escaped" (open too, but its last characters are *)
(* an escaped quote).                                                      *)
(***************************************************************************)
EXTENDS Integers, Sequences, FiniteSets

CONSTANTS Tokens,      \* the texts a source is made of
          MaxTokens    \* bound on the length of a source, for model checking

Closer == [x \in {"(", "[", "{"} |-> IF x = "(" THEN ")" ELSE IF x = "[" THEN "]" ELSE "}"]
Closers == {")", "]", "}"}
Openers == {"if", "function", "do", "repeat"}

EXPR_PREV ==
  {"=", ",", "(", "{", "[", "return", "or", "and", "not", "..", "+", "-", "*", "/", "%", "^",
   "==", "~=", "<", ">", "<=", ">=", "#"}

VARIABLES
  source,       \* the tokens read so far
  stack,        \* positions of the open brackets
  blockStack,   \* positions of the open blocks
  issues,       \* positions blamed, in order
  done

checkVars == <<source, stack, blockStack, issues, done>>

CheckInit == source = <<>> /\ stack = <<>> /\ blockStack = <<>> /\ issues = <<>> /\ done = FALSE

top(s) == s[Len(s)]
pop(s) == SubSeq(s, 1, Len(s) - 1)

read(t) == ~done /\ Len(source) < MaxTokens /\ source' = Append(source, t)
here == Len(source) + 1
prevSig == IF source = <<>> THEN "" ELSE top(source)

OpenBracket ==
  /\ \E t \in Tokens \cap DOMAIN Closer : read(t)
  /\ stack' = Append(stack, here)
  /\ UNCHANGED <<blockStack, issues, done>>

(* The definitions named ...Fault are plausible slips in the definition    *)
(* after them and show what a property would notice.                      *)

CloseBracketFault ==  \* which bracket is closed is not looked at
  /\ \E t \in Tokens \cap Closers : read(t)
  /\ stack' = IF stack = <<>> THEN <<>> ELSE pop(stack)
  /\ issues' = IF stack = <<>> THEN Append(issues, here) ELSE issues
  /\ UNCHANGED <<blockStack, done>>

(* A wrong closer is blamed and uses up the bracket it meets.              *)
CloseBracket ==
  /\ \E t \in Tokens \cap Closers :
       /\ read(t)
       /\ issues' = IF stack = <<>> \/ Closer[source[top(stack)]] # t
                    THEN Append(issues, here) ELSE issues
  /\ stack' = IF stack = <<>> THEN <<>> ELSE pop(stack)
  /\ UNCHANGED <<blockStack, done>>

(* An `if` after an operator is an expression and opens nothing.           *)
OpenBlock ==
  /\ \E t \in Tokens \cap Openers :
       /\ read(t)
       /\ blockStack' = IF t = "if" /\ prevSig \in EXPR_PREV THEN blockStack
                        ELSE Append(blockStack, here)
  /\ UNCHANGED <<stack, issues, done>>

(* `end` closes whatever block is open.                                    *)
End ==
  /\ "end" \in Tokens /\ read("end")
  /\ blockStack' = IF blockStack = <<>> THEN <<>> ELSE pop(blockStack)
  /\ issues' = IF blockStack = <<>> THEN Append(issues, here) ELSE issues
  /\ UNCHANGED <<stack, done>>

repeats == {i \in 1..Len(blockStack) : source[blockStack[i]] = "repeat"}
innermostRepeat == CHOOSE i \in repeats : \A j \in repeats : j <= i
reversed(s) == [i \in 1..Len(s) |-> s[Len(s) + 1 - i]]

(* `until` closes the innermost `repeat` and blames what is open inside.   *)
Until ==
  /\ "until" \in Tokens /\ read("until")
  /\ LET left == IF repeats = {} THEN 0 ELSE innermostRepeat
     IN /\ blockStack' = SubSeq(blockStack, 1, left - 1)
        /\ issues' = issues \o reversed(SubSeq(blockStack, left + 1, Len(blockStack)))
                            \o (IF repeats = {} THEN <<here>> ELSE <<>>)
  /\ UNCHANGED <<stack, done>>

(* The raw text of a string must end with its quote.                       *)
String ==
  /\ \E t \in Tokens \cap {"closed", "open", "escaped"} :
       /\ read(t)
       /\ issues' = IF t = "open" THEN Append(issues, here) ELSE issues
  /\ UNCHANGED <<stack, blockStack, done>>

Other ==
  /\ \E t \in Tokens \ (DOMAIN Closer \cup Closers \cup Openers
                        \cup {"end", "until", "closed", "open", "escaped"}) : read(t)
  /\ UNCHANGED <<stack, blockStack, issues, done>>

(* At the end of the source what is still open is blamed.                  *)
EndOfSource ==
  /\ ~done /\ done' = TRUE
  /\ issues' = issues \o stack \o blockStack
  /\ UNCHANGED <<source, stack, blockStack>>

CheckNext ==
  \/ OpenBracket \/ CloseBracket \/ OpenBlock \/ End \/ Until \/ String \/ Other
  \/ EndOfSource

CheckSpec == CheckInit /\ [][CheckNext]_checkVars

ok == issues = <<>>

--------------------------------------------------------------------------------

(* The reference: a stretch of the source nests when it is empty, when its *)
(* first position is of no relevance and the rest nests, or when its first *)
(* position opens something that a later one closes and both the inside    *)
(* and the rest nest.  ends[i] is where such stretches from i on may end.  *)
Nested(opens, closes, relevant) ==
  LET n == Len(source)
      ends[i \in 1..(n + 1)] ==
        {i - 1} \cup
        {j \in i..n :
           \/ i \notin relevant /\ j \in ends[i + 1]
           \/ i \in opens /\ \E k \in (i + 1)..j :
                <<i, k>> \in closes /\ k - 1 \in ends[i + 1] /\ j \in ends[k + 1]}
  IN n \in ends[1]

at(texts) == {i \in 1..Len(source) : source[i] \in texts}

bracketPairs ==
  {p \in at(DOMAIN Closer) \X at(Closers) : source[p[2]] = Closer[source[p[1]]]}

NestedBrackets == Nested(at(DOMAIN Closer), bracketPairs, at(DOMAIN Closer \cup Closers))

blockOpeners ==
  {i \in at(Openers) : ~(source[i] = "if" /\ i > 1 /\ source[i - 1] \in EXPR_PREV)}

blockPairs ==
  {p \in blockOpeners \X at({"end", "until"}) : source[p[2]] = "end" \/ source[p[1]] = "repeat"}

NestedBlocks == Nested(blockOpeners, blockPairs, blockOpeners \cup at({"end", "until"}))

(* One pass with two stacks decides what the grammar of nesting says: a    *)
(* source is accepted exactly if its brackets nest, its blocks nest (`end` *)
(* closing any of them), and no string misses its quote; no token is blamed*)
(* twice, so that the number of errors, which the ranking of outputs       *)
(* grades, never exceeds that of the faulty tokens.                        *)
AcceptsNested ==
  /\ done => (ok <=> NestedBrackets /\ NestedBlocks /\ at({"open"}) = {})
  /\ \A i, j \in 1..Len(issues) : issues[i] = issues[j] => i = j
================================================================================
