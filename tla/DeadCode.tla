--------------------------------- MODULE DeadCode --------------------------------
(***************************************************************************)
(* foldDeadCode of src/passes/constant-fold.ts.  A program is a sequence   *)
(* of tokens of statements: <<"if", c>> stands for `if c then`, <<"while", *)
(* c>> for `while c do`, <<"local", n>> declares the variable <<"use">>    *)
(* reads, n telling the declarations apart.  A writer nests at most        *)
(* MaxPieces of them.                                                      *)
(***************************************************************************)
EXTENDS Integers, SequencesExt

CONSTANTS Statements, Openers, Conditions, MaxPieces, maxSweeps

DeadCodeAssumption ==
  Conditions \subseteq {"true", "false", "nil", "c"} /\ MaxPieces \in Nat /\ maxSweeps \in Nat

VARIABLES source, open, pieces, work, iter, step

vars == <<source, open, pieces, work, iter, step>>

is(toks, i, S) == i \in DOMAIN toks /\ toks[i][1] \in S

--------------------------------------------------------------------------------
(* `for` and `while` open their block with the `do` that follows.          *)
depthOf(t) ==
  CASE t[1] \in {"if", "function", "do", "while", "repeat"} -> 1
    [] t[1] \in {"end", "until"} -> -1
    [] OTHER -> 0

(* depth[k]: the blocks open after token k, from the block at i on.        *)
depthFrom(toks, i) ==
  LET depth[k \in i..Len(toks)] == depthOf(toks[k]) + (IF k = i THEN 0 ELSE depth[k - 1]) IN depth

blockEnd(toks, i) ==
  LET depth == depthFrom(toks, i)
      closed == {k \in i..Len(toks) : depth[k] = 0}
  IN  IF closed = {} THEN 0 ELSE Min(closed)

(* The `else` and `elseif` of the block itself.                            *)
branches(toks, i) ==
  LET depth == depthFrom(toks, i)
  IN  {k \in i..blockEnd(toks, i) : depth[k] = 1 /\ toks[k][1] \in {"else", "elseif"}}

(* An `elseif` before any `else` is not handled.                           *)
matchBalancedIf(toks, conds) ==
  LET found == {i \in DOMAIN toks :
                  /\ toks[i][1] = "if" /\ toks[i][2] \in conds /\ blockEnd(toks, i) > 0
                  /\ branches(toks, i) # {} => toks[Min(branches(toks, i))][1] = "else"}
  IN  IF found = {} THEN 0 ELSE Min(found)

matchBalancedWhileFalse(toks) ==
  LET found == {i \in DOMAIN toks :
                  toks[i][1] = "while" /\ toks[i][2] \in {"false", "nil"} /\ blockEnd(toks, i) > 0}
  IN  IF found = {} THEN 0 ELSE Min(found)

spliceFault(toks, i, kept) == SubSeq(toks, 1, i - 1) \o kept \o SubSeq(toks, blockEnd(toks, i), Len(toks))
splice(toks, i, kept) == SubSeq(toks, 1, i - 1) \o kept \o SubSeq(toks, blockEnd(toks, i) + 1, Len(toks))

(* The body that is kept; one that declares something stays a block.       *)
keptFault(toks, i) ==
  SubSeq(toks, i + 1, (IF branches(toks, i) = {} THEN blockEnd(toks, i) ELSE Min(branches(toks, i))) - 1)
kept(toks, i) ==
  LET to == IF branches(toks, i) = {} THEN blockEnd(toks, i) ELSE Min(branches(toks, i))
      then == SubSeq(toks, i + 1, to - 1)
  IN  IF \E k \in DOMAIN then : then[k][1] \in {"local", "function"}
      THEN <<<<"do">>>> \o then \o <<<<"end">>>> ELSE then

--------------------------------------------------------------------------------
(* The writer.                                                             *)

write(toks, n) == source' = source \o toks /\ pieces' = pieces + n
writing == step = "write" /\ UNCHANGED <<work, iter, step>>
room(n) == pieces + n <= MaxPieces

WriteStatement ==
  /\ writing /\ room(1)
  /\ \E s \in Statements : write(<<IF s = "local" THEN <<s, pieces>> ELSE <<s>>>>, 1)
  /\ UNCHANGED open

WriteOpen ==
  /\ writing /\ room(1)
  /\ \E o \in Openers : write(<<o>>, 1) /\ open' = <<o[1]>> \o open

WriteBranch ==
  /\ writing /\ room(1) /\ open # <<>> /\ Head(open) = "if"
  /\ \/ write(<<<<"else">>>>, 1) /\ open' = <<"else">> \o Tail(open)
     \/ \E c \in Conditions : write(<<<<"elseif", c>>>>, 1) /\ UNCHANGED open

WriteClose ==
  /\ writing /\ open # <<>>
  /\ write(<<IF Head(open) = "repeat" THEN <<"until">> ELSE <<"end">>>>, 0)
  /\ open' = Tail(open)

Start ==
  /\ step = "write" /\ open = <<>>
  /\ step' = "fold" /\ work' = source
  /\ UNCHANGED <<source, open, pieces, iter>>

--------------------------------------------------------------------------------
(* The sweeps: the first removal that applies, then again from the start.  *)

sweep(toks) ==
  /\ work' = toks /\ iter' = iter + 1
  /\ UNCHANGED <<source, open, pieces, step>>

sweeping == step = "fold" /\ iter < maxSweeps
falsyIf == matchBalancedIf(work, {"false", "nil"})
trueIf == matchBalancedIf(work, {"true"})
falseWhile == matchBalancedWhileFalse(work)

RemoveFalsyIf == sweeping /\ falsyIf > 0 /\ sweep(splice(work, falsyIf, <<>>))
UnwrapTrueIf == sweeping /\ falsyIf = 0 /\ trueIf > 0 /\ sweep(splice(work, trueIf, kept(work, trueIf)))
RemoveWhileFalse ==
  sweeping /\ falsyIf = 0 /\ trueIf = 0 /\ falseWhile > 0 /\ sweep(splice(work, falseWhile, <<>>))

Finish ==
  /\ step = "fold" /\ (iter = maxSweeps \/ falsyIf + trueIf + falseWhile = 0)
  /\ step' = "done" /\ UNCHANGED <<source, open, pieces, work, iter>>

Done == step = "done" /\ UNCHANGED vars

Init ==
  /\ source = <<>> /\ open = <<>> /\ pieces = 0
  /\ work = <<>> /\ iter = 0 /\ step = "write"

Next ==
  \/ WriteStatement \/ WriteOpen \/ WriteBranch \/ WriteClose \/ Start
  \/ RemoveFalsyIf \/ UnwrapTrueIf \/ RemoveWhileFalse \/ Finish \/ Done

Spec == Init /\ [][Next]_vars

--------------------------------------------------------------------------------
(* What Lua makes of a program: the statements it runs, and which          *)
(* declaration each use reads.  Loops go round once; functions run where   *)
(* they are defined.  c says whether the open condition holds.             *)

Closers == {"else", "elseif", "end", "until"}
holds(cond, c) == cond = "true" \/ (cond = "c" /\ c)
outcome(trace, signal, at, x) == [trace |-> trace, signal |-> signal, at |-> at, x |-> x]

RECURSIVE Block(_, _, _, _, _), Arms(_, _, _, _, _)

Statement(toks, i, live, x, c) ==
  LET t == toks[i]
      body == Block(toks, i + 1, live /\ (t[1] = "while" => holds(t[2], c)), x, c)
      closer == IF t[1] = "repeat" THEN {"until"} ELSE {"end"}
      caught == (IF t[1] \in {"while", "repeat"} THEN {"break"} ELSE {})
                \cup (IF t[1] = "function" THEN {"return"} ELSE {})
  IN CASE t[1] \in {"return", "break"} ->
            outcome(<<>>, IF (i + 1) \in DOMAIN toks /\ ~is(toks, i + 1, Closers) THEN "malformed"
                          ELSE IF live THEN t[1] ELSE "next", i + 1, x)
       [] t[1] = "if" -> Arms(toks, i, live, x, c)
       [] depthOf(t) = 1 ->
            outcome(body.trace, IF ~is(toks, body.at, closer) THEN "malformed"
                                ELSE IF body.signal \in caught THEN "next" ELSE body.signal, body.at + 1, x)
       [] t[1] = "local" -> outcome(<<>>, "next", i + 1, t[2])
       [] OTHER -> outcome(IF live THEN <<IF t[1] = "use" THEN <<"use", x>> ELSE t>> ELSE <<>>, "next", i + 1, x)

Arms(toks, i, live, x, c) ==
  LET now == live /\ holds(toks[i][2], c)
      then == Block(toks, i + 1, now, x, c)
      other == CASE is(toks, then.at, {"elseif"}) -> Arms(toks, then.at, live /\ ~now, x, c)
                 [] is(toks, then.at, {"else"}) -> Block(toks, then.at + 1, live /\ ~now, x, c)
                 [] OTHER -> outcome(<<>>, "next", then.at, x)
      closed == is(toks, then.at, {"elseif"}) \/ is(toks, other.at, {"end"})
  IN  outcome(then.trace \o other.trace,
              IF ~closed \/ "malformed" \in {then.signal, other.signal} THEN "malformed"
              ELSE IF now THEN then.signal ELSE other.signal,
              IF is(toks, then.at, {"elseif"}) THEN other.at ELSE other.at + 1, x)

Block(toks, i, live, x, c) ==
  IF i \notin DOMAIN toks \/ is(toks, i, Closers) THEN outcome(<<>>, "next", i, x)
  ELSE LET first == Statement(toks, i, live, x, c)
           rest == Block(toks, first.at, live /\ first.signal = "next", first.x, c)
       IN  outcome(first.trace \o rest.trace,
                   IF "malformed" \in {first.signal, rest.signal} THEN "malformed"
                   ELSE IF first.signal = "next" THEN rest.signal ELSE first.signal, rest.at, x)

Meaning(toks, c) ==
  LET b == Block(toks, 1, TRUE, -1, c)
  IN  IF b.at <= Len(toks) THEN <<"malformed">> ELSE <<b.signal, b.trace>>

(* Taking dead branches out changes neither what runs nor which variable   *)
(* is meant.                                                               *)
DeadCodeKeepsMeaning ==
  step \in {"fold", "done"} =>
    \A c \in BOOLEAN : Meaning(source, c)[1] = "malformed" \/ Meaning(work, c) = Meaning(source, c)

(* Where removal is right: a condition that never holds has no other       *)
(* branch, and one that always does is not left in its middle.             *)
plainBlocks ==
  \A i \in DOMAIN source :
    source[i][1] = "if" =>
      /\ source[i][2] \in {"false", "nil"} => branches(source, i) = {}
      /\ source[i][2] = "true" =>
           \A k \in i..blockEnd(source, i) : source[k][1] \notin {"return", "break"}

DeadBranchesOnly == plainBlocks => DeadCodeKeepsMeaning
================================================================================
