---------------------------------- MODULE Rename ---------------------------------
(***************************************************************************)
(* The two renamings of src/utils/lua-utils.ts.  An engine gives names     *)
(* like IllI a number (renameObfuscatedIdentifiers), the cleanup of its    *)
(* output gives short locals a name that tells their type                  *)
(* (renameCrypticLocals), and each round of the cleanup ends with the      *)
(* generic engine, which numbers again.  Neither parses: both replace a    *)
(* name wherever it stands.                                                *)
(*                                                                         *)
(* A name is <<class, number>>: "soup" (IllI), "short" (ab, v1), "keep"    *)
(* (idioms and registers), "plain", or a prefix of the names given here.   *)
(* A token is <<kind, text>>, that of a string its value.  A program has   *)
(* its tokens and how Lua reads them: where in the tokens, in the order in *)
(* which Lua resolves them, names are declared or used, blocks open or     *)
(* close, and where a name is that of a field.                             *)
(***************************************************************************)
EXTENDS Integers, SequencesExt, FiniteSetsExt

CONSTANTS
  Programs,
  Rounds      \* each an engine and a cleanup

RenameAssumption == Rounds \in Nat

VARIABLES
  program,
  before,   \* the tokens before the last renaming
  now,      \* the tokens
  turn      \* how many renamings there were, those without effect too

vars == <<program, before, now, turn>>

--------------------------------------------------------------------------------

isName(tok) == tok[1] = "identifier"
textAt(toks, m) == IF m \in DOMAIN toks THEN toks[m][2] ELSE ""
kindAt(toks, m) == IF m \in DOMAIN toks THEN toks[m][1] ELSE "none"
is(toks, m, text) == kindAt(toks, m) \in {"op", "keyword"} /\ toks[m][2] = text
idents(toks) == {m \in DOMAIN toks : isName(toks[m])}
namesIn(toks) == {toks[m][2] : m \in idents(toks)}

(* Names in the order in which they first stand in the text.               *)
byFirst(toks, names) ==
  LET first(n) == Min({m \in idents(toks) : toks[m][2] = n})
  IN  SetToSortSeq(names, LAMBDA x, y : first(x) < first(y))

replaced(toks, map, skipped) ==
  [m \in DOMAIN toks |->
    IF m \in idents(toks) \ skipped /\ toks[m][2] \in DOMAIN map THEN <<"identifier", map[toks[m][2]]>> ELSE toks[m]]

(* A name that a string contains is left alone.                            *)
stringReferenced(toks) == {toks[m][2] : m \in {m \in DOMAIN toks : toks[m][1] = "string"}}

candidates(toks) == {n \in namesIn(toks) : n[1] = "soup"} \ stringReferenced(toks)

renameObfuscatedIdentifiers(toks) ==
  LET order == byFirst(toks, candidates(toks))
  IN  replaced(toks, [n \in Range(order) |-> <<"var", CHOOSE k \in DOMAIN order : order[k] = n>>], {})

--------------------------------------------------------------------------------
(* Three characters are short, and so are the names given to functions.    *)
isCrypticLocalName(n) == n[1] \in {"soup", "short"} \/ (n[1] = "fn" /\ n[2] < 10)

(* The names that a `local` declares, and where the list of them ends.     *)
targets(toks, m) ==
  {p \in m + 1..Len(toks) : (p - m) % 2 = 1 /\ \A q \in m + 1..p :
     IF (q - m) % 2 = 1 THEN isName(toks[q]) ELSE is(toks, q, ",")}

listEnd(toks, m) ==
  LET last == Max(targets(toks, m)) IN IF is(toks, last + 1, ",") THEN last + 2 ELSE last

inferPrefix(toks, m, known) ==
  CASE is(toks, m, "function") -> "fn"
    [] is(toks, m, "true") \/ is(toks, m, "false") -> "flag"
    [] is(toks, m, "{") -> "tbl"
    [] kindAt(toks, m) = "string" -> "str"
    [] kindAt(toks, m) = "number" -> "num"
    [] kindAt(toks, m) = "identifier" -> IF toks[m][2] \in DOMAIN known THEN known[toks[m][2]] ELSE "var"
    [] OTHER -> "var"

(* What was declared before keeps its prefix.                              *)
declare(known, names, prefix) == known @@ [n \in names |-> prefix]

parameters(toks, m) ==
  LET dotted(p) == kindAt(toks, p) = "identifier" \/ is(toks, p, ".") \/ is(toks, p, ":")
      open == CHOOSE p \in m + 1..Len(toks) + 1 : ~dotted(p) /\ \A q \in m + 1..p - 1 : dotted(q)
      inside == {p \in open + 1..Len(toks) : \A q \in open..p : ~is(toks, q, ")")}
  IN  IF is(toks, open, "(") THEN {toks[p][2] : p \in inside \cap idents(toks)} ELSE {}

declaredBy(toks, m, known) ==
  CASE is(toks, m, "local") /\ is(toks, m + 1, "function") ->
         IF kindAt(toks, m + 2) = "identifier" THEN declare(known, {toks[m + 2][2]}, "fn") ELSE known
    [] is(toks, m, "local") /\ ~is(toks, m + 1, "function") ->
         LET end == listEnd(toks, m)
         IN  IF targets(toks, m) = {} THEN known
             ELSE declare(known, {toks[p][2] : p \in {p \in targets(toks, m) : isName(toks[p])}},
                          IF is(toks, end + 1, "=") THEN inferPrefix(toks, end + 2, known) ELSE "var")
    [] is(toks, m, "function") -> declare(known, parameters(toks, m), "arg")
    [] OTHER -> known

declPrefix(toks) ==
  FoldLeftDomain(LAMBDA known, m : declaredBy(toks, m, known), <<>>, toks)

Arithmetic == {"+", "-", "*", "/", "%", "^", "//", "<", ">", "<=", ">=", "==", "~=", "and", "or"}
numeric(toks, m) == kindAt(toks, m) = "number" \/ \E o \in Arithmetic : is(toks, m, o)

(* How a parameter is used tells more than that it is one.                 *)
refined(toks, n, prefix) ==
  LET uses == {m \in idents(toks) : toks[m][2] = n}
      tbl == 3 * Cardinality({m \in uses : is(toks, m + 1, "[")})
      fn == 3 * Cardinality({m \in uses : is(toks, m + 1, "(")})
      num == 2 * Cardinality({m \in uses : numeric(toks, m - 1) \/ numeric(toks, m + 1)})
  IN IF prefix \notin {"arg", "var"} THEN prefix
     ELSE IF tbl >= fn /\ tbl >= num /\ tbl > 0 THEN "tbl"
     ELSE IF fn >= num /\ fn > 0 THEN "fn"
     ELSE IF num > 0 THEN "num" ELSE "value"

(* Every declared name is safe: the test that would refuse one asks for a  *)
(* name that is not declared.                                              *)
safeNames(toks, known) == {n \in namesIn(toks) \cap DOMAIN known : isCrypticLocalName(n)}

give(st, n, prefix) ==
  LET count == CHOOSE c \in st.counters[prefix] + 1..st.counters[prefix] + Cardinality(st.used) + 1 :
                 <<prefix, c>> \notin st.used
                 /\ \A d \in st.counters[prefix] + 1..c - 1 : <<prefix, d>> \in st.used
  IN  [used |-> st.used \cup {<<prefix, count>>}, counters |-> [st.counters EXCEPT ![prefix] = count],
       map |-> st.map @@ (n :> <<prefix, count>>)]

TypeNames == {"fn", "flag", "tbl", "str", "num", "var", "arg", "value"}

usedNamesFault(toks, known) == DOMAIN known  \* only the locals of the text are taken

usedNames(toks, known) == namesIn(toks)

newNames(toks, known) ==
  FoldLeft(LAMBDA st, n : give(st, n, refined(toks, n, known[n])),
           [used |-> usedNames(toks, known), counters |-> [p \in TypeNames |-> 0], map |-> <<>>],
           byFirst(toks, safeNames(toks, known))).map

fieldAccess(toks) == {m \in idents(toks) : is(toks, m - 1, ".") \/ is(toks, m - 1, ":")}

renameCrypticLocals(toks) == replaced(toks, newNames(toks, declPrefix(toks)), fieldAccess(toks))

--------------------------------------------------------------------------------

Init ==
  /\ program \in Programs
  /\ now = program.toks /\ before = <<>> /\ turn = 0

Engine ==
  /\ turn \in 0..2 * Rounds - 1 /\ turn % 2 = 0 /\ turn' = turn + 1
  /\ before' = now /\ now' = renameObfuscatedIdentifiers(now)
  /\ UNCHANGED program

(* Kept if the text is balanced and scores no less, else as it was.        *)
Cleanup ==
  /\ turn \in 0..2 * Rounds - 1 /\ turn % 2 = 1 /\ turn' = turn + 1
  /\ before' = now
  /\ \E kept \in BOOLEAN : now' = IF kept THEN renameCrypticLocals(now) ELSE now
  /\ UNCHANGED program

Next == Engine \/ Cleanup

Spec == Init /\ [][Next]_vars

--------------------------------------------------------------------------------
(* What Lua takes each name for.                                           *)

Mark == <<"mark">>

resolve(env, name) ==
  LET found == {k \in DOMAIN env : env[k] # Mark /\ env[k][1] = name}
  IN  IF found = {} THEN <<"global", name>> ELSE <<"local", env[Max(found)][2]>>

meet(st, event, toks) ==
  CASE event[1] = "open" -> [st EXCEPT !.env = Append(@, Mark)]
    [] event[1] = "close" -> [st EXCEPT !.env = SubSeq(@, 1, Max({k \in DOMAIN @ : @[k] = Mark}) - 1)]
    [] event[1] = "declare" -> [env |-> Append(st.env, <<textAt(toks, event[2]), event[2]>>),
                                found |-> st.found @@ (event[2] :> <<"local", event[2]>>)]
    [] event[1] = "use" -> [st EXCEPT !.found = @ @@ (event[2] :> resolve(st.env, textAt(toks, event[2])))]
    [] event[1] = "field" -> [st EXCEPT !.found = @ @@ (event[2] :> <<"field", textAt(toks, event[2])>>)]

bindings(toks) ==
  FoldLeft(LAMBDA st, event : meet(st, event, toks), [env |-> <<>>, found |-> <<>>], program.events).found

outside(bound) == {m \in DOMAIN bound : bound[m][1] # "local"}

(* Locals are the same; other names may have changed, but stay apart, and  *)
(* those that a string contains are as they were.                          *)
sameButNames(was, is_, strings) ==
  /\ outside(was) = outside(is_)
  /\ \A m \in DOMAIN was \ outside(was) : is_[m] = was[m]
  /\ \A m, n \in outside(was) : was[m][2] = was[n][2] <=> is_[m][2] = is_[n][2]
  /\ \A m \in outside(was) : was[m][2] \in strings => is_[m] = was[m]

(* The numbers given by an engine are not looked for in the text.          *)
numbered(toks) == \E n \in namesIn(toks) : n[1] = "var"

(* A short name that is a local somewhere and a global or the key of a     *)
(* table elsewhere is renamed there too.                                   *)
mixed(toks, bound) ==
  \E m \in outside(bound) \ fieldAccess(toks), n \in DOMAIN bound \ outside(bound) :
     bound[m][2] = toks[n][2] /\ isCrypticLocalName(toks[n][2])

(* In what either renaming leaves, every name means what it meant.         *)
RenamingKeepsBindings ==
  turn > 0 =>
    IF turn % 2 = 1
    THEN ~numbered(before) => sameButNames(bindings(before), bindings(now), stringReferenced(before))
    ELSE ~mixed(before, bindings(before)) => bindings(now) = bindings(before)
================================================================================
