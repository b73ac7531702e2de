------------------------------- MODULE MCUtilities -------------------------------
(***************************************************************************)
(* The helpers of a run.  Three keep state: ReportCache with two entries   *)
(* and three bytes, RateLimiter with two users, Fetcher with a cap of four *)
(* bytes.  Four rewrite text: ConstantFold on expressions of at most five  *)
(* pieces, LiteralCalls on calls of up to three arguments over four bits,  *)
(* DeadCode on nests of at most four statements, StaticResolve on programs *)
(* of eight families.  They share nothing; a behaviour is one at work.     *)
(***************************************************************************)
EXTENDS ReportCache, RateLimiter, Fetcher

--------------------------------------------------------------------------------
(* The calls and the programs the text passes are run on.                  *)

kind(k, payloads) == {<<k, v>> : v \in payloads}
lists(A, B, C) == {<<a, b, c>> : a \in A, b \in B, c \in C}

(* Bytes: A, a, sharp s, an accented capital, `.`, digits, %d and %3d.     *)
Strings ==
  kind("string", {<<>>, <<97, 65>>, <<97, 97, 223>>, <<192, 46>>, <<46>>, <<49, 97>>, <<50, 49>>,
                  <<37, 100>>, <<37, 51, 100>>})
Ints == kind("number", {0, 1, 2, -1, -2, 5, 16})
Odd == {<<"number", 300>>, <<"nil">>, <<"boolean", "true">>, <<"huge">>, <<"partial", <<97>>>>,
        <<"other", <<"number", 2>>>>}
Some == kind("number", {2, -1}) \cup {<<"other", <<"number", 2>>>>}
Arguments == Strings \cup Ints \cup Odd

Tuples == {<<>>} \cup {<<a>> : a \in Arguments} \cup {<<a, b>> : a \in Arguments, b \in Arguments}
Receivers == {t \in Tuples : t # <<>> /\ t[1] \in Strings}

calls(library, names, tuples) ==
  {[library |-> library, name |-> name, args |-> t] : name \in names, t \in tuples}

MCCalls ==
  calls("string", {"char", "byte", "sub", "rep", "reverse", "lower", "upper", "format"},
        Tuples \cup lists(Strings, Some, Some))
  \cup calls("global", {"tonumber", "tostring"}, Tuples)
  \cup calls("bit32", {"band", "bor", "bxor", "bnot", "lshift", "rshift", "arshift"},
             Tuples \cup lists(Ints, Ints, Ints))
  \cup calls("method", {"len", "lower", "upper", "reverse", "rep", "byte", "sub", "find"},
             Receivers \cup lists(Strings, kind("string", {<<97>>, <<46>>}) \cup kind("number", {2, -1}), Some))

--------------------------------------------------------------------------------
(* What a program begins with, and the statements it goes on with.         *)

table(n, vs) == <<"local", n, <<"table", vs>>>>
local(n, e) == <<"local", n, e>>
name(n) == <<"name", n>>
lit(v) == <<"lit", v>>
print(e) == <<"print", e>>
index(n, k) == <<"index", n, k>>
blocks == {<<"do">>, <<"end">>}

Tables ==
  [first |-> <<>>,
   pieces |-> blocks \cup
     {table("t", <<1, 2>>), table("t", <<2>>), local("u", name("t")), local("w", name("u")),
      print(index("t", 1)), print(index("w", 1)), <<"set", "t", <<"table", <<2, 1>>>>>>}]

Accessors ==
  [first |-> <<table("t", <<1, 2>>)>>,
   pieces |-> blocks \cup
     {<<"accessor", "f", "t", form, 1>> : form \in {"x+c", "x-c", "c-x"}} \cup
     {print(<<"apply", "f", 0>>), print(<<"apply", "f", 2>>), local("v", <<"apply", "f", 1>>),
      <<"set", "t", <<"table", <<2, 1>>>>>>, print(name("v"))}]

Caches ==
  [first |-> <<table("c", <<>>)>>,
   pieces |-> blocks \cup
     {<<"store", "c", 1, lit(3)>>, <<"store", "c", 2, lit(3)>>, <<"store", "c", 1, <<"sum", 2, "x">>>>,
      <<"store", "c", 1, name("x")>>, <<"cached", "g", "c">>, print(<<"apply2", "g", 1>>), local("x", lit(1))}]

Objects ==
  [first |-> <<table("c", <<>>), <<"store", "c", 1, <<"table", <<3, 4>>>>>>>>,
   pieces |-> blocks \cup
     {local("u", index("c", 1)), print(index("u", 2)), print(<<"index2", "c", 1, 1>>),
      <<"store2", "c", 1, 1, 5>>, <<"store", "c", 2, <<"table", <<5, 6>>>>>>, <<"for">>,
      <<"set", "u", <<"table", <<7, 8>>>>>>}]

Scalars ==
  [first |-> <<>>,
   pieces |-> blocks \cup
     {local("x", lit(1)), local("x", lit(2)), print(name("x")), <<"set", "x", lit(3)>>,
      <<"pairset", "x", "y", 4, 5>>, <<"pair", "y", "x", 4, 5>>, local("y", name("x")), print(name("y")),
      local("x", <<"sum", 1, "y">>)}]

Aliases ==
  [first |-> <<local("s", name("string"))>>,
   pieces |-> blocks \cup
     {local("u", <<"member", "string">>), local("u", <<"member", "s">>), local("w", name("u")),
      print(<<"apply", "u", 1>>), print(<<"apply", "w", 1>>), <<"set", "u", name("s")>>}]

Envs ==
  [first |-> <<local("e", <<"getenv", "getfenv">>)>>,
   pieces |-> blocks \cup
     {local("u", <<"field", "e">>), print(<<"apply", "u", 1>>), local("s", <<"global", "_G", "string">>),
      <<"set", "u", name("s")>>, local("string", name("e"))}]

Decoders ==
  [first |-> <<<<"decoder", "f">>>>,
   pieces |-> blocks \cup
     {print(<<"decode", "f", <<<<1, 2, 3>>>>, <<<<1, 3>>>>>>), print(<<"decode", "f", <<<<1>>>>, <<<<>>>>>>),
      print(<<"decode", "f", <<<<1>>, <<2>>>>, <<<<3>>>>>>), local("f", lit(1)), <<"set", "f", name("f")>>}]

MCFamilies == {Tables, Accessors, Caches, Objects, Scalars, Aliases, Envs, Decoders}
MCLibrary == [string |-> "string.char"]
MCPlaces ==
  [string |-> 1, t |-> 2, u |-> 3, w |-> 4, f |-> 5, v |-> 6, c |-> 7, g |-> 8, x |-> 9, y |-> 10, s |-> 11, e |-> 12]

(* `local x = 1 + y` begins with a literal and is none.                    *)
MCSums ==
  {[first |-> <<local("y", lit(2)), local("x", <<"sum", 1, "y">>)>>,
    pieces |-> {print(name("x")), print(name("y")), <<"set", "y", lit(3)>>}]}

--------------------------------------------------------------------------------
(* The helpers, side by side.                                              *)
CONSTANTS Names, Operators, UnaryOps, Brackets, MaxPieces, maxPasses, Width,
          Statements, Conditions, MaxNest, maxSweeps, minEntries, MaxStatements

VARIABLES
  working,
  source, open, pieces, work, before, pass, step,
  call, result,
  program, nest, count, pruned, iter, sweepStep,
  family, original, resolved, resolveStep

MCLiterals == {<<"number", 1>>, <<"number", 2>>, <<"string", <<"a">>>>, <<"op", "false">>}
MCOpeners == {<<"if", "true">>, <<"if", "false">>, <<"if", "c">>, <<"while", "false">>, <<"repeat">>}

K == INSTANCE ConstantFold WITH Literals <- MCLiterals
S == INSTANCE LiteralCalls WITH Calls <- MCCalls
D == INSTANCE DeadCode WITH
  Openers <- MCOpeners, MaxPieces <- MaxNest,
  source <- program, open <- nest, pieces <- count, work <- pruned, step <- sweepStep
R == INSTANCE StaticResolve WITH
  Families <- MCFamilies, Library <- MCLibrary, Places <- MCPlaces,
  source <- original, work <- resolved, step <- resolveStep

N == INSTANCE StaticResolve WITH
  Families <- MCSums, Library <- MCLibrary, Places <- MCPlaces,
  source <- original, work <- resolved, step <- resolveStep

ASSUME TextAssumptions ==
  /\ K!FoldAssumption /\ S!CallsAssumption /\ D!DeadCodeAssumption /\ R!ResolveAssumption

foldVars == <<source, open, pieces, work, before, pass, step>>
callVars == <<call, result>>
sweepVars == <<program, nest, count, pruned, iter, sweepStep>>
resolveVars == <<family, original, resolved, resolveStep>>

IdleLimiter ==
  LimiterInit /\ cooldownMs = (CHOOSE c \in Cooldowns : TRUE) /\ burst = (CHOOSE n \in Bursts : TRUE)

NoFetch ==
  /\ declared = 0 /\ fetchPc = "failed" /\ timer = "cleared" /\ reader = "none"
  /\ sent = 0 /\ total = 0 /\ buffered = 0 /\ text = 0

NoText ==
  /\ K!Init /\ D!Init
  /\ call = <<>> /\ result = <<"keep">>
  /\ family = Tables /\ original = <<>> /\ resolved = <<>> /\ resolveStep = 0

UtilitiesInit ==
  \/ working = "cache" /\ Init /\ IdleLimiter /\ NoFetch /\ NoText
  \/ working = "limiter" /\ Init /\ LimiterInit /\ NoFetch /\ NoText
  \/ working = "fetcher" /\ Init /\ IdleLimiter /\ FetcherInit /\ NoText
  \/ working \in {"fold", "sweep"} /\ Init /\ IdleLimiter /\ NoFetch /\ NoText
  \/ /\ working = "call" /\ Init /\ IdleLimiter /\ NoFetch /\ K!Init /\ D!Init /\ S!Init
     /\ family = Tables /\ original = <<>> /\ resolved = <<>> /\ resolveStep = 0
  \/ /\ working = "resolve" /\ Init /\ IdleLimiter /\ NoFetch /\ K!Init /\ D!Init /\ R!Init
     /\ call = <<>> /\ result = <<"keep">>

noText == <<foldVars, callVars, sweepVars, resolveVars>>
noHelper == <<working, vars, limiterVars, fetcherVars>>

Cache == working = "cache" /\ Next /\ UNCHANGED <<working, limiterVars, fetcherVars, noText>>
Limit == working = "limiter" /\ LimiterNext /\ UNCHANGED <<working, vars, fetcherVars, noText>>
Download == working = "fetcher" /\ FetcherNext /\ UNCHANGED <<working, vars, limiterVars, noText>>
Fold == working = "fold" /\ K!Next /\ UNCHANGED <<noHelper, callVars, sweepVars, resolveVars>>
Call == working = "call" /\ S!Next /\ UNCHANGED <<noHelper, foldVars, sweepVars, resolveVars>>
Sweep == working = "sweep" /\ D!Next /\ UNCHANGED <<noHelper, foldVars, callVars, resolveVars>>
Resolve == working = "resolve" /\ R!Next /\ UNCHANGED <<noHelper, foldVars, callVars, sweepVars>>

UtilitiesSpec ==
  /\ UtilitiesInit
  /\ [][Cache \/ Limit \/ Download \/ Fold \/ Call \/ Sweep \/ Resolve]_<<noHelper, noText>>
  /\ WF_fetcherVars(Expire) /\ WF_fetcherVars(Aborted) /\ WF_fetcherVars(Deliver)

(* Only programs with locals whose value begins with a literal.            *)
SumsSpec ==
  /\ working = "resolve" /\ Init /\ IdleLimiter /\ NoFetch /\ K!Init /\ D!Init /\ N!Init
  /\ call = <<>> /\ result = <<"keep">>
  /\ [][Resolve]_<<noHelper, noText>>

(* Folding keeps the value Lua gives a plain expression, and folding what  *)
(* was folded changes nothing.                                             *)
FoldKeepsValue == working = "fold" => K!FoldKeepsValue /\ K!Idempotent

(* A call with literal arguments in range becomes what Lua answers.        *)
CallsExact == working = "call" => S!CallsExact

(* What dead branches are taken out of runs the same statements on the     *)
(* same variables.                                                         *)
DeadBranchesOnly == working = "sweep" => D!DeadBranchesOnly

(* A program whose tables are immutable prints the same after every pass.  *)
TablesKeepMeaning == working = "resolve" => R!TablesKeepMeaning

(* A local that is bound once to a literal is replaced by its value.       *)
LookupsKeepMeaning == R!LookupsKeepMeaning
==================================================================================
