------------------------------- MODULE StaticResolve -----------------------------
(***************************************************************************)
(* The passes of src/passes/static-resolve.ts that look tables up while    *)
(* the source is read, recoverSemanticIdentifiers with propagateAliases,   *)
(* and propagateImmutableLocals of src/passes/advanced-cleanup.ts, in the  *)
(* order of one cleanup round of src/deobfuscators/multipass.ts.  A writer *)
(* puts a program of at most MaxStatements statements together:            *)
(*   <<"local", n, e>>, <<"set", n, e>>       local n = e       n = e      *)
(*   <<"pair", n, m, v, w>>                   local n, m = v, w            *)
(*   <<"pairset", n, m, v, w>>                n, m = v, w                  *)
(*   <<"store", n, k, e>>                     n[k] = e                     *)
(*   <<"store2", n, o, k, v>>                 n[o][k] = v                  *)
(*   <<"accessor", f, n, form, c>>  local function f(x) return n[x + c] end*)
(*   <<"cached", f, n>>        local function f(a, k) return n[k] end      *)
(*   <<"decoder", f>>   local function f(d, k), the loop that exclusive-ors *)
(*   <<"do">>, <<"end">>, <<"print", e>>, <<"for">> (a loop without body)  *)
(* with expressions <<"lit", v>>, <<"table", vs>>, <<"name", n>>,          *)
(* <<"sum", v, n>> (v + n), <<"index", n, k>>, <<"index2", n, o, k>>,      *)
(* <<"member", n>> (n.char), <<"field", n>> (n["string"]["char"]),         *)
(* <<"getenv", "getfenv">> (getfenv()), <<"global", "_G", n>> (_G["n"]),   *)
(* <<"apply", f, k>>, <<"apply2", f, k>> and <<"decode", f, ds, ks>>, where *)
(* ds and ks are the texts that .. joins in the arguments.                 *)
(***************************************************************************)
EXTENDS Integers, SequencesExt, Bitwise

CONSTANTS
  Families,       \* how a program may begin, and the statements it goes on with
  Library,        \* the standard tables, each with the name of a member
  Places,         \* every variable of a program, numbered from 1
  minEntries,     \* an object table has that many scalars
  MaxStatements   \* after the beginning

ResolveAssumption ==
  /\ Range(Places) = 1..Cardinality(DOMAIN Places) /\ DOMAIN Library \subseteq DOMAIN Places
  /\ minEntries \in Nat /\ MaxStatements \in Nat

VARIABLES family, source, work, step

vars == <<family, source, work, step>>

Passes == <<"env", "stdlib", "xor", "offset", "cache", "object", "table", "semantic", "propagate">>

lit(v) == <<"lit", v>>
Broken == <<"broken">>     \* text that is no Lua

declares(s) ==
  CASE s[1] = "local" -> {s[2]} [] s[1] = "pair" -> {s[2], s[3]} [] OTHER -> {}

locals(prog, n) == {i \in DOMAIN prog : prog[i][1] = "local" /\ prog[i][2] = n}
decls(prog, n, kinds) == {i \in locals(prog, n) : prog[i][3][1] \in kinds}

(* `n =` without a local before it.  The names of a list but the last one  *)
(* are missed.                                                             *)
assigns(s, n) == (s[1] = "set" /\ s[2] = n) \/ (s[1] = "pairset" /\ s[3] = n)
assigned(prog, n) == \E i \in DOMAIN prog : assigns(prog[i], n)

(* `n =`, whether a local comes before it or not.                          *)
writes(s, n) == assigns(s, n) \/ (s[1] = "local" /\ s[2] = n) \/ (s[1] = "pair" /\ s[3] = n)

(* f is the edit of an expression; a target that is edited breaks.         *)
edited(prog, f(_)) ==
  [i \in DOMAIN prog |->
     LET s == prog[i]
         target == CASE s[1] = "store" -> <<"index", s[2], s[3]>>
                     [] s[1] = "store2" -> <<"index2", s[2], s[3], s[4]>>
                     [] OTHER -> Broken
     IN  CASE s[1] \in {"local", "set"} -> <<s[1], s[2], f(s[3])>>
           [] s[1] = "print" -> <<s[1], f(s[2])>>
           [] target # Broken /\ f(target) # target -> Broken
           [] s[1] = "store" -> <<s[1], s[2], s[3], f(s[4])>>
           [] OTHER -> s]

(* What begins with a name.                                                *)
Bound == {"name", "member", "field", "global", "getenv", "index", "index2", "apply", "apply2", "decode"}

entry(table, k) == IF k \in DOMAIN table THEN lit(table[k]) ELSE Broken

--------------------------------------------------------------------------------
staticTableFault(prog, n) ==      \* the assignments not counted
  LET d == decls(prog, n, {"table"})
  IN  IF Cardinality(locals(prog, n)) = 1 /\ d # {} THEN prog[Min(d)][3][2] ELSE <<>>

(* inlineStaticTables: a table of literals declared once and never         *)
(* assigned, and its aliases.  Stores into it are not looked for.          *)
staticTable(prog, n) ==
  LET d == decls(prog, n, {"table"})
  IN  IF Cardinality(locals(prog, n)) = 1 /\ d # {} /\ ~assigned(prog, n)
      THEN prog[Min(d)][3][2] ELSE <<>>

aliasOf(prog, n) ==
  LET d == decls(prog, n, Bound)
  IN  IF d = {} THEN <<>> ELSE <<prog[Max(d)][3][2]>>

RECURSIVE resolveTable(_, _, _)
resolveTable(prog, n, depth) ==
  CASE depth > 4 -> <<>>
    [] staticTable(prog, n) # <<>> -> staticTable(prog, n)
    [] OTHER -> IF aliasOf(prog, n) = <<>> THEN <<>>
                ELSE resolveTable(prog, aliasOf(prog, n)[1], depth + 1)

inlineStaticTables(prog) ==
  edited(prog, LAMBDA e : IF e[1] \notin {"index", "index2"} THEN e
                          ELSE LET v == entry(resolveTable(prog, e[2], 0), e[3])
                               IN CASE v = Broken -> e [] e[1] = "index" -> v [] OTHER -> Broken)

(* normalizeEnvStdlibAliases: calls of a local bound once to a member      *)
(* behind what some local before it took from getfenv().                   *)
normalizeEnvStdlibAliases(prog) ==
  LET envs(i) == {prog[j][2] : j \in {j \in 1..i - 1 : prog[j][1] = "local" /\ prog[j][3][1] = "getenv"}}
      behind(n) == {i \in decls(prog, n, {"field"}) : prog[i][3][2] \in envs(i)}
      called(n) == Cardinality(behind(n)) = 1
  IN  edited(prog, LAMBDA e : IF e[1] = "apply" /\ called(e[2])
                              THEN <<"apply", Library["string"], e[3]>> ELSE e)

(* foldSimpleXorDecoderFunctions: calls of a decoder with two literals; of *)
(* an argument that goes on only the first is looked at.                   *)
xorBytes(data, key) == [i \in DOMAIN data |-> data[i] ^^ key[(i % Len(key)) + 1]]

foldSimpleXorDecoderFunctions(prog) ==
  LET decoder(f) == \E i \in DOMAIN prog : prog[i] = <<"decoder", f>>
  IN  edited(prog, LAMBDA e : IF e[1] = "decode" /\ decoder(e[2]) /\ e[4][1] # <<>>
                              THEN lit(xorBytes(e[3][1], e[4][1])) ELSE e)

(* inlineOffsetTableLookups: f(k) with the accessor of a static table.     *)
offsetOf(form, c) == IF form \in {"x+c", "c+x"} THEN c ELSE -c

(* `c - x` would need the index c - k.                                     *)
inlineOffsetTableLookups(prog) ==
  LET accessors(f) == {i \in DOMAIN prog : /\ prog[i][1] = "accessor" /\ prog[i][2] = f
                                           /\ staticTable(prog, prog[i][3]) # <<>>}
      value(a, k) == entry(staticTable(prog, a[3]), k + offsetOf(a[4], a[5]))
      looked(e) == IF accessors(e[2]) = {} THEN Broken ELSE value(prog[Max(accessors(e[2]))], e[3])
  IN  edited(prog, LAMBDA e : IF e[1] # "apply" THEN e ELSE IF looked(e) = Broken THEN e ELSE looked(e))

(* inlineNumericCacheAccessors: the last literal stored, wherever it is.   *)
inlineNumericCacheAccessors(prog) ==
  LET cache(n) == decls(prog, n, {"table"}) # {}
      accessors(f) == {i \in DOMAIN prog : prog[i][1] = "cached" /\ prog[i][2] = f /\ cache(prog[i][3])}
      stores(n, k) == {i \in DOMAIN prog : /\ prog[i][1] = "store" /\ prog[i][2] = n /\ prog[i][3] = k
                                           /\ prog[i][4][1] \in {"lit", "sum"}}
      known(e) == IF accessors(e[2]) = {} THEN {} ELSE stores(prog[Max(accessors(e[2]))][3], e[3])
      value(s) == IF s[4][1] = "lit" THEN s[4] ELSE lit(s[4][2])
  IN  edited(prog, LAMBDA e : IF e[1] # "apply2" THEN e
                              ELSE IF known(e) = {} THEN e ELSE value(prog[Max(known(e))]))

(* inlineIndexedObjectTableLookups: `n[o] = {...}`.  The slots of all      *)
(* outer keys are one map; a slot some n[o][k] = v writes is left alone.   *)
slots(prog, n, k) ==
  {i \in DOMAIN prog : /\ prog[i][1] = "store" /\ prog[i][2] = n /\ prog[i][4][1] = "table"
                       /\ Len(prog[i][4][2]) >= minEntries /\ k \in DOMAIN prog[i][4][2]}
written(prog, n, k) ==
  \E i \in DOMAIN prog : prog[i][1] = "store2" /\ prog[i][2] = n /\ prog[i][4] = k
slot(prog, n, k) ==
  IF slots(prog, n, k) = {} \/ written(prog, n, k) THEN Broken
  ELSE lit(prog[Max(slots(prog, n, k))][4][2][k])

(* `for` and its `do` both open a block, but one `end` closes them.        *)
blockDepth(prog, openers) ==
  LET d[i \in 0..Len(prog)] ==
        IF i = 0 THEN 0
        ELSE d[i - 1] + (CASE prog[i][1] \in openers -> 1 [] prog[i][1] = "end" -> -1 [] OTHER -> 0)
  IN  d

(* An alias `local a = n[o]` holds to the end of its block.                *)
aliasAt(prog, a, i) ==
  LET depth == blockDepth(prog, {"do", "for"})
      open(d) == \A j \in d..i : depth[j] >= depth[d]
      kept(d) == \A j \in d + 1..Len(prog) :
                   (\A m \in d..j : depth[m] >= depth[d]) => ~writes(prog[j], a)
      good == {d \in decls(prog, a, {"index"}) : d < i /\ open(d) /\ kept(d)}
  IN  IF good = {} THEN 0 ELSE Min(good)

inlineIndexedObjectTableLookups(prog) ==
  LET aliased(e, i) == IF aliasAt(prog, e[2], i) = 0 THEN Broken
                       ELSE slot(prog, prog[aliasAt(prog, e[2], i)][3][2], e[3])
      known(e, i) == CASE e[1] = "index2" -> slot(prog, e[2], e[4])
                       [] e[1] = "index" -> aliased(e, i)
                       [] OTHER -> Broken
  IN  [i \in DOMAIN prog |-> edited(prog, LAMBDA e : IF known(e, i) = Broken THEN e ELSE known(e, i))[i]]

(* normalizeStdlibAliases: calls of a local bound once to a standard name, *)
(* through other locals, become calls of that name.                        *)
RECURSIVE stdlib(_, _, _)
stdlib(prog, n, seen) ==
  LET d == decls(prog, n, Bound)
      e == prog[Max(d)][3]
      base == IF e[2] \in DOMAIN Library THEN {e[2]} ELSE stdlib(prog, e[2], seen \cup {n})
  IN CASE n \in seen \/ d = {} -> {}
       [] e[1] \in {"field", "global"} -> {}
       [] e[1] = "member" -> {Library[b] : b \in base \cap DOMAIN Library}
       [] OTHER -> base

standard(prog, n) == IF Cardinality(decls(prog, n, Bound)) = 1 THEN stdlib(prog, n, {}) ELSE {}

normalizeStdlibAliases(prog) ==
  LET called(e) == IF e[1] = "apply" /\ standard(prog, e[2]) # {}
                   THEN <<"apply", CHOOSE l \in standard(prog, e[2]) : TRUE, e[3]>> ELSE e
      declared(i) == LET s == prog[i]
                     IN  /\ s[1] = "local" /\ s[3][1] \in {"name", "member", "index"}
                         /\ standard(prog, s[2]) # {}
                         /\ ~\E j \in i + 1..Len(prog) : writes(prog[j], s[2])
  IN  [i \in DOMAIN prog |->
         IF declared(i) THEN <<"local", prog[i][2], <<"name", CHOOSE l \in standard(prog, prog[i][2]) : TRUE>>>>
         ELSE edited(prog, called)[i]]

(* propagateImmutableLocals: what follows the first token of the value is  *)
(* not looked at, and the last name of a list is given the first value.    *)
literalOf(prog, n) ==
  LET d == {i \in DOMAIN prog : \/ prog[i][1] = "local" /\ prog[i][2] = n /\ prog[i][3][1] \in {"lit", "sum"}
                                \/ prog[i][1] = "pair" /\ prog[i][3] = n}
      once == Cardinality({i \in DOMAIN prog : n \in declares(prog[i])}) = 1
      s == prog[Max(d)]
  IN  IF d # {} /\ once /\ ~assigned(prog, n)
      THEN lit(IF s[1] = "pair" THEN s[4] ELSE s[3][2]) ELSE Broken

(* A literal that is indexed or called is no Lua; a number may be added.   *)
propagate(prog, e) ==
  LET v == IF e[1] \in {"lit", "table", "broken"} THEN Broken
           ELSE literalOf(prog, IF e[1] = "sum" THEN e[3] ELSE e[2])
  IN CASE v = Broken -> e
       [] e[1] = "name" -> v
       [] e[1] = "sum" -> lit(e[2] + v[2])
       [] OTHER -> Broken

propagateImmutableLocals(prog) ==
  [i \in DOMAIN prog |->
     LET s == prog[i]
         read == CASE s[1] = "pairset" -> s[2] [] s[1] \in {"accessor", "cached"} -> s[3] [] OTHER -> ""
     IN  IF read # "" /\ literalOf(prog, read) # Broken THEN Broken
         ELSE edited(prog, LAMBDA e : propagate(prog, e))[i]]

(* propagateAliases: `local a = b` where a is written once.  A local with  *)
(* a value is counted at `local` and again at its name, so never once.     *)
writeCount(prog, n) ==
  2 * Cardinality(locals(prog, n))
  + Cardinality({i \in DOMAIN prog : assigns(prog[i], n) \/ (prog[i][1] = "pair" /\ prog[i][3] = n)})

RECURSIVE aliasTarget(_, _, _)
aliasTarget(prog, n, seen) ==
  LET d == {i \in decls(prog, n, Bound) :
              LET b == prog[i][3][2]
              IN  b # n /\ writeCount(prog, n) = 1 /\ (writeCount(prog, b) = 0 \/ locals(prog, b) # {})}
  IN  IF d = {} \/ n \in seen THEN n ELSE aliasTarget(prog, prog[Max(d)][3][2], seen \cup {n})

propagateAliases(prog) ==
  edited(prog, LAMBDA e : CASE e[1] = "sum" -> <<"sum", e[2], aliasTarget(prog, e[3], {})>>
                            [] e[1] \in Bound -> [e EXCEPT ![2] = aliasTarget(prog, @, {})]
                            [] OTHER -> e)

(* recoverSemanticIdentifiers: _G["string"] becomes string.                *)
recoverSemanticIdentifiers(prog) ==
  edited(propagateAliases(prog),
         LAMBDA e : IF e[1] = "global" /\ e[3] \in DOMAIN Library THEN <<"name", e[3]>> ELSE e)

--------------------------------------------------------------------------------

depthNow == blockDepth(source, {"do"})[Len(source)]

Init == family \in Families /\ source = family.first /\ work = <<>> /\ step = 0

room(s) ==
  IF s = <<"end">> THEN depthNow > 0
  ELSE Len(source) + depthNow + (IF s = <<"do">> THEN 2 ELSE 1) <= Len(family.first) + MaxStatements

WriteStatement ==
  /\ step = 0
  /\ \E s \in family.pieces : room(s) /\ source' = Append(source, s)
  /\ UNCHANGED <<family, work, step>>

Start == step = 0 /\ depthNow = 0 /\ source # <<>> /\ step' = 1 /\ work' = source /\ UNCHANGED <<family, source>>

pass(name, prog) ==
  /\ step \in DOMAIN Passes /\ Passes[step] = name
  /\ work' = prog /\ step' = step + 1 /\ UNCHANGED <<family, source>>

NormalizeEnv == pass("env", normalizeEnvStdlibAliases(work))
FoldDecoders == pass("xor", foldSimpleXorDecoderFunctions(work))
RecoverSemantic == pass("semantic", recoverSemanticIdentifiers(work))
NormalizeAliases == pass("stdlib", normalizeStdlibAliases(work))
InlineOffsets == pass("offset", inlineOffsetTableLookups(work))
InlineCaches == pass("cache", inlineNumericCacheAccessors(work))
InlineObjects == pass("object", inlineIndexedObjectTableLookups(work))
InlineTables == pass("table", inlineStaticTables(work))
Propagate == pass("propagate", propagateImmutableLocals(work))

Done == step > Len(Passes) /\ UNCHANGED vars

Next ==
  \/ WriteStatement \/ Start \/ NormalizeEnv \/ NormalizeAliases \/ FoldDecoders \/ InlineOffsets
  \/ InlineCaches \/ InlineObjects \/ InlineTables \/ RecoverSemantic \/ Propagate \/ Done

Spec == Init /\ [][Next]_vars

--------------------------------------------------------------------------------
(* What Lua makes of a program: the values it prints, and whether it ends  *)
(* with an error.  A name is bound to a place in mem, a table is in heap.  *)

Nil == <<"nil">>
Error == <<"error">>
Members == Range(Library)

expression(s) ==
  CASE s[1] \in {"local", "set"} -> s[3] [] s[1] = "print" -> s[2] [] s[1] = "store" -> s[4] [] OTHER -> lit(0)

Named == DOMAIN Places

Start0 ==
  [envs |-> <<Places>>, heap |-> <<>>, out |-> <<>>, ok |-> TRUE,
   mem |-> [k \in 1..Cardinality(Named) |->
              LET n == CHOOSE n \in Named : Places[n] = k
              IN  IF n \in DOMAIN Library THEN <<"lib", n>> ELSE Nil]]

member(v) == IF v[1] = "lib" /\ v[2] \in DOMAIN Library THEN <<"lib", Library[v[2]]>> ELSE Error

get(st, env, n) ==
  IF n \in Members THEN member(st.mem[env[CHOOSE b \in DOMAIN Library : Library[b] = n]])
  ELSE st.mem[env[n]]

indexed(st, v, k) ==
  IF v[1] # "ref" THEN Error ELSE IF k \in DOMAIN st.heap[v[2]] THEN st.heap[v[2]][k] ELSE Nil

(* byte(sub(s, i, i + 1)) is the byte at i, counted from 1.                *)
decoded(f, data, key) ==
  LET byte(str, i) == str[i]
  IN  IF f # <<"decoder">> \/ key = <<>> THEN Error
      ELSE <<"value", [i \in DOMAIN data |-> byte(data, i) ^^ byte(key, 1 + (i % Len(key)))]>>

argument(form, k, c) == CASE form \in {"x+c", "c+x"} -> k + c [] form = "x-c" -> k - c [] OTHER -> c - k

applied(st, f, k) ==
  CASE f[1] = "fn" -> indexed(st, get(st, f[5], f[2]), argument(f[3], k, f[4]))
    [] f[1] = "lib" -> <<"result", f[2], k>>
    [] OTHER -> Error

eval(st, env, e) ==
  CASE e[1] = "lit" -> <<"value", e[2]>>
    [] e[1] = "table" -> <<"ref", Len(st.heap) + 1>>
    [] e[1] = "name" -> get(st, env, e[2])
    [] e[1] = "sum" -> LET v == get(st, env, e[3]) IN IF v[1] = "value" THEN <<"value", e[2] + v[2]>> ELSE Error
    [] e[1] = "index" -> indexed(st, get(st, env, e[2]), e[3])
    [] e[1] = "index2" -> indexed(st, indexed(st, get(st, env, e[2]), e[3]), e[4])
    [] e[1] = "member" -> member(get(st, env, e[2]))
    [] e[1] = "getenv" -> <<"env">>
    [] e[1] = "field" -> IF get(st, env, e[2]) = <<"env">> THEN member(st.mem[Places["string"]]) ELSE Error
    [] e[1] = "global" -> st.mem[Places[e[3]]]
    [] e[1] = "decode" -> decoded(get(st, env, e[2]), FlattenSeq(e[3]), FlattenSeq(e[4]))
    [] e[1] = "apply2" -> LET f == get(st, env, e[2]) IN IF f[1] = "fn" THEN applied(st, f, e[3]) ELSE Error
    [] OTHER -> applied(st, get(st, env, e[2]), e[3])

built(heap, e) == IF e[1] = "table" THEN Append(heap, [k \in DOMAIN e[2] |-> <<"value", e[2][k]>>]) ELSE heap

bind(st, names, values) ==
  LET env == Head(st.envs)
  IN  [st EXCEPT !.envs = <<[n \in Named |-> IF \E k \in DOMAIN names : names[k] = n
                                             THEN Len(st.mem) + (CHOOSE k \in DOMAIN names : names[k] = n)
                                             ELSE env[n]]>> \o Tail(st.envs),
                 !.mem = st.mem \o values]

put(st, n, v) == [st EXCEPT !.mem[Head(st.envs)[n]] = v]
putIn(st, t, k, v) ==
  IF t[1] # "ref" THEN [st EXCEPT !.ok = FALSE]
  ELSE [st EXCEPT !.heap[t[2]] = [m \in DOMAIN @ \cup {k} |-> IF m = k THEN v ELSE @[m]]]
value(v) == <<"value", v>>

Run(st, s) ==
  LET env == Head(st.envs)
      e == expression(s)
      v == eval(st, env, e)
      with == [st EXCEPT !.heap = built(@, e)]
  IN CASE ~st.ok -> st
       [] v = Error -> [st EXCEPT !.ok = FALSE]
       [] s[1] = "local" -> bind(with, <<s[2]>>, <<v>>)
       [] s[1] = "set" -> put(with, s[2], v)
       [] s[1] = "pair" -> bind(st, <<s[2], s[3]>>, <<value(s[4]), value(s[5])>>)
       [] s[1] = "pairset" -> put(put(st, s[2], value(s[4])), s[3], value(s[5]))
       [] s[1] = "store" -> putIn(with, get(st, env, s[2]), s[3], v)
       [] s[1] = "store2" -> putIn(st, indexed(st, get(st, env, s[2]), s[3]), s[4], value(s[5]))
       [] s[1] = "accessor" -> bind(st, <<s[2]>>, <<<<"fn", s[3], s[4], s[5], env>>>>)
       [] s[1] = "cached" -> bind(st, <<s[2]>>, <<<<"fn", s[3], "x+c", 0, env>>>>)
       [] s[1] = "decoder" -> bind(st, <<s[2]>>, <<<<"decoder">>>>)
       [] s[1] = "do" -> [st EXCEPT !.envs = <<env>> \o @]
       [] s[1] = "end" -> [st EXCEPT !.envs = Tail(@)]
       [] s[1] = "print" -> [st EXCEPT !.out = Append(@, v)]
       [] OTHER -> st

broken(prog) == \E i \in DOMAIN prog : prog[i] = Broken \/ expression(prog[i]) = Broken

Meaning(prog) ==
  IF broken(prog) THEN <<"malformed">>
  ELSE LET end == FoldLeft(Run, Start0, prog) IN IF end.ok THEN <<"ran", end.out>> ELSE Error

--------------------------------------------------------------------------------

Functions == {"accessor", "cached", "decoder"}

bindings(n) ==
  {i \in DOMAIN source : \/ writes(source[i], n)
                         \/ source[i][1] \in Functions /\ source[i][2] = n}

uses(s) ==
  LET e == expression(s)
  IN  (CASE e[1] \in Bound -> {e[2]} [] e[1] = "sum" -> {e[3]} [] OTHER -> {})
      \cup (IF s[1] \in {"store", "store2"} THEN {s[2]} ELSE IF s[1] \in {"accessor", "cached"} THEN {s[3]} ELSE {})

inScope(n, i) ==
  \A d \in bindings(n) :
    d < i /\ \A j \in d..i : blockDepth(source, {"do"})[j] >= blockDepth(source, {"do"})[d]

statements(kinds) == {i \in DOMAIN source : source[i][1] \in kinds}
prints == statements({"print"})
aliases == {i \in statements({"local"}) : expression(source[i])[1] \in Bound}

(* Where looking tables up is right: what is bound once is used in its     *)
(* scope; aliases and functions are bound once, libraries never; a value   *)
(* and an argument of a decoder is one literal; an entry is stored once,   *)
(* before anything is printed, into a table that is read in no other way;  *)
(* an object table has one outer key.                                      *)
immutable ==
  /\ statements({"pair", "pairset"}) = {} /\ \A n \in DOMAIN Library : bindings(n) = {}
  /\ \A i \in DOMAIN source :
       /\ expression(source[i])[1] # "sum"
       /\ source[i][1] = "accessor" => source[i][4] # "c-x"
       /\ i \in aliases \cup statements(Functions) => bindings(source[i][2]) = {i}
       /\ LET e == expression(source[i]) IN e[1] = "decode" => Len(e[3]) = 1 /\ Len(e[4]) = 1
       /\ \A n \in uses(source[i]) : Cardinality(bindings(n)) = 1 => inScope(n, i)
  /\ \A i \in statements({"store"}) :
       LET n == source[i][2]
           object == expression(source[i])[1] = "table"
       IN  /\ Cardinality(bindings(n)) = 1 /\ \A j \in prints : i < j
           /\ expression(source[Min(bindings(n))]) = <<"table", <<>>>>
           /\ i \notin {j \in DOMAIN source : \E d \in statements({"do"}) : d < j}
           /\ \A j \in DOMAIN source \ {i} :
                n \in uses(source[j]) =>
                  CASE source[j][1] = "store" -> ~object /\ source[j][3] # source[i][3]
                    [] source[j][1] = "cached" -> ~object
                    [] source[j][1] \in {"store2", "local"} -> object
                    [] OTHER -> object /\ expression(source[j])[1] = "index2"

(* A program that runs to its end prints the same after every pass.        *)
LookupsKeepMeaning ==
  step > 0 => Meaning(source) = Error \/ Meaning(work) = Meaning(source)

TablesKeepMeaning == immutable => LookupsKeepMeaning
================================================================================
