----------------------------- MODULE IronveilOpcodes -----------------------------
(***************************************************************************)
(* An Ironveil build and how src/deobfuscators/ironveil.ts reads it.       *)
(*                                                                         *)
(* The payload: fragments are put in order, decrypted, decompressed,       *)
(* checked and read as a value, which is null, boolean(b), num(n),         *)
(* bytes(s), list(s) or object(keys and values).  The writing direction is *)
(* that of the obfuscator.                                                 *)
(*                                                                         *)
(* The intermediate form in it and the cipher of its tags: a node is       *)
(* list(<<tag, part, ...>>); its tag is num(encoded) and, once decoded,    *)
(* name(n).  The keystream of a tag depends on all tags before it in its   *)
(* function.                                                               *)
(***************************************************************************)
EXTENDS Integers, SequencesExt, Bitwise

CONSTANTS
  MaxCodes,     \* of a dictionary before the obfuscator resets it
  maxShuffled   \* fragments of which every order is tried

Digits == <<"0", "1", "2", "3", "4", "5", "6", "7", "8", "9", "a", "b", "c", "d", "e", "f">>
Alphabet == Digits \o <<"Z", "T", "F", "N", "S", "A", "O", ";", ":", "[", "]", "{", "}">>

RESET == Len(Alphabet)
END == RESET + 1
First == RESET + 2

null == <<"null">>
boolean(b) == <<"boolean", b>>
num(n) == <<"num", n>>
bytes(s) == <<"bytes", s>>
list(s) == <<"list", s>>
object(s) == <<"object", s>>

--------------------------------------------------------------------------------
(* The state of xorshift32 depends on the key and the position; which      *)
(* function of them it is makes no difference here.                        *)
mask(key, i) == (key * i + (key + i * 29)) % 1024

xorDecryptBytes(codes, key) == [i \in DOMAIN codes |-> codes[i] ^^ mask(key, i)]

known(added, c) == c < RESET \/ c - First + 1 \in DOMAIN added
entryOf(added, c) == IF c < RESET THEN <<Alphabet[c + 1]>> ELSE added[c - First + 1]

Start == [added |-> <<>>, prev |-> <<>>, out |-> <<>>, status |-> "reading"]

take(st, entry) ==
  [st EXCEPT !.added = IF st.prev = <<>> THEN @ ELSE Append(@, Append(st.prev, entry[1])),
             !.prev = entry, !.out = @ \o entry]

feedFault(st, c) ==      \* the entry that a code itself completes is not known
  CASE st.status # "reading" -> st
    [] c = RESET -> [st EXCEPT !.added = <<>>, !.prev = <<>>]
    [] c = END -> [st EXCEPT !.status = "end"]
    [] known(st.added, c) -> take(st, entryOf(st.added, c))
    [] OTHER -> [st EXCEPT !.status = "corrupt"]

(* One code; the next code to be given away stands for what was read last, *)
(* followed by its own first symbol.                                       *)
feed(st, c) ==
  CASE st.status # "reading" -> st
    [] c = RESET -> [st EXCEPT !.added = <<>>, !.prev = <<>>]
    [] c = END -> [st EXCEPT !.status = "end"]
    [] known(st.added, c) -> take(st, entryOf(st.added, c))
    [] c = First + Len(st.added) /\ st.prev # <<>> -> take(st, Append(st.prev, st.prev[1]))
    [] OTHER -> [st EXCEPT !.status = "corrupt"]

(* Half after half, which keeps the recursion shallow.                     *)
RECURSIVE feedAll(_, _, _, _)
feedAll(st, codes, i, j) ==
  IF i = j THEN feed(st, codes[i])
  ELSE LET half == feedAll(st, codes, i, (i + j) \div 2)
       IN  IF half.status = "corrupt" THEN half ELSE feedAll(half, codes, (i + j) \div 2 + 1, j)

lzwDecompress(codes) == feedAll(Start, codes, 1, Len(codes))

(* Two texts with one checksum are left out.                               *)
payloadChecksum(text, seed) == <<seed, text>>

extracted(codes, key) == lzwDecompress(xorDecryptBytes(codes, key))

tryDecode(frags, order, build) ==
  LET st == extracted(FlattenSeq([i \in DOMAIN order |-> frags[order[i]]]), build.key)
  IN  st.status # "corrupt" /\ payloadChecksum(st.out, build.seed) = build.hash

permutations(n) == {f \in [1..n -> 1..n] : IsInjective(f)}

(* The order in the source, then every order of a few fragments.           *)
assembleFragments(frags, build) ==
  LET sequential == [i \in DOMAIN frags |-> i]
      good == IF Len(frags) > maxShuffled THEN {}
              ELSE {f \in permutations(Len(frags)) : tryDecode(frags, f, build)}
      order == IF tryDecode(frags, sequential, build) \/ good = {} THEN sequential
               ELSE CHOOSE f \in good : TRUE
  IN  FlattenSeq([i \in DOMAIN order |-> frags[order[i]]])

--------------------------------------------------------------------------------
(* deserializeTagged: a value and where the text goes on.                  *)
valueOf(digits, base) ==
  FoldLeft(LAMBDA n, d : base * n + (CHOOSE v \in DOMAIN Digits : Digits[v] = d) - 1, 0, digits)

readUntil(s, i, delim) == CHOOSE j \in i..Len(s) : s[j] = delim /\ \A k \in i..j - 1 : s[k] # delim

hexBytes(s) == [j \in 1..((Len(s) + 1) \div 2) |-> valueOf(SubSeq(s, 2 * j - 1, 2 * j), 16)]

RECURSIVE readValue(_, _), readItems(_, _, _)

readItems(s, i, n) ==
  IF n = 0 THEN <<<<>>, i>>
  ELSE LET head == readValue(s, i)
           rest == readItems(s, head[2], n - 1)
       IN  <<<<head[1]>> \o rest[1], rest[2]>>

readValue(s, i) ==
  LET until(delim) == readUntil(s, i + 1, delim)
      size(e) == valueOf(SubSeq(s, i + 1, e - 1), 10)
      items(e, n) == readItems(s, e + 1, n)
  IN CASE s[i] = "Z" -> <<null, i + 1>>
       [] s[i] \in {"T", "F"} -> <<boolean(s[i] = "T"), i + 1>>
       [] s[i] = "N" -> LET e == until(";") IN <<num(size(e)), e + 1>>
       [] s[i] = "S" -> LET e == until(":")
                        IN  <<bytes(hexBytes(SubSeq(s, e + 1, e + size(e)))), e + size(e) + 1>>
       [] s[i] = "A" -> LET e == until("[")  read == items(e, size(e)) IN <<list(read[1]), read[2] + 1>>
       [] s[i] = "O" -> LET e == until("{")  read == items(e, 2 * size(e)) IN <<object(read[1]), read[2] + 1>>

deserializeTagged(s) == readValue(s, 1)[1]

--------------------------------------------------------------------------------
(* The obfuscator: values as text, text as codes, codes as fragments.      *)

RECURSIVE decimal(_)
decimal(n) == IF n < 10 THEN <<Digits[n + 1]>> ELSE Append(decimal(n \div 10), Digits[(n % 10) + 1])

hex(n) == <<Digits[n \div 16 + 1], Digits[(n % 16) + 1]>>

RECURSIVE write(_)
write(v) ==
  LET all(s) == FlattenSeq([i \in DOMAIN s |-> write(s[i])])
  IN CASE v[1] = "null" -> <<"Z">>
       [] v[1] = "boolean" -> IF v[2] THEN <<"T">> ELSE <<"F">>
       [] v[1] = "num" -> <<"N">> \o decimal(v[2]) \o <<";">>
       [] v[1] = "bytes" -> <<"S">> \o decimal(2 * Len(v[2])) \o <<":">>
                            \o FlattenSeq([i \in DOMAIN v[2] |-> hex(v[2][i])])
       [] v[1] = "list" -> <<"A">> \o decimal(Len(v[2])) \o <<"[">> \o all(v[2]) \o <<"]">>
       [] v[1] = "object" -> <<"O">> \o decimal(Len(v[2]) \div 2) \o <<"{">> \o all(v[2]) \o <<"}">>

codeOf(added, w) ==
  IF Len(w) = 1 THEN (CHOOSE c \in DOMAIN Alphabet : Alphabet[c] = w[1]) - 1
  ELSE First - 1 + CHOOSE k \in DOMAIN added : added[k] = w

press(st, symbol) ==
  LET w == Append(st.word, symbol)
      full == Len(st.added) = MaxCodes
  IN CASE Len(w) = 1 \/ (\E k \in DOMAIN st.added : st.added[k] = w) -> [st EXCEPT !.word = w]
       [] OTHER -> [added |-> IF full THEN <<>> ELSE Append(st.added, w), word |-> <<symbol>>,
                    out |-> Append(st.out, codeOf(st.added, st.word)) \o (IF full THEN <<RESET>> ELSE <<>>)]

RECURSIVE pressAll(_, _, _, _)
pressAll(st, text, i, j) ==
  IF i = j THEN press(st, text[i])
  ELSE LET half == pressAll(st, text, i, (i + j) \div 2)
       IN  IF half.word = <<>> THEN half ELSE pressAll(half, text, (i + j) \div 2 + 1, j)

lzwCompress(text) ==
  LET st == pressAll([added |-> <<>>, word |-> <<>>, out |-> <<RESET>>], text, 1, Len(text))
  IN  st.out \o <<codeOf(st.added, st.word), END>>

(* Cut into pieces of at most size codes, in another order.                *)
fragments(codes, count, order) ==
  LET size == (Len(codes) + count - 1) \div count
      piece(k) == SubSeq(codes, (k - 1) * size + 1, IF k * size < Len(codes) THEN k * size ELSE Len(codes))
  IN  [i \in 1..count |-> piece(order[i])]

--------------------------------------------------------------------------------

name(n) == <<"name", n>>

OP_MASK == 65536
Cut(n) == n % OP_MASK

BINARY_NAMES ==
  <<"+", "-", "*", "/", "%", "^", "..", "==", "~=", "<", "<=", ">", ">=", "&", "|", "~", "<<", ">>">>
UNARY_NAMES == <<"-", "not", "#", "~">>
EXPR_NAMES ==
  <<"id", "str", "num", "bool", "nil", "vararg", "binary", "unary", "member", "call", "table",
    "function", "mini">>
STMT_NAMES ==
  <<"local", "assign", "expr", "return", "if", "while", "repeat", "fornum", "forin", "break",
    "continue", "do", "func">>

--------------------------------------------------------------------------------
(* Sixteen-bit words.                                                      *)
rotl16(v, s) == (v % 2 ^ (16 - s)) * 2 ^ s + v \div 2 ^ (16 - s)
rotr16(v, s) == (v % 2 ^ s) * 2 ^ (16 - s) + v \div 2 ^ s

opcodeKeystream(seq, key, salt) ==
  LET m == Cut(key + seq * 149 + salt * 53) ^^ Cut(seq * 17 + salt * 29)
      sp == (key \div 2 ^ (seq % 8)) ^^ Cut(seq * 97 + salt * 11)
      sh == ((seq + salt + (key % 7)) % 15) + 1
  IN  [m |-> m, sh |-> sh, a |-> Cut(sp + salt + seq * 3), ma |-> Cut(m + sp + sh)]

decodeStaticOpcode(encoded, seq, key, salt) ==
  LET ks == opcodeKeystream(seq, key, salt)
  IN  rotr16(Cut((encoded ^^ ks.ma) - ks.a + OP_MASK), ks.sh) ^^ ks.m

(* What the obfuscator does.                                               *)
encodeStaticOpcode(code, seq, key, salt) ==
  LET ks == opcodeKeystream(seq, key, salt)
  IN  Cut(rotl16(code ^^ ks.m, ks.sh) + ks.a) ^^ ks.ma

deriveFunctionKey(opcodeSeed, fnIndex) ==
  LET v == Cut(opcodeSeed + fnIndex * 977 + fnIndex * 131) IN IF v = 0 THEN 1 ELSE v

(* Codes to names; a build lists each name by its place.                   *)
buildStaticOpcodeMap(specs, defSeed, salt, names) ==
  LET seqOf(k) == specs[k][2][2][2][1][2]
      code(k) == decodeStaticOpcode(specs[k][2][1][2], seqOf(k), defSeed, salt)
      codes == {code(k) : k \in DOMAIN specs}
  IN  [c \in codes |-> names[seqOf(Max({k \in DOMAIN specs : code(k) = c}))]]

at(s, k) == IF k \in DOMAIN s THEN s[k] ELSE 0

makeSalts(nodeSalts, binUnarySalts, defaults) ==
  [lval |-> at(nodeSalts, 1), field |-> at(nodeSalts, 2), expr |-> at(nodeSalts, 3), stmt |-> at(nodeSalts, 4),
   binary |-> at(binUnarySalts, 1), unary |-> at(binUnarySalts, 2),
   defBinary |-> at(defaults, 1), defUnary |-> at(defaults, 2), defExpr |-> at(defaults, 3), defStmt |-> at(defaults, 4)]

(* The salts in the order of the source; one that was seen before, in any  *)
(* of the three lists, is not taken again.                                 *)
extractSaltCandidates(found) ==
  LET add(seen, s, v) == IF v \in 1..OP_MASK - 1 /\ v \notin seen \cup Range(s) THEN Append(s, v) ELSE s
      fresh(s, seen) == FoldLeft(LAMBDA r, v : add(seen, r, v), <<>>, s)
  IN  [dec |-> fresh(found.dec, {}), decB |-> fresh(found.decB, Range(found.dec)),
       def |-> fresh(found.def, Range(found.dec) \cup Range(found.decB))]

(* Names of the lists, at least one of each: no salt can fail this.        *)
saltsValid(salts, meta) ==
  \A m \in {buildStaticOpcodeMap(meta.binary, meta.defSeed, salts.defBinary, BINARY_NAMES),
            buildStaticOpcodeMap(meta.expr, meta.defSeed, salts.defExpr, EXPR_NAMES),
            buildStaticOpcodeMap(meta.stmt, meta.defSeed, salts.defStmt, STMT_NAMES)} :
    DOMAIN m # {} /\ \A c \in DOMAIN m : m[c] \in Range(BINARY_NAMES \o EXPR_NAMES \o STMT_NAMES)

resolveDecodeSalts(found, meta) ==
  LET initial == makeSalts(found.dec, found.decB, found.def)
      n == IF Len(found.def) < 4 THEN Len(found.def) ELSE 4
      with(f) == makeSalts(found.dec, found.decB, [i \in 1..n |-> found.def[f[i]]])
      valid == {f \in permutations(n) : saltsValid(with(f), meta)}
  IN  IF saltsValid(initial, meta) \/ valid = {} THEN initial ELSE with(CHOOSE f \in valid : TRUE)

--------------------------------------------------------------------------------
(* What follows the tag of a node, in the order in which it is decoded.    *)
(* Names, texts, functions and mini-expressions are numbers: they are not  *)
(* encoded.                                                                *)
Layout ==
  [id |-> <<"name">>, str |-> <<"text">>, num |-> <<"raw">>, bool |-> <<"raw">>, nil |-> <<>>,
   vararg |-> <<>>, binary |-> <<"binary", "expr", "expr">>, unary |-> <<"unary", "expr">>,
   member |-> <<"expr", "key", "raw">>, call |-> <<"expr", "exprs", "raw">>,
   table |-> <<"fields">>, function |-> <<"fn">>, mini |-> <<"mini">>,
   local |-> <<"names", "exprs">>, assign |-> <<"lvals", "exprs">>, expr |-> <<"expr">>,
   return |-> <<"exprs">>, if |-> <<"branches", "stmts">>, while |-> <<"expr", "stmts">>,
   repeat |-> <<"stmts", "expr">>, fornum |-> <<"name", "expr", "expr", "expr", "stmts">>,
   forin |-> <<"names", "exprs", "stmts">>, break |-> <<>>, continue |-> <<>>, do |-> <<"stmts">>,
   func |-> <<"raw", "lval", "fn">>,
   array |-> <<"expr">>, record |-> <<"name", "expr">>, general |-> <<"expr", "expr">>]

Raw == {"raw", "name", "names", "text", "fn", "mini"}

(* The roles of the parts a, the first of which is the tag: the key of a   *)
(* member is an expression if its last part says so.                       *)
rolesOf(tag, a) ==
  [i \in DOMAIN Layout[tag] |->
     CASE Layout[tag][i] # "key" -> Layout[tag][i] [] a[4] = num(1) -> "expr" [] OTHER -> "name"]

single == [exprs |-> "expr", stmts |-> "stmt", lvals |-> "lval", fields |-> "field", branches |-> "branch"]

Fresh == [nodeSeq |-> 0, opSeq |-> 0, prevNode |-> 0, prevOp |-> 0, nodeHash |-> 0, opHash |-> 0]

mixState(prev, hash, seq, salt) == Cut(prev * 131 + hash * 17 + salt + seq)
advanceHash(hash, delta, seq, salt) == Cut(hash * 257 + delta + salt + seq)

(* The state once a tag has turned out to be resolved.                     *)
nodeAfter(st, resolved, salt) ==
  [st EXCEPT !.nodeSeq = @ + 1, !.prevNode = resolved,
             !.nodeHash = advanceHash(@, resolved, st.nodeSeq + 1, salt)]
opAfter(st, resolved, salt) ==
  [st EXCEPT !.opSeq = @ + 1, !.prevOp = resolved,
             !.opHash = advanceHash(@, resolved, st.opSeq + 1, salt)]

decodeNodeOpcode(encoded, key, salt, st) ==
  decodeStaticOpcode(encoded, st.nodeSeq + 1, key, salt)
    ^^ mixState(st.prevNode, st.nodeHash, st.nodeSeq + 1, salt)
decodeOpOpcode(encoded, key, salt, st) ==
  decodeStaticOpcode(encoded, st.opSeq + 1, key, salt) ^^ mixState(st.prevOp, st.opHash, st.opSeq + 1, salt)

roleName(map, code) == IF code \in DOMAIN map THEN map[code] ELSE "?"

(* Targets and fields are named by their shape.                            *)
shapeName(role, a) ==
  CASE role = "lval" -> IF Len(a) = 2 THEN "id" ELSE "member"
    [] role = "field" -> IF Len(a) = 2 THEN "array" ELSE IF a[2][1] = "num" THEN "record" ELSE "general"

(* decodeExpr, decodeLvalue, decodeField, decodeStmt: x in its role, after *)
(* what st has seen.  D has the key of the function, the salts and maps.   *)
(* A node of unknown name keeps its parts as they are.                     *)
RECURSIVE decode(_, _, _, _), decodeAll(_, _, _, _)

then(done, one) == <<Append(done[1], one[1]), one[2]>>

decodeAll(D, roles, xs, st) ==
  FoldLeft(LAMBDA done, x : then(done, decode(D, roles[Len(done[1]) + 1], x, done[2])), <<<<>>, st>>, xs)

listOf(all) == <<list(all[1]), all[2]>>
nodeOf(tag, all) == <<list(<<tag>> \o all[1]), all[2]>>

decodeOperator(D, role, code, st) ==
  <<name(roleName(D.maps[role], code)), opAfter(st, code, D.salts[role])>>

tagName(D, role, a, code) ==
  IF role \in {"expr", "stmt"} THEN roleName(D.maps[role], code) ELSE shapeName(role, a)

decodeParts(D, a, tag, st) ==
  IF tag = "?" THEN nodeOf(name(tag), <<Tail(a), st>>)
  ELSE nodeOf(name(tag), decodeAll(D, rolesOf(tag, a), Tail(a), st))

decodeNode(D, role, a, code, st) ==
  decodeParts(D, a, tagName(D, role, a, code), nodeAfter(st, code, D.salts[role]))

decode(D, role, x, st) ==
  CASE role \in Raw \/ x = null -> <<x, st>>
    [] role \in {"binary", "unary"} ->
         decodeOperator(D, role, decodeOpOpcode(x[2], D.key, D.salts[role], st), st)
    [] role \in DOMAIN single ->
         listOf(decodeAll(D, [i \in DOMAIN x[2] |-> single[role]], x[2], st))
    [] role = "branch" -> listOf(decodeAll(D, <<"expr", "stmts">>, x[2], st))
    [] OTHER -> decodeNode(D, role, x[2], decodeNodeOpcode(x[2][1][2], D.key, D.salts[role], st), st)

decodeFunction(raw, opcodeSeed, fnIndex, salts, maps) ==
  LET D == [key |-> deriveFunctionKey(opcodeSeed, fnIndex), salts |-> salts, maps |-> maps]
  IN  [params |-> raw[2][1], vararg |-> raw[2][3] = num(1),
       body |-> decode(D, "stmts", raw[2][2], Fresh)[1]]

decodeIr(payload, salts, maps) ==
  LET fns == payload[2][3][2]
  IN  [entry |-> payload[2][2][2],
       fns |-> [i \in DOMAIN fns |-> decodeFunction(fns[i], payload[2][4][2][1][2], i, salts, maps)]]

--------------------------------------------------------------------------------
(* The obfuscator walks the same way, with names in place of codes.        *)
tagOf(x) == x[2][1][2]

RECURSIVE encode(_, _, _, _), encodeAll(_, _, _, _)

encodeAll(D, roles, xs, st) ==
  FoldLeft(LAMBDA done, x : then(done, encode(D, roles[Len(done[1]) + 1], x, done[2])), <<<<>>, st>>, xs)

encodeOperator(D, code, salt, st) ==
  <<num(encodeStaticOpcode(code ^^ mixState(st.prevOp, st.opHash, st.opSeq + 1, salt),
                           st.opSeq + 1, D.key, salt)), opAfter(st, code, salt)>>

encodeNode(D, tag, a, code, salt, st) ==
  nodeOf(num(encodeStaticOpcode(code ^^ mixState(st.prevNode, st.nodeHash, st.nodeSeq + 1, salt),
                                st.nodeSeq + 1, D.key, salt)),
         encodeAll(D, rolesOf(tag, a), Tail(a), nodeAfter(st, code, salt)))

encode(D, role, x, st) ==
  CASE role \in Raw \/ x = null -> <<x, st>>
    [] role \in {"binary", "unary"} -> encodeOperator(D, D.codes[role][x], D.salts[role], st)
    [] role \in DOMAIN single ->
         listOf(encodeAll(D, [i \in DOMAIN x[2] |-> single[role]], x[2], st))
    [] role = "branch" -> listOf(encodeAll(D, <<"expr", "stmts">>, x[2], st))
    [] OTHER -> encodeNode(D, tagOf(x), x[2], D.codes[role][tagOf(x)], D.salts[role], st)

--------------------------------------------------------------------------------
(* trimDeadIfs: one branch, nothing else, a condition that is false as it  *)
(* stands or as a single step of a mini-expression.                        *)
isLiteralFalseCondition(cond) ==
  \/ tagOf(cond) = "bool" /\ cond[2][2] # num(1)
  \/ /\ tagOf(cond) = "mini" /\ Len(cond[2][2][2]) = 1
     /\ LET step == cond[2][2][2][1] IN step[2][1] = num(4) /\ step[2][2] # num(1)

isDeadIf(x) ==
  /\ tagOf(x) = "if" /\ Len(x[2][2][2]) = 1 /\ x[2][3] \in {null, list(<<>>)}
  /\ isLiteralFalseCondition(x[2][2][2][1][2][1])

blocksOf == [while |-> 3, repeat |-> 2, fornum |-> 6, forin |-> 4, do |-> 2]

RECURSIVE trimDeadIfs(_), visitStmtForTrim(_)

trimDeadIfs(stmts) ==
  IF stmts = null THEN null
  ELSE LET live == SelectSeq(stmts[2], LAMBDA x : ~isDeadIf(x))
       IN  list([i \in DOMAIN live |-> visitStmtForTrim(live[i])])

visitStmtForTrim(x) ==
  CASE tagOf(x) = "if" ->
         list([x[2] EXCEPT ![2] = list([i \in DOMAIN @[2] |-> list(<<@[2][i][2][1], trimDeadIfs(@[2][i][2][2])>>)]),
                           ![3] = trimDeadIfs(@)])
    [] tagOf(x) \in DOMAIN blocksOf -> list([x[2] EXCEPT ![blocksOf[tagOf(x)]] = trimDeadIfs(@)])
    [] OTHER -> x
==================================================================================
