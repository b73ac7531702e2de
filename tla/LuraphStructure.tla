----------------------------- MODULE LuraphStructure -----------------------------
(***************************************************************************)
(* The passes of src/vm/luraph-structure.ts and luraph-finalize.ts over    *)
(* the intermediate form, in the order of structureProgram: each operator  *)
(* is one round of a pass.                                                 *)
(***************************************************************************)
EXTENDS LuraphIR, FiniteSets

K_SYM == global("K")

indices(ir) == [i \in DOMAIN ir |-> i]

without(ir, drop) ==
  LET kept == SelectSeq(indices(ir), LAMBDA i : i \notin drop) IN [n \in DOMAIN kept |-> ir[kept[n]]]

least(S) == CHOOSE x \in S : \A y \in S : x <= y

--------------------------------------------------------------------------------
(* Pass 1: stores of numbers, then a clear of the tables they went to.     *)

junkStore(s) ==
  /\ s.kind = "kstore"
  /\ s.obj.k = "reg" /\ s.key.k = "imm" /\ s.val.k \in {"imm", "konst"}

clearsOne(s) == s.kind = "assign" /\ s.src = imm(0)

(* The end of the run of stores, and of instructions without a statement,  *)
(* that begins at i.                                                       *)
runEnd(ir, i) ==
  least({j \in i..Len(ir) :
           j = Len(ir) \/ ~(junkStore(ir[j + 1].stmt) \/ ir[j + 1].stmt = None)})

touchedRegs(ir, i) ==
  {ir[l].stmt.obj.n : l \in {x \in i..runEnd(ir, i) : junkStore(ir[x].stmt)}}

(* The end of what clears them, or 0.                                      *)
clearEnd(ir, i) ==
  LET j == runEnd(ir, i) + 1
      last == least({l \in j..Len(ir) : l = Len(ir) \/ ~clearsOne(ir[l + 1].stmt)})
  IN IF j > Len(ir) THEN 0
     ELSE LET s == ir[j].stmt
          IN CASE s.kind = "clearrange" /\ touchedRegs(ir, i) \subseteq s.lo..s.hi -> j
               [] clearsOne(s) /\ touchedRegs(ir, i) \subseteq {ir[l].stmt.reg : l \in j..last} -> last
               [] OTHER -> 0

removeJunkBlocks(ir) ==
  without(ir, UNION {i..clearEnd(ir, i) : i \in {x \in DOMAIN ir : junkStore(ir[x].stmt)}})

--------------------------------------------------------------------------------
(* Pass 3: a register loaded from a global, a constant or a field and read *)
(* once before it is written again gives its value to that reader.         *)

writes(s, r) ==
  \/ s.kind = "assign" /\ s.reg = r
  \/ s.kind = "callstmt" /\ s.base = r /\ s.retc > 0

chainStep(s, r) ==
  s.kind = "assign" /\ s.reg = r /\ s.src.k = "index" /\ s.src.obj = reg(r)

seedKinds == {"global", "konst", "name", "imm", "index"}

(* The steps R = R.field that end in i, and the instruction they start     *)
(* from, or 0.                                                             *)
chainSteps(ir, i, r) ==
  {w \in 1..i : \A q \in w..i : ir[q].stmt = None \/ chainStep(ir[q].stmt, r)}

baseOf(ir, i, r) ==
  LET before == (1..i) \ chainSteps(ir, i, r)
      b == IF before = {} THEN 0 ELSE CHOOSE x \in before : \A y \in before : y <= x
  IN IF b # 0 /\ ir[b].stmt.kind = "assign" /\ ir[b].stmt.reg = r /\ ir[b].stmt.src.k \in seedKinds
     THEN b ELSE 0

chained(ir, steps, r, seed) ==
  FoldLeft(LAMBDA sym, w : IF w \in steps /\ ir[w].stmt # None
                           THEN index(sym, ir[w].stmt.src.key) ELSE sym,
           seed, indices(ir))

(* The readers of r after i, up to and with the next instruction that      *)
(* writes it.                                                              *)
readers(ir, i, r) ==
  LET ends == {w \in (i + 1)..Len(ir) : writes(ir[w].stmt, r)} \cup {Len(ir)}
  IN {w \in (i + 1)..least(ends) : stmtReadsReg(ir[w].stmt, r)}

emptied(ir, drop) == [w \in DOMAIN ir |-> IF w \in drop THEN [ir[w] EXCEPT !.stmt = None] ELSE ir[w]]

collapseAt(ir, i) ==
  IF ir[i].stmt.kind # "assign" THEN ir
  ELSE
    LET r == ir[i].stmt.reg
        chain == chainStep(ir[i].stmt, r)
        steps == IF chain THEN chainSteps(ir, i, r) ELSE {}
        base == IF chain THEN baseOf(ir, i, r)
                ELSE IF ir[i].stmt.src.k \in seedKinds THEN i ELSE 0
        consumers == readers(ir, i, r)
    IN IF base = 0 \/ consumers = {} \/ consumers # {least(consumers)} THEN ir
       ELSE LET seed == chained(ir, steps, r, ir[base].stmt.src)
                c == least(consumers)
                inlined == [ir EXCEPT ![c].stmt = inlineInStmt(@, r :> seed)]
            IN emptied(inlined, {base} \cup steps)

collapseGlobalChains(ir) ==
  FoldLeft(collapseAt, ir, [i \in 1..(Len(ir) - 1) |-> i])

--------------------------------------------------------------------------------
(* Pass 2: the register most often used as a table of constants.           *)

poolStores(ir, r) ==
  {i \in DOMAIN ir : LET s == ir[i].stmt
                     IN s.kind = "kstore" /\ s.obj = reg(r) /\ s.key.k = "imm"}

(* The first one with the most stores, if these fill three entries.        *)
kPoolRegister(ir) ==
  LET size(r) == Cardinality(poolStores(ir, r))
      most == {r \in Registers : size(r) >= 3 /\ \A q \in Registers : size(q) <= size(r)}
      first == {r \in most : \A q \in most : least(poolStores(ir, r)) <= least(poolStores(ir, q))}
  IN {r \in first : Cardinality({ir[i].stmt.key.v : i \in poolStores(ir, r)}) >= 3}

(* Its entries, the last store of each.                                    *)
kPoolEntries(ir, r) ==
  FoldLeft(LAMBDA entries, i : IF i \in poolStores(ir, r)
                               THEN (ir[i].stmt.key.v :> ir[i].stmt.val) @@ entries ELSE entries,
           <<>>, indices(ir))

rewriteKReg(s, r) ==
  CASE s.kind = "assign" /\ s.reg = r -> comment
    [] s.kind = "clearrange" /\ r \in s.lo..s.hi -> comment
    [] OTHER -> inlineInStmt(s, r :> K_SYM)

extractKPool(ir) ==
  IF kPoolRegister(ir) = {} THEN ir
  ELSE LET r == CHOOSE x \in kPoolRegister(ir) : TRUE
       IN [i \in DOMAIN ir |->
            [ir[i] EXCEPT !.stmt = IF i \in poolStores(ir, r) THEN None ELSE rewriteKReg(@, r)]]

kPool(ir) ==
  IF kPoolRegister(ir) = {} THEN <<>> ELSE kPoolEntries(ir, CHOOSE x \in kPoolRegister(ir) : TRUE)

--------------------------------------------------------------------------------
(* Pass 4: a register written once and read once gives its value to its    *)
(* reader.  Counts and values are those at the start of the round.         *)

writesOf(ir, r) == {i \in DOMAIN ir : writes(ir[i].stmt, r)}

mentions(s) ==
  CASE s.kind = "assign" -> <<s.reg>> \o regsInStmt(s)
    [] s.kind = "callstmt" -> <<s.base>>
    [] OTHER -> regsInStmt(s)

(* The registers in the order in which the round meets them.               *)
met(ir) ==
  FoldLeft(LAMBDA order, r : IF r \in Range(order) THEN order ELSE Append(order, r), <<>>,
           FlattenSeq([i \in DOMAIN ir |-> mentions(ir[i].stmt)]))

readsOf(ir, r) ==
  Len(SelectSeq(FlattenSeq([i \in DOMAIN ir |-> regsInStmt(ir[i].stmt)]), LAMBDA q : q = r))
    + Cardinality({i \in DOMAIN ir : ir[i].stmt.kind = "callstmt" /\ ir[i].stmt.base = r})

(* The definitions named ...Fault are plausible slips in the definition    *)
(* after them and show what a property would notice.                       *)

scratchAtFault(start, ir, r) ==  \* does not count the reads
  IF Cardinality(writesOf(start, r)) # 1 \/ readsOf(start, r) = 0 THEN ir
  ELSE
    LET w == CHOOSE i \in writesOf(start, r) : TRUE
        read == {i \in DOMAIN ir : stmtReadsReg(ir[i].stmt, r)}
    IN IF \/ start[w].stmt.kind # "assign" \/ read = {}
          \/ least(read) <= w \/ ir[least(read)].stmt.kind = "callstmt"
       THEN ir
       ELSE LET inlined == [ir EXCEPT ![least(read)].stmt = inlineInStmt(@, r :> start[w].stmt.src)]
            IN emptied(inlined, {i \in {w} : ir[i].stmt.kind = "assign" /\ ir[i].stmt.reg = r})

scratchAt(start, ir, r) ==
  IF Cardinality(writesOf(start, r)) # 1 \/ readsOf(start, r) # 1 THEN ir
  ELSE
    LET w == CHOOSE i \in writesOf(start, r) : TRUE
        read == {i \in DOMAIN ir : stmtReadsReg(ir[i].stmt, r)}
    IN IF \/ start[w].stmt.kind # "assign"
          \/ read = {}
          \/ least(read) <= w
          \/ ir[least(read)].stmt.kind = "callstmt"
       THEN ir
       ELSE LET inlined == [ir EXCEPT ![least(read)].stmt = inlineInStmt(@, r :> start[w].stmt.src)]
            IN emptied(inlined, {i \in {w} : ir[i].stmt.kind = "assign" /\ ir[i].stmt.reg = r})

propagateScratch(ir) == FoldLeft(LAMBDA x, r : scratchAt(ir, x, r), ir, met(ir))

--------------------------------------------------------------------------------
(* Pass 5: arithmetic on two immediates.                                   *)

foldable(s) ==
  /\ s.kind = "assign" /\ s.src.k = "bin"
  /\ s.src.a.k = "imm" /\ s.src.b.k = "imm"
  /\ s.src.op \in {"+", "-"} \/ (s.src.op = "%" /\ s.src.b.v # 0)

foldArithChains(ir) ==
  [i \in DOMAIN ir |->
    IF foldable(ir[i].stmt)
    THEN [ir[i] EXCEPT !.stmt.src = imm(arith(@.op, num(@.a.v), num(@.b.v))[2])]
    ELSE ir[i]]

--------------------------------------------------------------------------------
(* Pass 6: jumps to bare jumps.                                            *)

(* The instructions that only jump.                                        *)
emptyLabels(ir) ==
  {i \in DOMAIN ir : /\ ir[i].stmt.kind \in {"none", "comment", "clearrange"}
                     /\ ir[i].jumpTo # 0 /\ ir[i].condJump = NoJump}

RECURSIVE resolveChain(_, _, _)
resolveChain(ir, vip, seen) ==
  LET here == {i \in emptyLabels(ir) : ir[i].vip = vip}
  IN IF vip \in seen \/ here = {} THEN vip
     ELSE resolveChain(ir, ir[CHOOSE i \in here : TRUE].jumpTo, seen \cup {vip})

redirected(ir) ==
  [i \in DOMAIN ir |->
    [ir[i] EXCEPT !.jumpTo = resolveChain(ir, @, {}), !.condJump.target = resolveChain(ir, @, {})]]

fallsThrough(ir, i) == i < Len(ir) /\ ir[i].jumpTo = ir[i + 1].vip

eliminateTrivialGotos(ir) ==
  LET to == redirected(ir)
      falling == [i \in DOMAIN to |-> IF fallsThrough(to, i) THEN [to[i] EXCEPT !.jumpTo = 0] ELSE to[i]]
      referenced == UNION {{ins.jumpTo, ins.condJump.target} : ins \in Range(falling)}
  IN without(falling, {i \in emptyLabels(ir) : ir[i].vip \notin referenced})

--------------------------------------------------------------------------------
(* Pass 7: the value last written, in the order of the text.               *)

RECURSIVE isSimple(_)
isSimple(s) ==
  CASE s.k \in {"global", "konst", "name", "imm", "table"} -> TRUE
    [] s.k = "index" -> isSimple(s.obj) /\ isSimple(s.key)
    [] s.k = "un" -> isSimple(s.a)
    [] OTHER -> FALSE

forget(m, S) == [r \in DOMAIN m \ S |-> m[r]]

valueMapAfter(m, s) ==
  CASE s.kind = "assign" /\ isSimple(s.src) -> (s.reg :> s.src) @@ m
    [] s.kind = "assign" /\ ~isSimple(s.src) -> forget(m, {s.reg})
    [] s.kind = "callstmt" /\ s.retc > 0 -> forget(m, {s.base})
    [] s.kind = "clearrange" -> forget(m, s.lo..s.hi)
    [] OTHER -> m

propagateCrossBlockConstants(ir) ==
  FoldLeft(LAMBDA x, ins :
             LET after == valueMapAfter(x.m, ins.stmt)
             IN [m |-> after,
                 ir |-> Append(x.ir, [ins EXCEPT !.stmt = inlineInStmt(@, x.m),
                                                 !.condJump.cond = inlineInSym(@, after)])],
           [m |-> <<>>, ir |-> <<>>], ir).ir

--------------------------------------------------------------------------------
(* structureAndEmit: what is left is printed in order, a label before each *)
(* instruction that is jumped to.                                          *)

structureAndEmit(ir) ==
  SelectSeq(ir, LAMBDA ins : ins.stmt # None \/ ins.jumpTo # 0 \/ ins.condJump # NoJump)

(* The first instruction has no label.                                     *)
labels(listing) == {ins.vip : ins \in Range(listing)} \ {listing[1].vip}

(* A goto without its label: Lua refuses to load the listing.              *)
danglingGotos(listing) ==
  UNION {{ins.jumpTo, ins.condJump.target} \ (labels(listing) \cup {0}) : ins \in Range(listing)}
================================================================================
