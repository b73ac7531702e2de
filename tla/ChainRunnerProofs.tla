--------------------------- MODULE ChainRunnerProofs ---------------------------
(***************************************************************************)
(* Theorems about ChainRunner for every set of links and texts, whatever   *)
(* the texts mention, the servers answer and the engines return.           *)
(***************************************************************************)
EXTENDS ChainRunner, SequenceTheorems, TLAPS

Links == [item : Urls, score : Nat]

(* Ranking a list keeps only entries of the list.                          *)
LEMMA KeepBestSubset == \A list : KeepBest(list) \subseteq list
  BY DEF KeepBest

(* Every link of a text gets a natural score.                              *)
LEMMA ExtractType ==
  ASSUME NEW t \in Texts
  PROVE  extractScriptUrls(t) \subseteq Links
  <1>1. ASSUME NEW m \in mentions[t]
        PROVE [item |-> m.url,
               score |-> IF m.dynamic THEN 5 ELSE usageScore(t)[m.usage]] \in Links
    <2>1. m.url \in Urls /\ m.usage \in Usages
      BY <1>1, ChainAssumption
    <2>2. \A x \in Usages : usageScore(t)[x] \in Nat
      BY DEF Usages, usageScore
    <2>. QED  BY <2>1, <2>2 DEF Links
  <1>. QED  BY <1>1, KeepBestSubset DEF extractScriptUrls

(* The merged pool of several texts is a set of scored links.              *)
LEMMA MergeType ==
  ASSUME NEW ts, ts \subseteq Texts
  PROVE  mergeUrls(ts) \subseteq Links
  BY ExtractType, KeepBestSubset DEF mergeUrls

(* Payloads are texts.                                                     *)
LEMMA PayloadType ==
  ASSUME NEW ts, ts \subseteq Texts, NEW p \in mergeEmbeddedPayloads(ts)
  PROVE  p.item \in Texts
  <1>1. PICK t \in ts : p \in extractEmbeddedLuaPayloads(t)
    BY KeepBestSubset DEF mergeEmbeddedPayloads
  <1>2. PICK l \in literals[t] : p.item = l.text
    BY <1>1, KeepBestSubset DEF extractEmbeddedLuaPayloads
  <1>. QED  BY <1>1, <1>2, ChainAssumption

--------------------------------------------------------------------------------

(* The entries of the three result lists have their types.                 *)
LEMMA StepTypes ==
  ASSUME TypeOK
  PROVE  /\ \A stop \in deadReasons : emptyStep(stop) \in Step
         /\ \A f \in Urls \cup {NoUrl}, stop \in {"none", "max-depth"} :
              source \in Texts => liveStep(f, stop) \in Step
         /\ source \in Texts => pool \subseteq Links
  <1>1. \A stop \in deadReasons : emptyStep(stop) \in Step
    BY DEF TypeOK, emptyStep, Step, deadReasons
  <1>2. ASSUME source \in Texts
        PROVE  searched(source, report) \subseteq Texts
    BY <1>2 DEF TypeOK, searched, hasBest, Report
  <1>3. ASSUME source \in Texts
        PROVE  pool \subseteq Links
    BY <1>2, <1>3, MergeType DEF pool
  <1>4. ASSUME NEW f \in Urls \cup {NoUrl}, NEW stop \in {"none", "max-depth"},
               source \in Texts
        PROVE  liveStep(f, stop) \in Step
    <2>1. mergeUrls(searched(source, report)) \in SUBSET [item : Urls, score : Nat]
      BY <1>3, <1>4 DEF pool, Links
    <2>2. hasBest(report) => /\ report.ok \in BOOLEAN /\ report.confidence \in Nat
                             /\ outputBonus[report.output] \in Nat
      BY ChainAssumption DEF TypeOK, hasBest, Report
    <2>. QED  BY <1>4, <2>1, <2>2 DEF liveStep, Step, TypeOK
  <1>. QED  BY <1>1, <1>3, <1>4

(* A dead hop keeps the types.                                             *)
LEMMA DeadHopType ==
  ASSUME TypeOK, NEW stop \in deadReasons, NEW input \in Texts, deadHop(stop, input),
         seenHashes' \subseteq Texts
  PROVE  TypeOK'
  <1>1. emptyStep(stop) \in Step
    BY StepTypes
  <1>. QED  BY <1>1 DEF TypeOK, deadHop, record

(* So does the record of a live hop, for the variables it sets.            *)
LEMMA LiveType ==
  ASSUME TypeOK, source \in Texts, NEW f \in Urls \cup {NoUrl},
         NEW stop \in {"none", "max-depth"}, recordLive(f, stop)
  PROVE  /\ steps' \in Seq(Step) /\ reports' \in Seq(Report \cup {NoReport})
         /\ inputs' \in Seq(Texts)
         /\ Len(reports') = Len(steps') /\ Len(inputs') = Len(steps')
         /\ finalIndex' \in 0..Len(steps')
         /\ report' = NoReport /\ source' = NoText
         /\ UNCHANGED <<pendingSource, seenHashes, deadHops, ran>>
  <1>1. liveStep(f, stop) \in Step
    BY StepTypes
  <1>2. record(liveStep(f, stop), report, source)
    BY DEF recordLive
  <1>3. Len(steps') = Len(steps) + 1
    BY <1>2 DEF record, TypeOK
  <1>4. finalIndex' \in 0..Len(steps')
    BY <1>3 DEF recordLive, TypeOK
  <1>. QED  BY <1>1, <1>2, <1>4 DEF recordLive, record, TypeOK

(* Every variable keeps its type and the result lists their common length. *)
THEOREM TypeCorrect == Spec => []TypeOK
  <1>1. Init => TypeOK
    BY ChainAssumption DEF Init, TypeOK
  <1>2. TypeOK /\ [Next]_vars => TypeOK'
    <2>. SUFFICES ASSUME TypeOK, [Next]_vars PROVE TypeOK'
      OBVIOUS
    <2>1. CASE UsePendingSource
      BY <2>1 DEF UsePendingSource, TypeOK
    <2>2. CASE Fetch
      BY <2>2 DEF Fetch, TypeOK
    <2>3. CASE EntryFetchError
      <3>1. emptyStep("fetch-error") \in Step
        BY StepTypes DEF deadReasons
      <3>. QED  BY <2>3, <3>1, ChainAssumption DEF EntryFetchError, record, TypeOK
    <2>4. CASE FetchError
      BY <2>4, DeadHopType, ChainAssumption DEF FetchError, deadReasons, TypeOK
    <2>5. CASE Duplicate
      BY <2>5, DeadHopType DEF Duplicate, deadReasons, TypeOK
    <2>6. CASE NotLuaHop
      <3>1. source \in Texts /\ seenHashes' \subseteq Texts
        BY <2>6 DEF NotLuaHop, TypeOK
      <3>. QED  BY <2>6, <3>1, DeadHopType DEF NotLuaHop, deadReasons
    <2>7. CASE TakeUp
      BY <2>7 DEF TakeUp, TypeOK
    <2>8. CASE Deobfuscate
      <3>1. source \in Texts /\ recover[source] \subseteq Report
        BY <2>8, ChainAssumption DEF Deobfuscate, TypeOK
      <3>. QED  BY <2>8, <3>1 DEF Deobfuscate, TypeOK
    <2>9. CASE DeobfuscatePayload
      <3>1. searched(source, report) \subseteq Texts
        BY <2>9 DEF DeobfuscatePayload, TypeOK, searched, hasBest, Report
      <3>2. PICK p \in freshPayloads :
              /\ seenHashes' = seenHashes \cup {p.item}
              /\ ran' = Append(ran, p.item)
              /\ \E nested \in recover[p.item] \cup {NoReport} :
                   report' = IF supersedes(nested) THEN nested ELSE report
        BY <2>9 DEF DeobfuscatePayload
      <3>3. p.item \in Texts
        BY <3>1, PayloadType DEF freshPayloads
      <3>4. report' \in Report \cup {NoReport}
        BY <3>2, <3>3, ChainAssumption DEF TypeOK
      <3>. QED  BY <2>9, <3>2, <3>3, <3>4 DEF DeobfuscatePayload, TypeOK
    <2>10. CASE NoPayload
      BY <2>10 DEF NoPayload, TypeOK
    <2>11. CASE StopAtMaxDepth
      <3>1. source \in Texts /\ pool \subseteq Links
        BY <2>11, StepTypes DEF StopAtMaxDepth, TypeOK
      <3>2. PICK f \in Urls \cup {NoUrl} : recordLive(f, "max-depth")
        BY <2>11, <3>1 DEF StopAtMaxDepth, FirstFollowable, Links
      <3>. QED  BY <2>11, <3>1, <3>2, LiveType DEF StopAtMaxDepth, TypeOK
    <2>12. CASE Descend
      <3>1. source \in Texts /\ pool \subseteq Links
        BY <2>12, StepTypes DEF Descend, TypeOK
      <3>2. PICK c \in FirstFollowable(pool) :
              /\ recordLive(c.item, "none")
              /\ seenUrls' = seenUrls \cup {urlKey(c.item)}
              /\ currentUrl' = c.item
        BY <2>12 DEF Descend
      <3>3. c.item \in Urls
        BY <3>1 DEF FirstFollowable, Links
      <3>4. [depth |-> currentDepth, urls |-> pool] \in PoolEntry
        BY <3>1 DEF PoolEntry, Links, TypeOK
      <3>5. poolStack' \in Seq(PoolEntry)
        BY <2>12, <3>4 DEF Descend, TypeOK
      <3>6. seenUrls' \subseteq {urlKey(u) : u \in Urls}
        BY <3>2, <3>3 DEF TypeOK
      <3>7. currentUrl' \in Urls \cup {NoUrl} /\ currentDepth' \in Nat
        BY <2>12, <3>2, <3>3 DEF Descend, TypeOK
      <3>8. recordLive(c.item, "none") /\ c.item \in Urls \cup {NoUrl}
        BY <3>2, <3>3
      <3>. QED
        BY <2>12, <3>1, <3>5, <3>6, <3>7, <3>8, LiveType DEF Descend, TypeOK
    <2>13. CASE NoLink
      BY <2>13, LiveType DEF NoLink, TypeOK
    <2>14. CASE NextCandidate
      <3>1. poolStack[1] \in PoolEntry
        BY <2>14 DEF NextCandidate, TypeOK
      <3>2. PICK c \in FirstFollowable(poolStack[1].urls) :
              /\ seenUrls' = seenUrls \cup {urlKey(c.item)}
              /\ currentUrl' = c.item
        BY <2>14 DEF NextCandidate
      <3>3. c.item \in Urls
        BY <3>1 DEF FirstFollowable, PoolEntry
      <3>4. currentDepth' \in Nat
        BY <2>14, <3>1 DEF NextCandidate, PoolEntry
      <3>5. seenUrls' \subseteq {urlKey(u) : u \in Urls} /\ currentUrl' \in Urls
        BY <3>2, <3>3 DEF TypeOK
      <3>. QED  BY <2>14, <3>4, <3>5 DEF NextCandidate, TypeOK
    <2>15. CASE ShiftPool
      BY <2>15 DEF ShiftPool, TypeOK
    <2>16. CASE NoCandidate
      <3>1. /\ DOMAIN steps = 1..Len(steps) /\ Len(steps) \in Nat
            /\ \A i \in 1..Len(steps) : steps[i] \in Step
        BY DEF TypeOK
      <3>2. \A s \in Step : stopped(s, "exhausted") \in Step
        BY DEF Step, stopped
      <3>3. steps' = [steps EXCEPT ![Len(steps)] = stopped(steps[Len(steps)], "exhausted")]
        BY <2>16 DEF NoCandidate, setLastStop
      <3>4. \A i \in 1..Len(steps) : steps'[i] \in Step
        BY <3>1, <3>2, <3>3
      <3>5. steps' \in Seq(Step) /\ Len(steps') = Len(steps)
        <4>1. DOMAIN steps' = 1..Len(steps) /\ steps' = [i \in 1..Len(steps) |-> steps'[i]]
          BY <3>1, <3>3
        <4>2. steps' \in [1..Len(steps) -> Step]
          BY <3>4, <4>1
        <4>. QED  BY <3>1, <4>2, SeqDef
      <3>. QED  BY <2>16, <3>5 DEF NoCandidate, TypeOK
    <2>17. CASE UNCHANGED vars
      BY <2>17 DEF vars, TypeOK
    <2>. QED
      BY <2>1, <2>2, <2>3, <2>4, <2>5, <2>6, <2>7, <2>8, <2>9, <2>10, <2>11, <2>12,
         <2>13, <2>14, <2>15, <2>16, <2>17 DEF Next, Finished
  <1>. QED  BY <1>1, <1>2, PTL DEF Spec

--------------------------------------------------------------------------------

(* A text that has been run is marked, and a text about to be run is       *)
(* marked and has not been run; nothing is marked before the entry.        *)
MarkedOnce ==
  /\ \A i \in 1..Len(ran) : ran[i] \in seenHashes
  /\ pc = "deobfuscate" => source \in seenHashes /\ \A i \in 1..Len(ran) : ran[i] # source
  /\ pc \in {"load", "guard"} /\ currentDepth = 0 => seenHashes = {}

(* A text appended to those that ran keeps them distinct if it is new.     *)
LEMMA AppendOnce ==
  ASSUME TypeOK, RunOnce, NEW t \in Texts, \A i \in 1..Len(ran) : ran[i] # t,
         ran' = Append(ran, t)
  PROVE  /\ RunOnce'
         /\ \A i \in 1..Len(ran') : ran'[i] = t \/ \E j \in 1..Len(ran) : ran'[i] = ran[j]
  <1>1. /\ Len(ran') = Len(ran) + 1 /\ Len(ran) \in Nat
        /\ \A i \in 1..Len(ran) : ran'[i] = ran[i]
        /\ ran'[Len(ran) + 1] = t
    BY DEF TypeOK
  <1>. QED  BY <1>1 DEF RunOnce

(* No text is deobfuscated twice in a run.                                 *)
THEOREM RunOnceCorrect == Spec => []RunOnce
  <1>1. Init => RunOnce /\ MarkedOnce
    BY DEF Init, RunOnce, MarkedOnce
  <1>2. TypeOK /\ RunOnce /\ MarkedOnce /\ [Next]_vars => RunOnce' /\ MarkedOnce'
    <2>. SUFFICES ASSUME TypeOK, RunOnce, MarkedOnce, [Next]_vars
                  PROVE  RunOnce' /\ MarkedOnce'
      OBVIOUS
    <2>1. CASE UsePendingSource \/ Fetch \/ NoPayload \/ ShiftPool \/ NoCandidate
               \/ UNCHANGED vars
      BY <2>1 DEF UsePendingSource, Fetch, NoPayload, ShiftPool, NoCandidate, vars,
        RunOnce, MarkedOnce
    <2>2. CASE EntryFetchError \/ FetchError \/ Duplicate \/ NotLuaHop
      <3>1. /\ UNCHANGED ran /\ pc' \in {"done", "backtrack"}
            /\ seenHashes \subseteq seenHashes'
        BY <2>2 DEF EntryFetchError, FetchError, Duplicate, NotLuaHop, deadHop
      <3>. QED  BY <3>1 DEF RunOnce, MarkedOnce
    <2>3. CASE TakeUp
      <3>1. source \notin seenHashes
        <4>1. CASE currentDepth > 0
          BY <2>3, <4>1 DEF TakeUp, isDuplicate
        <4>2. CASE currentDepth = 0
          BY <2>3, <4>2 DEF TakeUp, MarkedOnce
        <4>. QED  BY <4>1, <4>2 DEF TypeOK
      <3>. QED  BY <2>3, <3>1 DEF TakeUp, RunOnce, MarkedOnce
    <2>4. CASE Deobfuscate
      <3>1. /\ source \in Texts /\ source \in seenHashes
            /\ \A i \in 1..Len(ran) : ran[i] # source
            /\ ran' = Append(ran, source) /\ UNCHANGED seenHashes /\ pc' = "embedded"
        BY <2>4 DEF Deobfuscate, TypeOK, MarkedOnce
      <3>. QED  BY <3>1, AppendOnce DEF MarkedOnce
    <2>5. CASE DeobfuscatePayload
      <3>1. PICK p \in freshPayloads :
              /\ seenHashes' = seenHashes \cup {p.item}
              /\ ran' = Append(ran, p.item)
        BY <2>5 DEF DeobfuscatePayload
      <3>2. searched(source, report) \subseteq Texts
        BY <2>5 DEF DeobfuscatePayload, TypeOK, searched, hasBest, Report
      <3>3. p.item \in Texts /\ p.item \notin seenHashes
        BY <3>2, PayloadType DEF freshPayloads
      <3>4. \A i \in 1..Len(ran) : ran[i] # p.item
        BY <3>3 DEF MarkedOnce
      <3>5. pc' = "extract"
        BY <2>5 DEF DeobfuscatePayload
      <3>. QED  BY <3>1, <3>3, <3>4, <3>5, AppendOnce DEF MarkedOnce
    <2>6. CASE StopAtMaxDepth \/ NoLink
      BY <2>6 DEF StopAtMaxDepth, NoLink, recordLive, RunOnce, MarkedOnce
    <2>7. CASE Descend
      <3>1. UNCHANGED <<ran, seenHashes>> /\ pc' = "load" /\ currentDepth' # 0
        BY <2>7 DEF Descend, recordLive, TypeOK
      <3>. QED  BY <3>1 DEF RunOnce, MarkedOnce
    <2>8. CASE NextCandidate
      <3>1. poolStack[1] \in PoolEntry
        BY <2>8 DEF NextCandidate, TypeOK
      <3>2. UNCHANGED <<ran, seenHashes>> /\ pc' = "load" /\ currentDepth' # 0
        BY <2>8, <3>1 DEF NextCandidate, PoolEntry
      <3>. QED  BY <3>2 DEF RunOnce, MarkedOnce
    <2>. QED
      BY <2>1, <2>2, <2>3, <2>4, <2>5, <2>6, <2>7, <2>8 DEF Next, Finished
  <1>. QED  BY <1>1, <1>2, TypeCorrect, PTL DEF Spec

--------------------------------------------------------------------------------

(* The stack is one pool per level above the hop, within the limit.        *)
PathInv == StackIsPath /\ Len(poolStack) <= MaxDepth

(* The pools are the path from the entry to the present hop.               *)
THEOREM StackIsPathCorrect == Spec => []StackIsPath
  <1>1. Init => PathInv
    BY ChainAssumption DEF Init, PathInv, StackIsPath
  <1>2. TypeOK /\ PathInv /\ [Next]_vars => PathInv'
    <2>. SUFFICES ASSUME TypeOK, PathInv, [Next]_vars
                  PROVE  PathInv'
      OBVIOUS
    <2>1. CASE UsePendingSource \/ Fetch \/ EntryFetchError \/ FetchError \/ Duplicate
               \/ NotLuaHop \/ TakeUp \/ Deobfuscate \/ DeobfuscatePayload \/ NoPayload
               \/ StopAtMaxDepth \/ NoLink \/ NoCandidate \/ UNCHANGED vars
      <3>1. UNCHANGED <<poolStack, currentUrl, currentDepth>> /\ (atHop' => atHop)
        BY <2>1 DEF UsePendingSource, Fetch, EntryFetchError, FetchError, Duplicate,
          NotLuaHop, TakeUp, Deobfuscate, DeobfuscatePayload, NoPayload, StopAtMaxDepth,
          NoLink, NoCandidate, deadHop, vars, atHop
      <3>. QED  BY <3>1 DEF PathInv, StackIsPath
    <2>2. CASE Descend
      <3>1. PICK c \in FirstFollowable(pool) : currentUrl' = c.item
        BY <2>2 DEF Descend
      <3>2. c \in pool /\ atHop
        BY <2>2 DEF FirstFollowable, Descend, atHop
      <3>3. /\ Len(poolStack) = currentDepth /\ currentDepth \in Nat
            /\ currentDepth < MaxDepth /\ currentDepth' = currentDepth + 1
        BY <2>2, <3>2 DEF Descend, PathInv, StackIsPath, TypeOK
      <3>4. /\ Len(poolStack') = Len(poolStack) + 1
            /\ poolStack'[1] = [depth |-> currentDepth, urls |-> pool]
            /\ \A i \in 2..(Len(poolStack) + 1) : poolStack'[i] = poolStack[i - 1]
        BY <2>2 DEF Descend, TypeOK
      <3>5. \A i \in 1..Len(poolStack') : poolStack'[i].depth = Len(poolStack') - i
        <4>. SUFFICES ASSUME NEW i \in 1..Len(poolStack')
                      PROVE  poolStack'[i].depth = Len(poolStack') - i
          OBVIOUS
        <4>1. CASE i = 1
          BY <3>3, <3>4, <4>1
        <4>2. CASE i \in 2..(Len(poolStack) + 1)
          BY <3>3, <3>4, <4>2 DEF PathInv, StackIsPath
        <4>. QED  BY <3>3, <3>4, <4>1, <4>2
      <3>6. \E e \in poolStack'[1].urls : e.item = currentUrl'
        BY <3>1, <3>2, <3>4
      <3>. QED  BY <3>3, <3>4, <3>5, <3>6, ChainAssumption DEF PathInv, StackIsPath
    <2>3. CASE NextCandidate
      <3>1. PICK c \in FirstFollowable(poolStack[1].urls) : currentUrl' = c.item
        BY <2>3 DEF NextCandidate
      <3>2. c \in poolStack[1].urls
        BY DEF FirstFollowable
      <3>3. /\ UNCHANGED poolStack /\ currentDepth' = poolStack[1].depth + 1
            /\ Len(poolStack) \in Nat \ {0}
        BY <2>3 DEF NextCandidate, TypeOK
      <3>4. currentDepth' = Len(poolStack)
        BY <3>3 DEF PathInv, StackIsPath
      <3>. QED  BY <3>1, <3>2, <3>3, <3>4 DEF PathInv, StackIsPath
    <2>4. CASE ShiftPool
      <3>1. /\ Len(poolStack') = Len(poolStack) - 1 /\ Len(poolStack) \in Nat \ {0}
            /\ \A i \in 1..Len(poolStack') : poolStack'[i] = poolStack[i + 1]
        BY <2>4 DEF ShiftPool, TypeOK
      <3>2. UNCHANGED currentDepth /\ ~atHop'
        BY <2>4 DEF ShiftPool, atHop
      <3>. QED  BY <3>1, <3>2, ChainAssumption DEF PathInv, StackIsPath
    <2>. QED  BY <2>1, <2>2, <2>3, <2>4 DEF Next, Finished
  <1>3. PathInv => StackIsPath
    BY DEF PathInv
  <1>. QED  BY <1>1, <1>2, <1>3, TypeCorrect, PTL DEF Spec

--------------------------------------------------------------------------------

(* What recording a hop does to the lists of the result.                   *)
LEMMA RecordEffect ==
  ASSUME TypeOK, NEW step, NEW r, NEW input, record(step, r, input)
  PROVE  /\ Len(steps') = Len(steps) + 1 /\ Len(steps) \in Nat
         /\ Len(reports) = Len(steps)
         /\ \A i \in 1..Len(steps) : steps'[i] = steps[i] /\ reports'[i] = reports[i]
         /\ steps'[Len(steps) + 1] = step /\ reports'[Len(steps) + 1] = r
  BY DEF TypeOK, record

(* What the reason written into the last step leaves as it is.             *)
LEMMA LastStopKeeps ==
  ASSUME TypeOK, setLastStop("exhausted")
  PROVE  /\ Len(steps') = Len(steps)
         /\ \A i \in 1..Len(steps) :
              /\ steps'[i].depth = steps[i].depth /\ steps'[i].url = steps[i].url
              /\ steps'[i].urls = steps[i].urls /\ stepWeight(steps'[i]) = stepWeight(steps[i])
  <1>1. /\ DOMAIN steps = 1..Len(steps) /\ Len(steps) \in Nat
        /\ \A i \in 1..Len(steps) : steps[i] \in Step
    BY DEF TypeOK
  <1>2. \A s \in Step :
          LET t == stopped(s, "exhausted")
          IN  /\ t.depth = s.depth /\ t.url = s.url /\ t.urls = s.urls
              /\ stepWeight(t) = stepWeight(s)
    BY DEF Step, stopped, stepWeight
  <1>3. /\ DOMAIN steps' = DOMAIN steps
        /\ \A i \in 1..Len(steps) :
             steps'[i] = steps[i] \/ steps'[i] = stopped(steps[i], "exhausted")
    BY <1>1 DEF setLastStop
  <1>4. Len(steps') = Len(steps)
    BY <1>1 DEF setLastStop
  <1>5. \A i \in 1..Len(steps) : steps'[i] # steps[i] => steps'[i] = stopped(steps[i], "exhausted")
    BY <1>3
  <1>. QED  BY <1>1, <1>2, <1>4, <1>5

(* What a dead hop and a live hop record.                                  *)
LEMMA DeadHopRecords ==
  ASSUME EntryFetchError \/ FetchError \/ Duplicate \/ NotLuaHop
  PROVE  /\ \E stop \in deadReasons, input \in {EmptyText, source} :
              record(emptyStep(stop), NoReport, input)
         /\ UNCHANGED <<finalIndex, poolStack, seenUrls, currentUrl, currentDepth>>
         /\ pc' \in {"done", "backtrack"} /\ atHop
         /\ pc' = "done" => cutShort'
  <1>1. /\ \E stop \in deadReasons, input \in {EmptyText, source} :
              record(emptyStep(stop), NoReport, input)
        /\ UNCHANGED <<finalIndex, poolStack, seenUrls, currentUrl, currentDepth>>
        /\ pc' \in {"done", "backtrack"} /\ atHop
    BY DEF EntryFetchError, FetchError, Duplicate, NotLuaHop, deadHop, deadReasons, atHop
  <1>2. CASE EntryFetchError
    <2>1. steps' = <<emptyStep("fetch-error")>>
      BY <1>2 DEF EntryFetchError, record
    <2>. QED  BY <1>1, <2>1 DEF cutShort, emptyStep
  <1>3. CASE FetchError \/ Duplicate \/ NotLuaHop
    BY <1>1, <1>3 DEF FetchError, Duplicate, NotLuaHop, deadHop, cutShort
  <1>. QED  BY <1>1, <1>2, <1>3

(* The steps of a hop that record nothing and leave the crawl as it is.    *)
Working ==
  \/ UsePendingSource \/ Fetch \/ TakeUp \/ Deobfuscate \/ DeobfuscatePayload \/ NoPayload
  \/ UNCHANGED vars

(* Finding and fetching a payload record nothing and leave the way here    *)
(* alone.                                                                  *)
LEMMA WorkingKeeps ==
  ASSUME Working
  PROVE  /\ UNCHANGED <<steps, reports, finalIndex, poolStack, seenUrls, currentUrl, currentDepth>>
         /\ UNCHANGED pc \/ (atHop /\ atHop')
         /\ UNCHANGED deadHops
  BY DEF Working, UsePendingSource, Fetch, TakeUp, Deobfuscate, DeobfuscatePayload,
    NoPayload, vars, atHop

(* The result is the first of the heaviest steps that have an output.      *)
THEOREM HeaviestFinalCorrect == Spec => []HeaviestFinal
  <1>1. Init => HeaviestFinal
    BY DEF Init, HeaviestFinal
  <1>2. TypeOK /\ HeaviestFinal /\ [Next]_vars => HeaviestFinal'
    <2>. SUFFICES ASSUME TypeOK, HeaviestFinal, [Next]_vars PROVE HeaviestFinal'
      OBVIOUS
    <2>0. /\ finalIndex \in 0..Len(steps) /\ Len(steps) \in Nat
          /\ \A i \in 1..Len(steps) : stepWeight(steps[i]) \in Nat
      <3>1. \A s \in Step : stepWeight(s) \in Nat
        BY DEF stepWeight, Step
      <3>. QED  BY <3>1 DEF TypeOK
    <2>1. CASE Working \/ NextCandidate \/ ShiftPool
      <3>1. UNCHANGED <<steps, reports, finalIndex>>
        BY <2>1, WorkingKeeps DEF NextCandidate, ShiftPool
      <3>. QED  BY <3>1 DEF HeaviestFinal
    <2>2. CASE EntryFetchError \/ FetchError \/ Duplicate \/ NotLuaHop
      <3>1. /\ UNCHANGED finalIndex
            /\ Len(steps') = Len(steps) + 1
            /\ \A i \in 1..Len(steps) : steps'[i] = steps[i] /\ reports'[i] = reports[i]
            /\ reports'[Len(steps) + 1] = NoReport
        BY <2>2, DeadHopRecords, RecordEffect
      <3>2. ~hasBest(NoReport)
        BY DEF hasBest
      <3>. QED  BY <2>0, <3>1, <3>2 DEF HeaviestFinal
    <2>3. CASE StopAtMaxDepth \/ Descend \/ NoLink
      <3>1. PICK f \in Urls \cup {NoUrl}, stop \in {"none", "max-depth"} : recordLive(f, stop)
        <4>1. source \in Texts /\ pool \subseteq Links
          BY <2>3, StepTypes DEF StopAtMaxDepth, Descend, NoLink, TypeOK
        <4>. QED  BY <2>3, <4>1 DEF StopAtMaxDepth, Descend, NoLink, FirstFollowable, Links
      <3>. DEFINE step == liveStep(f, stop)
      <3>2. source \in Texts
        BY <2>3 DEF StopAtMaxDepth, Descend, NoLink, TypeOK
      <3>3. stepWeight(step) \in Nat
        <4>1. step \in Step
          BY <3>1, <3>2, StepTypes
        <4>. QED  BY <4>1 DEF stepWeight, Step
      <3>4. /\ Len(steps') = Len(steps) + 1
            /\ \A i \in 1..Len(steps) : steps'[i] = steps[i] /\ reports'[i] = reports[i]
            /\ steps'[Len(steps) + 1] = step /\ reports'[Len(steps) + 1] = report
        BY <3>1, RecordEffect DEF recordLive
      <3>5. finalIndex' = IF /\ hasBest(report)
                             /\ \/ finalIndex = 0
                                \/ stepWeight(step) > stepWeight(steps[finalIndex])
                          THEN Len(steps) + 1 ELSE finalIndex
        BY <3>1 DEF recordLive
      <3>. HIDE DEF step
      <3>. QED  BY <2>0, <3>3, <3>4, <3>5 DEF HeaviestFinal
    <2>4. CASE NoCandidate
      BY <2>0, <2>4, LastStopKeeps DEF NoCandidate, HeaviestFinal
    <2>. QED  BY <2>1, <2>2, <2>3, <2>4 DEF Next, Finished, Working
  <1>. QED  BY <1>1, <1>2, TypeCorrect, PTL DEF Spec

--------------------------------------------------------------------------------

(* A hop goes to a link of the step that the pool it came from belongs to. *)
FromStep(url, depth) ==
  \E j \in 1..Len(steps) :
    /\ depth = steps[j].depth + 1
    /\ \E c \in steps[j].urls : c.item = url /\ c.score >= FOLLOW_SCORE_THRESHOLD

PoolsOfSteps ==
  /\ \A k \in 1..Len(poolStack) : \E j \in 1..Len(steps) :
       poolStack[k].depth = steps[j].depth /\ poolStack[k].urls = steps[j].urls
  /\ atHop => steps = <<>> \/ FromStep(currentUrl, currentDepth)

(* Every hop goes to a link to follow of a step one level above it.        *)
THEOREM ProvenanceCorrect == Spec => []Provenance
  <1>1. Init => Provenance /\ PoolsOfSteps
    BY DEF Init, Provenance, PoolsOfSteps
  <1>2. TypeOK /\ Provenance /\ PoolsOfSteps /\ [Next]_vars => Provenance' /\ PoolsOfSteps'
    <2>. SUFFICES ASSUME TypeOK, Provenance, PoolsOfSteps, [Next]_vars
                  PROVE  Provenance' /\ PoolsOfSteps'
      OBVIOUS
    <2>0. Len(steps) \in Nat /\ Len(poolStack) \in Nat
      BY DEF TypeOK
    <2>1. ASSUME NEW step, NEW r, NEW input, record(step, r, input), atHop,
                 step.depth = currentDepth, step.url = currentUrl
          PROVE  /\ Provenance'
                 /\ Len(steps') = Len(steps) + 1 /\ steps'[Len(steps) + 1] = step
                 /\ \A i \in 1..Len(steps) : steps'[i] = steps[i]
      <3>1. /\ Len(steps') = Len(steps) + 1 /\ steps'[Len(steps) + 1] = step
            /\ \A i \in 1..Len(steps) : steps'[i] = steps[i]
        BY <2>1, RecordEffect
      <3>2. steps = <<>> \/ FromStep(currentUrl, currentDepth)
        BY <2>1 DEF PoolsOfSteps
      <3>3. CASE steps = <<>>
        <4>1. Len(steps) = 0
          BY <3>3
        <4>. QED  BY <3>1, <4>1 DEF Provenance
      <3>4. CASE FromStep(currentUrl, currentDepth)
        <4>1. ASSUME NEW i \in 2..Len(steps')
              PROVE  \E j \in 1..(i - 1) :
                       /\ steps'[i].depth = steps'[j].depth + 1
                       /\ \E c \in steps'[j].urls :
                            c.item = steps'[i].url /\ c.score >= FOLLOW_SCORE_THRESHOLD
          <5>1. CASE i \in 2..Len(steps)
            <6>1. PICK j \in 1..(i - 1) :
                    /\ steps[i].depth = steps[j].depth + 1
                    /\ \E c \in steps[j].urls :
                         c.item = steps[i].url /\ c.score >= FOLLOW_SCORE_THRESHOLD
              BY <5>1 DEF Provenance
            <6>2. steps'[i] = steps[i] /\ steps'[j] = steps[j]
              BY <2>0, <3>1, <5>1
            <6>. QED  BY <6>1, <6>2
          <5>2. CASE i = Len(steps) + 1
            <6>1. PICK j \in 1..Len(steps) :
                    /\ currentDepth = steps[j].depth + 1
                    /\ \E c \in steps[j].urls :
                         c.item = currentUrl /\ c.score >= FOLLOW_SCORE_THRESHOLD
              BY <3>4 DEF FromStep
            <6>2. steps'[i] = step /\ steps'[j] = steps[j] /\ j \in 1..(i - 1)
              BY <2>0, <3>1, <5>2
            <6>. QED  BY <2>1, <6>1, <6>2
          <5>. QED  BY <2>0, <3>1, <5>1, <5>2
        <4>. QED  BY <3>1, <4>1 DEF Provenance
      <3>. QED  BY <3>1, <3>2, <3>3, <3>4
    <2>2. CASE Working
      <3>1. /\ UNCHANGED <<steps, poolStack, currentUrl, currentDepth>>
            /\ atHop' => atHop
        BY <2>2, WorkingKeeps DEF atHop
      <3>. QED  BY <3>1 DEF Provenance, PoolsOfSteps, FromStep
    <2>3. CASE EntryFetchError \/ FetchError \/ Duplicate \/ NotLuaHop
      <3>1. PICK stop \in deadReasons, input \in {EmptyText, source} :
              record(emptyStep(stop), NoReport, input)
        BY <2>3, DeadHopRecords
      <3>2. UNCHANGED poolStack /\ atHop /\ ~atHop'
        BY <2>3, DeadHopRecords DEF atHop
      <3>3. emptyStep(stop).depth = currentDepth /\ emptyStep(stop).url = currentUrl
        BY DEF emptyStep
      <3>4. /\ Provenance' /\ Len(steps') = Len(steps) + 1
            /\ \A i \in 1..Len(steps) : steps'[i] = steps[i]
        BY <2>1, <3>1, <3>2, <3>3
      <3>. QED  BY <2>0, <3>2, <3>4 DEF PoolsOfSteps
    <2>4. CASE StopAtMaxDepth \/ NoLink
      <3>1. PICK f, stop : record(liveStep(f, stop), report, source)
        BY <2>4 DEF StopAtMaxDepth, NoLink, recordLive
      <3>2. UNCHANGED poolStack /\ atHop /\ ~atHop'
        BY <2>4 DEF StopAtMaxDepth, NoLink, atHop
      <3>3. liveStep(f, stop).depth = currentDepth /\ liveStep(f, stop).url = currentUrl
        BY DEF liveStep
      <3>4. /\ Provenance' /\ Len(steps') = Len(steps) + 1
            /\ \A i \in 1..Len(steps) : steps'[i] = steps[i]
        BY <2>1, <3>1, <3>2, <3>3
      <3>. QED  BY <2>0, <3>2, <3>4 DEF PoolsOfSteps
    <2>5. CASE Descend
      <3>1. PICK c \in FirstFollowable(pool) :
              recordLive(c.item, "none") /\ currentUrl' = c.item
        BY <2>5 DEF Descend
      <3>. DEFINE step == liveStep(c.item, "none")
      <3>2. /\ step.depth = currentDepth /\ step.url = currentUrl /\ step.urls = pool
        BY DEF liveStep, pool
      <3>3. record(step, report, source) /\ atHop
        BY <2>5, <3>1 DEF Descend, recordLive, atHop
      <3>. HIDE DEF step
      <3>4. /\ Provenance' /\ Len(steps') = Len(steps) + 1
            /\ steps'[Len(steps) + 1] = step
            /\ \A i \in 1..Len(steps) : steps'[i] = steps[i]
        BY <2>1, <3>2, <3>3
      <3>5. c \in pool /\ c.score >= FOLLOW_SCORE_THRESHOLD
        BY DEF FirstFollowable, Followable
      <3>6. currentDepth' = step.depth + 1
        BY <2>5, <3>2 DEF Descend
      <3>7. FromStep(currentUrl, currentDepth)'
        BY <2>0, <3>1, <3>2, <3>4, <3>5, <3>6 DEF FromStep
      <3>8. /\ Len(poolStack') = Len(poolStack) + 1
            /\ poolStack'[1] = [depth |-> currentDepth, urls |-> pool]
            /\ \A i \in 2..(Len(poolStack) + 1) : poolStack'[i] = poolStack[i - 1]
        BY <2>5 DEF Descend, TypeOK
      <3>9. ASSUME NEW k \in 1..Len(poolStack')
            PROVE  \E j \in 1..Len(steps') :
                     poolStack'[k].depth = steps'[j].depth /\ poolStack'[k].urls = steps'[j].urls
        <4>1. CASE k = 1
          BY <2>0, <3>2, <3>4, <3>8, <4>1
        <4>2. CASE k \in 2..(Len(poolStack) + 1)
          <5>1. PICK j \in 1..Len(steps) : /\ poolStack[k - 1].depth = steps[j].depth
                                          /\ poolStack[k - 1].urls = steps[j].urls
            BY <2>0, <4>2 DEF PoolsOfSteps
          <5>. QED  BY <2>0, <3>4, <3>8, <4>2, <5>1
        <4>. QED  BY <2>0, <3>8, <4>1, <4>2
      <3>. QED  BY <3>4, <3>7, <3>9 DEF PoolsOfSteps
    <2>6. CASE NextCandidate
      <3>1. PICK c \in FirstFollowable(poolStack[1].urls) : currentUrl' = c.item
        BY <2>6 DEF NextCandidate
      <3>2. /\ UNCHANGED <<poolStack, steps>> /\ currentDepth' = poolStack[1].depth + 1
            /\ 1 \in 1..Len(poolStack)
        BY <2>6 DEF NextCandidate, TypeOK
      <3>3. PICK j \in 1..Len(steps) :
              poolStack[1].depth = steps[j].depth /\ poolStack[1].urls = steps[j].urls
        BY <3>2 DEF PoolsOfSteps
      <3>4. c \in poolStack[1].urls /\ c.score >= FOLLOW_SCORE_THRESHOLD
        BY DEF FirstFollowable, Followable
      <3>5. FromStep(currentUrl, currentDepth)'
        BY <3>1, <3>2, <3>3, <3>4 DEF FromStep
      <3>. QED  BY <3>2, <3>5 DEF PoolsOfSteps, Provenance
    <2>7. CASE ShiftPool
      <3>1. /\ Len(poolStack') = Len(poolStack) - 1 /\ Len(poolStack) \in Nat \ {0}
            /\ \A i \in 1..Len(poolStack') : poolStack'[i] = poolStack[i + 1]
        BY <2>7 DEF ShiftPool, TypeOK
      <3>2. UNCHANGED steps /\ ~atHop'
        BY <2>7 DEF ShiftPool, atHop
      <3>3. ASSUME NEW k \in 1..Len(poolStack')
            PROVE  \E j \in 1..Len(steps') :
                     poolStack'[k].depth = steps'[j].depth /\ poolStack'[k].urls = steps'[j].urls
        <4>1. k + 1 \in 1..Len(poolStack) /\ poolStack'[k] = poolStack[k + 1]
          BY <3>1
        <4>2. PICK j \in 1..Len(steps) : /\ poolStack[k + 1].depth = steps[j].depth
                                        /\ poolStack[k + 1].urls = steps[j].urls
          BY <4>1 DEF PoolsOfSteps
        <4>. QED  BY <3>2, <4>1, <4>2
      <3>. QED  BY <3>2, <3>3 DEF PoolsOfSteps, Provenance
    <2>8. CASE NoCandidate
      <3>1. /\ Len(steps') = Len(steps)
            /\ \A i \in 1..Len(steps) :
                 /\ steps'[i].depth = steps[i].depth /\ steps'[i].url = steps[i].url
                 /\ steps'[i].urls = steps[i].urls
        BY <2>8, LastStopKeeps DEF NoCandidate
      <3>2. UNCHANGED poolStack /\ ~atHop'
        BY <2>8 DEF NoCandidate, atHop
      <3>3. PoolsOfSteps'
        BY <2>0, <3>1, <3>2 DEF PoolsOfSteps
      <3>4. Provenance'
        BY <2>0, <3>1 DEF Provenance
      <3>. QED  BY <3>3, <3>4
    <2>. QED
      BY <2>2, <2>3, <2>4, <2>5, <2>6, <2>7, <2>8 DEF Next, Finished, Working
  <1>. QED  BY <1>1, <1>2, TypeCorrect, PTL DEF Spec

--------------------------------------------------------------------------------

(* The scores extractScriptUrls gives.                                     *)
Scores == {5, 10, 40, 50, 55, 70, 80, 85, 90, 95, 100}
Scored(list) == \A d \in list : d.score \in Scores

(* Every way a link is used in a text has a score of the table.            *)
LEMMA UsageScored ==
  ASSUME NEW t, NEW m \in mentions[t], t \in Texts
  PROVE  (IF m.dynamic THEN 5 ELSE usageScore(t)[m.usage]) \in Scores
  <1>1. m.usage \in Usages
    BY ChainAssumption
  <1>2. \A x \in Usages : usageScore(t)[x] \in Scores
    BY DEF Usages, usageScore, Scores
  <1>. QED  BY <1>1, <1>2 DEF Scores

(* So has every link of a pool, the links of reports included.             *)
LEMMA PoolScored ==
  ASSUME TypeOK, source \in Texts
  PROVE  Scored(pool)
  <1>1. \A t \in Texts : Scored(extractScriptUrls(t))
    <2>. SUFFICES ASSUME NEW t \in Texts, NEW d \in extractScriptUrls(t)
                  PROVE  d.score \in Scores
      BY DEF Scored
    <2>1. PICK m \in mentions[t] :
            d = [item |-> m.url, score |-> IF m.dynamic THEN 5 ELSE usageScore(t)[m.usage]]
      BY KeepBestSubset DEF extractScriptUrls
    <2>. QED  BY <2>1, UsageScored
  <1>2. searched(source, report) \subseteq Texts
    BY DEF TypeOK, searched, hasBest, Report
  <1>. QED  BY <1>1, <1>2, KeepBestSubset DEF pool, mergeUrls, Scored

(* If find() finds nothing, nothing in the list can be followed: scores    *)
(* are a few numbers, so that the links to follow would have a best one.   *)
LEMMA NoneFollowable ==
  ASSUME NEW list, Scored(list), FirstFollowable(list) = {}
  PROVE  \A d \in list : ~Followable(d)
  <1>. DEFINE At(n) == \E d \in list : Followable(d) /\ d.score = n
  <1>1. \A d \in list : Followable(d) => d.score \in {70, 80, 85, 90, 95, 100}
    BY DEF Scored, Scores, Followable, FOLLOW_SCORE_THRESHOLD
  <1>2. \A n : At(n) => \E d \in list : Followable(d) /\ ~(d.score <= n)
    BY DEF FirstFollowable
  <1>3. ~At(100)
    BY <1>1, <1>2
  <1>4. ~At(95)
    BY <1>1, <1>2, <1>3
  <1>5. ~At(90)
    BY <1>1, <1>2, <1>3, <1>4
  <1>6. ~At(85)
    BY <1>1, <1>2, <1>3, <1>4, <1>5
  <1>7. ~At(80)
    BY <1>1, <1>2, <1>3, <1>4, <1>5, <1>6
  <1>8. ~At(70)
    BY <1>1, <1>2, <1>3, <1>4, <1>5, <1>6, <1>7
  <1>. QED  BY <1>1, <1>3, <1>4, <1>5, <1>6, <1>7, <1>8

--------------------------------------------------------------------------------

(* While the run goes on, a link to follow of any step has been tried or   *)
(* is in a pool on the stack.                                              *)
NothingForgotten ==
  /\ \A k \in 1..Len(poolStack) : Scored(poolStack[k].urls)
  /\ pc # "done" =>
       \A i \in 1..Len(steps) : \A d \in steps[i].urls :
         Followable(d) => \E k \in 1..Len(poolStack) : d \in poolStack[k].urls

(* The refinement mapping, as operators.                                   *)
Keys == {urlKey(u) : u \in Urls}
Known == seenUrls \cup
         UNION {{urlKey(c.item) : c \in {d \in steps[i].urls :
                                           d.score >= FOLLOW_SCORE_THRESHOLD}}
                : i \in 1..Len(steps)}
Phase == IF pc # "done" THEN "running" ELSE IF cutShort THEN "cut" ELSE "complete"

(* The links found, one by one.                                            *)
LEMMA KnownIs ==
  /\ \A k : k \in Known <=>
       \/ k \in seenUrls
       \/ \E i \in 1..Len(steps) : \E d \in steps[i].urls :
            d.score >= FOLLOW_SCORE_THRESHOLD /\ urlKey(d.item) = k
  /\ \A k : k \in Known' <=>
       \/ k \in seenUrls'
       \/ \E i \in 1..Len(steps') : \E d \in steps'[i].urls :
            d.score >= FOLLOW_SCORE_THRESHOLD /\ urlKey(d.item) = k
  BY DEF Known

(* Only keys of links are known.                                           *)
LEMMA KnownKeys ==
  /\ TypeOK => Known \subseteq Keys
  /\ TypeOK' => Known' \subseteq Keys
  <1>1. ASSUME TypeOK PROVE Known \subseteq Keys
    <2>1. /\ seenUrls \subseteq Keys
          /\ \A i \in 1..Len(steps) : steps[i].urls \subseteq [item : Urls, score : Nat]
      <3>1. \A x \in Step : x.urls \subseteq [item : Urls, score : Nat]
        BY DEF Step
      <3>. QED  BY <1>1, <3>1 DEF TypeOK, Keys
    <2>. QED  BY <2>1, KnownIs DEF Keys
  <1>2. ASSUME TypeOK' PROVE Known' \subseteq Keys
    <2>1. /\ seenUrls' \subseteq Keys
          /\ \A i \in 1..Len(steps') : steps'[i].urls \subseteq [item : Urls, score : Nat]
      <3>1. \A x \in Step : x.urls \subseteq [item : Urls, score : Nat]
        BY DEF Step
      <3>. QED  BY <1>2, <3>1 DEF TypeOK, Keys
    <2>. QED  BY <2>1, KnownIs DEF Keys
  <1>. QED  BY <1>1, <1>2

(* Nothing that could be followed is forgotten until the run is done.      *)
LEMMA NothingForgottenKept ==
  ASSUME TypeOK, NothingForgotten, [Next]_vars
  PROVE  NothingForgotten'
  <1>0. Len(steps) \in Nat /\ Len(poolStack) \in Nat
    BY DEF TypeOK
  <1>1. CASE Working
    <2>1. /\ UNCHANGED <<steps, poolStack, seenUrls>>
          /\ pc' # "done" => pc # "done"
      BY <1>1, WorkingKeeps DEF atHop
    <2>. QED  BY <2>1 DEF NothingForgotten, Followable
  <1>2. CASE EntryFetchError \/ FetchError \/ Duplicate \/ NotLuaHop
    <2>1. PICK stop, input : record(emptyStep(stop), NoReport, input)
      BY <1>2, DeadHopRecords
    <2>2. UNCHANGED <<poolStack, seenUrls>> /\ pc # "done"
      BY <1>2, DeadHopRecords DEF atHop
    <2>3. /\ Len(steps') = Len(steps) + 1 /\ steps'[Len(steps) + 1].urls = {}
          /\ \A i \in 1..Len(steps) : steps'[i] = steps[i]
      BY <2>1, RecordEffect DEF emptyStep
    <2>. QED  BY <1>0, <2>2, <2>3 DEF NothingForgotten, Followable
  <1>3. CASE StopAtMaxDepth
    BY <1>3 DEF StopAtMaxDepth, NothingForgotten
  <1>4. CASE NoLink
    <2>1. record(liveStep(NoUrl, "none"), report, source)
      BY <1>4 DEF NoLink, recordLive
    <2>2. /\ Len(steps') = Len(steps) + 1 /\ steps'[Len(steps) + 1].urls = pool
          /\ \A i \in 1..Len(steps) : steps'[i] = steps[i]
      BY <2>1, RecordEffect DEF liveStep, pool
    <2>3. UNCHANGED <<poolStack, seenUrls>> /\ pc # "done"
      BY <1>4 DEF NoLink
    <2>4. \A d \in pool : ~Followable(d)
      BY <1>4, PoolScored, NoneFollowable DEF NoLink, TypeOK
    <2>. QED  BY <1>0, <2>2, <2>3, <2>4 DEF NothingForgotten, Followable
  <1>5. CASE Descend
    <2>1. PICK c \in FirstFollowable(pool) :
            /\ recordLive(c.item, "none")
            /\ seenUrls' = seenUrls \cup {urlKey(c.item)}
      BY <1>5 DEF Descend
    <2>2. /\ Len(steps') = Len(steps) + 1 /\ steps'[Len(steps) + 1].urls = pool
          /\ \A i \in 1..Len(steps) : steps'[i] = steps[i]
      BY <2>1, RecordEffect DEF recordLive, liveStep, pool
    <2>3. /\ Len(poolStack') = Len(poolStack) + 1
          /\ poolStack'[1].urls = pool
          /\ \A i \in 1..Len(poolStack) : poolStack'[i + 1] = poolStack[i]
      BY <1>5 DEF Descend, TypeOK
    <2>4. pc # "done" /\ Scored(pool)
      BY <1>5, PoolScored DEF Descend, TypeOK
    <2>5. \A k \in 1..Len(poolStack') : Scored(poolStack'[k].urls)
      <3>. SUFFICES ASSUME NEW k \in 1..Len(poolStack') PROVE Scored(poolStack'[k].urls)
        OBVIOUS
      <3>1. CASE k = 1
        BY <2>3, <2>4, <3>1
      <3>2. CASE k - 1 \in 1..Len(poolStack)
        <4>1. poolStack'[k] = poolStack[k - 1]
          BY <1>0, <2>3, <3>2
        <4>. QED  BY <3>2, <4>1 DEF NothingForgotten
      <3>. QED  BY <1>0, <2>3, <3>1, <3>2
    <2>6. ASSUME NEW i \in 1..Len(steps'), NEW d \in steps'[i].urls, Followable(d)'
          PROVE  \E k \in 1..Len(poolStack') : d \in poolStack'[k].urls
      <3>1. CASE i = Len(steps) + 1
        BY <1>0, <2>2, <2>3, <2>6, <3>1
      <3>2. CASE i \in 1..Len(steps)
        <4>1. Followable(d) /\ d \in steps[i].urls
          BY <2>1, <2>2, <2>6, <3>2 DEF Followable
        <4>2. PICK k \in 1..Len(poolStack) : d \in poolStack[k].urls
          BY <2>4, <3>2, <4>1 DEF NothingForgotten
        <4>3. k + 1 \in 1..Len(poolStack') /\ poolStack'[k + 1] = poolStack[k]
          BY <1>0, <2>3
        <4>. QED  BY <4>2, <4>3
      <3>. QED  BY <1>0, <2>2, <3>1, <3>2
    <2>. QED  BY <2>5, <2>6 DEF NothingForgotten
  <1>6. CASE NextCandidate
    <2>1. /\ UNCHANGED <<steps, poolStack>> /\ seenUrls \subseteq seenUrls'
          /\ pc # "done"
      BY <1>6 DEF NextCandidate
    <2>. QED  BY <2>1 DEF NothingForgotten, Followable
  <1>7. CASE ShiftPool
    <2>1. /\ UNCHANGED <<steps, seenUrls>> /\ pc # "done"
          /\ 1 \in 1..Len(poolStack) /\ Len(poolStack') = Len(poolStack) - 1
          /\ \A k \in 1..Len(poolStack') : k + 1 \in 1..Len(poolStack) /\ poolStack'[k] = poolStack[k + 1]
      BY <1>7 DEF ShiftPool, TypeOK
    <2>2. \A d \in poolStack[1].urls : ~Followable(d)
      BY <1>7, <2>1, NoneFollowable DEF ShiftPool, NothingForgotten
    <2>3. \A k \in 1..Len(poolStack') : Scored(poolStack'[k].urls)
      BY <2>1 DEF NothingForgotten
    <2>4. ASSUME NEW i \in 1..Len(steps'), NEW d \in steps'[i].urls, Followable(d)'
          PROVE  \E k \in 1..Len(poolStack') : d \in poolStack'[k].urls
      <3>1. Followable(d) /\ i \in 1..Len(steps) /\ d \in steps[i].urls
        BY <2>1, <2>4 DEF Followable
      <3>2. PICK k \in 1..Len(poolStack) : d \in poolStack[k].urls
        BY <2>1, <3>1 DEF NothingForgotten
      <3>3. k # 1
        BY <2>2, <3>1, <3>2
      <3>4. k - 1 \in 1..Len(poolStack') /\ poolStack'[k - 1] = poolStack[k]
        BY <1>0, <2>1, <3>3
      <3>. QED  BY <3>2, <3>4
    <2>. QED  BY <2>3, <2>4 DEF NothingForgotten
  <1>8. CASE NoCandidate
    BY <1>8 DEF NoCandidate, NothingForgotten
  <1>. QED
    BY <1>1, <1>2, <1>3, <1>4, <1>5, <1>6, <1>7, <1>8 DEF Next, Finished, Working

(* Every step of a run is a step of the crawl or leaves the crawl alone.   *)
LEMMA StepCrawls ==
  ASSUME TypeOK, TypeOK', NothingForgotten, [Next]_vars
  PROVE  [Crawl!Next]_(Crawl!crawl)
  <1>. DEFINE LearnStep == /\ Phase = "running" /\ Known \subseteq Known' /\ Known' \subseteq Keys
                           /\ Phase' \in {"running", "cut"} /\ UNCHANGED seenUrls
              TryStep == /\ Phase = "running" /\ Known \subseteq Known' /\ Known' \subseteq Keys
                         /\ \E k \in Known' \ seenUrls : seenUrls' = seenUrls \cup {k}
                         /\ UNCHANGED Phase
              CompleteStep == /\ Phase = "running" /\ Known = seenUrls /\ Phase' = "complete"
                              /\ UNCHANGED <<Known, seenUrls>>
              Stutter == UNCHANGED <<Known, seenUrls, Phase>>
  <1>1. LearnStep \/ TryStep \/ CompleteStep \/ Stutter => [Crawl!Next]_(Crawl!crawl)
    <2>1. LearnStep => Crawl!Learn
      BY DEF Crawl!Learn, Known, Phase, Keys
    <2>2. TryStep => Crawl!Try
      BY DEF Crawl!Try, Known, Phase, Keys
    <2>3. CompleteStep => Crawl!Complete
      BY DEF Crawl!Complete, Known, Phase, Keys
    <2>4. Stutter => UNCHANGED Crawl!crawl
      BY DEF Crawl!crawl, Known, Phase, Keys
    <2>. QED  BY <2>1, <2>2, <2>3, <2>4 DEF Crawl!Next
  <1>2. Known' \subseteq Keys /\ seenUrls \subseteq Known
    BY KnownKeys, KnownIs
  <1>. HIDE DEF LearnStep, TryStep, CompleteStep, Stutter
  <1>0. Len(steps) \in Nat
    BY DEF TypeOK
  <1>3. CASE Working
    <2>1. UNCHANGED <<steps, seenUrls, deadHops>> /\ (pc' = pc \/ (pc # "done" /\ pc' # "done"))
      BY <1>3, WorkingKeeps DEF atHop
    <2>2. Stutter
      BY <2>1 DEF Stutter, Known, Phase, cutShort
    <2>. QED  BY <1>1, <2>2
  <1>4. CASE EntryFetchError \/ FetchError \/ Duplicate \/ NotLuaHop
    <2>1. PICK stop, input : record(emptyStep(stop), NoReport, input)
      BY <1>4, DeadHopRecords
    <2>2. /\ Len(steps') = Len(steps) + 1
          /\ \A i \in 1..Len(steps) : steps'[i] = steps[i]
      BY <2>1, RecordEffect
    <2>3. UNCHANGED seenUrls /\ pc # "done" /\ (pc' = "done" => cutShort')
      BY <1>4, DeadHopRecords DEF atHop
    <2>4. Known \subseteq Known'
      BY <1>0, <2>2, <2>3, KnownIs
    <2>5. LearnStep
      BY <1>2, <2>3, <2>4 DEF LearnStep, Phase
    <2>. QED  BY <1>1, <2>5
  <1>5. CASE StopAtMaxDepth \/ NoLink
    <2>1. PICK stop \in {"max-depth", "none"} :
            /\ \E f : record(liveStep(f, stop), report, source)
            /\ pc' = "done" => stop = "max-depth"
      <3>1. CASE StopAtMaxDepth
        BY <3>1 DEF StopAtMaxDepth, recordLive
      <3>2. CASE NoLink
        BY <3>2 DEF NoLink, recordLive
      <3>. QED  BY <1>5, <3>1, <3>2
    <2>2. /\ Len(steps') = Len(steps) + 1 /\ steps'[Len(steps) + 1].stopReason = stop
          /\ \A i \in 1..Len(steps) : steps'[i] = steps[i]
      BY <2>1, RecordEffect DEF liveStep
    <2>3. UNCHANGED seenUrls /\ pc # "done"
      BY <1>5 DEF StopAtMaxDepth, NoLink
    <2>4. pc' = "done" => cutShort'
      BY <1>0, <2>1, <2>2 DEF cutShort
    <2>5. Known \subseteq Known'
      BY <1>0, <2>2, <2>3, KnownIs
    <2>6. LearnStep
      BY <1>2, <2>3, <2>4, <2>5 DEF LearnStep, Phase
    <2>. QED  BY <1>1, <2>6
  <1>6. CASE Descend \/ NextCandidate
    <2>1. PICK c : /\ seenUrls' = seenUrls \cup {urlKey(c.item)}
                   /\ Followable(c)
      BY <1>6 DEF Descend, NextCandidate, FirstFollowable
    <2>2. urlKey(c.item) \notin seenUrls
      BY <2>1 DEF Followable
    <2>3. /\ Len(steps') >= Len(steps) /\ Len(steps') \in Nat
          /\ \A i \in 1..Len(steps) : steps'[i] = steps[i]
      <3>1. CASE Descend
        <4>1. PICK f : record(liveStep(f, "none"), report, source)
          BY <3>1 DEF Descend, recordLive
        <4>. QED  BY <1>0, <4>1, RecordEffect
      <3>2. CASE NextCandidate
        BY <1>0, <3>2 DEF NextCandidate
      <3>. QED  BY <1>6, <3>1, <3>2
    <2>4. pc # "done" /\ pc' # "done"
      BY <1>6 DEF Descend, NextCandidate
    <2>5. Known \subseteq Known' /\ urlKey(c.item) \in Known'
      BY <1>0, <2>1, <2>3, KnownIs
    <2>6. TryStep
      BY <1>2, <2>1, <2>2, <2>4, <2>5 DEF TryStep, Phase
    <2>. QED  BY <1>1, <2>6
  <1>7. CASE ShiftPool
    <2>1. UNCHANGED <<steps, seenUrls>> /\ pc # "done" /\ pc' # "done"
      BY <1>7 DEF ShiftPool
    <2>2. Stutter
      BY <2>1 DEF Stutter, Known, Phase
    <2>. QED  BY <1>1, <2>2
  <1>8. CASE NoCandidate
    <2>1. /\ Len(steps') = Len(steps)
          /\ \A i \in 1..Len(steps) : steps'[i].urls = steps[i].urls
          /\ UNCHANGED seenUrls /\ pc # "done" /\ pc' = "done" /\ poolStack = <<>>
      BY <1>8, LastStopKeeps DEF NoCandidate
    <2>2. Known' = Known
      BY <2>1, KnownIs
    <2>3. Known \subseteq seenUrls
      BY <2>1, KnownIs DEF NothingForgotten, Followable
    <2>4. CASE cutShort'
      <3>1. LearnStep
        BY <1>2, <2>1, <2>2, <2>4 DEF LearnStep, Phase
      <3>. QED  BY <1>1, <3>1
    <2>5. CASE ~cutShort'
      <3>1. CompleteStep
        BY <1>2, <2>1, <2>2, <2>3, <2>5 DEF CompleteStep, Phase
      <3>. QED  BY <1>1, <3>1
    <2>. QED  BY <2>4, <2>5
  <1>. QED
    BY <1>3, <1>4, <1>5, <1>6, <1>7, <1>8 DEF Next, Finished, Working

(* A run is a crawl: a link is tried once, only if it is known, and a run  *)
(* that no limit cuts short has tried every link it found.                 *)
THEOREM ImplementsCrawlCorrect == Spec => ImplementsCrawl
  <1>1. Init => NothingForgotten
    BY DEF Init, NothingForgotten
  <1>2. TypeOK /\ NothingForgotten /\ [Next]_vars => NothingForgotten'
    BY NothingForgottenKept
  <1>3. Init => Crawl!Init
    <2>. SUFFICES ASSUME Init PROVE Crawl!Init
      OBVIOUS
    <2>1. PICK e \in Entries : seenUrls = (IF e.url = NoUrl THEN {} ELSE {urlKey(e.url)})
      BY DEF Init
    <2>2. e.url \in Urls \cup {NoUrl}
      BY ChainAssumption
    <2>3. steps = <<>> /\ pc = "load"
      BY DEF Init
    <2>4. Known = seenUrls
      <3>1. Len(steps) = 0
        BY <2>3
      <3>. QED  BY <3>1, KnownIs
    <2>5. seenUrls \in {{}} \cup {{k} : k \in Keys}
      BY <2>1, <2>2 DEF Keys
    <2>6. Phase = "running"
      BY <2>3 DEF Phase
    <2>. QED  BY <2>4, <2>5, <2>6 DEF Crawl!Init, Known, Keys, Phase
  <1>4. TypeOK /\ TypeOK' /\ NothingForgotten /\ [Next]_vars => [Crawl!Next]_(Crawl!crawl)
    BY StepCrawls
  <1>. QED  BY <1>1, <1>2, <1>3, <1>4, TypeCorrect, PTL DEF Spec, ImplementsCrawl, Crawl!Spec

================================================================================
