------------------------------ MODULE ChainRunner ------------------------------
(***************************************************************************)
(* runDeobfChain of src/chain.ts: one run of the loader-chain resolver.    *)
(* A script is loaded, guarded against cycles, deobfuscated, searched for  *)
(* links, and the best unseen link is followed; a dead or exhausted hop    *)
(* backtracks through the pools of links of the scripts above it.          *)
(*                                                                         *)
(* Texts, links and engine results are data: a text is a model value, what *)
(* it mentions and what the engines make of it are constant functions.     *)
(* What a server answers and what an engine returns is chosen at each step.*)
(***************************************************************************)
EXTENDS Naturals, Sequences, FiniteSets

CONSTANTS
  Urls,          \* records [name, spelling]: spellings differ in case or in a trailing slash
  Texts,         \* script texts
  NotLua,        \* the non-empty texts looksLikeLuaSource refuses
  EmptyText,     \* ""
  HasLoadstring, \* the texts that call loadstring
  mentions,      \* text -> the link literals in it: records [url, usage, dynamic]
  literals,      \* text -> the long string literals in it: records [text, site]
  recover,       \* text -> the reports runDeobfuscation may return for it
  outputBonus,   \* text -> min(0.5, bytes / 2e6), in hundredths
  Entries,       \* the [url, source] pairs a caller starts from
  MaxDepth,      \* opts.maxDepth
  MAX_DEAD_HOPS,
  NoUrl, NoText, NoReport  \* undefined / null

Usages == {"loadstring", "placeid", "httpfetch", "table",
           "varLoadstring", "varHttpfetch", "var", "plain"}
Sites == {"call", "assigned", "other"} \* loadstring("..."), local v = "..." with loadstring(v)

Report == [best : BOOLEAN, output : Texts, confidence : Nat, ok : BOOLEAN]

ASSUME ChainAssumption ==
  /\ MaxDepth \in Nat
  /\ MAX_DEAD_HOPS \in Nat
  /\ NotLua \subseteq Texts
  /\ EmptyText \in Texts \ NotLua
  /\ NoText \notin Texts
  /\ NoUrl \notin Urls
  /\ NoReport \notin Report
  /\ \A t \in Texts :
       /\ \A m \in mentions[t] : m.url \in Urls /\ m.usage \in Usages /\ m.dynamic \in BOOLEAN
       /\ \A l \in literals[t] : l.text \in Texts /\ l.site \in Sites
       /\ recover[t] \subseteq Report
       /\ outputBonus[t] \in Nat
  /\ \A e \in Entries :
       /\ e.url \in Urls \cup {NoUrl}
       /\ e.source \in Texts \cup {NoText}
       /\ e.url # NoUrl \/ e.source # NoText

FOLLOW_SCORE_THRESHOLD == 70

(* urlKey: trims trailing slashes and lower-cases, so only the name is left. *)
urlKey(u) == u.name

(* A list sorted by score that keeps one entry per item, its best one. *)
KeepBest(list) ==
  {c \in list : \A d \in list : d.item = c.item => d.score <= c.score}

usageScore(t) ==
  LET executes == t \in HasLoadstring
  IN [loadstring |-> 100, placeid |-> IF executes THEN 90 ELSE 55,
      httpfetch |-> 85, table |-> IF executes THEN 70 ELSE 40,
      varLoadstring |-> 95, varHttpfetch |-> 80, var |-> 50, plain |-> 10]

(* A link glued together at run time keeps score 5 whatever its usage, so  *)
(* the "not dynamic" test of the code is the threshold test here.          *)
extractScriptUrls(t) ==
  KeepBest({[item |-> m.url,
             score |-> IF m.dynamic THEN 5 ELSE usageScore(t)[m.usage]]
            : m \in mentions[t]})

(* A long Lua literal passed to loadstring, directly or through a variable.*)
extractEmbeddedLuaPayloads(t) ==
  KeepBest({[item |-> l.text, score |-> IF l.site = "call" THEN 100 ELSE 95]
            : l \in {k \in literals[t] : k.text \notin NotLua /\ k.site # "other"}})

hasBest(r) == r # NoReport /\ r.best

(* A hop is searched twice: in its source and in what was recovered from it*)
searched(t, r) == {t} \cup (IF hasBest(r) THEN {r.output} ELSE {})
mergeUrls(ts) == KeepBest(UNION {extractScriptUrls(t) : t \in ts})
mergeEmbeddedPayloads(ts) == KeepBest(UNION {extractEmbeddedLuaPayloads(t) : t \in ts})

--------------------------------------------------------------------------------

VARIABLES
  pc,            \* where the loop body of the run stands
  currentUrl, currentDepth, pendingSource,
  source,        \* the text of this hop
  report,        \* the report of this hop
  steps, reports, inputs,      \* the three lists of the result, one entry per hop
  seenUrls, seenHashes,        \* link keys ever chosen, texts ever taken up
  poolStack,     \* pools of the scripts above, newest first
  finalIndex,    \* 0: none yet
  deadHops,
  ran            \* history: the texts handed to runDeobfuscation, in order

vars == <<pc, currentUrl, currentDepth, pendingSource, source, report, steps, reports,
          inputs, seenUrls, seenHashes, poolStack, finalIndex, deadHops, ran>>

Init ==
  \E e \in Entries :
    /\ pc = "load"
    /\ currentUrl = e.url /\ currentDepth = 0 /\ pendingSource = e.source
    /\ source = NoText /\ report = NoReport
    /\ steps = <<>> /\ reports = <<>> /\ inputs = <<>>
    /\ seenUrls = (IF e.url = NoUrl THEN {} ELSE {urlKey(e.url)})
    /\ seenHashes = {}
    /\ poolStack = <<>>
    /\ finalIndex = 0 /\ deadHops = 0 /\ ran = <<>>

(* Definitions named ...Fault are what a plausible slip would make of the   *)
(* definition below them; nothing uses them but the fault runs.            *)

(* How meaningful a step is, in hundredths.                                *)
stepWeight(s) == (IF s.valid THEN 100 ELSE 0) + s.engineConfidence + s.outputBonus

FollowableFault(c) == urlKey(c.item) \notin seenUrls  \* any link is followed

Followable(c) == c.score >= FOLLOW_SCORE_THRESHOLD /\ urlKey(c.item) \notin seenUrls

(* What find() may return on a list sorted by score: ties are left open.   *)
FirstFollowable(list) ==
  {c \in list : Followable(c) /\ \A d \in list : Followable(d) => d.score <= c.score}

emptyStep(stop) ==
  [depth |-> currentDepth, url |-> currentUrl, urls |-> {}, valid |-> FALSE,
   engineConfidence |-> 0, outputBonus |-> 0, followedUrl |-> NoUrl, stopReason |-> stop]

(* Nothing is stored for a fetch that failed.                              *)
recordFault(step, r, input) ==
  /\ steps' = Append(steps, step)
  /\ reports' = Append(reports, r)
  /\ inputs' = IF step.stopReason = "fetch-error" THEN inputs ELSE Append(inputs, input)

record(step, r, input) ==
  /\ steps' = Append(steps, step)
  /\ reports' = Append(reports, r)
  /\ inputs' = Append(inputs, input)

(* A hop that yields nothing: it is recorded, and the next candidate tried *)
(* until the budget of dead hops is spent.                                 *)
deadHop(stop, input) ==
  /\ record(emptyStep(stop), NoReport, input)
  /\ deadHops' = deadHops + 1
  /\ pc' = IF deadHops + 1 > MAX_DEAD_HOPS THEN "done" ELSE "backtrack"
  /\ source' = NoText
  /\ UNCHANGED <<currentUrl, currentDepth, pendingSource, report, seenUrls,
                 poolStack, finalIndex, ran>>

UsePendingSource ==
  /\ pc = "load" /\ pendingSource # NoText
  /\ source' = pendingSource /\ pendingSource' = NoText
  /\ pc' = "guard"
  /\ UNCHANGED <<currentUrl, currentDepth, report, steps, reports, inputs, seenUrls,
                 seenHashes, poolStack, finalIndex, deadHops, ran>>

Fetch ==
  /\ pc = "load" /\ pendingSource = NoText
  /\ \E t \in Texts : source' = t
  /\ pc' = "guard"
  /\ UNCHANGED <<currentUrl, currentDepth, pendingSource, report, steps, reports, inputs,
                 seenUrls, seenHashes, poolStack, finalIndex, deadHops, ran>>

(* A failed entry ends the run and is not counted as a dead hop.           *)
EntryFetchError ==
  /\ pc = "load" /\ pendingSource = NoText /\ steps = <<>>
  /\ record(emptyStep("fetch-error"), NoReport, EmptyText)
  /\ pc' = "done"
  /\ UNCHANGED <<currentUrl, currentDepth, pendingSource, source, report, seenUrls,
                 seenHashes, poolStack, finalIndex, deadHops, ran>>

FetchError ==
  /\ pc = "load" /\ pendingSource = NoText /\ steps # <<>>
  /\ deadHop("fetch-error", EmptyText)
  /\ UNCHANGED seenHashes

isDuplicate == source \in seenHashes /\ currentDepth > 0

Duplicate ==
  /\ pc = "guard" /\ isDuplicate
  /\ deadHop("duplicate", source)
  /\ UNCHANGED seenHashes

(* The entry is deobfuscated whatever it looks like, and so is "".         *)
isUnusable == source \in NotLua /\ currentDepth > 0

NotLuaHop ==
  /\ pc = "guard" /\ ~isDuplicate /\ isUnusable
  /\ seenHashes' = seenHashes \cup {source}
  /\ deadHop("not-lua", source)

TakeUp ==
  /\ pc = "guard" /\ ~isDuplicate /\ ~isUnusable
  /\ seenHashes' = seenHashes \cup {source}
  /\ pc' = "deobfuscate"
  /\ UNCHANGED <<currentUrl, currentDepth, pendingSource, source, report, steps, reports,
                 inputs, seenUrls, poolStack, finalIndex, deadHops, ran>>

(* runDeobfuscation returns a report or throws; the catch leaves null.     *)
Deobfuscate ==
  /\ pc = "deobfuscate"
  /\ report' \in recover[source] \cup {NoReport}
  /\ ran' = Append(ran, source)
  /\ pc' = "embedded"
  /\ UNCHANGED <<currentUrl, currentDepth, pendingSource, source, steps, reports, inputs,
                 seenUrls, seenHashes, poolStack, finalIndex, deadHops>>

freshPayloads ==
  {p \in mergeEmbeddedPayloads(searched(source, report)) : p.item \notin seenHashes}

supersedes(nested) ==
  /\ nested # NoReport /\ nested.best
  /\ ~report.best \/ nested.confidence >= report.confidence \/ nested.ok

(* The payload is run without being marked as seen.                        *)
DeobfuscatePayloadFault ==
  /\ pc = "embedded" /\ MaxDepth > 0 /\ report # NoReport
  /\ \E p \in freshPayloads :
       /\ \A q \in freshPayloads : q.score <= p.score
       /\ ran' = Append(ran, p.item)
       /\ \E nested \in recover[p.item] \cup {NoReport} :
            report' = IF supersedes(nested) THEN nested ELSE report
  /\ pc' = "extract"
  /\ UNCHANGED <<currentUrl, currentDepth, pendingSource, source, steps, reports, inputs,
                 seenUrls, seenHashes, poolStack, finalIndex, deadHops>>

(* The payload is marked before its own run, which may throw as well.      *)
DeobfuscatePayload ==
  /\ pc = "embedded" /\ MaxDepth > 0 /\ report # NoReport
  /\ \E p \in freshPayloads :
       /\ \A q \in freshPayloads : q.score <= p.score
       /\ seenHashes' = seenHashes \cup {p.item}
       /\ ran' = Append(ran, p.item)
       /\ \E nested \in recover[p.item] \cup {NoReport} :
            report' = IF supersedes(nested) THEN nested ELSE report
  /\ pc' = "extract"
  /\ UNCHANGED <<currentUrl, currentDepth, pendingSource, source, steps, reports, inputs,
                 seenUrls, poolStack, finalIndex, deadHops>>

NoPayload ==
  /\ pc = "embedded"
  /\ MaxDepth = 0 \/ report = NoReport \/ freshPayloads = {}
  /\ pc' = "extract"
  /\ UNCHANGED <<currentUrl, currentDepth, pendingSource, source, report, steps, reports,
                 inputs, seenUrls, seenHashes, poolStack, finalIndex, deadHops, ran>>

liveStep(followed, stop) ==
  [depth |-> currentDepth, url |-> currentUrl,
   urls |-> mergeUrls(searched(source, report)),
   valid |-> hasBest(report) /\ report.ok,
   engineConfidence |-> IF hasBest(report) THEN report.confidence ELSE 0,
   outputBonus |-> IF hasBest(report) THEN outputBonus[report.output] ELSE 0,
   followedUrl |-> followed, stopReason |-> stop]

(* Steps are compared by the engine's confidence alone.                    *)
recordLiveFault(followed, stop) ==
  LET step == liveStep(followed, stop)
  IN /\ record(step, report, source)
     /\ finalIndex' = IF /\ hasBest(report)
                         /\ \/ finalIndex = 0
                            \/ step.engineConfidence > steps[finalIndex].engineConfidence
                      THEN Len(steps) + 1 ELSE finalIndex
     /\ source' = NoText /\ report' = NoReport
     /\ UNCHANGED <<pendingSource, seenHashes, deadHops, ran>>

(* The step becomes the result when it outweighs the present one strictly: *)
(* the earliest of the heaviest steps wins.                                *)
recordLive(followed, stop) ==
  LET step == liveStep(followed, stop)
  IN /\ record(step, report, source)
     /\ finalIndex' = IF /\ hasBest(report)
                         /\ \/ finalIndex = 0
                            \/ stepWeight(step) > stepWeight(steps[finalIndex])
                      THEN Len(steps) + 1 ELSE finalIndex
     /\ source' = NoText /\ report' = NoReport
     /\ UNCHANGED <<pendingSource, seenHashes, deadHops, ran>>

pool == mergeUrls(searched(source, report))

(* The link that would be followed is recorded even where none can be.     *)
StopAtMaxDepth ==
  /\ pc = "extract" /\ currentDepth >= MaxDepth
  /\ \E f \in {c.item : c \in FirstFollowable(pool)} \cup {NoUrl} :
       /\ f = NoUrl => FirstFollowable(pool) = {}
       /\ recordLive(f, "max-depth")
  /\ pc' = "done"
  /\ UNCHANGED <<currentUrl, currentDepth, seenUrls, poolStack>>

Descend ==
  /\ pc = "extract" /\ currentDepth < MaxDepth
  /\ \E c \in FirstFollowable(pool) :
       /\ recordLive(c.item, "none")
       /\ seenUrls' = seenUrls \cup {urlKey(c.item)}
       /\ currentUrl' = c.item
  /\ poolStack' = <<[depth |-> currentDepth, urls |-> pool]>> \o poolStack
  /\ currentDepth' = currentDepth + 1
  /\ pc' = "load"

NoLink ==
  /\ pc = "extract" /\ currentDepth < MaxDepth
  /\ FirstFollowable(pool) = {}
  /\ recordLive(NoUrl, "none")
  /\ pc' = "backtrack"
  /\ UNCHANGED <<currentUrl, currentDepth, seenUrls, poolStack>>

(* nextCandidate goes one deeper than the hop it leaves.                   *)
NextCandidateFaultDepth ==
  /\ pc = "backtrack" /\ poolStack # <<>>
  /\ \E c \in FirstFollowable(poolStack[1].urls) :
       /\ seenUrls' = seenUrls \cup {urlKey(c.item)}
       /\ currentUrl' = c.item
  /\ currentDepth' = currentDepth + 1
  /\ pc' = "load"
  /\ UNCHANGED <<pendingSource, source, report, steps, reports, inputs, seenHashes,
                 poolStack, finalIndex, deadHops, ran>>

(* nextCandidate drops the pool it takes a link from.                      *)
NextCandidateFaultShift ==
  /\ pc = "backtrack" /\ poolStack # <<>>
  /\ \E c \in FirstFollowable(poolStack[1].urls) :
       /\ seenUrls' = seenUrls \cup {urlKey(c.item)}
       /\ currentUrl' = c.item
  /\ currentDepth' = poolStack[1].depth + 1
  /\ poolStack' = Tail(poolStack)
  /\ pc' = "load"
  /\ UNCHANGED <<pendingSource, source, report, steps, reports, inputs, seenHashes,
                 finalIndex, deadHops, ran>>

(* nextCandidate, one iteration of its loop at a time.                     *)
NextCandidate ==
  /\ pc = "backtrack" /\ poolStack # <<>>
  /\ \E c \in FirstFollowable(poolStack[1].urls) :
       /\ seenUrls' = seenUrls \cup {urlKey(c.item)}
       /\ currentUrl' = c.item
  /\ currentDepth' = poolStack[1].depth + 1
  /\ pc' = "load"
  /\ UNCHANGED <<pendingSource, source, report, steps, reports, inputs, seenHashes,
                 poolStack, finalIndex, deadHops, ran>>

ShiftPoolFault ==  \* the exhausted pool stays on the stack
  /\ pc = "backtrack" /\ poolStack # <<>>
  /\ FirstFollowable(poolStack[1].urls) = {}
  /\ UNCHANGED vars

ShiftPool ==
  /\ pc = "backtrack" /\ poolStack # <<>>
  /\ FirstFollowable(poolStack[1].urls) = {}
  /\ poolStack' = Tail(poolStack)
  /\ UNCHANGED <<pc, currentUrl, currentDepth, pendingSource, source, report, steps,
                 reports, inputs, seenUrls, seenHashes, finalIndex, deadHops, ran>>

(* The reason a dead hop already has is kept.                              *)
stopped(s, reason) ==
  [s EXCEPT !.stopReason = IF s.stopReason = "none" THEN reason ELSE s.stopReason]

setLastStop(reason) ==
  steps' = [steps EXCEPT ![Len(steps)] = stopped(steps[Len(steps)], reason)]

NoCandidate ==
  /\ pc = "backtrack" /\ poolStack = <<>>
  /\ setLastStop("exhausted")
  /\ pc' = "done"
  /\ UNCHANGED <<currentUrl, currentDepth, pendingSource, source, report, reports, inputs,
                 seenUrls, seenHashes, poolStack, finalIndex, deadHops, ran>>

Finished == pc = "done" /\ UNCHANGED vars

Next ==
  \/ UsePendingSource \/ Fetch \/ EntryFetchError \/ FetchError
  \/ Duplicate \/ NotLuaHop \/ TakeUp
  \/ Deobfuscate \/ DeobfuscatePayload \/ NoPayload
  \/ StopAtMaxDepth \/ Descend \/ NoLink
  \/ NextCandidate \/ ShiftPool \/ NoCandidate
  \/ Finished

(* Every await of the loop returns: a fetch is aborted after 15 s, an      *)
(* engine is abandoned at its timeout.                                     *)
Spec == Init /\ [][Next]_vars /\ WF_vars(Next)

--------------------------------------------------------------------------------

Step == [depth : Nat, url : Urls \cup {NoUrl},
         urls : SUBSET [item : Urls, score : Nat], valid : BOOLEAN,
         engineConfidence : Nat, outputBonus : Nat, followedUrl : Urls \cup {NoUrl},
         stopReason : {"none", "fetch-error", "duplicate", "not-lua",
                       "max-depth", "exhausted"}]

PoolEntry == [depth : Nat, urls : SUBSET [item : Urls, score : Nat]]

(* Every variable of the run keeps its type, and the three result lists    *)
(* have the same length.                                                   *)
TypeOK ==
  /\ pc \in {"load", "guard", "deobfuscate", "embedded", "extract", "backtrack", "done"}
  /\ currentUrl \in Urls \cup {NoUrl} /\ currentDepth \in Nat
  /\ pendingSource \in Texts \cup {NoText} /\ source \in Texts \cup {NoText}
  /\ (pc \in {"guard", "deobfuscate", "embedded", "extract"} => source \in Texts)
  /\ report \in Report \cup {NoReport}
  /\ steps \in Seq(Step)
  /\ reports \in Seq(Report \cup {NoReport}) /\ inputs \in Seq(Texts)
  /\ Len(reports) = Len(steps) /\ Len(inputs) = Len(steps)
  /\ seenUrls \subseteq {urlKey(u) : u \in Urls} /\ seenHashes \subseteq Texts
  /\ poolStack \in Seq(PoolEntry)
  /\ finalIndex \in 0..Len(steps) /\ deadHops \in Nat
  /\ ran \in Seq(Texts)

deadReasons == {"fetch-error", "duplicate", "not-lua"}
atHop == pc \notin {"backtrack", "done"}

(* The pool stack is the path from the entry to the present hop: one pool  *)
(* per depth, newest first, the present link taken from the top one, and   *)
(* no hop deeper than the limit (unshift, shift and "top.depth + 1").      *)
StackIsPath ==
  /\ \A i \in 1..Len(poolStack) : poolStack[i].depth = Len(poolStack) - i
  /\ currentDepth <= MaxDepth
  /\ atHop => /\ Len(poolStack) = currentDepth
              /\ currentDepth > 0 => \E c \in poolStack[1].urls : c.item = currentUrl

(* No text is deobfuscated twice in a run, whether it came from a server   *)
(* or out of another script (the seenHashes marks set at two places).      *)
RunOnce == \A i, j \in 1..Len(ran) : ran[i] = ran[j] => i = j

(* Every hop after the entry goes to a link found, at a score to follow,   *)
(* in an earlier hop exactly one level above it.                           *)
Provenance ==
  \A i \in 2..Len(steps) : \E j \in 1..(i - 1) :
    /\ steps[i].depth = steps[j].depth + 1
    /\ \E c \in steps[j].urls : c.item = steps[i].url /\ c.score >= FOLLOW_SCORE_THRESHOLD

(* The result is a step whose own report has an output, no step with one   *)
(* outweighs it, and every earlier one is lighter.                         *)
HeaviestFinal ==
  LET withBest == {i \in 1..Len(steps) : hasBest(reports[i])}
  IN IF finalIndex = 0 THEN withBest = {}
     ELSE /\ finalIndex \in withBest
          /\ \A i \in withBest :
               /\ stepWeight(steps[i]) <= stepWeight(steps[finalIndex])
               /\ i < finalIndex => stepWeight(steps[i]) < stepWeight(steps[finalIndex])

(* The run ends, whatever the servers and the engines answer.              *)
Termination == <>(pc = "done")

(* Nothing that followable pools hold is forgotten: the run is a crawl     *)
(* that stops early only at a limit (depth, dead hops) or a failed entry.  *)
cutShort ==
  \/ deadHops > MAX_DEAD_HOPS
  \/ Len(steps) > 0 /\ steps[Len(steps)].stopReason = "max-depth"
  \/ Len(steps) = 1 /\ steps[1].stopReason = "fetch-error"

Crawl == INSTANCE LinkCrawl WITH
  Keys <- {urlKey(u) : u \in Urls},
  known <- seenUrls \cup
           UNION {{urlKey(c.item) : c \in {d \in steps[i].urls :
                                             d.score >= FOLLOW_SCORE_THRESHOLD}}
                  : i \in 1..Len(steps)},
  tried <- seenUrls,
  phase <- IF pc # "done" THEN "running" ELSE IF cutShort THEN "cut" ELSE "complete"

(* The run implements the crawl.                                           *)
ImplementsCrawl == Crawl!Spec
================================================================================
