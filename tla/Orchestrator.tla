----------------------------- MODULE Orchestrator -----------------------------
(***************************************************************************)
(* runDeobfuscation of src/deobfuscators/orchestrator.ts: several runs on  *)
(* one event loop share the report cache.  A run scores its engines, lets  *)
(* them race their timeouts (all at once, or one after the other), ranks   *)
(* and refines the outputs, picks a winner, cleans it up, and feeds it     *)
(* through the portfolio again while that pays.                            *)
(*                                                                         *)
(* Outputs are model values; what the quality model says of them, what an  *)
(* engine, the multi-pass cleanup or a nested run may make of them, are    *)
(* constants.  Points are hundredths of a quality score.                   *)
(***************************************************************************)
EXTENDS Ordering, SequencesExt

CONSTANTS
  Runs, Inputs, Outputs,
  Engines, generic,     \* ALL_DEOBFUSCATORS
  place,                \* engine -> its place in that list
  detectScore,          \* input -> engine -> its score, family fallback included
  engineResult,         \* input -> engine -> the results its promise may resolve to
  cleanup,              \* output -> what runMultiPass may turn it into
  confidenceGains,      \* what runMultiPass may add to a confidence
  nestedBest,           \* output -> the best outputs of a run on it (or None)
  score,                \* output -> scoreOutputDetailed(...).score in points
  validSyntax,          \* the outputs with syntaxScore = 1
  converged,            \* those clean and readable enough to stop deep rounds
  size,                 \* output -> its length
  Requests,             \* what callers ask for: run -> [input, opts] of each run they make
  cacheSize,            \* entries the report cache holds
  None

ASSUME OrchestratorAssumption ==
  /\ generic \in Engines /\ IsFiniteSet(Engines) /\ None \notin Outputs \cup Inputs
  /\ \A e \in Engines : place[e] \in Nat /\ \A d \in Engines : place[d] = place[e] => d = e
  /\ validSyntax \subseteq Outputs /\ converged \subseteq Outputs
  /\ cacheSize \in Nat \ {0} /\ confidenceGains \subseteq Nat
  /\ \A o \in Outputs : /\ score[o] \in 0..100 /\ size[o] \in Nat
                        /\ cleanup[o] \subseteq Outputs
                        /\ nestedBest[o] \subseteq Outputs \cup {None}
  /\ \A q \in Requests : DOMAIN q \subseteq Runs /\ \A r \in DOMAIN q :
       /\ q[r].input \in Inputs
       /\ q[r].opts.parallel \in BOOLEAN /\ q[r].opts.useCache \in BOOLEAN
       /\ q[r].opts.deepRounds \in Int /\ q[r].opts.deepMinImprovement \in Nat \ {0}
  /\ \A i \in Inputs, e \in Engines :
       /\ detectScore[i][e] \in Nat
       /\ \A r \in engineResult[i][e] :
            r.success \in BOOLEAN /\ r.confidence \in 0..100 /\ r.output \in Outputs

VARIABLES
  phase, input, opts,   \* of each run
  engine,               \* run -> engine -> state of its promise
  result,               \* run -> engine -> what the promise resolved to, or None
  candidates,           \* run -> ranked results
  best, currentRank, round,
  report,               \* run -> what it returned
  cache,                \* sequence of [input, report], least recently used first
  held                  \* an engine computes for ever on the one thread

runVars == <<phase, input, opts, engine, result, candidates, best, currentRank, round, report>>
vars == <<runVars, cache, held>>

Init ==
  /\ \E q \in Requests :
       /\ phase = [r \in Runs |-> IF r \in DOMAIN q THEN "start" ELSE "absent"]
       /\ input = [r \in Runs |-> IF r \in DOMAIN q THEN q[r].input ELSE None]
       /\ opts = [r \in Runs |-> IF r \in DOMAIN q THEN q[r].opts ELSE None]
  /\ engine = [r \in Runs |-> [e \in Engines |-> "idle"]]
  /\ result = [r \in Runs |-> [e \in Engines |-> None]]
  /\ candidates = [r \in Runs |-> <<>>]
  /\ best = [r \in Runs |-> None]
  /\ currentRank = [r \in Runs |-> 0] /\ round = [r \in Runs |-> 0]
  /\ report = [r \in Runs |-> None]
  /\ cache = <<>> /\ held = FALSE

--------------------------------------------------------------------------------
(* The priority list: engines that detect something, generic always last.  *)

scored(r) == {e \in Engines : detectScore[input[r]][e] > 0 \/ e = generic}

(* Engines with the same score keep the order they are registered in.      *)
before(r, d, e) ==
  \/ d # generic /\ e = generic
  \/ /\ d # generic /\ e # generic
     /\ \/ detectScore[input[r]][d] > detectScore[input[r]][e]
        \/ detectScore[input[r]][d] = detectScore[input[r]][e] /\ place[d] < place[e]

(* A stable sort by rank, highest first.                                   *)
ahead(s, i, j) == s[i].rank > s[j].rank \/ (s[i].rank = s[j].rank /\ i < j)

byRank(s) ==
  LET places == ordered(DOMAIN s, {p \in (DOMAIN s) \X (DOMAIN s) : ahead(s, p[1], p[2])})
  IN [k \in DOMAIN s |-> s[places[k]]]

rank(o, confidence) == 85 * score[o] + 15 * confidence

rankCandidate(res) ==
  [output |-> res.output, confidence |-> res.confidence,
   rank |-> rank(res.output, res.confidence)]

--------------------------------------------------------------------------------

cached(i) == {k \in 1..Len(cache) : cache[k].input = i}
forget(i) == IF cached(i) = {} THEN cache ELSE RemoveAt(cache, CHOOSE k \in cached(i) : TRUE)

CacheHit(r) ==
  /\ phase[r] = "start" /\ opts[r].useCache
  /\ \E k \in cached(input[r]) :
       /\ report' = [report EXCEPT ![r] = [cache[k].report EXCEPT !.fromCache = TRUE]]
       /\ cache' = Append(forget(input[r]), cache[k])
  /\ phase' = [phase EXCEPT ![r] = "done"]
  /\ UNCHANGED <<input, opts, engine, result, candidates, best, currentRank, round>>

(* The detectors run outside any try: one that throws ends the run.        *)
DetectThrows(r) ==
  /\ phase[r] = "start"
  /\ opts[r].useCache => cached(input[r]) = {}
  /\ phase' = [phase EXCEPT ![r] = "done"]
  /\ UNCHANGED <<input, opts, engine, result, candidates, best, currentRank, round, report,
                 cache>>

(* In parallel mode every engine is started before any can answer.         *)
Launch(r) ==
  /\ phase[r] = "start"
  /\ opts[r].useCache => cached(input[r]) = {}
  /\ engine' = IF opts[r].parallel
               THEN [engine EXCEPT ![r] = [e \in Engines |->
                       IF e \in scored(r) THEN "running" ELSE "idle"]]
               ELSE engine
  /\ phase' = [phase EXCEPT ![r] = "engines"]
  /\ UNCHANGED <<input, opts, result, candidates, best, currentRank, round, report, cache>>

(* The definitions named ...Fault are plausible slips in the definition    *)
(* after them and show what a property would notice.                      *)

(* In sequential mode the next engine starts when the one before it has    *)
(* settled or timed out; one that timed out keeps running in the back.     *)
StartNext(r) ==
  /\ phase[r] = "engines" /\ ~opts[r].parallel
  /\ \E e \in scored(r) :
       /\ engine[r][e] = "idle"
       /\ \A d \in scored(r) : before(r, d, e) => engine[r][d] \notin {"idle", "running"}
       /\ engine' = [engine EXCEPT ![r][e] = "running"]
  /\ UNCHANGED <<phase, input, opts, result, candidates, best, currentRank, round, report,
                 cache>>

Return(r, e) ==
  /\ engine[r][e] = "running"
  /\ \E res \in engineResult[input[r]][e] : result' = [result EXCEPT ![r][e] = res]
  /\ engine' = [engine EXCEPT ![r][e] = "returned"]
  /\ UNCHANGED <<phase, input, opts, candidates, best, currentRank, round, report, cache>>

Fail(r, e) ==
  /\ engine[r][e] = "running"
  /\ engine' = [engine EXCEPT ![r][e] = "failed"]
  /\ UNCHANGED <<phase, input, opts, result, candidates, best, currentRank, round, report,
                 cache>>

(* Only parallel engines are given a timer.                                *)
TimeoutFault(r, e) ==
  /\ engine[r][e] = "running" /\ opts[r].parallel
  /\ engine' = [engine EXCEPT ![r][e] = "timedOut"]
  /\ UNCHANGED <<phase, input, opts, result, candidates, best, currentRank, round, report,
                 cache>>

(* The timer of withTimeout rejects first; the engine is abandoned, ...    *)
Timeout(r, e) ==
  /\ engine[r][e] = "running"
  /\ engine' = [engine EXCEPT ![r][e] = "timedOut"]
  /\ UNCHANGED <<phase, input, opts, result, candidates, best, currentRank, round, report,
                 cache>>

(* A late answer is stored as if it had come in time.                      *)
LateReturnFault(r, e) ==
  /\ engine[r][e] = "timedOut"
  /\ engine' = [engine EXCEPT ![r][e] = "late"]
  /\ \E res \in engineResult[input[r]][e] : result' = [result EXCEPT ![r][e] = res]
  /\ UNCHANGED <<phase, input, opts, candidates, best, currentRank, round, report, cache>>

(* ... and what it answers later, during any later phase, goes nowhere.    *)
LateReturn(r, e) ==
  /\ engine[r][e] = "timedOut"
  /\ engine' = [engine EXCEPT ![r][e] = "late"]
  /\ UNCHANGED <<phase, input, opts, result, candidates, best, currentRank, round, report,
                 cache>>

settled(r) == \A e \in scored(r) : engine[r][e] \notin {"idle", "running"}

successful(r) == {e \in scored(r) : result[r][e] # None /\ result[r][e].success}

(* Results in priority order; only a successful, non-empty one is ranked.  *)
Collect(r) ==
  /\ phase[r] = "engines" /\ settled(r)
  /\ LET good == successful(r)
         order == ordered(good, {p \in good \X good : before(r, p[1], p[2])})
     IN candidates' = [candidates EXCEPT ![r] =
                         byRank([k \in 1..Cardinality(good) |-> rankCandidate(result[r][order[k]])])]
  /\ phase' = [phase EXCEPT ![r] = "refine"]
  /\ UNCHANGED <<input, opts, engine, result, best, currentRank, round, report, cache>>

(* What runMultiPass may return: the result itself, or a cleaned output    *)
(* with some confidence added, capped at 0.99.                             *)
refinements(c) ==
  {c} \cup {rankCandidate([output |-> o, confidence |-> minimum(99, c.confidence + g)])
            : o \in cleanup[c.output] \ {c.output}, g \in confidenceGains}

(* The best four are refined, a refinement that throws leaving its         *)
(* candidate alone, and the list is sorted again.                          *)
Refine(r) ==
  /\ phase[r] = "refine"
  /\ LET c == candidates[r]
         top == 1..minimum(4, Len(c))
     IN \E f \in [top -> UNION {refinements(c[i]) : i \in top}] :
          /\ \A i \in top : f[i] \in refinements(c[i])
          /\ candidates' = [candidates EXCEPT ![r] =
               byRank([i \in DOMAIN c |-> IF i \in top THEN f[i] ELSE c[i]])]
  /\ phase' = [phase EXCEPT ![r] = "select"]
  /\ UNCHANGED <<input, opts, engine, result, best, currentRank, round, report, cache>>

winnerFault(c) == c[1].output  \* no fallback

(* The winner, or the first valid candidate when the winner is not valid.  *)
winner(c) ==
  LET valid == {i \in 1..Len(c) : c[i].output \in validSyntax}
  IN IF c[1].output \in validSyntax \/ valid = {} THEN c[1].output
     ELSE c[CHOOSE i \in valid : \A j \in valid : i <= j].output

Select(r) ==
  /\ phase[r] = "select"
  /\ best' = [best EXCEPT ![r] =
       IF candidates[r] = <<>> THEN None ELSE winner(candidates[r])]
  /\ phase' = [phase EXCEPT ![r] = IF candidates[r] = <<>> THEN "finish" ELSE "cleanup"]
  /\ UNCHANGED <<input, opts, engine, result, candidates, currentRank, round, report, cache>>

(* The final multi-pass cleanup; the deep rounds start from its score.     *)
Cleanup(r) ==
  /\ phase[r] = "cleanup"
  /\ \E o \in cleanup[best[r]] \cup {best[r]} :
       /\ best' = [best EXCEPT ![r] = o]
       /\ currentRank' = [currentRank EXCEPT ![r] = score[o]]
  /\ phase' = [phase EXCEPT ![r] = IF opts[r].deepRounds > 0 THEN "deep" ELSE "finish"]
  /\ UNCHANGED <<input, opts, engine, result, candidates, round, report, cache>>

rounds(r) == minimum(4, opts[r].deepRounds)

accepts(r, o) ==
  /\ o # None /\ o # best[r]
  /\ o \in validSyntax
  /\ ~(100 * size[o] > 135 * size[best[r]] /\ score[o] < currentRank[r] + 4)
  /\ score[o] >= currentRank[r] + opts[r].deepMinImprovement

(* The rank to beat stays that of the first output.                        *)
DeepRoundFault(r) ==
  /\ phase[r] = "deep" /\ round[r] < rounds(r) /\ best[r] \notin converged
  /\ \E o \in nestedBest[best[r]] :
       /\ accepts(r, o)
       /\ best' = [best EXCEPT ![r] = o]
  /\ round' = [round EXCEPT ![r] = @ + 1]
  /\ UNCHANGED <<phase, input, opts, engine, result, candidates, currentRank, report, cache>>

(* A nested run, without cache and without deep rounds, on the output.     *)
DeepRound(r) ==
  /\ phase[r] = "deep" /\ round[r] < rounds(r) /\ best[r] \notin converged
  /\ \E o \in nestedBest[best[r]] :
       /\ accepts(r, o)
       /\ best' = [best EXCEPT ![r] = o]
       /\ currentRank' = [currentRank EXCEPT ![r] = score[o]]
  /\ round' = [round EXCEPT ![r] = @ + 1]
  /\ UNCHANGED <<phase, input, opts, engine, result, candidates, report, cache>>

(* The rounds are used up, the output has converged, or the nested run     *)
(* throws or returns nothing acceptable.                                   *)
DeepStop(r) ==
  /\ phase[r] = "deep"
  /\ phase' = [phase EXCEPT ![r] = "finish"]
  /\ UNCHANGED <<input, opts, engine, result, candidates, best, currentRank, round, report,
                 cache>>

finalReport(r) ==
  [input |-> input[r], best |-> best[r], fromCache |-> FALSE,
   quality |-> IF best[r] = None THEN 0 ELSE score[best[r]],
   valid |-> best[r] \in validSyntax]

store(r) ==
  LET grown == Append(forget(input[r]), [input |-> input[r], report |-> finalReport(r)])
  IN IF Len(grown) > cacheSize THEN Tail(grown) ELSE grown

(* The quality is the one the winner had when it was selected.             *)
FinishFaultStale(r) ==
  /\ phase[r] = "finish"
  /\ report' = [report EXCEPT ![r] = [finalReport(r) EXCEPT !.quality =
       IF best[r] = None THEN 0 ELSE score[winner(candidates[r])]]]
  /\ phase' = [phase EXCEPT ![r] = "done"]
  /\ UNCHANGED <<input, opts, engine, result, candidates, best, currentRank, round, cache>>

(* The emitted output is validated and scored afresh, and the report of a  *)
(* run with an output is stored for the next run on the same input.        *)
Finish(r) ==
  /\ phase[r] = "finish"
  /\ report' = [report EXCEPT ![r] = finalReport(r)]
  /\ cache' = IF opts[r].useCache /\ best[r] # None THEN store(r) ELSE cache
  /\ phase' = [phase EXCEPT ![r] = "done"]
  /\ UNCHANGED <<input, opts, engine, result, candidates, best, currentRank, round>>

Step(r) ==
  \/ CacheHit(r) \/ DetectThrows(r) \/ Launch(r) \/ StartNext(r) \/ Collect(r) \/ Refine(r)
  \/ Select(r) \/ Cleanup(r) \/ DeepRound(r) \/ DeepStop(r) \/ Finish(r)

AllDone == (held \/ \A r \in Runs : phase[r] \in {"done", "absent"}) /\ UNCHANGED vars

(* All runs and engines share one thread.  An engine of a run, raced or    *)
(* given up, or of a nested run, may keep it and never give it back (a     *)
(* guest of the Luraph VM that loops): then nothing steps any more, and no *)
(* timer fires.                                                            *)
Hang ==
  /\ ~held
  /\ \/ \E r \in Runs, e \in Engines : engine[r][e] \in {"running", "timedOut"}
     \/ \E r \in Runs : phase[r] = "deep" /\ round[r] < rounds(r) /\ best[r] \notin converged
  /\ held' = TRUE
  /\ UNCHANGED <<runVars, cache>>

free == ~held /\ UNCHANGED held

Next ==
  \/ \E r \in Runs : free /\ Step(r)
  \/ \E r \in Runs, e \in Engines :
       free /\ (Return(r, e) \/ Fail(r, e) \/ Timeout(r, e) \/ LateReturn(r, e))
  \/ Hang
  \/ AllDone

(* The event loop runs what is ready, and a timer that is due fires as     *)
(* soon as the thread is free, which is in time unless an engine hangs;    *)
(* nothing makes an engine answer or give the thread back.                 *)
Spec ==
  /\ Init /\ [][Next]_vars
  /\ \A r \in Runs : WF_vars(free /\ Step(r))
  /\ \A r \in Runs, e \in Engines : WF_vars(free /\ Timeout(r, e))

--------------------------------------------------------------------------------

(* An engine that failed or ran out of time contributes nothing to its run,*)
(* however late it answers: when the outputs are ranked there is one       *)
(* candidate for each engine that answered in time with a success.         *)
LateAnswersDropped ==
  \A r \in Runs :
    /\ \A e \in Engines : result[r][e] # None => engine[r][e] = "returned"
    /\ phase[r] = "refine" =>
         Len(candidates[r]) =
           Cardinality({e \in Engines : result[r][e] # None /\ result[r][e].success})

(* "An engine that produces a longer/broken output with high               *)
(* self-confidence can no longer win over a smaller valid one": the output *)
(* selected is valid if any candidate is, and no such candidate ranks      *)
(* higher.                                                                 *)
SelectionPrefersValid ==
  \A r \in Runs : phase[r] = "cleanup" =>
    LET c == candidates[r]
        ranks(o) == {c[i].rank : i \in {j \in DOMAIN c : c[j].output = o}}
    IN \A i \in DOMAIN c :
         c[i].output \in validSyntax =>
           /\ best[r] \in validSyntax
           /\ \E k \in ranks(best[r]) : k >= c[i].rank

(* A deep round replaces the output only by a valid one that scores higher *)
(* by the threshold, so no output ever comes back ("preventing oscillation *)
(* or output bloat from being mistaken for successful recovery").          *)
DeepOnlyImproves ==
  [][\A r \in Runs : phase[r] = "deep" /\ best'[r] # best[r] =>
       /\ best'[r] \in validSyntax
       /\ score[best'[r]] >= score[best[r]] + opts[r].deepMinImprovement]_vars

(* A report speaks of the output it carries, also when it comes out of the *)
(* cache ("reports and CLI output never expose stale pre-cleanup quality   *)
(* metrics"), and the cache, whatever runs share it, holds at most one     *)
(* report per input, its own, and never one without an output, so that a   *)
(* hit always serves a recovered script.                                   *)
isOf(rep, i) ==
  /\ rep.input = i
  /\ rep.best # None => rep.quality = score[rep.best] /\ rep.valid = (rep.best \in validSyntax)

ReportIsOfItsOutput ==
  /\ \A r \in Runs : report[r] # None =>
       isOf(report[r], input[r]) /\ (report[r].fromCache => report[r].best # None)
  /\ \A k, l \in 1..Len(cache) : cache[k].input = cache[l].input => k = l
  /\ \A k \in 1..Len(cache) :
       isOf(cache[k].report, cache[k].input) /\ cache[k].report.best # None

(* Every run returns although engines wait for an answer that never comes, *)
(* in the race and after it: the timers see to that.  It holds only while  *)
(* every engine that computes hands the thread back; one that does not     *)
(* stops its own timer and all other runs.                                 *)
Termination == [](~held) => <>(\A r \in Runs : phase[r] \in {"done", "absent"})
================================================================================
