--------------------------- MODULE OrchestratorProofs ---------------------------
(***************************************************************************)
(* Proofs about Orchestrator, for any number of runs, engines and outputs, *)
(* any scores and any size of the shared cache.                            *)
(***************************************************************************)
EXTENDS Orchestrator, Lemmas

--------------------------------------------------------------------------------
(* Sorting.                                                                *)

Sorted(c) == \A i, j \in DOMAIN c : i < j => c[i].rank >= c[j].rank

(* byRank sorts, and its result has the elements of its argument.          *)
LEMMA ByRankSorts ==
  ASSUME NEW n \in Nat, NEW s, DOMAIN s = 1..n, \A i \in 1..n : s[i].rank \in Int
  PROVE  /\ DOMAIN byRank(s) = 1..n
         /\ \A k \in 1..n : \E i \in 1..n : byRank(s)[k] = s[i]
         /\ Sorted(byRank(s))
  <1> DEFINE D == 1..n
             R == {p \in D \X D : ahead(s, p[1], p[2])}
             places == ordered(D, R)
  <1>1. \A i, j \in D : <<i, j>> \in R <=> s[i].rank > s[j].rank \/ (s[i].rank = s[j].rank /\ i < j)
    BY DEF ahead
  <1>2. IsFiniteSet(D) /\ Cardinality(D) = n
    BY FS_Interval
  <1> HIDE DEF R
  <1>3. /\ \A k \in D : places[k] \in D
        /\ \A k, l \in D : k < l => <<places[k], places[l]>> \in R
    <2>1. \A x \in D : <<x, x>> \notin R
      BY <1>1
    <2>2. \A x, y, z \in D : <<x, y>> \in R /\ <<y, z>> \in R => <<x, z>> \in R
      BY <1>1
    <2>3. \A x, y \in D : x # y => <<x, y>> \in R \/ <<y, x>> \in R
      BY <1>1
    <2>4. D = 1..Cardinality(D)
      BY <1>2
    <2>5. /\ \A k \in 1..Cardinality(D) : places[k] \in D
          /\ \A k, l \in 1..Cardinality(D) : k < l => <<places[k], places[l]>> \in R
      <3> HIDE DEF D
      <3>. QED  BY <1>2, <2>1, <2>2, <2>3, OrderedIsSorted
    <2> HIDE DEF D, places
    <2>. QED  BY <2>4, <2>5
  <1>4. byRank(s) = [k \in D |-> s[places[k]]]
    BY DEF byRank, R
  <1> HIDE DEF places
  <1>5. Sorted(byRank(s))
    <2> SUFFICES ASSUME NEW k \in D, NEW l \in D, k < l
                 PROVE  s[places[k]].rank >= s[places[l]].rank
      BY <1>4 DEF Sorted
    <2>1. <<places[k], places[l]>> \in R /\ places[k] \in D /\ places[l] \in D
      BY <1>3
    <2>. QED  BY <1>1, <2>1
  <1>. QED  BY <1>3, <1>4, <1>5

(* The engines that answered are listed in the order they are tried in.    *)
LEMMA EnginesInOrder ==
  ASSUME NEW r, input[r] \in Inputs
  PROVE  LET good == successful(r)
             order == ordered(good, {p \in good \X good : before(r, p[1], p[2])})
         IN /\ Cardinality(good) \in Nat
            /\ \A k \in 1..Cardinality(good) : order[k] \in good
  <1> DEFINE good == successful(r)
             R == {p \in good \X good : before(r, p[1], p[2])}
  <1>1. good \in SUBSET Engines /\ IsFiniteSet(good)
    BY OrchestratorAssumption, FS_Subset DEF successful, scored
  <1>2. \A x \in Engines : place[x] \in Nat /\ detectScore[input[r]][x] \in Nat
    BY OrchestratorAssumption
  <1>3. \A x, y \in Engines : place[x] = place[y] => x = y
    BY OrchestratorAssumption
  <1>4. \A x, y \in good : <<x, y>> \in R <=> before(r, x, y)
    OBVIOUS
  <1> HIDE DEF good, R
  <1>5. \A x \in good : <<x, x>> \notin R
    BY <1>1, <1>2, <1>4 DEF before
  <1>6. \A x, y, z \in good : <<x, y>> \in R /\ <<y, z>> \in R => <<x, z>> \in R
    BY <1>1, <1>2, <1>4 DEF before
  <1>7. \A x, y \in good : x # y => <<x, y>> \in R \/ <<y, x>> \in R
    BY <1>1, <1>2, <1>3, <1>4 DEF before
  <1>8. Cardinality(good) \in Nat /\ \A k \in 1..Cardinality(good) : ordered(good, R)[k] \in good
    BY <1>1, <1>5, <1>6, <1>7, OrderedIsSorted
  <1>. QED  BY <1>8 DEF good, R

(* The first of a set of positions.                                        *)
LEMMA FirstPosition ==
  ASSUME NEW n \in Nat, NEW V, V \subseteq 1..n, V # {}
  PROVE  \E i \in V : \A j \in V : i <= j
  <1> DEFINE R == {p \in V \X V : p[1] < p[2]}
             N == Cardinality(V)
             o == ordered(V, R)
  <1>1. IsFiniteSet(V)
    <2>1. IsFiniteSet(1..n)
      BY FS_Interval
    <2>2. V \in SUBSET (1..n)
      OBVIOUS
    <2>. QED  BY <2>1, <2>2, FS_Subset
  <1>2. \A x, y \in V : <<x, y>> \in R <=> x < y
    OBVIOUS
  <1> HIDE DEF R
  <1>3. /\ N \in Nat
        /\ \A k \in 1..N : o[k] \in V
        /\ \A k \in 1..N : Cardinality({y \in V : <<y, o[k]>> \in R}) = k - 1
    <2>1. \A x \in V : <<x, x>> \notin R
      BY <1>2
    <2>2. \A x, y, z \in V : <<x, y>> \in R /\ <<y, z>> \in R => <<x, z>> \in R
      BY <1>2
    <2>3. \A x, y \in V : x # y => <<x, y>> \in R \/ <<y, x>> \in R
      BY <1>2
    <2> HIDE DEF R
    <2>. QED  BY <1>1, <2>1, <2>2, <2>3, OrderedIsSorted
  <1>4. N # 0
    BY <1>1, FS_EmptySet
  <1>5. 1 \in 1..N
    <2> HIDE DEF N
    <2>. QED  BY <1>3, <1>4
  <1>6. Cardinality({y \in V : <<y, o[1]>> \in R}) = 0
    BY <1>3, <1>5
  <1>7. {y \in V : <<y, o[1]>> \in R} = {}
    BY <1>1, <1>6, FS_EmptySet, FS_Subset
  <1>8. PICK i \in V : i = o[1]
    BY <1>3, <1>5
  <1>9. \A j \in V : ~(j < i)
    BY <1>2, <1>7, <1>8
  <1>. QED  BY <1>9

--------------------------------------------------------------------------------
(* The cache without an input.                                             *)

distinct(c) == \A k, l \in 1..Len(c) : c[k].input = c[l].input => k = l

(* Forgetting an input leaves the entries of the others.                   *)
LEMMA ForgetKeepsOthers ==
  ASSUME NEW T, cache \in Seq(T), distinct(cache), NEW i
  PROVE  /\ forget(i) \in Seq(T)
         /\ \A k \in 1..Len(forget(i)) :
              \E j \in 1..Len(cache) : forget(i)[k] = cache[j] /\ cache[j].input # i
         /\ distinct(forget(i))
  <1>1. CASE cached(i) = {}
    BY <1>1 DEF forget, cached, distinct
  <1>2. CASE cached(i) # {}
    <2> DEFINE k == CHOOSE x \in cached(i) : TRUE
    <2>1. k \in 1..Len(cache) /\ cache[k].input = i
      BY <1>2 DEF cached
    <2>2. forget(i) = RemoveAt(cache, k)
      BY <1>2 DEF forget
    <2> HIDE DEF k
    <2>3. /\ forget(i) \in Seq(T)
          /\ Len(forget(i)) = Len(cache) - 1
          /\ \A j \in 1..(Len(cache) - 1) : forget(i)[j] = IF j < k THEN cache[j] ELSE cache[j + 1]
      BY <2>1, <2>2, RemoveAtElements
    <2>4. \A j \in 1..Len(cache) : cache[j].input = i => j = k
      BY <2>1 DEF distinct
    <2>5. \A j \in 1..Len(forget(i)) :
            \E l \in 1..Len(cache) : forget(i)[j] = cache[l] /\ cache[l].input # i
      BY <2>1, <2>3, <2>4
    <2>6. distinct(forget(i))
      BY <2>1, <2>3 DEF distinct
    <2>. QED  BY <2>3, <2>5, <2>6
  <1>. QED  BY <1>1, <1>2

--------------------------------------------------------------------------------
(* The inductive invariant.                                                *)

Phases == {"absent", "start", "engines", "refine", "select", "cleanup", "deep", "finish", "done"}
Answers == UNION {UNION {engineResult[i][e] : e \in Engines} : i \in Inputs}
Candidate == [output : Outputs, confidence : 0..100, rank : Int]
Report ==
  [input : Inputs, best : Outputs \cup {None}, fromCache : BOOLEAN, quality : Int, valid : BOOLEAN]
Stored == [input : Inputs, report : Report]

TypeOK ==
  /\ phase \in [Runs -> Phases]
  /\ \A r \in Runs : phase[r] # "absent" => input[r] \in Inputs
  /\ engine \in [Runs -> [Engines -> {"idle", "running", "returned", "failed", "timedOut", "late"}]]
  /\ result \in [Runs -> [Engines -> Answers \cup {None}]]
  /\ candidates \in [Runs -> Seq(Candidate)]
  /\ best \in [Runs -> Outputs \cup {None}]
  /\ currentRank \in [Runs -> Int]
  /\ report \in [Runs -> Report \cup {None}]
  /\ cache \in Seq(Stored)

(* An engine is started by the run it belongs to, after the phase "start"; *)
(* only one that answered in time has a result; when the outputs are       *)
(* ranked, none is left to answer.                                         *)
EnginesInv ==
  \A r \in Runs :
    /\ \A e \in Engines :
         /\ result[r][e] # None => engine[r][e] = "returned"
         /\ engine[r][e] # "idle" => e \in scored(r) /\ phase[r] \notin {"absent", "start"}
    /\ phase[r] = "refine" => settled(r)

(* From the ranking to the deep rounds a run knows the rank of what it has.*)
SelectionInv ==
  \A r \in Runs :
    /\ phase[r] = "refine" => Len(candidates[r]) = Cardinality(successful(r))
    /\ phase[r] \in {"select", "cleanup"} => Sorted(candidates[r])
    /\ phase[r] = "cleanup" => candidates[r] # <<>> /\ best[r] = winner(candidates[r])
    /\ phase[r] \in {"cleanup", "deep"} => best[r] \in Outputs
    /\ phase[r] = "deep" => currentRank[r] = score[best[r]]

IInv == TypeOK /\ EnginesInv /\ SelectionInv /\ ReportIsOfItsOutput

(* An output with a confidence is a candidate, with a rank.                *)
LEMMA RankedIsCandidate ==
  ASSUME NEW o \in Outputs, NEW c \in 0..100
  PROVE  [output |-> o, confidence |-> c, rank |-> rank(o, c)] \in Candidate
  <1>1. score[o] \in 0..100
    BY OrchestratorAssumption
  <1>2. rank(o, c) \in Int
    BY <1>1 DEF rank
  <1>. QED  BY <1>2 DEF Candidate

(* What an engine answers is something to rank.                            *)
LEMMA AnswerTypes ==
  ASSUME NEW a \in Answers
  PROVE  rankCandidate(a) \in Candidate
  <1>1. PICK i \in Inputs, e \in Engines : a \in engineResult[i][e]
    BY DEF Answers
  <1>2. a.confidence \in 0..100 /\ a.output \in Outputs
    BY <1>1, OrchestratorAssumption
  <1>3. [output |-> a.output, confidence |-> a.confidence, rank |-> rank(a.output, a.confidence)]
          \in Candidate
    BY <1>2, RankedIsCandidate
  <1>. QED  BY <1>3 DEF rankCandidate

(* Neither does refining change the kind of a candidate.                   *)
LEMMA RefinementTypes ==
  ASSUME NEW c \in Candidate
  PROVE  refinements(c) \subseteq Candidate
  <1>1. ASSUME NEW o \in cleanup[c.output], NEW g \in confidenceGains
        PROVE  rankCandidate([output |-> o, confidence |-> minimum(99, c.confidence + g)])
                 \in Candidate
    <2>1. c.output \in Outputs /\ c.confidence \in 0..100
      BY DEF Candidate
    <2>2. o \in Outputs /\ g \in Nat
      BY <2>1, OrchestratorAssumption
    <2>3. minimum(99, c.confidence + g) \in 0..100
      BY <2>1, <2>2 DEF minimum
    <2>4. [output |-> o, confidence |-> minimum(99, c.confidence + g),
           rank |-> rank(o, minimum(99, c.confidence + g))] \in Candidate
      BY <2>2, <2>3, RankedIsCandidate
    <2>. QED  BY <2>4 DEF rankCandidate
  <1>2. ASSUME NEW x \in refinements(c)
        PROVE  x \in Candidate
    <2>1. CASE x = c
      BY <2>1
    <2>2. CASE x # c
      <3> DEFINE refined(o, g) ==
                   rankCandidate([output |-> o, confidence |-> minimum(99, c.confidence + g)])
      <3>1. refinements(c) =
              {c} \cup {refined(o, g) : o \in cleanup[c.output] \ {c.output}, g \in confidenceGains}
        BY DEF refinements
      <3>2. \A o \in cleanup[c.output], g \in confidenceGains : refined(o, g) \in Candidate
        BY <1>1
      <3> HIDE DEF refined
      <3>. QED  BY <1>2, <2>2, <3>1, <3>2
    <2>. QED  BY <2>1, <2>2
  <1>. QED  BY <1>2

(* A sorted list of candidates is a list of candidates.                    *)
LEMMA ByRankTypes ==
  ASSUME NEW s \in Seq(Candidate)
  PROVE  /\ byRank(s) \in Seq(Candidate) /\ Len(byRank(s)) = Len(s)
         /\ Sorted(byRank(s))
  <1>1. Len(s) \in Nat /\ DOMAIN s = 1..Len(s) /\ \A i \in 1..Len(s) : s[i] \in Candidate
    OBVIOUS
  <1>2. \A c \in Candidate : c.rank \in Int
    BY DEF Candidate
  <1>5. \A i \in 1..Len(s) : s[i].rank \in Int
    BY <1>1, <1>2
  <1>3. /\ DOMAIN byRank(s) = 1..Len(s)
        /\ \A k \in 1..Len(s) : byRank(s)[k] \in Candidate
        /\ Sorted(byRank(s))
    <2>1. /\ DOMAIN byRank(s) = 1..Len(s)
          /\ \A k \in 1..Len(s) : \E i \in 1..Len(s) : byRank(s)[k] = s[i]
          /\ Sorted(byRank(s))
      BY <1>1, <1>5, ByRankSorts
    <2>. QED  BY <1>1, <2>1
  <1>4. byRank(s) = [k \in 1..Len(s) |-> byRank(s)[k]]
    BY <1>3 DEF byRank
  <1>. QED  BY <1>1, <1>3, <1>4, IsASeq, LenProperties

(* What Collect ranks: one candidate for each engine that succeeded.       *)
LEMMA CollectedTypes ==
  ASSUME TypeOK, NEW r \in Runs, phase[r] = "engines"
  PROVE  LET good == successful(r)
             order == ordered(good, {p \in good \X good : before(r, p[1], p[2])})
             found == [k \in 1..Cardinality(good) |-> rankCandidate(result[r][order[k]])]
         IN found \in Seq(Candidate) /\ Len(found) = Cardinality(good)
  <1> DEFINE good == successful(r)
             order == ordered(good, {p \in good \X good : before(r, p[1], p[2])})
             found == [k \in 1..Cardinality(good) |-> rankCandidate(result[r][order[k]])]
  <1>1. Cardinality(good) \in Nat /\ \A k \in 1..Cardinality(good) : order[k] \in good
    BY EnginesInOrder DEF TypeOK
  <1>2. \A e \in good : result[r][e] \in Answers
    BY DEF TypeOK, successful, scored
  <1> HIDE DEF good, order
  <1>3. \A k \in 1..Cardinality(good) : rankCandidate(result[r][order[k]]) \in Candidate
    BY <1>1, <1>2, AnswerTypes
  <1>4. found \in Seq(Candidate) /\ Len(found) = Cardinality(good)
    BY <1>1, <1>3, IsASeq, LenProperties
  <1>. QED  BY <1>4 DEF good, order

(* The winner is a candidate, valid if any is, and then the first of them. *)
LEMMA WinnerIsFirstValid ==
  ASSUME NEW c \in Seq(Candidate), c # <<>>
  PROVE  \E k \in 1..Len(c) :
           /\ winner(c) = c[k].output
           /\ \A i \in 1..Len(c) :
                c[i].output \in validSyntax => c[k].output \in validSyntax /\ k <= i
  <1> DEFINE valid == {i \in 1..Len(c) : c[i].output \in validSyntax}
  <1>1. Len(c) \in Nat /\ 1 \in 1..Len(c)
    BY EmptySeq
  <1>2. CASE c[1].output \in validSyntax
    <2>1. winner(c) = c[1].output
      BY <1>2 DEF winner
    <2>2. \A i \in 1..Len(c) : 1 <= i
      BY <1>1
    <2>. QED  BY <1>1, <1>2, <2>1, <2>2
  <1>3. CASE valid = {}
    <2>1. winner(c) = c[1].output
      BY <1>3 DEF winner
    <2>. QED  BY <1>1, <1>3, <2>1
  <1>4. CASE c[1].output \notin validSyntax /\ valid # {}
    <2> DEFINE k == CHOOSE i \in valid : \A j \in valid : i <= j
    <2>1. \E i \in valid : \A j \in valid : i <= j
      <3>1. valid \subseteq 1..Len(c)
        OBVIOUS
      <3> HIDE DEF valid
      <3>. QED  BY <1>1, <1>4, <3>1, FirstPosition
    <2>2. k \in valid /\ \A j \in valid : k <= j
      BY <2>1
    <2>3. winner(c) = c[k].output
      BY <1>4 DEF winner
    <2> HIDE DEF k
    <2>. QED  BY <2>2, <2>3
  <1>. QED  BY <1>2, <1>3, <1>4

(* The report of a run is of its input and its output.                     *)
LEMMA FinalReportIsOf ==
  ASSUME TypeOK, NEW r \in Runs, input[r] \in Inputs
  PROVE  /\ finalReport(r) \in Report
         /\ isOf(finalReport(r), input[r])
         /\ finalReport(r).best = best[r] /\ finalReport(r).fromCache = FALSE
  <1> DEFINE q == IF best[r] = None THEN 0 ELSE score[best[r]]
             v == best[r] \in validSyntax
  <1>1. best[r] \in Outputs \cup {None}
    BY DEF TypeOK
  <1>2. q \in Int
    BY <1>1, OrchestratorAssumption
  <1>3. v \in BOOLEAN
    OBVIOUS
  <1>4. finalReport(r) =
          [input |-> input[r], best |-> best[r], fromCache |-> FALSE, quality |-> q, valid |-> v]
    BY DEF finalReport
  <1>5. best[r] # None => q = score[best[r]]
    OBVIOUS
  <1> HIDE DEF q
  <1>6. isOf(finalReport(r), input[r])
    BY <1>4, <1>5 DEF isOf
  <1> HIDE DEF v
  <1>. QED  BY <1>1, <1>2, <1>3, <1>4, <1>6 DEF Report

(* Storing a report: the cache stays one of distinct inputs, each with a   *)
(* report of its own that has an output.                                   *)
sound(c) ==
  /\ distinct(c)
  /\ \A k \in 1..Len(c) : isOf(c[k].report, c[k].input) /\ c[k].report.best # None

(* An entry that is moved or stored anew leaves the cache sound.           *)
LEMMA RenewKeepsSound ==
  ASSUME cache \in Seq(Stored), sound(cache), NEW s \in Stored,
         isOf(s.report, s.input), s.report.best # None
  PROVE  /\ Append(forget(s.input), s) \in Seq(Stored)
         /\ sound(Append(forget(s.input), s))
  <1> DEFINE f == forget(s.input)
  <1>1. /\ f \in Seq(Stored)
        /\ \A k \in 1..Len(f) : \E j \in 1..Len(cache) : f[k] = cache[j] /\ cache[j].input # s.input
        /\ distinct(f)
    BY ForgetKeepsOthers DEF sound
  <1> HIDE DEF f
  <1>2. \A k \in 1..Len(f) :
          f[k].input # s.input /\ isOf(f[k].report, f[k].input) /\ f[k].report.best # None
    BY <1>1 DEF sound
  <1>3. /\ Append(f, s) \in Seq(Stored) /\ Len(Append(f, s)) = Len(f) + 1 /\ Len(f) \in Nat
        /\ Append(f, s)[Len(f) + 1] = s
        /\ \A k \in 1..Len(f) : Append(f, s)[k] = f[k]
    BY <1>1
  <1>4. \A k \in 1..(Len(f) + 1) : k \in 1..Len(f) \/ k = Len(f) + 1
    BY <1>3
  <1>5. distinct(Append(f, s))
    BY <1>1, <1>2, <1>3, <1>4 DEF distinct
  <1>6. \A k \in 1..Len(Append(f, s)) :
          isOf(Append(f, s)[k].report, Append(f, s)[k].input) /\ Append(f, s)[k].report.best # None
    BY <1>2, <1>3, <1>4
  <1>. QED  BY <1>3, <1>5, <1>6 DEF f, sound

(* So does evicting the oldest entry.                                      *)
LEMMA TailKeepsSound ==
  ASSUME NEW c \in Seq(Stored), c # <<>>, sound(c)
  PROVE  Tail(c) \in Seq(Stored) /\ sound(Tail(c))
  <1>1. /\ Tail(c) \in Seq(Stored) /\ Len(c) \in Nat /\ Len(Tail(c)) = Len(c) - 1
        /\ \A k \in 1..Len(Tail(c)) : Tail(c)[k] = c[k + 1] /\ k + 1 \in 1..Len(c)
    BY EmptySeq
  <1>2. distinct(Tail(c))
    BY <1>1 DEF sound, distinct
  <1>. QED  BY <1>1, <1>2 DEF sound

--------------------------------------------------------------------------------
(* Every step keeps the invariant.                                         *)

(* A hit serves a report of the input and only moves its entry.            *)
LEMMA HitKeepsCache ==
  ASSUME IInv, NEW r \in Runs, CacheHit(r)
  PROVE  /\ cache' \in Seq(Stored) /\ sound(cache')
         /\ report'[r] \in Report /\ isOf(report'[r], input[r]) /\ report'[r].best # None
         /\ report' = [report EXCEPT ![r] = report'[r]]
  <1>1. PICK k \in cached(input[r]) :
          /\ report' = [report EXCEPT ![r] = [cache[k].report EXCEPT !.fromCache = TRUE]]
          /\ cache' = Append(forget(input[r]), cache[k])
    BY DEF CacheHit
  <1>2. k \in 1..Len(cache) /\ cache[k].input = input[r]
    BY DEF cached
  <1>3. cache \in Seq(Stored) /\ sound(cache)
    BY DEF IInv, TypeOK, ReportIsOfItsOutput, sound, distinct
  <1>4. cache[k] \in Stored /\ isOf(cache[k].report, cache[k].input) /\ cache[k].report.best # None
    BY <1>2, <1>3 DEF sound
  <1>5. cache' \in Seq(Stored) /\ sound(cache')
    BY <1>1, <1>2, <1>3, <1>4, RenewKeepsSound
  <1> DEFINE given == [cache[k].report EXCEPT !.fromCache = TRUE]
  <1>6. cache[k].report \in Report
    BY <1>4 DEF Stored
  <1>7. given \in Report
    BY <1>6 DEF Report
  <1>8. isOf(given, input[r]) /\ given.best # None
    BY <1>2, <1>4, <1>6 DEF isOf, Report
  <1>9. report \in [Runs -> Report \cup {None}]
    BY DEF IInv, TypeOK
  <1> HIDE DEF given
  <1>10. report'[r] = given /\ report' = [report EXCEPT ![r] = report'[r]]
    BY <1>1, <1>9 DEF given
  <1>. QED  BY <1>5, <1>7, <1>8, <1>10

(* A finished run stores a report of its own output.                       *)
LEMMA FinishKeepsCache ==
  ASSUME IInv, NEW r \in Runs, Finish(r)
  PROVE  /\ cache' \in Seq(Stored) /\ sound(cache')
         /\ report'[r] \in Report /\ isOf(report'[r], input[r]) /\ report'[r].fromCache = FALSE
         /\ report' = [report EXCEPT ![r] = report'[r]]
  <1>1. input[r] \in Inputs /\ report \in [Runs -> Report \cup {None}]
    BY DEF IInv, TypeOK, Finish
  <1>2. /\ finalReport(r) \in Report
        /\ isOf(finalReport(r), input[r])
        /\ finalReport(r).best = best[r] /\ finalReport(r).fromCache = FALSE
    BY <1>1, FinalReportIsOf DEF IInv
  <1>3. report'[r] = finalReport(r) /\ report' = [report EXCEPT ![r] = report'[r]]
    BY <1>1 DEF Finish
  <1>4. cache \in Seq(Stored) /\ sound(cache)
    BY DEF IInv, TypeOK, ReportIsOfItsOutput, sound, distinct
  <1>5. ASSUME best[r] # None
        PROVE  store(r) \in Seq(Stored) /\ sound(store(r))
    <2> DEFINE s == [input |-> input[r], report |-> finalReport(r)]
               grown == Append(forget(s.input), s)
    <2>1. s \in Stored /\ s.input = input[r] /\ s.report = finalReport(r)
      BY <1>1, <1>2 DEF Stored
    <2> HIDE DEF s
    <2>2. isOf(s.report, s.input) /\ s.report.best # None
      BY <1>2, <1>5, <2>1
    <2>3. grown \in Seq(Stored) /\ sound(grown)
      BY <1>4, <2>1, <2>2, RenewKeepsSound
    <2>4. grown # <<>>
      <3>1. forget(s.input) \in Seq(Stored)
        BY <1>4, ForgetKeepsOthers DEF sound
      <3>. QED  BY <2>1, <3>1
    <2>5. store(r) = IF Len(grown) > cacheSize THEN Tail(grown) ELSE grown
      BY <2>1 DEF store, s
    <2> HIDE DEF grown
    <2>. QED  BY <2>3, <2>4, <2>5, TailKeepsSound
  <1>6. cache' = IF opts[r].useCache /\ best[r] # None THEN store(r) ELSE cache
    BY DEF Finish
  <1>7. cache' \in Seq(Stored) /\ sound(cache')
    BY <1>4, <1>5, <1>6
  <1>. QED  BY <1>2, <1>3, <1>7

(* Refining a list of candidates gives a sorted list of candidates.        *)
LEMMA RefineSorts ==
  ASSUME TypeOK, NEW r \in Runs, Refine(r)
  PROVE  candidates' \in [Runs -> Seq(Candidate)] /\ Sorted(candidates'[r])
  <1> DEFINE c == candidates[r]
             top == 1..minimum(4, Len(c))
  <1>1. PICK f \in [top -> UNION {refinements(c[i]) : i \in top}] :
          /\ \A i \in top : f[i] \in refinements(c[i])
          /\ candidates' = [candidates EXCEPT ![r] =
               byRank([i \in DOMAIN c |-> IF i \in top THEN f[i] ELSE c[i]])]
    BY DEF Refine
  <1> DEFINE refined == [i \in DOMAIN c |-> IF i \in top THEN f[i] ELSE c[i]]
  <1>2. c \in Seq(Candidate) /\ Len(c) \in Nat /\ DOMAIN c = 1..Len(c)
        /\ \A i \in 1..Len(c) : c[i] \in Candidate
    BY DEF TypeOK
  <1> HIDE DEF c
  <1>3. top \subseteq 1..Len(c)
    BY <1>2 DEF minimum
  <1> HIDE DEF top
  <1>4. \A i \in 1..Len(c) : (IF i \in top THEN f[i] ELSE c[i]) \in Candidate
    BY <1>1, <1>2, <1>3, RefinementTypes
  <1>5. refined \in Seq(Candidate)
    BY <1>2, <1>4, IsASeq
  <1> HIDE DEF refined
  <1>6. byRank(refined) \in Seq(Candidate) /\ Sorted(byRank(refined))
    BY <1>5, ByRankTypes
  <1>7. candidates' = [candidates EXCEPT ![r] = byRank(refined)]
    BY <1>1 DEF refined
  <1>8. candidates'[r] = byRank(refined)
    BY <1>7 DEF TypeOK
  <1>. QED  BY <1>6, <1>7, <1>8 DEF TypeOK

(* The winner is an output.                                                *)
LEMMA WinnerIsOutput ==
  ASSUME NEW c \in Seq(Candidate), c # <<>>
  PROVE  winner(c) \in Outputs
  <1>1. PICK k \in 1..Len(c) : winner(c) = c[k].output
    BY WinnerIsFirstValid
  <1>2. c[k] \in Candidate
    OBVIOUS
  <1>. QED  BY <1>1, <1>2 DEF Candidate

(* Every step keeps the types.                                             *)
LEMMA StepKeepsTypes ==
  ASSUME IInv, [Next]_vars
  PROVE  TypeOK'
  <1>. USE DEF IInv
  <1>1. ASSUME NEW r \in Runs, CacheHit(r)
        PROVE  TypeOK'
    <2>1. report' \in [Runs -> Report \cup {None}] /\ cache' \in Seq(Stored)
      BY <1>1, HitKeepsCache DEF TypeOK
    <2>. QED  BY <1>1, <2>1 DEF CacheHit, TypeOK, Phases
  <1>2. ASSUME NEW r \in Runs, DetectThrows(r) \/ DeepStop(r)
        PROVE  TypeOK'
    BY <1>2 DEF DetectThrows, DeepStop, TypeOK, Phases
  <1>3. ASSUME NEW r \in Runs, Launch(r)
        PROVE  TypeOK'
    BY <1>3 DEF Launch, TypeOK, Phases
  <1>4. ASSUME NEW r \in Runs, StartNext(r)
        PROVE  TypeOK'
    BY <1>4 DEF StartNext, TypeOK, scored
  <1>5. ASSUME NEW r \in Runs, Collect(r)
        PROVE  TypeOK'
    <2> DEFINE good == successful(r)
               order == ordered(good, {p \in good \X good : before(r, p[1], p[2])})
               found == [k \in 1..Cardinality(good) |-> rankCandidate(result[r][order[k]])]
    <2>1. found \in Seq(Candidate)
      BY <1>5, CollectedTypes DEF Collect
    <2>2. /\ candidates' = [candidates EXCEPT ![r] = byRank(found)]
          /\ phase' = [phase EXCEPT ![r] = "refine"]
          /\ phase[r] = "engines"
          /\ UNCHANGED <<input, opts, engine, result, best, currentRank, round, report, cache>>
      BY <1>5 DEF Collect
    <2> HIDE DEF found
    <2>3. byRank(found) \in Seq(Candidate)
      BY <2>1, ByRankTypes
    <2>. QED  BY <2>2, <2>3 DEF TypeOK, Phases
  <1>6. ASSUME NEW r \in Runs, Refine(r)
        PROVE  TypeOK'
    BY <1>6, RefineSorts DEF Refine, TypeOK, Phases
  <1>7. ASSUME NEW r \in Runs, Select(r)
        PROVE  TypeOK'
    <2>1. candidates[r] \in Seq(Candidate)
      BY DEF TypeOK
    <2>2. candidates[r] # <<>> => winner(candidates[r]) \in Outputs
      BY <2>1, WinnerIsOutput
    <2>. QED  BY <1>7, <2>2 DEF Select, TypeOK, Phases
  <1>8. ASSUME NEW r \in Runs, Cleanup(r)
        PROVE  TypeOK'
    <2>1. best[r] \in Outputs
      BY <1>8 DEF SelectionInv, Cleanup
    <2>2. \A o \in cleanup[best[r]] \cup {best[r]} : o \in Outputs /\ score[o] \in Int
      BY <2>1, OrchestratorAssumption
    <2>. QED  BY <1>8, <2>2 DEF Cleanup, TypeOK, Phases
  <1>9. ASSUME NEW r \in Runs, DeepRound(r)
        PROVE  TypeOK'
    <2>1. best[r] \in Outputs
      BY <1>9 DEF SelectionInv, DeepRound
    <2>2. \A o \in nestedBest[best[r]] : o # None => o \in Outputs /\ score[o] \in Int
      BY <2>1, OrchestratorAssumption
    <2>. QED  BY <1>9, <2>2 DEF DeepRound, accepts, TypeOK, Phases
  <1>10. ASSUME NEW r \in Runs, Finish(r)
         PROVE  TypeOK'
    <2>1. report' \in [Runs -> Report \cup {None}] /\ cache' \in Seq(Stored)
      BY <1>10, FinishKeepsCache DEF TypeOK
    <2>. QED  BY <1>10, <2>1 DEF Finish, TypeOK, Phases
  <1>11. ASSUME NEW r \in Runs, NEW e \in Engines, Return(r, e)
         PROVE  TypeOK'
    <2>1. input[r] \in Inputs
      BY <1>11 DEF Return, EnginesInv, TypeOK
    <2>2. engineResult[input[r]][e] \subseteq Answers
      BY <2>1 DEF Answers
    <2>. QED  BY <1>11, <2>2 DEF Return, TypeOK
  <1>12. ASSUME NEW r \in Runs, NEW e \in Engines, Fail(r, e) \/ Timeout(r, e) \/ LateReturn(r, e)
         PROVE  TypeOK'
    <2>1. PICK x \in {"failed", "timedOut", "late"} : engine' = [engine EXCEPT ![r][e] = x]
      BY <1>12 DEF Fail, Timeout, LateReturn
    <2>2. UNCHANGED <<phase, input, result, candidates, best, currentRank, report, cache>>
      BY <1>12 DEF Fail, Timeout, LateReturn
    <2>. QED  BY <2>1, <2>2 DEF TypeOK
  <1>13. CASE UNCHANGED <<runVars, cache>>
    BY <1>13 DEF TypeOK, runVars
  <1>. QED
    BY <1>1, <1>2, <1>3, <1>4, <1>5, <1>6, <1>7, <1>8, <1>9, <1>10, <1>11, <1>12, <1>13
       DEF Next, Step, AllDone, Hang, vars

(* A step of one run leaves the engines of the others alone.               *)
LEMMA StepKeepsEngines ==
  ASSUME IInv, [Next]_vars
  PROVE  EnginesInv'
  <1>. USE DEF IInv
  <1>0. UNCHANGED input
    BY DEF Next, Step, AllDone, Hang, vars, runVars, CacheHit, DetectThrows, Launch, StartNext, Collect,
           Refine, Select, Cleanup, DeepRound, DeepStop, Finish, Return, Fail, Timeout, LateReturn
  <1>1. \A r \in Runs : scored(r)' = scored(r)
    BY <1>0 DEF scored
  <1>2. ASSUME NEW r \in Runs, CacheHit(r) \/ DetectThrows(r)
        PROVE  EnginesInv'
    BY <1>1, <1>2 DEF CacheHit, DetectThrows, EnginesInv, settled, TypeOK
  <1>3. ASSUME NEW r \in Runs, Launch(r)
        PROVE  EnginesInv'
    BY <1>1, <1>3 DEF Launch, EnginesInv, settled, TypeOK
  <1>4. ASSUME NEW r \in Runs, StartNext(r)
        PROVE  EnginesInv'
    <2>1. PICK e \in scored(r) : engine[r][e] = "idle" /\ engine' = [engine EXCEPT ![r][e] = "running"]
      BY <1>4 DEF StartNext
    <2>2. phase[r] = "engines" /\ UNCHANGED <<phase, result>> /\ e \in Engines
      BY <1>4 DEF StartNext, scored
    <2>. QED  BY <1>1, <2>1, <2>2 DEF EnginesInv, settled, TypeOK
  <1>5. ASSUME NEW r \in Runs, Collect(r)
        PROVE  EnginesInv'
    BY <1>1, <1>5 DEF Collect, EnginesInv, settled, TypeOK
  <1>6. ASSUME NEW r \in Runs,
               Refine(r) \/ Select(r) \/ Cleanup(r) \/ DeepRound(r) \/ DeepStop(r) \/ Finish(r)
        PROVE  EnginesInv'
    <2>1. PICK p \in {"select", "cleanup", "deep", "finish", "done"} :
            phase' = [phase EXCEPT ![r] = p] \/ UNCHANGED phase
      BY <1>6 DEF Refine, Select, Cleanup, DeepRound, DeepStop, Finish
    <2>2. UNCHANGED <<engine, result>>
      BY <1>6 DEF Refine, Select, Cleanup, DeepRound, DeepStop, Finish
    <2>3. phase \in [Runs -> Phases]
      BY DEF TypeOK
    <2>. QED  BY <1>1, <2>1, <2>2, <2>3 DEF EnginesInv, settled
  <1>7. ASSUME NEW r \in Runs, NEW e \in Engines, Return(r, e)
        PROVE  EnginesInv'
    <2>1. phase[r] # "refine"
      BY <1>7 DEF Return, EnginesInv, settled
    <2>. QED  BY <1>1, <1>7, <2>1 DEF Return, EnginesInv, settled, TypeOK
  <1>8. ASSUME NEW r \in Runs, NEW e \in Engines, Fail(r, e) \/ Timeout(r, e) \/ LateReturn(r, e)
        PROVE  EnginesInv'
    <2>1. PICK x \in {"failed", "timedOut", "late"} : engine' = [engine EXCEPT ![r][e] = x]
      BY <1>8 DEF Fail, Timeout, LateReturn
    <2>2. UNCHANGED <<phase, result>> /\ engine[r][e] \in {"running", "timedOut"}
      BY <1>8 DEF Fail, Timeout, LateReturn
    <2>. QED  BY <1>1, <2>1, <2>2 DEF EnginesInv, settled, TypeOK
  <1>9. CASE UNCHANGED <<runVars, cache>>
    BY <1>1, <1>9 DEF EnginesInv, settled, runVars
  <1>. QED
    BY <1>2, <1>3, <1>4, <1>5, <1>6, <1>7, <1>8, <1>9 DEF Next, Step, AllDone, Hang, vars

(* When the outputs are to be ranked, the engines stand still.             *)
LEMMA SuccessfulIs ==
  ASSUME EnginesInv, NEW r \in Runs
  PROVE  successful(r) = {e \in Engines : result[r][e] # None /\ result[r][e].success}
  BY DEF EnginesInv, successful, scored

(* What is known of the candidates in each phase survives every step.      *)
LEMMA StepKeepsSelection ==
  ASSUME IInv, [Next]_vars
  PROVE  SelectionInv'
  <1>. USE DEF IInv
  <1>0. UNCHANGED input
    BY DEF Next, Step, AllDone, Hang, vars, runVars, CacheHit, DetectThrows, Launch, StartNext, Collect,
           Refine, Select, Cleanup, DeepRound, DeepStop, Finish, Return, Fail, Timeout, LateReturn
  <1>1. \A r \in Runs : result'[r] = result[r] => successful(r)' = successful(r)
    BY <1>0 DEF successful, scored
  <1>2. ASSUME UNCHANGED <<result, candidates, best, currentRank>>, NEW r \in Runs,
               UNCHANGED phase
                 \/ (\E p \in {"engines", "finish", "done"} : phase' = [phase EXCEPT ![r] = p])
        PROVE  SelectionInv'
    <2>1. \A q \in Runs : successful(q)' = successful(q)
      BY <1>1, <1>2
    <2>2. \A q \in Runs : phase'[q] \in {"refine", "select", "cleanup", "deep"} => phase'[q] = phase[q]
      BY <1>2 DEF TypeOK
    <2>. QED  BY <1>2, <2>1, <2>2 DEF SelectionInv
  <1>3. ASSUME NEW r \in Runs, CacheHit(r) \/ DetectThrows(r) \/ Launch(r) \/ StartNext(r)
                               \/ DeepStop(r) \/ Finish(r)
        PROVE  SelectionInv'
    <2>1. UNCHANGED <<result, candidates, best, currentRank>>
      BY <1>3 DEF CacheHit, DetectThrows, Launch, StartNext, DeepStop, Finish
    <2>2. \/ UNCHANGED phase
          \/ \E p \in {"engines", "finish", "done"} : phase' = [phase EXCEPT ![r] = p]
      BY <1>3 DEF CacheHit, DetectThrows, Launch, StartNext, DeepStop, Finish
    <2>. QED  BY <1>2, <2>1, <2>2
  <1>4. ASSUME NEW r \in Runs, Collect(r)
        PROVE  SelectionInv'
    <2> DEFINE good == successful(r)
               order == ordered(good, {p \in good \X good : before(r, p[1], p[2])})
               found == [k \in 1..Cardinality(good) |-> rankCandidate(result[r][order[k]])]
    <2>1. found \in Seq(Candidate) /\ Len(found) = Cardinality(good)
      BY <1>4, CollectedTypes DEF Collect
    <2>2. /\ candidates' = [candidates EXCEPT ![r] = byRank(found)]
          /\ phase' = [phase EXCEPT ![r] = "refine"]
          /\ UNCHANGED <<result, best, currentRank>>
      BY <1>4 DEF Collect
    <2> HIDE DEF found
    <2>3. Len(byRank(found)) = Cardinality(successful(r))
      BY <2>1, ByRankTypes
    <2>4. \A q \in Runs : successful(q)' = successful(q)
      BY <1>1, <2>2
    <2>5. /\ candidates'[r] = byRank(found) /\ phase'[r] = "refine"
          /\ \A q \in Runs \ {r} : candidates'[q] = candidates[q] /\ phase'[q] = phase[q]
      BY <2>2 DEF TypeOK
    <2>. QED  BY <2>2, <2>3, <2>4, <2>5 DEF SelectionInv
  <1>5. ASSUME NEW r \in Runs, Refine(r)
        PROVE  SelectionInv'
    <2>1. Sorted(candidates'[r])
      BY <1>5, RefineSorts
    <2>2. /\ phase'[r] = "select" /\ UNCHANGED <<result, best, currentRank>>
          /\ \A q \in Runs \ {r} : candidates'[q] = candidates[q] /\ phase'[q] = phase[q]
      BY <1>5 DEF Refine, TypeOK
    <2>3. \A q \in Runs : successful(q)' = successful(q)
      BY <1>1, <2>2
    <2>. QED  BY <2>1, <2>2, <2>3 DEF SelectionInv
  <1>6. ASSUME NEW r \in Runs, Select(r)
        PROVE  SelectionInv'
    <2>1. /\ \/ candidates[r] = <<>> /\ phase'[r] = "finish"
             \/ candidates[r] # <<>> /\ phase'[r] = "cleanup" /\ best'[r] = winner(candidates[r])
          /\ phase[r] = "select" /\ UNCHANGED <<result, candidates, currentRank>>
          /\ \A q \in Runs \ {r} : best'[q] = best[q] /\ phase'[q] = phase[q]
      BY <1>6 DEF Select, TypeOK
    <2>2. \A q \in Runs : successful(q)' = successful(q)
      BY <1>1, <2>1
    <2>3. winner(candidates[r])' = winner(candidates[r])
      BY <2>1
    <2>4. candidates[r] # <<>> => winner(candidates[r]) \in Outputs
      BY WinnerIsOutput DEF TypeOK
    <2>5. \A q \in Runs \ {r} : winner(candidates[q])' = winner(candidates[q])
      BY <2>1
    <2>. QED  BY <2>1, <2>2, <2>3, <2>4, <2>5 DEF SelectionInv
  <1>7. ASSUME NEW r \in Runs, Cleanup(r)
        PROVE  SelectionInv'
    <2>1. PICK o \in cleanup[best[r]] \cup {best[r]} :
            best' = [best EXCEPT ![r] = o] /\ currentRank' = [currentRank EXCEPT ![r] = score[o]]
      BY <1>7 DEF Cleanup
    <2>2. best[r] \in Outputs
      BY <1>7 DEF Cleanup, SelectionInv
    <2>3. o \in Outputs
      BY <2>1, <2>2, OrchestratorAssumption
    <2>4. /\ phase'[r] \in {"deep", "finish"} /\ UNCHANGED <<result, candidates>>
          /\ best'[r] = o /\ currentRank'[r] = score[o]
          /\ \A q \in Runs \ {r} :
               best'[q] = best[q] /\ phase'[q] = phase[q] /\ currentRank'[q] = currentRank[q]
      BY <1>7, <2>1 DEF Cleanup, TypeOK
    <2>5. \A q \in Runs : successful(q)' = successful(q)
      BY <1>1, <2>4
    <2>. QED  BY <2>3, <2>4, <2>5 DEF SelectionInv
  <1>8. ASSUME NEW r \in Runs, DeepRound(r)
        PROVE  SelectionInv'
    <2>1. PICK o \in nestedBest[best[r]] :
            /\ accepts(r, o)
            /\ best' = [best EXCEPT ![r] = o] /\ currentRank' = [currentRank EXCEPT ![r] = score[o]]
      BY <1>8 DEF DeepRound
    <2>2. best[r] \in Outputs /\ o # None
      BY <1>8, <2>1 DEF DeepRound, SelectionInv, accepts
    <2>3. o \in Outputs
      BY <2>1, <2>2, OrchestratorAssumption
    <2>4. /\ phase[r] = "deep" /\ UNCHANGED <<phase, result, candidates>>
          /\ best'[r] = o /\ currentRank'[r] = score[o]
          /\ \A q \in Runs \ {r} : best'[q] = best[q] /\ currentRank'[q] = currentRank[q]
      BY <1>8, <2>1 DEF DeepRound, TypeOK
    <2>5. \A q \in Runs : successful(q)' = successful(q)
      BY <1>1, <2>4
    <2>. QED  BY <2>3, <2>4, <2>5 DEF SelectionInv
  <1>9. ASSUME NEW r \in Runs, NEW e \in Engines, Return(r, e)
        PROVE  SelectionInv'
    <2>1. phase[r] # "refine"
      BY <1>9 DEF Return, EnginesInv, settled
    <2>2. /\ UNCHANGED <<phase, candidates, best, currentRank>>
          /\ \A q \in Runs \ {r} : result'[q] = result[q]
      BY <1>9 DEF Return, TypeOK
    <2>3. \A q \in Runs \ {r} : successful(q)' = successful(q)
      BY <1>1, <2>2
    <2>. QED  BY <2>1, <2>2, <2>3 DEF SelectionInv
  <1>10. ASSUME NEW r \in Runs, NEW e \in Engines, Fail(r, e) \/ Timeout(r, e) \/ LateReturn(r, e)
         PROVE  SelectionInv'
    BY <1>2, <1>10 DEF Fail, Timeout, LateReturn
  <1>11. CASE UNCHANGED <<runVars, cache>>
    <2>1. \A q \in Runs : successful(q)' = successful(q)
      BY <1>1, <1>11 DEF runVars
    <2>. QED  BY <1>11, <2>1 DEF SelectionInv, runVars
  <1>. QED
    BY <1>3, <1>4, <1>5, <1>6, <1>7, <1>8, <1>9, <1>10, <1>11 DEF Next, Step, AllDone, Hang, vars

(* No step leaves a report that speaks of another output.                  *)
LEMMA StepKeepsReports ==
  ASSUME IInv, [Next]_vars
  PROVE  ReportIsOfItsOutput'
  <1>. USE DEF IInv
  <1>1. ASSUME UNCHANGED <<input, report, cache>>
        PROVE  ReportIsOfItsOutput'
    BY <1>1 DEF ReportIsOfItsOutput
  <1>2. ASSUME NEW r \in Runs, CacheHit(r) \/ Finish(r)
        PROVE  ReportIsOfItsOutput'
    <2>1. UNCHANGED input
      BY <1>2 DEF CacheHit, Finish
    <2>2. /\ sound(cache') /\ isOf(report'[r], input[r])
          /\ report'[r].fromCache => report'[r].best # None
          /\ report' = [report EXCEPT ![r] = report'[r]]
      BY <1>2, HitKeepsCache, FinishKeepsCache
    <2>3. \A q \in Runs \ {r} : report'[q] = report[q]
      BY <2>2 DEF TypeOK
    <2>4. \A q \in Runs : report'[q] # None =>
            isOf(report'[q], input'[q]) /\ (report'[q].fromCache => report'[q].best # None)
      BY <2>1, <2>2, <2>3 DEF ReportIsOfItsOutput
    <2>. QED  BY <2>2, <2>4 DEF ReportIsOfItsOutput, sound, distinct, isOf
  <1>3. ASSUME NEW r \in Runs,
               \/ DetectThrows(r) \/ Launch(r) \/ StartNext(r) \/ Collect(r) \/ Refine(r)
               \/ Select(r) \/ Cleanup(r) \/ DeepRound(r) \/ DeepStop(r)
        PROVE  ReportIsOfItsOutput'
    BY <1>1, <1>3 DEF DetectThrows, Launch, StartNext, Collect, Refine, Select, Cleanup, DeepRound,
                      DeepStop
  <1>4. ASSUME NEW r \in Runs, NEW e \in Engines,
               Return(r, e) \/ Fail(r, e) \/ Timeout(r, e) \/ LateReturn(r, e)
        PROVE  ReportIsOfItsOutput'
    BY <1>1, <1>4 DEF Return, Fail, Timeout, LateReturn
  <1>5. CASE UNCHANGED <<runVars, cache>>
    BY <1>1, <1>5 DEF runVars
  <1>. QED  BY <1>2, <1>3, <1>4, <1>5 DEF Next, Step, AllDone, Hang, vars

(* Initially nothing has been started, found or stored.                    *)
LEMMA InitIsSound ==
  ASSUME Init
  PROVE  IInv
  <1>1. PICK q \in Requests :
          /\ phase = [r \in Runs |-> IF r \in DOMAIN q THEN "start" ELSE "absent"]
          /\ input = [r \in Runs |-> IF r \in DOMAIN q THEN q[r].input ELSE None]
    BY DEF Init
  <1>2. \A r \in DOMAIN q : q[r].input \in Inputs
    BY OrchestratorAssumption
  <1>3. TypeOK
    BY <1>1, <1>2 DEF Init, TypeOK, Phases
  <1>4. EnginesInv /\ SelectionInv
    BY <1>1 DEF Init, EnginesInv, SelectionInv
  <1>5. ReportIsOfItsOutput
    BY DEF Init, ReportIsOfItsOutput
  <1>. QED  BY <1>3, <1>4, <1>5 DEF IInv

--------------------------------------------------------------------------------

(* Whatever engines and callers do, the invariant holds.                   *)
THEOREM Invariant == Spec => []IInv
  <1>1. Init => IInv
    BY InitIsSound
  <1>2. IInv /\ [Next]_vars => IInv'
    BY StepKeepsTypes, StepKeepsEngines, StepKeepsSelection, StepKeepsReports DEF IInv
  <1>. QED  BY <1>1, <1>2, PTL DEF Spec

(* A report speaks of the output it carries, out of the cache or not, and  *)
(* the shared cache holds one report per input, with an output.            *)
THEOREM ReportsCorrect == Spec => []ReportIsOfItsOutput
  <1>1. IInv => ReportIsOfItsOutput
    BY DEF IInv
  <1>. QED  BY <1>1, Invariant, PTL

(* An engine that failed or was late contributes nothing: there is one     *)
(* candidate for each engine that succeeded in time.                       *)
THEOREM LateAnswersCorrect == Spec => []LateAnswersDropped
  <1>1. IInv => LateAnswersDropped
    BY SuccessfulIs DEF IInv, EnginesInv, SelectionInv, LateAnswersDropped
  <1>. QED  BY <1>1, Invariant, PTL

(* A broken output is selected only if no candidate is valid, and a valid  *)
(* one only if none that is valid ranks higher.                            *)
THEOREM SelectionCorrect == Spec => []SelectionPrefersValid
  <1>1. ASSUME IInv, NEW r \in Runs, phase[r] = "cleanup", NEW i \in DOMAIN candidates[r],
               candidates[r][i].output \in validSyntax
        PROVE  /\ best[r] \in validSyntax
               /\ \E k \in DOMAIN candidates[r] :
                    candidates[r][k].output = best[r] /\ candidates[r][k].rank >= candidates[r][i].rank
    <2> DEFINE c == candidates[r]
    <2>1. c \in Seq(Candidate) /\ c # <<>> /\ Sorted(c) /\ best[r] = winner(c)
      BY <1>1 DEF IInv, TypeOK, SelectionInv
    <2>2. i \in 1..Len(c) /\ c[i] \in Candidate /\ DOMAIN c = 1..Len(c)
      BY <1>1, <2>1
    <2> HIDE DEF c
    <2>3. PICK k \in 1..Len(c) : winner(c) = c[k].output /\ c[k].output \in validSyntax /\ k <= i
      BY <1>1, <2>1, <2>2, WinnerIsFirstValid DEF c
    <2>4. c[i].rank \in Int
      BY <2>2 DEF Candidate
    <2>5. c[k].rank >= c[i].rank
      BY <2>1, <2>2, <2>3, <2>4 DEF Sorted
    <2>. QED  BY <2>1, <2>2, <2>3, <2>5 DEF c
  <1>2. IInv => SelectionPrefersValid
    BY <1>1 DEF SelectionPrefersValid
  <1>. QED  BY <1>2, Invariant, PTL

(* A deep round replaces the output only by a valid one that scores higher *)
(* by the threshold.                                                       *)
THEOREM DeepRoundsCorrect == Spec => DeepOnlyImproves
  <1> DEFINE Improves ==
        \A r \in Runs : phase[r] = "deep" /\ best'[r] # best[r] =>
          /\ best'[r] \in validSyntax
          /\ score[best'[r]] >= score[best[r]] + opts[r].deepMinImprovement
  <1>1. ASSUME IInv, Next, NEW r \in Runs, phase[r] = "deep", best'[r] # best[r]
        PROVE  DeepRound(r)
    <2>1. \A q \in Runs : ~CacheHit(q) /\ ~DetectThrows(q) /\ ~Launch(q) /\ ~StartNext(q)
            /\ ~Collect(q) /\ ~Refine(q) /\ ~DeepStop(q) /\ ~Finish(q)
      BY <1>1 DEF CacheHit, DetectThrows, Launch, StartNext, Collect, Refine, DeepStop, Finish
    <2>2. \A q \in Runs : ~Select(q) /\ ~Cleanup(q)
      BY <1>1 DEF Select, Cleanup, IInv, TypeOK
    <2>3. \A q \in Runs : DeepRound(q) => q = r
      BY <1>1 DEF DeepRound, IInv, TypeOK
    <2>4. \A q \in Runs, e \in Engines :
            ~Return(q, e) /\ ~Fail(q, e) /\ ~Timeout(q, e) /\ ~LateReturn(q, e)
      BY <1>1 DEF Return, Fail, Timeout, LateReturn
    <2>5. ~AllDone /\ ~Hang
      BY <1>1 DEF AllDone, Hang, vars, runVars
    <2>. QED  BY <1>1, <2>1, <2>2, <2>3, <2>4, <2>5 DEF Next, Step
  <1>2. ASSUME IInv, NEW r \in Runs, DeepRound(r)
        PROVE  /\ best'[r] \in validSyntax
               /\ score[best'[r]] >= score[best[r]] + opts[r].deepMinImprovement
    BY <1>2 DEF DeepRound, accepts, IInv, TypeOK, SelectionInv
  <1>3. IInv /\ Next => Improves
    BY <1>1, <1>2
  <1>4. IInv /\ [Next]_vars => [Improves]_vars
    BY <1>3
  <1>5. Spec => [][Improves]_vars
    BY <1>4, Invariant, PTL DEF Spec
  <1>. QED  BY <1>5 DEF DeepOnlyImproves
================================================================================
