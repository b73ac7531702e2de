--------------------------- MODULE DispatcherProofs ---------------------------
(***************************************************************************)
(* The passes that take dispatchers apart keep what the loops run, for     *)
(* every loop and every limit.                                             *)
(*                                                                         *)
(* StateFlattener: at every moment the states an arm leads to are seen or  *)
(* still queued.  FunctionLevelVm: at every moment the states a path of    *)
(* the code leads to are in the code, or a call of build has still to      *)
(* inline them.  ControlFlow: the branches walked follow one another, and  *)
(* the running program is at the next of them.  BinaryTreeDispatch: the    *)
(* ranges of a node are those of its two arms, in a row; everything about  *)
(* them goes by recursion over the nodes, from the last one.               *)
(* LuraphDispatch: a walk stands where the interpreter leads its opcodes,  *)
(* and each opcode has its handler or a walk that will come to it.         *)
(***************************************************************************)
EXTENDS StateFlattener, FunctionLevelVm, BinaryTreeDispatch, ControlFlow, LuraphDispatch, Lemmas

members(s) == {s[i] : i \in DOMAIN s}

known(v) == v \in seen \cup members(queue)

FlatInv ==
  /\ prog \in Programs /\ queue \in Seq(Int) /\ register \in Int
  /\ \A v \in DOMAIN cases : cases[v] = evalTree(prog, v) /\ evalTree(prog, v) # 0
  /\ \A v \in seen : evalTree(prog, v) # 0 => v \in DOMAIN cases
  /\ \A v \in DOMAIN cases : \A raw \in successors(prog, v) : known(normalize(prog, raw))
  /\ prog.found => known(normalize(prog, prog.initial))
  /\ phase = "collect" => register = prog.initial /\ followed = prog.found
  /\ running /\ followed => queue = <<>> /\ state \in seen

(* Normalising a number gives a number.                                    *)
LEMMA NormalizeType ==
  ASSUME NEW p \in Programs, NEW raw \in Int
  PROVE  normalize(p, raw) \in Int
  BY StateFlattenerAssumption DEF normalize

(* An order of a finite set of numbers is a sequence with all its members. *)
LEMMA OrdersType ==
  ASSUME NEW S, S \subseteq Int, IsFiniteSet(S), NEW q \in orders(S)
  PROVE  q \in Seq(Int) /\ \A x \in S : \E i \in DOMAIN q : q[i] = x
  <1>1. Cardinality(S) \in Nat
    BY FS_CardinalityType
  <1>2. q \in [1..Cardinality(S) -> S] /\ \A x \in S : \E i \in DOMAIN q : q[i] = x
    BY DEF orders
  <1>3. q \in [1..Cardinality(S) -> Int]
    BY <1>2
  <1>4. q \in Seq(Int)
    BY <1>1, <1>3, SeqDef
  <1>. QED  BY <1>2, <1>4

(* A body leads to finitely many numbers.                                  *)
LEMMA TransitionType ==
  ASSUME NEW p \in Programs, NEW l
  PROVE  transition(p, l) \subseteq Int /\ IsFiniteSet(transition(p, l))
  <1>1. CASE l \in DOMAIN p.bodies /\ p.bodies[l].kind \in {"const", "branch"}
    BY <1>1, StateFlattenerAssumption DEF transition
  <1>2. CASE ~(l \in DOMAIN p.bodies /\ p.bodies[l].kind \in {"const", "branch"})
    BY <1>2, FS_EmptySet DEF transition
  <1>. QED  BY <1>1, <1>2

(* Queued in any order they are normalised, and none is left out.          *)
LEMMA NormalizedType ==
  ASSUME NEW p \in Programs, NEW S, S \subseteq Int, IsFiniteSet(S), NEW q \in orders(S)
  PROVE  /\ normalized(p, q) \in Seq(Int)
         /\ \A raw \in S : normalize(p, raw) \in members(normalized(p, q))
  <1>1. q \in Seq(Int) /\ \A raw \in S : \E i \in DOMAIN q : q[i] = raw
    BY OrdersType
  <1>2. \A i \in DOMAIN q : normalize(p, q[i]) \in Int
    BY <1>1, NormalizeType
  <1>3. DOMAIN q = 1..Len(q) /\ Len(q) \in Nat
    BY <1>1
  <1>4. normalized(p, q) \in [1..Len(q) -> Int]
    BY <1>2, <1>3 DEF normalized
  <1>5. normalized(p, q) \in Seq(Int)
    BY <1>3, <1>4, SeqDef
  <1>. QED  BY <1>1, <1>5 DEF normalized, members

(* A queue and what is appended to it are in the queue.                    *)
LEMMA AppendKnown ==
  ASSUME NEW s \in Seq(Int), NEW t \in Seq(Int)
  PROVE  s \o t \in Seq(Int) /\ members(s) \cup members(t) \subseteq members(s \o t)
  <1>1. s \o t \in Seq(Int) /\ DOMAIN s = 1..Len(s) /\ DOMAIN t = 1..Len(t)
        /\ DOMAIN (s \o t) = 1..(Len(s) + Len(t))
    BY ConcatProperties
  <1>2. ASSUME NEW i \in DOMAIN s
        PROVE  (s \o t)[i] = s[i] /\ i \in DOMAIN (s \o t)
    BY <1>1, <1>2
  <1>3. ASSUME NEW i \in DOMAIN t
        PROVE  (s \o t)[Len(s) + i] = t[i] /\ Len(s) + i \in DOMAIN (s \o t)
    BY <1>1, <1>3
  <1>4. \A x \in members(s) : x \in members(s \o t)
    <2>. SUFFICES ASSUME NEW i \in DOMAIN s PROVE s[i] \in members(s \o t)
      BY DEF members
    <2>. QED  BY <1>2 DEF members
  <1>5. \A x \in members(t) : x \in members(s \o t)
    <2>. SUFFICES ASSUME NEW i \in DOMAIN t PROVE t[i] \in members(s \o t)
      BY DEF members
    <2>. QED  BY <1>3 DEF members
  <1>. QED  BY <1>1, <1>4, <1>5

(* Only the head leaves the queue.                                         *)
LEMMA TailKnown ==
  ASSUME NEW s \in Seq(Int), s # <<>>
  PROVE  /\ Head(s) \in Int /\ Tail(s) \in Seq(Int)
         /\ members(s) \subseteq {Head(s)} \cup members(Tail(s))
  <1>1. Head(s) = s[1] /\ Head(s) \in Int /\ Tail(s) \in Seq(Int) /\ Len(s) \in Nat \ {0}
        /\ DOMAIN s = 1..Len(s) /\ DOMAIN Tail(s) = 1..(Len(s) - 1)
    BY HeadTailProperties
  <1>2. ASSUME NEW i \in DOMAIN s, i # 1
        PROVE  i - 1 \in DOMAIN Tail(s) /\ Tail(s)[i - 1] = s[i]
    BY <1>1, <1>2
  <1>. QED  BY <1>1, <1>2 DEF members

--------------------------------------------------------------------------------

(* The queue starts with every candidate, the initial state among them.    *)
LEMMA FlatInitInv == Init => FlatInv
  <1>. SUFFICES ASSUME Init PROVE FlatInv
    OBVIOUS
  <1>1. prog \in Programs /\ register = prog.initial /\ register \in Int
    BY StateFlattenerAssumption DEF Init
  <1>2. candidates(prog) \subseteq Int
    BY <1>1, StateFlattenerAssumption DEF candidates, collectDirectStates
  <1>3. IsFiniteSet(candidates(prog))
    <2>1. IsFiniteSet(IF prog.found THEN {prog.initial} ELSE {})
      BY FS_EmptySet, FS_Singleton
    <2>. QED  BY <1>1, <2>1, FinitelyManyStates, FS_Union DEF candidates
  <1>4. PICK q \in orders(candidates(prog)) : queue = normalized(prog, q)
    BY DEF Init
  <1>5. queue \in Seq(Int)
        /\ \A raw \in candidates(prog) : normalize(prog, raw) \in members(queue)
    BY <1>1, <1>2, <1>3, <1>4, NormalizedType
  <1>6. prog.found => known(normalize(prog, prog.initial))
    BY <1>5 DEF candidates, known
  <1>. QED  BY <1>1, <1>5, <1>6 DEF Init, FlatInv, running

(* Collecting and rewriting forget no state; running stays among those     *)
(* seen.                                                                   *)
LEMMA FlatNextInv == FlatInv /\ [Next]_vars => FlatInv'
  <1>. SUFFICES ASSUME FlatInv, [Next]_vars PROVE FlatInv'
    OBVIOUS
  <1>. USE DEF FlatInv
  <1>1. CASE SkipSeen
    <2>1. queue # <<>> /\ Head(queue) \in seen
      BY <1>1 DEF SkipSeen, collecting
    <2>2. queue' \in Seq(Int) /\ \A v : known(v) => known(v)'
      BY <1>1, <2>1, TailKnown DEF SkipSeen, known
    <2>. QED  BY <1>1, <2>2 DEF SkipSeen, collecting, running
  <1>2. CASE SkipEmpty
    <2>1. queue # <<>> /\ Head(queue) \in seen'
      BY <1>2 DEF SkipEmpty, collecting
    <2>2. queue' \in Seq(Int) /\ \A v : known(v) => known(v)'
      BY <1>2, <2>1, TailKnown DEF SkipEmpty, known
    <2>. QED  BY <1>2, <2>2 DEF SkipEmpty, collecting, running
  <1>3. CASE Visit
    <2>. DEFINE v == Head(queue)
    <2>1. queue # <<>> /\ v \in Int /\ v \in seen' /\ seen' = seen \cup {v} /\ prog' = prog
      BY <1>3, TailKnown DEF Visit, collecting
    <2>2. PICK q \in orders(successors(prog, v)) : queue' = Tail(queue) \o normalized(prog, q)
      BY <1>3 DEF Visit
    <2>3. /\ normalized(prog, q) \in Seq(Int)
          /\ \A raw \in successors(prog, v) : normalize(prog, raw) \in members(normalized(prog, q))
      BY TransitionType, NormalizedType DEF successors
    <2>4. Tail(queue) \in Seq(Int)
      BY <2>1, TailKnown
    <2>10. /\ queue' \in Seq(Int)
           /\ members(Tail(queue)) \cup members(normalized(prog, q)) \subseteq members(queue')
      BY <2>2, <2>3, <2>4, AppendKnown
    <2>11. members(queue) \subseteq {v} \cup members(Tail(queue))
      BY <2>1, TailKnown
    <2>5. \A w : known(w) => known(w)'
      BY <2>1, <2>10, <2>11 DEF known
    <2>6. \A raw \in successors(prog, v) : known(normalize(prog, raw))'
      BY <2>1, <2>3, <2>10 DEF known
    <2>7. cases' = withArm(v, evalTree(prog, v)) /\ evalTree(prog, v) # 0
      BY <1>3 DEF Visit
    <2>8. /\ DOMAIN cases' = DOMAIN cases \cup {v} /\ cases'[v] = evalTree(prog, v)
          /\ \A w \in DOMAIN cases : cases'[w] = cases[w]
      BY <2>7 DEF withArm
    <2>9. \A w \in DOMAIN cases' : \A raw \in successors(prog, w) : known(normalize(prog, raw))'
      <3>. SUFFICES ASSUME NEW w \in DOMAIN cases', NEW raw \in successors(prog, w)
                    PROVE  known(normalize(prog, raw))'
        OBVIOUS
      <3>1. CASE w = v
        BY <3>1, <2>6
      <3>2. CASE w \in DOMAIN cases
        <4>1. known(normalize(prog, raw))
          BY <3>2
        <4>. QED  BY <4>1, <2>1, <2>5 DEF known
      <3>. QED  BY <3>1, <3>2, <2>8
    <2>. QED  BY <1>3, <2>1, <2>10, <2>5, <2>7, <2>8, <2>9 DEF Visit, collecting, running
  <1>4. CASE Rewrite
    <2>1. \A v : known(v) <=> known(v)'
      BY <1>4 DEF Rewrite, known
    <2>2. state' = state
      BY <1>4 DEF Rewrite, state
    <2>3. running' /\ followed' => queue' = <<>> /\ state' \in seen'
      <3>. SUFFICES ASSUME running', followed' PROVE queue' = <<>> /\ state' \in seen'
        OBVIOUS
      <3>1. followed /\ queue = <<>> /\ phase = "collect"
        BY <1>4 DEF Rewrite
      <3>2. prog.found /\ known(state)
        BY <3>1 DEF state
      <3>3. members(queue) = {}
        BY <3>1 DEF members
      <3>. QED  BY <1>4, <2>2, <3>1, <3>2, <3>3 DEF Rewrite, known
    <2>. QED  BY <1>4, <2>1, <2>3 DEF Rewrite, running
  <1>5. CASE NoBody \/ RunBody \/ LeaveLoop \/ Ended \/ UNCHANGED vars
    <2>1. UNCHANGED <<prog, queue, seen, cases>>
      BY <1>5 DEF NoBody, RunBody, LeaveLoop, Ended, keep, vars
    <2>2. \A v : known(v) <=> known(v)'
      BY <2>1 DEF known
    <2>3. register' \in Int
      <3>1. state \in Int
        BY NormalizeType DEF state
      <3>2. transition(prog, evalTree(prog, state)) \subseteq Int
        BY TransitionType
      <3>. QED  BY <1>5, <3>1, <3>2, StateFlattenerAssumption
                DEF NoBody, RunBody, LeaveLoop, Ended, keep, vars
    <2>4. phase' = "collect" => register' = prog'.initial /\ followed' = prog'.found
      BY <1>5, <2>1 DEF NoBody, RunBody, LeaveLoop, Ended, keep, vars, running
    <2>5. running' /\ followed' => queue' = <<>> /\ state' \in seen'
      <3>. SUFFICES ASSUME running', followed' PROVE queue' = <<>> /\ state' \in seen'
        OBVIOUS
      <3>1. CASE keep
        BY <3>1, <2>1 DEF keep, state, normalize, running
      <3>2. CASE RunBody /\ register' \in transition(prog, evalTree(prog, state)) /\ followed' = followed
        <4>1. running /\ followed /\ state \in seen /\ queue = <<>> /\ evalTree(prog, state) # 0
          BY <3>2 DEF RunBody
        <4>2. known(normalize(prog, register'))
          BY <3>2, <4>1 DEF successors
        <4>3. members(queue) = {}
          BY <4>1 DEF members
        <4>. QED  BY <4>1, <4>2, <4>3, <2>1 DEF known, state
      <3>3. CASE UNCHANGED vars
        BY <3>3 DEF vars, state, running
      <3>. QED  BY <1>5, <3>1, <3>2, <3>3 DEF NoBody, RunBody, LeaveLoop, Ended, running
    <2>. QED  BY <2>1, <2>2, <2>3, <2>4, <2>5
  <1>. QED  BY <1>1, <1>2, <1>3, <1>4, <1>5 DEF Next, Collect

(* The flat dispatcher runs the bodies of the original as long as the      *)
(* program goes by transitions the pass understands.                       *)
THEOREM FollowsOriginalCorrect == Spec => []FollowsOriginal
  <1>1. FlatInv => FollowsOriginal
    BY DEF FlatInv, FollowsOriginal, flatArm, running
  <1>. QED  BY FlatInitInv, FlatNextInv, <1>1, PTL DEF Spec

--------------------------------------------------------------------------------

Frame == [state : Int \cup {"none"}, todo : Seq(Int)]

(* How many states a call may still have to inline below the state it is   *)
(* inlining now.                                                           *)
spare(i) == IF i = 1 THEN 0 ELSE 1

(* The calls of build, the first for no state; only the last may have      *)
(* begun no state yet.                                                     *)
Framed(s) ==
  /\ s \in Seq(Frame) /\ Len(s) \in Nat \ {0}
  /\ \A i \in 2..Len(s) : s[i].state \in Int
  /\ \A i \in 1..(Len(s) - 1) : Len(s[i].todo) <= spare(i)
  /\ Len(s[Len(s)].todo) <= spare(Len(s)) + 1

(* The states still to inline that would be counted.                       *)
pending(s) ==
  {q \in (1..Len(s)) \X (1..2) :
     q[1] - 1 <= functionMaxStates /\ q[2] <= Len(s[q[1]].todo)}

Counted ==
  /\ stateCount \in Nat
  /\ IsFiniteSet(code) /\ Cardinality(code) <= stateCount
  /\ Cardinality(code) <= functionMaxStates + 1
  /\ stateCount > functionMaxStates =>
       stateCount + Cardinality(pending(stack)) <= 2 * functionMaxStates + 2

trail(s, i) == [j \in 1..(i - 1) |-> s[j + 1].state]

(* The states a path of the code leads to: what the body at its end sets.  *)
leads(w) ==
  IF w = <<>> THEN {normalizeState(loop.initial)}
  ELSE IF bodyOf(Last(w)).kind = "terminal" THEN {}
       ELSE {normalizeState(raw) : raw \in Range(bodyOf(Last(w)).to)}

waits(s, w, t) == \E i \in 1..Len(s) : trail(s, i) = w /\ t \in Range(s[i].todo)

(* What a path leads to is in the code, or a call has still to inline it.  *)
Covered ==
  /\ code \subseteq Seq(Int) \ {<<>>}
  /\ \A w \in code : bodyOf(Last(w)).kind \notin {"none", "unknown"}
  /\ failed \/ \A w \in code \cup {<<>>} : \A t \in leads(w) : Append(w, t) \in code \/ waits(stack, w, t)

InlineInv ==
  /\ loop \in Loops /\ pass \in {"build", "untouched", "run", "left"}
  /\ failed \in BOOLEAN /\ counter \in Int
  /\ Framed(stack) /\ Counted /\ Covered
  /\ pass = "build" => path = <<>> /\ counter = loop.initial
  /\ pass = "run" => ~failed /\ Len(stack) = 1 /\ stack[1].todo = <<>>
  /\ pass = "run" /\ oneWay => path \in code \cup {<<>>} /\ current \in leads(path)

(* At most one state more than the limit is pending.                       *)
LEMMA PendingBound ==
  ASSUME NEW s, Framed(s)
  PROVE  /\ IsFiniteSet(pending(s)) /\ Cardinality(pending(s)) \in Nat
         /\ Cardinality(pending(s)) <= functionMaxStates + 1
  <1> DEFINE n == Len(s)
             last == <<n, IF n = 1 THEN 1 ELSE 2>>
             once == (2..(functionMaxStates + 1)) \X {1}
  <1>1. functionMaxStates \in Nat /\ n \in Nat \ {0}
    BY InlineAssumption DEF Framed
  <1>2. IsFiniteSet(once) /\ Cardinality(once) = functionMaxStates
    <2>1. IsFiniteSet(2..(functionMaxStates + 1)) /\ Cardinality(2..(functionMaxStates + 1)) = functionMaxStates
      BY <1>1, FS_Interval
    <2>2. IsFiniteSet({1}) /\ Cardinality({1}) = 1
      BY FS_Singleton
    <2>. QED  BY <1>1, <2>1, <2>2, FS_Product
  <1>3. IsFiniteSet(once \cup {last}) /\ Cardinality(once \cup {last}) <= functionMaxStates + 1
    <2>. HIDE DEF once, last
    <2>1. IsFiniteSet(once \cup {last})
          /\ Cardinality(once \cup {last}) = IF last \in once THEN Cardinality(once) ELSE Cardinality(once) + 1
      BY <1>2, FS_AddElement, Zenon
    <2>. QED  BY <1>1, <1>2, <2>1
  <1>4. pending(s) \subseteq once \cup {last}
    <2>1. ASSUME NEW i \in 1..n, NEW j \in 1..2, i - 1 <= functionMaxStates, j <= Len(s[i].todo)
          PROVE  <<i, j>> \in once \cup {last}
      <3>1. Len(s[i].todo) \in Nat
        BY DEF Framed, Frame
      <3>2. CASE i = n
        BY <1>1, <2>1, <3>1, <3>2 DEF Framed, spare
      <3>3. CASE i # n
        <4>1. Len(s[i].todo) <= spare(i)
          BY <1>1, <3>3 DEF Framed
        <4>. QED  BY <1>1, <2>1, <3>1, <4>1 DEF spare
      <3>. QED  BY <3>2, <3>3
    <2>. HIDE DEF once, last
    <2>2. ASSUME NEW q \in pending(s)
          PROVE  q \in once \cup {last}
      <3>1. q \in (1..n) \X (1..2) /\ q[1] - 1 <= functionMaxStates /\ q[2] <= Len(s[q[1]].todo)
        BY <2>2 DEF pending
      <3>2. q = <<q[1], q[2]>> /\ q[1] \in 1..n /\ q[2] \in 1..2
        BY <3>1
      <3>. QED  BY <2>1, <3>1, <3>2
    <2>. QED  BY <2>2
  <1>. HIDE DEF once, last
  <1>5. IsFiniteSet(pending(s)) /\ Cardinality(pending(s)) <= Cardinality(once \cup {last})
    BY <1>3, <1>4, FS_Subset
  <1>. QED  BY <1>1, <1>3, <1>5, FS_CardinalityType

afterTake(s) == Append(Front(s), [s[Len(s)] EXCEPT !.todo = Tail(@)])

(* A call that begins its next state has one less.                         *)
LEMMA Taken ==
  ASSUME NEW s, Framed(s), s[Len(s)].todo # <<>>
  PROVE  /\ Framed(afterTake(s)) /\ Len(afterTake(s)) = Len(s)
         /\ \A i \in 1..Len(s) : /\ afterTake(s)[i].state = s[i].state
                                 /\ Len(afterTake(s)[i].todo) <= spare(i)
                                 /\ i # Len(s) => afterTake(s)[i] = s[i]
         /\ afterTake(s)[Len(s)].todo = Tail(s[Len(s)].todo)
         /\ Head(s[Len(s)].todo) \in Int
  <1> DEFINE n == Len(s)
             todo == s[n].todo
             rest == [s[n] EXCEPT !.todo = Tail(@)]
  <1>1. s \in Seq(Frame) /\ n \in Nat \ {0} /\ s[n] \in Frame
    BY DEF Framed
  <1>2. todo \in Seq(Int) /\ todo # <<>> /\ Len(todo) \in Nat
    BY <1>1 DEF Frame
  <1>3. Tail(todo) \in Seq(Int) /\ Len(Tail(todo)) = Len(todo) - 1 /\ Head(todo) \in Int
    BY <1>2, HeadTailProperties
  <1>4. rest \in Frame /\ rest.state = s[n].state /\ rest.todo = Tail(todo)
    BY <1>1, <1>3 DEF Frame
  <1>5. /\ Front(s) \in Seq(Frame) /\ Len(Front(s)) = n - 1
        /\ \A i \in 1..(n - 1) : Front(s)[i] = s[i]
    BY <1>1, FrontElements
  <1>6. /\ afterTake(s) \in Seq(Frame) /\ Len(afterTake(s)) = n /\ afterTake(s)[n] = rest
        /\ \A i \in 1..(n - 1) : afterTake(s)[i] = s[i]
    <2>1. afterTake(s) = Append(Front(s), rest)
      BY DEF afterTake
    <2>. HIDE DEF rest
    <2>. QED  BY <1>1, <1>4, <1>5, <2>1
  <1>7. ASSUME NEW i \in 1..n
        PROVE  /\ afterTake(s)[i].state = s[i].state
               /\ Len(afterTake(s)[i].todo) <= spare(i)
               /\ i # n => afterTake(s)[i] = s[i]
    <2>1. CASE i = n
      <3>1. Len(todo) <= spare(n) + 1 /\ spare(n) \in Nat
        BY DEF Framed, spare
      <3>. HIDE DEF rest, todo
      <3>2. n \in 1..n
        BY <1>1
      <3>. QED  BY <1>2, <1>3, <1>4, <1>6, <2>1, <3>1, <3>2
    <2>2. CASE i # n
      <3>1. i \in 1..(n - 1)
        BY <1>1, <2>2
      <3>. QED  BY <1>6, <3>1, <2>2 DEF Framed
    <2>. QED  BY <2>1, <2>2
  <1>8. Framed(afterTake(s))
    <2>. HIDE DEF rest, todo
    <2>1. Len(afterTake(s)[n].todo) <= spare(n)
      BY <1>1, <1>7
    <2>2. Len(afterTake(s)[n].todo) \in Nat
      <3>1. Tail(s[n].todo) \in Seq(Int) /\ afterTake(s)[n].todo = Tail(s[n].todo)
        BY <1>3, <1>4, <1>6 DEF rest, todo
      <3>. QED  BY <3>1
    <2>3. spare(n) \in Nat
      BY DEF spare
    <2>4. \A i \in 2..n : afterTake(s)[i].state \in Int
      BY <1>1, <1>7 DEF Framed
    <2>5. \A i \in 1..(n - 1) : Len(afterTake(s)[i].todo) <= spare(i)
      BY <1>1, <1>7
    <2>. QED  BY <1>1, <1>6, <2>1, <2>2, <2>3, <2>4, <2>5 DEF Framed
  <1>. QED  BY <1>3, <1>4, <1>6, <1>7, <1>8

(* There is then one state less to count, unless the call is too deep.     *)
LEMMA TakenPending ==
  ASSUME NEW s, Framed(s), s[Len(s)].todo # <<>>
  PROVE  /\ Cardinality(pending(afterTake(s))) <= Cardinality(pending(s))
         /\ Len(s) - 1 <= functionMaxStates =>
              Cardinality(pending(afterTake(s))) + 1 <= Cardinality(pending(s))
  <1> DEFINE n == Len(s)
             k == Len(s[n].todo)
  <1>1. n \in Nat \ {0} /\ functionMaxStates \in Nat /\ s[n] \in Frame
    BY InlineAssumption DEF Framed
  <1>2. s[n].todo \in Seq(Int) /\ k \in Nat \ {0}
    BY <1>1, EmptySeq DEF Frame
  <1>3. /\ Len(afterTake(s)) = n /\ afterTake(s)[n].todo = Tail(s[n].todo)
        /\ \A i \in 1..n : i # n => afterTake(s)[i] = s[i]
    BY Taken
  <1>4. Len(afterTake(s)[n].todo) = k - 1
    BY <1>2, <1>3, HeadTailProperties
  <1>5. ASSUME NEW q \in (1..n) \X (1..2), q[2] <= Len(afterTake(s)[q[1]].todo)
        PROVE  q[2] <= Len(s[q[1]].todo)
    <2>1. CASE q[1] = n
      BY <1>2, <1>4, <1>5, <2>1
    <2>2. CASE q[1] # n
      BY <1>3, <1>5, <2>2
    <2>. QED  BY <2>1, <2>2
  <1>6. pending(afterTake(s)) \subseteq pending(s)
    BY <1>3, <1>5 DEF pending
  <1>7. /\ IsFiniteSet(pending(s)) /\ Cardinality(pending(s)) \in Nat
        /\ Cardinality(pending(afterTake(s))) \in Nat
    BY PendingBound, Taken
  <1>8. /\ Cardinality(pending(afterTake(s))) <= Cardinality(pending(s))
        /\ Cardinality(pending(s)) = Cardinality(pending(afterTake(s))) => pending(s) = pending(afterTake(s))
    BY <1>6, <1>7, FS_Subset
  <1>9. ASSUME n - 1 <= functionMaxStates
        PROVE  <<n, k>> \in pending(s) /\ <<n, k>> \notin pending(afterTake(s))
    <2>1. k <= 2
      <3>1. Len(s[n].todo) <= spare(n) + 1
        BY DEF Framed
      <3>. QED  BY <1>2, <3>1 DEF spare
    <2>2. <<n, k>> \in (1..n) \X (1..2) /\ <<n, k>>[1] = n /\ <<n, k>>[2] = k
      BY <1>1, <1>2, <2>1
    <2>3. ~(k <= k - 1)
      BY <1>2
    <2>4. <<n, k>> \in pending(s)
      BY <1>2, <1>9, <2>2 DEF pending
    <2>5. <<n, k>> \notin pending(afterTake(s))
      BY <1>3, <1>4, <2>2, <2>3 DEF pending
    <2>. QED  BY <2>4, <2>5
  <1>. QED  BY <1>7, <1>8, <1>9

(* The path to a call and what waits there do not change when the call     *)
(* takes its next state, but for that state.                               *)
LEMMA TakenWaits ==
  ASSUME NEW s, Framed(s), s[Len(s)].todo # <<>>
  PROVE  /\ \A i \in 1..Len(s) : trail(afterTake(s), i) = trail(s, i)
         /\ \A w, t : waits(s, w, t) =>
              waits(afterTake(s), w, t) \/ (w = trail(s, Len(s)) /\ t = Head(s[Len(s)].todo))
  <1> DEFINE n == Len(s)
  <1>1. n \in Nat \ {0} /\ s[n].todo \in Seq(Int)
    <2>1. n \in Nat \ {0} /\ s[n] \in Frame
      BY DEF Framed
    <2>. QED  BY <2>1 DEF Frame
  <1>2. /\ Len(afterTake(s)) = n /\ afterTake(s)[n].todo = Tail(s[n].todo)
        /\ \A i \in 1..n : i # n => afterTake(s)[i] = s[i]
        /\ \A i \in 1..n : afterTake(s)[i].state = s[i].state
    BY Taken
  <1>3. ASSUME NEW i \in 1..n
        PROVE  trail(afterTake(s), i) = trail(s, i)
    BY <1>1, <1>2 DEF trail
  <1>4. ASSUME NEW w, NEW t, waits(s, w, t)
        PROVE  waits(afterTake(s), w, t) \/ (w = trail(s, n) /\ t = Head(s[n].todo))
    <2>1. PICK i \in 1..n : trail(s, i) = w /\ t \in Range(s[i].todo)
      BY <1>4 DEF waits
    <2>2. CASE i = n
      <3> DEFINE todo == s[n].todo
      <3>1. PICK j \in 1..Len(todo) : todo[j] = t
        BY <1>1, <2>1, <2>2 DEF Range
      <3>2. CASE j = 1
        BY <2>1, <2>2, <3>1, <3>2
      <3>3. CASE j # 1
        <4>1. /\ Tail(todo) \in Seq(Int) /\ Len(Tail(todo)) = Len(todo) - 1
              /\ \A l \in 1..Len(Tail(todo)) : Tail(todo)[l] = todo[l + 1]
          BY <1>1, HeadTailProperties
        <4>2. j - 1 \in 1..Len(Tail(todo)) /\ j - 1 + 1 = j
          BY <1>1, <3>3, <4>1
        <4>3. t \in Range(Tail(todo))
          <5> DEFINE rest == Tail(todo)
          <5>1. rest \in Seq(Int) /\ j - 1 \in 1..Len(rest) /\ rest[j - 1] = t
            BY <3>1, <4>1, <4>2
          <5> HIDE DEF rest
          <5>2. j - 1 \in DOMAIN rest
            BY <5>1
          <5>3. t \in Range(rest)
            BY <5>1, <5>2 DEF Range
          <5>. QED  BY <5>3 DEF rest
        <4>. QED  BY <1>2, <1>3, <2>1, <2>2, <4>3 DEF waits
      <3>. QED  BY <3>2, <3>3
    <2>3. CASE i # n
      BY <1>2, <1>3, <2>1, <2>3 DEF waits
    <2>. QED  BY <2>2, <2>3
  <1>. QED  BY <1>3, <1>4

(* A call that is made for a state adds to what waits.                     *)
LEMMA Pushed ==
  ASSUME NEW s, Framed(s), \A i \in 1..Len(s) : Len(s[i].todo) <= spare(i),
         NEW f \in Frame, f.state \in Int, Len(f.todo) <= 2
  PROVE  /\ Framed(s \o <<f>>)
         /\ \A w, t : waits(s, w, t) => waits(s \o <<f>>, w, t)
         /\ \A t \in Range(f.todo) : waits(s \o <<f>>, Append(trail(s, Len(s)), f.state), t)
         /\ trail(s, Len(s)) \in Seq(Int)
  <1> DEFINE n == Len(s)
             p == s \o <<f>>
             here1 == trail(s, n)
  <1>1. s \in Seq(Frame) /\ n \in Nat \ {0}
    BY DEF Framed
  <1>2. /\ p \in Seq(Frame) /\ Len(p) = n + 1 /\ p[n + 1] = f
        /\ \A i \in 1..n : p[i] = s[i]
    BY <1>1
  <1> HIDE DEF p
  <1>3. Framed(p)
    <2>1. ASSUME NEW i \in 2..(n + 1)
          PROVE  p[i].state \in Int
      <3>1. CASE i = n + 1
        BY <1>2, <3>1
      <3>2. CASE i # n + 1
        BY <1>1, <1>2, <3>2 DEF Framed
      <3>. QED  BY <3>1, <3>2
    <2>2. Len(p[n + 1].todo) <= spare(n + 1) + 1
      BY <1>1, <1>2 DEF spare
    <2>3. ASSUME NEW i \in 1..(n + 1 - 1)
          PROVE  Len(p[i].todo) <= spare(i)
      BY <1>1, <1>2
    <2>. QED  BY <1>1, <1>2, <2>1, <2>2, <2>3 DEF Framed
  <1>4. ASSUME NEW i \in 1..n
        PROVE  trail(p, i) = trail(s, i)
    BY <1>1, <1>2 DEF trail
  <1>5. ASSUME NEW w, NEW t, waits(s, w, t)
        PROVE  waits(p, w, t)
    <2>1. PICK i \in 1..n : trail(s, i) = w /\ t \in Range(s[i].todo)
      BY <1>5 DEF waits
    <2>2. i \in 1..Len(p) /\ p[i] = s[i]
      BY <1>1, <1>2
    <2>. QED  BY <1>4, <2>1, <2>2 DEF waits
  <1>6. trail(s, n) \in Seq(Int) /\ Len(trail(s, n)) = n - 1
        /\ \A j \in 1..(n - 1) : trail(s, n)[j] = s[j + 1].state
    <2>1. \A j \in 1..(n - 1) : s[j + 1].state \in Int
      BY <1>1 DEF Framed
    <2>2. PICK m \in Nat : m = n - 1
      <3>1. n - 1 \in Nat
        BY <1>1
      <3>. QED  BY <3>1
    <2>3. trail(s, n) = [j \in 1..m |-> s[j + 1].state]
      BY <2>2 DEF trail
    <2>4. trail(s, n) \in [1..m -> Int]
      BY <2>1, <2>2, <2>3
    <2>5. trail(s, n) \in Seq(Int) /\ Len(trail(s, n)) = m
      BY <2>2, <2>4
    <2>. QED  BY <2>2, <2>3, <2>5
  <1>7. trail(p, n + 1) = Append(trail(s, n), f.state)
    <2> DEFINE long == trail(p, n + 1)
               onto == Append(trail(s, n), f.state)
    <2>1. onto \in Seq(Int) /\ Len(onto) = n /\ onto[n] = f.state
          /\ \A j \in 1..(n - 1) : onto[j] = trail(s, n)[j]
      <3> HIDE DEF onto
      <3>1. onto = Append(trail(s, n), f.state)
        BY DEF onto
      <3>. QED  BY <1>1, <1>6, <3>1
    <2>2. \A j \in 1..n : p[j + 1].state \in Int
      BY <1>1, <1>2, <1>3 DEF Framed
    <2>3. long \in Seq(Int) /\ Len(long) = n /\ \A j \in 1..n : long[j] = p[j + 1].state
      <3>1. n + 1 - 1 = n
        BY <1>1
      <3>2. long = [j \in 1..n |-> p[j + 1].state]
        BY <3>1 DEF trail
      <3>3. long \in [1..n -> Int]
        BY <2>2, <3>2
      <3>. QED  BY <1>1, <3>2, <3>3
    <2> HIDE DEF long, onto
    <2>4. ASSUME NEW j \in 1..n
          PROVE  long[j] = onto[j]
      <3>1. CASE j = n
        BY <1>2, <2>1, <2>3, <3>1
      <3>2. CASE j # n
        <4>1. j \in 1..(n - 1) /\ j + 1 \in 1..n
          BY <1>1, <3>2
        <4>. QED  BY <1>2, <1>6, <2>1, <2>3, <4>1
      <3>. QED  BY <3>1, <3>2
    <2>5. long = onto
      BY <2>1, <2>3, <2>4, SeqEqual
    <2>. QED  BY <2>5 DEF long, onto
  <1>8. ASSUME NEW t \in Range(f.todo)
        PROVE  waits(p, Append(trail(s, n), f.state), t)
    <2>1. n + 1 \in 1..Len(p)
      BY <1>1, <1>2
    <2>. QED  BY <1>2, <1>7, <2>1 DEF waits
  <1>. QED  BY <1>3, <1>5, <1>6, <1>8 DEF p

(* Before the first call nothing is inlined and the first state waits.     *)
LEMMA InlineInitInv == InlineInit => InlineInv
  <1>. SUFFICES ASSUME InlineInit
                PROVE  InlineInv
    OBVIOUS
  <1> DEFINE first == [state |-> "none", todo |-> <<normalizeState(loop.initial)>>]
  <1>1. /\ loop \in Loops /\ pass = "build" /\ stack = <<first>>
        /\ stateCount = 0 /\ failed = FALSE /\ code = {}
        /\ counter = loop.initial /\ path = <<>>
    BY DEF InlineInit
  <1>2. loop.initial \in Int /\ normalizeState(loop.initial) \in Int /\ functionMaxStates \in Nat
    BY <1>1, InlineAssumption DEF normalizeState
  <1>3. first \in Frame /\ first.todo = <<normalizeState(loop.initial)>>
    BY <1>2 DEF Frame
  <1> HIDE DEF first
  <1>4. stack \in Seq(Frame) /\ Len(stack) = 1 /\ stack[1] = first
    BY <1>1, <1>3
  <1>5. Framed(stack)
    <2>1. Len(stack[1].todo) = 1
      BY <1>3, <1>4
    <2>. QED  BY <1>4, <2>1 DEF Framed, spare
  <1>6. Counted
    BY <1>1, <1>2, FS_EmptySet DEF Counted
  <1>7. Covered
    <2>1. trail(stack, 1) = <<>>
      BY DEF trail
    <2>2. normalizeState(loop.initial) \in Range(stack[1].todo)
      BY <1>3, <1>4 DEF Range
    <2>3. waits(stack, <<>>, normalizeState(loop.initial))
      BY <1>4, <2>1, <2>2 DEF waits
    <2>. QED  BY <1>1, <2>3 DEF Covered, leads
  <1>. QED  BY <1>1, <1>2, <1>5, <1>6, <1>7 DEF InlineInv

(* Every step of build and of the running program keeps the invariant.     *)
LEMMA InlineNextInv == InlineInv /\ [InlineNext]_inlineVars => InlineInv'
  <1>. SUFFICES ASSUME InlineInv, [InlineNext]_inlineVars
                PROVE  InlineInv'
    OBVIOUS
  <1>0. /\ loop \in Loops /\ pass \in {"build", "untouched", "run", "left"}
        /\ failed \in BOOLEAN /\ counter \in Int
        /\ Framed(stack) /\ Counted /\ Covered
        /\ pass = "build" => path = <<>> /\ counter = loop.initial
        /\ pass = "run" => ~failed /\ Len(stack) = 1 /\ stack[1].todo = <<>>
        /\ pass = "run" /\ oneWay => path \in code \cup {<<>>} /\ current \in leads(path)
        /\ functionMaxStates \in Nat
    BY InlineAssumption DEF InlineInv
  <1>01. stack \in Seq(Frame) /\ Len(stack) \in Nat \ {0} /\ stateCount \in Nat
    BY <1>0 DEF Framed, Counted
  <1>02. ASSUME loop' = loop, stack' = stack, code' = code, stateCount' = stateCount, failed' = failed
         PROVE  Framed(stack') /\ Counted' /\ Covered'
    <2>1. Framed(stack')
      BY <1>0, <1>02
    <2>2. Counted'
      <3>1. pending(stack') = pending(stack)
        BY <1>02
      <3>. QED  BY <1>0, <1>02, <3>1 DEF Counted
    <2>3. /\ \A v : bodyOf(v)' = bodyOf(v)
          /\ \A w : leads(w)' = leads(w)
          /\ \A w, t : waits(stack', w, t) = waits(stack, w, t)
      BY <1>02 DEF bodyOf, leafFor, leads, normalizeState
    <2>4. Covered'
      BY <1>0, <1>02, <2>3 DEF Covered
    <2>. QED  BY <2>1, <2>2, <2>4
  <1>1. ASSUME UNCHANGED inlineVars
        PROVE  InlineInv'
    <2>1. loop' = loop /\ pass' = pass /\ stack' = stack /\ stateCount' = stateCount
          /\ failed' = failed /\ code' = code /\ counter' = counter /\ path' = path
      BY <1>1 DEF inlineVars, building
    <2>2. Framed(stack') /\ Counted' /\ Covered'
      BY <1>02, <2>1
    <2>3. leads(path)' = leads(path) /\ current' = current /\ oneWay' = oneWay
      BY <2>1 DEF leads, bodyOf, leafFor, normalizeState, current, oneWay
    <2>. QED  BY <1>0, <2>1, <2>2, <2>3 DEF InlineInv
  (* What a call that takes its next state leaves, in any case.            *)
  <1>2. ASSUME calling, stack' = Append(callers, called)
        PROVE  /\ stack' = afterTake(stack) /\ stack[Len(stack)].todo # <<>>
               /\ Framed(stack')
    <2>1. stack[Len(stack)].todo # <<>> /\ stack' = afterTake(stack)
      BY <1>2 DEF calling, top, callers, called, afterTake
    <2>. QED  BY <1>0, <2>1, Taken
  <1>3. CASE GiveUp
    <2>1. /\ calling /\ stack' = Append(callers, called) /\ failed' = TRUE /\ pass = "build"
          /\ loop' = loop /\ pass' = pass /\ stateCount' = stateCount /\ code' = code
          /\ counter' = counter /\ path' = path
      BY <1>3 DEF GiveUp, calling
    <2>2. Framed(stack')
      BY <1>2, <2>1
    <2>3. Counted'
      <3>1. Cardinality(pending(stack')) <= Cardinality(pending(stack))
        BY <1>0, <1>2, <2>1, TakenPending
      <3>2. Cardinality(pending(stack')) \in Nat /\ Cardinality(pending(stack)) \in Nat
        BY <1>0, <2>2, PendingBound
      <3>. QED  BY <1>0, <2>1, <3>1, <3>2 DEF Counted
    <2>4. Covered'
      BY <1>0, <2>1 DEF Covered, bodyOf, leafFor
    <2>. QED  BY <1>0, <2>1, <2>2, <2>3, <2>4 DEF InlineInv
  <1>4. CASE Fail
    <2>1. /\ calling /\ stack' = Append(callers, called) /\ failed' = TRUE /\ pass = "build" /\ ~cutOff
          /\ loop' = loop /\ pass' = pass /\ stateCount' = stateCount + 1 /\ code' = code
          /\ counter' = counter /\ path' = path
      BY <1>4 DEF Fail, calling
    <2>2. Framed(stack')
      BY <1>2, <2>1
    <2>3. Counted'
      <3>1. Len(stack) - 1 <= functionMaxStates
        BY <1>0, <1>01, <2>1 DEF cutOff
      <3>2. Cardinality(pending(stack')) + 1 <= Cardinality(pending(stack))
        BY <1>0, <1>2, <2>1, <3>1, TakenPending
      <3>3. /\ Cardinality(pending(stack')) \in Nat /\ Cardinality(pending(stack)) \in Nat
            /\ Cardinality(pending(stack')) <= functionMaxStates + 1
        BY <1>0, <2>2, PendingBound
      <3>4. /\ IsFiniteSet(code) /\ Cardinality(code) <= stateCount
            /\ Cardinality(code) <= functionMaxStates + 1 /\ Cardinality(code) \in Nat
            /\ stateCount > functionMaxStates =>
                 stateCount + Cardinality(pending(stack)) <= 2 * functionMaxStates + 2
        BY <1>0, FS_CardinalityType DEF Counted
      <3>5. stateCount + 1 > functionMaxStates =>
              stateCount + 1 + Cardinality(pending(stack')) <= 2 * functionMaxStates + 2
        <4>1. CASE stateCount > functionMaxStates
          BY <1>0, <1>01, <3>2, <3>3, <3>4, <4>1
        <4>2. CASE stateCount <= functionMaxStates
          BY <1>0, <1>01, <3>3, <4>2
        <4>. QED  BY <1>0, <1>01, <4>1, <4>2
      <3>. QED  BY <1>0, <1>01, <2>1, <3>4, <3>5 DEF Counted
    <2>4. Covered'
      BY <1>0, <2>1 DEF Covered, bodyOf, leafFor
    <2>. QED  BY <1>0, <2>1, <2>2, <2>3, <2>4 DEF InlineInv
  <1>5. CASE Inline
    <2> DEFINE body == bodyOf(next)
               f == [state |-> next, todo |-> todoOf(body)]
               w1 == Append(here, next)
    <2>1. /\ calling /\ pass = "build" /\ ~cutOff /\ ~hopeless
          /\ loop' = loop /\ pass' = pass /\ stateCount' = stateCount + 1 /\ failed' = failed
          /\ code' = code \cup {w1} /\ counter' = counter /\ path' = path
          /\ body.kind = "terminal" => stack' = Append(callers, called)
          /\ body.kind # "terminal" => stack' = Append(callers, called) \o <<f>>
      BY <1>5 DEF Inline, calling
    <2>2. /\ Append(callers, called) = afterTake(stack) /\ stack[Len(stack)].todo # <<>>
          /\ next = Head(stack[Len(stack)].todo) /\ here = trail(stack, Len(stack))
      BY <2>1 DEF calling, top, callers, called, afterTake, next, here, trail
    <2>3. /\ Framed(afterTake(stack)) /\ Len(afterTake(stack)) = Len(stack)
          /\ \A i \in 1..Len(stack) : Len(afterTake(stack)[i].todo) <= spare(i)
          /\ next \in Int
      BY <1>0, <2>2, Taken
    <2>4. /\ trail(afterTake(stack), Len(stack)) = here
          /\ \A w, t : waits(stack, w, t) => waits(afterTake(stack), w, t) \/ (w = here /\ t = next)
      BY <1>0, <1>01, <2>2, TakenWaits
    <2>5. /\ body.kind \notin {"none", "unknown"} /\ stateCount <= functionMaxStates
          /\ body.kind \in {"const", "branch", "terminal"}
          /\ body.to \in Seq(Int) /\ (body.kind # "terminal" => Len(body.to) <= 2)
      <3>1. body.kind \notin {"none", "unknown"} /\ stateCount <= functionMaxStates
        BY <1>0, <1>01, <2>1 DEF hopeless
      <3>2. leafFor(next) # 0 /\ body = loop.bodies[leafFor(next)]
        BY <3>1 DEF bodyOf
      <3>3. leafFor(next) \in DOMAIN loop.bodies
        BY <1>0, <3>2, InlineAssumption DEF leafFor
      <3>4. /\ body.kind \in {"const", "branch", "unknown", "terminal"} /\ body.to \in Seq(Int)
            /\ body.kind = "const" => Len(body.to) = 1
            /\ body.kind = "branch" => Len(body.to) = 2
        <4> HIDE DEF body
        <4>. QED  BY <1>0, <3>2, <3>3, InlineAssumption
      <3>5. body.kind \in {"const", "branch", "terminal"}
        BY <3>1, <3>4
      <3>6. body.kind # "terminal" => Len(body.to) <= 2
        <4>1. PICK m : m = Len(body.to)
          OBVIOUS
        <4>2. body.kind # "terminal" => m = 1 \/ m = 2
          BY <3>4, <3>5, <4>1, Zenon
        <4>3. m = 1 \/ m = 2 => m <= 2
          OBVIOUS
        <4>. QED  BY <4>1, <4>2, <4>3, Zenon
      <3>. QED  BY <3>1, <3>4, <3>5, <3>6
    <2>6. /\ f \in Frame /\ f.state = next
          /\ (body.kind # "terminal" => Len(f.todo) <= 2)
          /\ Range(f.todo) = {normalizeState(raw) : raw \in Range(body.to)}
      <3> DEFINE to == body.to
      <3>1. PICK m \in Nat : m = Len(to) /\ DOMAIN to = 1..m
        BY <2>5
      <3>2. todoOf(body) = [i \in 1..m |-> normalizeState(to[i])]
        BY <3>1 DEF todoOf
      <3>3. \A i \in 1..m : normalizeState(to[i]) \in Int
        BY <1>0, <2>5, <3>1, InlineAssumption DEF normalizeState
      <3>4. todoOf(body) \in Seq(Int) /\ Len(todoOf(body)) = m /\ DOMAIN todoOf(body) = 1..m
        BY <3>2, <3>3
      <3>5. Range(todoOf(body)) = {normalizeState(raw) : raw \in Range(to)}
        BY <3>1, <3>2 DEF Range
      <3>. QED  BY <2>3, <2>5, <3>1, <3>4, <3>5 DEF Frame
    <2> HIDE DEF f, body
    <2>7. /\ body.kind # "terminal" =>
               /\ Framed(afterTake(stack) \o <<f>>)
               /\ \A w, t : waits(afterTake(stack), w, t) => waits(afterTake(stack) \o <<f>>, w, t)
               /\ \A t \in Range(f.todo) : waits(afterTake(stack) \o <<f>>, w1, t)
          /\ here \in Seq(Int)
      <3>1. \A i \in 1..Len(afterTake(stack)) : Len(afterTake(stack)[i].todo) <= spare(i)
        BY <2>3
      <3>2. trail(stack, Len(stack)) \in Seq(Int)
        <4>1. \A j \in 1..(Len(stack) - 1) : stack[j + 1].state \in Int
          BY <1>0, <1>01 DEF Framed
        <4>2. PICK m \in Nat : m = Len(stack) - 1
          <5>1. Len(stack) - 1 \in Nat
            BY <1>01
          <5>. QED  BY <5>1
        <4>3. trail(stack, Len(stack)) \in [1..m -> Int]
          BY <4>1, <4>2 DEF trail
        <4>. QED  BY <4>3
      <3>3. ASSUME body.kind # "terminal"
            PROVE  /\ Framed(afterTake(stack) \o <<f>>)
                   /\ \A w, t : waits(afterTake(stack), w, t) => waits(afterTake(stack) \o <<f>>, w, t)
                   /\ \A t \in Range(f.todo) :
                        waits(afterTake(stack) \o <<f>>,
                              Append(trail(afterTake(stack), Len(afterTake(stack))), f.state), t)
        BY <2>3, <2>6, <3>1, <3>3, Pushed
      <3>. QED  BY <2>2, <2>3, <2>4, <2>6, <3>2, <3>3
    <2>8. w1 \in Seq(Int) \ {<<>>} /\ Last(w1) = next
      <3>1. w1 \in Seq(Int) /\ Len(w1) = Len(here) + 1 /\ w1[Len(here) + 1] = next /\ Len(here) \in Nat
        BY <2>3, <2>7
      <3> HIDE DEF w1
      <3>2. w1 # <<>>
        BY <3>1, EmptySeq
      <3>. QED  BY <3>1, <3>2 DEF Last
    <2> HIDE DEF w1
    <2>9. Framed(stack') /\ \A w, t : waits(afterTake(stack), w, t) => waits(stack', w, t)
      <3>1. CASE body.kind = "terminal"
        BY <2>1, <2>2, <2>3, <3>1
      <3>2. CASE body.kind # "terminal"
        BY <2>1, <2>2, <2>7, <3>2
      <3>. QED  BY <3>1, <3>2
    <2>10. Counted'
      <3>1. /\ Cardinality(pending(stack')) \in Nat
            /\ Cardinality(pending(stack')) <= functionMaxStates + 1
        BY <2>9, PendingBound
      <3>2. /\ IsFiniteSet(code) /\ Cardinality(code) <= stateCount /\ Cardinality(code) \in Nat
        BY <1>0, FS_CardinalityType DEF Counted
      <3>3. IsFiniteSet(code') /\ Cardinality(code') <= Cardinality(code) + 1 /\ Cardinality(code') \in Nat
        <4>1. /\ IsFiniteSet(code \cup {w1})
              /\ Cardinality(code \cup {w1}) = IF w1 \in code THEN Cardinality(code) ELSE Cardinality(code) + 1
          BY <3>2, FS_AddElement, Zenon
        <4>. QED  BY <2>1, <3>2, <4>1
      <3>. QED  BY <1>0, <1>01, <2>1, <2>5, <3>1, <3>2, <3>3 DEF Counted
    <2>11. Covered'
      <3>1. code' \subseteq Seq(Int) \ {<<>>}
        BY <1>0, <2>1, <2>8 DEF Covered
      <3>2. /\ \A v : bodyOf(v)' = bodyOf(v)
            /\ \A w : leads(w)' = leads(w)
        BY <2>1 DEF bodyOf, leafFor, leads, normalizeState
      <3>3. ASSUME NEW w \in code'
            PROVE  bodyOf(Last(w)).kind \notin {"none", "unknown"}
        <4>1. CASE w = w1
          BY <2>5, <2>8, <4>1 DEF body
        <4>2. CASE w \in code
          BY <1>0, <4>2 DEF Covered
        <4>. QED  BY <2>1, <4>1, <4>2
      <3>4. ASSUME ~failed, NEW w \in code' \cup {<<>>}, NEW t \in leads(w)
            PROVE  Append(w, t) \in code' \/ waits(stack', w, t)
        <4>1. CASE w \in code \cup {<<>>}
          <5>1. Append(w, t) \in code \/ waits(stack, w, t)
            BY <1>0, <3>4, <4>1 DEF Covered
          <5>2. CASE Append(w, t) \in code
            BY <2>1, <5>2
          <5>3. CASE waits(afterTake(stack), w, t)
            BY <2>9, <5>3
          <5>4. CASE w = here /\ t = next
            BY <2>1, <5>4 DEF w1
          <5>. QED  BY <2>4, <5>1, <5>2, <5>3, <5>4
        <4>2. CASE w = w1
          <5>1. body.kind # "terminal" /\ t \in Range(f.todo)
            BY <2>6, <2>8, <3>4, <4>2 DEF leads, body
          <5>. QED  BY <2>1, <2>2, <2>7, <4>2, <5>1
        <4>. QED  BY <2>1, <4>1, <4>2
      <3>. QED  BY <2>1, <3>1, <3>2, <3>3, <3>4 DEF Covered
    <2>. QED  BY <1>0, <2>1, <2>9, <2>10, <2>11 DEF InlineInv
  <1>6. CASE Return
    <2> DEFINE n == Len(stack)
    <2>1. /\ pass = "build" /\ stack[Len(stack)].todo = <<>> /\ Len(stack) > 1 /\ stack' = Front(stack)
          /\ loop' = loop /\ pass' = pass /\ stateCount' = stateCount /\ failed' = failed
          /\ code' = code /\ counter' = counter /\ path' = path
      BY <1>6 DEF Return, top, callers
    <2>2. PICK m \in Nat \ {0} : Len(stack) = m + 1
      <3>1. Len(stack) - 1 \in Nat \ {0} /\ Len(stack) = Len(stack) - 1 + 1
        BY <1>01, <2>1
      <3>. QED  BY <3>1
    <2>3. stack' \in Seq(Frame) /\ Len(stack') = m /\ \A i \in 1..m : stack'[i] = stack[i]
      <3>1. /\ Front(stack) \in Seq(Frame) /\ Len(Front(stack)) = m + 1 - 1
            /\ \A i \in 1..(m + 1 - 1) : Front(stack)[i] = stack[i]
        BY <1>01, <2>2, FrontElements
      <3>. QED  BY <2>1, <3>1
    <2>4. Framed(stack')
      <3>1. \A i \in 2..m : stack'[i].state \in Int
        BY <1>0, <2>2, <2>3 DEF Framed
      <3>2. \A i \in 1..m : Len(stack'[i].todo) <= spare(i)
        BY <1>0, <2>2, <2>3 DEF Framed
      <3>3. Len(stack'[m].todo) \in Nat
        BY <2>3 DEF Frame
      <3>. QED  BY <2>3, <3>1, <3>2, <3>3 DEF Framed, spare
    <2>5. Counted'
      <3>1. pending(stack') \subseteq pending(stack)
        BY <2>2, <2>3 DEF pending
      <3>2. IsFiniteSet(pending(stack)) /\ Cardinality(pending(stack)) \in Nat /\ Cardinality(pending(stack')) \in Nat
        BY <1>0, <2>4, PendingBound
      <3>3. Cardinality(pending(stack')) <= Cardinality(pending(stack))
        BY <3>1, <3>2, FS_Subset
      <3>. QED  BY <1>0, <2>1, <3>2, <3>3 DEF Counted
    <2>6. ASSUME NEW w, NEW t, waits(stack, w, t)
          PROVE  waits(stack', w, t)
      <3>1. PICK i \in 1..(m + 1) : trail(stack, i) = w /\ t \in Range(stack[i].todo)
        BY <2>2, <2>6 DEF waits
      <3>2. i # m + 1
        BY <2>1, <2>2, <3>1 DEF Range
      <3>3. i \in 1..m /\ stack'[i] = stack[i]
        BY <2>3, <3>2
      <3>4. trail(stack', i) = trail(stack, i)
        BY <2>3, <3>3 DEF trail
      <3>. QED  BY <2>3, <3>1, <3>3, <3>4 DEF waits
    <2>7. Covered'
      <3>1. /\ \A v : bodyOf(v)' = bodyOf(v)
            /\ \A w : leads(w)' = leads(w)
        BY <2>1 DEF bodyOf, leafFor, leads, normalizeState
      <3>. QED  BY <1>0, <2>1, <2>6, <3>1 DEF Covered
    <2>. QED  BY <1>0, <2>1, <2>4, <2>5, <2>7 DEF InlineInv
  <1>7. CASE Recover
    <2>1. /\ pass = "build" /\ stack[Len(stack)].todo = <<>> /\ Len(stack) = 1
          /\ (~failed /\ pass' = "run") \/ pass' = "untouched"
          /\ loop' = loop /\ stack' = stack /\ stateCount' = stateCount /\ failed' = failed
          /\ code' = code /\ counter' = counter /\ path' = path
      BY <1>7 DEF Recover, top, building
    <2>2. Framed(stack') /\ Counted' /\ Covered'
      BY <1>02, <2>1
    <2>3. current' \in leads(path)'
      BY <1>0, <2>1 DEF current, leads, normalizeState
    <2>. QED  BY <1>0, <2>1, <2>2, <2>3 DEF InlineInv
  <1>8. CASE RunInlined
    <2>1. /\ pass = "run" /\ leafFor(current) # 0 /\ path' = Append(path, current)
          /\ \/ pass' = "left" /\ counter' = counter /\ bodyOf(current).kind = "terminal"
             \/ /\ counter' \in Range(bodyOf(current).to) \cup bodyOf(current).early
                /\ pass' = pass /\ bodyOf(current).kind # "terminal"
          /\ loop' = loop /\ stack' = stack /\ stateCount' = stateCount /\ failed' = failed
          /\ code' = code
      BY <1>8 DEF RunInlined, inCode, building
    <2>2. Framed(stack') /\ Counted' /\ Covered'
      BY <1>02, <2>1
    <2>3. /\ bodyOf(current) = loop.bodies[leafFor(current)] /\ leafFor(current) \in DOMAIN loop.bodies
      BY <1>0, <2>1, InlineAssumption DEF bodyOf, leafFor
    <2>4. bodyOf(current).to \in Seq(Int) /\ bodyOf(current).early \subseteq Int
      BY <1>0, <2>3, InlineAssumption
    <2>5. counter' \in Int
      <3>1. \A raw \in Range(bodyOf(current).to) : raw \in Int
        BY <2>4 DEF Range
      <3>. QED  BY <1>0, <2>1, <2>4, <3>1
    <2>6. ASSUME pass' = "run", oneWay'
          PROVE  path' \in code \cup {<<>>} /\ current' \in leads(path)'
      <3>1. oneWay /\ bodyOf(current).early = {}
        BY <2>1, <2>3, <2>6 DEF oneWay
      <3>2. path \in code \cup {<<>>} /\ current \in leads(path) /\ ~failed
            /\ Len(stack) = 1 /\ stack[1].todo = <<>>
        BY <1>0, <2>1, <3>1
      <3>3. ~waits(stack, path, current)
        BY <3>2 DEF waits, Range
      <3>4. path' \in code
        BY <1>0, <2>1, <3>2, <3>3 DEF Covered
      <3>5. current \in Int /\ path \in Seq(Int)
        <4>1. loop.constant \in Int
          BY <1>0, InlineAssumption
        <4>2. current \in Int
          BY <1>0, <4>1 DEF current, normalizeState
        <4>3. path \in Seq(Int)
          <5>1. code \subseteq Seq(Int)
            BY <1>0 DEF Covered
          <5>2. <<>> \in Seq(Int)
            OBVIOUS
          <5>. QED  BY <3>2, <5>1, <5>2, Zenon
        <4>. QED  BY <4>2, <4>3
      <3>6. Last(path') = current /\ path' # <<>>
        <4>1. path' \in Seq(Int) /\ Len(path') = Len(path) + 1 /\ path'[Len(path) + 1] = current /\ Len(path) \in Nat
          BY <2>1, <3>5
        <4>. QED  BY <4>1, EmptySeq DEF Last
      <3>7. counter' \in Range(bodyOf(current).to) /\ bodyOf(current).kind # "terminal"
        BY <2>1, <2>6, <3>1
      <3>8. current' = normalizeState(counter')
        BY <2>1 DEF current, normalizeState
      <3>9. leads(path)' = {normalizeState(raw) : raw \in Range(bodyOf(current).to)}
        BY <2>1, <3>6, <3>7 DEF leads, bodyOf, leafFor, normalizeState
      <3>. QED  BY <3>4, <3>7, <3>8, <3>9
    <2>. QED  BY <1>0, <2>1, <2>2, <2>5, <2>6 DEF InlineInv
  <1>9. CASE InlineEnded
    BY <1>1, <1>9 DEF InlineEnded
  <1>. QED  BY <1>1, <1>3, <1>4, <1>5, <1>6, <1>7, <1>8, <1>9 DEF InlineNext, Build

(* What waits for no call is in the code, where the loop has a body too.   *)
LEMMA InlineInvHolds == InlineInv => InlinedFollowsOriginal
  <1>. SUFFICES ASSUME InlineInv
                PROVE  InlinedFollowsOriginal
    OBVIOUS
  <1>1. Framed(stack) /\ Counted /\ Covered
    BY DEF InlineInv
  <1>2. InlineTypeOK
    <2>1. functionMaxStates \in Nat /\ stateCount \in Nat /\ Cardinality(pending(stack)) \in Nat
      BY <1>1, InlineAssumption, PendingBound DEF Counted
    <2>2. stateCount <= 2 * functionMaxStates + 2
      BY <1>1, <2>1 DEF Counted
    <2>3. ASSUME NEW i \in 2..Len(stack), NEW j \in DOMAIN stack[i].todo
          PROVE  stack[i].todo[j] \in Int
      <3>1. stack[i] \in Frame
        BY <1>1 DEF Framed
      <3>2. stack[i].todo \in Seq(Int)
        BY <3>1 DEF Frame
      <3>. QED  BY <3>2
    <2>. QED  BY <1>1, <2>2, <2>3 DEF InlineTypeOK, InlineInv, Counted
  <1>3. ASSUME pass = "run", oneWay
        PROVE  leafFor(current) # 0 /\ Append(path, current) \in code
    <2>1. path \in code \cup {<<>>} /\ current \in leads(path) /\ ~failed
          /\ Len(stack) = 1 /\ stack[1].todo = <<>>
      BY <1>3 DEF InlineInv
    <2>2. ~waits(stack, path, current)
      BY <2>1 DEF waits, Range
    <2>3. Append(path, current) \in code
      BY <1>1, <2>1, <2>2 DEF Covered
    <2>4. path \in Seq(Int) /\ current \in Int
      <3>1. loop.constant \in Int /\ counter \in Int
        BY InlineAssumption DEF InlineInv
      <3>2. current \in Int
        BY <3>1 DEF current, normalizeState
      <3>3. path \in Seq(Int)
        <4>1. code \subseteq Seq(Int)
          BY <1>1 DEF Covered
        <4>2. <<>> \in Seq(Int)
          OBVIOUS
        <4>. QED  BY <2>1, <4>1, <4>2, Zenon
      <3>. QED  BY <3>2, <3>3
    <2>5. Last(Append(path, current)) = current
      BY <2>4 DEF Last
    <2>6. bodyOf(current).kind # "none"
      BY <1>1, <2>3, <2>5 DEF Covered
    <2>. QED  BY <2>3, <2>6 DEF bodyOf
  <1>. QED  BY <1>2, <1>3 DEF InlinedFollowsOriginal

(* The inlined code follows the loop, for every loop and limit.            *)
THEOREM InlinedFollowsOriginalCorrect == InlineSpec => []InlinedFollowsOriginal
  BY InlineInitInv, InlineNextInv, InlineInvHolds, PTL DEF InlineSpec

--------------------------------------------------------------------------------

at(k) == machine.branches[order[k]]

(* The branches walked follow one another.                                 *)
Chained ==
  /\ \A k \in 1..(Len(order) - 1) : at(k).tail = "assign" /\ at(k + 1).state = at(k).to
  /\ order = <<>> => stage \in {"walk", "untouched"} /\ (stage = "walk" => cur = machine.entry)
  /\ order # <<>> => eligible /\ at(1).state = machine.entry
  /\ order # <<>> /\ stage = "walk" => at(Len(order)).tail = "assign" /\ cur = at(Len(order)).to
  /\ stage \in {"walked", "run", "left", "returned"} =>
       order # <<>> /\ at(Len(order)).tail \in {"break", "return"}

(* The running program is at the next of them.                             *)
InStep ==
  /\ ran \in Seq(Branches) /\ Len(ran) <= Len(order)
  /\ \A k \in 1..Len(ran) : ran[k] = order[k]
  /\ stage = "run" => Len(ran) < Len(order) /\ var = at(Len(ran) + 1).state
  /\ stage # "run" => Len(ran) = Len(order) /\ (stage = "left" => var = at(Len(order)).state)

UnrollInv ==
  /\ UnrollTypeOK /\ machine \in Machines
  /\ Chained
  /\ stage \in {"walk", "walked"} => ran = <<>> /\ (plain => var = machine.entry)
  /\ plain /\ stage \in {"run", "left", "returned"} => InStep

(* Before the walk no branch is visited.                                   *)
LEMMA UnrollInitInv == UnrollInit => UnrollInv
  <1>. SUFFICES ASSUME UnrollInit
                PROVE  UnrollInv
    OBVIOUS
  <1>1. machine \in Machines /\ stage = "walk" /\ order = <<>> /\ ran = <<>> /\ cur = machine.entry
        /\ var \in IF machine.recomputed THEN ComputedEntries ELSE {machine.entry}
    BY DEF UnrollInit
  <1>2. UnrollTypeOK
    BY <1>1, UnrollAssumption DEF UnrollTypeOK, IsInjective
  <1>3. Chained
    BY <1>1 DEF Chained
  <1>4. plain => var = machine.entry
    BY <1>1 DEF plain
  <1>. QED  BY <1>1, <1>2, <1>3, <1>4 DEF UnrollInv

(* Every step of the walk and of the running program keeps the invariant.  *)
LEMMA UnrollNextInv == UnrollInv /\ [UnrollNext]_unrollVars => UnrollInv'
  <1>. SUFFICES ASSUME UnrollInv, [UnrollNext]_unrollVars
                PROVE  UnrollInv'
    OBVIOUS
  <1>0. /\ UnrollTypeOK /\ machine \in Machines /\ Chained
        /\ stage \in {"walk", "walked"} => ran = <<>> /\ (plain => var = machine.entry)
        /\ plain /\ stage \in {"run", "left", "returned"} => InStep
    BY DEF UnrollInv
  <1>1. ASSUME UNCHANGED unrollVars
        PROVE  UnrollInv'
    BY <1>0, <1>1 DEF UnrollInv, unrollVars, UnrollTypeOK, Chained, InStep, plain, eligible, at, Branches
  <1>2. CASE Refuse
    BY <1>0, <1>2 DEF Refuse, UnrollInv, UnrollTypeOK, Chained, at, Branches, eligible, plain
  <1>3. CASE Splice
    <2>1. UnrollTypeOK' /\ machine' \in Machines
      BY <1>0, <1>3 DEF Splice, UnrollTypeOK, Branches
    <2>2. Chained'
      BY <1>0, <1>3 DEF Splice, Chained, at, Branches, eligible
    <2>3. plain' /\ stage' = "run" => InStep'
      <3>1. order \in Seq(Branches) /\ order # <<>>
        BY <1>0, <1>3 DEF Splice, UnrollTypeOK, Chained
      <3>2. Len(order) > 0 /\ Len(order) \in Nat
        BY <3>1, EmptySeq
      <3>3. ran = <<>> /\ (plain => var = at(1).state)
        BY <1>0, <1>3, <3>1 DEF Splice, Chained
      <3>. QED  BY <1>3, <3>2, <3>3 DEF Splice, InStep, plain, at, Branches
    <2>4. stage' \in {"run", "untouched"}
      BY <1>3 DEF Splice
    <2>. QED  BY <2>1, <2>2, <2>3, <2>4 DEF UnrollInv
  <1>4. ASSUME NEW b \in Branches, Walk(b)
        PROVE  UnrollInv'
    <2>0. PICK n \in Nat : n = Len(order)
      BY <1>0 DEF UnrollTypeOK
    <2>1. /\ stage = "walk" /\ eligible /\ b \in byState(cur) /\ b \notin Range(order)
          /\ order' = Append(order, b) /\ machine' = machine /\ var' = var /\ ran' = ran
          /\ IF machine.branches[b].tail = "assign"
             THEN cur' = machine.branches[b].to /\ stage' = stage
             ELSE stage' = "walked" /\ cur' = cur
      BY <1>4 DEF Walk
    <2>2. order \in Seq(Branches) /\ n = Len(order) /\ n \in Nat /\ \A k \in 1..n : order[k] \in Branches
      BY <1>0, <2>0 DEF UnrollTypeOK
    <2>3. Len(order') = n + 1 /\ order'[n + 1] = b /\ \A k \in 1..n : order'[k] = order[k]
      BY <2>1, <2>2
    <2>4. UnrollTypeOK'
      <3>1. order' \in Seq(Branches)' /\ DOMAIN order' = 1..(n + 1)
        BY <2>1, <2>2, <2>3 DEF Branches
      <3>2. IsInjective(order')
        <4>1. \A k, l \in 1..n : order[k] = order[l] => k = l
          BY <1>0, <2>2 DEF UnrollTypeOK, IsInjective
        <4>2. \A k \in 1..n : order[k] # b
          BY <2>1, <2>2 DEF Range
        <4>3. ASSUME NEW k \in 1..(n + 1), NEW l \in 1..(n + 1), order'[k] = order'[l]
              PROVE  k = l
          BY <2>2, <2>3, <4>1, <4>2, <4>3
        <4>. QED  BY <3>1, <4>3 DEF IsInjective
      <3>3. cur' \in Int
        BY <1>0, <2>1, UnrollAssumption DEF UnrollTypeOK, Branches
      <3>. QED  BY <1>0, <2>1, <3>1, <3>2, <3>3 DEF UnrollTypeOK
    <2>5. machine.branches[b].state = cur
      BY <2>1 DEF byState
    <2>6. Chained'
      <3>1. ASSUME NEW k \in 1..n
            PROVE  at(k).tail = "assign" /\ at(k)' = at(k)
        BY <1>0, <2>1, <2>2, <2>3 DEF Chained, at
      <3>2. at(n + 1)' = machine.branches[b]
        BY <2>1, <2>3 DEF at
      <3>3. ASSUME NEW k \in 1..n
            PROVE  at(k + 1)'.state = at(k).to
        <4>1. CASE k = n
          BY <1>0, <2>1, <2>2, <2>5, <3>2, <4>1, EmptySeq DEF Chained
        <4>2. CASE k # n
          BY <1>0, <2>2, <3>1, <4>2 DEF Chained
        <4>. QED  BY <4>1, <4>2
      <3>4. at(1)'.state = machine.entry
        <4>1. CASE n = 0
          <5>1. order = <<>>
            BY <2>2, <4>1, EmptySeq
          <5>2. at(1)' = machine.branches[b]
            BY <2>1, <2>3, <4>1 DEF at
          <5>. QED  BY <1>0, <2>1, <2>5, <5>1, <5>2 DEF Chained
        <4>2. CASE n # 0
          BY <1>0, <2>2, <3>1, <4>2, EmptySeq DEF Chained
        <4>. QED  BY <4>1, <4>2
      <3>5. eligible' /\ order' # <<>>
        BY <2>1, <2>2, <2>3 DEF eligible, Branches
      <3>6. stage' = "walk" => at(n + 1)'.tail = "assign" /\ cur' = at(n + 1)'.to
        BY <2>1, <3>2
      <3>7. machine.branches[b].tail \in {"assign", "break", "return"}
        BY <1>0, <2>1, UnrollAssumption DEF eligible, Branches
      <3>8. stage' # "walk" => stage' = "walked" /\ at(n + 1)'.tail \in {"break", "return"}
        BY <2>1, <3>2, <3>7
      <3>. QED  BY <2>1, <2>2, <2>3, <3>1, <3>3, <3>4, <3>5, <3>6, <3>8 DEF Chained
    <2>. QED  BY <1>0, <2>1, <2>4, <2>6 DEF UnrollInv, plain, Branches
  <1>5. ASSUME NEW b \in Branches, RunBranch(b)
        PROVE  UnrollInv'
    <2>1. /\ stage = "run" /\ b \in reached /\ ran' = Append(ran, b)
          /\ machine' = machine /\ cur' = cur /\ order' = order
          /\ \/ machine.branches[b].tail = "assign" /\ var' = machine.branches[b].to /\ stage' = stage
             \/ machine.branches[b].tail = "return" /\ stage' = "returned" /\ var' = var
             \/ /\ machine.branches[b].tail = "break" \/ machine.branches[b].early
                /\ stage' = "left" /\ var' = var
      BY <1>5 DEF RunBranch
    <2>2. UnrollTypeOK'
      BY <1>0, <2>1, UnrollAssumption DEF UnrollTypeOK, Branches
    <2>3. Chained'
      BY <1>0, <2>1 DEF Chained, at, eligible, Branches
    <2>4. ASSUME plain
          PROVE  InStep'
      <3> DEFINE m == Len(ran)
                 n == Len(order)
      <3>1. /\ ran \in Seq(Branches) /\ m \in Nat /\ n \in Nat /\ m < n
            /\ \A k \in 1..m : ran[k] = order[k]
            /\ var = at(m + 1).state
        BY <1>0, <2>1, <2>4 DEF InStep, UnrollTypeOK
      <3>2. order[m + 1] \in Branches /\ eligible
        BY <1>0, <2>1, <3>1 DEF UnrollTypeOK, Chained
      <3>3. b = order[m + 1]
        <4>1. machine.branches[b].state = var
          BY <2>1, <2>4 DEF reached, matches, plain
        <4>. QED  BY <3>1, <3>2, <4>1 DEF eligible, at
      <3>4. Len(ran') = m + 1 /\ ran' \in Seq(Branches) /\ \A k \in 1..(m + 1) : ran'[k] = order[k]
        BY <2>1, <3>1, <3>3
      <3>5. /\ m + 1 < n => machine.branches[b].tail = "assign" /\ at(m + 2).state = machine.branches[b].to
            /\ m + 1 = n => machine.branches[b].tail \in {"break", "return"}
        BY <1>0, <2>1, <3>1, <3>3 DEF Chained, at
      <3>6. ~machine.branches[b].early
        BY <2>4 DEF plain
      <3>. QED  BY <2>1, <3>1, <3>3, <3>4, <3>5, <3>6 DEF InStep, at, Branches
    <2>. QED  BY <1>0, <2>1, <2>2, <2>3, <2>4 DEF UnrollInv, plain, Branches
  <1>6. CASE UnrollEnded
    BY <1>1, <1>6 DEF UnrollEnded
  <1>. QED  BY <1>1, <1>2, <1>3, <1>4, <1>5, <1>6 DEF UnrollNext, Unroll

(* The next branch of the straight code is the one the loop reaches.       *)
LEMMA UnrollInvHolds == UnrollInv => UnrolledFollowsOriginal
  <1>. SUFFICES ASSUME UnrollInv
                PROVE  UnrolledFollowsOriginal
    OBVIOUS
  <1>1. UnrollTypeOK /\ Chained
    BY DEF UnrollInv
  <1>2. ASSUME plain, stage \in {"run", "left", "returned"}
        PROVE  /\ IsPrefix(ran, order)
               /\ stage = "run" => reached # {} /\ Len(ran) < Len(order)
               /\ stage # "run" => ran = order
               /\ stage = "left" => var = finalValue
    <2> DEFINE m == Len(ran)
               n == Len(order)
    <2>1. /\ ran \in Seq(Branches) /\ order \in Seq(Branches) /\ m \in Nat /\ n \in Nat
          /\ m <= n /\ \A k \in 1..m : ran[k] = order[k]
      BY <1>1, <1>2 DEF UnrollInv, InStep, UnrollTypeOK
    <2>2. IsPrefix(ran, order)
      BY <2>1 DEF IsPrefix
    <2>3. ASSUME stage = "run"
          PROVE  reached # {} /\ m < n
      <3>1. m < n /\ var = at(m + 1).state
        BY <1>2, <2>3 DEF UnrollInv, InStep
      <3>2. order[m + 1] \in Branches /\ eligible
        BY <1>1, <2>1, <2>3, <3>1 DEF Chained
      <3>3. order[m + 1] \in Nat /\ Branches = 1..Len(machine.branches)
        BY <3>2, UnrollAssumption DEF UnrollInv, Branches
      <3>4. ASSUME NEW c \in 1..(order[m + 1] - 1)
            PROVE  ~matches(c)
        BY <1>2, <3>1, <3>2, <3>3, <3>4 DEF plain, eligible, matches, at
      <3>5. matches(order[m + 1])
        BY <3>1 DEF matches, at
      <3>. QED  BY <3>1, <3>2, <3>4, <3>5 DEF reached
    <2>4. ASSUME stage # "run"
          PROVE  ran = order /\ (stage = "left" => var = finalValue)
      <3>1. m = n /\ (stage = "left" => var = at(n).state)
        BY <1>2, <2>4 DEF UnrollInv, InStep
      <3>2. ran = order
        BY <2>1, <3>1, SeqEqual
      <3>3. order # <<>>
        BY <1>1, <1>2 DEF Chained
      <3>. QED  BY <3>1, <3>2, <3>3 DEF finalValue, at, Last
    <2>. QED  BY <2>2, <2>3, <2>4
  <1>. QED  BY <1>1, <1>2 DEF UnrolledFollowsOriginal

(* The straight code follows the loop, for all machines of branches.       *)
THEOREM UnrolledFollowsOriginalCorrect == UnrollSpec => []UnrolledFollowsOriginal
  BY UnrollInitInv, UnrollNextInv, UnrollInvHolds, PTL DEF UnrollSpec

--------------------------------------------------------------------------------

(* What is known of a tree.                                                *)
LEMMA TreeShape ==
  ASSUME NEW t \in Trees
  PROVE  /\ Len(t) \in Nat /\ DOMAIN t = 1..Len(t)
         /\ \A m \in DOMAIN t : t[m].value \in Int /\ t[m].then \in Int /\ t[m].else \in Int
         /\ \A m \in DOMAIN t : \A a \in arms(t, m) : a > 0 => a \in DOMAIN t /\ m < a
         /\ \A m \in DOMAIN t : parses(t, m) => t[m].then # t[m].else
         /\ \A m, k \in DOMAIN t : \A a \in arms(t, m) : a \in arms(t, k) /\ a # 0 => m = k
  <1>1. /\ t \in Seq([var : STRING, op : STRING, value : Int, then : Int, else : Int])
        /\ \A m \in DOMAIN t :
             /\ \A a \in {t[m].then, t[m].else} : a > 0 => a \in DOMAIN t /\ m < a
             /\ t[m].then = t[m].else => t[m].then = 0
        /\ \A m, k \in DOMAIN t :
             m # k => {t[m].then, t[m].else} \cap {t[k].then, t[k].else} \subseteq {0}
    BY BinaryTreeAssumption
  <1> DEFINE Node == [var : STRING, op : STRING, value : Int, then : Int, else : Int]
  <1>2. t \in Seq(Node)
    BY <1>1
  <1>3. Len(t) \in Nat /\ DOMAIN t = 1..Len(t) /\ \A m \in DOMAIN t : t[m] \in Node
    <2> HIDE DEF Node
    <2>. QED  BY <1>2
  <1>4. \A m \in DOMAIN t : t[m].value \in Int /\ t[m].then \in Int /\ t[m].else \in Int
    BY <1>3
  <1>5. \A m \in DOMAIN t : \A a \in arms(t, m) : a > 0 => a \in DOMAIN t /\ m < a
    BY <1>1 DEF arms
  <1>6. \A m \in DOMAIN t : parses(t, m) => t[m].then # t[m].else
    BY <1>1 DEF arms, parses
  <1>7. \A m, k \in DOMAIN t : \A a \in arms(t, m) : a \in arms(t, k) /\ a # 0 => m = k
    BY <1>1 DEF arms
  <1>. QED  BY <1>3, <1>4, <1>5, <1>6, <1>7

(* An arm that is a tree stands behind the node it is an arm of.           *)
LEMMA ParsedArm ==
  ASSUME NEW t \in Trees, NEW m \in DOMAIN t, NEW a \in arms(t, m), parses(t, a)
  PROVE  a \in (m + 1)..Len(t) /\ a \in DOMAIN t
  BY TreeShape DEF parses

(* The nodes under a node are itself and those under its arms.             *)
LEMMA NodesUnder ==
  ASSUME NEW t \in Trees
  PROVE  /\ nodesUnder(t) \in [DOMAIN t -> SUBSET DOMAIN t]
         /\ \A m \in DOMAIN t :
              nodesUnder(t)[m] =
                {m} \cup UNION {nodesUnder(t)[a] : a \in {a \in arms(t, m) : parses(t, a)}}
  <1>1. PICK n \in Nat : DOMAIN t = 1..n /\ n = Len(t)
    BY TreeShape
  <1> DEFINE V == SUBSET DOMAIN t
             trees(m) == {a \in arms(t, m) : parses(t, a)}
             G == [p \in (1..n) \X [1..n -> V] |->
                     {p[1]} \cup UNION {p[2][a] : a \in trees(p[1])}]
  <1>2. \A m \in DOMAIN t : \A a \in trees(m) : a \in (m + 1)..n /\ a \in DOMAIN t
    BY <1>1, ParsedArm
  <1>3. \A p \in (1..n) \X [1..n -> V] : p[1] \in DOMAIN t /\ p[2] \in [1..n -> V]
    BY <1>1
  <1> HIDE DEF trees
  <1>4. G \in [(1..n) \X [1..n -> V] -> V]
    BY <1>1, <1>2, <1>3
  <1>5. \A m \in 1..n, f \in [1..n -> V] :
          G[<<m, f>>] = {m} \cup UNION {f[a] : a \in trees(m)}
    OBVIOUS
  <1> HIDE DEF G
  <1>6. ASSUME NEW m \in 1..n, NEW f \in [1..n -> V], NEW g \in [1..n -> V],
               \A c \in (m + 1)..n : f[c] = g[c]
        PROVE  G[<<m, f>>] = G[<<m, g>>]
    <2>1. \A a \in trees(m) : f[a] = g[a]
      BY <1>1, <1>2, <1>6
    <2>2. {f[a] : a \in trees(m)} = {g[a] : a \in trees(m)}
      BY <2>1
    <2>. QED  BY <1>5, <2>2
  <1>7. PICK f \in [1..n -> V] : DefinedBy(f, n, G)
    <2>1. V # {}
      OBVIOUS
    <2> HIDE DEF V
    <2>2. ReadsBehind(n, V, G)
      BY <1>6 DEF ReadsBehind
    <2>. QED  BY <1>4, <2>1, <2>2, DefinedFromBehind
  <1>8. f = [m \in DOMAIN t |-> {m} \cup UNION {f[a] : a \in trees(m)}]
    <2>1. \A m \in 1..n : f[m] = {m} \cup UNION {f[a] : a \in trees(m)}
      BY <1>5, <1>7 DEF DefinedBy
    <2> HIDE DEF V
    <2>. QED  BY <1>1, <2>1
  <1>9. nodesUnder(t) = [m \in DOMAIN t |-> {m} \cup UNION {nodesUnder(t)[a] : a \in trees(m)}]
    BY <1>8 DEF nodesUnder, trees
  <1>10. \A m \in DOMAIN t : nodesUnder(t)[m] = {m} \cup UNION {nodesUnder(t)[a] : a \in trees(m)}
    BY <1>9
  <1> DEFINE S == {m \in 1..n : nodesUnder(t)[m] \in V}
  <1>11. \A m \in 1..n : m \in S
    <2>1. ASSUME NEW m \in 1..n, \A k \in (m + 1)..n : k \in S
          PROVE  m \in S
      <3>1. \A a \in trees(m) : nodesUnder(t)[a] \in V
        BY <1>1, <1>2, <2>1
      <3>. QED  BY <1>1, <1>10, <3>1
    <2> HIDE DEF S
    <2>. QED  BY <1>1, <2>1, FromBehind
  <1>12. nodesUnder(t) \in [DOMAIN t -> V]
    BY <1>1, <1>9, <1>11
  <1>. QED  BY <1>10, <1>12 DEF trees

(* A node stands before those under it, which are trees, each an arm of    *)
(* another.                                                                *)
LEMMA UnderNode ==
  ASSUME NEW t \in Trees, NEW m \in DOMAIN t
  PROVE  /\ m \in nodesUnder(t)[m]
         /\ \A k \in nodesUnder(t)[m] : k \in DOMAIN t /\ m <= k
         /\ \A k \in nodesUnder(t)[m] : k # m =>
              parses(t, k) /\ \E p \in nodesUnder(t)[m] : k \in arms(t, p) /\ p < k
  <1> DEFINE under == nodesUnder(t)
             sound(i) == /\ i \in under[i]
                         /\ \A k \in under[i] : k \in DOMAIN t /\ i <= k
                         /\ \A k \in under[i] : k # i =>
                              parses(t, k) /\ \E p \in under[i] : k \in arms(t, p) /\ p < k
             S == {i \in 1..Len(t) : sound(i)}
  <1>1. PICK n \in Nat : DOMAIN t = 1..n /\ n = Len(t)
    BY TreeShape
  <1>2. \A i \in 1..n : under[i] = {i} \cup UNION {under[a] : a \in {a \in arms(t, i) : parses(t, a)}}
    BY <1>1, NodesUnder
  <1>3. \A i \in 1..n : \A a \in arms(t, i) : parses(t, a) => a \in (i + 1)..n
    BY <1>1, ParsedArm
  <1>4. ASSUME NEW i \in 1..n, \A k \in (i + 1)..n : k \in S
        PROVE  i \in S
    <2> HIDE DEF under
    <2>1. i \in under[i]
      BY <1>2
    <2>2. \A a \in arms(t, i) : parses(t, a) => a \in (i + 1)..n /\ sound(a) /\ under[a] \subseteq under[i]
      BY <1>1, <1>2, <1>3, <1>4
    <2>3. ASSUME NEW k \in under[i], k # i
          PROVE  k \in DOMAIN t /\ i <= k /\ parses(t, k) /\ \E p \in under[i] : k \in arms(t, p) /\ p < k
      <3>1. PICK a \in arms(t, i) : parses(t, a) /\ k \in under[a]
        BY <1>2, <2>3
      <3>2. a \in (i + 1)..n /\ sound(a) /\ under[a] \subseteq under[i]
        BY <2>2, <3>1
      <3>3. k \in DOMAIN t /\ i <= k
        BY <1>1, <3>1, <3>2
      <3>4. CASE k = a
        BY <2>1, <3>1, <3>2, <3>3, <3>4
      <3>5. CASE k # a
        BY <3>1, <3>2, <3>3, <3>5
      <3>. QED  BY <3>4, <3>5
    <2>4. i \in DOMAIN t /\ i <= i
      BY <1>1
    <2>. QED  BY <1>1, <2>1, <2>3, <2>4
  <1>5. \A i \in 1..n : i \in S
    <2> HIDE DEF S
    <2>. QED  BY <1>4, FromBehind
  <1>. QED  BY <1>1, <1>5

(* No node is under both arms of another.                                  *)
LEMMA ApartUnder ==
  ASSUME NEW t \in Trees, NEW m \in DOMAIN t, parses(t, m),
         parses(t, t[m].then), parses(t, t[m].else)
  PROVE  nodesUnder(t)[t[m].then] \cap nodesUnder(t)[t[m].else] = {}
  <1> DEFINE a == t[m].then
             b == t[m].else
             U == nodesUnder(t)[a]
             W == nodesUnder(t)[b]
  <1>1. a \in DOMAIN t /\ b \in DOMAIN t /\ a > m /\ b > m /\ a # b /\ m \in Nat
    <2>1. a \in arms(t, m) /\ b \in arms(t, m)
      BY DEF arms
    <2>. QED  BY <2>1, TreeShape DEF parses
  <1>2. SUFFICES ASSUME U \cap W # {}
                 PROVE  FALSE
    OBVIOUS
  <1>3. DOMAIN t \subseteq Nat
    BY TreeShape
  <1>4. \A k \in U : k \in DOMAIN t /\ a <= k /\ (k # a => \E p \in U : k \in arms(t, p) /\ p < k)
    BY <1>1, UnderNode
  <1>5. \A k \in W : k \in DOMAIN t /\ b <= k /\ (k # b => \E p \in W : k \in arms(t, p) /\ p < k)
    BY <1>1, UnderNode
  <1>6. a \in arms(t, m) /\ b \in arms(t, m)
    BY DEF arms
  <1> HIDE DEF a, b, U, W
  <1>7. \A p, q \in DOMAIN t, k \in DOMAIN t : k \in arms(t, p) /\ k \in arms(t, q) => p = q
    BY <1>3, TreeShape
  <1>8. PICK k \in U \cap W : \A j \in U \cap W : k <= j
    <2>1. U \cap W \in SUBSET Nat
      BY <1>3, <1>4
    <2>. QED  BY <1>2, <2>1, Least, Zenon
  <1>9. CASE k = a
    <2>1. PICK p \in W : k \in arms(t, p) /\ p < k
      BY <1>1, <1>5, <1>8, <1>9
    <2>2. p = m
      BY <1>1, <1>5, <1>6, <1>7, <1>9, <2>1
    <2>. QED  BY <1>1, <1>3, <1>5, <2>1, <2>2
  <1>10. CASE k = b
    <2>1. PICK p \in U : k \in arms(t, p) /\ p < k
      BY <1>1, <1>4, <1>8, <1>10
    <2>2. p = m
      BY <1>1, <1>4, <1>6, <1>7, <1>10, <2>1
    <2>. QED  BY <1>1, <1>3, <1>4, <2>1, <2>2
  <1>11. CASE k # a /\ k # b
    <2>1. PICK p \in U : k \in arms(t, p) /\ p < k
      BY <1>4, <1>8, <1>11
    <2>2. PICK q \in W : k \in arms(t, q) /\ q < k
      BY <1>5, <1>8, <1>11
    <2>3. p = q
      BY <1>4, <1>5, <1>7, <1>8, <2>1, <2>2
    <2>4. p \in U \cap W /\ k \in Nat /\ p \in Nat
      BY <1>3, <1>4, <1>8, <2>3
    <2>. QED  BY <1>8, <2>1, <2>4
  <1>. QED  BY <1>9, <1>10, <1>11

(* A value is led to the arm of the node it takes, or what that leads to.  *)
LEMMA LeafReached ==
  ASSUME NEW t \in Trees, NEW m \in DOMAIN t, NEW v \in Values
  PROVE  leafOf(t)[m][v] = IF parses(t, armTaken(t[m], v)) THEN leafOf(t)[armTaken(t[m], v)][v]
                           ELSE armTaken(t[m], v)
  <1> DEFINE V == [Values -> Int]
             goes(i, w) == armTaken(t[i], w)
             G == [p \in (1..Len(t)) \X [1..Len(t) -> V] |->
                     [w \in Values |-> IF parses(t, goes(p[1], w)) THEN p[2][goes(p[1], w)][w]
                                       ELSE goes(p[1], w)]]
  <1>1. PICK n \in Nat : DOMAIN t = 1..n /\ n = Len(t)
    BY TreeShape
  <1>2. \A i \in 1..n, w \in Values : goes(i, w) \in Int
    BY <1>1, TreeShape DEF armTaken
  <1>3. \A i \in 1..n, w \in Values : parses(t, goes(i, w)) => goes(i, w) \in (i + 1)..n
    <2>1. \A i \in 1..n, w \in Values : goes(i, w) \in arms(t, i)
      BY DEF armTaken, arms
    <2> HIDE DEF goes
    <2>. QED  BY <1>1, <2>1, ParsedArm
  <1> HIDE DEF goes
  <1>4. \A i \in 1..n, f \in [1..n -> V] :
          G[<<i, f>>] = [w \in Values |-> IF parses(t, goes(i, w)) THEN f[goes(i, w)][w] ELSE goes(i, w)]
    BY <1>1
  <1>5. G \in [(1..n) \X [1..n -> V] -> V]
    <2>1. \A i \in 1..n, f \in [1..n -> V] :
            [w \in Values |-> IF parses(t, goes(i, w)) THEN f[goes(i, w)][w] ELSE goes(i, w)] \in V
      <3> SUFFICES ASSUME NEW i \in 1..n, NEW f \in [1..n -> V], NEW w \in Values
                   PROVE  (IF parses(t, goes(i, w)) THEN f[goes(i, w)][w] ELSE goes(i, w)) \in Int
        OBVIOUS
      <3>1. CASE parses(t, goes(i, w))
        <4>1. goes(i, w) \in 1..n
          BY <1>3, <3>1
        <4>2. f[goes(i, w)] \in V
          BY <4>1
        <4>. QED  BY <3>1, <4>2
      <3>2. CASE ~parses(t, goes(i, w))
        BY <1>2, <3>2
      <3>. QED  BY <3>1, <3>2
    <2>2. \A p \in (1..n) \X [1..n -> V] : p[1] \in 1..n /\ p[2] \in [1..n -> V]
      OBVIOUS
    <2> HIDE DEF V
    <2>. QED  BY <1>1, <2>1, <2>2
  <1> HIDE DEF G
  <1>6. ReadsBehind(n, V, G)
    <2> SUFFICES ASSUME NEW i \in 1..n, NEW f \in [1..n -> V], NEW g \in [1..n -> V],
                        \A c \in (i + 1)..n : f[c] = g[c]
                 PROVE  G[<<i, f>>] = G[<<i, g>>]
      <3> HIDE DEF V
      <3>. QED  BY DEF ReadsBehind
    <2>1. \A w \in Values : (IF parses(t, goes(i, w)) THEN f[goes(i, w)][w] ELSE goes(i, w))
                            = (IF parses(t, goes(i, w)) THEN g[goes(i, w)][w] ELSE goes(i, w))
      BY <1>3
    <2>2. [w \in Values |-> IF parses(t, goes(i, w)) THEN f[goes(i, w)][w] ELSE goes(i, w)]
          = [w \in Values |-> IF parses(t, goes(i, w)) THEN g[goes(i, w)][w] ELSE goes(i, w)]
      BY <2>1
    <2> HIDE DEF V
    <2>3. /\ G[<<i, f>>] = [w \in Values |-> IF parses(t, goes(i, w)) THEN f[goes(i, w)][w] ELSE goes(i, w)]
          /\ G[<<i, g>>] = [w \in Values |-> IF parses(t, goes(i, w)) THEN g[goes(i, w)][w] ELSE goes(i, w)]
      BY <1>4
    <2>. QED  BY <2>2, <2>3
  <1>7. PICK f \in [1..n -> V] : DefinedBy(f, n, G)
    <2>1. V # {}
      <3>1. [w \in Values |-> 0] \in V
        OBVIOUS
      <3>. QED  BY <3>1
    <2> HIDE DEF V
    <2>. QED  BY <1>5, <1>6, <2>1, DefinedFromBehind
  <1>8. f = [i \in DOMAIN t |->
              [w \in Values |-> IF parses(t, goes(i, w)) THEN f[goes(i, w)][w] ELSE goes(i, w)]]
    <2>1. \A i \in 1..n : f[i] =
            [w \in Values |-> IF parses(t, goes(i, w)) THEN f[goes(i, w)][w] ELSE goes(i, w)]
      BY <1>4, <1>7 DEF DefinedBy
    <2> HIDE DEF V
    <2>. QED  BY <1>1, <2>1
  <1>9. leafOf(t) = [i \in DOMAIN t |->
          [w \in Values |-> IF parses(t, goes(i, w)) THEN leafOf(t)[goes(i, w)][w] ELSE goes(i, w)]]
    BY <1>8 DEF leafOf, goes
  <1>10. leafOf(t)[m] =
           [w \in Values |-> IF parses(t, goes(m, w)) THEN leafOf(t)[goes(m, w)][w] ELSE goes(m, w)]
    BY <1>9
  <1>. QED  BY <1>10 DEF goes

(* The ranges that may be given to an arm, and what becomes of them.       *)
Leaves(t) == [to : Int, lower : Ends(t), upper : Ends(t)]

side(t, a, ends) ==
  IF parses(t, a) THEN resolveRange(t)[a][ends]
  ELSE <<[to |-> a, lower |-> ends[1], upper |-> ends[2]]>>

(* The two arms are given ends that stand in the tree.                     *)
LEMMA SplitEnds ==
  ASSUME NEW t \in Trees, NEW m \in DOMAIN t, NEW ends \in Ends(t) \X Ends(t)
  PROVE  /\ splitRange(t[m], ends).then \in Ends(t) \X Ends(t)
         /\ splitRange(t[m], ends).else \in Ends(t) \X Ends(t)
  <1>1. <<t[m].value>> \in Ends(t)
    BY DEF Ends
  <1>2. ends[1] \in Ends(t) /\ ends[2] \in Ends(t)
    OBVIOUS
  <1>. QED  BY <1>1, <1>2 DEF splitRange

(* The leaves under a node are those under its arms, in this order.        *)
LEMMA RangesResolved ==
  ASSUME NEW t \in Trees, NEW m \in DOMAIN t, NEW ends \in Ends(t) \X Ends(t)
  PROVE  /\ resolveRange(t)[m][ends] \in Seq(Leaves(t))
         /\ resolveRange(t)[m][ends] =
              side(t, t[m].then, splitRange(t[m], ends).then)
              \o side(t, t[m].else, splitRange(t[m], ends).else)
  <1> DEFINE E == Ends(t) \X Ends(t)
             V == [E -> Seq(Leaves(t))]
             part(f, a, e) == IF parses(t, a) THEN f[a][e]
                              ELSE <<[to |-> a, lower |-> e[1], upper |-> e[2]]>>
             parts(f, i, e) == part(f, t[i].then, splitRange(t[i], e).then)
                               \o part(f, t[i].else, splitRange(t[i], e).else)
             G == [p \in (1..Len(t)) \X [1..Len(t) -> V] |-> [e \in E |-> parts(p[2], p[1], e)]]
  <1>1. PICK n \in Nat : DOMAIN t = 1..n /\ n = Len(t)
    BY TreeShape
  <1>2. \A i \in 1..n, e \in E : splitRange(t[i], e).then \in E /\ splitRange(t[i], e).else \in E
    BY <1>1, SplitEnds
  <1>3. \A i \in 1..n : \A a \in {t[i].then, t[i].else} :
          a \in Int /\ (parses(t, a) => a \in (i + 1)..n)
    <2>1. \A i \in 1..n : t[i].then \in arms(t, i) /\ t[i].else \in arms(t, i)
      BY DEF arms
    <2>. QED  BY <1>1, <2>1, ParsedArm, TreeShape
  <1>4. \A i \in 1..n, f \in [1..n -> V] : \A a \in {t[i].then, t[i].else} : \A e \in E :
          part(f, a, e) \in Seq(Leaves(t))
    <2> SUFFICES ASSUME NEW i \in 1..n, NEW f \in [1..n -> V], NEW a \in {t[i].then, t[i].else}, NEW e \in E
                 PROVE  part(f, a, e) \in Seq(Leaves(t))
      OBVIOUS
    <2>1. CASE parses(t, a)
      <3>1. a \in 1..n
        <4> HIDE DEF V, E
        <4>1. a \in (i + 1)..n
          BY <1>3, <2>1
        <4>. QED  BY <4>1
      <3>2. f[a] \in V
        <4> HIDE DEF V
        <4>. QED  BY <3>1
      <3>. QED  BY <2>1, <3>2
    <2>2. CASE ~parses(t, a)
      <3>1. [to |-> a, lower |-> e[1], upper |-> e[2]] \in Leaves(t)
        BY <1>3 DEF Leaves
      <3>. QED  BY <2>2, <3>1
    <2>. QED  BY <2>1, <2>2
  <1>5. \A i \in 1..n, f \in [1..n -> V], e \in E : parts(f, i, e) \in Seq(Leaves(t))
    <2> SUFFICES ASSUME NEW i \in 1..n, NEW f \in [1..n -> V], NEW e \in E
                 PROVE  parts(f, i, e) \in Seq(Leaves(t))
      OBVIOUS
    <2>1. part(f, t[i].then, splitRange(t[i], e).then) \in Seq(Leaves(t))
      <3> HIDE DEF part, V, E
      <3>. QED  BY <1>2, <1>4
    <2>2. part(f, t[i].else, splitRange(t[i], e).else) \in Seq(Leaves(t))
      <3> HIDE DEF part, V, E
      <3>. QED  BY <1>2, <1>4
    <2> HIDE DEF part
    <2>. QED  BY <2>1, <2>2
  <1>6. ASSUME NEW i \in 1..n, NEW f \in [1..n -> V], NEW g \in [1..n -> V],
               \A c \in (i + 1)..n : f[c] = g[c]
        PROVE  [e \in E |-> parts(f, i, e)] = [e \in E |-> parts(g, i, e)]
    <2>1. ASSUME NEW a \in {t[i].then, t[i].else}, NEW e
          PROVE  part(f, a, e) = part(g, a, e)
      <3>1. parses(t, a) => f[a] = g[a]
        BY <1>3, <1>6
      <3>. QED  BY <3>1
    <2> HIDE DEF part
    <2>2. \A e \in E : parts(f, i, e) = parts(g, i, e)
      BY <2>1
    <2> HIDE DEF parts
    <2>. QED  BY <2>2
  <1> HIDE DEF parts
  <1>7. \A i \in 1..n, f \in [1..n -> V] : G[<<i, f>>] = [e \in E |-> parts(f, i, e)]
    <2> HIDE DEF V, E
    <2>. QED  BY <1>1
  <1>8. G \in [(1..n) \X [1..n -> V] -> V]
    <2>1. \A i \in 1..n, f \in [1..n -> V] : [e \in E |-> parts(f, i, e)] \in V
      <3> HIDE DEF E
      <3>. QED  BY <1>5
    <2>2. \A p \in (1..n) \X [1..n -> V] : p[1] \in 1..n /\ p[2] \in [1..n -> V]
      OBVIOUS
    <2> HIDE DEF V, E
    <2>. QED  BY <1>1, <2>1, <2>2
  <1> HIDE DEF G
  <1>9. ReadsBehind(n, V, G)
    <2> HIDE DEF V, E
    <2>1. ASSUME NEW i \in 1..n, NEW f \in [1..n -> V], NEW g \in [1..n -> V],
                 \A c \in (i + 1)..n : f[c] = g[c]
          PROVE  G[<<i, f>>] = G[<<i, g>>]
      <3>1. G[<<i, f>>] = [e \in E |-> parts(f, i, e)] /\ G[<<i, g>>] = [e \in E |-> parts(g, i, e)]
        BY <1>7
      <3>2. [e \in E |-> parts(f, i, e)] = [e \in E |-> parts(g, i, e)]
        BY <1>6, <2>1
      <3>. QED  BY <3>1, <3>2
    <2>. QED  BY <2>1 DEF ReadsBehind
  <1>10. PICK f \in [1..n -> V] : DefinedBy(f, n, G)
    <2>1. V # {}
      <3>1. <<>> \in Seq(Leaves(t))
        OBVIOUS
      <3>2. [e \in E |-> <<>>] \in V
        BY <3>1
      <3>. QED  BY <3>2
    <2> HIDE DEF V
    <2>. QED  BY <1>8, <1>9, <2>1, DefinedFromBehind
  <1>11. f = [i \in DOMAIN t |-> [e \in E |-> parts(f, i, e)]]
    <2> HIDE DEF V, E
    <2>1. \A i \in 1..n : f[i] = [e \in E |-> parts(f, i, e)]
      BY <1>7, <1>10 DEF DefinedBy
    <2>. QED  BY <1>1, <2>1
  <1>12. resolveRange(t) = [i \in DOMAIN t |-> [e \in E |-> parts(resolveRange(t), i, e)]]
    BY <1>11 DEF resolveRange, parts
  <1>13. \A i \in 1..n, e \in E : resolveRange(t)[i][e] = parts(resolveRange(t), i, e)
    <2> HIDE DEF E
    <2>1. \A i \in 1..n : resolveRange(t)[i] = [e \in E |-> parts(resolveRange(t), i, e)]
      BY <1>1, <1>12
    <2>. QED  BY <2>1
  <1>14. \A i \in 1..n, e \in E :
           parts(resolveRange(t), i, e) =
             side(t, t[i].then, splitRange(t[i], e).then) \o side(t, t[i].else, splitRange(t[i], e).else)
    BY DEF parts, side
  <1> DEFINE S == {i \in 1..n : \A e \in E : resolveRange(t)[i][e] \in Seq(Leaves(t))}
  <1>15. \A i \in 1..n : i \in S
    <2>1. ASSUME NEW i \in 1..n, \A k \in (i + 1)..n : k \in S
          PROVE  i \in S
      <3>1. ASSUME NEW a \in {t[i].then, t[i].else}, NEW e \in E
            PROVE  side(t, a, e) \in Seq(Leaves(t))
        <4>1. CASE parses(t, a)
          <5>1. a \in S
            BY <1>3, <2>1, <4>1
          <5>. QED  BY <4>1, <5>1 DEF side
        <4>2. CASE ~parses(t, a)
          <5>1. [to |-> a, lower |-> e[1], upper |-> e[2]] \in Leaves(t)
            BY <1>3 DEF Leaves
          <5>. QED  BY <4>2, <5>1 DEF side
        <4>. QED  BY <4>1, <4>2
      <3>2. ASSUME NEW e \in E
            PROVE  resolveRange(t)[i][e] \in Seq(Leaves(t))
        <4> HIDE DEF E
        <4>1. side(t, t[i].then, splitRange(t[i], e).then) \in Seq(Leaves(t))
          BY <1>2, <3>1
        <4>2. side(t, t[i].else, splitRange(t[i], e).else) \in Seq(Leaves(t))
          BY <1>2, <3>1
        <4>3. resolveRange(t)[i][e] = side(t, t[i].then, splitRange(t[i], e).then)
                                      \o side(t, t[i].else, splitRange(t[i], e).else)
          BY <1>13, <1>14
        <4>4. side(t, t[i].then, splitRange(t[i], e).then) \o side(t, t[i].else, splitRange(t[i], e).else)
              \in Seq(Leaves(t))
          BY <4>1, <4>2
        <4>. QED  BY <4>3, <4>4
      <3>. QED  BY <3>2
    <2> HIDE DEF S
    <2>. QED  BY <2>1, FromBehind
  <1>. QED  BY <1>1, <1>13, <1>14, <1>15

(* The ranges of an arm are a sequence of leaves.                          *)
LEMMA SideType ==
  ASSUME NEW t \in Trees, NEW m \in DOMAIN t, NEW ends \in Ends(t) \X Ends(t)
  PROVE  /\ side(t, t[m].then, splitRange(t[m], ends).then) \in Seq(Leaves(t))
         /\ side(t, t[m].else, splitRange(t[m], ends).else) \in Seq(Leaves(t))
  <1>1. ASSUME NEW a \in arms(t, m), NEW e \in Ends(t) \X Ends(t)
        PROVE  side(t, a, e) \in Seq(Leaves(t))
    <2>1. CASE parses(t, a)
      <3>1. a \in DOMAIN t
        BY <2>1, ParsedArm
      <3>2. resolveRange(t)[a][e] \in Seq(Leaves(t))
        BY <3>1, RangesResolved
      <3>. QED  BY <2>1, <3>2 DEF side
    <2>2. CASE ~parses(t, a)
      <3>1. a \in Int
        BY TreeShape DEF arms
      <3>2. [to |-> a, lower |-> e[1], upper |-> e[2]] \in Leaves(t)
        BY <3>1 DEF Leaves
      <3>. QED  BY <2>2, <3>2 DEF side
    <2>. QED  BY <2>1, <2>2
  <1>2. t[m].then \in arms(t, m) /\ t[m].else \in arms(t, m)
    BY DEF arms
  <1>. QED  BY <1>1, <1>2, SplitEnds

(* The leaves under a node, and those of an arm.                           *)
leavesUnder(t, m) == {a \in UNION {arms(t, p) : p \in nodesUnder(t)[m]} : ~parses(t, a)}
leavesOf(t, a) == IF parses(t, a) THEN leavesUnder(t, a) ELSE {a}

ledTo(t, a, v) == IF parses(t, a) THEN leafOf(t)[a][v] ELSE a

(* The two arms of a node have no leaf in common.                          *)
LEMMA LeavesApart ==
  ASSUME NEW t \in Trees, NEW m \in DOMAIN t, parses(t, m)
  PROVE  /\ leavesOf(t, t[m].then) \cap leavesOf(t, t[m].else) = {}
         /\ leavesOf(t, t[m].then) \cup leavesOf(t, t[m].else) \subseteq leavesUnder(t, m)
  <1> DEFINE a == t[m].then
             b == t[m].else
  <1>1. a \in arms(t, m) /\ b \in arms(t, m) /\ a # b /\ a # 0 /\ b # 0 /\ a \in Int /\ b \in Int
    BY TreeShape DEF arms, parses
  <1>2. /\ parses(t, a) => a \in DOMAIN t /\ m < a
        /\ parses(t, b) => b \in DOMAIN t /\ m < b
    BY <1>1, ParsedArm
  <1>3. DOMAIN t \subseteq Nat
    BY TreeShape
  <1>4. \A p, q \in DOMAIN t : \A x \in arms(t, p) : x \in arms(t, q) /\ x # 0 => p = q
    BY TreeShape
  <1>5. parses(t, a) /\ parses(t, b) => nodesUnder(t)[a] \cap nodesUnder(t)[b] = {}
    BY ApartUnder
  <1>6. parses(t, a) => \A p \in nodesUnder(t)[a] : p \in DOMAIN t /\ a <= p /\ parses(t, p)
    BY <1>2, UnderNode
  <1>7. parses(t, b) => \A p \in nodesUnder(t)[b] : p \in DOMAIN t /\ b <= p /\ parses(t, p)
    BY <1>2, UnderNode
  <1>8. \A p \in DOMAIN t : parses(t, p) => 0 \notin arms(t, p)
    BY DEF parses
  <1>9. \A x \in leavesOf(t, a) : x # 0 /\ (x = a \/ (parses(t, a) /\ \E p \in nodesUnder(t)[a] : x \in arms(t, p)))
    <2>1. CASE parses(t, a)
      <3>1. leavesOf(t, a) = {x \in UNION {arms(t, p) : p \in nodesUnder(t)[a]} : ~parses(t, x)}
        BY <2>1 DEF leavesOf, leavesUnder
      <3> HIDE DEF a
      <3>. QED  BY <1>6, <1>8, <2>1, <3>1
    <2>2. CASE ~parses(t, a)
      BY <1>1, <2>2 DEF leavesOf
    <2>. QED  BY <2>1, <2>2
  <1>10. \A x \in leavesOf(t, b) : x # 0 /\ (x = b \/ (parses(t, b) /\ \E p \in nodesUnder(t)[b] : x \in arms(t, p)))
    <2>1. CASE parses(t, b)
      <3>1. leavesOf(t, b) = {x \in UNION {arms(t, p) : p \in nodesUnder(t)[b]} : ~parses(t, x)}
        BY <2>1 DEF leavesOf, leavesUnder
      <3> HIDE DEF b
      <3>. QED  BY <1>7, <1>8, <2>1, <3>1
    <2>2. CASE ~parses(t, b)
      BY <1>1, <2>2 DEF leavesOf
    <2>. QED  BY <2>1, <2>2
  <1>11. (parses(t, a) => a \notin leavesOf(t, a)) /\ (parses(t, b) => b \notin leavesOf(t, b))
    BY DEF leavesOf, leavesUnder
  <1>12. nodesUnder(t)[m] = {m} \cup UNION {nodesUnder(t)[c] : c \in {c \in arms(t, m) : parses(t, c)}}
    BY NodesUnder
  <1>13. m \in nodesUnder(t)[m]
    BY <1>12
  <1>14. \A c \in arms(t, m) : parses(t, c) => nodesUnder(t)[c] \subseteq nodesUnder(t)[m]
    BY <1>12
  <1>15. \A c \in arms(t, m) : leavesOf(t, c) \subseteq leavesUnder(t, m)
    BY <1>13, <1>14 DEF leavesOf, leavesUnder
  <1> HIDE DEF a, b
  <1>16. ASSUME NEW x \in leavesOf(t, a), x \in leavesOf(t, b)
         PROVE  FALSE
    <2>1. x # 0
      BY <1>9
    <2>2. CASE x = a
      <3>1. x # b
        BY <1>1, <2>2
      <3>2. PICK q \in nodesUnder(t)[b] : x \in arms(t, q) /\ parses(t, b)
        BY <1>10, <1>16, <3>1
      <3>3. q \in DOMAIN t /\ b <= q /\ m < b
        BY <1>2, <1>7, <3>2
      <3>4. m = q
        BY <1>1, <1>4, <2>1, <2>2, <3>2, <3>3
      <3>. QED  BY <1>1, <1>3, <3>3, <3>4
    <2>3. CASE x = b
      <3>1. x # a
        BY <1>1, <2>3
      <3>2. PICK q \in nodesUnder(t)[a] : x \in arms(t, q) /\ parses(t, a)
        BY <1>9, <3>1
      <3>3. q \in DOMAIN t /\ a <= q /\ m < a
        BY <1>2, <1>6, <3>2
      <3>4. m = q
        BY <1>1, <1>4, <2>1, <2>3, <3>2, <3>3
      <3>. QED  BY <1>1, <1>3, <3>3, <3>4
    <2>4. CASE x # a /\ x # b
      <3>1. PICK p \in nodesUnder(t)[a] : x \in arms(t, p) /\ parses(t, a)
        BY <1>9, <2>4
      <3>2. PICK q \in nodesUnder(t)[b] : x \in arms(t, q) /\ parses(t, b)
        BY <1>10, <1>16, <2>4
      <3>3. p = q
        BY <1>4, <1>6, <1>7, <2>1, <3>1, <3>2
      <3>. QED  BY <1>5, <3>1, <3>2, <3>3
    <2>. QED  BY <2>2, <2>3, <2>4
  <1>17. leavesOf(t, a) \cap leavesOf(t, b) = {}
    BY <1>16
  <1>18. leavesOf(t, a) \cup leavesOf(t, b) \subseteq leavesUnder(t, m)
    BY <1>1, <1>15
  <1>. QED  BY <1>17, <1>18 DEF a, b

(* What a node is resolved to, and what it leads to, are leaves under it.  *)
LEMMA LedToLeaves ==
  ASSUME NEW t \in Trees, NEW m \in DOMAIN t, parses(t, m)
  PROVE  /\ \A v \in Values : leafOf(t)[m][v] \in leavesUnder(t, m)
         /\ \A ends \in Ends(t) \X Ends(t) : \A k \in DOMAIN resolveRange(t)[m][ends] :
              resolveRange(t)[m][ends][k].to \in leavesUnder(t, m)
  <1> DEFINE E == Ends(t) \X Ends(t)
             R(i, e) == resolveRange(t)[i][e]
             sound(i) == /\ \A v \in Values : leafOf(t)[i][v] \in leavesUnder(t, i)
                         /\ \A e \in E : \A k \in DOMAIN R(i, e) : R(i, e)[k].to \in leavesUnder(t, i)
             S == {i \in 1..Len(t) : parses(t, i) => sound(i)}
  <1>1. PICK n \in Nat : DOMAIN t = 1..n /\ n = Len(t)
    BY TreeShape
  <1>2. ASSUME NEW i \in 1..n, \A k \in (i + 1)..n : k \in S
        PROVE  i \in S
    <2> SUFFICES ASSUME parses(t, i)
                 PROVE  sound(i)
      BY <1>1
    <2>1. \A a \in arms(t, i) : parses(t, a) => sound(a)
      <3>1. \A a \in arms(t, i) : parses(t, a) => a \in (i + 1)..n
        BY <1>1, ParsedArm
      <3> HIDE DEF holds
      <3>. QED  BY <1>2, <3>1
    <2>2. \A a \in arms(t, i) : leavesOf(t, a) \subseteq leavesUnder(t, i)
      BY <1>1, LeavesApart DEF arms
    <2>3. ASSUME NEW v \in Values
          PROVE  leafOf(t)[i][v] \in leavesUnder(t, i)
      <3>1. armTaken(t[i], v) \in arms(t, i)
        BY DEF armTaken, arms
      <3>2. leafOf(t)[i][v] = IF parses(t, armTaken(t[i], v)) THEN leafOf(t)[armTaken(t[i], v)][v]
                              ELSE armTaken(t[i], v)
        BY <1>1, LeafReached
      <3>. QED  BY <2>1, <2>2, <3>1, <3>2 DEF leavesOf
    <2>4. ASSUME NEW a \in arms(t, i), NEW e \in E, NEW k \in DOMAIN side(t, a, e)
          PROVE  side(t, a, e)[k].to \in leavesUnder(t, i)
      <3>1. CASE parses(t, a)
        <4>1. side(t, a, e)[k].to \in leavesUnder(t, a)
          BY <2>1, <3>1 DEF side
        <4>. QED  BY <2>2, <3>1, <4>1 DEF leavesOf
      <3>2. CASE ~parses(t, a)
        BY <2>2, <3>2 DEF side, leavesOf
      <3>. QED  BY <3>1, <3>2
    <2>5. ASSUME NEW e \in E, NEW k \in DOMAIN R(i, e)
          PROVE  R(i, e)[k].to \in leavesUnder(t, i)
      <3>1. PICK A, B : /\ A = side(t, t[i].then, splitRange(t[i], e).then)
                        /\ B = side(t, t[i].else, splitRange(t[i], e).else)
        OBVIOUS
      <3>2. A \in Seq(Leaves(t)) /\ B \in Seq(Leaves(t))
        BY <1>1, <3>1, SideType
      <3>3. R(i, e) = A \o B
        BY <1>1, <3>1, RangesResolved
      <3>4. splitRange(t[i], e).then \in E /\ splitRange(t[i], e).else \in E
        BY <1>1, SplitEnds
      <3>5. t[i].then \in arms(t, i) /\ t[i].else \in arms(t, i)
        BY DEF arms
      <3>6. \A j \in DOMAIN A : A[j].to \in leavesUnder(t, i)
        BY <2>4, <3>1, <3>4, <3>5
      <3>7. \A j \in DOMAIN B : B[j].to \in leavesUnder(t, i)
        BY <2>4, <3>1, <3>4, <3>5
      <3>8. k \in 1..(Len(A) + Len(B)) /\ (A \o B)[k] = IF k <= Len(A) THEN A[k] ELSE B[k - Len(A)]
        BY <3>2, <3>3, ConcatProperties
      <3>. QED  BY <3>2, <3>3, <3>6, <3>7, <3>8
    <2>. QED  BY <2>3, <2>5
  <1>3. \A i \in 1..n : i \in S
    <2> HIDE DEF S
    <2>. QED  BY <1>2, FromBehind
  <1>4. m \in S
    <2> HIDE DEF S
    <2>. QED  BY <1>1, <1>3
  <1>. QED  BY <1>4

(* A tree has one leaf more than it has nodes.                             *)
LEMMA LeavesCounted ==
  ASSUME NEW t \in Trees, NEW m \in DOMAIN t, parses(t, m), NEW ends \in Ends(t) \X Ends(t)
  PROVE  Len(resolveRange(t)[m][ends]) = leafCount(t, m)
  <1> DEFINE E == Ends(t) \X Ends(t)
             U(i) == nodesUnder(t)[i]
             S == {i \in 1..Len(t) : parses(t, i) =>
                     \A e \in E : Len(resolveRange(t)[i][e]) = 1 + Cardinality(U(i))}
  <1>1. PICK n \in Nat : DOMAIN t = 1..n /\ n = Len(t)
    BY TreeShape
  <1>2. \A i \in 1..n : IsFiniteSet(U(i)) /\ Cardinality(U(i)) \in Nat
    <2>1. IsFiniteSet(1..n)
      BY FS_Interval
    <2>2. \A i \in 1..n : U(i) \subseteq 1..n
      BY <1>1, NodesUnder
    <2> HIDE DEF U
    <2>. QED  BY <2>1, <2>2, FS_Subset, FS_CardinalityType
  <1>3. ASSUME NEW i \in 1..n, \A k \in (i + 1)..n : k \in S
        PROVE  i \in S
    <2> SUFFICES ASSUME parses(t, i), NEW e \in E
                 PROVE  Len(resolveRange(t)[i][e]) = 1 + Cardinality(U(i))
      BY <1>1
    <2> DEFINE a == t[i].then
               b == t[i].else
               beneath(x) == IF parses(t, x) THEN U(x) ELSE {}
    <2>1. a \in arms(t, i) /\ b \in arms(t, i) /\ arms(t, i) = {a, b}
      BY DEF arms
    <2>2. \A x \in arms(t, i) : parses(t, x) => x \in (i + 1)..n
      BY <1>1, ParsedArm
    <2>3. PICK A, B : /\ A = side(t, a, splitRange(t[i], e).then)
                      /\ B = side(t, b, splitRange(t[i], e).else)
      OBVIOUS
    <2>4. A \in Seq(Leaves(t)) /\ B \in Seq(Leaves(t)) /\ resolveRange(t)[i][e] = A \o B
      BY <1>1, <2>3, SideType, RangesResolved
    <2>5. splitRange(t[i], e).then \in E /\ splitRange(t[i], e).else \in E
      BY <1>1, SplitEnds
    <2>6. \A x \in arms(t, i) : IsFiniteSet(beneath(x)) /\ Cardinality(beneath(x)) \in Nat
      <3>1. IsFiniteSet({}) /\ Cardinality({}) \in Nat
        BY FS_EmptySet
      <3> HIDE DEF U
      <3>. QED  BY <1>2, <2>2, <3>1
    <2>7. \A x \in arms(t, i), f \in E : Len(side(t, x, f)) = 1 + Cardinality(beneath(x))
      <3> SUFFICES ASSUME NEW x \in arms(t, i), NEW f \in E
                   PROVE  Len(side(t, x, f)) = 1 + Cardinality(beneath(x))
        OBVIOUS
      <3>1. CASE parses(t, x)
        BY <1>3, <2>2, <3>1 DEF side
      <3>2. CASE ~parses(t, x)
        <4>1. Cardinality(beneath(x)) = 0
          BY <3>2, FS_EmptySet
        <4>. QED  BY <3>2, <4>1 DEF side
      <3>. QED  BY <3>1, <3>2
    <2>8. beneath(a) \cap beneath(b) = {}
      BY <1>1, ApartUnder
    <2>9. U(i) = {i} \cup (beneath(a) \cup beneath(b))
      <3>1. U(i) = {i} \cup UNION {U(x) : x \in {x \in arms(t, i) : parses(t, x)}}
        BY <1>1, NodesUnder
      <3> HIDE DEF U, a, b
      <3>. QED  BY <2>1, <3>1
    <2>10. i \notin beneath(a) \cup beneath(b)
      <3>1. \A x \in arms(t, i) : parses(t, x) => \A k \in U(x) : x <= k /\ k \in 1..n
        BY <1>1, <2>2, UnderNode
      <3> HIDE DEF U, a, b
      <3>. QED  BY <2>1, <2>2, <3>1
    <2> HIDE DEF U, beneath, a, b
    <2>11. /\ IsFiniteSet(beneath(a) \cup beneath(b))
           /\ Cardinality(beneath(a) \cup beneath(b)) = Cardinality(beneath(a)) + Cardinality(beneath(b))
      <3>1. /\ IsFiniteSet(beneath(a) \cup beneath(b))
            /\ Cardinality(beneath(a) \cup beneath(b))
                 = Cardinality(beneath(a)) + Cardinality(beneath(b)) - Cardinality(beneath(a) \cap beneath(b))
        BY <2>1, <2>6, FS_Union
      <3>2. Cardinality(beneath(a) \cap beneath(b)) = 0
        BY <2>8, FS_EmptySet
      <3>3. Cardinality(beneath(a)) \in Nat /\ Cardinality(beneath(b)) \in Nat
        BY <2>1, <2>6
      <3>. QED  BY <3>1, <3>2, <3>3
    <2>12. Cardinality(U(i)) = Cardinality(beneath(a) \cup beneath(b)) + 1
      <3>1. U(i) = (beneath(a) \cup beneath(b)) \cup {i}
        BY <2>9
      <3>. QED  BY <2>10, <2>11, <3>1, FS_AddElement
    <2>13. Len(A) = 1 + Cardinality(beneath(a)) /\ Len(B) = 1 + Cardinality(beneath(b))
      BY <2>1, <2>3, <2>5, <2>7
    <2>14. Len(A \o B) = Len(A) + Len(B)
      BY <2>4
    <2>15. Cardinality(beneath(a)) \in Nat /\ Cardinality(beneath(b)) \in Nat
      BY <2>1, <2>6
    <2>. QED  BY <2>4, <2>11, <2>12, <2>13, <2>14, <2>15
  <1>4. \A i \in 1..n : i \in S
    <2> HIDE DEF S
    <2>. QED  BY <1>3, FromBehind
  <1>. QED  BY <1>1, <1>4 DEF leafCount

(* What lies between two ends.                                             *)
between(v, ends) == (ends[1] = <<>> \/ ends[1][1] <= v) /\ (ends[2] = <<>> \/ v < ends[2][1])
apart(ends) == ends[1] # <<>> => ends[2] = <<>> \/ ends[1][1] < ends[2][1]

(* Every range is in the ends, and a value between them is led to the leaf *)
(* in whose range it is.                                                   *)
led(t, a, ends) ==
  /\ apart(ends)
  /\ \A k \in DOMAIN side(t, a, ends) : \A v \in Values :
       /\ within(v, side(t, a, ends)[k]) => between(v, ends)
       /\ between(v, ends) => (within(v, side(t, a, ends)[k]) <=> ledTo(t, a, v) = side(t, a, ends)[k].to)

(* The ends of ranges are numbers.                                         *)
LEMMA EndsAreNumbers ==
  ASSUME NEW t \in Trees, NEW x \in Ends(t)
  PROVE  x = <<>> \/ (x # <<>> /\ x[1] \in Int)
  <1>1. CASE x = <<>>
    BY <1>1
  <1>2. CASE x # <<>>
    <2>1. PICK m \in DOMAIN t : x = <<t[m].value>>
      BY <1>2 DEF Ends
    <2>. QED  BY <1>2, <2>1, TreeShape
  <1>. QED  BY <1>1, <1>2

(* An arm that is a leaf.                                                  *)
LEMMA LeafLed ==
  ASSUME NEW t \in Trees, NEW a, ~parses(t, a), NEW ends \in Ends(t) \X Ends(t),
         \A k \in DOMAIN side(t, a, ends) : inOrder(side(t, a, ends)[k])
  PROVE  led(t, a, ends)
  <1>1. side(t, a, ends) = <<[to |-> a, lower |-> ends[1], upper |-> ends[2]]>>
    BY DEF side
  <1>2. DOMAIN side(t, a, ends) = {1} /\ side(t, a, ends)[1] = [to |-> a, lower |-> ends[1], upper |-> ends[2]]
    BY <1>1
  <1>3. apart(ends)
    BY <1>2 DEF inOrder, apart
  <1>4. \A v \in Values : within(v, side(t, a, ends)[1]) <=> between(v, ends)
    BY <1>2 DEF within, between
  <1>5. \A v \in Values : ledTo(t, a, v) = side(t, a, ends)[1].to
    BY <1>2 DEF ledTo
  <1>. QED  BY <1>2, <1>3, <1>4, <1>5 DEF led

(* An arm leads to its own leaves.                                         *)
LEMMA ArmLedToLeaves ==
  ASSUME NEW t \in Trees, NEW m \in DOMAIN t, NEW a \in arms(t, m), NEW ends \in Ends(t) \X Ends(t)
  PROVE  /\ \A v \in Values : ledTo(t, a, v) \in leavesOf(t, a)
         /\ \A k \in DOMAIN side(t, a, ends) : side(t, a, ends)[k].to \in leavesOf(t, a)
  <1>1. CASE parses(t, a)
    <2>1. a \in DOMAIN t
      BY <1>1, ParsedArm
    <2>. QED  BY <1>1, <2>1, LedToLeaves DEF ledTo, leavesOf, side
  <1>2. CASE ~parses(t, a)
    BY <1>2 DEF ledTo, leavesOf, side
  <1>. QED  BY <1>1, <1>2

(* r is one of the ranges an arm is resolved to.                           *)
resolvedTo(t, a, ends, r) == \E k \in DOMAIN side(t, a, ends) : r = side(t, a, ends)[k]

(* Two arms that part the values at x, the lower ones to c.                *)
LEMMA ArmsLed ==
  ASSUME NEW t \in Trees, NEW m \in DOMAIN t, NEW c \in arms(t, m), NEW d \in arms(t, m),
         leavesOf(t, c) \cap leavesOf(t, d) = {},
         NEW cut \in Ends(t), cut # <<>>, NEW l \in Ends(t), NEW u \in Ends(t),
         led(t, c, <<l, cut>>), led(t, d, <<cut, u>>),
         NEW r, resolvedTo(t, c, <<l, cut>>, r) \/ resolvedTo(t, d, <<cut, u>>, r),
         NEW v \in Values
  PROVE  /\ within(v, r) => between(v, <<l, u>>)
         /\ between(v, <<l, u>>) =>
              (within(v, r) <=> ledTo(t, IF v < cut[1] THEN c ELSE d, v) = r.to)
  <1>1. cut[1] \in Int /\ v \in Int
    BY EndsAreNumbers, BinaryTreeAssumption
  <1>2. (l = <<>> \/ (l # <<>> /\ l[1] \in Int)) /\ (u = <<>> \/ (u # <<>> /\ u[1] \in Int))
    BY EndsAreNumbers
  <1>3. (l = <<>> \/ l[1] < cut[1]) /\ (u = <<>> \/ cut[1] < u[1])
    BY DEF led, apart
  <1>4. between(v, <<l, cut>>) <=> between(v, <<l, u>>) /\ v < cut[1]
    BY <1>1, <1>2, <1>3 DEF between
  <1>5. between(v, <<cut, u>>) <=> between(v, <<l, u>>) /\ ~(v < cut[1])
    BY <1>1, <1>2, <1>3 DEF between
  <1>6. ledTo(t, c, v) \in leavesOf(t, c) /\ ledTo(t, d, v) \in leavesOf(t, d)
    <2>1. <<l, cut>> \in Ends(t) \X Ends(t)
      OBVIOUS
    <2>. QED  BY <2>1, ArmLedToLeaves
  <1>7. CASE resolvedTo(t, c, <<l, cut>>, r)
    <2>1. r.to \in leavesOf(t, c)
      <3>1. <<l, cut>> \in Ends(t) \X Ends(t)
        OBVIOUS
      <3>. QED  BY <1>7, <3>1, ArmLedToLeaves DEF resolvedTo
    <2>2. /\ within(v, r) => between(v, <<l, cut>>)
          /\ between(v, <<l, cut>>) => (within(v, r) <=> ledTo(t, c, v) = r.to)
      BY <1>7 DEF led, resolvedTo
    <2>3. ledTo(t, d, v) # r.to
      BY <1>6, <2>1
    <2>. QED  BY <1>4, <2>2, <2>3
  <1>8. CASE resolvedTo(t, d, <<cut, u>>, r)
    <2>1. r.to \in leavesOf(t, d)
      <3>1. <<cut, u>> \in Ends(t) \X Ends(t)
        OBVIOUS
      <3>. QED  BY <1>8, <3>1, ArmLedToLeaves DEF resolvedTo
    <2>2. /\ within(v, r) => between(v, <<cut, u>>)
          /\ between(v, <<cut, u>>) => (within(v, r) <=> ledTo(t, d, v) = r.to)
      BY <1>8 DEF led, resolvedTo
    <2>3. ledTo(t, c, v) # r.to
      BY <1>6, <2>1
    <2>. QED  BY <1>5, <2>2, <2>3
  <1>. QED  BY <1>7, <1>8

(* The ranges of a search tree are those in which it leads to the leaves.  *)
LEMMA TreeLed ==
  ASSUME NEW t \in Trees, NEW m \in DOMAIN t, parses(t, m), NEW ends \in Ends(t) \X Ends(t),
         \A p \in nodesUnder(t)[m] : t[p].op \in {"<", ">="},
         \A k \in DOMAIN resolveRange(t)[m][ends] : inOrder(resolveRange(t)[m][ends][k])
  PROVE  led(t, m, ends)
  <1> DEFINE E == Ends(t) \X Ends(t)
             search(i) == \A p \in nodesUnder(t)[i] : t[p].op \in {"<", ">="}
             inRow(s) == \A k \in DOMAIN s : inOrder(s[k])
             S == {i \in 1..Len(t) : parses(t, i) /\ search(i) =>
                     \A e \in E : inRow(resolveRange(t)[i][e]) => led(t, i, e)}
  <1>1. PICK n \in Nat : DOMAIN t = 1..n /\ n = Len(t)
    BY TreeShape
  <1>2. ASSUME NEW i \in 1..n, \A k \in (i + 1)..n : k \in S
        PROVE  i \in S
    <2> SUFFICES ASSUME parses(t, i), search(i), NEW e \in E, inRow(resolveRange(t)[i][e])
                 PROVE  led(t, i, e)
      BY <1>1
    <2>1. i \in DOMAIN t /\ t[i].op \in {"<", ">="}
      BY <1>1, UnderNode
    <2>2. PICK s : s = splitRange(t[i], e)
      OBVIOUS
    <2>3. PICK A, B : A = side(t, t[i].then, s.then) /\ B = side(t, t[i].else, s.else)
      OBVIOUS
    <2>4. A \in Seq(Leaves(t)) /\ B \in Seq(Leaves(t)) /\ resolveRange(t)[i][e] = A \o B
      BY <2>1, <2>2, <2>3, SideType, RangesResolved
    <2>5. s.then \in E /\ s.else \in E
      BY <2>1, <2>2, SplitEnds
    <2>6. DOMAIN A = 1..Len(A) /\ DOMAIN B = 1..Len(B) /\ DOMAIN (A \o B) = 1..(Len(A) + Len(B))
          /\ \A k \in 1..(Len(A) + Len(B)) : (A \o B)[k] = IF k <= Len(A) THEN A[k] ELSE B[k - Len(A)]
      BY <2>4, ConcatProperties
    <2>7. inRow(A) /\ inRow(B)
      <3>1. \A k \in DOMAIN A : (A \o B)[k] = A[k] /\ k \in DOMAIN (A \o B)
        BY <2>4, <2>6
      <3>2. \A k \in DOMAIN B : (A \o B)[Len(A) + k] = B[k] /\ Len(A) + k \in DOMAIN (A \o B)
        BY <2>4, <2>6
      <3>. QED  BY <2>4, <3>1, <3>2
    <2>8. ASSUME NEW a \in arms(t, i), NEW f \in E, inRow(side(t, a, f))
          PROVE  led(t, a, f)
      <3>1. CASE parses(t, a)
        <4>1. a \in S /\ nodesUnder(t)[a] \subseteq nodesUnder(t)[i]
          <5>1. a \in (i + 1)..n
            BY <1>1, <2>1, <3>1, ParsedArm
          <5>2. nodesUnder(t)[i] = {i} \cup UNION {nodesUnder(t)[c] : c \in {c \in arms(t, i) : parses(t, c)}}
            BY <2>1, NodesUnder
          <5>3. nodesUnder(t)[a] \subseteq nodesUnder(t)[i]
            BY <3>1, <5>2
          <5>. QED  BY <1>2, <5>1, <5>3
        <4>2. search(a) /\ resolveRange(t)[a][f] = side(t, a, f)
          BY <3>1, <4>1 DEF side
        <4>. QED  BY <2>8, <3>1, <4>1, <4>2
      <3>2. CASE ~parses(t, a)
        BY <2>8, <3>2, LeafLed
      <3>. QED  BY <3>1, <3>2
    <2>9. t[i].then \in arms(t, i) /\ t[i].else \in arms(t, i)
      BY DEF arms
    <2>10. led(t, t[i].then, s.then) /\ led(t, t[i].else, s.else)
      <3> HIDE DEF inRow
      <3>. QED  BY <2>3, <2>5, <2>7, <2>8, <2>9
    <2>11. leavesOf(t, t[i].then) \cap leavesOf(t, t[i].else) = {}
      BY <2>1, LeavesApart
    <2>12. PICK l \in Ends(t), u \in Ends(t) : e = <<l, u>>
      OBVIOUS
    <2>13. PICK cut : cut = <<t[i].value>>
      OBVIOUS
    <2>14. cut \in Ends(t) /\ cut # <<>> /\ cut[1] = t[i].value /\ cut[1] \in Int
      BY <2>1, <2>13, TreeShape DEF Ends
    <2>15. ASSUME NEW k \in DOMAIN (A \o B)
           PROVE  \/ resolvedTo(t, t[i].then, s.then, (A \o B)[k])
                  \/ resolvedTo(t, t[i].else, s.else, (A \o B)[k])
      <3>1. k \in 1..(Len(A) + Len(B)) /\ Len(A) \in Nat /\ Len(B) \in Nat
        BY <2>4, <2>6
      <3>2. CASE k <= Len(A)
        <4>1. k \in DOMAIN A /\ (A \o B)[k] = A[k]
          BY <2>6, <3>1, <3>2
        <4>. QED  BY <2>3, <4>1 DEF resolvedTo
      <3>3. CASE ~(k <= Len(A))
        <4>1. k - Len(A) \in DOMAIN B /\ (A \o B)[k] = B[k - Len(A)]
          BY <2>6, <3>1, <3>3
        <4>. QED  BY <2>3, <4>1 DEF resolvedTo
      <3>. QED  BY <3>2, <3>3
    <2>16. /\ apart(e)
           /\ \A v \in Values, k \in DOMAIN (A \o B) :
                /\ within(v, (A \o B)[k]) => between(v, e)
                /\ between(v, e) => (within(v, (A \o B)[k]) <=> ledTo(t, armTaken(t[i], v), v) = (A \o B)[k].to)
      <3>1. CASE t[i].op = "<"
        <4>1. s.then = <<l, cut>> /\ s.else = <<cut, u>>
          BY <2>2, <2>12, <2>13, <3>1 DEF splitRange
        <4>2. apart(e)
          BY <2>10, <2>12, <2>14, <4>1, EndsAreNumbers DEF led, apart
        <4>3. \A v \in Values : armTaken(t[i], v) = IF v < cut[1] THEN t[i].then ELSE t[i].else
          BY <2>14, <3>1 DEF armTaken, compared
        <4>4. ASSUME NEW v \in Values, NEW k \in DOMAIN (A \o B)
              PROVE  /\ within(v, (A \o B)[k]) => between(v, e)
                     /\ between(v, e) => (within(v, (A \o B)[k]) <=> ledTo(t, armTaken(t[i], v), v) = (A \o B)[k].to)
          <5>1. PICK r : r = (A \o B)[k]
            OBVIOUS
          <5>2. resolvedTo(t, t[i].then, <<l, cut>>, r) \/ resolvedTo(t, t[i].else, <<cut, u>>, r)
            BY <2>15, <4>1, <5>1
          <5>3. /\ within(v, r) => between(v, <<l, u>>)
                /\ between(v, <<l, u>>) =>
                     (within(v, r) <=> ledTo(t, IF v < cut[1] THEN t[i].then ELSE t[i].else, v) = r.to)
            <6>1. led(t, t[i].then, s.then) /\ led(t, t[i].else, s.else)
              BY <2>10
            <6>. QED  BY <2>1, <2>9, <2>11, <2>14, <4>1, <5>2, <6>1, ArmsLed
          <5>. QED  BY <2>12, <4>3, <5>1, <5>3
        <4>. QED  BY <4>2, <4>4
      <3>2. CASE t[i].op = ">="
        <4>1. s.then = <<cut, u>> /\ s.else = <<l, cut>>
          BY <2>2, <2>12, <2>13, <3>2 DEF splitRange
        <4>2. apart(e)
          BY <2>10, <2>12, <2>14, <4>1, EndsAreNumbers DEF led, apart
        <4>3. \A v \in Values : armTaken(t[i], v) = IF v < cut[1] THEN t[i].else ELSE t[i].then
          <5>1. \A v \in Values : v \in Int
            BY BinaryTreeAssumption
          <5>. QED  BY <2>14, <3>2, <5>1 DEF armTaken, compared
        <4>4. ASSUME NEW v \in Values, NEW k \in DOMAIN (A \o B)
              PROVE  /\ within(v, (A \o B)[k]) => between(v, e)
                     /\ between(v, e) => (within(v, (A \o B)[k]) <=> ledTo(t, armTaken(t[i], v), v) = (A \o B)[k].to)
          <5>1. PICK r : r = (A \o B)[k]
            OBVIOUS
          <5>2. resolvedTo(t, t[i].else, <<l, cut>>, r) \/ resolvedTo(t, t[i].then, <<cut, u>>, r)
            BY <2>15, <4>1, <5>1
          <5>3. /\ within(v, r) => between(v, <<l, u>>)
                /\ between(v, <<l, u>>) =>
                     (within(v, r) <=> ledTo(t, IF v < cut[1] THEN t[i].else ELSE t[i].then, v) = r.to)
            <6>1. led(t, t[i].then, s.then) /\ led(t, t[i].else, s.else)
              BY <2>10
            <6>. QED  BY <2>1, <2>9, <2>11, <2>14, <4>1, <5>2, <6>1, ArmsLed
          <5>. QED  BY <2>12, <4>3, <5>1, <5>3
        <4>. QED  BY <4>2, <4>4
      <3>. QED  BY <2>1, <3>1, <3>2
    <2>17. side(t, i, e) = A \o B
      BY <2>4 DEF side
    <2>18. \A v \in Values : ledTo(t, i, v) = ledTo(t, armTaken(t[i], v), v)
      <3>1. \A v \in Values : ledTo(t, i, v) = leafOf(t)[i][v]
        BY DEF ledTo
      <3>2. \A v \in Values : leafOf(t)[i][v] = ledTo(t, armTaken(t[i], v), v)
        BY <2>1, LeafReached DEF ledTo
      <3>. QED  BY <3>1, <3>2
    <2>. QED  BY <2>16, <2>17, <2>18 DEF led
  <1>3. \A i \in 1..n : i \in S
    <2> HIDE DEF S
    <2>. QED  BY <1>2, FromBehind
  <1>. QED  BY <1>1, <1>3

(* The leaves in a chain are those of the tree, each with its range.       *)
LEMMA SortedRanges ==
  ASSUME NEW t \in Trees, NEW R \in Seq(Leaves(t))
  PROVE  /\ sorted(R) \in Seq(Leaves(t)) /\ Len(sorted(R)) = Len(R)
         /\ \A k \in DOMAIN sorted(R) : \E i \in DOMAIN R : sorted(R)[k] = R[i]
         /\ \A i \in DOMAIN R : \E k \in DOMAIN sorted(R) : sorted(R)[k] = R[i]
  <1> DEFINE D == DOMAIN R
             low(i) == R[i].lower
             ahead == {p \in D \X D : \/ below(low(p[1]), low(p[2]))
                                      \/ ~below(low(p[2]), low(p[1])) /\ p[1] < p[2]}
  <1>1. PICK n \in Nat : D = 1..n /\ n = Len(R)
    OBVIOUS
  <1>2. \A i \in D : R[i] \in Leaves(t) /\ low(i) \in Ends(t)
    <2>1. \A i \in D : R[i] \in Leaves(t)
      OBVIOUS
    <2>2. \A l \in Leaves(t) : l.lower \in Ends(t)
      BY DEF Leaves
    <2>. QED  BY <2>1, <2>2
  <1>3. \A i \in D : low(i) = <<>> \/ (low(i) # <<>> /\ low(i)[1] \in Int)
    <2> HIDE DEF low, D
    <2>. QED  BY <1>2, EndsAreNumbers
  <1>4. IsFiniteSet(D) /\ Cardinality(D) = n
    <2>1. \A m \in Nat : IsFiniteSet(1..m) /\ Cardinality(1..m) = m
      BY FS_Interval
    <2> HIDE DEF D
    <2>. QED  BY <1>1, <2>1
  <1>5. \A i, j \in D : <<i, j>> \in ahead <=>
          below(low(i), low(j)) \/ (~below(low(j), low(i)) /\ i < j)
    <2> HIDE DEF low, D
    <2>. QED  OBVIOUS
  <1> HIDE DEF ahead, low, D
  <1>6. \A i \in D : i \in Int
    BY <1>1
  <1>7. \A i \in D : <<i, i>> \notin ahead
    BY <1>3, <1>5, <1>6 DEF below
  <1>8. \A i, j, k \in D : <<i, j>> \in ahead /\ <<j, k>> \in ahead => <<i, k>> \in ahead
    BY <1>3, <1>5, <1>6 DEF below
  <1>9. \A i, j \in D : i # j => <<i, j>> \in ahead \/ <<j, i>> \in ahead
    BY <1>3, <1>5, <1>6 DEF below
  <1>10. /\ \A k \in 1..n : ordered(D, ahead)[k] \in D
         /\ \A i \in D : \E k \in 1..n : ordered(D, ahead)[k] = i
    <2>1. \A k \in 1..Cardinality(D) : ordered(D, ahead)[k] \in D
      BY <1>4, <1>7, <1>8, <1>9, OrderedIsSorted
    <2>2. \A i \in D : \E k \in 1..Cardinality(D) : ordered(D, ahead)[k] = i
      BY <1>4, <1>7, <1>8, <1>9, OrderedIsOnto
    <2>. QED  BY <1>4, <2>1, <2>2
  <1>11. sorted(R) = [k \in D |-> R[ordered(D, ahead)[k]]]
    BY DEF sorted, ahead, low, D
  <1>12. sorted(R) \in [1..n -> Leaves(t)]
    BY <1>1, <1>2, <1>10, <1>11
  <1>13. sorted(R) \in Seq(Leaves(t)) /\ Len(sorted(R)) = n /\ DOMAIN sorted(R) = 1..n
    BY <1>12
  <1>14. \A k \in 1..n : \E i \in D : sorted(R)[k] = R[i]
    BY <1>1, <1>10, <1>11
  <1>15. \A i \in D : \E k \in 1..n : sorted(R)[k] = R[i]
    BY <1>1, <1>10, <1>11
  <1>. QED  BY <1>1, <1>13, <1>14, <1>15 DEF D

(* What each chain was made of.                                            *)
chainOf(t, n) == sorted(resolveRange(t)[n][<< <<>>, <<>> >>])

TreeInv ==
  /\ TreeTypeOK
  /\ \A n \in DOMAIN chains : nested(tree, n) /\ chains[n] = chainOf(tree, n)

(* The chain of a candidate has as many arms as its tree has leaves.       *)
LEMMA ChainLength ==
  ASSUME NEW t \in Trees, NEW n \in DOMAIN t, nested(t, n)
  PROVE  Len(chainOf(t, n)) \in 4..maxLeaves
  <1>1. PICK e : e = << <<>>, <<>> >>
    OBVIOUS
  <1>2. e \in Ends(t) \X Ends(t)
    BY <1>1 DEF Ends
  <1>3. parses(t, n) /\ leafCount(t, n) \in 4..maxLeaves
    BY DEF nested
  <1>4. resolveRange(t)[n][e] \in Seq(Leaves(t)) /\ Len(resolveRange(t)[n][e]) = leafCount(t, n)
    BY <1>2, <1>3, RangesResolved, LeavesCounted
  <1>5. Len(sorted(resolveRange(t)[n][e])) = leafCount(t, n)
    BY <1>4, SortedRanges
  <1>. QED  BY <1>1, <1>3, <1>5 DEF chainOf

(* In a search tree the ranges of a chain are those in which the tree runs *)
(* its leaves.                                                             *)
LEMMA ChainExact ==
  ASSUME NEW t \in Trees, NEW n \in DOMAIN t, parses(t, n),
         \A m \in nodesUnder(t)[n] : t[m].op \in {"<", ">="},
         \A k \in DOMAIN chainOf(t, n) : inOrder(chainOf(t, n)[k]),
         NEW v \in Values, NEW k \in DOMAIN chainOf(t, n)
  PROVE  within(v, chainOf(t, n)[k]) <=> leafOf(t)[n][v] = chainOf(t, n)[k].to
  <1>1. PICK e : e = << <<>>, <<>> >>
    OBVIOUS
  <1>2. e \in Ends(t) \X Ends(t)
    BY <1>1 DEF Ends
  <1>3. PICK R : R = resolveRange(t)[n][e]
    OBVIOUS
  <1>4. R \in Seq(Leaves(t)) /\ chainOf(t, n) = sorted(R)
    BY <1>1, <1>2, <1>3, RangesResolved DEF chainOf
  <1>5. PICK i \in DOMAIN R : chainOf(t, n)[k] = R[i]
    BY <1>4, SortedRanges
  <1>6. \A j \in DOMAIN R : inOrder(R[j])
    <2>1. \A j \in DOMAIN R : \E l \in DOMAIN chainOf(t, n) : chainOf(t, n)[l] = R[j]
      BY <1>4, SortedRanges
    <2>. QED  BY <2>1
  <1>7. led(t, n, e)
    BY <1>2, <1>3, <1>6, TreeLed
  <1>8. side(t, n, e) = R /\ ledTo(t, n, v) = leafOf(t)[n][v]
    BY <1>3 DEF side, ledTo
  <1>9. between(v, e)
    BY <1>1 DEF between
  <1>. QED  BY <1>5, <1>7, <1>8, <1>9 DEF led

(* No chain has been written yet.                                          *)
LEMMA TreeInitInv == TreeInit => TreeInv
  <1> SUFFICES ASSUME TreeInit
               PROVE  TreeInv
    OBVIOUS
  <1>1. DOMAIN chains = {} /\ Cardinality(DOMAIN chains) = 0
    BY FS_EmptySet DEF TreeInit
  <1>. QED  BY <1>1, BinaryTreeAssumption DEF TreeInit, TreeInv, TreeTypeOK

(* A chain is written from the leaves of its tree.                         *)
LEMMA TreeNextInv == TreeInv /\ [TreeNext]_treeVars => TreeInv'
  <1> SUFFICES ASSUME TreeInv, [TreeNext]_treeVars
               PROVE  TreeInv'
    OBVIOUS
  <1>1. CASE UNCHANGED treeVars
    BY <1>1 DEF treeVars, TreeInv, TreeTypeOK
  <1>2. CASE Recovered
    BY <1>1, <1>2 DEF Recovered
  <1>3. ASSUME NEW n \in DOMAIN tree, FlattenTree(n)
        PROVE  TreeInv'
    <2>1. /\ tree' = tree /\ rewrites' = rewrites + 1 /\ rewrites < maxRewrites
          /\ nested(tree, n) /\ standing(n)
          /\ chains' = [m \in DOMAIN chains \cup {n} |-> IF m = n THEN chainOf(tree, n) ELSE chains[m]]
      BY <1>3 DEF FlattenTree, chainOf
    <2>2. tree \in Trees /\ rewrites \in Nat
      BY DEF TreeInv, TreeTypeOK
    <2>3. n \notin DOMAIN chains
      <3>1. n \in nodesUnder(tree)[n]
        BY <2>2, UnderNode
      <3>. QED  BY <2>1, <3>1 DEF standing
    <2>4. DOMAIN chains' = DOMAIN chains \cup {n} /\ DOMAIN chains \subseteq DOMAIN tree
      BY <2>1 DEF TreeInv, TreeTypeOK
    <2>5. IsFiniteSet(DOMAIN chains)
      <3>1. IsFiniteSet(DOMAIN tree)
        BY <2>2, TreeShape, FS_Interval
      <3>. QED  BY <2>4, <3>1, FS_Subset
    <2>6. Cardinality(DOMAIN chains') = rewrites + 1
      <3>1. Cardinality(DOMAIN chains) = rewrites
        BY DEF TreeInv, TreeTypeOK
      <3>. QED  BY <2>3, <2>4, <2>5, <3>1, FS_AddElement
    <2>7. \A m \in DOMAIN chains' : nested(tree, m) /\ chains'[m] = chainOf(tree, m)
      BY <2>1, <2>4 DEF TreeInv
    <2>8. \A m \in DOMAIN chains' : Len(chains'[m]) \in 4..maxLeaves
      BY <2>2, <2>4, <2>7, ChainLength
    <2>9. TreeTypeOK'
      <3>1. rewrites' \in 0..maxRewrites
        BY <2>1, <2>2, BinaryTreeAssumption
      <3>. QED  BY <2>1, <2>2, <2>4, <2>6, <2>8, <3>1 DEF TreeTypeOK
    <2>. QED  BY <2>1, <2>7, <2>9 DEF TreeInv
  <1>. QED  BY <1>1, <1>2, <1>3 DEF TreeNext

(* What such a chain holds is exact.                                       *)
LEMMA TreeInvHolds == TreeInv => RangesExact
  <1> SUFFICES ASSUME TreeInv
               PROVE  RangesExact
    OBVIOUS
  <1>1. TreeTypeOK
    BY DEF TreeInv
  <1>2. ASSUME NEW n \in DOMAIN chains, searchTree(n), NEW v \in Values, NEW k \in DOMAIN chains[n]
        PROVE  within(v, chains[n][k]) <=> leafOf(tree)[n][v] = chains[n][k].to
    <2>1. tree \in Trees /\ n \in DOMAIN tree
      BY <1>1 DEF TreeTypeOK
    <2>2. parses(tree, n) /\ chains[n] = chainOf(tree, n)
      BY DEF TreeInv, nested
    <2>. QED  BY <1>2, <2>1, <2>2, ChainExact DEF searchTree
  <1>. QED  BY <1>1, <1>2 DEF RangesExact

(* Whatever the nesting of the comparisons, each leaf of a search tree     *)
(* stands in the chain with the very range in which the tree runs it.      *)
THEOREM RangesExactCorrect == TreeSpec => []RangesExact
  <1>1. TreeInit => TreeInv
    BY TreeInitInv
  <1>2. TreeInv /\ [TreeNext]_treeVars => TreeInv'
    BY TreeNextInv
  <1>3. TreeInv => RangesExact
    BY TreeInvHolds
  <1>. QED  BY <1>1, <1>2, <1>3, PTL DEF TreeSpec

--------------------------------------------------------------------------------
(* parseDispatchTree: the handlers.                                        *)

Ways == {"then", "else"}

TestNode ==
  [test : BOOLEAN, negated : BOOLEAN, op : {">=", "<", ">", "<=", "==", "~="}, k : Int,
   then : Seq(Items), kind : {"none", "else", "elseif"}, else : Seq(Items)]

(* Each block is plain, or one `if`.                                       *)
straight(i) ==
  \A n \in DOMAIN i.nodes, arm \in Ways :
    blocks(block(i.nodes, n, arm)) # {} => block(i.nodes, n, arm)[1][1] = "if" /\ Len(block(i.nodes, n, arm)) = 1

(* What an interpreter is.                                                 *)
LEMMA InterpreterShape ==
  ASSUME NEW i \in Dispatchers
  PROVE  /\ i.nodes \in Seq(TestNode) /\ Len(i.nodes) \in Nat /\ DOMAIN i.nodes = 1..Len(i.nodes)
         /\ i.begins => 1 \in DOMAIN i.nodes
         /\ \A n \in DOMAIN i.nodes :
              /\ i.nodes[n] \in TestNode
              /\ i.nodes[n].kind = "none" => block(i.nodes, n, "else") = <<>>
              /\ \A arm \in Ways : block(i.nodes, n, arm) \in Seq(Items)
  <1>1. i.nodes \in Seq(TestNode) /\ (i.begins => i.nodes # <<>>)
        /\ \A n \in DOMAIN i.nodes : i.nodes[n].kind = "none" => i.nodes[n].else = <<>>
    BY DispatchAssumption DEF TestNode
  <1>2. PICK s \in Seq(TestNode) : s = i.nodes
    BY <1>1
  <1>3. Len(s) \in Nat /\ DOMAIN s = 1..Len(s) /\ (s # <<>> => 1 \in DOMAIN s)
    OBVIOUS
  <1>4. \A n \in DOMAIN s : s[n] \in TestNode
    OBVIOUS
  <1>5. \A t \in TestNode : t.then \in Seq(Items) /\ t.else \in Seq(Items)
    BY DEF TestNode
  <1>6. \A n \in DOMAIN s, arm \in Ways : block(s, n, arm) \in Seq(Items)
    BY <1>4, <1>5 DEF block, Ways
  <1>7. \A n \in DOMAIN s : s[n].kind = "none" => block(s, n, "else") = <<>>
    BY <1>1, <1>2 DEF block
  <1>. QED  BY <1>1, <1>2, <1>3, <1>4, <1>6, <1>7

(* Where the `if` statements of a block are.                               *)
LEMMA Placed ==
  ASSUME NEW i \in Dispatchers, NEW n \in DOMAIN i.nodes, NEW arm \in Ways, NEW j \in DOMAIN block(i.nodes, n, arm),
         block(i.nodes, n, arm)[j][1] = "if"
  PROVE  /\ block(i.nodes, n, arm)[j][2] \in (n + 1)..Len(i.nodes)
         /\ \A m \in DOMAIN i.nodes, way \in Ways :
              block(i.nodes, n, arm)[j] \in Range(block(i.nodes, m, way)) => m = n /\ way = arm
  <1>1. /\ block(i.nodes, n, arm)[j][2] \in DOMAIN i.nodes /\ n < block(i.nodes, n, arm)[j][2]
        /\ \A m \in DOMAIN i.nodes, way \in Ways :
             block(i.nodes, n, arm)[j] \in Range(block(i.nodes, m, way)) => m = n /\ way = arm
    <2>1. \A w \in Ways : \A l \in DOMAIN block(i.nodes, n, w) :
            block(i.nodes, n, w)[l][1] = "if" =>
              /\ block(i.nodes, n, w)[l][2] \in DOMAIN i.nodes /\ n < block(i.nodes, n, w)[l][2]
              /\ \A m \in DOMAIN i.nodes, way \in Ways :
                   block(i.nodes, n, w)[l] \in Range(block(i.nodes, m, way)) => m = n /\ way = w
      BY DispatchAssumption DEF Ways
    <2>. QED  BY <2>1
  <1>2. DOMAIN i.nodes = 1..Len(i.nodes) /\ n \in Nat
    BY InterpreterShape
  <1>3. block(i.nodes, n, arm)[j][2] \in (n + 1)..Len(i.nodes)
    BY <1>1, <1>2
  <1>. QED  BY <1>1, <1>3

(* A block of a straight interpreter is plain, or leads to a node.         *)
LEMMA BlockForm ==
  ASSUME NEW i \in Dispatchers, straight(i), NEW n \in DOMAIN i.nodes, NEW arm \in Ways
  PROVE  \/ blocks(block(i.nodes, n, arm)) = {}
            /\ \A j \in DOMAIN block(i.nodes, n, arm) : block(i.nodes, n, arm)[j][1] # "if"
         \/ \E m \in (n + 1)..Len(i.nodes) : block(i.nodes, n, arm) = <<<<"if", m>>>>
  <1>1. PICK b \in Seq(Items) : b = block(i.nodes, n, arm)
    BY InterpreterShape
  <1>2. CASE blocks(b) = {}
    BY <1>1, <1>2 DEF blocks
  <1>3. CASE blocks(b) # {}
    <2>1. b[1][1] = "if" /\ Len(b) = 1
      BY <1>1, <1>3 DEF straight
    <2>2. 1 \in DOMAIN b /\ b = <<b[1]>> /\ b[1] \in Items
      BY <2>1, One
    <2>3. b[1][2] \in (n + 1)..Len(i.nodes)
      BY <1>1, <2>1, <2>2, Placed
    <2>4. b[1] = <<"if", b[1][2]>>
      BY <2>1, <2>2 DEF Items
    <2>. QED  BY <1>1, <2>2, <2>3, <2>4
  <1>. QED  BY <1>1, <1>2, <1>3

(* What is taken is one of the blocks.                                     *)
LEMMA ArmTaken ==
  ASSUME NEW s, NEW n, NEW op
  PROVE  armOf(s, n, op) \in Ways /\ taken(s, n, op) = block(s, n, armOf(s, n, op))
  BY DEF armOf, taken, Ways

(* Where an opcode goes from a node; 0 if it goes no further.              *)
child(s, n, op) == IF blocks(taken(s, n, op)) = {} THEN 0 ELSE taken(s, n, op)[1][2]

(* An opcode goes on to a later node, or runs a plain block.               *)
LEMMA Child ==
  ASSUME NEW i \in Dispatchers, straight(i), NEW n \in DOMAIN i.nodes, NEW op
  PROVE  /\ taken(i.nodes, n, op) \in Seq(Items)
         /\ child(i.nodes, n, op) = 0 =>
              \A j \in DOMAIN taken(i.nodes, n, op) : taken(i.nodes, n, op)[j][1] # "if"
         /\ child(i.nodes, n, op) # 0 =>
              /\ child(i.nodes, n, op) \in (n + 1)..Len(i.nodes)
              /\ taken(i.nodes, n, op) = <<<<"if", child(i.nodes, n, op)>>>>
  <1>1. PICK arm \in Ways : taken(i.nodes, n, op) = block(i.nodes, n, arm)
    BY ArmTaken
  <1>2. taken(i.nodes, n, op) \in Seq(Items) /\ n \in Nat
    BY <1>1, InterpreterShape
  <1>3. CASE blocks(taken(i.nodes, n, op)) = {}
    <2>1. child(i.nodes, n, op) = 0
      BY <1>3 DEF child
    <2>2. \A j \in DOMAIN taken(i.nodes, n, op) : taken(i.nodes, n, op)[j][1] # "if"
      BY <1>3 DEF blocks
    <2>. QED  BY <1>2, <2>1, <2>2
  <1>4. CASE blocks(taken(i.nodes, n, op)) # {}
    <2>1. PICK m \in (n + 1)..Len(i.nodes) : taken(i.nodes, n, op) = <<<<"if", m>>>>
      BY <1>1, <1>4, BlockForm
    <2>2. taken(i.nodes, n, op)[1] = <<"if", m>>
      BY <2>1, OneLong
    <2>3. child(i.nodes, n, op) = m
      BY <1>4, <2>2 DEF child
    <2>4. m # 0
      BY <1>2
    <2>. QED  BY <1>2, <2>1, <2>3, <2>4
  <1>. QED  BY <1>3, <1>4

(* The tests met from a node on, and what is run.                          *)
LEMMA MeetsAt ==
  ASSUME NEW i \in Dispatchers, NEW op
  PROVE  \A n \in DOMAIN i.nodes :
           /\ meets(i.nodes, op)[n] \in SUBSET (1..Len(i.nodes))
           /\ meets(i.nodes, op)[n] =
                IF ~i.nodes[n].test THEN {}
                ELSE {n} \cup UNION {meets(i.nodes, op)[item[2]] :
                                      item \in {x \in Range(taken(i.nodes, n, op)) : x[1] = "if"}}
  <1> DEFINE s == i.nodes
  <1>1. PICK N \in Nat : N = Len(s) /\ DOMAIN s = 1..N
    BY InterpreterShape
  <1> DEFINE V == SUBSET (1..N)
             further(n) == {x \in Range(taken(s, n, op)) : x[1] = "if"}
             step(n, f) == IF ~s[n].test THEN {} ELSE {n} \cup UNION {f[item[2]] : item \in further(n)}
             G == [p \in (1..N) \X [1..N -> V] |-> step(p[1], p[2])]
  <1>2. \A n \in 1..N : \A item \in further(n) : item[2] \in (n + 1)..N
    <2> SUFFICES ASSUME NEW n \in 1..N, NEW item \in further(n)
                 PROVE  item[2] \in (n + 1)..N
      OBVIOUS
    <2>1. PICK arm \in Ways : taken(s, n, op) = block(s, n, arm)
      BY ArmTaken
    <2>2. PICK j \in DOMAIN block(s, n, arm) : item = block(s, n, arm)[j]
      BY <2>1 DEF Range
    <2>. QED  BY <1>1, <2>2, Placed
  <1> HIDE DEF further
  <1>3. \A n \in 1..N, f \in [1..N -> V] : step(n, f) \in V
    <2> SUFFICES ASSUME NEW n \in 1..N, NEW f \in [1..N -> V], NEW item \in further(n)
                 PROVE  f[item[2]] \in V
      OBVIOUS
    <2>. QED  BY <1>2
  <1>4. \A n \in 1..N, f, g \in [1..N -> V] : (\A c \in (n + 1)..N : f[c] = g[c]) => step(n, f) = step(n, g)
    <2> SUFFICES ASSUME NEW n \in 1..N, NEW f \in [1..N -> V], NEW g \in [1..N -> V],
                        \A c \in (n + 1)..N : f[c] = g[c]
                 PROVE  step(n, f) = step(n, g)
      <3> HIDE DEF step, V
      <3>. QED  OBVIOUS
    <2>1. \A item \in further(n) : f[item[2]] = g[item[2]]
      BY <1>2
    <2>2. {f[item[2]] : item \in further(n)} = {g[item[2]] : item \in further(n)}
      BY <2>1
    <2>. QED  BY <2>2
  <1> HIDE DEF step
  <1>5. \A n \in 1..N, f \in [1..N -> V] : G[<<n, f>>] = step(n, f)
    <2> HIDE DEF V
    <2>. QED  OBVIOUS
  <1>6. G \in [(1..N) \X [1..N -> V] -> V]
    <2> HIDE DEF V
    <2>. QED  BY <1>3
  <1> HIDE DEF G
  <1>7. PICK f \in [1..N -> V] : DefinedBy(f, N, G)
    <2>1. V # {}
      OBVIOUS
    <2> HIDE DEF V
    <2>2. ReadsBehind(N, V, G)
      BY <1>4, <1>5 DEF ReadsBehind
    <2>. QED  BY <1>6, <2>1, <2>2, DefinedFromBehind
  <1>8. f = [n \in DOMAIN s |-> step(n, f)]
    <2> HIDE DEF V
    <2>1. \A n \in 1..N : f[n] = step(n, f)
      BY <1>5, <1>7 DEF DefinedBy
    <2>. QED  BY <1>1, <2>1
  <1>9. meets(s, op) = [n \in DOMAIN s |-> step(n, meets(s, op))]
    BY <1>8 DEF meets, step, further
  <1>10. \A n \in 1..N : meets(s, op)[n] = step(n, meets(s, op))
    BY <1>1, <1>9
  <1> DEFINE S == {n \in 1..N : meets(s, op)[n] \in V}
  <1>11. \A n \in 1..N : n \in S
    <2>1. ASSUME NEW n \in 1..N, \A k \in (n + 1)..N : k \in S
          PROVE  n \in S
      <3>1. \A item \in further(n) : meets(s, op)[item[2]] \in V
        BY <1>2, <2>1
      <3>2. step(n, meets(s, op)) \in V
        BY <3>1 DEF step
      <3>. QED  BY <1>10, <3>2
    <2> HIDE DEF S
    <2>. QED  BY <2>1, FromBehind
  <1>12. \A n \in 1..N : /\ meets(s, op)[n] \in SUBSET (1..N)
                          /\ meets(s, op)[n] = step(n, meets(s, op))
    BY <1>10, <1>11
  <1>13. \A n : step(n, meets(s, op)) =
            IF ~s[n].test THEN {}
            ELSE {n} \cup UNION {meets(s, op)[item[2]] : item \in {x \in Range(taken(s, n, op)) : x[1] = "if"}}
    BY Zenon DEF step, further
  <1> HIDE DEF S
  <1>14. \A n \in 1..N :
           /\ meets(s, op)[n] \in SUBSET (1..N)
           /\ meets(s, op)[n] =
                IF ~s[n].test THEN {}
                ELSE {n} \cup UNION {meets(s, op)[item[2]] : item \in {x \in Range(taken(s, n, op)) : x[1] = "if"}}
    BY <1>12, <1>13, Zenon
  <1>. QED  BY <1>1, <1>14

(* In a straight interpreter the tests met are those of a path.            *)
LEMMA PathMet ==
  ASSUME NEW i \in Dispatchers, straight(i), NEW op, NEW n \in DOMAIN i.nodes
  PROVE  LET c == child(i.nodes, n, op)
         IN  meets(i.nodes, op)[n] =
               IF ~i.nodes[n].test THEN {} ELSE {n} \cup IF c = 0 THEN {} ELSE meets(i.nodes, op)[c]
  <1> DEFINE s == i.nodes
             c == child(s, n, op)
             further == {x \in Range(taken(s, n, op)) : x[1] = "if"}
             met == meets(s, op)
  <1>1. met[n] = IF ~s[n].test THEN {} ELSE {n} \cup UNION {met[item[2]] : item \in further}
    BY MeetsAt
  <1>2. CASE c = 0
    <2>1. \A j \in DOMAIN taken(s, n, op) : taken(s, n, op)[j][1] # "if"
      BY <1>2, Child
    <2>2. further = {}
      BY <2>1 DEF Range
    <2> HIDE DEF further
    <2>3. {met[item[2]] : item \in further} = {}
      BY <2>2
    <2>. QED  BY <1>1, <1>2, <2>3
  <1>3. CASE c # 0
    <2>1. taken(s, n, op) = <<<<"if", c>>>>
      BY <1>3, Child
    <2>2. Range(<<<<"if", c>>>>) = {<<"if", c>>}
      BY DEF Range
    <2>3. further = {<<"if", c>>}
      BY <2>1, <2>2
    <2> HIDE DEF further, met, c
    <2>4. {met[item[2]] : item \in further} = {met[c]}
      BY <2>3
    <2>. QED  BY <1>1, <1>3, <2>4 DEF met, c
  <1>. QED  BY <1>2, <1>3

(* And what is run is what the path ends at.                               *)
LEMMA PathRun ==
  ASSUME NEW i \in Dispatchers, straight(i), NEW op
  PROVE  \A n \in DOMAIN i.nodes :
           runs(i.nodes, op)[n] =
             IF ~i.nodes[n].test THEN <<<<"if", n>>>>
             ELSE IF child(i.nodes, n, op) = 0 THEN taken(i.nodes, n, op) ELSE runs(i.nodes, op)[child(i.nodes, n, op)]
  <1> DEFINE s == i.nodes
  <1>1. PICK N \in Nat : N = Len(s) /\ DOMAIN s = 1..N
    BY InterpreterShape
  <1> DEFINE V == Seq(Items)
             parts(n, f) == [j \in DOMAIN taken(s, n, op) |->
                              IF taken(s, n, op)[j][1] = "if" THEN f[taken(s, n, op)[j][2]] ELSE <<taken(s, n, op)[j]>>]
             step(n, f) == IF ~s[n].test THEN <<<<"if", n>>>> ELSE FlattenSeq(parts(n, f))
             short(n, f) == IF ~s[n].test THEN <<<<"if", n>>>>
                            ELSE IF child(s, n, op) = 0 THEN taken(s, n, op) ELSE f[child(s, n, op)]
             G == [p \in (1..N) \X [1..N -> V] |-> step(p[1], p[2])]
  <1>2. ASSUME NEW n \in 1..N, NEW f
        PROVE  step(n, f) = short(n, f)
    <2>1. CASE child(s, n, op) = 0
      <3>1. PICK b \in Seq(Items) : b = taken(s, n, op)
        BY <1>1, Child
      <3>2. \A j \in DOMAIN b : b[j][1] # "if"
        BY <1>1, <2>1, <3>1, Child
      <3>3. parts(n, f) = [j \in DOMAIN b |-> <<b[j]>>]
        BY <3>1, <3>2
      <3> HIDE DEF parts
      <3>4. FlattenSeq(parts(n, f)) = b
        BY <3>3, JoinedSingles
      <3>. QED  BY <2>1, <3>1, <3>4
    <2>2. CASE child(s, n, op) # 0
      <3>1. PICK m : m = child(s, n, op)
        OBVIOUS
      <3>2. taken(s, n, op) = <<<<"if", m>>>>
        BY <1>1, <2>2, <3>1, Child
      <3>3. parts(n, f) = <<f[m]>>
        <4>1. parts(n, f) = [j \in DOMAIN <<<<"if", m>>>> |->
                               IF <<<<"if", m>>>>[j][1] = "if" THEN f[<<<<"if", m>>>>[j][2]] ELSE <<<<<<"if", m>>>>[j]>>]
          BY <3>2
        <4>2. DOMAIN <<<<"if", m>>>> = {1} /\ <<<<"if", m>>>>[1] = <<"if", m>>
          OBVIOUS
        <4>3. parts(n, f) = [j \in {1} |-> f[m]]
          <5> HIDE DEF parts
          <5>. QED  BY <4>1, <4>2
        <4>4. <<f[m]>> = [j \in {1} |-> f[m]]
          OBVIOUS
        <4> HIDE DEF parts
        <4>. QED  BY <4>3, <4>4
      <3>4. FlattenSeq(parts(n, f)) = f[m]
        <4> HIDE DEF parts
        <4>. QED  BY <3>3, JoinedOne
      <3> HIDE DEF parts
      <3>. QED  BY <2>2, <3>1, <3>4
    <2>. QED  BY <2>1, <2>2
  <1> HIDE DEF step
  <1>3. \A n \in 1..N : child(s, n, op) = 0 \/ child(s, n, op) \in (n + 1)..N
    BY <1>1, Child
  <1>4. \A n \in 1..N, f \in [1..N -> V] : step(n, f) \in V
    <2> SUFFICES ASSUME NEW n \in 1..N, NEW f \in [1..N -> V]
                 PROVE  short(n, f) \in V
      <3> HIDE DEF short, V
      <3>. QED  BY <1>2
    <2>1. <<<<"if", n>>>> \in Seq(Items)
      <3>1. <<"if", n>> \in Items
        BY DEF Items
      <3>. QED  BY <3>1
    <2>2. taken(s, n, op) \in Seq(Items)
      BY <1>1, Child
    <2>3. child(s, n, op) # 0 => f[child(s, n, op)] \in V
      <3>1. child(s, n, op) # 0 => child(s, n, op) \in 1..N
        BY <1>3
      <3> HIDE DEF V
      <3>. QED  BY <3>1
    <2>. QED  BY <2>1, <2>2, <2>3
  <1>5. \A n \in 1..N, f, g \in [1..N -> V] : (\A c \in (n + 1)..N : f[c] = g[c]) => step(n, f) = step(n, g)
    <2> SUFFICES ASSUME NEW n \in 1..N, NEW f \in [1..N -> V], NEW g \in [1..N -> V],
                        \A c \in (n + 1)..N : f[c] = g[c]
                 PROVE  step(n, f) = step(n, g)
      <3> HIDE DEF V
      <3>. QED  OBVIOUS
    <2>1. short(n, f) = short(n, g)
      BY <1>3
    <2> HIDE DEF short
    <2>. QED  BY <1>2, <2>1
  <1>6. \A n \in 1..N, f \in [1..N -> V] : G[<<n, f>>] = step(n, f)
    <2> HIDE DEF V
    <2>. QED  OBVIOUS
  <1>7. G \in [(1..N) \X [1..N -> V] -> V]
    <2> HIDE DEF V
    <2>. QED  BY <1>4
  <1> HIDE DEF G
  <1>8. PICK f \in [1..N -> V] : DefinedBy(f, N, G)
    <2>1. V # {}
      <3>1. <<>> \in Seq(Items)
        OBVIOUS
      <3>. QED  BY <3>1
    <2> HIDE DEF V
    <2>2. ReadsBehind(N, V, G)
      BY <1>5, <1>6 DEF ReadsBehind
    <2>. QED  BY <1>7, <2>1, <2>2, DefinedFromBehind
  <1>9. f = [n \in DOMAIN s |-> step(n, f)]
    <2> HIDE DEF V
    <2>1. \A n \in 1..N : f[n] = step(n, f)
      BY <1>6, <1>8 DEF DefinedBy
    <2>. QED  BY <1>1, <2>1
  <1>10. runs(s, op) = [n \in DOMAIN s |-> step(n, runs(s, op))]
    BY <1>9 DEF runs, step
  <1>11. \A n \in 1..N : runs(s, op)[n] = step(n, runs(s, op))
    BY <1>1, <1>10
  <1>12. \A n \in 1..N : runs(s, op)[n] = short(n, runs(s, op))
    <2> HIDE DEF short
    <2>. QED  BY <1>2, <1>11
  <1>. QED  BY <1>1, <1>12

(* What holds of the nodes met from a node on: they are tests, one leads   *)
(* to the next, and all of them to the same statements.                    *)
LEMMA Walked ==
  ASSUME NEW i \in Dispatchers, straight(i), NEW op, NEW k \in DOMAIN i.nodes, NEW n \in meets(i.nodes, op)[k]
  PROVE  LET s == i.nodes
             c == child(s, n, op)
             met == meets(s, op)[k]
         IN  /\ n \in k..Len(s) /\ s[n].test /\ runs(s, op)[n] = runs(s, op)[k]
             /\ c # 0 /\ s[c].test => c \in met
             /\ c = 0 \/ ~s[c].test => \A m \in met : m <= n
             /\ n # k => \E p \in met : child(s, p, op) = n
  <1> DEFINE s == i.nodes
             c(q) == child(s, q, op)
             met(q) == meets(s, op)[q]
             run == runs(s, op)
             sound(q, m) == /\ m \in q..Len(s) /\ s[m].test /\ run[m] = run[q]
                            /\ c(m) # 0 /\ s[c(m)].test => c(m) \in met(q)
                            /\ c(m) = 0 \/ ~s[c(m)].test => \A l \in met(q) : l <= m
                            /\ m # q => \E p \in met(q) : c(p) = m
             S == {q \in 1..Len(s) : \A m \in met(q) : sound(q, m)}
  <1>1. PICK N \in Nat : N = Len(s) /\ DOMAIN s = 1..N
    BY InterpreterShape
  <1>2. \A q \in 1..N : met(q) = IF ~s[q].test THEN {} ELSE {q} \cup IF c(q) = 0 THEN {} ELSE met(c(q))
    BY <1>1, PathMet
  <1>3. \A q \in 1..N : run[q] = IF ~s[q].test THEN <<<<"if", q>>>>
                               ELSE IF c(q) = 0 THEN taken(s, q, op) ELSE run[c(q)]
    BY <1>1, PathRun
  <1>4. \A q \in 1..N : c(q) = 0 \/ c(q) \in (q + 1)..N
    BY <1>1, Child
  <1> HIDE DEF c, met, run
  <1>5. ASSUME NEW q \in 1..N, \A m \in (q + 1)..N : m \in S
        PROVE  q \in S
    <2> SUFFICES ASSUME NEW m \in met(q)
                 PROVE  sound(q, m)
      BY <1>1
    <2>1. s[q].test /\ (m = q \/ (c(q) # 0 /\ m \in met(c(q))))
      BY <1>2
    <2>2. CASE c(q) = 0
      <3>1. met(q) = {q} /\ m = q
        BY <1>2, <2>1, <2>2
      <3>. QED  BY <1>1, <2>1, <2>2, <3>1
    <2>3. CASE c(q) # 0
      <3>1. PICK d \in (q + 1)..N : d = c(q) /\ d \in S
        BY <1>4, <1>5, <2>3
      <3>2. met(q) = {q} \cup met(d) /\ run[q] = run[d]
        BY <1>2, <1>3, <2>1, <2>3, <3>1
      <3>3. \A l \in met(d) : sound(d, l)
        BY <3>1
      <3>4. CASE s[d].test
        <4>1. d \in met(d)
          BY <1>2, <3>1, <3>4
        <4>2. CASE m = q
          <5>. QED  BY <1>1, <2>1, <3>1, <3>2, <3>4, <4>1, <4>2
        <4>3. CASE m # q
          <5>1. m \in met(d) /\ sound(d, m)
            BY <3>2, <3>3, <4>3
          <5>2. m \in q..N /\ s[m].test /\ run[m] = run[q] /\ m \in Nat /\ q <= m
            BY <1>1, <3>1, <3>2, <5>1
          <5>3. c(m) # 0 /\ s[c(m)].test => c(m) \in met(q)
            BY <3>2, <5>1
          <5>4. c(m) = 0 \/ ~s[c(m)].test => \A l \in met(q) : l <= m
            BY <3>2, <5>1, <5>2
          <5>5. \E p \in met(q) : c(p) = m
            <6>1. CASE m = d
              BY <3>1, <3>2, <6>1
            <6>2. CASE m # d
              BY <3>2, <5>1, <6>2
            <6>. QED  BY <6>1, <6>2
          <5>. QED  BY <1>1, <5>2, <5>3, <5>4, <5>5
        <4>. QED  BY <4>2, <4>3
      <3>5. CASE ~s[d].test
        <4>1. met(d) = {}
          BY <1>2, <3>1, <3>5
        <4>2. met(q) = {q} /\ m = q
          BY <3>2, <4>1
        <4>. QED  BY <1>1, <2>1, <3>1, <3>5, <4>2
      <3>. QED  BY <3>4, <3>5
    <2>. QED  BY <2>2, <2>3
  <1>6. \A q \in 1..N : q \in S
    <2> HIDE DEF S
    <2>. QED  BY <1>5, FromBehind
  <1>7. k \in S /\ n \in met(k)
    BY <1>1, <1>6 DEF met
  <1>8. sound(k, n)
    BY <1>7
  <1>. QED  BY <1>8 DEF c, met, run

(* The opcodes that meet a test, and those it sends through an arm.        *)
reach(s, n) == {op \in Opcodes : n \in meets(s, op)[1]}
arrives(s, n, arm) == {op \in Opcodes : n \in meets(s, op)[1] /\ armOf(s, n, op) = arm}

(* No test follows in the arm.                                             *)
last(s, n, arm) == blocks(block(s, n, arm)) = {} \/ ~s[block(s, n, arm)[1][2]].test

(* It goes where its arm leads.                                            *)
LEMMA ChildOfArm ==
  ASSUME NEW s, NEW n, NEW op, NEW arm, armOf(s, n, op) = arm
  PROVE  /\ taken(s, n, op) = block(s, n, arm)
         /\ child(s, n, op) = IF blocks(block(s, n, arm)) = {} THEN 0 ELSE block(s, n, arm)[1][2]
  BY DEF taken, child

(* What consecutive says.                                                  *)
LEMMA Consecutive ==
  ASSUME NEW i \in Dispatchers, consecutive(i)
  PROVE  /\ straight(i) /\ i.begins /\ i.complete /\ 1 \in DOMAIN i.nodes
         /\ \A n \in DOMAIN i.nodes :
              /\ n \in 1..Len(i.nodes) /\ i.nodes[n].k \in Int /\ i.nodes[n].kind # "elseif"
              /\ i.nodes[n].test /\ reach(i.nodes, n) # {} =>
                   /\ i.nodes[n].k \in reach(i.nodes, n)
                   /\ \E a, b \in Int : reach(i.nodes, n) = a..b
  <1> DEFINE s == i.nodes
  <1>1. straight(i) /\ i.begins /\ i.complete
    BY DEF consecutive, straight, Ways
  <1>2. \A n \in DOMAIN s : /\ s[n].kind # "elseif"
                            /\ s[n].test /\ reach(s, n) # {} =>
                                 s[n].k \in reach(s, n) /\ reach(s, n) = Min(reach(s, n))..Max(reach(s, n))
    BY DEF consecutive, reach
  <1>3. \A n \in DOMAIN s : n \in 1..Len(s) /\ s[n].k \in Int
    BY InterpreterShape DEF TestNode
  <1>4. ASSUME NEW n \in DOMAIN s, reach(s, n) # {}
        PROVE  Min(reach(s, n)) \in Int /\ Max(reach(s, n)) \in Int
    <2>1. PICK R : R = reach(s, n)
      OBVIOUS
    <2>2. R \in SUBSET (0..MaxOpcode) /\ MaxOpcode \in Nat /\ R # {}
      BY <1>4, <2>1, DispatchAssumption DEF reach, Opcodes
    <2>3. PICK a \in R : \A y \in R : a <= y
      BY <2>2, Least
    <2>4. PICK b \in R : \A y \in R : y <= b
      <3> DEFINE T == {MaxOpcode - y : y \in R}
      <3>1. T \in SUBSET Nat /\ T # {}
        BY <2>2
      <3>2. PICK t \in T : \A y \in T : t <= y
        <4> HIDE DEF T
        <4>. QED  BY <3>1, Least
      <3>3. PICK b \in R : t = MaxOpcode - b
        BY <3>2
      <3>4. \A y \in R : MaxOpcode - b <= MaxOpcode - y
        BY <3>2, <3>3
      <3>. QED  BY <2>2, <3>4
    <2>5. Min(R) \in R /\ Max(R) \in R
      BY <2>2, <2>3, <2>4 DEF Min, Max
    <2>. QED  BY <2>1, <2>2, <2>5
  <1>. QED  BY <1>1, <1>2, <1>3, <1>4, InterpreterShape

(* A statement that is a block of its own stands nowhere else.             *)
LEMMA NextPlaced ==
  ASSUME NEW i \in Dispatchers, NEW n \in DOMAIN i.nodes, NEW arm \in Ways, NEW m,
         block(i.nodes, n, arm) = <<<<"if", m>>>>
  PROVE  /\ m \in (n + 1)..Len(i.nodes)
         /\ \A p \in DOMAIN i.nodes, way \in Ways :
              <<"if", m>> \in Range(block(i.nodes, p, way)) => p = n /\ way = arm
  <1>1. PICK b : b = block(i.nodes, n, arm)
    OBVIOUS
  <1>2. b[1] = <<"if", m>> /\ 1 \in DOMAIN b
    BY <1>1, OneLong
  <1>3. b[1][1] = "if" /\ b[1][2] = m
    BY <1>2
  <1>4. 1 \in DOMAIN block(i.nodes, n, arm) /\ block(i.nodes, n, arm)[1][1] = "if"
    BY <1>1, <1>2, <1>3
  <1>5. block(i.nodes, n, arm)[1][2] \in (n + 1)..Len(i.nodes)
    BY <1>4, Placed
  <1>6. \A p \in DOMAIN i.nodes, way \in Ways :
          block(i.nodes, n, arm)[1] \in Range(block(i.nodes, p, way)) => p = n /\ way = arm
    BY <1>4, Placed
  <1>7. \A p \in DOMAIN i.nodes, way \in Ways :
          b[1] \in Range(block(i.nodes, p, way)) => p = n /\ way = arm
    BY <1>1, <1>6
  <1>8. b[1][2] \in (n + 1)..Len(i.nodes)
    BY <1>1, <1>5
  <1>. QED  BY <1>2, <1>3, <1>7, <1>8

(* Every opcode meets the first test.                                      *)
LEMMA RootReached ==
  ASSUME NEW i \in Dispatchers, straight(i), i.begins
  PROVE  /\ i.nodes[1].test => reach(i.nodes, 1) = Opcodes
         /\ ~i.nodes[1].test => \A op : meets(i.nodes, op)[1] = {} /\ runs(i.nodes, op)[1] = <<<<"if", 1>>>>
  <1>1. 1 \in DOMAIN i.nodes
    BY InterpreterShape
  <1>2. \A op : i.nodes[1].test => 1 \in meets(i.nodes, op)[1]
    <2> SUFFICES ASSUME NEW op, i.nodes[1].test
                 PROVE  1 \in meets(i.nodes, op)[1]
      OBVIOUS
    <2>1. meets(i.nodes, op)[1] =
            IF ~i.nodes[1].test THEN {}
            ELSE {1} \cup IF child(i.nodes, 1, op) = 0 THEN {} ELSE meets(i.nodes, op)[child(i.nodes, 1, op)]
      BY <1>1, PathMet, Zenon
    <2>. QED  BY <2>1, Zenon
  <1>3. \A op : ~i.nodes[1].test => meets(i.nodes, op)[1] = {} /\ runs(i.nodes, op)[1] = <<<<"if", 1>>>>
    BY <1>1, PathMet, PathRun
  <1>. QED  BY <1>2, <1>3 DEF reach

(* A test in an arm is met by the opcodes sent through the arm.            *)
LEMMA ArmReached ==
  ASSUME NEW i \in Dispatchers, straight(i), i.begins, NEW n \in DOMAIN i.nodes, NEW arm \in Ways,
         NEW m \in DOMAIN i.nodes, block(i.nodes, n, arm) = <<<<"if", m>>>>, i.nodes[m].test
  PROVE  reach(i.nodes, m) = arrives(i.nodes, n, arm)
  <1> DEFINE s == i.nodes
  <1>1. PICK b : b = block(s, n, arm) /\ b[1] = <<"if", m>> /\ 1 \in DOMAIN b /\ Len(b) = 1
    BY OneLong
  <1>2. blocks(b) # {}
    BY <1>1 DEF blocks
  <1>3. 1 \in DOMAIN s /\ n \in 1..Len(s) /\ m \in 1..Len(s) /\ Len(s) \in Nat
    BY InterpreterShape
  <1>4. m \in (n + 1)..Len(s) /\ \A p \in DOMAIN s, way \in Ways :
                                    <<"if", m>> \in Range(block(s, p, way)) => p = n /\ way = arm
    BY NextPlaced
  <1>5. ASSUME NEW op \in arrives(s, n, arm)
        PROVE  op \in reach(s, m)
    <2>1. op \in Opcodes /\ n \in meets(s, op)[1] /\ armOf(s, n, op) = arm
      BY <1>5 DEF arrives
    <2>2. child(s, n, op) = m
      BY <1>1, <1>2, <2>1, ChildOfArm
    <2>3. m # 0
      BY <1>3
    <2>4. m \in meets(s, op)[1]
      BY <1>3, <2>1, <2>2, <2>3, Walked
    <2>. QED  BY <2>1, <2>4 DEF reach
  <1>6. ASSUME NEW op \in reach(s, m)
        PROVE  op \in arrives(s, n, arm)
    <2>1. op \in Opcodes /\ m \in meets(s, op)[1] /\ m # 1 /\ m # 0
      BY <1>3, <1>4, <1>6 DEF reach
    <2>2. PICK p \in meets(s, op)[1] : child(s, p, op) = m
      BY <1>3, <2>1, Walked
    <2>3. p \in DOMAIN s
      <3>1. meets(s, op)[1] \in SUBSET (1..Len(s))
        BY <1>3, MeetsAt
      <3>. QED  BY <2>2, <3>1, InterpreterShape
    <2>4. PICK way \in Ways : way = armOf(s, p, op) /\ taken(s, p, op) = block(s, p, way)
      BY ArmTaken
    <2>5. block(s, p, way) = <<<<"if", m>>>>
      BY <2>1, <2>2, <2>3, <2>4, Child
    <2>6. <<"if", m>> \in Range(block(s, p, way))
      BY <2>5, OneLong DEF Range
    <2>7. p = n /\ way = arm
      BY <1>4, <2>3, <2>6
    <2>. QED  BY <2>1, <2>2, <2>4, <2>7 DEF arrives
  <1>. QED  BY <1>5, <1>6

(* Where the opcodes of an arm end whose tests are over.                   *)
LEMMA ArmEnds ==
  ASSUME NEW i \in Dispatchers, straight(i), i.begins, NEW n \in DOMAIN i.nodes, NEW arm \in Ways,
         last(i.nodes, n, arm), NEW op \in Opcodes
  PROVE  /\ endOf(i.nodes, op) = <<n, arm>> <=> op \in arrives(i.nodes, n, arm)
         /\ op \in arrives(i.nodes, n, arm) => runs(i.nodes, op)[1] = block(i.nodes, n, arm)
  <1> DEFINE s == i.nodes
             met == meets(s, op)[1]
  <1>1. 1 \in DOMAIN s /\ met \in SUBSET (1..Len(s)) /\ Len(s) \in Nat /\ n \in 1..Len(s)
    BY InterpreterShape, MeetsAt
  <1>2. ASSUME op \in arrives(s, n, arm)
        PROVE  endOf(s, op) = <<n, arm>> /\ runs(s, op)[1] = block(s, n, arm)
    <2>1. n \in met /\ armOf(s, n, op) = arm
      BY <1>2 DEF arrives
    <2>2. PICK c : c = child(s, n, op)
      OBVIOUS
    <2>3. c = 0 \/ ~s[c].test
      BY <2>1, <2>2, ChildOfArm DEF last
    <2>4. s[n].test /\ runs(s, op)[n] = runs(s, op)[1] /\ \A m \in met : m <= n
      <3>1. s[n].test /\ \A m \in met : m <= n
        BY <1>1, <2>1, <2>2, <2>3, Walked
      <3>2. PICK k \in DOMAIN s : k = 1
        BY <1>1
      <3>3. runs(s, op)[n] = runs(s, op)[k]
        <4>1. n \in meets(s, op)[k]
          BY <2>1, <3>2
        <4>. QED  BY <4>1, Walked
      <3>. QED  BY <3>1, <3>2, <3>3
    <2>5. Max(met) = n
      BY <1>1, <2>1, <2>4 DEF Max
    <2>6. endOf(s, op) = <<n, arm>>
      BY <2>1, <2>5 DEF endOf
    <2>7. taken(s, n, op) = block(s, n, arm)
      BY <2>1, ChildOfArm
    <2>8. CASE c = 0
      BY <2>2, <2>4, <2>7, <2>8, PathRun, <2>6
    <2>9. CASE c # 0
      <3>1. c \in DOMAIN s /\ taken(s, n, op) = <<<<"if", c>>>>
        <4>1. c \in (n + 1)..Len(s) /\ taken(s, n, op) = <<<<"if", c>>>>
          BY <2>2, <2>9, Child
        <4>. QED  BY <1>1, <4>1, InterpreterShape
      <3>2. runs(s, op)[n] = runs(s, op)[c]
        <4>1. runs(s, op)[n] = IF ~s[n].test THEN <<<<"if", n>>>>
                               ELSE IF child(s, n, op) = 0 THEN taken(s, n, op) ELSE runs(s, op)[child(s, n, op)]
          BY PathRun
        <4>. QED  BY <2>2, <2>4, <2>9, <4>1
      <3>3. runs(s, op)[c] = <<<<"if", c>>>>
        BY <2>3, <2>9, <3>1, PathRun
      <3>. QED  BY <2>4, <2>6, <2>7, <3>1, <3>2, <3>3
    <2>. QED  BY <2>8, <2>9
  <1>3. ASSUME endOf(s, op) = <<n, arm>>
        PROVE  op \in arrives(s, n, arm)
    <2>1. met # {} /\ Max(met) = n /\ armOf(s, n, op) = arm
      <3>1. met # {}
        <4>1. ASSUME met = {}
              PROVE  n = 0
          <5>1. <<n, arm>> = <<0, "none">>
            BY <1>3, <4>1 DEF endOf
          <5>. QED  BY <5>1
        <4>. QED  BY <1>1, <4>1
      <3>2. <<n, arm>> = <<Max(met), armOf(s, Max(met), op)>>
        BY <1>3, <3>1 DEF endOf
      <3>3. n = Max(met) /\ arm = armOf(s, Max(met), op)
        BY <3>2
      <3>. QED  BY <3>1, <3>3
    <2>2. PICK b \in met : \A y \in met : y <= b
      BY <1>1, <2>1, Greatest
    <2>3. Max(met) \in met
      BY <1>1, <2>2 DEF Max
    <2>. QED  BY <2>1, <2>3 DEF arrives
  <1>. QED  BY <1>2, <1>3

(* The opcodes of a run that ends the same way are handled together.       *)
runOf(R, lo, hi) == lo <= hi /\ lo..hi \in SUBSET R /\ lo - 1 \notin R /\ hi + 1 \notin R

(* They are those of the run, so that the run is as long as they are many. *)
LEMMA HandledTogether ==
  ASSUME NEW s, NEW end, NEW lo \in Int, NEW hi \in Int, NEW A \in SUBSET Opcodes, runOf(A, lo, hi),
         \A op \in Opcodes : endOf(s, op) = end <=> op \in A, hasText(s, end)
  PROVE  \A op \in lo..hi : handled(s, op) <=> hi - lo < LEAF_RANGE_CAP
  <1> SUFFICES ASSUME NEW op \in lo..hi
               PROVE  handled(s, op) <=> hi - lo < LEAF_RANGE_CAP
    OBVIOUS
  <1>1. MaxOpcode \in Nat /\ LEAF_RANGE_CAP \in Nat /\ op \in Opcodes /\ endOf(s, op) = end
    BY DispatchAssumption DEF runOf
  <1> DEFINE span(a, b) == IF a < b THEN a..b ELSE b..a
  <1>2. ASSUME NEW q \in lo..hi
        PROVE  q \in together(s, op)
    <2>1. \A w \in span(op, q) : w \in lo..hi
      OBVIOUS
    <2>2. \A w \in span(op, q) : endOf(s, w) = endOf(s, op)
      BY <1>1, <2>1 DEF runOf
    <2>3. q \in Opcodes
      BY DEF runOf
    <2>. QED  BY <2>2, <2>3 DEF together
  <1>3. ASSUME NEW q \in together(s, op)
        PROVE  q \in lo..hi
    <2>1. q \in Opcodes /\ \A w \in span(op, q) : endOf(s, w) = end
      BY <1>1 DEF together
    <2>2. q \in 0..MaxOpcode /\ op \in 0..MaxOpcode
      BY <1>1, <2>1 DEF Opcodes
    <2>3. CASE q > hi
      <3>1. hi + 1 \in span(op, q) /\ hi + 1 \in Opcodes
        BY <1>1, <2>2, <2>3 DEF Opcodes
      <3>. QED  BY <2>1, <3>1 DEF runOf
    <2>4. CASE q < lo
      <3>1. lo - 1 \in span(op, q) /\ lo - 1 \in Opcodes
        BY <1>1, <2>2, <2>4 DEF Opcodes
      <3>. QED  BY <2>1, <3>1 DEF runOf
    <2>. QED  BY <2>2, <2>3, <2>4
  <1>4. together(s, op) = lo..hi
    BY <1>2, <1>3
  <1>5. Cardinality(together(s, op)) = hi - lo + 1
    BY <1>4, FS_Interval
  <1>. QED  BY <1>1, <1>5 DEF handled

(* The ranges of an arm are the runs of its opcodes.                       *)
fits(R, q) ==
  /\ q \in Seq(Int \X Int)
  /\ \A j \in DOMAIN q : q[j][1] > q[j][2] \/ runOf(R, q[j][1], q[j][2])
  /\ \A op \in R : \E j \in DOMAIN q : op \in q[j][1]..q[j][2]

(* An interval is one range,                                               *)
LEMMA OneRange ==
  ASSUME NEW a \in Int, NEW b \in Int
  PROVE  fits(a..b, <<<<a, b>>>>)
  <1>1. PICK r \in Int \X Int : r[1] = a /\ r[2] = b /\ r = <<a, b>>
    OBVIOUS
  <1>2. PICK q \in Seq(Int \X Int) : q = <<r>> /\ DOMAIN q = {1} /\ q[1] = r
    <2>1. <<r>> \in Seq(Int \X Int) /\ DOMAIN <<r>> = {1} /\ <<r>>[1] = r
      OBVIOUS
    <2>. QED  BY <2>1
  <1>3. a > b \/ runOf(a..b, a, b)
    BY DEF runOf
  <1>4. fits(a..b, q)
    BY <1>1, <1>2, <1>3 DEF fits
  <1>. QED  BY <1>1, <1>2, <1>4

(* and an interval with a gap is two.                                      *)
LEMMA TwoRanges ==
  ASSUME NEW a \in Int, NEW b \in Int, NEW k \in a..b, NEW R, R = {x \in a..b : x # k}
  PROVE  fits(R, <<<<a, k - 1>>, <<k + 1, b>>>>)
  <1>0. PICK l, m \in Int : l = k - 1 /\ m = k + 1
    OBVIOUS
  <1>1. PICK r \in Int \X Int : r[1] = a /\ r[2] = k - 1 /\ r = <<a, k - 1>>
    <2>1. <<a, l>> \in Int \X Int /\ <<a, l>>[1] = a /\ <<a, l>>[2] = l
      OBVIOUS
    <2>. QED  BY <1>0, <2>1
  <1>2. PICK t \in Int \X Int : t[1] = k + 1 /\ t[2] = b /\ t = <<k + 1, b>>
    <2>1. <<m, b>> \in Int \X Int /\ <<m, b>>[1] = m /\ <<m, b>>[2] = b
      OBVIOUS
    <2>. QED  BY <1>0, <2>1
  <1>3. PICK q \in Seq(Int \X Int) : q = <<r, t>> /\ DOMAIN q = {1, 2} /\ q[1] = r /\ q[2] = t
    <2>1. <<r, t>> \in Seq(Int \X Int) /\ DOMAIN <<r, t>> = {1, 2} /\ <<r, t>>[1] = r /\ <<r, t>>[2] = t
      OBVIOUS
    <2>. QED  BY <2>1
  <1>4. a > k - 1 \/ runOf(R, a, k - 1)
    BY DEF runOf
  <1>5. k + 1 > b \/ runOf(R, k + 1, b)
    BY DEF runOf
  <1>6. \A op \in R : op \in a..(k - 1) \/ op \in (k + 1)..b
    OBVIOUS
  <1>7. fits(R, q)
    BY <1>1, <1>2, <1>3, <1>4, <1>5, <1>6 DEF fits
  <1>8. q = <<<<a, k - 1>>, <<k + 1, b>>>>
    BY <1>1, <1>2, <1>3
  <1>. QED  BY <1>7, <1>8

(* The opcodes left of a range that an arm is taken by.                    *)
through(n, arm, lo, hi) == {op \in lo..hi : armOf(nodes, n, op) = arm}

(* classifyCondition and the arms: the ranges hold what is sent each way.  *)
LEMMA RangesSplit ==
  ASSUME interpreter \in Dispatchers, NEW n \in DOMAIN nodes, NEW lo \in Int, NEW hi \in Int, nodes[n].k \in lo..hi
  PROVE  /\ fits(through(n, "then", lo, hi), ranges(n, lo, hi).then)
         /\ fits(through(n, "else", lo, hi), ranges(n, lo, hi).else)
  <1> DEFINE o == operator(n)
             k == nodes[n].k
             T == through(n, "then", lo, hi)
             E == through(n, "else", lo, hi)
  <1>1. PICK t \in TestNode : t = nodes[n]
    BY InterpreterShape DEF nodes
  <1>2. /\ o \in {">=", "<", ">", "<=", "==", "~="}
        /\ \A op \in Int : satisfies(op, t) <=>
             CASE o = ">=" -> op >= t.k [] o = "<" -> op < t.k [] o = ">" -> op > t.k
               [] o = "<=" -> op <= t.k [] o = "==" -> op = t.k [] OTHER -> op # t.k
    <2>1. o = IF t.negated THEN inverse[t.op] ELSE t.op
      BY <1>1 DEF operator
    <2>2. t.op \in {">=", "<", ">", "<=", "==", "~="} /\ t.k \in Int /\ t.negated \in BOOLEAN
      BY DEF TestNode
    <2>3. /\ inverse[">="] = "<" /\ inverse["<"] = ">=" /\ inverse[">"] = "<=" /\ inverse["<="] = ">"
          /\ inverse["=="] = "~=" /\ inverse["~="] = "=="
      BY DEF inverse
    <2>. QED  BY <2>1, <2>2, <2>3 DEF satisfies
  <1>3. T = {op \in lo..hi : satisfies(op, t)} /\ E = {op \in lo..hi : ~satisfies(op, t)}
    BY <1>1 DEF through, armOf
  <1> HIDE DEF o, T, E
  <1>4. CASE o = ">="
    <2>1. T = k..hi /\ E = lo..(k - 1)
      BY <1>1, <1>2, <1>3, <1>4
    <2>2. ranges(n, lo, hi).then = <<<<k, hi>>>> /\ ranges(n, lo, hi).else = <<<<lo, k - 1>>>>
      BY <1>4 DEF ranges, o
    <2>. QED  BY <2>1, <2>2, OneRange DEF T, E
  <1>5. CASE o = "<"
    <2>1. T = lo..(k - 1) /\ E = k..hi
      BY <1>1, <1>2, <1>3, <1>5
    <2>2. ranges(n, lo, hi).then = <<<<lo, k - 1>>>> /\ ranges(n, lo, hi).else = <<<<k, hi>>>>
      BY <1>5 DEF ranges, o
    <2>. QED  BY <2>1, <2>2, OneRange DEF T, E
  <1>6. CASE o = ">"
    <2>1. T = (k + 1)..hi /\ E = lo..k
      BY <1>1, <1>2, <1>3, <1>6
    <2>2. ranges(n, lo, hi).then = <<<<k + 1, hi>>>> /\ ranges(n, lo, hi).else = <<<<lo, k>>>>
      BY <1>6 DEF ranges, o
    <2>. QED  BY <2>1, <2>2, OneRange DEF T, E
  <1>7. CASE o = "<="
    <2>1. T = lo..k /\ E = (k + 1)..hi
      BY <1>1, <1>2, <1>3, <1>7
    <2>2. ranges(n, lo, hi).then = <<<<lo, k>>>> /\ ranges(n, lo, hi).else = <<<<k + 1, hi>>>>
      BY <1>7 DEF ranges, o
    <2>. QED  BY <2>1, <2>2, OneRange DEF T, E
  <1>8. CASE o = "=="
    <2>1. T = k..k /\ E = {x \in lo..hi : x # k}
      BY <1>1, <1>2, <1>3, <1>8
    <2>2. ranges(n, lo, hi).then = <<<<k, k>>>> /\ ranges(n, lo, hi).else = <<<<lo, k - 1>>, <<k + 1, hi>>>>
      BY <1>8 DEF ranges, o
    <2>3. fits(k..k, <<<<k, k>>>>) /\ fits({x \in lo..hi : x # k}, <<<<lo, k - 1>>, <<k + 1, hi>>>>)
      <3>1. PICK v \in lo..hi : v = k
        OBVIOUS
      <3>2. fits(v..v, <<<<v, v>>>>) /\ fits({x \in lo..hi : x # v}, <<<<lo, v - 1>>, <<v + 1, hi>>>>)
        <4>1. fits(v..v, <<<<v, v>>>>)
          <5>1. v \in Int
            OBVIOUS
          <5>. QED  BY <5>1, OneRange
        <4>2. PICK R : R = {x \in lo..hi : x # v}
          OBVIOUS
        <4>3. fits(R, <<<<lo, v - 1>>, <<v + 1, hi>>>>)
          BY <4>2, TwoRanges
        <4>. QED  BY <4>1, <4>2, <4>3
      <3>. QED  BY <3>1, <3>2
    <2>. QED  BY <2>1, <2>2, <2>3 DEF T, E
  <1>9. CASE o = "~="
    <2>1. E = k..k /\ T = {x \in lo..hi : x # k}
      BY <1>1, <1>2, <1>3, <1>9
    <2>2. ranges(n, lo, hi).else = <<<<k, k>>>> /\ ranges(n, lo, hi).then = <<<<lo, k - 1>>, <<k + 1, hi>>>>
      BY <1>9 DEF ranges, o
    <2>3. fits(k..k, <<<<k, k>>>>) /\ fits({x \in lo..hi : x # k}, <<<<lo, k - 1>>, <<k + 1, hi>>>>)
      <3>1. PICK v \in lo..hi : v = k
        OBVIOUS
      <3>2. fits(v..v, <<<<v, v>>>>) /\ fits({x \in lo..hi : x # v}, <<<<lo, v - 1>>, <<v + 1, hi>>>>)
        <4>1. fits(v..v, <<<<v, v>>>>)
          <5>1. v \in Int
            OBVIOUS
          <5>. QED  BY <5>1, OneRange
        <4>2. PICK R : R = {x \in lo..hi : x # v}
          OBVIOUS
        <4>3. fits(R, <<<<lo, v - 1>>, <<v + 1, hi>>>>)
          BY <4>2, TwoRanges
        <4>. QED  BY <4>1, <4>2, <4>3
      <3>. QED  BY <3>1, <3>2
    <2>. QED  BY <2>1, <2>2, <2>3 DEF T, E
  <1>. QED  BY <1>2, <1>4, <1>5, <1>6, <1>7, <1>8, <1>9

(* The walks of the arms.                                                  *)
WalkRecord == [items : Seq(Items), next : {0}, lo : Int, hi : Int]

walksIn(items, q) == [j \in DOMAIN q |-> walk(items, 0, q[j])]

(* They stand at their block, one for each range.                          *)
LEMMA WalksIn ==
  ASSUME NEW items \in Seq(Items), NEW q \in Seq(Int \X Int)
  PROVE  /\ walksIn(items, q) \in Seq(WalkRecord)
         /\ \A w \in Range(walksIn(items, q)) : w.items = items /\ \E j \in DOMAIN q : w.lo = q[j][1] /\ w.hi = q[j][2]
         /\ \A j \in DOMAIN q : \E w \in Range(walksIn(items, q)) : w.lo = q[j][1] /\ w.hi = q[j][2]
  <1>1. PICK n \in Nat : n = Len(q) /\ DOMAIN q = 1..n
    OBVIOUS
  <1>2. \A j \in 1..n : q[j] \in Int \X Int
    BY <1>1
  <1>3. \A r \in Int \X Int : /\ walk(items, 0, r) \in WalkRecord
                              /\ walk(items, 0, r).items = items
                              /\ walk(items, 0, r).lo = r[1] /\ walk(items, 0, r).hi = r[2]
    BY DEF walk, WalkRecord
  <1> DEFINE f == walksIn(items, q)
  <1>4. DOMAIN f = 1..n /\ \A j \in 1..n : f[j] = walk(items, 0, q[j])
    BY <1>1 DEF walksIn
  <1>5. f = [j \in 1..n |-> f[j]]
    BY <1>1 DEF walksIn
  <1> HIDE DEF f
  <1>6. f \in [1..n -> WalkRecord]
    BY <1>2, <1>3, <1>4, <1>5
  <1>7. f \in Seq(WalkRecord)
    BY <1>6
  <1>8. \A w \in Range(f) : \E j \in 1..n : w = walk(items, 0, q[j])
    BY <1>4 DEF Range
  <1>9. \A j \in 1..n : walk(items, 0, q[j]) \in Range(f)
    BY <1>4 DEF Range
  <1>10. \A w \in Range(f) : w.items = items /\ \E j \in DOMAIN q : w.lo = q[j][1] /\ w.hi = q[j][2]
    <2> SUFFICES ASSUME NEW w \in Range(f)
                 PROVE  w.items = items /\ \E j \in DOMAIN q : w.lo = q[j][1] /\ w.hi = q[j][2]
      OBVIOUS
    <2>1. PICK j \in 1..n : w = walk(items, 0, q[j])
      BY <1>8
    <2>2. q[j] \in Int \X Int /\ j \in DOMAIN q
      BY <1>1, <1>2
    <2>3. w.items = items /\ w.lo = q[j][1] /\ w.hi = q[j][2]
      BY <1>3, <2>1, <2>2
    <2>. QED  BY <2>2, <2>3
  <1>11. \A j \in DOMAIN q : \E w \in Range(f) : w.lo = q[j][1] /\ w.hi = q[j][2]
    BY <1>1, <1>2, <1>3, <1>9
  <1>. QED  BY <1>7, <1>10, <1>11 DEF f

(* An arm that is not written is not walked.                               *)
LEMMA WalksOf ==
  ASSUME interpreter \in Dispatchers, NEW n \in DOMAIN nodes, nodes[n].kind # "elseif", NEW lo, NEW hi
  PROVE  walksOf(n, lo, hi) =
           walksIn(block(nodes, n, "then"), ranges(n, lo, hi).then)
           \o (IF nodes[n].kind = "none" THEN <<>> ELSE walksIn(block(nodes, n, "else"), ranges(n, lo, hi).else))
  <1>1. block(nodes, n, "then") = nodes[n].then /\ block(nodes, n, "else") = nodes[n].else /\ continued(n) = 0
    BY DEF block, continued
  <1>. QED  BY <1>1, Zenon DEF walksOf, walksIn

(* What the rest of a sequence of walks and a sequence before it hold.     *)
LEMMA WalksLeft ==
  ASSUME NEW ws \in Seq(WalkRecord), ws # <<>>
  PROVE  /\ Head(ws) \in WalkRecord /\ Tail(ws) \in Seq(WalkRecord)
         /\ Range(ws) = {Head(ws)} \cup Range(Tail(ws))
  <1>1. /\ Head(ws) \in WalkRecord /\ Tail(ws) \in Seq(WalkRecord) /\ Len(Tail(ws)) = Len(ws) - 1
        /\ \A j \in 1..Len(Tail(ws)) : Tail(ws)[j] = ws[j + 1]
    BY HeadTailProperties
  <1>2. Len(ws) \in Nat \ {0} /\ Head(ws) = ws[1] /\ DOMAIN ws = 1..Len(ws) /\ DOMAIN Tail(ws) = 1..(Len(ws) - 1)
    BY <1>1
  <1>3. \A j \in 1..Len(ws) : ws[j] = Head(ws) \/ ws[j] \in Range(Tail(ws))
    <2> SUFFICES ASSUME NEW j \in 1..Len(ws), j # 1
                 PROVE  ws[j] \in Range(Tail(ws))
      BY <1>2
    <2>1. j - 1 \in 1..(Len(ws) - 1) /\ Tail(ws)[j - 1] = ws[j]
      BY <1>1, <1>2
    <2>. QED  BY <1>2, <2>1 DEF Range
  <1>4. \A x \in Range(Tail(ws)) : \E j \in 1..Len(ws) : x = ws[j]
    BY <1>1, <1>2 DEF Range
  <1>5. Range(ws) = {ws[j] : j \in 1..Len(ws)} /\ 1 \in 1..Len(ws)
    BY <1>2 DEF Range
  <1>. QED  BY <1>1, <1>2, <1>3, <1>4, <1>5

(* The statements of a walk are the first `if`, or a block whose opcodes   *)
(* are a run, with a text to become their handler.                         *)
standsAt(s, w, n, arm) ==
  w.items = block(s, n, arm) /\ runOf(arrives(s, n, arm), w.lo, w.hi) /\ hasText(s, <<n, arm>>)

atRoot(w) == w.items = <<<<"if", 1>>>> /\ w.lo = 0 /\ w.hi = MaxOpcode

stands(s, w) == w.lo <= w.hi => atRoot(w) \/ \E n \in DOMAIN s, arm \in Ways : standsAt(s, w, n, arm)

kept(s, h) == \A op \in DOMAIN h : op \in Opcodes /\ handled(s, op) /\ h[op] = runs(s, op)[1]

waiting(s, ws, h) == \A op \in Opcodes : handled(s, op) => op \in DOMAIN h \/ \E w \in Range(ws) : op \in w.lo..w.hi

(* Every walk stands where its opcodes are led, and an opcode that is to   *)
(* have a handler has it or a walk will come to it.                        *)
DispatchInv ==
  /\ interpreter \in Dispatchers
  /\ consecutive(interpreter) =>
       /\ walks \in Seq(WalkRecord)
       /\ \A w \in Range(walks) : stands(nodes, w)
       /\ kept(nodes, handlers)
       /\ waiting(nodes, walks, handlers)

(* No test comes first.                                                    *)
textual(s, items) == items = <<>> \/ items[1][1] # "if" \/ ~s[items[1][2]].test

(* The opcodes of a walk at such a block run the block, and are handled if *)
(* they are few.                                                           *)
LEMMA WalkEnds ==
  ASSUME NEW i \in Dispatchers, consecutive(i), NEW w \in WalkRecord, w.lo <= w.hi,
         stands(i.nodes, w), textual(i.nodes, w.items)
  PROVE  \A op \in w.lo..w.hi : /\ op \in Opcodes /\ runs(i.nodes, op)[1] = w.items
                                /\ handled(i.nodes, op) <=> w.hi - w.lo < LEAF_RANGE_CAP
  <1> DEFINE s == i.nodes
  <1>1. straight(i) /\ i.begins /\ 1 \in DOMAIN s /\ w.lo \in Int /\ w.hi \in Int
    BY Consecutive DEF WalkRecord
  <1>2. CASE atRoot(w)
    <2>1. w.items # <<>> /\ w.items[1] = <<"if", 1>>
      BY <1>2, OneLong DEF atRoot
    <2>2. w.items[1][1] = "if" /\ w.items[1][2] = 1
      BY <2>1
    <2>3. ~s[1].test
      BY <2>1, <2>2 DEF textual
    <2>4. \A op : meets(s, op)[1] = {} /\ runs(s, op)[1] = w.items
      BY <1>1, <1>2, <2>3, RootReached DEF atRoot
    <2>5. \A op : endOf(s, op) = <<0, "none">>
      BY <2>4 DEF endOf
    <2>6. MaxOpcode \in Nat
      BY DispatchAssumption
    <2>7. runOf(Opcodes, w.lo, w.hi)
      BY <1>2, <2>6 DEF runOf, atRoot, Opcodes
    <2>8. hasText(s, <<0, "none">>)
      BY DEF hasText
    <2>9. \A op \in w.lo..w.hi : handled(s, op) <=> w.hi - w.lo < LEAF_RANGE_CAP
      <3>1. PICK end : end = <<0, "none">>
        OBVIOUS
      <3>2. \A op \in Opcodes : endOf(s, op) = end <=> op \in Opcodes
        BY <2>5, <3>1
      <3>3. hasText(s, end)
        BY <2>8, <3>1
      <3>. QED  BY <1>1, <2>7, <3>2, <3>3, HandledTogether
    <2>. QED  BY <2>4, <2>7, <2>9 DEF runOf
  <1>3. ASSUME NEW n \in DOMAIN s, NEW arm \in Ways, standsAt(s, w, n, arm)
        PROVE  \A op \in w.lo..w.hi : /\ op \in Opcodes /\ runs(s, op)[1] = w.items
                                      /\ handled(s, op) <=> w.hi - w.lo < LEAF_RANGE_CAP
    <2>1. last(s, n, arm)
      <3>1. CASE blocks(block(s, n, arm)) = {}
        BY <3>1 DEF last
      <3>2. CASE blocks(block(s, n, arm)) # {}
        <4>1. PICK m \in (n + 1)..Len(s) : block(s, n, arm) = <<<<"if", m>>>>
          BY <1>1, <3>2, BlockForm
        <4>2. w.items # <<>> /\ w.items[1] = <<"if", m>> /\ block(s, n, arm)[1] = <<"if", m>>
          BY <1>3, <4>1, OneLong DEF standsAt
        <4>3. w.items[1][1] = "if" /\ w.items[1][2] = m /\ block(s, n, arm)[1][2] = m
          BY <4>2
        <4>. QED  BY <4>2, <4>3 DEF textual, last
      <3>. QED  BY <3>1, <3>2
    <2>2. \A op \in Opcodes : /\ endOf(s, op) = <<n, arm>> <=> op \in arrives(s, n, arm)
                              /\ op \in arrives(s, n, arm) => runs(s, op)[1] = block(s, n, arm)
      BY <1>1, <2>1, ArmEnds
    <2>3. /\ w.items = block(s, n, arm) /\ runOf(arrives(s, n, arm), w.lo, w.hi) /\ hasText(s, <<n, arm>>)
          /\ arrives(s, n, arm) \in SUBSET Opcodes
      BY <1>3 DEF standsAt, arrives
    <2>4. \A op \in w.lo..w.hi : handled(s, op) <=> w.hi - w.lo < LEAF_RANGE_CAP
      BY <1>1, <2>2, <2>3, HandledTogether
    <2>. QED  BY <2>2, <2>3, <2>4 DEF runOf
  <1>. QED  BY <1>2, <1>3 DEF stands

(* A walk that gives its opcodes their handler.                            *)
LEMMA HandleKeepsInv ==
  ASSUME DispatchInv, consecutive(interpreter), walks # <<>>, ~empty, textual(nodes, walker.items),
         handle(walker.items), walks' = Tail(walks), interpreter' = interpreter
  PROVE  DispatchInv'
  <1>1. /\ interpreter \in Dispatchers /\ walks \in Seq(WalkRecord) /\ \A w \in Range(walks) : stands(nodes, w)
        /\ kept(nodes, handlers) /\ waiting(nodes, walks, handlers) /\ nodes' = nodes
    BY DEF DispatchInv, nodes
  <1>2. /\ walker \in WalkRecord /\ walks' \in Seq(WalkRecord) /\ Range(walks) = {walker} \cup Range(walks')
    BY <1>1, WalksLeft DEF walker
  <1>3. PICK w \in WalkRecord : w = walker /\ stands(nodes, w)
    BY <1>1, <1>2
  <1>4. w.lo \in Int /\ w.hi \in Int /\ w.lo <= w.hi /\ LEAF_RANGE_CAP \in Nat
    BY <1>3, DispatchAssumption DEF WalkRecord, empty
  <1>5. \A op \in w.lo..w.hi : /\ op \in Opcodes /\ runs(nodes, op)[1] = w.items
                               /\ handled(nodes, op) <=> w.hi - w.lo < LEAF_RANGE_CAP
    BY <1>1, <1>3, <1>4, WalkEnds DEF nodes
  <1>6. CASE w.hi - w.lo >= LEAF_RANGE_CAP
    <2>1. handlers' = handlers
      BY <1>3, <1>6 DEF handle
    <2>2. \A op \in w.lo..w.hi : ~handled(nodes, op)
      BY <1>4, <1>5, <1>6
    <2>3. waiting(nodes, walks', handlers)
      BY <1>1, <1>2, <1>3, <2>2 DEF waiting
    <2>. QED  BY <1>1, <1>2, <2>1, <2>3 DEF DispatchInv
  <1>7. CASE ~(w.hi - w.lo >= LEAF_RANGE_CAP)
    <2>1. handlers' = [op \in DOMAIN handlers \cup w.lo..w.hi |-> IF op \in w.lo..w.hi THEN w.items ELSE handlers[op]]
      BY <1>3, <1>7 DEF handle
    <2>2. /\ DOMAIN handlers' = DOMAIN handlers \cup w.lo..w.hi
          /\ \A op \in w.lo..w.hi : handlers'[op] = w.items
          /\ \A op \in DOMAIN handlers : op \notin w.lo..w.hi => handlers'[op] = handlers[op]
      BY <2>1
    <2>3. \A op \in w.lo..w.hi : handled(nodes, op)
      BY <1>4, <1>5, <1>7
    <2>4. kept(nodes, handlers')
      BY <1>1, <1>5, <2>2, <2>3 DEF kept
    <2>5. waiting(nodes, walks', handlers')
      BY <1>1, <1>2, <1>3, <2>2 DEF waiting
    <2>. QED  BY <1>1, <1>2, <2>4, <2>5 DEF DispatchInv
  <1>. QED  BY <1>6, <1>7

(* The walks of the arms of a test stand where its opcodes are led, and    *)
(* leave out those that get no handler.                                    *)
LEMMA BranchKeepsInv ==
  ASSUME DispatchInv, consecutive(interpreter), Branch
  PROVE  DispatchInv'
  <1> DEFINE s == nodes
             n == head[2]
  <1>1. /\ interpreter \in Dispatchers /\ walks \in Seq(WalkRecord) /\ \A w \in Range(walks) : stands(s, w)
        /\ kept(s, handlers) /\ waiting(s, walks, handlers) /\ s' = s /\ s = interpreter.nodes
        /\ walks # <<>> /\ ~empty /\ isTest(head) /\ interpreter' = interpreter /\ handlers' = handlers
    BY DEF DispatchInv, nodes, Branch
  <1>2. PICK rest : /\ rest = Tail(walks) /\ rest \in Seq(WalkRecord) /\ walker \in WalkRecord
                    /\ Range(walks) = {walker} \cup Range(rest)
    BY <1>1, WalksLeft DEF walker
  <1>3. PICK w \in WalkRecord : w = walker /\ stands(s, w)
    BY <1>1, <1>2
  <1>4. w.lo \in Int /\ w.hi \in Int /\ w.lo <= w.hi
    BY <1>1, <1>3 DEF WalkRecord, empty
  <1>5. straight(interpreter) /\ interpreter.begins
    BY <1>1, Consecutive
  <1>6. w.items # <<>> /\ w.items[1][1] = "if" /\ n = w.items[1][2] /\ s[n].test
    <2>1. head[1] = "if" /\ s[n].test
      BY <1>1 DEF isTest
    <2>2. w.items # <<>>
      <3>1. ASSUME w.items = <<>>
            PROVE  FALSE
        <4>1. head = <<"nothing", 0>>
          BY <1>3, <3>1 DEF head
        <4>2. head[1] = "nothing"
          BY <4>1
        <4>. QED  BY <2>1, <4>2
      <3>. QED  BY <3>1
    <2>3. head = w.items[1]
      BY <1>3, <2>2 DEF head
    <2>. QED  BY <2>1, <2>2, <2>3
  <1>7. n \in DOMAIN s /\ runOf(reach(s, n), w.lo, w.hi)
    <2>1. CASE atRoot(w)
      <3>1. n = 1
        <4>1. w.items[1] = <<"if", 1>>
          BY <2>1, OneLong DEF atRoot
        <4>. QED  BY <1>6, <4>1
      <3>2. 1 \in DOMAIN s /\ reach(s, 1) = Opcodes
        BY <1>1, <1>5, <1>6, <3>1, RootReached, Consecutive
      <3>3. MaxOpcode \in Nat
        BY DispatchAssumption
      <3>. QED  BY <2>1, <3>1, <3>2, <3>3 DEF runOf, atRoot, Opcodes
    <2>2. ASSUME NEW p \in DOMAIN s, NEW arm \in Ways, standsAt(s, w, p, arm)
          PROVE  n \in DOMAIN s /\ runOf(reach(s, n), w.lo, w.hi)
      <3>1. w.items = block(s, p, arm) /\ runOf(arrives(s, p, arm), w.lo, w.hi)
        BY <2>2 DEF standsAt
      <3>2. PICK m \in (p + 1)..Len(s) : block(s, p, arm) = <<<<"if", m>>>>
        <4>1. 1 \in DOMAIN w.items
          <5>1. w.items \in Seq(Items)
            BY DEF WalkRecord
          <5>. QED  BY <1>6, <5>1
        <4>2. ~ \A j \in DOMAIN block(s, p, arm) : block(s, p, arm)[j][1] # "if"
          BY <1>6, <3>1, <4>1
        <4>. QED  BY <1>1, <1>5, <4>2, BlockForm
      <3>3. n = m
        <4>1. w.items[1] = <<"if", m>>
          BY <3>1, <3>2, OneLong
        <4>. QED  BY <1>6, <4>1
      <3>4. m \in DOMAIN s
        <4>1. DOMAIN s = 1..Len(s) /\ p \in Nat
          BY <1>1, InterpreterShape
        <4>. QED  BY <4>1
      <3>5. reach(s, m) = arrives(s, p, arm)
        BY <1>1, <1>5, <1>6, <3>2, <3>3, <3>4, ArmReached
      <3>. QED  BY <3>1, <3>3, <3>4, <3>5
    <2>. QED  BY <1>3, <1>4, <2>1, <2>2 DEF stands
  <1>8. reach(s, n) = w.lo..w.hi /\ s[n].k \in w.lo..w.hi
    <2>1. w.lo \in reach(s, n)
      BY <1>4, <1>7 DEF runOf
    <2>2. s[n].k \in reach(s, n) /\ \E a, b \in Int : reach(s, n) = a..b
      BY <1>1, <1>6, <1>7, <2>1, Consecutive
    <2>3. PICK a \in Int, b \in Int : reach(s, n) = a..b
      BY <2>2
    <2>4. a = w.lo /\ b = w.hi
      <3> HIDE DEF n, s
      <3>1. w.lo \in a..b /\ w.hi \in a..b /\ w.lo - 1 \notin a..b /\ w.hi + 1 \notin a..b
        BY <1>4, <1>7, <2>3 DEF runOf
      <3>. QED  BY <1>4, <3>1
    <2>. QED  BY <2>2, <2>3, <2>4
  <1> HIDE DEF n
  <1>9. \A arm \in Ways : through(n, arm, w.lo, w.hi) = arrives(s, n, arm)
    <2>1. \A op : op \in w.lo..w.hi <=> op \in Opcodes /\ n \in meets(s, op)[1]
      BY <1>8 DEF reach
    <2>. QED  BY <2>1 DEF through, arrives
  <1> DEFINE both == ranges(n, w.lo, w.hi)
             thens == walksIn(block(s, n, "then"), both.then)
             elses == walksIn(block(s, n, "else"), both.else)
  <1>10. fits(arrives(s, n, "then"), both.then) /\ fits(arrives(s, n, "else"), both.else)
    BY <1>1, <1>4, <1>7, <1>8, <1>9, RangesSplit DEF Ways
  <1>11. block(s, n, "then") \in Seq(Items) /\ block(s, n, "else") \in Seq(Items)
    BY <1>1, <1>7, InterpreterShape DEF Ways
  <1>12. walks' = (thens \o (IF s[n].kind = "none" THEN <<>> ELSE elses)) \o rest
    <2>1. walks' = walksOf(n, w.lo, w.hi) \o rest
      BY <1>2, <1>3 DEF Branch, n
    <2>2. s[n].kind # "elseif"
      BY <1>1, <1>7, Consecutive
    <2>. QED  BY <1>1, <1>7, <2>1, <2>2, WalksOf
  <1>13. ASSUME NEW arm \in Ways, NEW q, fits(arrives(s, n, arm), q), block(s, n, arm) \in Seq(Items)
         PROVE  /\ walksIn(block(s, n, arm), q) \in Seq(WalkRecord)
                /\ hasText(s, <<n, arm>>) => \A x \in Range(walksIn(block(s, n, arm), q)) : stands(s, x)
                /\ \A op \in arrives(s, n, arm) : \E x \in Range(walksIn(block(s, n, arm), q)) : op \in x.lo..x.hi
    <2>1. /\ q \in Seq(Int \X Int)
          /\ \A j \in DOMAIN q : q[j][1] > q[j][2] \/ runOf(arrives(s, n, arm), q[j][1], q[j][2])
          /\ \A op \in arrives(s, n, arm) : \E j \in DOMAIN q : op \in q[j][1]..q[j][2]
      BY <1>13 DEF fits
    <2>2. PICK new : new = walksIn(block(s, n, arm), q)
      OBVIOUS
    <2>3. /\ new \in Seq(WalkRecord)
          /\ \A x \in Range(new) : x.items = block(s, n, arm) /\ \E j \in DOMAIN q : x.lo = q[j][1] /\ x.hi = q[j][2]
          /\ \A j \in DOMAIN q : \E x \in Range(new) : x.lo = q[j][1] /\ x.hi = q[j][2]
      BY <1>13, <2>1, <2>2, WalksIn
    <2>4. ASSUME hasText(s, <<n, arm>>), NEW x \in Range(new), x.lo <= x.hi
          PROVE  standsAt(s, x, n, arm)
      <3>1. PICK j \in DOMAIN q : x.lo = q[j][1] /\ x.hi = q[j][2]
        BY <2>3
      <3>2. q[j][1] \in Int /\ q[j][2] \in Int
        BY <2>1
      <3>3. runOf(arrives(s, n, arm), x.lo, x.hi)
        BY <2>1, <2>4, <3>1, <3>2
      <3>. QED  BY <2>3, <2>4, <3>3 DEF standsAt
    <2>5. \A op \in arrives(s, n, arm) : \E x \in Range(new) : op \in x.lo..x.hi
      <3> SUFFICES ASSUME NEW op \in arrives(s, n, arm)
                   PROVE  \E x \in Range(new) : op \in x.lo..x.hi
        OBVIOUS
      <3>1. PICK j \in DOMAIN q : op \in q[j][1]..q[j][2]
        BY <2>1
      <3>2. PICK x \in Range(new) : x.lo = q[j][1] /\ x.hi = q[j][2]
        BY <2>3
      <3>. QED  BY <3>1, <3>2
    <2>. QED  BY <1>7, <2>2, <2>3, <2>4, <2>5 DEF stands
  <1>14. /\ thens \in Seq(WalkRecord) /\ elses \in Seq(WalkRecord)
         /\ \A x \in Range(thens) : stands(s, x)
         /\ hasText(s, <<n, "else">>) => \A x \in Range(elses) : stands(s, x)
         /\ \A op \in arrives(s, n, "then") : \E x \in Range(thens) : op \in x.lo..x.hi
         /\ \A op \in arrives(s, n, "else") : \E x \in Range(elses) : op \in x.lo..x.hi
    <2>1. hasText(s, <<n, "then">>)
      BY DEF hasText
    <2>2. "then" \in Ways /\ "else" \in Ways
      BY DEF Ways
    <2> HIDE DEF both
    <2>. QED  BY <1>10, <1>11, <1>13, <2>1, <2>2
  <1> HIDE DEF thens, elses
  <1>15. hasText(s, <<n, "else">>) <=> n = 0 \/ s[n].kind # "none"
    BY DEF hasText
  <1>16. PICK new : /\ new = thens \o (IF s[n].kind = "none" THEN <<>> ELSE elses)
                    /\ new \in Seq(WalkRecord)
                    /\ Range(new) = Range(thens) \cup (IF s[n].kind = "none" THEN {} ELSE Range(elses))
    <2>1. CASE s[n].kind = "none"
      <3>1. thens \o <<>> = thens
        BY <1>14, ConcatEmptySeq
      <3>. QED  BY <1>14, <2>1, <3>1
    <2>2. CASE s[n].kind # "none"
      <3>1. thens \o elses \in Seq(WalkRecord) /\ Range(thens \o elses) = Range(thens) \cup Range(elses)
        BY <1>14, ConcatProperties, RangeConcatenation
      <3>. QED  BY <2>2, <3>1
    <2>. QED  BY <2>1, <2>2
  <1>17. walks' \in Seq(WalkRecord) /\ Range(walks') = Range(new) \cup Range(rest)
    <2>1. walks' = new \o rest
      BY <1>12, <1>16, Zenon
    <2>2. new \o rest \in Seq(WalkRecord) /\ Range(new \o rest) = Range(new) \cup Range(rest)
      <3>1. new \in Seq(WalkRecord) /\ rest \in Seq(WalkRecord)
        BY <1>2, <1>16
      <3>2. new \o rest \in Seq(WalkRecord)
        BY <3>1, ConcatProperties
      <3>3. Range(new \o rest) = Range(new) \cup Range(rest)
        BY <3>1, RangeConcatenation
      <3>. QED  BY <3>2, <3>3
    <2>. QED  BY <2>1, <2>2
  <1>18. \A x \in Range(walks') : stands(s, x)
    BY <1>1, <1>2, <1>14, <1>15, <1>16, <1>17
  <1>19. \A op \in w.lo..w.hi : handled(s, op) => \E x \in Range(new) : op \in x.lo..x.hi
    <2> SUFFICES ASSUME NEW op \in w.lo..w.hi, handled(s, op)
                 PROVE  \E x \in Range(new) : op \in x.lo..x.hi
      OBVIOUS
    <2>1. PICK arm \in Ways : op \in arrives(s, n, arm)
      BY <1>8, ArmTaken DEF reach, arrives
    <2>2. CASE arm = "then"
      BY <1>14, <1>16, <2>1, <2>2
    <2>3. CASE arm = "else" /\ s[n].kind # "none"
      BY <1>14, <1>16, <2>1, <2>3
    <2>4. CASE arm = "else" /\ s[n].kind = "none"
      <3>1. block(s, n, "else") = <<>>
        BY <1>1, <1>7, <2>4, InterpreterShape
      <3>2. last(s, n, "else")
        BY <3>1 DEF last, blocks
      <3>3. op \in Opcodes
        BY <2>1 DEF arrives
      <3>4. endOf(s, op) = <<n, "else">>
        BY <1>1, <1>5, <1>7, <2>1, <2>4, <3>2, <3>3, ArmEnds DEF Ways
      <3>5. n # 0
        BY <1>1, <1>7, InterpreterShape
      <3>6. ~hasText(s, endOf(s, op))
        BY <1>15, <2>4, <3>4, <3>5
      <3>. QED  BY <3>6 DEF handled
    <2>. QED  BY <2>2, <2>3, <2>4 DEF Ways
  <1>20. waiting(s, walks', handlers)
    <2> SUFFICES ASSUME NEW op \in Opcodes, handled(s, op), op \notin DOMAIN handlers
                 PROVE  \E x \in Range(walks') : op \in x.lo..x.hi
      BY DEF waiting
    <2>1. PICK x \in Range(walks) : op \in x.lo..x.hi
      BY <1>1 DEF waiting
    <2>2. CASE x = w
      BY <1>17, <1>19, <2>1, <2>2
    <2>3. CASE x # w
      BY <1>2, <1>3, <1>17, <2>1, <2>3
    <2>. QED  BY <2>2, <2>3
  <1>. QED  BY <1>1, <1>17, <1>18, <1>20 DEF DispatchInv

(* The walk of the whole tree begins at the first test.                    *)
LEMMA WalkInitInv == WalkInit => DispatchInv
  <1> SUFFICES ASSUME WalkInit, consecutive(interpreter)
               PROVE  DispatchInv
    BY DEF WalkInit, DispatchInv
  <1>1. interpreter \in Dispatchers /\ handlers = [op \in {} |-> <<>>] /\ MaxOpcode \in Nat
    BY DispatchAssumption DEF WalkInit
  <1>2. PICK w : w = walk(<<<<"if", 1>>>>, 0, <<0, MaxOpcode>>)
    OBVIOUS
  <1>3. walks = <<w>>
    BY <1>1, <1>2, Consecutive DEF WalkInit
  <1>4. w.items = <<<<"if", 1>>>> /\ w.lo = 0 /\ w.hi = MaxOpcode
    BY <1>2 DEF walk
  <1>5. w \in WalkRecord
    <2>1. <<<<"if", 1>>>> \in Seq(Items)
      <3>1. <<"if", 1>> \in Items
        BY DEF Items
      <3>. QED  BY <3>1
    <2>2. \A items \in Seq(Items) : walk(items, 0, <<0, MaxOpcode>>) \in WalkRecord
      BY <1>1 DEF walk, WalkRecord
    <2>. QED  BY <1>2, <2>1, <2>2
  <1>6. walks \in Seq(WalkRecord) /\ Range(walks) = {w}
    <2>1. <<w>> \in Seq(WalkRecord)
      BY <1>5
    <2>2. DOMAIN <<w>> = {1} /\ <<w>>[1] = w
      OBVIOUS
    <2>. QED  BY <1>3, <2>1, <2>2 DEF Range
  <1>7. stands(nodes, w)
    BY <1>4 DEF stands, atRoot
  <1>8. kept(nodes, handlers)
    BY <1>1 DEF kept
  <1>9. waiting(nodes, walks, handlers)
    BY <1>1, <1>4, <1>6 DEF waiting, Opcodes
  <1>. QED  BY <1>1, <1>6, <1>7, <1>8, <1>9 DEF DispatchInv

(* Every step of the walk keeps its opcodes where they are led.            *)
LEMMA WalkNextInv == DispatchInv /\ [WalkNext]_walkVars => DispatchInv'
  <1> SUFFICES ASSUME DispatchInv, [WalkNext]_walkVars
               PROVE  DispatchInv'
    OBVIOUS
  <1>1. interpreter \in Dispatchers /\ interpreter' = interpreter /\ nodes' = nodes
    BY DEF DispatchInv, WalkNext, EmptyRange, Leaf, Unended, OtherCondition, Branch, walkVars, nodes
  <1>2. CASE ~consecutive(interpreter)
    BY <1>1, <1>2 DEF DispatchInv
  <1>3. CASE consecutive(interpreter)
    <2>1. /\ straight(interpreter) /\ interpreter.complete
          /\ walks \in Seq(WalkRecord) /\ (\A w \in Range(walks) : stands(nodes, w))
          /\ kept(nodes, handlers) /\ waiting(nodes, walks, handlers)
      BY <1>1, <1>3, Consecutive DEF DispatchInv
    <2>2. ASSUME walks # <<>>
          PROVE  /\ walker \in WalkRecord /\ Tail(walks) \in Seq(WalkRecord)
                 /\ Range(walks) = {walker} \cup Range(Tail(walks))
                 /\ stands(nodes, walker)
      <3>1. /\ walker \in WalkRecord /\ Tail(walks) \in Seq(WalkRecord)
            /\ Range(walks) = {walker} \cup Range(Tail(walks))
        BY <2>1, <2>2, WalksLeft DEF walker
      <3>. QED  BY <2>1, <3>1
    <2>3. CASE EmptyRange
      <3>1. walks # <<>> /\ walker.lo > walker.hi /\ walks' = Tail(walks) /\ handlers' = handlers
        BY <2>3 DEF EmptyRange, empty
      <3>2. walker.lo \in Int /\ walker.hi \in Int
        BY <2>2, <3>1 DEF WalkRecord
      <3>3. \A op \in Opcodes : op \notin walker.lo..walker.hi
        BY <3>1, <3>2
      <3>4. waiting(nodes, walks', handlers')
        BY <2>1, <2>2, <3>1, <3>3 DEF waiting
      <3>. QED  BY <1>1, <2>1, <2>2, <3>1, <3>4 DEF DispatchInv
    <2>4. CASE Leaf
      <3>1. /\ walks # <<>> /\ ~empty /\ head[1] # "if" /\ walks' = Tail(walks)
            /\ handle(leafText(walker.items, walker.next))
        BY <2>4 DEF Leaf
      <3>2. walker.items \in Seq(Items) /\ walker.next = 0
        BY <2>2, <3>1 DEF WalkRecord
      <3>3. textual(nodes, walker.items)
        BY <3>1 DEF head, textual
      <3>4. blocks(walker.items) = {}
        <4>1. CASE atRoot(walker)
          <5>1. walker.items # <<>> /\ walker.items[1] = <<"if", 1>>
            BY <4>1, OneLong DEF atRoot
          <5>2. head = <<"if", 1>>
            BY <5>1 DEF head
          <5>3. head[1] = "if"
            BY <5>2
          <5>. QED  BY <3>1, <5>3
        <4>2. ASSUME NEW n \in DOMAIN nodes, NEW arm \in Ways, walker.items = block(nodes, n, arm)
              PROVE  blocks(walker.items) = {}
          <5>1. ASSUME blocks(walker.items) # {}
                PROVE  FALSE
            <6>1. PICK m : walker.items = <<<<"if", m>>>>
              <7>1. PICK m \in (n + 1)..Len(interpreter.nodes) : block(interpreter.nodes, n, arm) = <<<<"if", m>>>>
                BY <1>1, <2>1, <4>2, <5>1, BlockForm DEF nodes
              <7>. QED  BY <4>2, <7>1 DEF nodes
            <6>2. walker.items # <<>> /\ walker.items[1] = <<"if", m>>
              BY <6>1, OneLong
            <6>3. head = <<"if", m>>
              BY <6>2 DEF head
            <6>4. head[1] = "if"
              BY <6>3
            <6>. QED  BY <3>1, <6>4
          <5>. QED  BY <5>1
        <4>3. walker.lo <= walker.hi
          <5>1. walker.lo \in Int /\ walker.hi \in Int /\ ~(walker.lo > walker.hi)
            BY <2>2, <3>1 DEF WalkRecord, empty
          <5>. QED  BY <5>1
        <4>. QED  BY <2>2, <3>1, <4>1, <4>2, <4>3 DEF stands, standsAt
      <3>5. leafText(walker.items, walker.next) = walker.items
        <4>1. leafText(walker.items, 0) = walker.items \o <<>>
          BY <3>4, Zenon DEF leafText
        <4>. QED  BY <3>2, <4>1, ConcatEmptySeq
      <3>6. handle(walker.items)
        BY <3>1, <3>5, Zenon
      <3>. QED  BY <1>1, <1>3, <3>1, <3>3, <3>6, HandleKeepsInv
    <2>5. CASE Unended
      BY <2>1, <2>5 DEF Unended
    <2>6. CASE OtherCondition
      <3>1. walks # <<>> /\ ~empty /\ head[1] = "if" /\ ~isTest(head) /\ handle(<<head>>) /\ walks' = Tail(walks)
        BY <2>6 DEF OtherCondition
      <3>2. walker.items # <<>> /\ head = walker.items[1]
        <4>1. ASSUME walker.items = <<>>
              PROVE  FALSE
          <5>1. head = <<"nothing", 0>>
            BY <4>1 DEF head
          <5>2. head[1] = "nothing"
            BY <5>1
          <5>. QED  BY <3>1, <5>2
        <4>. QED  BY <4>1 DEF head
      <3>3. textual(nodes, walker.items)
        BY <3>1, <3>2 DEF isTest, textual
      <3>4. <<head>> = walker.items
        <4>1. PICK m : walker.items = <<<<"if", m>>>>
          <5>1. CASE atRoot(walker)
            BY <5>1 DEF atRoot
          <5>2. ASSUME NEW n \in DOMAIN nodes, NEW arm \in Ways, walker.items = block(nodes, n, arm)
                PROVE  \E m : walker.items = <<<<"if", m>>>>
            <6>1. walker.items \in Seq(Items) /\ 1 \in DOMAIN walker.items
              <7>1. walker.items \in Seq(Items)
                BY <2>2, <3>1 DEF WalkRecord
              <7>. QED  BY <3>2, <7>1
            <6>2. ~ \A j \in DOMAIN block(nodes, n, arm) : block(nodes, n, arm)[j][1] # "if"
              BY <3>1, <3>2, <5>2, <6>1
            <6>3. PICK m \in (n + 1)..Len(interpreter.nodes) : block(interpreter.nodes, n, arm) = <<<<"if", m>>>>
              BY <1>1, <2>1, <6>2, BlockForm DEF nodes
            <6>. QED  BY <5>2, <6>3 DEF nodes
          <5>3. walker.lo <= walker.hi
            <6>1. walker.lo \in Int /\ walker.hi \in Int /\ ~(walker.lo > walker.hi)
              BY <2>2, <3>1 DEF WalkRecord, empty
            <6>. QED  BY <6>1
          <5>. QED  BY <2>2, <3>1, <5>1, <5>2, <5>3 DEF stands, standsAt
        <4>2. walker.items[1] = <<"if", m>>
          BY <4>1, OneLong
        <4>. QED  BY <3>2, <4>1, <4>2, Zenon
      <3>5. handle(walker.items)
        BY <3>1, <3>4, Zenon
      <3>. QED  BY <1>1, <1>3, <3>1, <3>3, <3>5, HandleKeepsInv
    <2>7. CASE Branch
      BY <1>3, <2>7, BranchKeepsInv
    <2>8. CASE UNCHANGED walkVars
      BY <1>1, <1>3, <2>1, <2>8 DEF DispatchInv, walkVars
    <2>. QED  BY <2>3, <2>4, <2>5, <2>6, <2>7, <2>8 DEF WalkNext
  <1>. QED  BY <1>2, <1>3

(* With no walk left each opcode has the handler it is to have.            *)
LEMMA DispatchInvHolds == DispatchInv => HandlersExact
  <1> SUFFICES ASSUME DispatchInv, walks = <<>>, consecutive(interpreter), NEW op \in Opcodes
               PROVE  /\ op \in DOMAIN handlers <=> handled(nodes, op)
                      /\ handled(nodes, op) => handlers[op] = runs(nodes, op)[1]
    BY DEF HandlersExact
  <1>1. Range(walks) = {}
    BY DEF Range
  <1>2. kept(nodes, handlers) /\ waiting(nodes, walks, handlers)
    BY DEF DispatchInv
  <1>3. handled(nodes, op) => op \in DOMAIN handlers
    BY <1>1, <1>2 DEF waiting
  <1>4. op \in DOMAIN handlers => handled(nodes, op) /\ handlers[op] = runs(nodes, op)[1]
    BY <1>2 DEF kept
  <1>. QED  BY <1>3, <1>4

(* parseDispatchTree: once the walk is over, each opcode whose leaf is     *)
(* narrow has the text the interpreter runs for it, and no other has one.  *)
THEOREM HandlersExactCorrect == WalkSpec => []HandlersExact
  <1>1. WalkInit => DispatchInv
    BY WalkInitInv
  <1>2. DispatchInv /\ [WalkNext]_walkVars => DispatchInv'
    BY WalkNextInv
  <1>3. DispatchInv => HandlersExact
    BY DispatchInvHolds
  <1>. QED  BY <1>1, <1>2, <1>3, PTL DEF WalkSpec
================================================================================
