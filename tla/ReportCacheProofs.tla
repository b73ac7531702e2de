--------------------------- MODULE ReportCacheProofs ---------------------------
(***************************************************************************)
(* Proofs about ReportCache, for any keys, values and sizes and any limits.*)
(***************************************************************************)
EXTENDS ReportCache, Lemmas

(* The inductive invariant: every use has a number of its own, given in    *)
(* ascending order, and the map is sorted by them.                         *)
Types ==
  /\ map \in Seq(Entry)
  /\ uses \in Nat /\ lastUse \in [Keys -> Nat]
  /\ written \in [Keys -> SUBSET Values]

IInv == Types /\ (\A k \in Keys : lastUse[k] <= uses) /\ CacheFaithful

(* In a map in the order of last use a key is found once.                  *)
LEMMA KeysDistinct ==
  ASSUME IInv
  PROVE  \A i, j \in 1..Len(map) : map[i].key = map[j].key => i = j
  <1>1. \A i \in 1..Len(map) : map[i].key \in Keys
    <2>1. \A e \in Entry : e.key \in Keys
      BY DEF Entry
    <2>2. map \in Seq(Entry)
      BY DEF IInv, Types
    <2>. QED  BY <2>1, <2>2
  <1>2. \A k \in Keys : lastUse[k] \in Nat
    BY DEF IInv, Types
  <1>3. \A i, j \in 1..Len(map) : i < j => lastUse[map[i].key] < lastUse[map[j].key]
    BY DEF IInv, CacheFaithful, LruOrder
  <1>4. Len(map) \in Nat
    BY DEF IInv, Types
  <1>. QED  BY <1>1, <1>2, <1>3, <1>4

(* Without a key the map holds the other entries, in the same order.       *)
LEMMA DeleteKeepsOthers ==
  ASSUME IInv, NEW k \in Keys
  PROVE  /\ delete(k) \in Seq(Entry)
         /\ \A i \in 1..Len(delete(k)) : \E j \in 1..Len(map) : delete(k)[i] = map[j]
         /\ \A i \in 1..Len(delete(k)) : delete(k)[i].key # k
         /\ \A i, j \in 1..Len(delete(k)) :
              i < j => lastUse[delete(k)[i].key] < lastUse[delete(k)[j].key]
  <1>1. map \in Seq(Entry)
    BY DEF IInv, Types
  <1>2. \A i, j \in 1..Len(map) : i < j => lastUse[map[i].key] < lastUse[map[j].key]
    BY DEF IInv, CacheFaithful, LruOrder
  <1>3. CASE ~has(k)
    BY <1>1, <1>2, <1>3 DEF delete, has
  <1>4. CASE has(k)
    <2> DEFINE p == placeOf(k)
    <2>1. p \in 1..Len(map) /\ map[p].key = k
      BY <1>4 DEF has, placeOf
    <2>2. delete(k) = RemoveAt(map, p)
      BY <1>4 DEF delete
    <2> HIDE DEF p
    <2>3. /\ delete(k) \in Seq(Entry)
          /\ Len(delete(k)) = Len(map) - 1
          /\ \A j \in 1..(Len(map) - 1) : delete(k)[j] = IF j < p THEN map[j] ELSE map[j + 1]
      BY <1>1, <2>1, <2>2, RemoveAtElements
    <2>4. \A i \in 1..Len(map) : map[i].key = k => i = p
      BY <2>1, KeysDistinct
    <2>5. /\ \A i \in 1..Len(delete(k)) : \E j \in 1..Len(map) : delete(k)[i] = map[j]
          /\ \A i \in 1..Len(delete(k)) : delete(k)[i].key # k
      BY <1>1, <2>1, <2>3, <2>4
    <2>6. \A i, j \in 1..Len(delete(k)) :
            i < j => lastUse[delete(k)[i].key] < lastUse[delete(k)[j].key]
      <3> SUFFICES ASSUME NEW i \in 1..Len(delete(k)), NEW j \in 1..Len(delete(k)), i < j
                   PROVE  lastUse[delete(k)[i].key] < lastUse[delete(k)[j].key]
        OBVIOUS
      <3>1. Len(map) \in Nat
        BY <1>1
      <3>2. PICK a \in 1..Len(map) : delete(k)[i] = map[a] /\ a <= i + 1 /\ (a = i \/ p <= i)
        <4>1. i \in 1..(Len(map) - 1) /\ i \in 1..Len(map) /\ i + 1 \in 1..Len(map)
          BY <2>3, <3>1
        <4>2. CASE i < p
          <5>1. delete(k)[i] = map[i]
            BY <2>3, <4>1, <4>2
          <5>. QED  BY <4>1, <5>1
        <4>3. CASE ~(i < p)
          <5>1. delete(k)[i] = map[i + 1] /\ p <= i
            BY <2>1, <2>3, <4>1, <4>3
          <5>. QED  BY <4>1, <5>1
        <4>. QED  BY <4>2, <4>3
      <3>3. PICK b \in 1..Len(map) : delete(k)[j] = map[b] /\ j <= b /\ (b = j + 1 \/ j < p)
        BY <2>1, <2>3, <3>1
      <3>4. a < b
        BY <2>1, <2>3, <3>1, <3>2, <3>3
      <3>. QED  BY <1>2, <3>2, <3>3, <3>4
    <2>. QED  BY <2>3, <2>5, <2>6
  <1>. QED  BY <1>3, <1>4

(* An entry that is used, new or not, goes to the recent end.              *)
LEMMA UsedGoesLast ==
  ASSUME IInv, NEW k \in Keys, NEW e \in Entry, e.key = k,
         map' = Append(delete(k), e), use(k), written' \in [Keys -> SUBSET Values],
         written'[k] = {e.value}, \A l \in Keys \ {k} : written'[l] = written[l]
  PROVE  IInv'
  <1> DEFINE d == delete(k)
  <1>1. /\ d \in Seq(Entry)
        /\ \A i \in 1..Len(d) : \E j \in 1..Len(map) : d[i] = map[j]
        /\ \A i \in 1..Len(d) : d[i].key # k
        /\ \A i, j \in 1..Len(d) : i < j => lastUse[d[i].key] < lastUse[d[j].key]
    BY DeleteKeepsOthers
  <1> HIDE DEF d
  <1>2. \A i \in 1..Len(d) : d[i].key \in Keys \ {k}
    <2>1. \A x \in Entry : x.key \in Keys
      BY DEF Entry
    <2>2. \A i \in 1..Len(d) : d[i] \in Entry
      BY <1>1
    <2>. QED  BY <1>1, <2>1, <2>2
  <1>3. /\ uses \in Nat /\ lastUse \in [Keys -> Nat] /\ uses' = uses + 1
        /\ lastUse' \in [Keys -> Nat] /\ lastUse'[k] = uses + 1
        /\ \A l \in Keys \ {k} : lastUse'[l] = lastUse[l]
        /\ \A l \in Keys : lastUse[l] <= uses
    BY DEF use, IInv, Types
  <1>4. /\ map' \in Seq(Entry) /\ Len(map') = Len(d) + 1 /\ Len(d) \in Nat
        /\ map'[Len(d) + 1] = e
        /\ \A i \in 1..Len(d) : map'[i] = d[i]
    BY <1>1 DEF d
  <1>5. \A i \in 1..Len(map') : i \in 1..Len(d) \/ i = Len(d) + 1
    BY <1>4
  <1>6. Types' /\ \A l \in Keys : lastUse'[l] <= uses'
    <2>1. Types'
      BY <1>3, <1>4 DEF Types
    <2>2. \A l \in Keys : lastUse'[l] <= uses'
      BY <1>3
    <2>. QED  BY <2>1, <2>2
  <1>7. LruOrder'
    <2> SUFFICES ASSUME NEW i \in 1..Len(map'), NEW j \in 1..Len(map'), i < j
                 PROVE  lastUse'[map'[i].key] < lastUse'[map'[j].key]
      BY DEF LruOrder
    <2>1. i \in 1..Len(d)
      BY <1>4, <1>5
    <2>2. lastUse'[map'[i].key] = lastUse[d[i].key] /\ lastUse[d[i].key] <= uses
          /\ lastUse[d[i].key] \in Nat
      BY <1>2, <1>3, <1>4, <2>1
    <2>3. CASE j \in 1..Len(d)
      <3>1. lastUse'[map'[j].key] = lastUse[d[j].key]
        BY <1>2, <1>3, <1>4, <2>3
      <3>. QED  BY <1>1, <2>1, <2>2, <2>3, <3>1
    <2>4. CASE j = Len(d) + 1
      <3>1. lastUse'[map'[j].key] = uses + 1
        BY <1>3, <1>4, <2>4
      <3>. QED  BY <1>3, <2>2, <3>1
    <2>. QED  BY <1>5, <2>3, <2>4
  <1>8. LastWriteWins'
    <2> SUFFICES ASSUME NEW i \in 1..Len(map')
                 PROVE  written'[map'[i].key] = {map'[i].value}
      BY DEF LastWriteWins
    <2>1. CASE i \in 1..Len(d)
      <3>1. PICK j \in 1..Len(map) : d[i] = map[j]
        BY <1>1, <2>1
      <3>2. written[map[j].key] = {map[j].value}
        BY DEF IInv, CacheFaithful, LastWriteWins
      <3>3. map'[i] = map[j] /\ map[j].key \in Keys \ {k}
        BY <1>2, <1>4, <2>1, <3>1
      <3>. QED  BY <3>2, <3>3
    <2>2. CASE i = Len(d) + 1
      BY <1>4, <2>2
    <2>. QED  BY <1>5, <2>1, <2>2
  <1>. QED  BY <1>6, <1>7, <1>8 DEF IInv, CacheFaithful

(* No step breaks the order of the map or the values in it.                *)
LEMMA StepKeepsInv ==
  ASSUME IInv, [Next]_vars
  PROVE  IInv'
  <1>1. ASSUME NEW k \in Keys, get(k)
        PROVE  IInv'
    <2> DEFINE e == entry(k)
    <2>1. PICK i \in 1..Len(map) : e = map[i] /\ map[i].key = k
      BY <1>1 DEF get, has, entry, placeOf
    <2>2. e \in Entry /\ e.key = k
      BY <2>1 DEF IInv, Types
    <2>3. written[k] = {e.value} /\ written \in [Keys -> SUBSET Values]
      BY <2>1 DEF IInv, CacheFaithful, LastWriteWins, Types
    <2>4. map' = Append(delete(k), e) /\ use(k) /\ written' = written
      BY <1>1 DEF get
    <2> HIDE DEF e
    <2>. QED  BY <2>2, <2>3, <2>4, UsedGoesLast
  <1>2. ASSUME NEW k \in Keys, NEW v \in Values, NEW n \in Sizes, set(k, v, n)
        PROVE  IInv'
    <2> DEFINE e == [key |-> k, value |-> v, size |-> n]
    <2>1. e \in Entry /\ e.key = k /\ e.value = v
      BY CacheAssumption DEF Entry
    <2>2. map' = Append(delete(k), e) /\ use(k) /\ written' = [written EXCEPT ![k] = {v}]
      BY <1>2 DEF set
    <2>3. written \in [Keys -> SUBSET Values]
      BY DEF IInv, Types
    <2>4. /\ written' \in [Keys -> SUBSET Values] /\ written'[k] = {v}
          /\ \A l \in Keys \ {k} : written'[l] = written[l]
      BY <2>2, <2>3
    <2> HIDE DEF e
    <2>. QED  BY <2>1, <2>2, <2>4, UsedGoesLast
  <1>3. CASE evictOne
    <2>1. map \in Seq(Entry) /\ map # <<>> /\ map' = Tail(map)
          /\ UNCHANGED <<uses, lastUse, written>>
      BY <1>3 DEF evictOne, IInv, Types
    <2>2. /\ map' \in Seq(Entry) /\ Len(map) \in Nat /\ Len(map') = Len(map) - 1
          /\ \A i \in 1..Len(map') : map'[i] = map[i + 1] /\ i + 1 \in 1..Len(map)
      BY <2>1, EmptySeq
    <2>3. LruOrder'
      BY <2>1, <2>2 DEF IInv, CacheFaithful, LruOrder
    <2>4. LastWriteWins'
      BY <2>1, <2>2 DEF IInv, CacheFaithful, LastWriteWins
    <2>. QED  BY <2>1, <2>2, <2>3, <2>4 DEF IInv, Types, CacheFaithful
  <1>4. CASE clear
    BY <1>4 DEF clear, IInv, Types, CacheFaithful, LruOrder, LastWriteWins
  <1>5. CASE evicted \/ UNCHANGED vars
    BY <1>5 DEF evicted, vars, IInv, Types, CacheFaithful, LruOrder, LastWriteWins
  <1>. QED  BY <1>1, <1>2, <1>3, <1>4, <1>5 DEF Next

(* A lookup serves what was stored last under its key, and the entry that  *)
(* is evicted first is the one used least recently, whatever the limits.   *)
THEOREM FaithfulCorrect == Spec => []CacheFaithful
  <1>1. Init => IInv
    BY DEF Init, IInv, Types, CacheFaithful, LruOrder, LastWriteWins
  <1>2. IInv /\ [Next]_vars => IInv'
    BY StepKeepsInv
  <1>3. IInv => CacheFaithful
    BY DEF IInv
  <1>. QED  BY <1>1, <1>2, <1>3, PTL DEF Spec

--------------------------------------------------------------------------------
(* The bytes.  sizeOf is a recursive function; what it yields is found by  *)
(* the least place at which it would yield something else.                 *)

(* The totals of the first n entries, one by one.                          *)
Totals(m, n, f) ==
  /\ f \in [0..n -> Nat] /\ f[0] = 0
  /\ \A i \in 1..n : f[i] = f[i - 1] + m[i].size

(* Every map has totals: from those of one entry less follow those of one  *)
(* more.                                                                   *)
LEMMA TotalsExist ==
  ASSUME NEW m \in Seq(Entry)
  PROVE  \E f : Totals(m, Len(m), f)
  <1> DEFINE T == {n \in 0..Len(m) : ~\E f : Totals(m, n, f)}
  <1>1. Len(m) \in Nat /\ \A i \in 1..Len(m) : m[i].size \in Nat
    <2>1. \A e \in Entry : e.size \in Nat
      BY DEF Entry
    <2>. QED  BY <2>1
  <1>2. ASSUME T # {}
        PROVE  FALSE
    <2>1. T \in SUBSET Nat
      BY <1>1
    <2>2. PICK n \in T : \A k \in T : n <= k
      BY <1>2, <2>1, Least, Zenon
    <2>3. n \in 0..Len(m) /\ n \in Nat /\ ~\E f : Totals(m, n, f)
      BY <2>1, <2>2
    <2>4. CASE n = 0
      <3>1. Totals(m, 0, [i \in 0..0 |-> 0])
        BY DEF Totals
      <3>. QED  BY <2>3, <2>4, <3>1
    <2>5. CASE n # 0
      <3>1. n - 1 \in 0..Len(m) /\ n - 1 \in Nat /\ ~(n <= n - 1)
        BY <1>1, <2>3, <2>5
      <3>2. n - 1 \notin T
        BY <2>2, <3>1
      <3>3. PICK f : Totals(m, n - 1, f)
        BY <3>1, <3>2
      <3> DEFINE g == [i \in 0..n |-> IF i = n THEN f[n - 1] + m[n].size ELSE f[i]]
      <3>4. f \in [0..(n - 1) -> Nat] /\ f[0] = 0 /\ \A i \in 1..(n - 1) : f[i] = f[i - 1] + m[i].size
        BY <3>3 DEF Totals
      <3>5. m[n].size \in Nat
        BY <1>1, <2>3, <2>5
      <3>6. g \in [0..n -> Nat] /\ g[0] = 0
        BY <2>3, <2>5, <3>1, <3>4, <3>5
      <3>7. ASSUME NEW i \in 1..n
            PROVE  g[i] = g[i - 1] + m[i].size
        BY <2>3, <2>5, <3>4
      <3>. HIDE DEF g
      <3>8. Totals(m, n, g)
        BY <3>6, <3>7 DEF Totals
      <3>. QED  BY <2>3, <3>8
    <2>. QED  BY <2>4, <2>5
  <1>3. Len(m) \notin T
    BY <1>2
  <1>. QED  BY <1>1, <1>3

(* The bytes of a map are the last of its totals, and nothing else has     *)
(* the steps of the totals.                                                *)
LEMMA SizeIs ==
  ASSUME NEW m \in Seq(Entry), NEW f, Totals(m, Len(m), f)
  PROVE  sizeOf(m) = f[Len(m)]
  <1> DEFINE IsSum(g) == g = [i \in 0..Len(m) |-> IF i = 0 THEN 0 ELSE g[i - 1] + m[i].size]
             h == CHOOSE g : IsSum(g)
  <1>1. sizeOf(m) = h[Len(m)]
    BY DEF sizeOf
  <1>2. Len(m) \in Nat /\ f \in [0..Len(m) -> Nat] /\ f[0] = 0
        /\ \A i \in 1..Len(m) : f[i] = f[i - 1] + m[i].size
    BY DEF Totals
  <1>3. IsSum(f)
    BY <1>2
  <1>4. IsSum(h)
    <2> HIDE DEF IsSum
    <2>. QED  BY <1>3
  <1>5. h[0] = 0 /\ \A i \in 1..Len(m) : h[i] = h[i - 1] + m[i].size
    <2>1. \A i \in 0..Len(m) : h[i] = IF i = 0 THEN 0 ELSE h[i - 1] + m[i].size
      <3> HIDE DEF h
      <3>. QED  BY <1>4
    <2> HIDE DEF h
    <2>. QED  BY <1>2, <2>1
  <1> HIDE DEF h
  <1> DEFINE T == {i \in 0..Len(m) : h[i] # f[i]}
  <1>6. ASSUME T # {}
        PROVE  FALSE
    <2>1. T \in SUBSET Nat
      BY <1>2
    <2>2. PICK n \in T : \A k \in T : n <= k
      BY <1>6, <2>1, Least, Zenon
    <2>3. n \in 0..Len(m) /\ n \in Nat /\ h[n] # f[n]
      BY <2>1, <2>2
    <2>4. n # 0
      BY <1>2, <1>5, <2>3
    <2>5. n - 1 \in 0..Len(m) /\ n \in 1..Len(m) /\ ~(n <= n - 1)
      BY <1>2, <2>3, <2>4
    <2>6. h[n - 1] = f[n - 1]
      BY <2>2, <2>5
    <2>. QED  BY <1>2, <1>5, <2>3, <2>5, <2>6
  <1>7. Len(m) \notin T
    BY <1>6
  <1>. QED  BY <1>1, <1>2, <1>7

(* No entry weighs nothing, and one more adds its bytes.                   *)
LEMMA SizeOfAppend ==
  ASSUME NEW m \in Seq(Entry), NEW e \in Entry
  PROVE  /\ sizeOf(<<>>) = 0 /\ sizeOf(m) \in Nat
         /\ sizeOf(Append(m, e)) = sizeOf(m) + e.size
  <1>1. PICK f : Totals(m, Len(m), f)
    BY TotalsExist
  <1>2. Len(m) \in Nat /\ f \in [0..Len(m) -> Nat] /\ f[0] = 0
        /\ \A i \in 1..Len(m) : f[i] = f[i - 1] + m[i].size
    BY <1>1 DEF Totals
  <1>3. sizeOf(m) = f[Len(m)]
    BY <1>1, SizeIs
  <1>4. sizeOf(<<>>) = 0
    <2>1. <<>> \in Seq(Entry) /\ Len(<<>>) = 0
      OBVIOUS
    <2>2. Totals(<<>>, 0, [i \in 0..0 |-> 0])
      BY DEF Totals
    <2>3. sizeOf(<<>>) = [i \in 0..0 |-> 0][0]
      BY <2>1, <2>2, SizeIs
    <2>. QED  BY <2>3
  <1> DEFINE n == Len(m) + 1
             g == [i \in 0..n |-> IF i = n THEN f[Len(m)] + e.size ELSE f[i]]
  <1>5. /\ Append(m, e) \in Seq(Entry) /\ Len(Append(m, e)) = n /\ Append(m, e)[n] = e
        /\ \A i \in 1..Len(m) : Append(m, e)[i] = m[i]
    OBVIOUS
  <1>6. e.size \in Nat
    BY DEF Entry
  <1>7. g \in [0..n -> Nat] /\ g[0] = 0 /\ g[n] = f[Len(m)] + e.size
        /\ \A i \in 0..Len(m) : g[i] = f[i]
    BY <1>2, <1>6
  <1>8. \A i \in 1..n : (i \in 1..Len(m) /\ i - 1 \in 0..Len(m)) \/ (i = n /\ i - 1 = Len(m))
    BY <1>2
  <1> HIDE DEF g
  <1>9. \A i \in 1..n : g[i] = g[i - 1] + Append(m, e)[i].size
    <2> SUFFICES ASSUME NEW i \in 1..n PROVE g[i] = g[i - 1] + Append(m, e)[i].size
      OBVIOUS
    <2>1. CASE i \in 1..Len(m) /\ i - 1 \in 0..Len(m)
      <3>1. i \in 0..Len(m) /\ f[i] = f[i - 1] + m[i].size
        BY <1>2, <2>1
      <3>. QED  BY <1>5, <1>7, <2>1, <3>1
    <2>2. CASE i = n /\ i - 1 = Len(m)
      <3>1. Len(m) \in 0..Len(m)
        BY <1>2
      <3>. QED  BY <1>5, <1>7, <2>2, <3>1
    <2>. QED  BY <1>8, <2>1, <2>2
  <1>10. Totals(Append(m, e), n, g)
    BY <1>7, <1>9 DEF Totals
  <1>11. sizeOf(Append(m, e)) = g[n]
    BY <1>5, <1>10, SizeIs
  <1>. QED  BY <1>2, <1>3, <1>4, <1>7, <1>11

(* Whatever shares the entries of a map but for one weighs that much less. *)
LEMMA SizeWithoutOne ==
  ASSUME NEW m \in Seq(Entry), NEW k \in 1..Len(m), NEW s \in Seq(Entry),
         Len(s) = Len(m) - 1, \A j \in 1..(Len(m) - 1) : s[j] = IF j < k THEN m[j] ELSE m[j + 1]
  PROVE  sizeOf(s) = sizeOf(m) - m[k].size
  <1>1. PICK f : Totals(m, Len(m), f)
    BY TotalsExist
  <1>2. Len(m) \in Nat /\ f \in [0..Len(m) -> Nat] /\ f[0] = 0
        /\ \A i \in 1..Len(m) : f[i] = f[i - 1] + m[i].size
    BY <1>1 DEF Totals
  <1>3. sizeOf(m) = f[Len(m)]
    BY <1>1, SizeIs
  <1>4. PICK g : Totals(s, Len(s), g)
    BY TotalsExist
  <1>5. Len(s) = Len(m) - 1 /\ g \in [0..Len(s) -> Nat] /\ g[0] = 0
        /\ \A i \in 1..Len(s) : g[i] = g[i - 1] + s[i].size
    BY <1>4 DEF Totals
  <1>6. sizeOf(s) = g[Len(s)]
    BY <1>4, SizeIs
  <1>7. \A i \in 1..Len(m) : m[i].size \in Nat
    <2>1. \A e \in Entry : e.size \in Nat
      BY DEF Entry
    <2>. QED  BY <2>1
  <1> DEFINE offset(i) == IF i < k THEN g[i] = f[i] ELSE g[i] = f[i + 1] - m[k].size
             T == {i \in 0..Len(s) : ~offset(i)}
  <1>8. ASSUME T # {}
        PROVE  FALSE
    <2>1. T \in SUBSET Nat
      BY <1>2, <1>5
    <2>2. PICK n \in T : \A i \in T : n <= i
      BY <1>8, <2>1, Least, Zenon
    <2>3. n \in 0..Len(s) /\ n \in Nat /\ ~offset(n)
      BY <2>1, <2>2
    <2>4. CASE n = 0
      <3>1. k \in Nat /\ k >= 1 /\ 0 < k
        BY <1>2
      <3>. QED  BY <1>2, <1>5, <2>3, <2>4, <3>1
    <2>5. CASE n # 0
      <3>1. n - 1 \in 0..Len(s) /\ n \in 1..Len(s) /\ ~(n <= n - 1)
        BY <1>2, <1>5, <2>3, <2>5
      <3>2. offset(n - 1)
        BY <2>2, <3>1
      <3>3. g[n] = g[n - 1] + s[n].size
        BY <1>5, <3>1
      <3>4. n \in 1..Len(m) /\ n + 1 \in 1..Len(m) /\ n \in 1..(Len(m) - 1) /\ k \in Nat
            /\ n - 1 \in 0..Len(m) /\ n \in 0..Len(m) /\ n + 1 \in 0..Len(m)
        BY <1>2, <1>5, <3>1
      <3>5. f[n] = f[n - 1] + m[n].size /\ f[n + 1] = f[n] + m[n + 1].size
        BY <1>2, <3>4
      <3>6. f[n - 1] \in Nat /\ f[n] \in Nat /\ f[n + 1] \in Nat
            /\ m[n].size \in Nat /\ m[n + 1].size \in Nat /\ m[k].size \in Nat
        BY <1>2, <1>7, <3>4
      <3>7. CASE n < k
        <4>1. n - 1 < k /\ s[n] = m[n]
          BY <3>4, <3>7
        <4>. QED  BY <2>3, <3>2, <3>3, <3>5, <3>6, <3>7, <4>1
      <3>8. CASE n = k
        <4>1. n - 1 < k /\ s[n] = m[n + 1]
          BY <3>4, <3>8
        <4>2. g[n] = f[n - 1] + m[n + 1].size
          BY <3>2, <3>3, <4>1
        <4>3. f[n + 1] - m[k].size = f[n - 1] + m[n + 1].size
          <5>1. f[n + 1] = (f[n - 1] + m[n].size) + m[n + 1].size /\ m[k].size = m[n].size
            BY <3>5, <3>8
          <5>2. \A a, b, c \in Nat : ((a + b) + c) - b = a + c
            OBVIOUS
          <5>. QED  BY <3>6, <5>1, <5>2
        <4>4. ~(n < k)
          BY <3>4, <3>8
        <4>. QED  BY <2>3, <4>2, <4>3, <4>4
      <3>9. CASE n > k
        <4>1. ~(n - 1 < k) /\ ~(n < k) /\ s[n] = m[n + 1] /\ (n - 1) + 1 = n
          BY <3>4, <3>9
        <4>2. g[n - 1] = f[n] - m[k].size
          BY <3>2, <4>1
        <4>3. g[n] = f[n + 1] - m[k].size
          <5>1. g[n] = (f[n] - m[k].size) + m[n + 1].size
            BY <3>3, <4>1, <4>2
          <5>2. \A a, b, c \in Int : (a - b) + c = (a + c) - b
            OBVIOUS
          <5>3. g[n] = (f[n] + m[n + 1].size) - m[k].size
            BY <3>6, <5>1, <5>2
          <5>. QED  BY <3>5, <5>3
        <4>. QED  BY <2>3, <4>1, <4>3
      <3>. QED  BY <3>4, <3>7, <3>8, <3>9
    <2>. QED  BY <2>4, <2>5
  <1>9. Len(s) \notin T
    BY <1>8
  <1>10. Len(s) \in 0..Len(s) /\ Len(s) + 1 = Len(m)
    BY <1>2, <1>5
  <1>11. CASE Len(s) < k
    <2>1. k = Len(m) /\ g[Len(s)] = f[Len(s)] /\ Len(s) = k - 1
      BY <1>2, <1>9, <1>10, <1>11
    <2>2. f[k] = f[k - 1] + m[k].size /\ f[k - 1] \in Nat /\ m[k].size \in Nat
      BY <1>2, <1>7, <1>10, <2>1
    <2>. QED  BY <1>3, <1>6, <2>1, <2>2
  <1>12. CASE ~(Len(s) < k)
    BY <1>3, <1>6, <1>9, <1>10, <1>12
  <1>. QED  BY <1>11, <1>12

(* The bytes are accounted for, and what has been evicted since the last   *)
(* set() did not fit.                                                      *)
Needed(n) ==
  /\ n \in 0..Len(inserted) /\ map = after(inserted, n)
  /\ \A l \in 0..(n - 1) : ~fits(after(inserted, l))

BytesInv ==
  /\ map \in Seq(Entry) /\ inserted \in Seq(Entry) /\ pc \in {"idle", "evict"}
  /\ totalSize = sizeOf(map)
  /\ pc = "evict" => \E n \in 0..Len(inserted) : Needed(n)

(* What the entries weigh is a number, and none weigh nothing.             *)
LEMMA SizeIsNat ==
  /\ sizeOf(<<>>) = 0
  /\ \A m \in Seq(Entry) : sizeOf(m) \in Nat
  <1>1. sizeOf(<<>>) = 0
    <2>1. Totals(<<>>, 0, [i \in 0..0 |-> 0]) /\ <<>> \in Seq(Entry)
      BY DEF Totals
    <2>. QED  BY <2>1, SizeIs
  <1>2. ASSUME NEW m \in Seq(Entry)
        PROVE  sizeOf(m) \in Nat
    <2>1. PICK f : Totals(m, Len(m), f)
      BY TotalsExist
    <2>2. f \in [0..Len(m) -> Nat] /\ Len(m) \in 0..Len(m)
      BY <2>1 DEF Totals
    <2>. QED  BY <2>1, <2>2, SizeIs
  <1>. QED  BY <1>1, <1>2

(* A map fits when there is nothing to evict for.                          *)
LEMMA FitsUnlessTooBig ==
  ASSUME map \in Seq(Entry), totalSize = sizeOf(map)
  PROVE  fits(map) <=> ~tooBig
  <1>1. Len(map) \in Nat /\ sizeOf(map) \in Nat /\ maxEntries \in Nat /\ maxBytes \in Nat
    BY SizeIsNat, CacheAssumption
  <1> DEFINE w == sizeOf(map)
  <1>2. w \in Nat /\ totalSize = w
    BY <1>1
  <1>3. fits(map) <=> Len(map) <= maxEntries /\ w <= maxBytes
    BY DEF fits
  <1> HIDE DEF w
  <1>. QED  BY <1>1, <1>2, <1>3 DEF tooBig

(* Taking out a key and putting an entry at the end changes the total by   *)
(* what the code adds and subtracts.                                       *)
LEMMA SizeOfUsed ==
  ASSUME map \in Seq(Entry), NEW k \in Keys, NEW e \in Entry
  PROVE  /\ Append(delete(k), e) \in Seq(Entry)
         /\ has(k) => /\ entry(k) \in Entry
                      /\ sizeOf(Append(delete(k), e)) = (sizeOf(map) - entry(k).size) + e.size
         /\ ~has(k) => sizeOf(Append(delete(k), e)) = sizeOf(map) + e.size
  <1>1. CASE has(k)
    <2>1. placeOf(k) \in 1..Len(map)
      BY <1>1 DEF has, placeOf
    <2>2. entry(k) \in Entry /\ entry(k) = map[placeOf(k)]
      BY <2>1 DEF entry
    <2>3. delete(k) = RemoveAt(map, placeOf(k))
      BY <1>1 DEF delete
    <2> DEFINE p == placeOf(k)
    <2> HIDE DEF p
    <2>4. /\ RemoveAt(map, p) \in Seq(Entry)
          /\ Len(RemoveAt(map, p)) = Len(map) - 1
          /\ \A j \in 1..(Len(map) - 1) : RemoveAt(map, p)[j] = IF j < p THEN map[j] ELSE map[j + 1]
      BY <2>1, RemoveAtElements DEF p
    <2>5. sizeOf(RemoveAt(map, p)) = sizeOf(map) - map[p].size
      BY <2>1, <2>4, SizeWithoutOne DEF p
    <2>6. delete(k) \in Seq(Entry) /\ sizeOf(delete(k)) = sizeOf(map) - entry(k).size
      BY <2>2, <2>3, <2>4, <2>5 DEF p
    <2>. QED  BY <1>1, <2>2, <2>6, SizeOfAppend
  <1>2. CASE ~has(k)
    BY <1>2, SizeOfAppend DEF delete
  <1>. QED  BY <1>1, <1>2

(* No step makes the total drift, and one more eviction is one more map    *)
(* that did not fit.                                                       *)
LEMMA StepKeepsBytes ==
  ASSUME BytesInv, [Next]_vars
  PROVE  BytesInv'
  <1>0. /\ map \in Seq(Entry) /\ inserted \in Seq(Entry) /\ pc \in {"idle", "evict"}
        /\ totalSize = sizeOf(map)
    BY DEF BytesInv
  <1>1. ASSUME NEW k \in Keys, get(k)
        PROVE  BytesInv'
    <2>1. /\ has(k) /\ map' = Append(delete(k), entry(k)) /\ pc' = "idle"
          /\ UNCHANGED <<totalSize, inserted>>
      BY <1>1 DEF get
    <2>2. entry(k) \in Entry
      <3>1. placeOf(k) \in 1..Len(map)
        BY <2>1 DEF has, placeOf
      <3>. QED  BY <1>0, <3>1 DEF entry
    <2>3. /\ map' \in Seq(Entry)
          /\ sizeOf(Append(delete(k), entry(k))) = (sizeOf(map) - entry(k).size) + entry(k).size
      BY <1>0, <2>1, <2>2, SizeOfUsed
    <2>4. sizeOf(map) \in Nat /\ entry(k).size \in Nat
      BY <1>0, <2>2, SizeOfAppend DEF Entry
    <2>5. totalSize' = sizeOf(Append(delete(k), entry(k)))
      BY <1>0, <2>1, <2>3, <2>4
    <2>6. totalSize' = sizeOf(map)'
      BY <2>1, <2>5 DEF sizeOf
    <2>. QED  BY <1>0, <2>1, <2>3, <2>6 DEF BytesInv
  <1>2. ASSUME NEW k \in Keys, NEW v \in Values, NEW n \in Sizes, set(k, v, n)
        PROVE  BytesInv'
    <2> DEFINE e == [key |-> k, value |-> v, size |-> n]
               m == Append(delete(k), e)
    <2>1. e \in Entry /\ e.size = n
      BY CacheAssumption DEF Entry
    <2>2. /\ map' = m /\ inserted' = m /\ pc' = "evict"
          /\ totalSize' = (IF has(k) THEN totalSize - entry(k).size ELSE totalSize) + n
      BY <1>2 DEF set
    <2> HIDE DEF e
    <2>3. m \in Seq(Entry) /\ totalSize' = sizeOf(m)
      BY <1>0, <2>1, <2>2, SizeOfUsed
    <2> HIDE DEF m
    <2>4. totalSize' = sizeOf(map)'
      BY <2>2, <2>3 DEF sizeOf
    <2>5. after(m, 0) = m
      BY <2>3 DEF after
    <2>6. Needed(0)'
      <3>1. 0 \in 0..Len(m) /\ 0..(0 - 1) = {}
        BY <2>3
      <3>. QED  BY <2>2, <2>5, <3>1 DEF Needed, after
    <2>7. 0 \in 0..Len(inserted)'
      BY <2>2, <2>3
    <2>. QED  BY <2>2, <2>3, <2>4, <2>6, <2>7 DEF BytesInv
  <1>3. CASE evictOne
    <2>1. /\ pc = "evict" /\ tooBig /\ map # <<>> /\ totalSize' = totalSize - Head(map).size
          /\ map' = Tail(map) /\ UNCHANGED <<pc, inserted>>
      BY <1>3 DEF evictOne
    <2>2. /\ Tail(map) \in Seq(Entry) /\ Len(map) \in Nat /\ Len(map) >= 1
          /\ Len(Tail(map)) = Len(map) - 1 /\ Head(map) = map[1]
          /\ \A j \in 1..(Len(map) - 1) : Tail(map)[j] = map[j + 1]
      BY <1>0, <2>1, EmptySeq
    <2>3. sizeOf(Tail(map)) = sizeOf(map) - map[1].size
      <3>1. 1 \in 1..Len(map) /\ \A j \in 1..(Len(map) - 1) : ~(j < 1)
        BY <2>2
      <3>. QED  BY <1>0, <2>2, <3>1, SizeWithoutOne
    <2>4. totalSize' = sizeOf(Tail(map))
      BY <1>0, <2>1, <2>2, <2>3
    <2>5. totalSize' = sizeOf(map)'
      BY <2>1, <2>4 DEF sizeOf
    <2>6. PICK n \in 0..Len(inserted) : Needed(n)
      BY <2>1 DEF BytesInv
    <2>7. ~fits(after(inserted, n))
      <3>1. map = after(inserted, n)
        BY <2>6 DEF Needed
      <3>2. ~fits(map)
        BY <1>0, <2>1, FitsUnlessTooBig
      <3>. QED  BY <3>1, <3>2
    <2>8. /\ n + 1 \in 0..Len(inserted)
          /\ Tail(map) = after(inserted, n + 1)
      <3>1. Len(inserted) \in Nat /\ n \in Nat /\ n <= Len(inserted) /\ map = SubSeq(inserted, n + 1, Len(inserted))
        BY <1>0, <2>6 DEF Needed, after
      <3>2. n < Len(inserted)
        BY <1>0, <2>1, <3>1
      <3>. QED  BY <1>0, <3>1, <3>2 DEF after
    <2>9. \A l \in 0..((n + 1) - 1) : ~fits(after(inserted, l))
      <3>1. \A l \in 0..((n + 1) - 1) : l = n \/ l \in 0..(n - 1)
        BY <2>6
      <3>. QED  BY <2>6, <2>7, <3>1 DEF Needed
    <2>10. Needed(n + 1)'
      <3>1. inserted' = inserted /\ map' = after(inserted, n + 1)
        BY <2>1, <2>8
      <3>2. /\ after(inserted, n + 1)' = after(inserted', n + 1)
            /\ \A l \in 0..((n + 1) - 1) : fits(after(inserted, l))' <=> fits(after(inserted', l))
        BY DEF after, fits, sizeOf
      <3>. QED  BY <2>8, <2>9, <3>1, <3>2 DEF Needed
    <2>. QED  BY <1>0, <2>1, <2>2, <2>5, <2>8, <2>10 DEF BytesInv
  <1>4. CASE clear
    <2>1. map' = <<>> /\ totalSize' = 0 /\ pc' = "idle" /\ inserted' = <<>>
      BY <1>4 DEF clear
    <2>2. sizeOf(map)' = sizeOf(<<>>)
      BY <2>1 DEF sizeOf
    <2>3. sizeOf(<<>>) = 0
      <3>1. Totals(<<>>, 0, [i \in 0..0 |-> 0]) /\ <<>> \in Seq(Entry)
        BY DEF Totals
      <3>. QED  BY <3>1, SizeIs
    <2>. QED  BY <2>1, <2>2, <2>3 DEF BytesInv
  <1>5. CASE evicted
    <2>1. pc' = "idle" /\ UNCHANGED <<map, totalSize, inserted>>
      BY <1>5 DEF evicted
    <2>2. totalSize' = sizeOf(map)'
      BY <1>0, <2>1 DEF sizeOf
    <2>3. pc' # "evict" /\ pc' \in {"idle", "evict"}
      BY <2>1
    <2>4. map' \in Seq(Entry) /\ inserted' \in Seq(Entry)
      BY <1>0, <2>1
    <2>. QED  BY <2>2, <2>3, <2>4 DEF BytesInv
  <1>6. CASE UNCHANGED vars
    <2>1. UNCHANGED <<map, totalSize, pc, inserted>>
      BY <1>6 DEF vars
    <2>2. totalSize' = sizeOf(map)'
      BY <1>0, <2>1 DEF sizeOf
    <2>3. ASSUME NEW n \in 0..Len(inserted), Needed(n)
          PROVE  Needed(n)'
      <3>1. \A l \in 0..(n - 1) : fits(after(inserted, l))' <=> fits(after(inserted', l))
        BY DEF after, fits, sizeOf
      <3>2. map' = after(inserted, n) /\ after(inserted, n)' = after(inserted', n)
        BY <2>1, <2>3 DEF Needed, after
      <3>. QED  BY <2>1, <2>3, <3>1, <3>2 DEF Needed
    <2>4. /\ map' \in Seq(Entry) /\ inserted' \in Seq(Entry) /\ pc' \in {"idle", "evict"}
          /\ pc' = pc /\ inserted' = inserted
      BY <1>0, <2>1
    <2>5. ASSUME pc' = "evict"
          PROVE  \E n \in 0..Len(inserted') : Needed(n)'
      <3>1. PICK n \in 0..Len(inserted) : Needed(n)
        BY <2>4, <2>5 DEF BytesInv
      <3>2. Needed(n)'
        BY <2>3, <3>1
      <3>. QED  BY <2>4, <3>2
    <2>. QED  BY <2>2, <2>4, <2>5 DEF BytesInv
  <1>. QED  BY <1>1, <1>2, <1>3, <1>4, <1>5, <1>6 DEF Next

(* The bytes are what the entries weigh, whatever was overwritten, evicted *)
(* or read in between.                                                     *)
THEOREM BytesCorrect == Spec => []BytesInv
  <1>1. Init => BytesInv
    <2> SUFFICES ASSUME Init PROVE BytesInv
      OBVIOUS
    <2>1. map = <<>> /\ totalSize = 0 /\ pc = "idle" /\ inserted = <<>>
      BY DEF Init
    <2>2. sizeOf(<<>>) = 0
      <3>1. Totals(<<>>, 0, [i \in 0..0 |-> 0]) /\ <<>> \in Seq(Entry)
        BY DEF Totals
      <3>. QED  BY <3>1, SizeIs
    <2>. QED  BY <2>1, <2>2 DEF BytesInv
  <1>2. BytesInv /\ [Next]_vars => BytesInv'
    BY StepKeepsBytes
  <1>. QED  BY <1>1, <1>2, PTL DEF Spec

(* What a set() leaves fits both limits, and one entry more would not.     *)
THEOREM EvictsCorrect == Spec => EvictsNoMoreThanNeeded
  <1> DEFINE Longest == \E n \in 0..Len(inserted) :
               /\ map = after(inserted, n)
               /\ fits(map)
               /\ \A l \in 0..(n - 1) : ~fits(after(inserted, l))
  <1>1. BytesInv /\ evicted => Longest
    <2> SUFFICES ASSUME BytesInv, evicted PROVE Longest
      OBVIOUS
    <2>1. PICK n \in 0..Len(inserted) : Needed(n)
      BY DEF evicted, BytesInv
    <2>2. fits(map)
      <3>1. CASE ~tooBig
        BY <3>1, FitsUnlessTooBig DEF BytesInv
      <3>2. CASE map = <<>>
        BY <3>2, SizeIsNat, CacheAssumption DEF fits
      <3>. QED  BY <3>1, <3>2 DEF evicted
    <2>. QED  BY <2>1, <2>2 DEF Needed
  <1>2. BytesInv /\ [Next]_vars => [evicted => Longest]_vars
    BY <1>1
  <1>3. Spec => [][evicted => Longest]_vars
    <2> HIDE DEF Longest
    <2>. QED  BY <1>2, BytesCorrect, PTL DEF Spec
  <1>. QED  BY <1>3, PTL DEF EvictsNoMoreThanNeeded

(* Every variable keeps its type; the byte total is never negative.        *)
THEOREM TypesCorrect == Spec => []TypeOK
  <1>1. Init => IInv
    BY DEF Init, IInv, Types, CacheFaithful, LruOrder, LastWriteWins
  <1>2. IInv /\ [Next]_vars => IInv'
    BY StepKeepsInv
  <1>3. IInv /\ BytesInv => TypeOK
    BY SizeIsNat DEF IInv, Types, BytesInv, TypeOK
  <1>. QED  BY <1>1, <1>2, <1>3, BytesCorrect, PTL DEF Spec

(* Served is what was stored last, evicted first what was used least       *)
(* recently, in every run and for every limit.                             *)
THEOREM StoredCorrect == Spec => []StoredFaithful
  BY TypesCorrect, FaithfulCorrect, PTL DEF StoredFaithful
================================================================================
