--------------------------------- MODULE Lemmas --------------------------------
(***************************************************************************)
(* Facts about numbers, sorted sets and sequences that the proofs about    *)
(* several components rest on.                                             *)
(***************************************************************************)
EXTENDS Ordering, SequencesExt, FiniteSetTheorems, SequenceTheorems, WellFoundedInduction, TLAPS

(* A set of numbers that is not empty has a least one.                     *)
LEMMA Least ==
  ASSUME NEW T \in SUBSET Nat, T # {}
  PROVE  \E x \in T : \A y \in T : x <= y
  <1> DEFINE R == {s \in Nat \X Nat : s[1] < s[2]}
  <1>1. IsWellFoundedOn(R, Nat)
    BY NatLessThanWellFounded, Zenon DEF OpToRel
  <1>2. PICK x \in T : \A y \in T : <<y, x>> \notin R
    <2> HIDE DEF R
    <2>. QED  BY <1>1, WFMin
  <1>3. \A y \in T : ~(y < x)
    BY <1>2
  <1>. QED  BY <1>3

(* Induction up to n, for a set of numbers.                                *)
LEMMA UpTo ==
  ASSUME NEW n \in Nat, NEW S, 0 \in S, \A i \in 1..n : i - 1 \in S => i \in S
  PROVE  \A i \in 0..n : i \in S
  <1> DEFINE T == {i \in 0..n : i \notin S}
  <1>1. ASSUME T # {}
        PROVE  FALSE
    <2>1. T \in SUBSET Nat
      OBVIOUS
    <2>2. PICK m \in T : \A k \in T : m <= k
      BY <1>1, <2>1, Least, Zenon
    <2>3. m \in 1..n /\ m - 1 \in 0..n /\ ~(m <= m - 1) /\ m \notin S
      BY <2>2
    <2>. QED  BY <2>2, <2>3
  <1>. QED  BY <1>1

(* Strong induction up to n.                                               *)
LEMMA Descent ==
  ASSUME NEW n \in Nat, NEW S, \A i \in 0..n : (\A k \in 0..(i - 1) : k \in S) => i \in S
  PROVE  \A i \in 0..n : i \in S
  <1> DEFINE T == {i \in 0..n : i \notin S}
  <1>1. ASSUME T # {}
        PROVE  FALSE
    <2>1. T \in SUBSET Nat
      OBVIOUS
    <2>2. PICK m \in T : \A k \in T : m <= k
      BY <1>1, <2>1, Least, Zenon
    <2>3. m \in 0..n /\ m \notin S /\ \A k \in 0..(m - 1) : k \in 0..n /\ ~(m <= k)
      BY <2>2
    <2>4. \A k \in 0..(m - 1) : k \in S
      BY <2>2, <2>3
    <2>. QED  BY <2>3, <2>4
  <1>. QED  BY <1>1

(* Induction from n down.                                                  *)
LEMMA FromBehind ==
  ASSUME NEW n \in Nat, NEW S, \A i \in 1..n : (\A k \in (i + 1)..n : k \in S) => i \in S
  PROVE  \A i \in 1..n : i \in S
  <1> DEFINE R == {j \in 0..n : j = n \/ n - j \in S}
  <1>1. ASSUME NEW j \in 0..n, \A k \in 0..(j - 1) : k \in R
        PROVE  j \in R
    <2>1. CASE j = n
      BY <2>1
    <2>2. CASE j # n
      <3>1. n - j \in 1..n
        BY <2>2
      <3>2. ASSUME NEW k \in ((n - j) + 1)..n
            PROVE  k \in S
        <4>1. n - k \in 0..(j - 1) /\ n - k # n /\ n - (n - k) = k
          BY <3>1
        <4>. QED  BY <1>1, <4>1
      <3>. QED  BY <3>1, <3>2
    <2>. QED  BY <2>1, <2>2
  <1>2. \A j \in 0..n : j \in R
    <2> HIDE DEF R
    <2>. QED  BY <1>1, Descent
  <1>3. ASSUME NEW i \in 1..n
        PROVE  i \in S
    <2>1. n - i \in 0..n /\ n - i # n /\ n - (n - i) = i
      OBVIOUS
    <2>. QED  BY <1>2, <2>1
  <1>. QED  BY <1>3

(* The greatest of some numbers up to q.                                   *)
LEMMA Greatest ==
  ASSUME NEW q \in Nat, NEW S \in SUBSET (1..q), S # {}
  PROVE  \E i \in S : \A j \in S : j <= i
  <1> DEFINE T == {q - i : i \in S}
  <1>1. T \in SUBSET Nat
    <2>1. \A i \in S : q - i \in Nat
      OBVIOUS
    <2>. QED  BY <2>1
  <1>2. T # {}
    OBVIOUS
  <1>3. PICK m \in T : \A k \in T : m <= k
    BY <1>1, <1>2, Least, Zenon
  <1>4. PICK i \in S : m = q - i
    BY <1>3
  <1>5. \A j \in S : q - i <= q - j
    BY <1>3, <1>4
  <1>. QED  BY <1>5

(* f holds the values that a recursive function goes through: a, and then  *)
(* what each of the n steps of G makes of the result of the one before it. *)
Steps(f, n, a, G) == f[0] = a /\ \A i \in 1..n : f[i] = G[<<i, f[i - 1]>>]

(* Such values exist for any steps.                                        *)
LEMMA StepsExist ==
  ASSUME NEW A, NEW a \in A, NEW n \in Nat, NEW G \in [(1..n) \X A -> A]
  PROVE  \E f \in [0..n -> A] : Steps(f, n, a, G)
  <1> DEFINE S == {k \in 0..n : \E f \in [0..k -> A] : Steps(f, k, a, G)}
  <1>1. 0 \in S
    <2>1. [i \in 0..0 |-> a] \in [0..0 -> A] /\ Steps([i \in 0..0 |-> a], 0, a, G)
      BY DEF Steps
    <2>. QED  BY <2>1
  <1>2. ASSUME NEW k \in 1..n, k - 1 \in S
        PROVE  k \in S
    <2>1. PICK f \in [0..(k - 1) -> A] : Steps(f, k - 1, a, G)
      BY <1>2
    <2> DEFINE g == [i \in 0..k |-> IF i = k THEN G[<<k, f[k - 1]>>] ELSE f[i]]
    <2>2. f[0] = a /\ \A i \in 1..(k - 1) : f[i] = G[<<i, f[i - 1]>>]
      BY <2>1 DEF Steps
    <2>3. k - 1 \in 0..(k - 1) /\ f[k - 1] \in A /\ <<k, f[k - 1]>> \in (1..n) \X A
      OBVIOUS
    <2>4. G[<<k, f[k - 1]>>] \in A
      BY <2>3
    <2>5. g \in [0..k -> A] /\ g[0] = a /\ g[k] = G[<<k, g[k - 1]>>]
      <3> DEFINE v == G[<<k, f[k - 1]>>]
      <3>1. v \in A
        BY <2>4
      <3> HIDE DEF v
      <3>2. g = [i \in 0..k |-> IF i = k THEN v ELSE f[i]]
        BY DEF v
      <3>3. 0 \in 0..k /\ k \in 0..k /\ k - 1 \in 0..k /\ k - 1 # k /\ k # 0
        OBVIOUS
      <3>4. \A i \in 0..k : i # k => i \in 0..(k - 1)
        OBVIOUS
      <3>5. g \in [0..k -> A] /\ g[0] = a /\ g[k] = v /\ g[k - 1] = f[k - 1]
        BY <2>2, <3>1, <3>2, <3>3, <3>4
      <3>. QED  BY <3>5 DEF v
    <2>6. \A i \in 1..(k - 1) : g[i] = f[i] /\ g[i - 1] = f[i - 1]
      OBVIOUS
    <2>7. \A i \in 1..k : i = k \/ i \in 1..(k - 1)
      OBVIOUS
    <2> HIDE DEF g
    <2>8. Steps(g, k, a, G)
      BY <2>2, <2>5, <2>6, <2>7 DEF Steps
    <2>. QED  BY <2>5, <2>8
  <1> HIDE DEF S
  <1>3. n \in S
    BY <1>1, <1>2, UpTo
  <1>. QED  BY <1>3 DEF S

(* G defines a function on 1..n at each place by what it is behind it.     *)
ReadsBehind(n, V, G) ==
  \A m \in 1..n, f, g \in [1..n -> V] :
    (\A c \in (m + 1)..n : f[c] = g[c]) => G[<<m, f>>] = G[<<m, g>>]

(* f is the function on 1..n that G defines.                               *)
DefinedBy(f, n, G) == \A m \in 1..n : f[m] = G[<<m, f>>]

(* There is one.                                                           *)
LEMMA DefinedFromBehind ==
  ASSUME NEW n \in Nat, NEW V, V # {}, NEW G \in [(1..n) \X [1..n -> V] -> V],
         ReadsBehind(n, V, G)
  PROVE  \E f \in [1..n -> V] : DefinedBy(f, n, G)
  <1> DEFINE A == [1..n -> V]
             H == [p \in (1..n) \X A |-> [m \in 1..n |-> G[<<m, p[2]>>]]]
  <1>1. PICK a \in A : TRUE
    <2>1. PICK v \in V : TRUE
      OBVIOUS
    <2>2. [m \in 1..n |-> v] \in A
      OBVIOUS
    <2>. QED  BY <2>2
  <1>2. H \in [(1..n) \X A -> A]
    <2>1. \A p \in (1..n) \X A : p[2] \in A
      OBVIOUS
    <2>2. \A f \in A, m \in 1..n : G[<<m, f>>] \in V
      OBVIOUS
    <2>. QED  BY <2>1, <2>2
  <1>3. PICK h \in [0..n -> A] : Steps(h, n, a, H)
    <2> HIDE DEF A, H
    <2>. QED  BY <1>1, <1>2, StepsExist
  <1>4. \A i \in 1..n, m \in 1..n : h[i][m] = G[<<m, h[i - 1]>>]
    <2> SUFFICES ASSUME NEW i \in 1..n, NEW m \in 1..n
                 PROVE  h[i][m] = G[<<m, h[i - 1]>>]
      OBVIOUS
    <2>1. h[i] = H[<<i, h[i - 1]>>]
      <3> HIDE DEF H
      <3>. QED  BY <1>3 DEF Steps
    <2>2. i - 1 \in 0..n
      OBVIOUS
    <2>3. h[i - 1] \in A
      <3> HIDE DEF A
      <3>. QED  BY <1>3, <2>2
    <2>4. <<i, h[i - 1]>> \in (1..n) \X A
      BY <2>3
    <2>5. H[<<i, h[i - 1]>>] = [k \in 1..n |-> G[<<k, h[i - 1]>>]]
      BY <2>4
    <2>. QED  BY <2>1, <2>5
  (* After i steps the function is what it should be at the last i.        *)
  <1> DEFINE S == {i \in 0..n : \A m \in 1..n : n - i < m => h[i][m] = G[<<m, h[i]>>]}
  <1>5. 0 \in S
    OBVIOUS
  <1>6. ASSUME NEW i \in 1..n, i - 1 \in S
        PROVE  i \in S
    <2>1. h[i] \in A /\ h[i - 1] \in A
      <3>1. i \in 0..n /\ i - 1 \in 0..n
        OBVIOUS
      <3> HIDE DEF A
      <3>. QED  BY <1>3, <3>1
    <2>2. ASSUME NEW m \in 1..n, n - i < m
          PROVE  h[i][m] = G[<<m, h[i]>>]
      <3>1. \A c \in (m + 1)..n : h[i][c] = h[i - 1][c]
        <4> SUFFICES ASSUME NEW c \in (m + 1)..n
                     PROVE  h[i][c] = h[i - 1][c]
          OBVIOUS
        <4>1. c \in 1..n /\ n - (i - 1) < c
          BY <2>2
        <4>2. h[i - 1][c] = G[<<c, h[i - 1]>>]
          BY <1>6, <4>1
        <4>. QED  BY <1>4, <4>1, <4>2
      <3>2. G[<<m, h[i]>>] = G[<<m, h[i - 1]>>]
        BY <2>1, <3>1 DEF ReadsBehind
      <3>3. h[i][m] = G[<<m, h[i - 1]>>]
        BY <1>4
      <3>. QED  BY <3>2, <3>3
    <2>3. i \in 0..n
      OBVIOUS
    <2>. QED  BY <2>2, <2>3
  <1>7. n \in S
    <2> HIDE DEF S
    <2>1. \A i \in 0..n : i \in S
      BY <1>5, <1>6, UpTo
    <2>. QED  BY <2>1
  <1>8. h[n] \in A
    <2>1. n \in 0..n
      OBVIOUS
    <2> HIDE DEF A
    <2>. QED  BY <1>3, <2>1
  <1>9. ASSUME NEW m \in 1..n
        PROVE  h[n][m] = G[<<m, h[n]>>]
    <2>1. n - n < m
      OBVIOUS
    <2>. QED  BY <1>7, <2>1
  <1>. QED  BY <1>8, <1>9 DEF DefinedBy

(* A finite set with a strict total order on it is listed in that order:   *)
(* counting what stands before a member numbers the members from 0.        *)
LEMMA OrderedIsSorted ==
  ASSUME NEW S, IsFiniteSet(S), NEW R,
         \A x \in S : <<x, x>> \notin R,
         \A x, y, z \in S : <<x, y>> \in R /\ <<y, z>> \in R => <<x, z>> \in R,
         \A x, y \in S : x # y => <<x, y>> \in R \/ <<y, x>> \in R
  PROVE  /\ Cardinality(S) \in Nat
         /\ \A k \in 1..Cardinality(S) :
              /\ ordered(S, R)[k] \in S
              /\ Cardinality({y \in S : <<y, ordered(S, R)[k]>> \in R}) = k - 1
         /\ \A k, l \in 1..Cardinality(S) : k < l => <<ordered(S, R)[k], ordered(S, R)[l]>> \in R
  <1> DEFINE n == Cardinality(S)
             preceding(x) == {y \in S : <<y, x>> \in R}
             count == [x \in S |-> Cardinality(preceding(x))]
  <1>1. n \in Nat
    BY FS_CardinalityType
  <1>2. \A x \in S : /\ IsFiniteSet(preceding(x))
                     /\ Cardinality(preceding(x)) \in Nat
                     /\ Cardinality(preceding(x)) < n
    <2> SUFFICES ASSUME NEW x \in S
                 PROVE  /\ IsFiniteSet(preceding(x))
                        /\ Cardinality(preceding(x)) \in Nat
                        /\ Cardinality(preceding(x)) < n
      OBVIOUS
    <2>1. preceding(x) \in SUBSET S /\ x \notin preceding(x)
      OBVIOUS
    <2>2. IsFiniteSet(preceding(x)) /\ Cardinality(preceding(x)) <= n
      BY <2>1, FS_Subset
    <2>3. Cardinality(preceding(x)) # n
      BY <2>1, FS_Subset
    <2>4. Cardinality(preceding(x)) \in Nat
      BY <2>2, FS_CardinalityType
    <2>. QED  BY <1>1, <2>2, <2>3, <2>4
  <1>3. \A x, y \in S : <<x, y>> \in R => count[x] < count[y]
    <2> SUFFICES ASSUME NEW x \in S, NEW y \in S, <<x, y>> \in R
                 PROVE  count[x] < count[y]
      OBVIOUS
    <2>1. preceding(x) \in SUBSET preceding(y) /\ x \in preceding(y) /\ x \notin preceding(x)
      OBVIOUS
    <2>2. /\ Cardinality(preceding(x)) <= Cardinality(preceding(y))
          /\ Cardinality(preceding(x)) # Cardinality(preceding(y))
      BY <1>2, <2>1, FS_Subset
    <2>3. count[x] = Cardinality(preceding(x)) /\ count[y] = Cardinality(preceding(y))
      OBVIOUS
    <2>4. count[x] \in Nat /\ count[y] \in Nat
      BY <1>2, <2>3
    <2> HIDE DEF count, preceding
    <2>. QED  BY <2>2, <2>3, <2>4
  <1>4. count \in Injection(S, 0..(n - 1))
    <2>1. count \in [S -> 0..(n - 1)]
      <3> HIDE DEF preceding, n
      <3>1. \A c \in Nat : c < n => c \in 0..(n - 1)
        BY <1>1
      <3>2. \A x \in S : Cardinality(preceding(x)) \in 0..(n - 1)
        BY <1>2, <3>1
      <3>. QED  BY <3>2
    <2>2. \A x, y \in S : x # y => count[x] # count[y]
      <3>1. \A x, y \in S : x # y => count[x] < count[y] \/ count[y] < count[x]
        BY <1>3
      <3>2. \A x \in S : count[x] \in Nat
        <4> HIDE DEF preceding, n
        <4>. QED  BY <1>1, <1>2
      <3> HIDE DEF count
      <3>. QED  BY <3>1, <3>2
    <2> HIDE DEF count
    <2>. QED  BY <2>1, <2>2 DEF Injection, IsInjective
  <1>5. count \in Surjection(S, 0..(n - 1))
    <2>1. IsFiniteSet(0..(n - 1)) /\ Cardinality(0..(n - 1)) = n
      <3>1. \A m \in Nat : IsFiniteSet(0..(m - 1)) /\ Cardinality(0..(m - 1)) = m
        BY FS_Interval
      <3> HIDE DEF n
      <3>. QED  BY <1>1, <3>1
    <2> HIDE DEF count
    <2>. QED  BY <1>4, <2>1, FS_Injection
  <1>6. \A k \in 1..n : \E x \in S : Cardinality(preceding(x)) = k - 1
    <2> SUFFICES ASSUME NEW k \in 1..n
                 PROVE  \E x \in S : count[x] = k - 1
      OBVIOUS
    <2>1. k - 1 \in 0..(n - 1)
      BY <1>1
    <2> HIDE DEF count
    <2>. QED  BY <1>5, <2>1 DEF Surjection
  <1>7. \A k \in 1..n : ordered(S, R)[k] \in S /\ count[ordered(S, R)[k]] = k - 1
    BY <1>6 DEF ordered
  <1>8. ASSUME NEW k \in 1..n, NEW l \in 1..n, k < l
        PROVE  <<ordered(S, R)[k], ordered(S, R)[l]>> \in R
    <2> DEFINE x == ordered(S, R)[k]
               y == ordered(S, R)[l]
    <2>1. x \in S /\ y \in S /\ count[x] = k - 1 /\ count[y] = l - 1
      BY <1>7
    <2> HIDE DEF x, y, count
    <2>2. x # y /\ ~(count[y] < count[x])
      BY <1>1, <1>8, <2>1
    <2>3. <<x, y>> \in R
      BY <1>3, <2>1, <2>2
    <2>. QED  BY <2>3 DEF x, y
  <1>9. \A k \in 1..n : Cardinality(preceding(ordered(S, R)[k])) = k - 1
    BY <1>7
  <1>. QED  BY <1>1, <1>7, <1>8, <1>9

(* Every member of the set has a place in it.                              *)
LEMMA OrderedIsOnto ==
  ASSUME NEW S, IsFiniteSet(S), NEW R,
         \A x \in S : <<x, x>> \notin R,
         \A x, y, z \in S : <<x, y>> \in R /\ <<y, z>> \in R => <<x, z>> \in R,
         \A x, y \in S : x # y => <<x, y>> \in R \/ <<y, x>> \in R
  PROVE  \A x \in S : \E k \in 1..Cardinality(S) : ordered(S, R)[k] = x
  <1> DEFINE n == Cardinality(S)
             places == [k \in 1..n |-> ordered(S, R)[k]]
  <1>1. /\ n \in Nat
        /\ \A k \in 1..n : ordered(S, R)[k] \in S
        /\ \A k, l \in 1..n : k < l => <<ordered(S, R)[k], ordered(S, R)[l]>> \in R
    BY OrderedIsSorted
  <1>2. places \in [1..n -> S]
    BY <1>1
  <1>3. \A k, l \in 1..n : k # l => places[k] # places[l]
    <2>1. \A k, l \in 1..n : k < l => places[k] # places[l]
      BY <1>1
    <2>2. \A k, l \in 1..n : k # l => k < l \/ l < k
      BY <1>1
    <2> HIDE DEF places, n
    <2>. QED  BY <2>1, <2>2
  <1>4. IsFiniteSet(1..n) /\ Cardinality(1..n) = n
    <2>1. \A m \in Nat : IsFiniteSet(1..m) /\ Cardinality(1..m) = m
      BY FS_Interval
    <2> HIDE DEF n
    <2>. QED  BY <1>1, <2>1
  <1>5. places \in Injection(1..n, S)
    <2> HIDE DEF places, n
    <2>. QED  BY <1>2, <1>3 DEF Injection, IsInjective
  <1>6. places \in Surjection(1..n, S)
    <2>1. Cardinality(1..n) = Cardinality(S)
      BY <1>4
    <2> HIDE DEF places, n
    <2>. QED  BY <1>4, <1>5, <2>1, FS_Injection
  <1>7. \A x \in S : \E k \in 1..n : places[k] = x
    <2> HIDE DEF places, n
    <2>. QED  BY <1>6 DEF Surjection
  <1>. QED  BY <1>7

(* Taking an element out of a sequence moves up those behind it.           *)
LEMMA RemoveAtElements ==
  ASSUME NEW T, NEW s \in Seq(T), NEW k \in 1..Len(s)
  PROVE  /\ RemoveAt(s, k) \in Seq(T)
         /\ Len(RemoveAt(s, k)) = Len(s) - 1
         /\ \A j \in 1..(Len(s) - 1) : RemoveAt(s, k)[j] = IF j < k THEN s[j] ELSE s[j + 1]
  <1> DEFINE front == SubSeq(s, 1, k - 1)
             back == SubSeq(s, k + 1, Len(s))
  <1>1. \A i \in 1..(k - 1) : s[i] \in T
    OBVIOUS
  <1>2. \A i \in (k + 1)..Len(s) : s[i] \in T
    OBVIOUS
  <1>3. /\ front \in Seq(T) /\ Len(front) = k - 1
        /\ \A i \in 1..(k - 1) : front[i] = s[i]
    BY <1>1
  <1>4. /\ back \in Seq(T) /\ Len(back) = Len(s) - k
        /\ \A i \in 1..(Len(s) - k) : back[i] = s[i + k]
    BY <1>2
  <1>5. RemoveAt(s, k) = front \o back
    BY DEF RemoveAt
  <1> HIDE DEF front, back
  <1>6. /\ front \o back \in Seq(T)
        /\ Len(front \o back) = Len(s) - 1
        /\ \A j \in 1..(Len(s) - 1) :
             (front \o back)[j] = IF j < k THEN front[j] ELSE back[j - (k - 1)]
    <2>1. /\ front \o back \in Seq(T)
          /\ Len(front \o back) = Len(front) + Len(back)
          /\ \A j \in 1..(Len(front) + Len(back)) :
               (front \o back)[j] = IF j <= Len(front) THEN front[j] ELSE back[j - Len(front)]
      BY <1>3, <1>4, ConcatProperties
    <2>2. Len(front) + Len(back) = Len(s) - 1
      BY <1>3, <1>4
    <2>3. \A j \in Int : j <= Len(front) <=> j < k
      BY <1>3
    <2>. QED  BY <1>3, <2>1, <2>2, <2>3
  <1>7. \A j \in 1..(Len(s) - 1) : j < k => front[j] = s[j]
    BY <1>3
  <1>8. \A j \in 1..(Len(s) - 1) : ~(j < k) => back[j - (k - 1)] = s[j + 1]
    BY <1>4
  <1>. QED  BY <1>5, <1>6, <1>7, <1>8

(* A sequence is a prefix of another where it has its first elements.      *)
LEMMA PrefixElements ==
  ASSUME NEW T, NEW s \in Seq(T), NEW t \in Seq(T)
  PROVE  IsPrefix(s, t) <=> Len(s) <= Len(t) /\ \A i \in 1..Len(s) : s[i] = t[i]
  <1>1. SubSeq(s, 1, Len(s)) = s
    OBVIOUS
  <1>2. CASE Len(s) <= Len(t)
    <2>1. /\ SubSeq(t, 1, Len(s)) \in Seq(T) /\ Len(SubSeq(t, 1, Len(s))) = Len(s)
          /\ \A i \in 1..Len(s) : SubSeq(t, 1, Len(s))[i] = t[i]
      BY <1>2
    <2>2. s = SubSeq(t, 1, Len(s)) <=> \A i \in 1..Len(s) : s[i] = t[i]
      BY <2>1, SeqEqual
    <2>. QED  BY <1>1, <1>2, <2>2 DEF IsPrefix
  <1>3. CASE ~(Len(s) <= Len(t))
    BY <1>3 DEF IsPrefix
  <1>. QED  BY <1>2, <1>3

(* What another sequence follows is a prefix of the two.                   *)
LEMMA PrefixOfConcat ==
  ASSUME NEW T, NEW s \in Seq(T), NEW t \in Seq(T)
  PROVE  IsPrefix(s, s \o t)
  <1>1. /\ s \o t \in Seq(T) /\ Len(s) <= Len(s \o t)
        /\ \A i \in 1..Len(s) : (s \o t)[i] = s[i]
    OBVIOUS
  <1>. QED  BY <1>1, PrefixElements

(* A prefix of a prefix is a prefix.                                       *)
LEMMA PrefixTransitive ==
  ASSUME NEW T, NEW s \in Seq(T), NEW t \in Seq(T), NEW u \in Seq(T),
         IsPrefix(s, t), IsPrefix(t, u)
  PROVE  IsPrefix(s, u)
  <1>1. Len(s) <= Len(t) /\ \A i \in 1..Len(s) : s[i] = t[i]
    BY PrefixElements
  <1>2. Len(t) <= Len(u) /\ \A i \in 1..Len(t) : t[i] = u[i]
    BY PrefixElements
  <1>3. Len(s) \in Nat /\ Len(t) \in Nat /\ Len(u) \in Nat
    OBVIOUS
  <1>4. Len(s) <= Len(u) /\ \A i \in 1..Len(s) : s[i] = u[i]
    BY <1>1, <1>2, <1>3
  <1>. QED  BY <1>4, PrefixElements

(* An element appended to a concatenation is appended to its second part.  *)
LEMMA ConcatAppend ==
  ASSUME NEW T, NEW x \in Seq(T), NEW y \in Seq(T), NEW z \in T,
         NEW m \in Seq(T), NEW n \in Seq(T), NEW o \in Seq(T),
         m = x \o y, n = Append(y, z), o = x \o n
  PROVE  o = Append(m, z)
  <1>1. Len(x) \in Nat /\ Len(y) \in Nat
    OBVIOUS
  <1>2. /\ Len(m) = Len(x) + Len(y)
        /\ \A i \in 1..(Len(x) + Len(y)) : m[i] = IF i <= Len(x) THEN x[i] ELSE y[i - Len(x)]
    BY ConcatProperties
  <1>3. /\ Len(n) = Len(y) + 1 /\ n[Len(y) + 1] = z
        /\ \A i \in 1..Len(y) : n[i] = y[i]
    BY AppendProperties
  <1>4. /\ Append(m, z) \in Seq(T) /\ Len(Append(m, z)) = Len(m) + 1
        /\ \A i \in 1..Len(m) : Append(m, z)[i] = m[i]
        /\ Append(m, z)[Len(m) + 1] = z
    BY AppendProperties
  <1>5. /\ x \o n \in Seq(T) /\ Len(x \o n) = Len(x) + Len(n)
        /\ \A i \in 1..(Len(x) + Len(n)) : (x \o n)[i] = IF i <= Len(x) THEN x[i] ELSE n[i - Len(x)]
    BY ConcatProperties
  <1> DEFINE l == Append(m, z)
             r == x \o n
  <1>6. l \in Seq(T) /\ r \in Seq(T) /\ Len(l) = Len(r)
    BY <1>1, <1>2, <1>3, <1>4, <1>5
  <1>7. ASSUME NEW i \in 1..Len(l)
        PROVE  l[i] = r[i]
    <2>1. CASE i = Len(m) + 1
      <3>1. ~(i <= Len(x)) /\ i - Len(x) = Len(y) + 1 /\ i \in 1..(Len(x) + Len(n))
        BY <1>1, <1>2, <1>3, <2>1
      <3>. QED  BY <1>3, <1>4, <1>5, <2>1, <3>1
    <2>2. CASE i \in 1..Len(m) /\ i <= Len(x)
      BY <1>1, <1>2, <1>3, <1>4, <1>5, <2>2
    <2>3. CASE i \in 1..Len(m) /\ ~(i <= Len(x))
      <3>1. /\ i - Len(x) \in 1..Len(y) /\ i \in 1..(Len(x) + Len(n))
            /\ i \in 1..(Len(x) + Len(y))
        BY <1>1, <1>2, <1>3, <2>3
      <3>. QED  BY <1>2, <1>3, <1>4, <1>5, <2>3, <3>1
    <2>. QED  BY <1>1, <1>2, <1>4, <2>1, <2>2, <2>3
  <1> HIDE DEF l, r
  <1>8. l = r
    BY <1>6, <1>7, SeqEqual
  <1>. QED  BY <1>8 DEF l, r

(* All but the last element of a sequence.                                 *)
LEMMA FrontElements ==
  ASSUME NEW S, NEW s \in Seq(S), NEW n \in Nat \ {0}, n = Len(s)
  PROVE  Front(s) \in Seq(S) /\ Len(Front(s)) = n - 1 /\ \A i \in 1..(n - 1) : Front(s)[i] = s[i]
  <1>1. PICK a \in Int, b \in Int : a = 1 /\ b = n - 1
    <2>1. 1 \in Int /\ n - 1 \in Int
      OBVIOUS
    <2>. QED  BY <2>1
  <1>2. \A i \in a..b : s[i] \in S
    BY <1>1
  <1>3. PICK f : f = SubSeq(s, a, b)
    OBVIOUS
  <1>4. /\ f \in Seq(S) /\ Len(f) = IF a <= b THEN b - a + 1 ELSE 0
        /\ \A i \in 1..(b - a + 1) : f[i] = s[a + i - 1]
    <2>1. /\ SubSeq(s, a, b) \in Seq(S)
          /\ Len(SubSeq(s, a, b)) = IF a <= b THEN b - a + 1 ELSE 0
          /\ \A i \in 1..(b - a + 1) : SubSeq(s, a, b)[i] = s[a + i - 1]
      BY <1>2, SubSeqProperties
    <2>. QED  BY <1>3, <2>1, Zenon
  <1>5. ASSUME NEW i \in 1..(n - 1)
        PROVE  f[i] = s[i]
    <2>1. i \in 1..(b - a + 1) /\ a + i - 1 = i
      BY <1>1
    <2>. QED  BY <1>4, <2>1
  <1>6. Len(f) = n - 1
    BY <1>1, <1>4
  <1>7. f = Front(s)
    BY <1>1, <1>3, Zenon DEF Front
  <1>. QED  BY <1>4, <1>5, <1>6, <1>7, Zenon

(* A sequence of one.                                                      *)
LEMMA One ==
  ASSUME NEW S, NEW b \in Seq(S), Len(b) = 1
  PROVE  b = <<b[1]>> /\ b[1] \in S /\ 1 \in DOMAIN b
  <1>1. b = <<b[1]>>
    OBVIOUS
  <1>2. b[1] \in S /\ 1 \in DOMAIN b
    OBVIOUS
  <1>. QED  BY <1>1, <1>2

(* And what it holds.                                                      *)
LEMMA OneLong ==
  ASSUME NEW x
  PROVE  Len(<<x>>) = 1 /\ <<x>>[1] = x
  <1>1. Len(<<x>>) = 1
    OBVIOUS
  <1>2. <<x>>[1] = x
    OBVIOUS
  <1>. QED  BY <1>1, <1>2

(* Joining sequences goes through the lengths of what is joined.           *)
LEMMA Joining ==
  ASSUME NEW q, Len(q) \in Nat \ {0}, NEW F,
         F = [k \in 1..Len(q) |-> IF k = 1 THEN q[k] ELSE F[k - 1] \o q[k]]
  PROVE  \E g : /\ FlattenSeq(q) = g[Len(q)]
               /\ \A k \in 1..Len(q) : g[k] = IF k = 1 THEN q[k] ELSE g[k - 1] \o q[k]
  <1> DEFINE flat == CHOOSE f : f = [k \in 1..Len(q) |-> IF k = 1 THEN q[k] ELSE f[k - 1] \o q[k]]
  <1>1. flat = [k \in 1..Len(q) |-> IF k = 1 THEN q[k] ELSE flat[k - 1] \o q[k]]
    OBVIOUS
  <1>2. FlattenSeq(q) = flat[Len(q)]
    <2>1. Len(q) # 0
      OBVIOUS
    <2>. QED  BY <2>1 DEF FlattenSeq
  <1>3. \A k \in 1..Len(q) : flat[k] = IF k = 1 THEN q[k] ELSE flat[k - 1] \o q[k]
    <2> HIDE DEF flat
    <2>. QED  BY <1>1
  <1> HIDE DEF flat
  <1>. QED  BY <1>2, <1>3

(* One sequence joined is that sequence.                                   *)
LEMMA JoinedOne ==
  ASSUME NEW x
  PROVE  FlattenSeq(<<x>>) = x
  <1>1. PICK q : q = <<x>>
    OBVIOUS
  <1>0. Len(q) = 1 /\ q[1] = x
    BY <1>1, OneLong
  <1>2. PICK F : F = [k \in 1..Len(q) |-> x]
    OBVIOUS
  <1>3. F = [k \in 1..Len(q) |-> IF k = 1 THEN q[k] ELSE F[k - 1] \o q[k]]
    BY <1>0, <1>2
  <1>4. PICK g : /\ FlattenSeq(q) = g[Len(q)]
                 /\ \A k \in 1..Len(q) : g[k] = IF k = 1 THEN q[k] ELSE g[k - 1] \o q[k]
    <2>1. Len(q) \in Nat \ {0}
      BY <1>0
    <2> HIDE <1>1
    <2>. QED  BY <1>3, <2>1, Joining
  <1>. QED  BY <1>0, <1>1, <1>4

(* The elements of a sequence joined are the sequence.                     *)
LEMMA JoinedSingles ==
  ASSUME NEW A, NEW b \in Seq(A)
  PROVE  FlattenSeq([j \in DOMAIN b |-> <<b[j]>>]) = b
  <1>1. PICK n \in Nat : n = Len(b) /\ DOMAIN b = 1..n
    OBVIOUS
  <1>2. PICK q : q = [j \in DOMAIN b |-> <<b[j]>>]
    OBVIOUS
  <1>3. Len(q) = n /\ \A k \in 1..n : q[k] = <<b[k]>>
    <2>1. \A k \in 1..n : <<b[k]>> \in Seq(A)
      BY <1>1
    <2>2. q \in [1..n -> Seq(A)]
      BY <1>1, <1>2, <2>1
    <2>3. q \in Seq(Seq(A))
      BY <2>2
    <2>. QED  BY <1>1, <1>2, <2>2, <2>3
  <1>4. \A k \in 1..n : SubSeq(b, 1, k) = IF k = 1 THEN <<b[k]>> ELSE SubSeq(b, 1, k - 1) \o <<b[k]>>
    <2> SUFFICES ASSUME NEW k \in 1..n
                 PROVE  SubSeq(b, 1, k) = IF k = 1 THEN <<b[k]>> ELSE SubSeq(b, 1, k - 1) \o <<b[k]>>
      OBVIOUS
    <2>1. SubSeq(b, 1, k) = SubSeq(b, 1, k - 1) \o <<b[k]>>
      <3>1. k \in 1..Len(b) /\ 1 \in 1..Len(b)
        BY <1>1
      <3>. QED  BY <3>1, SubSeqRecursiveSecond
    <2>2. ASSUME k = 1
          PROVE  SubSeq(b, 1, k - 1) \o <<b[k]>> = <<b[k]>>
      <3>1. SubSeq(b, 1, k - 1) = <<>>
        BY <2>2, SubSeqEmpty
      <3>2. <<b[k]>> \in Seq(A)
        BY <1>1
      <3>. QED  BY <3>1, <3>2, ConcatEmptySeq
    <2>. QED  BY <2>1, <2>2
  <1>5. CASE n = 0
    <2>1. b = <<>> /\ q = <<>>
      BY <1>1, <1>2, <1>5
    <2>. QED  BY <1>2, <1>3, <1>5, <2>1 DEF FlattenSeq
  <1>6. CASE n > 0
    <2>1. PICK F : F = [k \in 1..n |-> SubSeq(b, 1, k)]
      OBVIOUS
    <2>2. F = [k \in 1..Len(q) |-> IF k = 1 THEN q[k] ELSE F[k - 1] \o q[k]]
      <3>1. \A k \in 1..n : k # 1 => F[k - 1] = SubSeq(b, 1, k - 1)
        BY <2>1
      <3>2. \A k \in 1..n : F[k] = IF k = 1 THEN q[k] ELSE F[k - 1] \o q[k]
        BY <1>3, <1>4, <2>1, <3>1
      <3>3. F = [k \in 1..n |-> F[k]]
        BY <2>1
      <3>. QED  BY <1>3, <3>2, <3>3
    <2>3. PICK g : /\ FlattenSeq(q) = g[Len(q)]
                   /\ \A k \in 1..Len(q) : g[k] = IF k = 1 THEN q[k] ELSE g[k - 1] \o q[k]
      <3>1. Len(q) \in Nat \ {0}
        BY <1>3, <1>6
      <3> HIDE <1>2
      <3>. QED  BY <2>2, <3>1, Joining
    <2> DEFINE S == {k \in 0..n : k = 0 \/ g[k] = SubSeq(b, 1, k)}
    <2>4. \A k \in 0..n : k \in S
      <3>1. 0 \in S
        OBVIOUS
      <3>2. ASSUME NEW k \in 1..n, k - 1 \in S
            PROVE  k \in S
        <4>1. k \in 0..n /\ (k # 1 => g[k - 1] = SubSeq(b, 1, k - 1))
          BY <3>2
        <4>2. g[k] = SubSeq(b, 1, k)
          BY <1>3, <1>4, <2>3, <4>1
        <4>. QED  BY <4>1, <4>2
      <3> HIDE DEF S
      <3>. QED  BY <3>1, <3>2, UpTo
    <2>5. g[n] = SubSeq(b, 1, n) /\ SubSeq(b, 1, n) = b
      BY <1>1, <1>6, <2>4, SubSeqFull
    <2>. QED  BY <1>2, <1>3, <2>3, <2>5
  <1>. QED  BY <1>5, <1>6
================================================================================
