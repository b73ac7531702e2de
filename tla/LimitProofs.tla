------------------------------ MODULE LimitProofs ------------------------------
(***************************************************************************)
(* However requests, pauses and changes of the options follow each other,  *)
(* the limiter lets no user exceed 2 * burst - 1 requests in any span of a *)
(* cooldown, and what it tells a refused user is true: for any number of   *)
(* users, any cooldown, burst and length of run.                           *)
(***************************************************************************)
EXTENDS RateLimiter, Fetcher, FiniteSetTheorems, TLAPS

Window == [windowStart : Nat, count : Nat \ {0}]

Limiting == burst > 0 /\ cooldownMs > 0
Since(S, t) == {r \in S : t <= r[1]}
Between(S, from, to) == {r \in S : from <= r[1] /\ r[1] < to}

(* What the window [w, w + cooldown) of a user allows for: the requests in *)
(* it are counted, one of them opened it, and of the requests before it no *)
(* more than burst - 1 are less than a cooldown old at its start: the      *)
(* first of the window before is older.                                    *)
Accounted(S, w, c) ==
  /\ \A r \in S : r[1] <= w \/ r[1] < w + cooldownMs
  /\ Limiting =>
       /\ Cardinality(Since(S, w)) <= c /\ Cardinality(Since(S, w)) <= burst
       /\ Cardinality(Since(S, w + 1)) <= c - 1 /\ Cardinality(Since(S, w + 1)) <= burst - 1
       /\ Cardinality(Between(S, w - cooldownMs + 1, w)) <= burst - 1

SpansKept(S) ==
  Limiting => \A from \in Int :
    Cardinality(Between(S, from, from + cooldownMs)) <= 2 * burst - 1

(* The invariant of one user: S, D, W and R stand for the user's requests, *)
(* whether the user is known, the window and the promises made.            *)
UserInv(S, D, W, R) ==
  /\ IsFiniteSet(S) /\ S \subseteq Nat \X Nat /\ \A r \in S : r[1] <= now
  /\ SpansKept(S)
  /\ ~D => \A r \in S : r[1] <= now - cooldownMs
  /\ D => /\ W \in Window /\ W.windowStart <= now
          /\ Accounted(S, W.windowStart, W.count)
          /\ \A t \in R : t = W.windowStart + cooldownMs

LimitInv ==
  /\ cooldownMs \in Nat /\ burst \in Nat /\ now \in Nat
  /\ DOMAIN states \subseteq Users
  /\ allowedAt = [u \in Users |-> allowedAt[u]] /\ retryAt = [u \in Users |-> retryAt[u]]
  /\ \A u \in Users : UserInv(allowedAt[u], u \in DOMAIN states, states[u], retryAt[u])

--------------------------------------------------------------------------------

(* Fewer or as many elements, one more, and the elements of two sets.      *)
LEMMA Fewer ==
  ASSUME NEW S, IsFiniteSet(S), NEW T, T \subseteq S
  PROVE  IsFiniteSet(T) /\ Cardinality(T) \in Nat /\ Cardinality(T) <= Cardinality(S)
         /\ Cardinality(S) \in Nat
  BY FS_Subset, FS_CardinalityType

(* A set that gains one element gains at most one in number.               *)
LEMMA OneMore ==
  ASSUME NEW S, IsFiniteSet(S), NEW x, NEW T, T \subseteq S \cup {x}
  PROVE  Cardinality(T) <= Cardinality(S) + 1 /\ Cardinality(T) \in Nat
  <1>1. IsFiniteSet(S \cup {x}) /\ Cardinality(S \cup {x}) <= Cardinality(S) + 1
    <2>1. /\ IsFiniteSet(S \cup {x})
          /\ Cardinality(S \cup {x}) = IF x \in S THEN Cardinality(S) ELSE Cardinality(S) + 1
      BY FS_AddElement
    <2>2. Cardinality(S) \in Nat
      BY FS_CardinalityType
    <2>. QED  BY <2>1, <2>2
  <1>2. Cardinality(S \cup {x}) \in Nat /\ Cardinality(S) \in Nat
    BY <1>1, FS_CardinalityType
  <1>3. Cardinality(T) <= Cardinality(S \cup {x}) /\ Cardinality(T) \in Nat
    BY <1>1, Fewer
  <1>. QED  BY <1>1, <1>2, <1>3

(* A part of a union has at most as many elements as the two together.     *)
LEMMA TwoParts ==
  ASSUME NEW S, IsFiniteSet(S), NEW T, IsFiniteSet(T), NEW V, V \subseteq S \cup T
  PROVE  Cardinality(V) <= Cardinality(S) + Cardinality(T) /\ Cardinality(V) \in Nat
  <1>1. /\ IsFiniteSet(S \cup T)
        /\ Cardinality(S \cup T) = Cardinality(S) + Cardinality(T) - Cardinality(S \cap T)
    BY FS_Union
  <1>2. /\ IsFiniteSet(S \cap T) /\ Cardinality(S \cap T) \in Nat
        /\ Cardinality(S) \in Nat /\ Cardinality(T) \in Nat
    BY FS_CardinalityType, FS_Subset
  <1>3. Cardinality(V) <= Cardinality(S \cup T) /\ Cardinality(V) \in Nat
    BY <1>1, Fewer
  <1>. QED  BY <1>1, <1>2, <1>3

--------------------------------------------------------------------------------

(* A user who is pruned, or never known, has been let through in no        *)
(* cooldown that goes on; other users keep their window.                   *)
LEMMA PruneKeeps ==
  ASSUME LimitInv, NEW u \in Users
  PROVE  /\ DOMAIN prune \subseteq DOMAIN states
         /\ u \in DOMAIN prune => prune[u] = states[u] /\ u \in DOMAIN states
         /\ u \notin DOMAIN prune => \A r \in allowedAt[u] : r[1] <= now - cooldownMs
  <1>1. DOMAIN prune = {v \in DOMAIN states : states[v].windowStart >= now - 4 * cooldownMs}
    BY DEF prune, Restrict
  <1>2. u \in DOMAIN prune => prune[u] = states[u]
    BY DEF prune, Restrict
  <1>3. ASSUME u \notin DOMAIN prune, NEW r \in allowedAt[u]
        PROVE  r[1] <= now - cooldownMs
    <2>. DEFINE w == states[u].windowStart
    <2>0. UserInv(allowedAt[u], u \in DOMAIN states, states[u], retryAt[u])
      BY DEF LimitInv
    <2>1. CASE u \notin DOMAIN states
      BY <2>0, <2>1, <1>3 DEF UserInv
    <2>2. CASE u \in DOMAIN states
      <3>1. w \in Nat /\ w < now - 4 * cooldownMs
        BY <1>1, <1>3, <2>0, <2>2 DEF UserInv, Window, LimitInv
      <3>2. r[1] <= w \/ r[1] < w + cooldownMs
        BY <1>3, <2>0, <2>2 DEF UserInv, Accounted
      <3>3. r[1] \in Nat /\ now \in Nat /\ cooldownMs \in Nat
        BY <1>3, <2>0 DEF UserInv, LimitInv
      <3>. HIDE DEF w
      <3>. QED  BY <3>1, <3>2, <3>3
    <2>. QED  BY <2>1, <2>2
  <1>. QED  BY <1>1, <1>2, <1>3

(* The requests of a user who may open a window: the last burst - 1 of     *)
(* them at most are less than a cooldown old.                              *)
LEMMA RecentFew ==
  ASSUME LimitInv, NEW u \in Users, ~inWindow(u), Limiting
  PROVE  /\ \A r \in allowedAt[u] : r[1] < now
         /\ IsFiniteSet(Since(allowedAt[u], now - cooldownMs + 1))
         /\ Cardinality(Since(allowedAt[u], now - cooldownMs + 1)) \in 0..(burst - 1)
  <1>. DEFINE S == allowedAt[u]
              recent == Since(S, now - cooldownMs + 1)
  <1>0. /\ UserInv(S, u \in DOMAIN states, states[u], retryAt[u])
        /\ cooldownMs \in Nat /\ now \in Nat /\ burst \in Nat
    BY DEF LimitInv
  <1>1. IsFiniteSet(recent) /\ Cardinality(recent) \in Nat /\ cooldownMs > 0 /\ burst > 0
    BY <1>0, Fewer DEF UserInv, Since, Limiting
  <1>2. CASE u \notin DOMAIN prune
    <2>1. recent = {} /\ \A r \in S : r[1] < now
      BY <1>0, <1>1, <1>2, PruneKeeps DEF Since, UserInv
    <2>. QED  BY <1>0, <1>1, <2>1, FS_EmptySet
  <1>3. CASE u \in DOMAIN prune
    <2>. DEFINE w == states[u].windowStart
    <2>1. w \in Nat /\ w <= now - cooldownMs /\ u \in DOMAIN states
      BY <1>0, <1>3, PruneKeeps DEF UserInv, Window, inWindow, elapsed
    <2>2. recent \subseteq Since(S, w + 1) /\ Since(S, w + 1) \subseteq S
      BY <1>0, <2>1 DEF Since, UserInv
    <2>3. IsFiniteSet(Since(S, w + 1)) /\ Cardinality(Since(S, w + 1)) <= burst - 1
      BY <1>0, <2>1, <2>2, Fewer DEF UserInv, Accounted
    <2>4. \A r \in S : r[1] < now
      BY <1>0, <1>1, <2>1 DEF UserInv, Accounted
    <2>. QED  BY <1>0, <1>1, <2>2, <2>3, <2>4, Fewer
  <1>. QED  BY <1>2, <1>3

(* A request that opens a window keeps the accounts.                       *)
LEMMA OpenKeeps ==
  ASSUME LimitInv, NEW u \in Users, ~inWindow(u), NEW x, x[1] = now, x \in Nat \X Nat
  PROVE  UserInv(allowedAt[u] \cup {x}, TRUE, [windowStart |-> now, count |-> 1], {})
  <1>. DEFINE S == allowedAt[u]
              T == S \cup {x}
              recent == Since(S, now - cooldownMs + 1)
  <1>0. /\ UserInv(S, u \in DOMAIN states, states[u], retryAt[u])
        /\ cooldownMs \in Nat /\ now \in Nat /\ burst \in Nat
    BY DEF LimitInv
  <1>1. /\ IsFiniteSet(T) /\ T \subseteq Nat \X Nat /\ \A r \in T : r[1] <= now
        /\ \A r \in T : r[1] \in Nat /\ (r \in S \/ (r[1] = now /\ r = x))
        /\ S \subseteq T /\ \A r \in S : r[1] <= now
    <2>1. IsFiniteSet(S) /\ S \subseteq Nat \X Nat /\ \A r \in S : r[1] <= now
      BY <1>0 DEF UserInv
    <2>2. IsFiniteSet(T)
      BY <2>1, FS_AddElement
    <2>3. T \subseteq Nat \X Nat /\ S \subseteq T /\ \A r \in T : r \in S \/ r = x
      BY <2>1
    <2>4. \A r \in Nat \X Nat : r[1] \in Nat
      OBVIOUS
    <2>5. \A r \in T : r \in S \/ (r[1] = now /\ r = x)
      BY <2>3
    <2>. HIDE DEF T, S
    <2>6. \A r \in T : r[1] <= now
      BY <1>0, <2>1, <2>5
    <2>7. \A r \in T : r[1] \in Nat
      BY <2>3, <2>4
    <2>. QED  BY <2>1, <2>2, <2>3, <2>5, <2>6, <2>7
  <1>. HIDE DEF T
  <1>2. ASSUME Limiting
        PROVE  /\ Cardinality(Since(T, now + 1)) = 0
               /\ Cardinality(Between(T, now - cooldownMs + 1, now)) <= burst - 1
               /\ \A from \in Int : Cardinality(Between(T, from, from + cooldownMs)) <= 2 * burst - 1
    <2>1. IsFiniteSet(recent) /\ Cardinality(recent) \in 0..(burst - 1) /\ burst > 0
      BY <1>2, RecentFew DEF Limiting
    <2>2. Cardinality(Since(T, now + 1)) = 0
      <3>1. Since(T, now + 1) = {}
        BY <1>0, <1>1 DEF Since
      <3>. QED  BY <3>1, FS_EmptySet
    <2>3. Between(T, now - cooldownMs + 1, now) \subseteq recent
      BY <1>0, <1>1 DEF Between, Since
    <2>4. Cardinality(Between(T, now - cooldownMs + 1, now)) <= burst - 1
      BY <1>0, <2>1, <2>3, Fewer
    <2>5. ASSUME NEW from \in Int
          PROVE  Cardinality(Between(T, from, from + cooldownMs)) <= 2 * burst - 1
      <3>1. CASE from <= now /\ now < from + cooldownMs
        <4>1. Between(T, from, from + cooldownMs) \subseteq recent \cup {x}
          BY <1>0, <1>1, <3>1 DEF Between, Since
        <4>2. Cardinality(Between(T, from, from + cooldownMs)) <= Cardinality(recent) + 1
          BY <2>1, <4>1, OneMore
        <4>3. IsFiniteSet(Between(T, from, from + cooldownMs))
          BY <1>1, Fewer DEF Between
        <4>4. Cardinality(Between(T, from, from + cooldownMs)) \in Nat
          BY <4>3, FS_CardinalityType
        <4>. QED  BY <1>0, <1>2, <2>1, <4>2, <4>4
      <3>2. CASE ~(from <= now /\ now < from + cooldownMs)
        <4>1. Between(T, from, from + cooldownMs) = Between(S, from, from + cooldownMs)
          BY <1>0, <1>1, <3>2 DEF Between
        <4>. QED  BY <1>0, <1>2, <4>1 DEF UserInv, SpansKept
      <3>. QED  BY <3>1, <3>2
    <2>. QED  BY <2>2, <2>4, <2>5
  <1>3. ASSUME Limiting
        PROVE  Cardinality(Since(T, now)) <= 1 /\ Cardinality(Since(T, now)) <= burst
    <2>1. Since(T, now) \subseteq {x}
      <3>1. \A r \in S : r[1] < now
        BY <1>3, RecentFew
      <3>2. \A r \in S : r[1] \in Nat
        BY <1>1
      <3>3. \A r \in T : r = x \/ ~(now <= r[1])
        BY <1>0, <1>1, <3>1, <3>2
      <3>. QED  BY <3>3 DEF Since
    <2>2. Cardinality(Since(T, now)) <= 1 /\ Cardinality(Since(T, now)) \in Nat
      <3>1. IsFiniteSet({x}) /\ Cardinality({x}) = 1
        BY FS_Singleton
      <3>. QED  BY <2>1, <3>1, Fewer
    <2>. QED  BY <1>0, <1>3, <2>2 DEF Limiting
  <1>4. SpansKept(T)
    BY <1>2 DEF SpansKept
  <1>5. Accounted(T, now, 1)
    BY <1>0, <1>1, <1>2, <1>3 DEF Accounted, Limiting
  <1>. DEFINE W == [windowStart |-> now, count |-> 1]
  <1>6. W \in Window /\ W.windowStart = now /\ W.count = 1
    BY <1>0 DEF Window
  <1>. HIDE DEF W
  <1>7. UserInv(T, TRUE, W, {})
    BY <1>0, <1>1, <1>4, <1>5, <1>6 DEF UserInv
  <1>. QED  BY <1>7 DEF T, W
(* A request that uses the burst of an open window keeps the accounts: the *)
(* requests less than a cooldown old are those of the window and at most   *)
(* burst - 1 of the window before.                                         *)
LEMMA BurstKeeps ==
  ASSUME LimitInv, NEW u \in Users, inWindow(u), prune[u].count < burst,
         NEW x, x[1] = now, x \in Nat \X Nat
  PROVE  UserInv(allowedAt[u] \cup {x}, TRUE, [prune[u] EXCEPT !.count = @ + 1], {})
  <1>. DEFINE S == allowedAt[u]
              T == S \cup {x}
              w == states[u].windowStart
              c == states[u].count
              W == [prune[u] EXCEPT !.count = @ + 1]
  <1>0. /\ UserInv(S, u \in DOMAIN states, states[u], retryAt[u])
        /\ cooldownMs \in Nat /\ now \in Nat /\ burst \in Nat
        /\ u \in DOMAIN states /\ prune[u] = states[u]
    BY PruneKeeps DEF LimitInv, inWindow
  <1>1. /\ states[u] \in Window /\ w \in Nat /\ w <= now /\ now < w + cooldownMs
        /\ c \in Nat \ {0} /\ c < burst
        /\ W \in Window /\ W.windowStart = w /\ W.count = c + 1
        /\ Limiting
    BY <1>0 DEF UserInv, Window, inWindow, elapsed, Limiting
  <1>2. /\ IsFiniteSet(T) /\ T \subseteq Nat \X Nat /\ S \subseteq T /\ IsFiniteSet(S)
        /\ \A r \in T : r[1] \in Nat /\ r[1] <= now
        /\ \A r \in T : r \in S \/ (r[1] = now /\ r = x)
    <2>1. IsFiniteSet(S) /\ S \subseteq Nat \X Nat /\ \A r \in S : r[1] <= now
      BY <1>0 DEF UserInv
    <2>2. IsFiniteSet(T)
      BY <2>1, FS_AddElement
    <2>3. T \subseteq Nat \X Nat /\ S \subseteq T /\ \A r \in T : r \in S \/ r = x
      BY <2>1
    <2>4. \A r \in Nat \X Nat : r[1] \in Nat
      OBVIOUS
    <2>5. \A r \in T : r \in S \/ (r[1] = now /\ r = x)
      BY <2>3
    <2>. HIDE DEF T, S
    <2>6. \A r \in T : r[1] <= now
      BY <1>0, <2>1, <2>5
    <2>7. \A r \in T : r[1] \in Nat
      BY <2>3, <2>4
    <2>. QED  BY <2>1, <2>2, <2>3, <2>5, <2>6, <2>7
  <1>3. /\ \A r \in S : r[1] <= w \/ r[1] < w + cooldownMs
        /\ Cardinality(Since(S, w)) <= c
        /\ Cardinality(Since(S, w + 1)) <= c - 1
        /\ Cardinality(Between(S, w - cooldownMs + 1, w)) <= burst - 1
        /\ \A from \in Int : Cardinality(Between(S, from, from + cooldownMs)) <= 2 * burst - 1
    BY <1>0, <1>1 DEF UserInv, Accounted, SpansKept
  <1>. HIDE DEF T, W, w, c, S
  <1>4. /\ IsFiniteSet(Since(S, w)) /\ IsFiniteSet(Since(S, w + 1))
        /\ IsFiniteSet(Between(S, w - cooldownMs + 1, w))
        /\ Cardinality(Since(S, w)) \in Nat
        /\ Cardinality(Between(S, w - cooldownMs + 1, w)) \in Nat
        /\ Cardinality(Since(S, w + 1)) \in Nat
    <2>1. /\ Since(S, w) \subseteq S /\ Since(S, w + 1) \subseteq S
          /\ Between(S, w - cooldownMs + 1, w) \subseteq S
      BY DEF Since, Between
    <2>. QED  BY <1>2, <2>1, Fewer
  <1>5. Cardinality(Since(T, w)) <= c + 1 /\ Cardinality(Since(T, w + 1)) <= c
    <2>1. /\ Since(T, w) \subseteq Since(S, w) \cup {x}
          /\ Since(T, w + 1) \subseteq Since(S, w + 1) \cup {x}
      BY <1>2 DEF Since
    <2>2. /\ Cardinality(Since(T, w)) <= Cardinality(Since(S, w)) + 1
          /\ Cardinality(Since(T, w + 1)) <= Cardinality(Since(S, w + 1)) + 1
          /\ Cardinality(Since(T, w)) \in Nat /\ Cardinality(Since(T, w + 1)) \in Nat
      BY <1>4, <2>1, OneMore
    <2>. QED  BY <1>1, <1>3, <1>4, <2>2
  <1>6. Between(T, w - cooldownMs + 1, w) = Between(S, w - cooldownMs + 1, w)
    BY <1>0, <1>1, <1>2 DEF Between
  <1>7. ASSUME NEW from \in Int
        PROVE  Cardinality(Between(T, from, from + cooldownMs)) <= 2 * burst - 1
    <2>1. CASE from <= now /\ now < from + cooldownMs
      <3>. DEFINE earlier == Between(S, w - cooldownMs + 1, w)
      <3>1. Between(T, from, from + cooldownMs) \subseteq Since(T, w) \cup earlier
        BY <1>0, <1>1, <1>2, <2>1 DEF Between, Since
      <3>2. IsFiniteSet(Since(T, w)) /\ Cardinality(Since(T, w)) \in Nat
        BY <1>2, Fewer DEF Since
      <3>3. Cardinality(Between(T, from, from + cooldownMs))
              <= Cardinality(Since(T, w)) + Cardinality(earlier)
        BY <1>4, <3>1, <3>2, TwoParts
      <3>4. Cardinality(Between(T, from, from + cooldownMs)) \in Nat
        BY <1>4, <3>1, <3>2, TwoParts
      <3>. HIDE DEF earlier
      <3>5. Cardinality(earlier) <= burst - 1 /\ Cardinality(earlier) \in Nat
        BY <1>3, <1>4 DEF earlier
      <3>. QED  BY <1>0, <1>1, <1>5, <3>2, <3>3, <3>4, <3>5
    <2>2. CASE ~(from <= now /\ now < from + cooldownMs)
      <3>1. Between(T, from, from + cooldownMs) = Between(S, from, from + cooldownMs)
        BY <1>0, <1>2, <2>2 DEF Between
      <3>. QED  BY <1>3, <3>1
    <2>. QED  BY <2>1, <2>2
  <1>8. SpansKept(T)
    BY <1>7 DEF SpansKept
  <1>9. Accounted(T, w, c + 1)
    <2>1. \A r \in T : r[1] <= w \/ r[1] < w + cooldownMs
      BY <1>0, <1>1, <1>2, <1>3
    <2>2. /\ Cardinality(Since(T, w)) <= burst
          /\ Cardinality(Since(T, w + 1)) <= (c + 1) - 1
          /\ Cardinality(Since(T, w + 1)) <= burst - 1
      <3>1. Cardinality(Since(T, w)) \in Nat /\ Cardinality(Since(T, w + 1)) \in Nat
        <4>1. Since(T, w) \subseteq T /\ Since(T, w + 1) \subseteq T
          BY DEF Since
        <4>. QED  BY <1>2, <4>1, Fewer
      <3>. QED  BY <1>0, <1>1, <1>5, <3>1
    <2>3. Cardinality(Between(T, w - cooldownMs + 1, w)) <= burst - 1
      BY <1>3, <1>6
    <2>. QED  BY <1>5, <2>1, <2>2, <2>3 DEF Accounted
  <1>10. UserInv(T, TRUE, W, {})
    BY <1>1, <1>2, <1>8, <1>9 DEF UserInv
  <1>. QED  BY <1>10 DEF T, W, S
--------------------------------------------------------------------------------

(* A check of one user leaves the others their accounts, known or pruned.  *)
LEMMA OthersKeep ==
  ASSUME LimitInv, NEW u \in Users, NEW v \in Users
  PROVE  UserInv(allowedAt[v], v \in DOMAIN prune, prune[v], retryAt[v])
  <1>1. UserInv(allowedAt[v], v \in DOMAIN states, states[v], retryAt[v])
    BY DEF LimitInv
  <1>2. CASE v \in DOMAIN prune
    BY <1>1, <1>2, PruneKeeps DEF UserInv
  <1>3. CASE v \notin DOMAIN prune
    BY <1>1, <1>3, PruneKeeps DEF UserInv
  <1>. QED  BY <1>2, <1>3

(* The invariant of a user depends on the options and on the present.      *)
LEMMA InvPrimed ==
  ASSUME UNCHANGED <<cooldownMs, burst, now>>
  PROVE  \A S, D, W, R : UserInv(S, D, W, R) <=> UserInv(S, D, W, R)'
  BY DEF UserInv, SpansKept, Accounted, Limiting
(* No request: nothing to account for, whatever the window.                *)
LEMMA NothingYet ==
  /\ IsFiniteSet({}) /\ {} \subseteq Nat \X Nat
  /\ \A t : Cardinality(Since({}, t)) = 0
  /\ \A t, to : Cardinality(Between({}, t, to)) = 0
  BY FS_EmptySet DEF Since, Between

(* The accounts hold in every state.                                       *)
THEOREM AccountsKept == LimiterSpec => []LimitInv
  <1>1. LimiterInit => LimitInv
    <2>. SUFFICES ASSUME LimiterInit PROVE LimitInv
      OBVIOUS
    <2>1. /\ cooldownMs \in Nat /\ burst \in Nat /\ now \in Nat /\ DOMAIN states = {}
          /\ allowedAt = [u \in Users |-> {}] /\ retryAt = [u \in Users |-> {}]
      BY LimiterAssumption DEF LimiterInit
    <2>2. ASSUME NEW u \in Users
          PROVE  UserInv(allowedAt[u], u \in DOMAIN states, states[u], retryAt[u])
      <3>1. SpansKept({})
        BY <2>1, NothingYet DEF SpansKept, Limiting
      <3>2. allowedAt[u] = {} /\ u \notin DOMAIN states
        BY <2>1
      <3>. QED  BY <3>1, <3>2, NothingYet DEF UserInv
    <2>. QED  BY <2>1, <2>2 DEF LimitInv
  <1>2. LimitInv /\ [LimiterNext]_limiterVars => LimitInv'
    <2>. SUFFICES ASSUME LimitInv, [LimiterNext]_limiterVars PROVE LimitInv'
      OBVIOUS
    <2>0. /\ cooldownMs \in Nat /\ burst \in Nat /\ now \in Nat /\ DOMAIN states \subseteq Users
          /\ allowedAt = [u \in Users |-> allowedAt[u]] /\ retryAt = [u \in Users |-> retryAt[u]]
          /\ \A u \in Users :
               /\ UserInv(allowedAt[u], u \in DOMAIN states, states[u], retryAt[u])
               /\ DOMAIN prune \subseteq DOMAIN states
      BY PruneKeeps DEF LimitInv
    <2>1. ASSUME NEW u \in Users, NEW W, NEW x,
                 states' = with(u, W), UNCHANGED <<cooldownMs, burst, now>>,
                 allowedAt' = [allowedAt EXCEPT ![u] = @ \cup {x}],
                 retryAt' = [retryAt EXCEPT ![u] = {}],
                 UserInv(allowedAt[u] \cup {x}, TRUE, W, {})
          PROVE  LimitInv'
      <3>1. /\ DOMAIN states' = DOMAIN prune \cup {u} /\ states'[u] = W
            /\ \A v \in DOMAIN prune : v # u => states'[v] = prune[v]
        BY <2>1 DEF with
      <3>2. /\ allowedAt' = [v \in Users |-> allowedAt'[v]] /\ retryAt' = [v \in Users |-> retryAt'[v]]
            /\ allowedAt'[u] = allowedAt[u] \cup {x} /\ retryAt'[u] = {}
            /\ \A v \in Users : v # u => allowedAt'[v] = allowedAt[v] /\ retryAt'[v] = retryAt[v]
        BY <2>0, <2>1
      <3>3. DOMAIN states' \subseteq Users
        BY <2>0, <3>1
      <3>4. ASSUME NEW v \in Users
            PROVE  UserInv(allowedAt'[v], v \in DOMAIN states', states'[v], retryAt'[v])
        <4>1. CASE v = u
          BY <2>1, <3>1, <3>2, <4>1
        <4>2. CASE v # u
          <5>1. UserInv(allowedAt[v], v \in DOMAIN prune, prune[v], retryAt[v])
            BY OthersKeep
          <5>2. CASE v \in DOMAIN prune
            BY <3>1, <3>2, <4>2, <5>1, <5>2
          <5>3. CASE v \notin DOMAIN prune
            <6>1. v \notin DOMAIN states'
              BY <3>1, <4>2, <5>3
            <6>. QED  BY <3>2, <4>2, <5>1, <5>3, <6>1 DEF UserInv
          <5>. QED  BY <5>2, <5>3
        <4>. QED  BY <4>1, <4>2
      <3>5. \A v \in Users : UserInv(allowedAt[v], v \in DOMAIN states, states[v], retryAt[v])'
        BY <2>1, <3>4, InvPrimed
      <3>. QED  BY <2>0, <2>1, <3>2, <3>3, <3>5 DEF LimitInv
    <2>2. ASSUME NEW u \in Users, OpenWindow(u) PROVE LimitInv'
      <3>. DEFINE x == <<now, Cardinality(allowedAt[u])>>
      <3>1. x[1] = now /\ x \in Nat \X Nat
        BY <2>0, FS_CardinalityType DEF UserInv
      <3>. HIDE DEF x
      <3>2. UserInv(allowedAt[u] \cup {x}, TRUE, [windowStart |-> now, count |-> 1], {})
        BY <2>2, <3>1, OpenKeeps DEF OpenWindow
      <3>3. /\ allowedAt' = [allowedAt EXCEPT ![u] = @ \cup {x}]
            /\ retryAt' = [retryAt EXCEPT ![u] = {}]
            /\ states' = with(u, [windowStart |-> now, count |-> 1])
            /\ UNCHANGED <<cooldownMs, burst, now>>
        BY <2>0, <2>2 DEF OpenWindow, allow, x
      <3>. QED  BY <2>1, <3>2, <3>3
    <2>3. ASSUME NEW u \in Users, UseBurst(u) PROVE LimitInv'
      <3>. DEFINE x == <<now, Cardinality(allowedAt[u])>>
      <3>1. x[1] = now /\ x \in Nat \X Nat
        BY <2>0, FS_CardinalityType DEF UserInv
      <3>. HIDE DEF x
      <3>2. UserInv(allowedAt[u] \cup {x}, TRUE, [prune[u] EXCEPT !.count = @ + 1], {})
        BY <2>3, <3>1, BurstKeeps DEF UseBurst
      <3>3. /\ allowedAt' = [allowedAt EXCEPT ![u] = @ \cup {x}]
            /\ retryAt' = [retryAt EXCEPT ![u] = {}]
            /\ states' = with(u, [prune[u] EXCEPT !.count = @ + 1])
            /\ UNCHANGED <<cooldownMs, burst, now>>
        BY <2>0, <2>3 DEF UseBurst, allow, x
      <3>. QED  BY <2>1, <3>2, <3>3
    <2>4. ASSUME NEW u \in Users, Deny(u) PROVE LimitInv'
      <3>1. /\ states' = prune /\ UNCHANGED <<cooldownMs, burst, now, allowedAt>>
            /\ retryAt' = [retryAt EXCEPT ![u] = @ \cup {now + cooldownMs - elapsed(u)}]
            /\ u \in DOMAIN prune
        BY <2>4 DEF Deny, inWindow
      <3>2. ASSUME NEW v \in Users
            PROVE  UserInv(allowedAt[v], v \in DOMAIN states', states'[v], retryAt'[v])
        <4>1. UserInv(allowedAt[v], v \in DOMAIN prune, prune[v], retryAt[v])
          BY OthersKeep
        <4>2. CASE v = u
          <5>1. now + cooldownMs - elapsed(u) = prune[u].windowStart + cooldownMs
            BY <2>0, <3>1, <4>1, <4>2 DEF elapsed, UserInv, Window
          <5>2. \A t \in retryAt'[v] : t = prune[u].windowStart + cooldownMs
            BY <2>0, <3>1, <4>1, <4>2, <5>1 DEF UserInv
          <5>. QED  BY <3>1, <4>1, <4>2, <5>2 DEF UserInv
        <4>3. CASE v # u
          <5>1. retryAt'[v] = retryAt[v]
            BY <2>0, <3>1, <4>3
          <5>. QED  BY <3>1, <4>1, <5>1
        <4>. QED  BY <4>2, <4>3
      <3>3. \A v \in Users : UserInv(allowedAt[v], v \in DOMAIN states, states[v], retryAt[v])'
        BY <3>1, <3>2, InvPrimed
      <3>4. retryAt' = [v \in Users |-> retryAt'[v]]
        BY <2>0, <3>1
      <3>5. DOMAIN states' \subseteq Users
        BY <2>0, <3>1
      <3>. QED  BY <2>0, <3>1, <3>3, <3>4, <3>5 DEF LimitInv
    <2>5. CASE configure
      <3>1. /\ cooldownMs' \in Nat /\ burst' \in Nat /\ UNCHANGED <<states, now>>
            /\ allowedAt' = [u \in Users |-> {}] /\ retryAt' = [u \in Users |-> {}]
        BY <2>5, LimiterAssumption DEF configure
      <3>2. ASSUME NEW u \in Users
            PROVE  UserInv(allowedAt[u], u \in DOMAIN states, states[u], retryAt[u])'
        <4>. DEFINE w == states[u].windowStart
                    c == states[u].count
        <4>0. UserInv(allowedAt[u], u \in DOMAIN states, states[u], retryAt[u])
          BY <2>0
        <4>1. u \in DOMAIN states => /\ states[u] \in Window /\ w <= now
                                     /\ c - 1 >= 0 /\ c \in Nat
          BY <4>0 DEF UserInv, Window
        <4>2. allowedAt'[u] = {} /\ retryAt'[u] = {} /\ states'[u] = states[u]
          BY <3>1
        <4>3. SpansKept(allowedAt[u])'
          BY <3>1, <4>2, NothingYet DEF SpansKept, Limiting
        <4>4. u \in DOMAIN states => Accounted(allowedAt[u], states[u].windowStart, states[u].count)'
          <5>1. \A r \in allowedAt'[u] : FALSE
            BY <4>2
          <5>2. /\ Cardinality(Since(allowedAt[u], w)') = 0
                /\ Cardinality(Since(allowedAt[u], w + 1)') = 0
                /\ Cardinality(Between(allowedAt[u], w - cooldownMs + 1, w)') = 0
            <6>1. /\ Since(allowedAt[u], w)' = {} /\ Since(allowedAt[u], w + 1)' = {}
                  /\ Between(allowedAt[u], w - cooldownMs + 1, w)' = {}
              BY <5>1 DEF Since, Between
            <6>. QED  BY <6>1, FS_EmptySet
          <5>0. burst' \in Nat /\ cooldownMs' \in Nat
            BY <3>1
          <5>3. burst' > 0 => burst' - 1 >= 0 /\ burst' >= 0
            <6>1. \A n \in Nat : n > 0 => n - 1 >= 0 /\ n >= 0
              OBVIOUS
            <6>. QED  BY <5>0, <6>1
          <5>4. \A r \in allowedAt'[u] : r[1] <= w' \/ r[1] < w' + cooldownMs'
            BY <5>1
          <5>5. w' = w /\ c' = c
            BY <4>2
          <5>. HIDE DEF w, c
          <5>6. u \in DOMAIN states => Accounted(allowedAt[u], w, c)'
            <6>1. u \in DOMAIN states => c' \in Nat /\ c' - 1 >= 0
              BY <4>1, <5>5 DEF c
            <6>. QED  BY <5>0, <5>2, <5>3, <5>4, <6>1 DEF Accounted, Limiting
          <5>. QED  BY <5>6 DEF w, c
        <4>. QED  BY <3>1, <4>1, <4>2, <4>3, <4>4, NothingYet DEF UserInv
      <3>3. allowedAt' = [u \in Users |-> allowedAt'[u]] /\ retryAt' = [u \in Users |-> retryAt'[u]]
        BY <3>1
      <3>. QED  BY <2>0, <3>1, <3>2, <3>3 DEF LimitInv
    <2>6. CASE Tick
      <3>1. now' = now + 1 /\ UNCHANGED <<states, cooldownMs, burst, allowedAt, retryAt>>
        BY <2>6 DEF Tick
      <3>2. ASSUME NEW u \in Users
            PROVE  UserInv(allowedAt[u], u \in DOMAIN states, states[u], retryAt[u])'
        <4>1. \A r \in allowedAt[u] : r[1] \in Nat
          BY <2>0 DEF UserInv
        <4>2. u \in DOMAIN states => states[u].windowStart \in Nat
          BY <2>0 DEF UserInv, Window
        <4>. QED
          BY <2>0, <3>1, <4>1, <4>2 DEF UserInv, SpansKept, Accounted, Limiting
      <3>. QED  BY <2>0, <3>1, <3>2 DEF LimitInv
    <2>7. CASE UNCHANGED limiterVars
      BY <2>7, InvPrimed DEF limiterVars, LimitInv
    <2>. QED  BY <2>2, <2>3, <2>4, <2>5, <2>6, <2>7 DEF LimiterNext
  <1>. QED  BY <1>1, <1>2, PTL DEF LimiterSpec

(* No user gets more than 2 * burst - 1 requests through in a cooldown,    *)
(* counted from the last change of the options.                            *)
THEOREM SpanLimitCorrect == LimiterSpec => []SpanLimit
  <1>1. LimitInv => SpanLimit
    <2>. SUFFICES ASSUME LimitInv, burst > 0, NEW u \in Users, NEW from \in 0..now
                  PROVE  Cardinality(during(u, from, from + cooldownMs)) <= 2 * burst - 1
      BY DEF SpanLimit
    <2>1. /\ UserInv(allowedAt[u], u \in DOMAIN states, states[u], retryAt[u])
          /\ cooldownMs \in Nat /\ burst \in Nat /\ now \in Nat
      BY DEF LimitInv
    <2>2. during(u, from, from + cooldownMs) = Between(allowedAt[u], from, from + cooldownMs)
      BY DEF during, Between
    <2>3. CASE cooldownMs > 0
      BY <2>1, <2>2, <2>3 DEF UserInv, SpansKept, Limiting
    <2>4. CASE cooldownMs = 0
      <3>1. \A r \in allowedAt[u] : r[1] \in Nat
        BY <2>1 DEF UserInv
      <3>2. during(u, from, from + cooldownMs) = {}
        BY <2>1, <2>4, <3>1 DEF during
      <3>3. Cardinality(during(u, from, from + cooldownMs)) = 0
        BY <3>2, FS_EmptySet
      <3>. QED  BY <2>1, <3>3
    <2>. QED  BY <2>1, <2>3, <2>4
  <1>. QED  BY <1>1, AccountsKept, PTL

(* A user who comes back when told to, or later, is not refused again.     *)
THEOREM RetryAfterCorrect == LimiterSpec => []RetryAfterHonest
  <1>1. LimitInv => RetryAfterHonest
    <2>. SUFFICES ASSUME LimitInv, NEW u \in Users, NEW t \in retryAt[u], now >= t, inWindow(u)
                  PROVE  FALSE
      BY DEF RetryAfterHonest
    <2>1. /\ UserInv(allowedAt[u], u \in DOMAIN states, states[u], retryAt[u])
          /\ cooldownMs \in Nat /\ now \in Nat
      BY DEF LimitInv
    <2>2. u \in DOMAIN states /\ prune[u] = states[u]
      BY PruneKeeps DEF inWindow
    <2>3. states[u].windowStart \in Nat /\ t = states[u].windowStart + cooldownMs
      BY <2>1, <2>2 DEF UserInv, Window
    <2>. QED  BY <2>1, <2>2, <2>3 DEF inWindow, elapsed
  <1>. QED  BY <1>1, AccountsKept, PTL

(* Every variable of the limiter keeps its type: the count of a window is  *)
(* never zero, no window begins in the future, no promise is negative.     *)
THEOREM LimiterTypes == LimiterSpec => []LimiterTypeOK
  <1>1. LimiterInit => LimiterTypeOK
    <2>. SUFFICES ASSUME LimiterInit PROVE LimiterTypeOK
      OBVIOUS
    <2>1. DOMAIN states = {} /\ now = 0 /\ cooldownMs \in Cooldowns /\ burst \in Bursts
          /\ allowedAt = [u \in Users |-> {}] /\ retryAt = [u \in Users |-> {}]
      BY DEF LimiterInit
    <2>. QED  BY <2>1, LimiterAssumption DEF LimiterTypeOK
  <1>2. LimiterTypeOK /\ LimitInv /\ [LimiterNext]_limiterVars => LimiterTypeOK'
    <2>. SUFFICES ASSUME LimiterTypeOK, LimitInv, [LimiterNext]_limiterVars PROVE LimiterTypeOK'
      OBVIOUS
    <2>0. /\ cooldownMs \in Nat /\ burst \in Nat /\ now \in Nat /\ now \in 0..MaxTime
          /\ cooldownMs \in Cooldowns /\ burst \in Bursts /\ MaxTime \in Nat
          /\ DOMAIN states \subseteq Users /\ DOMAIN prune \subseteq Users
          /\ \A u \in DOMAIN states : states[u].windowStart \in 0..now /\ states[u].count \in Nat \ {0}
          /\ allowedAt = [u \in Users |-> allowedAt[u]] /\ retryAt = [u \in Users |-> retryAt[u]]
          /\ \A u \in Users : allowedAt[u] \subseteq (0..now) \X Nat /\ retryAt[u] \subseteq Nat
      <3>1. /\ cooldownMs \in Nat /\ burst \in Nat /\ now \in Nat
            /\ allowedAt = [u \in Users |-> allowedAt[u]] /\ retryAt = [u \in Users |-> retryAt[u]]
        BY DEF LimitInv
      <3>2. DOMAIN prune \subseteq DOMAIN states
        BY DEF prune, Restrict
      <3>3. /\ cooldownMs \in Cooldowns /\ burst \in Bursts /\ now \in 0..MaxTime
            /\ DOMAIN states \subseteq Users
            /\ \A u \in DOMAIN states : states[u].windowStart \in 0..now /\ states[u].count \in Nat \ {0}
            /\ \A u \in Users : allowedAt[u] \subseteq (0..now) \X Nat /\ retryAt[u] \subseteq Nat
        BY DEF LimiterTypeOK
      <3>. QED  BY <3>1, <3>2, <3>3, LimiterAssumption
    <2>1. \A u \in DOMAIN prune :
            prune[u] = states[u] /\ prune[u].windowStart \in 0..now /\ prune[u].count \in Nat \ {0}
      BY <2>0, PruneKeeps
    <2>2. ASSUME NEW u \in Users, NEW W,
                 states' = with(u, W), W.windowStart \in 0..now, W.count \in Nat \ {0}, allow(u),
                 UNCHANGED <<cooldownMs, burst, now>>
          PROVE  LimiterTypeOK'
      <3>1. DOMAIN states' = DOMAIN prune \cup {u}
            /\ \A v \in DOMAIN states' : states'[v] = IF v = u THEN W ELSE prune[v]
        BY <2>2 DEF with
      <3>2. DOMAIN states' \subseteq Users
            /\ \A v \in DOMAIN states' : states'[v].windowStart \in 0..now' /\ states'[v].count \in Nat \ {0}
        BY <2>0, <2>1, <2>2, <3>1
      <3>3. Cardinality(allowedAt[u]) \in Nat
        <4>1. IsFiniteSet(allowedAt[u])
          BY DEF LimitInv, UserInv
        <4>. QED  BY <4>1, FS_CardinalityType
      <3>4. \A v \in Users : allowedAt'[v] \subseteq (0..now') \X Nat
        <4>1. <<now, Cardinality(allowedAt[u])>> \in (0..now) \X Nat
          BY <2>0, <3>3
        <4>2. \A v \in Users : allowedAt'[v] =
                IF v = u THEN allowedAt[u] \cup {<<now, Cardinality(allowedAt[u])>>} ELSE allowedAt[v]
          BY <2>0, <2>2 DEF allow
        <4>. QED  BY <2>0, <2>2, <4>1, <4>2
      <3>5. \A v \in Users : retryAt'[v] \subseteq Nat
        BY <2>0, <2>2 DEF allow
      <3>. QED  BY <2>0, <2>2, <3>2, <3>4, <3>5 DEF LimiterTypeOK
    <2>3. ASSUME NEW u \in Users, OpenWindow(u)
          PROVE  LimiterTypeOK'
      <3>. DEFINE W == [windowStart |-> now, count |-> 1]
      <3>1. W.windowStart \in 0..now /\ W.count \in Nat \ {0}
        BY <2>0
      <3>2. states' = with(u, W) /\ allow(u) /\ UNCHANGED <<cooldownMs, burst, now>>
        BY <2>3 DEF OpenWindow
      <3>. HIDE DEF W
      <3>. QED  BY <2>2, <3>1, <3>2
    <2>4. ASSUME NEW u \in Users, UseBurst(u)
          PROVE  LimiterTypeOK'
      <3>. DEFINE W == [prune[u] EXCEPT !.count = @ + 1]
      <3>1. u \in DOMAIN prune
        BY <2>4 DEF UseBurst, inWindow
      <3>2. states[u] \in Window /\ prune[u] = states[u]
        BY <2>1, <3>1, PruneKeeps DEF LimitInv, UserInv
      <3>3. W.windowStart = prune[u].windowStart /\ W.count = prune[u].count + 1
        BY <3>2 DEF Window
      <3>4. W.windowStart \in 0..now /\ W.count \in Nat \ {0}
        BY <2>1, <3>1, <3>3
      <3>5. states' = with(u, W) /\ allow(u) /\ UNCHANGED <<cooldownMs, burst, now>>
        BY <2>4 DEF UseBurst
      <3>. HIDE DEF W
      <3>. QED  BY <2>2, <3>4, <3>5
    <2>5. ASSUME NEW u \in Users, Deny(u)
          PROVE  LimiterTypeOK'
      <3>1. u \in DOMAIN prune /\ elapsed(u) < cooldownMs /\ elapsed(u) = now - prune[u].windowStart
        BY <2>5 DEF Deny, inWindow, elapsed
      <3>2. now + cooldownMs - elapsed(u) \in Nat
        BY <2>0, <2>1, <3>1
      <3>3. states' = prune /\ retryAt' = [retryAt EXCEPT ![u] = @ \cup {now + cooldownMs - elapsed(u)}]
            /\ UNCHANGED <<cooldownMs, burst, now, allowedAt>>
        BY <2>5 DEF Deny
      <3>4. \A v \in Users : retryAt'[v] \subseteq Nat
        <4>. DEFINE t == now + cooldownMs - elapsed(u)
        <4>. HIDE DEF t
        <4>1. \A v \in Users : retryAt'[v] = IF v = u THEN retryAt[u] \cup {t} ELSE retryAt[v]
          BY <2>0, <3>3 DEF t
        <4>. QED  BY <2>0, <3>2, <4>1 DEF t
      <3>. QED  BY <2>0, <2>1, <3>3, <3>4 DEF LimiterTypeOK
    <2>6. CASE Tick
      <3>1. now < MaxTime /\ now' = now + 1 /\ UNCHANGED <<states, cooldownMs, burst, allowedAt, retryAt>>
        BY <2>6 DEF Tick
      <3>2. now' \in 0..MaxTime /\ \A n \in 0..now : n \in 0..now'
        BY <2>0, <3>1
      <3>. QED  BY <2>0, <3>1, <3>2 DEF LimiterTypeOK
    <2>7. CASE configure
      BY <2>0, <2>7 DEF configure, LimiterTypeOK
    <2>8. CASE UNCHANGED limiterVars
      BY <2>8 DEF limiterVars, LimiterTypeOK
    <2>. QED  BY <2>3, <2>4, <2>5, <2>6, <2>7, <2>8 DEF LimiterNext
  <1>. QED  BY <1>1, <1>2, AccountsKept, PTL DEF LimiterSpec

(* What the limiter owes its users holds in every run: the bound on any    *)
(* span of a cooldown, and the promises made to those it refuses.          *)
THEOREM LimitsCorrect == LimiterSpec => []LimitsHonest
  BY LimiterTypes, SpanLimitCorrect, RetryAfterCorrect, PTL DEF LimitsHonest

--------------------------------------------------------------------------------

(* Whatever the cap is and the server sends, and whenever the timer fires, *)
(* no more than the cap is held: what has been counted is never less than  *)
(* what is held, and nothing is counted before the body is read.           *)
THEOREM CapHoldsCorrect == FetcherSpec => []CapHolds
  <1> DEFINE IInv == /\ FetcherTypeOK /\ CapHolds /\ buffered \in Nat
                     /\ fetchPc \in {"request", "whole body"} => total = 0
  <1>1. FetcherInit => IInv
    BY FetcherAssumption DEF FetcherInit, FetcherTypeOK, CapHolds
  <1>2. ASSUME IInv, [FetcherNext]_fetcherVars
        PROVE  IInv'
    <2> USE FetcherAssumption DEF FetcherTypeOK, CapHolds
    <2>1. CASE Expire
      BY <1>2, <2>1 DEF Expire
    <2>2. CASE Aborted \/ NetworkError \/ Refused
      BY <1>2, <2>2 DEF Aborted, NetworkError, Refused, leave
    <2>3. CASE Answered
      BY <1>2, <2>3 DEF Answered
    <2>4. CASE Chunk
      BY <1>2, <2>4 DEF Chunk
    <2>5. CASE ChunkTooLarge
      BY <1>2, <2>5 DEF ChunkTooLarge, leave
    <2>6. CASE EndOfBody
      BY <1>2, <2>6 DEF EndOfBody
    <2>7. CASE WholeBody
      <3>1. PICK n \in 0..MaxSent :
              /\ sent' = n
              /\ IF n > MAX_BYTES THEN leave("failed") /\ UNCHANGED text
                 ELSE fetchPc' = "text" /\ text' = n /\ UNCHANGED <<timer, reader>>
        BY <2>7 DEF WholeBody
      <3>2. n \in Nat
        BY <3>1
      <3>3. total = 0 /\ UNCHANGED <<declared, total, buffered>>
        BY <1>2, <2>7 DEF WholeBody
      <3>4. /\ sent' = n /\ total' = 0 /\ buffered' = buffered /\ declared' = declared
            /\ buffered \in Nat /\ buffered <= 0 /\ text \in Nat
        BY <1>2, <3>1, <3>3
      <3>5. CASE n > MAX_BYTES
        <4>1. fetchPc' = "failed" /\ timer' = "cleared" /\ text' = text
          BY <3>1, <3>5 DEF leave
        <4>2. reader' \in {"none", "locked", "released"}
          BY <1>2, <3>1, <3>5 DEF leave
        <4>3. {sent', total', text'} \subseteq Nat /\ buffered' <= total' /\ total' <= sent'
          BY <3>2, <3>4, <4>1, <4>2
        <4>4. FetcherTypeOK'
          BY <1>2, <3>4, <4>1, <4>2, <4>3
        <4>5. CapHolds' /\ buffered' \in Nat /\ fetchPc' \notin {"request", "whole body"}
          BY <1>2, <3>4, <4>1, <4>2, <4>4
        <4>. QED  BY <4>4, <4>5
      <3>6. CASE ~(n > MAX_BYTES)
        <4>1. n <= MAX_BYTES
          BY <3>2, <3>6
        <4>2. fetchPc' = "text" /\ text' = n /\ timer' = timer /\ reader' = reader
          BY <3>1, <3>6
        <4>3. {sent', total', text'} \subseteq Nat /\ buffered' <= total' /\ total' <= sent'
          BY <3>2, <3>4, <4>1, <4>2
        <4>4. FetcherTypeOK'
          BY <1>2, <3>4, <4>1, <4>2, <4>3
        <4>5. CapHolds' /\ buffered' \in Nat /\ fetchPc' \notin {"request", "whole body"}
          BY <1>2, <3>4, <4>1, <4>2, <4>4
        <4>. QED  BY <4>4, <4>5
      <3>. QED  BY <3>5, <3>6
    <2>8. CASE Deliver
      BY <1>2, <2>8 DEF Deliver, leave
    <2>9. CASE Ended \/ UNCHANGED fetcherVars
      BY <1>2, <2>9 DEF Ended, fetcherVars
    <2>. QED  BY <1>2, <2>1, <2>2, <2>3, <2>4, <2>5, <2>6, <2>7, <2>8, <2>9 DEF FetcherNext
  <1>3. IInv => FetcherTypeOK /\ CapHolds
    OBVIOUS
  <1>. QED  BY <1>1, <1>2, <1>3, PTL DEF FetcherSpec
================================================================================
