------------------------------ MODULE RateLimiter ------------------------------
(***************************************************************************)
(* RateLimiter of src/utils/rate-limit.ts: a fixed window per user, opened *)
(* by the first request after the last one ended.  Time is a counter of    *)
(* units of the cooldown; the limiter can be reconfigured while it runs.   *)
(***************************************************************************)
EXTENDS Integers, FiniteSets, Functions

CONSTANTS Users, Cooldowns, Bursts,
          MaxTime      \* bound on the clock, for model checking

ASSUME LimiterAssumption == Cooldowns \subseteq Nat /\ Bursts \subseteq Nat /\ MaxTime \in Nat

VARIABLES
  states,                 \* user -> [windowStart, count], for the users known
  cooldownMs, burst, now,
  allowedAt,              \* history: user -> <<time, n-th request>> let through since configure
  retryAt                 \* history: user -> the times it was told to come back at, since configure

limiterVars == <<states, cooldownMs, burst, now, allowedAt, retryAt>>

LimiterInit ==
  /\ states = [u \in {} |-> 0]
  /\ cooldownMs \in Cooldowns /\ burst \in Bursts /\ now = 0
  /\ allowedAt = [u \in Users |-> {}] /\ retryAt = [u \in Users |-> {}]

pruneFault ==  \* forgets users in their cooldown
  Restrict(states, {u \in DOMAIN states : states[u].windowStart >= now - cooldownMs \div 4})

(* prune() runs first in every check.                                      *)
prune == Restrict(states, {u \in DOMAIN states : states[u].windowStart >= now - 4 * cooldownMs})

with(u, state) == [v \in DOMAIN prune \cup {u} |-> IF v = u THEN state ELSE prune[v]]

elapsed(u) == now - prune[u].windowStart
inWindow(u) == u \in DOMAIN prune /\ elapsed(u) < cooldownMs

allow(u) ==
  /\ allowedAt' = [allowedAt EXCEPT ![u] = @ \cup {<<now, Cardinality(@)>>}]
  /\ retryAt' = [retryAt EXCEPT ![u] = {}]

(* The definitions named ...Fault are plausible slips in the definition    *)
(* after them and show what a property would notice.                      *)

(* An unknown user, or one whose window is over, opens a window.           *)
OpenWindow(u) ==
  /\ ~inWindow(u)
  /\ states' = with(u, [windowStart |-> now, count |-> 1])
  /\ allow(u)
  /\ UNCHANGED <<cooldownMs, burst, now>>

UseBurst(u) ==
  /\ inWindow(u) /\ prune[u].count < burst
  /\ states' = with(u, [prune[u] EXCEPT !.count = @ + 1])
  /\ allow(u)
  /\ UNCHANGED <<cooldownMs, burst, now>>

DenyFault(u) ==  \* a refused request starts the cooldown again
  /\ inWindow(u) /\ prune[u].count >= burst
  /\ states' = with(u, [prune[u] EXCEPT !.windowStart = now])
  /\ retryAt' = [retryAt EXCEPT ![u] = @ \cup {now + cooldownMs - elapsed(u)}]
  /\ UNCHANGED <<cooldownMs, burst, now, allowedAt>>

Deny(u) ==
  /\ inWindow(u) /\ prune[u].count >= burst
  /\ states' = prune
  /\ retryAt' = [retryAt EXCEPT ![u] = @ \cup {now + cooldownMs - elapsed(u)}]
  /\ UNCHANGED <<cooldownMs, burst, now, allowedAt>>

configure ==
  /\ cooldownMs' \in Cooldowns /\ burst' \in Bursts
  /\ allowedAt' = [u \in Users |-> {}] /\ retryAt' = [u \in Users |-> {}]
  /\ UNCHANGED <<states, now>>

Tick == now < MaxTime /\ now' = now + 1
        /\ UNCHANGED <<states, cooldownMs, burst, allowedAt, retryAt>>

LimiterNext == Tick \/ configure \/ \E u \in Users : OpenWindow(u) \/ UseBurst(u) \/ Deny(u)

LimiterSpec == LimiterInit /\ [][LimiterNext]_limiterVars

--------------------------------------------------------------------------------

(* Every variable keeps its type.                                          *)
LimiterTypeOK ==
  /\ DOMAIN states \subseteq Users
  /\ \A u \in DOMAIN states : states[u].windowStart \in 0..now /\ states[u].count \in Nat \ {0}
  /\ cooldownMs \in Cooldowns /\ burst \in Bursts /\ now \in 0..MaxTime
  /\ \A u \in Users : allowedAt[u] \subseteq (0..now) \X Nat
  /\ \A u \in Users : retryAt[u] \subseteq Nat

during(u, from, to) == {r \in allowedAt[u] : from <= r[1] /\ r[1] < to}

(* However the requests fall across windows, a user gets no more than      *)
(* 2 * burst - 1 of them through in any time span of one cooldown: with    *)
(* the default burst of one the cooldown is exact.                         *)
SpanLimit ==
  burst > 0 => \A u \in Users, from \in 0..now :
    Cardinality(during(u, from, from + cooldownMs)) <= 2 * burst - 1

(* A refused user who comes back at the time retryAfterMs named, or later, *)
(* is not refused again, other requests in between or not.                 *)
RetryAfterHonest ==
  \A u \in Users : \A t \in retryAt[u] : now >= t => ~inWindow(u)

(* A user gets no more than 2 * burst - 1 requests through in a cooldown,  *)
(* and who comes back when told to is not refused again.                   *)
LimitsHonest == LimiterTypeOK /\ SpanLimit /\ RetryAfterHonest
================================================================================
