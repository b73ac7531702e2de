------------------------------ MODULE ReportCache ------------------------------
(***************************************************************************)
(* DeobfCache of src/utils/cache.ts: a least-recently-used cache bounded   *)
(* both in entries and in bytes.  The JavaScript Map is the sequence       *)
(* "map", oldest use first; set() ends in the loop evictIfNeeded(), one    *)
(* eviction per step here.  Hit counters and timestamps only feed stats(). *)
(***************************************************************************)
EXTENDS Naturals, SequencesExt

CONSTANTS Keys,       \* digests of the inputs
          Values,
          Sizes,      \* sizes a caller may store under, approxSize included
          maxEntries, maxBytes,
          MaxUses     \* bound on the uses of a run, for model checking

ASSUME CacheAssumption ==
  /\ maxEntries \in Nat \ {0} /\ maxBytes \in Nat
  /\ Sizes \subseteq Nat /\ MaxUses \in Nat

Entry == [key : Keys, value : Values, size : Nat]

VARIABLES
  map, totalSize, pc,
  uses,       \* history: number of uses (sets and hits) so far
  lastUse,    \* history: key -> number of its last use
  written,    \* history: key -> the values last set for it since the last clear, at most one
  inserted    \* history: the map before the present set() began to evict

vars == <<map, totalSize, pc, uses, lastUse, written, inserted>>

Init ==
  /\ map = <<>> /\ totalSize = 0 /\ pc = "idle"
  /\ uses = 0 /\ lastUse = [k \in Keys |-> 0]
  /\ written = [k \in Keys |-> {}] /\ inserted = <<>>

has(k) == \E i \in 1..Len(map) : map[i].key = k
placeOf(k) == CHOOSE i \in 1..Len(map) : map[i].key = k
entry(k) == map[placeOf(k)]
delete(k) == IF has(k) THEN RemoveAt(map, placeOf(k)) ELSE map

use(k) ==
  /\ uses < MaxUses
  /\ uses' = uses + 1
  /\ lastUse' = [lastUse EXCEPT ![k] = uses + 1]

(* The definitions named ...Fault are plausible slips in the definition    *)
(* after them and show what a property would notice.                      *)

getFault(k) ==  \* a hit does not move the entry
  /\ pc = "idle" /\ has(k)
  /\ use(k)
  /\ UNCHANGED <<map, totalSize, pc, written, inserted>>

(* A hit moves the entry to the recent end; a miss changes nothing.        *)
get(k) ==
  /\ pc = "idle" /\ has(k)
  /\ use(k)
  /\ map' = Append(delete(k), entry(k))
  /\ UNCHANGED <<totalSize, pc, written, inserted>>

set(k, v, size) ==
  /\ pc = "idle"
  /\ use(k)
  /\ map' = Append(delete(k), [key |-> k, value |-> v, size |-> size])
  /\ totalSize' = (IF has(k) THEN totalSize - entry(k).size ELSE totalSize) + size
  /\ written' = [written EXCEPT ![k] = {v}]
  /\ inserted' = map'
  /\ pc' = "evict"

tooBigFault == Len(map) >= maxEntries \/ totalSize > maxBytes  \* off by one

tooBig == Len(map) > maxEntries \/ totalSize > maxBytes

evictOne ==
  /\ pc = "evict" /\ tooBig /\ map # <<>>
  /\ totalSize' = totalSize - Head(map).size
  /\ map' = Tail(map)
  /\ UNCHANGED <<pc, uses, lastUse, written, inserted>>

evicted ==
  /\ pc = "evict" /\ (~tooBig \/ map = <<>>)
  /\ pc' = "idle"
  /\ UNCHANGED <<map, totalSize, uses, lastUse, written, inserted>>

clearFault ==  \* the entries stay
  /\ pc = "idle"
  /\ totalSize' = 0
  /\ written' = [k \in Keys |-> {}] /\ inserted' = <<>>
  /\ UNCHANGED <<map, pc, uses, lastUse>>

clear ==
  /\ pc = "idle"
  /\ map' = <<>> /\ totalSize' = 0
  /\ written' = [k \in Keys |-> {}] /\ inserted' = <<>>
  /\ UNCHANGED <<pc, uses, lastUse>>

Next ==
  \/ \E k \in Keys : get(k)
  \/ \E k \in Keys, v \in Values, size \in Sizes : set(k, v, size)
  \/ evictOne \/ evicted \/ clear

Spec == Init /\ [][Next]_vars

--------------------------------------------------------------------------------

sizeOf(m) ==
  LET sum[i \in 0..Len(m)] == IF i = 0 THEN 0 ELSE sum[i - 1] + m[i].size
  IN sum[Len(m)]

(* Every variable keeps its type.                                          *)
TypeOK ==
  /\ map \in Seq(Entry) /\ totalSize \in Nat /\ pc \in {"idle", "evict"}
  /\ uses \in Nat /\ lastUse \in [Keys -> Nat]
  /\ written \in [Keys -> SUBSET Values] /\ inserted \in Seq(Entry)

(* The order of the map is the order of last use, so that no key has two   *)
(* entries and the entry evicted first is the least recently used ("delete *)
(* + set on every access").                                                *)
LruOrder ==
  \A i, j \in 1..Len(map) : i < j => lastUse[map[i].key] < lastUse[map[j].key]

(* A lookup can only return the value last set for the key.                *)
LastWriteWins == \A i \in 1..Len(map) : written[map[i].key] = {map[i].value}

CacheFaithful == LruOrder /\ LastWriteWins

(* The cache serves what was stored last under a key, and the entry that   *)
(* goes first is the one used least recently.                              *)
StoredFaithful == TypeOK /\ CacheFaithful

(* What a set() leaves is the longest run of most recent entries that fits *)
(* both limits: no entry is evicted that could have stayed.                *)
fits(m) == Len(m) <= maxEntries /\ sizeOf(m) <= maxBytes
after(m, n) == SubSeq(m, n + 1, Len(m))

EvictsNoMoreThanNeeded ==
  [][evicted => \E n \in 0..Len(inserted) :
       /\ map = after(inserted, n)
       /\ fits(map)
       /\ \A l \in 0..(n - 1) : ~fits(after(inserted, l))]_vars
================================================================================
