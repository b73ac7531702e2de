------------------------------- MODULE LinkCrawl -------------------------------
(***************************************************************************)
(* What the chain resolver promises, without its stack, depths and texts:  *)
(* links become known, each known link is tried at most once, and a run is *)
(* complete only when every known link has been tried.  It may be cut      *)
(* short by a limit instead.                                               *)
(***************************************************************************)
CONSTANT Keys   \* what links are compared by

VARIABLES known, tried, phase

crawl == <<known, tried, phase>>

Init ==
  /\ known \in {{}} \cup {{k} : k \in Keys}  \* the entry link, if there is one
  /\ tried = known
  /\ phase = "running"

(* A script is searched and no link is taken from it.                      *)
Learn ==
  /\ phase = "running"
  /\ known \subseteq known' /\ known' \subseteq Keys
  /\ phase' \in {"running", "cut"}
  /\ UNCHANGED tried

(* A known link, perhaps one just learnt, is tried for the first time.     *)
Try ==
  /\ phase = "running"
  /\ known \subseteq known' /\ known' \subseteq Keys
  /\ \E k \in known' \ tried : tried' = tried \cup {k}
  /\ UNCHANGED phase

Complete ==
  /\ phase = "running" /\ known = tried
  /\ phase' = "complete"
  /\ UNCHANGED <<known, tried>>

Next == Learn \/ Try \/ Complete

Spec == Init /\ [][Next]_crawl
================================================================================
