-------------------------------- MODULE Ordering -------------------------------
(***************************************************************************)
(* Math.min and Math.max of two numbers, and the stable sort of an array.  *)
(***************************************************************************)
EXTENDS Integers, FiniteSets

minimum(m, n) == IF m < n THEN m ELSE n
maximum(m, n) == IF m < n THEN n ELSE m

(* The members of a finite set in the order given by R, a set of pairs.    *)
ordered(S, R) ==
  [k \in 1..Cardinality(S) |->
     CHOOSE x \in S : Cardinality({y \in S : <<y, x>> \in R}) = k - 1]
================================================================================
