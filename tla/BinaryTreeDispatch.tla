--------------------------- MODULE BinaryTreeDispatch ---------------------------
(***************************************************************************)
(* recoverBinaryTreeDispatch of src/passes/binary-tree-dispatch.ts: nested *)
(* if/else statements that compare one variable with numbers become one    *)
(* if/elseif chain, the leaves sorted by the lower ends of the ranges in   *)
(* which the tree runs them.                                               *)
(*                                                                         *)
(* A tree is a sequence of nodes [var, op, value, then, else]; an arm is a *)
(* node n > 0, the body -n, or 0 for no statement at all.                  *)
(***************************************************************************)
EXTENDS Ordering, Sequences

CONSTANTS Trees,
          maxLeaves, maxRewrites,
          Values       \* values of the variable, for model checking

(* A statement stands in one place, and after the one it is nested in.     *)
ASSUME BinaryTreeAssumption ==
  /\ maxLeaves \in Nat /\ maxRewrites \in Nat /\ Values \subseteq Int
  /\ \A t \in Trees :
       /\ t \in Seq([var : STRING, op : STRING, value : Int, then : Int, else : Int])
       /\ \A m \in DOMAIN t :
            /\ \A a \in {t[m].then, t[m].else} : a > 0 => a \in DOMAIN t /\ m < a
            /\ t[m].then = t[m].else => t[m].then = 0
       /\ \A m, k \in DOMAIN t :
            m # k => {t[m].then, t[m].else} \cap {t[k].then, t[k].else} \subseteq {0}

VARIABLES tree,
          chains,      \* node -> the chain it was rewritten to
          rewrites

treeVars == <<tree, chains, rewrites>>

TreeInit == tree \in Trees /\ chains = [n \in {} |-> <<>>] /\ rewrites = 0

--------------------------------------------------------------------------------
(* parseTree and gatherNestedCandidate.                                    *)

Ops == {"<", "<=", ">", ">=", "=="}
arms(t, m) == {t[m].then, t[m].else}

parses(t, a) == a > 0 /\ t[a].op \in Ops /\ 0 \notin arms(t, a)

nodesUnder(t) ==
  LET under[m \in DOMAIN t] == {m} \cup UNION {under[a] : a \in {a \in arms(t, m) : parses(t, a)}}
  IN under

(* A leaf is an arm that is no tree itself.                                *)
leafCount(t, n) == 1 + Cardinality(nodesUnder(t)[n])

nested(t, n) ==
  /\ parses(t, n)
  /\ leafCount(t, n) \in 4..maxLeaves
  /\ \A m \in nodesUnder(t)[n] : t[m].var = t[n].var

--------------------------------------------------------------------------------
(* flattenSmallTree.                                                       *)

(* The ends of the ranges given to the two arms; <<>> is no end.           *)
splitFault(node, ends) ==  \* >= is taken for <
  LET at == <<node.value>>
  IN CASE node.op \in {"<", "<=", ">="} -> [then |-> <<ends[1], at>>, else |-> <<at, ends[2]>>]
       [] node.op = ">" -> [then |-> <<at, ends[2]>>, else |-> <<ends[1], at>>]
       [] OTHER -> [then |-> <<at, at>>, else |-> ends]

splitRange(node, ends) ==
  LET at == <<node.value>>
  IN CASE node.op \in {"<", "<="} -> [then |-> <<ends[1], at>>, else |-> <<at, ends[2]>>]
       [] node.op \in {">", ">="} -> [then |-> <<at, ends[2]>>, else |-> <<ends[1], at>>]
       [] OTHER -> [then |-> <<at, at>>, else |-> ends]

Ends(t) == {<<>>} \cup {<<t[m].value>> : m \in DOMAIN t}

resolveRange(t) ==
  LET leaf(a, ends) == [to |-> a, lower |-> ends[1], upper |-> ends[2]]
      resolve[m \in DOMAIN t] ==
        [ends \in Ends(t) \X Ends(t) |->
           LET s == splitRange(t[m], ends)
           IN (IF parses(t, t[m].then) THEN resolve[t[m].then][s.then] ELSE <<leaf(t[m].then, s.then)>>)
              \o (IF parses(t, t[m].else) THEN resolve[t[m].else][s.else] ELSE <<leaf(t[m].else, s.else)>>)]
  IN resolve

below(e, f) == f # <<>> /\ (e = <<>> \/ e[1] < f[1])

sorted(ranges) ==
  LET ahead == {p \in (DOMAIN ranges) \X (DOMAIN ranges) :
                  \/ below(ranges[p[1]].lower, ranges[p[2]].lower)
                  \/ ~below(ranges[p[2]].lower, ranges[p[1]].lower) /\ p[1] < p[2]}
  IN [k \in DOMAIN ranges |-> ranges[ordered(DOMAIN ranges, ahead)[k]]]

--------------------------------------------------------------------------------

(* A node that is still in its original place; those of a tree that was    *)
(* rewritten are gone, but what hangs below its leaves is not.             *)
standing(n) == \A m \in DOMAIN chains : n \notin nodesUnder(tree)[m]

(* Each pass rewrites a candidate that no other one contains.              *)
FlattenTree(n) ==
  /\ rewrites < maxRewrites
  /\ nested(tree, n) /\ standing(n)
  /\ \A m \in DOMAIN tree :
       nested(tree, m) /\ standing(m) /\ m # n => n \notin nodesUnder(tree)[m]
  /\ chains' = [m \in DOMAIN chains \cup {n} |->
                  IF m = n THEN sorted(resolveRange(tree)[n][<<<<>>, <<>>>>]) ELSE chains[m]]
  /\ rewrites' = rewrites + 1
  /\ UNCHANGED tree

Recovered ==
  /\ rewrites = maxRewrites \/ ~ \E n \in DOMAIN tree : nested(tree, n) /\ standing(n)
  /\ UNCHANGED treeVars

TreeNext == (\E n \in DOMAIN tree : FlattenTree(n)) \/ Recovered

TreeSpec == TreeInit /\ [][TreeNext]_treeVars

--------------------------------------------------------------------------------
(* Running the two forms with v in the variable.                           *)

compared(op, v, n) ==
  \/ op = "<" /\ v < n
  \/ op = "<=" /\ v <= n
  \/ op = ">" /\ v > n
  \/ op = ">=" /\ v >= n
  \/ op = "==" /\ v = n
  \/ op = "~=" /\ v # n

(* The leaf that a node leads v to.                                        *)
armTaken(node, v) == IF compared(node.op, v, node.value) THEN node.then ELSE node.else

leafOf(t) ==
  LET eval[m \in DOMAIN t] ==
        [v \in Values |-> LET a == armTaken(t[m], v) IN IF parses(t, a) THEN eval[a][v] ELSE a]
  IN eval

(* The first arm of the chain tests one end of its range, the others the   *)
(* lower end.                                                              *)
condition(chain, k, v) ==
  LET r == chain[k]
  IN IF r.lower # <<>> THEN v >= r.lower[1]
     ELSE k > 1 \/ r.upper = <<>> \/ v < r.upper[1]

chosen(chain, v) ==
  LET open == {k \in DOMAIN chain : condition(chain, k, v)}
  IN IF open = {} THEN 0 ELSE chain[CHOOSE k \in open : \A l \in open : k <= l].to

--------------------------------------------------------------------------------

TreeTypeOK ==
  /\ tree \in Trees /\ rewrites \in 0..maxRewrites
  /\ DOMAIN chains \subseteq DOMAIN tree /\ Cardinality(DOMAIN chains) = rewrites
  /\ \A n \in DOMAIN chains : Len(chains[n]) \in 4..maxLeaves

(* "Then: [lower, n.value), Else: [n.value, upper)": in a search tree of   *)
(* < and >= each leaf stands with the very range in which the tree runs it.*)
inOrder(r) == r.lower # <<>> => r.upper = <<>> \/ r.lower[1] < r.upper[1]

searchTree(n) ==
  /\ \A m \in nodesUnder(tree)[n] : tree[m].op \in {"<", ">="}
  /\ \A k \in DOMAIN chains[n] : inOrder(chains[n][k])

within(v, r) == (r.lower = <<>> \/ r.lower[1] <= v) /\ (r.upper = <<>> \/ v < r.upper[1])

RangesExact ==
  /\ TreeTypeOK
  /\ \A n \in DOMAIN chains : searchTree(n) =>
       \A v \in Values, k \in DOMAIN chains[n] :
         within(v, chains[n][k]) <=> leafOf(tree)[n][v] = chains[n][k].to

(* "we can just use the original conditions to build the if/elseif chain": *)
(* the chain runs the leaf that the tree runs.                             *)
ChainEquivalent ==
  \A n \in DOMAIN chains : searchTree(n) =>
    \A v \in Values : chosen(chains[n], v) = leafOf(tree)[n][v]
================================================================================
