----------------------------- MODULE OrderedSet -----------------------------
(***************************************************************************)
(* What the red-black tree template promises to the allocators that use    *)
(* it: a set of nodes ordered by RBTREE_CMP, with insertion, deletion by   *)
(* key, search, and the step to the next and to the previous node.         *)
(***************************************************************************)
EXTENDS Naturals, FiniteSetsExt

CONSTANTS Nodes,            \* the nodes; RBTREE_CMP orders them as numbers
          None              \* the null pointer

VARIABLES elems,            \* the nodes that are in the set
          answer            \* the last call, with the node it was given and what it returned

vars == <<elems, answer>>

Above(n) == {m \in elems : m > n}
Below(n) == {m \in elems : m < n}
Least(S) == IF S = {} THEN None ELSE Min(S)
Greatest(S) == IF S = {} THEN None ELSE Max(S)

Returns(call, n, value) == answer' = [call |-> call, of |-> n, value |-> value]

NoAnswer == [call |-> "none", of |-> None, value |-> None]

Init == elems = {} /\ answer = NoAnswer

\* A call begins.
Call == answer' = NoAnswer /\ UNCHANGED elems
Insert(n) == n \notin elems /\ elems' = elems \union {n} /\ Returns("insert", n, None)
Delete(n) == elems' = elems \ {n} /\ Returns("delete", n, IF n \in elems THEN n ELSE None)
Find(n) == Returns("find", n, IF n \in elems THEN n ELSE None) /\ UNCHANGED elems
NextOf(n) == n \in elems /\ Returns("right", n, Least(Above(n))) /\ UNCHANGED elems
PrevOf(n) == n \in elems /\ Returns("left", n, Greatest(Below(n))) /\ UNCHANGED elems

Next == Call \/ \E n \in Nodes : Insert(n) \/ Delete(n) \/ Find(n) \/ NextOf(n) \/ PrevOf(n)

Spec == Init /\ [][Next]_vars
=============================================================================
