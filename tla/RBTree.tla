-------------------------------- MODULE RBTree --------------------------------
(***************************************************************************)
(* The red-black tree template (templates/rbtree.c, rbtree_rotate.c), from *)
(* which both allocators make their three trees of zones.                  *)
(*                                                                         *)
(* Every turn of a loop is a step: of the walks down and up the tree, and  *)
(* of the loops that restore the balance.  The code is written out once    *)
(* for each side; the two halves mirror each other, and here a side is a   *)
(* parameter.                                                              *)
(***************************************************************************)
EXTENDS Naturals, FiniteSets

CONSTANTS Nodes,            \* the nodes; RBTREE_CMP orders them as numbers
          Null              \* the null pointer

ASSUME NodesAssumption == Nodes \subseteq Nat \ {0} /\ Null = 0

VARIABLES
    tree,           \* the pointers and colors
    phase,          \* the loop that runs: "descend", "seek", "find", "after", "down",
                    \* "up", or the balance of an "insert" or a "delete"; or "rest"
    node, at,       \* what the call was given, and where its walk is
    p, pp,          \* the variables of the loop of RBTREE_INSERT, with node
    n, side,        \* n and if_left of that of RBTREE_DELETE; side is also the way of a step
    answer          \* the last call, with the node it was given and what it returns

vars == <<tree, phase, node, at, p, pp, n, side, answer>>

Sides == {"left", "right"}
Other(s) == IF s = "left" THEN "right" ELSE "left"

Pointer == Nodes \union {Null}
Tree == [root : Pointer, kid : [Sides -> [Nodes -> Pointer]], parent : [Nodes -> Pointer], red : SUBSET Nodes]

EmptyTree == [root |-> Null, kid |-> [s \in Sides |-> [x \in Nodes |-> Null]],
              parent |-> [x \in Nodes |-> Null], red |-> {}]

------------------------------------------------------------------------------
(* Pointers                                                                *)

\* On which side of its parent q node x is: if(q->RBTREE_LEFT==x).
SideOf(t, q, x) == IF t.kid["left"][q] = x THEN "left" ELSE "right"

\* What was below q at x, or the root, is y.
Replace(t, q, x, y) ==
    IF q = Null THEN [t EXCEPT !.root = y] ELSE [t EXCEPT !.kid[SideOf(t, q, x)][q] = y]

Adopt(t, x, q) == IF x = Null THEN t ELSE [t EXCEPT !.parent[x] = q]
Blacken(t, x) == [t EXCEPT !.red = @ \ {x}]
Redden(t, x) == [t EXCEPT !.red = @ \union {x}]

\* The color of node x is given to node y.
CopyColor(t, x, y) == IF x \in t.red THEN Redden(t, y) ELSE Blacken(t, y)

\* Node x goes down to side s and its kid on the other side takes its place.
Rotate(t, s, x) ==
    LET q == t.parent[x]
        r == t.kid[Other(s)][x]
        up == Adopt(Replace(t, q, x, r), r, q)
        down == [up EXCEPT !.kid[s][r] = x, !.kid[Other(s)][x] = t.kid[s][r], !.parent[x] = r]
    IN  Adopt(down, t.kid[s][r], x)

\* The nodes that are linked.
Elems == {x \in Nodes : x = tree.root \/ tree.parent[x] # Null}

------------------------------------------------------------------------------

Answer(call, x, value) == [call |-> call, of |-> x, value |-> value]
NoAnswer == Answer("none", Null, Null)

Init ==
    /\ tree = EmptyTree
    /\ phase = "rest"
    /\ node = Null /\ at = Null /\ p = Null /\ pp = Null
    /\ n = Null /\ side = "left"
    /\ answer = NoAnswer

Return(result) ==
    /\ phase' = "rest"
    /\ node' = Null /\ at' = Null /\ p' = Null /\ pp' = Null
    /\ n' = Null /\ side' = "left"
    /\ answer' = result

\* The end of both loops: (*root)->RBTREE_COLOR=RBTREE_BLACK.
Settle(t) == tree' = Blacken(t, t.root) /\ Return(answer)

------------------------------------------------------------------------------
(* RBTREE_INSERT                                                           *)

\* Node x as a leaf below q.
Linked(x, q) ==
    [tree EXCEPT !.root = IF q = Null THEN x ELSE @,
                 !.kid = [s \in Sides |-> [y \in Nodes |->
                            IF y = x THEN Null
                            ELSE IF y = q /\ s = (IF x > q THEN "right" ELSE "left") THEN x ELSE @[s][y]]],
                 !.parent[x] = q,
                 !.red = IF q = Null THEN @ \ {x} ELSE @ \union {x}]

\* The walk of a call for x begins at node y, and goes on to node y.
WalkFrom(loop, x, y) ==
    /\ phase' = loop
    /\ node' = x /\ at' = y
    /\ answer' = NoAnswer
    /\ UNCHANGED <<tree, p, pp, n>>
WalkTo(y) == at' = y /\ UNCHANGED <<tree, phase, node, p, pp, n, side, answer>>

\* The next node on the way down to node: if(RBTREE_CMP(node,n)) n=n->RBTREE_RIGHT;
Ahead == tree.kid[IF node > at THEN "right" ELSE "left"][at]

Insert(x) ==
    /\ phase = "rest"
    /\ x \notin Elems
    /\ IF tree.root = Null
       THEN tree' = Linked(x, Null) /\ Return(Answer("insert", x, Null))
       ELSE WalkFrom("descend", x, tree.root) /\ UNCHANGED side

Descend == phase = "descend" /\ Ahead # Null /\ WalkTo(Ahead)

\* The place is found: the node is linked there.
InsertThere ==
    /\ phase = "descend" /\ Ahead = Null
    /\ tree' = Linked(node, at)
    /\ IF at \notin tree.red
       THEN Return(Answer("insert", node, Null))
       ELSE /\ phase' = "insert"
            /\ p' = at /\ pp' = tree.parent[at] /\ at' = Null
            /\ answer' = Answer("insert", node, Null)
            /\ UNCHANGED <<node, n, side>>

\* The uncle is red: it and the parent get black, and the grandparent is the
\* next node whose parent may be red.
RedUncle(s) == tree.kid[Other(s)][pp] \in tree.red

InsertUp ==
    /\ phase = "insert"
    /\ LET s == SideOf(tree, pp, p)
           t == Redden(Blacken(Blacken(tree, tree.kid[Other(s)][pp]), p), pp)
           q == tree.parent[pp]
       IN  /\ RedUncle(s)
           /\ IF q = Null \/ q \notin tree.red
              THEN Settle(t)
              ELSE /\ tree' = t
                   /\ node' = pp /\ p' = q /\ pp' = tree.parent[q]
                   /\ UNCHANGED <<phase, at, n, side, answer>>

\* The uncle is black: a rotation, or two when node is the inner kid.
InsertRotate ==
    /\ phase = "insert"
    /\ LET s == SideOf(tree, pp, p)
           inner == tree.kid[Other(s)][p] = node
           t == IF inner THEN Rotate(tree, s, p) ELSE tree
           top == IF inner THEN node ELSE p
       IN  /\ ~RedUncle(s)
           /\ Settle(Rotate(Blacken(Redden(t, pp), top), Other(s), pp))

------------------------------------------------------------------------------
(* RBTREE_FIND and RBTREE_DELETE                                           *)

Find(x) == phase = "rest" /\ WalkFrom("find", x, tree.root) /\ UNCHANGED side
Delete(x) == phase = "rest" /\ WalkFrom("seek", x, tree.root) /\ UNCHANGED side

Seek == phase \in {"find", "seek"} /\ at \notin {Null, node} /\ WalkTo(Ahead)

Found ==
    /\ phase = "find" /\ at \in {Null, node}
    /\ Return(Answer("find", node, at)) /\ UNCHANGED tree

NotThere ==
    /\ phase = "seek" /\ at = Null
    /\ Return(Answer("delete", node, Null)) /\ UNCHANGED tree

There == phase = "seek" /\ at = node /\ at # Null

\* A node with one kid at most: the kid takes its place.
OnlyKid(t, x) == IF t.kid["left"][x] = Null THEN t.kid["right"][x] ELSE t.kid["left"][x]
TakeOut(t, x) ==
    LET kid == OnlyKid(t, x)
        q == t.parent[x]
    IN  Adopt(Replace(t, q, x, kid), kid, q)

\* Node y, in no place, takes the place and the color of node x.
TakePlace(t, x, y) ==
    LET l == t.kid["left"][x]
        r == t.kid["right"][x]
        in == [Replace(t, t.parent[x], x, y) EXCEPT
                  !.kid["left"][y] = l, !.kid["right"][y] = r, !.parent[y] = t.parent[x]]
    IN  CopyColor(Adopt(Adopt(in, l, y), r, y), x, y)

\* The fields of an unlinked node are not read again.
Forget(t, x) == [Blacken(t, x) EXCEPT !.kid["left"][x] = Null, !.kid["right"][x] = Null, !.parent[x] = Null]

\* A mutant: the color is not looked at.
LosesAnyway(x) == TRUE

\* color==RBTREE_RED: nothing is missing.
LosesBlack(x) == x \notin tree.red

\* Without its node the tree is t; it has lost the place of x below q at side s.
Unlink(t, q, s, x) ==
    /\ tree' = Forget(t, node)
    /\ IF LosesBlack(x)
       THEN /\ phase' = "delete"
            /\ n' = q /\ side' = s
            /\ node' = Null /\ at' = Null /\ UNCHANGED <<p, pp>>
            /\ answer' = Answer("delete", node, node)
       ELSE Return(Answer("delete", node, node))

\* At most one kid.
UnlinkOuter ==
    /\ There
    /\ Null \in {tree.kid["left"][node], tree.kid["right"][node]}
    /\ LET q == tree.parent[node]
           t == TakeOut(tree, node)
       IN  IF q = Null
           THEN tree' = Forget(Blacken(t, t.root), node) /\ Return(Answer("delete", node, node))
           ELSE Unlink(t, q, SideOf(tree, q, node), node)

\* Two kids: the next node is looked for,
TwoKids ==
    /\ There
    /\ Null \notin {tree.kid["left"][node], tree.kid["right"][node]}
    /\ phase' = "after"
    /\ at' = tree.kid["right"][node]
    /\ UNCHANGED <<tree, node, p, pp, n, side, answer>>

After == phase = "after" /\ tree.kid["left"][at] # Null /\ WalkTo(tree.kid["left"][at])

\* its kid takes its place, and it that of node.
UnlinkInner ==
    /\ phase = "after" /\ tree.kid["left"][at] = Null
    /\ LET direct == at = tree.kid["right"][node]
       IN  Unlink(TakePlace(TakeOut(tree, at), node, at),
                  IF direct THEN at ELSE tree.parent[at], IF direct THEN "right" ELSE "left", at)

IsRed(x) == x # Null /\ x \in tree.red
Sibling == tree.kid[Other(side)][n]
Nephew(d) == IF Sibling = Null THEN Null ELSE tree.kid[d][Sibling]
Outer == Nephew(Other(side))
Inner == Nephew(side)

\* A red kid where the black is missing: it gets black.
DeleteBlacken ==
    /\ phase = "delete"
    /\ IsRed(tree.kid[side][n])
    /\ Settle(Blacken(tree, tree.kid[side][n]))

Deficient == phase = "delete" /\ ~IsRed(tree.kid[side][n])

\* A red sibling: it goes up.
DeleteRedSibling ==
    /\ Deficient
    /\ IsRed(Sibling)
    /\ tree' = Rotate(Redden(Blacken(tree, Sibling), n), side, n)
    /\ UNCHANGED <<phase, node, at, p, pp, n, side, answer>>

\* The outer nephew is red: the sibling goes up and its black makes up for the one that is missing.
DeleteOuter ==
    /\ Deficient
    /\ ~IsRed(Sibling)
    /\ IsRed(Outer)
    /\ Settle(Rotate(Blacken(Blacken(CopyColor(tree, n, Sibling), n), Outer), side, n))

\* Only the inner nephew is red: it becomes the sibling.
DeleteInner ==
    /\ Deficient
    /\ ~IsRed(Sibling)
    /\ ~IsRed(Outer) /\ IsRed(Inner)
    /\ tree' = Rotate(Redden(Blacken(tree, Inner), Sibling), Other(side), Sibling)
    /\ UNCHANGED <<phase, node, at, p, pp, n, side, answer>>

\* A mutant: the side stays what it was.
SideStays(q) == side

\* if(n->RBTREE_RIGHT==p) if_left=0; (and the other way round)
SideAbove(q) == IF tree.kid[Other(side)][q] = n THEN Other(side) ELSE side

\* A mutant: the loop stays where it is.
StaysAt(q) == n

\* p=n; n=n->RBTREE_PARENT;
Above(q) == q

\* No red there: the sibling gets red and the black is missing one level higher.
DeleteUp ==
    /\ Deficient
    /\ ~IsRed(Sibling)
    /\ ~IsRed(Outer) /\ ~IsRed(Inner)
    /\ LET t == Redden(tree, Sibling)
           q == tree.parent[n]
       IN  IF q = Null
           THEN Settle(t)
           ELSE /\ tree' = t
                /\ n' = Above(q) /\ side' = SideAbove(q)
                /\ UNCHANGED <<phase, node, at, p, pp, answer>>

------------------------------------------------------------------------------
(* RBTREE_NEXT (side "right") and RBTREE_PREV (side "left")                *)

StepTo(x) ==
    /\ phase = "rest"
    /\ x \in Elems
    /\ \E s \in Sides :
          /\ side' = s
          /\ IF tree.kid[s][x] # Null THEN WalkFrom("down", x, tree.kid[s][x]) ELSE WalkFrom("up", x, x)

\* The outermost node below, on the other side.
Down ==
    /\ phase = "down"
    /\ LET k == tree.kid[Other(side)][at]
       IN  IF k # Null THEN WalkTo(k) ELSE Return(Answer(side, node, at)) /\ UNCHANGED tree

\* A mutant: the way up does not go on.
TurnsAtOnce(q) == TRUE

\* while(n&&n->RBTREE_RIGHT==node): the first node above that is not left behind.
Turns(q) == q = Null \/ tree.kid[side][q] # at

Up ==
    /\ phase = "up"
    /\ LET q == tree.parent[at]
       IN  IF Turns(q) THEN Return(Answer(side, node, q)) /\ UNCHANGED tree ELSE WalkTo(q)

Walk == Descend \/ InsertThere \/ Seek \/ Found \/ NotThere \/ TwoKids \/ After \/ Down \/ Up
Fix == InsertUp \/ InsertRotate \/ DeleteBlacken \/ DeleteRedSibling \/ DeleteOuter \/ DeleteInner \/ DeleteUp

\* The turns of a call that has begun.
Proceed == Walk \/ UnlinkOuter \/ UnlinkInner \/ Fix

Next == Proceed \/ \E x \in Nodes : Insert(x) \/ Delete(x) \/ Find(x) \/ StepTo(x)

Spec == Init /\ [][Next]_vars

\* A call runs to its end.
FairSpec == Spec /\ WF_vars(Proceed)

------------------------------------------------------------------------------
(* Properties                                                              *)

TypeOK ==
    /\ tree \in Tree
    /\ phase \in {"rest", "descend", "seek", "find", "after", "down", "up", "insert", "delete"}
    /\ node \in Pointer /\ at \in Pointer
    /\ p \in Pointer /\ pp \in Pointer
    /\ n \in Pointer /\ side \in Sides
    /\ answer.value \in Pointer

\* The pairs of a node and one in its subtree, itself included: one that is in
\* every set that holds the node and, with a node, its kids.
Reach ==
    LET closed == {S \in SUBSET Elems : \A z \in S, d \in Sides : tree.kid[d][z] \in S \union {Null}}
    IN  {xy \in Elems \X Elems : \A S \in closed : xy[1] \in S => xy[2] \in S}

\* At every turn of the loops the tree is a search tree whose parent pointers
\* are those of its kids: the zone trees are walked in both directions
\* (RBTREE_NEXT, RBTREE_PREV).
SearchTree(reach) ==
    /\ \A x \in Elems : <<tree.root, x>> \in reach
    /\ \A x, y \in Elems :
           /\ <<tree.kid["left"][x], y>> \in reach => y < x
           /\ <<tree.kid["right"][x], y>> \in reach => y > x
    /\ tree.root # Null => tree.parent[tree.root] = Null
    /\ \A x \in Elems, d \in Sides : tree.kid[d][x] # Null => tree.parent[tree.kid[d][x]] = x

\* How many black nodes the path has that ends below x at side d, one more if
\* it leads through the place where a delete misses one.
BlackNodes(reach, x, d) ==
    LET missing == phase = "delete" /\ (<<x, d>> = <<n, side>> \/ <<tree.kid[side][n], x>> \in reach)
    IN  Cardinality({y \in Elems \ tree.red : <<y, x>> \in reach}) + (IF missing THEN 1 ELSE 0)

\* All paths from the root down have the same number of black nodes.
Balanced(reach) ==
    LET ends == {z \in Elems \X Sides : tree.kid[z[2]][z[1]] = Null}
        lengths == {BlackNodes(reach, z[1], z[2]) : z \in ends}
    IN  \A i, j \in lengths : i = j

RedAbove(x) == x \in tree.red /\ tree.parent[x] \in tree.red

\* The tree is a search tree with right parent pointers through every turn of
\* the loops, all its paths have the same number of black nodes, and the root is
\* black.  No red node has a red parent, but for two cases: in the loop of an
\* insert the node itself; in the loop of a delete, which misses one black at
\* one place, the node there and its kids.
RedBlack ==
    /\ LET reach == Reach IN SearchTree(reach) /\ Balanced(reach)
    /\ tree.root \notin tree.red
    /\ \A x \in Elems : RedAbove(x) =>
           \/ phase = "insert" /\ x = node
           \/ phase = "delete" /\ tree.kid[side][n] \in {x, tree.parent[x]}

\* The tree implements the ordered set: a call takes effect when its
\* node is linked or unlinked, and the loops change nothing.
Set == INSTANCE OrderedSet WITH
           None <- Null,
           elems <- Elems
Refines == Set!Spec

\* Every call ends.
Ends == phase # "rest" ~> phase = "rest"
==============================================================================
