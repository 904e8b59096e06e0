----------------------------- MODULE RBTreeProofs -----------------------------
(***************************************************************************)
(* Proofs about the red-black trees, module RBTree.  A node lies between   *)
(* two bounds, one on each side, and every operation moves the bounds of   *)
(* few nodes; every node has a height in black nodes, and every turn of a  *)
(* loop changes that of few nodes.  Both are stated of values, so that a   *)
(* step can be followed through the trees it makes one after the other.    *)
(***************************************************************************)
EXTENDS RBTree, FiniteSetTheorems, TLAPS

------------------------------------------------------------------------------
(* Sides                                                                   *)

\* Node y is on side s of node x.
Ord(s, x, y) == IF s = "left" THEN y < x ELSE x < y

\* On side s, node y comes before the bound e, if there is one.
Short(s, y, e) == e = Null \/ Ord(s, y, e)

\* Node y is between the bounds of node x.
In(b, x, y) == \A d \in Sides : Short(d, y, b[d][x])

OrderLaws ==
  \A s \in Sides :
    /\ Other(s) \in Sides /\ Other(s) # s /\ Other(Other(s)) = s
    /\ \A d \in Sides : d = s \/ d = Other(s)
    /\ \A x, y \in Nodes : /\ Ord(Other(s), x, y) <=> Ord(s, y, x)
                           /\ x = y \/ Ord(s, x, y) \/ Ord(s, y, x)
                           /\ ~(Ord(s, x, y) /\ Ord(s, y, x))
                           /\ ~Ord(s, x, x)
    /\ \A x, y, z \in Nodes : Ord(s, x, y) /\ Ord(s, y, z) => Ord(s, x, z)

\* The laws of the order on each side, and of the sides themselves.
LEMMA Order == OrderLaws
<1>1. ASSUME NEW s \in Sides
      PROVE  /\ Other(s) \in Sides /\ Other(s) # s /\ Other(Other(s)) = s
             /\ \A d \in Sides : d = s \/ d = Other(s)
  BY DEF Sides, Other
<1>2. ASSUME NEW s \in Sides, NEW x \in Nodes, NEW y \in Nodes
      PROVE  /\ Ord(Other(s), x, y) <=> Ord(s, y, x)
             /\ x = y \/ Ord(s, x, y) \/ Ord(s, y, x)
             /\ ~(Ord(s, x, y) /\ Ord(s, y, x))
             /\ ~Ord(s, x, x)
  <2>1. x \in Nat /\ y \in Nat
    BY NodesAssumption
  <2>2. s = "left" \/ s = "right"
    BY DEF Sides
  <2>3. QED
    BY <2>1, <2>2 DEF Ord, Other
<1>3. ASSUME NEW s \in Sides, NEW x \in Nodes, NEW y \in Nodes, NEW z \in Nodes,
             Ord(s, x, y), Ord(s, y, z)
      PROVE  Ord(s, x, z)
  <2>1. x \in Nat /\ y \in Nat /\ z \in Nat
    BY NodesAssumption
  <2>2. QED
    BY <1>3, <2>1 DEF Ord
<1>4. QED
  BY <1>1, <1>2, <1>3 DEF OrderLaws

\* The order is transitive, cited alone.
LEMMA OrdTrans ==
  ASSUME NEW s \in Sides, NEW x \in Nodes, NEW y \in Nodes, NEW z \in Nodes, Ord(s, x, y), Ord(s, y, z)
  PROVE  Ord(s, x, z)
BY Order DEF OrderLaws

\* The null pointer is no node.
LEMMA NullNoNode == Null \notin Nodes
BY NodesAssumption

------------------------------------------------------------------------------
(* The invariant of the search tree                                        *)

\* The nodes of E hang together in tree t: parents and kids belong together.
Shape(t, E) ==
  /\ t \in Tree
  /\ E \subseteq Nodes
  /\ t.root \in E \union {Null}
  /\ t.root = Null => E = {}
  /\ t.root # Null => t.parent[t.root] = Null
  /\ \A x \in E : x # t.root => t.parent[x] \in E /\ \E d \in Sides : t.kid[d][t.parent[x]] = x
  /\ \A x \in E, d \in Sides : t.kid[d][x] # Null => t.kid[d][x] \in E /\ t.parent[t.kid[d][x]] = x

\* The others have no fields.
Clean(t, E) == \A x \in Nodes \ E : t.parent[x] = Null /\ x \notin t.red /\ \A d \in Sides : t.kid[d][x] = Null

\* The bounds b fit the nodes of E: they are nodes, or none at the root;
BoundsRight(E, b) ==
  /\ b \in [Sides -> [Nodes -> Pointer]]
  /\ \A x \in E, d \in Sides : b[d][x] \in E \union {Null} /\ Short(d, x, b[d][x])

\* a kid has the bounds of its parent, but for the parent itself;
Inherited(t, E, b) ==
  /\ t.root # Null => \A d \in Sides : b[d][t.root] = Null
  /\ \A x \in E, d \in Sides :
        t.kid[d][x] # Null => b[d][t.kid[d][x]] = b[d][x] /\ b[Other(d)][t.kid[d][x]] = x

\* where there is no kid there is no node up to the bound;
NoneBetween(t, E, b) ==
  \A x, y \in E, d \in Sides : t.kid[d][x] = Null => ~(Ord(d, x, y) /\ Short(d, y, b[d][x]))

\* a node is between the bounds of its bounds, and no two are between each
\* other's.
Nested(E, b) ==
  /\ \A x \in E, d \in Sides : b[d][x] # Null => In(b, b[d][x], x)
  /\ \A x, y \in E : In(b, x, y) /\ In(b, y, x) => x = y

Fits(t, E, b) == BoundsRight(E, b) /\ Inherited(t, E, b) /\ NoneBetween(t, E, b) /\ Nested(E, b)

\* What is between the bounds of a node that is between those of another is
\* between those, too.
LEMMA InTrans ==
  ASSUME NEW E, E \subseteq Nodes, NEW b, BoundsRight(E, b), Nested(E, b),
         NEW x \in E, NEW y \in E, NEW z \in Nodes, In(b, x, y), In(b, y, z)
  PROVE  In(b, x, z)
<1> SUFFICES ASSUME NEW d \in Sides, ~Short(d, z, b[d][x]) PROVE FALSE
  BY DEF In
<1> DEFINE c == b[d][x]
<1>1. c \in E /\ c # Null /\ x \in Nodes /\ y \in Nodes /\ c \in Nodes
  BY DEF BoundsRight, Short
<1>2. Ord(d, x, c) /\ Ord(d, y, c)
  BY <1>1 DEF BoundsRight, Short, In
<1>3. z = c \/ Ord(d, c, z)
  BY <1>1, Order DEF OrderLaws, Short
<1>4. Short(d, z, b[d][y]) /\ b[d][y] \in E \union {Null}
  BY DEF In, BoundsRight
<1>5. Short(d, c, b[d][y])
  BY <1>1, <1>3, <1>4, Order DEF Short, OrderLaws
<1>6. Short(Other(d), c, b[Other(d)][y])
  <2>1. Short(Other(d), y, b[Other(d)][y]) /\ b[Other(d)][y] \in E \union {Null}
    BY Order DEF BoundsRight, OrderLaws
  <2>2. Ord(Other(d), c, y)
    BY <1>1, <1>2, Order DEF OrderLaws
  <2>3. QED
    BY <1>1, <2>1, <2>2, Order DEF Short, OrderLaws
<1>7. In(b, y, c)
  BY <1>5, <1>6, Order DEF In, OrderLaws
<1>8. In(b, c, x)
  BY <1>1 DEF Nested
<1>9. CASE x = y \/ Ord(d, x, y)
  <2>1. Short(Other(d), y, b[Other(d)][c])
    <3>1. Short(Other(d), x, b[Other(d)][c]) /\ b[Other(d)][c] \in E \union {Null}
      BY <1>1, <1>8, Order DEF In, OrderLaws, BoundsRight
    <3>2. QED
      BY <1>1, <1>9, <3>1, Order DEF Short, OrderLaws
  <2>2. Short(d, y, b[d][c])
    <3>1. Short(d, c, b[d][c]) /\ b[d][c] \in E \union {Null}
      BY <1>1 DEF BoundsRight
    <3>2. QED
      BY <1>1, <1>2, <3>1, Order DEF Short, OrderLaws
  <2>3. In(b, c, y)
    BY <2>1, <2>2, Order DEF In, OrderLaws
  <2>4. c = y
    BY <1>1, <1>7, <2>3 DEF Nested
  <2>5. QED
    BY <1>1, <1>2, <2>4, Order DEF OrderLaws
<1>10. CASE Ord(d, y, x)
  <2>1. Short(d, x, b[d][y])
    BY <1>1, <1>2, <1>4, <1>5, Order DEF Short, OrderLaws
  <2>2. Short(Other(d), x, b[Other(d)][y])
    <3>1. Short(Other(d), y, b[Other(d)][y]) /\ b[Other(d)][y] \in E \union {Null}
      BY Order DEF BoundsRight, OrderLaws
    <3>2. QED
      BY <1>1, <1>10, <3>1, Order DEF Short, OrderLaws
  <2>3. In(b, y, x)
    BY <2>1, <2>2, Order DEF In, OrderLaws
  <2>4. QED
    BY <1>1, <1>10, <2>3, Order DEF Nested, OrderLaws
<1>11. QED
  BY <1>1, <1>9, <1>10, Order DEF OrderLaws

------------------------------------------------------------------------------
(* A new leaf                                                              *)

\* Tree u is t with node x as a leaf below q at side d.
Leafed(t, u, x, q, d) ==
  /\ u.root = t.root
  /\ \A y \in Nodes : u.parent[y] = IF y = x THEN q ELSE t.parent[y]
  /\ \A e \in Sides, y \in Nodes :
        u.kid[e][y] = IF y = x THEN Null ELSE IF y = q /\ e = d THEN x ELSE t.kid[e][y]

\* Its bounds: its parent, and the parent's bound.
LeafBounds(b, x, q, d) ==
  [e \in Sides |-> [y \in Nodes |-> IF y # x THEN b[e][y] ELSE IF e = d THEN b[d][q] ELSE q]]

\* The place of the leaf.
FreePlace(t, E, b, x, q, d) ==
  /\ E \subseteq Nodes /\ x \in Nodes \ E /\ q \in E /\ d \in Sides
  /\ t.kid[d][q] = Null /\ Ord(d, q, x) /\ In(b, q, x)

\* A leaf hung at a free place: parents and kids still belong together.
LEMMA LeafShape ==
  ASSUME NEW t, NEW E, Shape(t, E), NEW x \in Nodes \ E, NEW q \in E, NEW d \in Sides,
         t.kid[d][q] = Null, NEW u \in Tree, Leafed(t, u, x, q, d)
  PROVE  Shape(u, E \union {x})
<1> DEFINE F == E \union {x}
<1>1. E \subseteq Nodes /\ F \subseteq Nodes /\ x # Null /\ q # x /\ q \in Nodes
  BY NullNoNode DEF Shape
<1>2. u.root = t.root /\ u.root \in F /\ u.root # Null /\ u.root # x /\ u.root \in E
  BY DEF Shape, Leafed
<1>3. u.parent[u.root] = Null
  BY <1>1, <1>2 DEF Shape, Leafed
<1>4. ASSUME NEW y \in F, y # u.root
      PROVE  u.parent[y] \in F /\ \E e \in Sides : u.kid[e][u.parent[y]] = y
  <2>1. CASE y = x
    BY <1>1, <2>1 DEF Leafed
  <2>2. CASE y # x
    <3>1. y \in E /\ t.parent[y] \in E /\ u.parent[y] = t.parent[y]
      BY <1>1, <1>2, <1>4, <2>2 DEF Shape, Leafed
    <3>2. PICK e \in Sides : t.kid[e][t.parent[y]] = y
      BY <1>2, <1>4, <3>1 DEF Shape
    <3>3. u.kid[e][t.parent[y]] = y
      BY <1>1, <3>1, <3>2, NullNoNode DEF Leafed
    <3>4. QED
      BY <3>1, <3>3
  <2>3. QED
    BY <2>1, <2>2
<1>5. ASSUME NEW y \in F, NEW e \in Sides, u.kid[e][y] # Null
      PROVE  u.kid[e][y] \in F /\ u.parent[u.kid[e][y]] = y
  <2>1. CASE y = q /\ e = d
    BY <1>1, <2>1 DEF Leafed
  <2>2. CASE ~(y = q /\ e = d)
    <3>1. y \in E /\ u.kid[e][y] = t.kid[e][y] /\ t.kid[e][y] # Null
      BY <1>1, <1>5, <2>2 DEF Leafed
    <3>2. t.kid[e][y] \in E /\ t.parent[t.kid[e][y]] = y
      BY <3>1 DEF Shape
    <3>3. QED
      BY <1>1, <3>1, <3>2 DEF Leafed
  <2>3. QED
    BY <2>1, <2>2
<1>6. QED
  BY <1>1, <1>2, <1>3, <1>4, <1>5 DEF Shape

\* No other place where a kid is missing has the new node in its range.
LEMMA OnePlace ==
  ASSUME NEW t, NEW E, NEW b, BoundsRight(E, b), NoneBetween(t, E, b), Nested(E, b),
         NEW x, NEW q, NEW d, FreePlace(t, E, b, x, q, d),
         NEW z \in E, NEW e \in Sides, t.kid[e][z] = Null, Ord(e, z, x), Short(e, x, b[e][z])
  PROVE  z = q /\ e = d
<1>1. /\ x \in Nodes /\ q \in Nodes /\ z \in Nodes /\ d \in Sides /\ q \in E /\ x \notin E
      /\ t.kid[d][q] = Null /\ Ord(d, q, x) /\ In(b, q, x) /\ E \subseteq Nodes
  BY DEF FreePlace
<1>2. Short(d, x, b[d][q]) /\ b[d][q] \in E \union {Null} /\ b[e][z] \in E \union {Null}
  BY <1>1 DEF In, BoundsRight
<1>3. CASE e = d
  <2>1. ~Ord(d, q, z)
    <3>1. SUFFICES ASSUME Ord(d, q, z) PROVE FALSE
      OBVIOUS
    <3>2. Short(d, z, b[d][q])
      BY <1>1, <1>2, <1>3, Order DEF Short, OrderLaws
    <3>3. QED
      BY <1>1, <3>1, <3>2 DEF NoneBetween
  <2>2. ~Ord(d, z, q)
    <3>1. SUFFICES ASSUME Ord(d, z, q) PROVE FALSE
      OBVIOUS
    <3>2. Short(d, q, b[d][z])
      BY <1>1, <1>2, <1>3, Order, SMTT(30) DEF Short, OrderLaws
    <3>3. QED
      BY <1>1, <1>3, <3>1, <3>2 DEF NoneBetween
  <2>3. QED
    BY <1>1, <1>3, <2>1, <2>2, Order DEF OrderLaws
<1>4. CASE e # d
  <2>1. e = Other(d) /\ d = Other(e)
    BY <1>1, <1>4, Order DEF OrderLaws
  <2>2. Ord(d, x, z) /\ Ord(d, q, z)
    BY <1>1, <2>1, Order DEF OrderLaws
  <2>3. b[d][q] # Null /\ b[d][q] \in E /\ b[d][q] \in Nodes /\ ~Ord(d, z, b[d][q])
    BY <1>1, <1>2, <2>2 DEF NoneBetween, Short
  <2>4. b[e][z] # Null /\ b[e][z] \in E /\ b[e][z] \in Nodes /\ ~Ord(e, q, b[e][z])
    <3>1. Ord(e, z, q)
      BY <1>1, <2>1, <2>2, Order DEF OrderLaws
    <3>2. QED
      BY <1>1, <1>2, <3>1 DEF NoneBetween, Short
  <2>5. Ord(e, x, b[e][z]) /\ Ord(d, b[e][z], x) /\ Ord(d, x, b[d][q])
    BY <1>1, <1>2, <2>1, <2>3, <2>4, Order DEF Short, OrderLaws
  <2>6. b[e][z] = q
    <3>1. SUFFICES ASSUME b[e][z] # q PROVE FALSE
      OBVIOUS
    <3>2. Ord(d, q, b[e][z])
      BY <1>1, <2>1, <2>4, <3>1, Order DEF OrderLaws
    <3>3. Ord(d, b[e][z], b[d][q])
      BY <1>1, <2>3, <2>4, <2>5, OrdTrans
    <3>4. QED
      BY <1>1, <2>3, <2>4, <3>2, <3>3 DEF NoneBetween, Short
  <2>7. b[d][q] = z
    <3>1. SUFFICES ASSUME b[d][q] # z PROVE FALSE
      OBVIOUS
    <3>2. Ord(e, z, b[d][q])
      BY <1>1, <2>1, <2>3, <3>1, Order DEF OrderLaws
    <3>3. Ord(e, b[d][q], b[e][z])
      BY <1>1, <2>1, <2>3, <2>4, <2>5, Order DEF OrderLaws
    <3>4. QED
      BY <1>1, <2>3, <2>4, <3>2, <3>3 DEF NoneBetween, Short
  <2>8. In(b, q, z)
    BY <2>4, <2>6 DEF Nested
  <2>9. QED
    BY <1>1, <2>3, <2>7, <2>8, Order DEF In, Short, OrderLaws
<1>5. QED
  BY <1>3, <1>4

\* The new leaf gets its bounds from its parent; no other node's bounds change.
LEMMA LeafFits ==
  ASSUME NEW t, NEW E, NEW b, Shape(t, E), Fits(t, E, b),
         NEW x, NEW q, NEW d, FreePlace(t, E, b, x, q, d),
         NEW u, Leafed(t, u, x, q, d)
  PROVE  Fits(u, E \union {x}, LeafBounds(b, x, q, d))
<1> DEFINE F == E \union {x}
           c == LeafBounds(b, x, q, d)
<1>1. /\ x \in Nodes /\ q \in Nodes /\ d \in Sides /\ q \in E /\ x \notin E /\ x # q
      /\ t.kid[d][q] = Null /\ Ord(d, q, x) /\ In(b, q, x) /\ E \subseteq Nodes /\ F \subseteq Nodes
      /\ Other(d) \in Sides
  BY Order DEF FreePlace, OrderLaws
<1>2. BoundsRight(E, b) /\ Inherited(t, E, b) /\ NoneBetween(t, E, b) /\ Nested(E, b)
  BY DEF Fits
<1>3. /\ \A e \in Sides, y \in E : c[e][y] = b[e][y]
      /\ c[d][x] = b[d][q] /\ c[Other(d)][x] = q
      /\ c \in [Sides -> [Nodes -> Pointer]]
  <2>1. b \in [Sides -> [Nodes -> Pointer]] /\ b[d][q] \in Pointer /\ q \in Pointer
    BY <1>1, <1>2 DEF BoundsRight, Pointer
  <2>2. c \in [Sides -> [Nodes -> Pointer]]
    BY <1>1, <2>1 DEF LeafBounds
  <2>3. QED
    BY <1>1, <2>2, Order DEF LeafBounds, OrderLaws
<1> HIDE DEF c
<1>4. ASSUME NEW y \in E, NEW z \in Nodes
      PROVE  In(c, y, z) <=> In(b, y, z)
  BY <1>3 DEF In
<1>5. ASSUME NEW z \in Nodes, In(c, x, z)
      PROVE  Short(d, z, b[d][q]) /\ Ord(d, q, z)
  <2>1. Short(d, z, b[d][q]) /\ Short(Other(d), z, q)
    BY <1>1, <1>3, <1>5 DEF In
  <2>2. QED
    BY <1>1, <2>1, NullNoNode, Order DEF Short, OrderLaws
<1>6. BoundsRight(F, c)
  <2>1. ASSUME NEW y \in F, NEW e \in Sides
        PROVE  c[e][y] \in F \union {Null} /\ Short(e, y, c[e][y])
    <3>1. CASE y \in E
      BY <1>2, <1>3, <3>1 DEF BoundsRight
    <3>2. CASE y = x /\ e = d
      BY <1>1, <1>2, <1>3, <3>2 DEF BoundsRight, In
    <3>3. CASE y = x /\ e = Other(d)
      BY <1>1, <1>3, <3>3, Order DEF Short, OrderLaws
    <3>4. QED
      BY <1>1, <2>1, <3>1, <3>2, <3>3, Order DEF OrderLaws
  <2>2. QED
    BY <1>3, <2>1 DEF BoundsRight
<1>7. Inherited(u, F, c)
  <2>1. u.root # Null => \A e \in Sides : c[e][u.root] = Null
    BY <1>2, <1>3 DEF Inherited, Leafed, Shape
  <2>2. ASSUME NEW y \in F, NEW e \in Sides, u.kid[e][y] # Null
        PROVE  c[e][u.kid[e][y]] = c[e][y] /\ c[Other(e)][u.kid[e][y]] = y
    <3>1. CASE y = q /\ e = d
      BY <1>1, <1>3, <3>1 DEF Leafed
    <3>2. CASE ~(y = q /\ e = d)
      <4>1. y \in E /\ u.kid[e][y] = t.kid[e][y] /\ t.kid[e][y] # Null /\ t.kid[e][y] \in E
        BY <1>1, <2>2, <3>2 DEF Leafed, Shape
      <4>2. b[e][t.kid[e][y]] = b[e][y] /\ b[Other(e)][t.kid[e][y]] = y
        BY <1>2, <4>1 DEF Inherited
      <4>3. QED
        BY <1>3, <4>1, <4>2, Order DEF OrderLaws
    <3>3. QED
      BY <3>1, <3>2
  <2>3. QED
    BY <2>1, <2>2 DEF Inherited
<1>8. NoneBetween(u, F, c)
  <2>1. SUFFICES ASSUME NEW z \in F, NEW y \in F, NEW e \in Sides,
                        u.kid[e][z] = Null, Ord(e, z, y), Short(e, y, c[e][z])
                 PROVE  FALSE
    BY DEF NoneBetween
  <2>2. CASE z = x
    <3>1. y \in E
      BY <1>1, <2>1, <2>2, Order DEF OrderLaws
    <3>2. CASE e = d
      <4>1. Ord(d, q, y) /\ Short(d, y, b[d][q])
        BY <1>1, <1>3, <2>1, <2>2, <3>1, <3>2, Order DEF OrderLaws
      <4>2. QED
        BY <1>1, <1>2, <3>1, <4>1 DEF NoneBetween
    <3>3. CASE e = Other(d)
      <4>1. Ord(Other(d), x, y) /\ Ord(Other(d), y, q)
        BY <1>1, <1>3, <2>1, <2>2, <3>3, NullNoNode DEF Short
      <4>2. Ord(d, y, x) /\ Ord(d, q, y)
        BY <1>1, <3>1, <4>1, Order DEF OrderLaws
      <4>3. Short(d, y, b[d][q])
        BY <1>1, <1>2, <3>1, <4>2, Order DEF Short, In, BoundsRight, OrderLaws
      <4>4. QED
        BY <1>1, <1>2, <3>1, <4>2, <4>3 DEF NoneBetween
    <3>4. QED
      BY <1>1, <3>2, <3>3, Order DEF OrderLaws
  <2>3. CASE z \in E /\ ~(z = q /\ e = d)
    <3>1. t.kid[e][z] = Null /\ c[e][z] = b[e][z]
      BY <1>1, <1>3, <2>1, <2>3 DEF Leafed
    <3>2. CASE y = x
      BY <1>2, <2>1, <2>3, <3>1, <3>2, OnePlace
    <3>3. CASE y \in E
      BY <1>2, <2>1, <2>3, <3>1, <3>3 DEF NoneBetween
    <3>4. QED
      BY <3>2, <3>3
  <2>4. CASE z = q /\ e = d
    BY <1>1, <2>1, <2>4, NullNoNode DEF Leafed
  <2>5. QED
    BY <2>2, <2>3, <2>4
<1>9. Nested(F, c)
  <2>1. ASSUME NEW y \in F, NEW e \in Sides, c[e][y] # Null
        PROVE  In(c, c[e][y], y)
    <3>1. CASE y \in E
      <4>1. b[e][y] \in E /\ In(b, b[e][y], y) /\ c[e][y] = b[e][y]
        BY <1>2, <1>3, <2>1, <3>1 DEF BoundsRight, Nested
      <4>2. QED
        BY <1>1, <1>4, <3>1, <4>1
    <3>2. CASE y = x /\ e = d
      <4>1. b[d][q] \in E /\ In(b, b[d][q], q) /\ c[e][y] = b[d][q]
        BY <1>1, <1>2, <1>3, <2>1, <3>2 DEF BoundsRight, Nested
      <4>2. In(b, b[d][q], x)
        BY <1>1, <1>2, <4>1, InTrans
      <4>3. QED
        BY <1>1, <1>4, <3>2, <4>1, <4>2
    <3>3. CASE y = x /\ e = Other(d)
      BY <1>1, <1>3, <1>4, <3>3
    <3>4. QED
      BY <1>1, <2>1, <3>1, <3>2, <3>3, Order DEF OrderLaws
  <2>2. ASSUME NEW y \in E, In(c, x, y)
        PROVE  FALSE
    BY <1>1, <1>2, <1>5, <2>2 DEF NoneBetween
  <2>3. ASSUME NEW y \in F, NEW z \in F, In(c, y, z), In(c, z, y)
        PROVE  y = z
    <3>1. CASE y \in E /\ z \in E
      BY <1>1, <1>2, <1>4, <2>3, <3>1 DEF Nested
    <3>2. CASE y = x /\ z # x
      BY <2>2, <2>3, <3>2
    <3>3. CASE z = x /\ y # x
      BY <2>2, <2>3, <3>3
    <3>4. QED
      BY <3>1, <3>2, <3>3
  <2>4. QED
    BY <2>1, <2>3 DEF Nested
<1>10. QED
  BY <1>6, <1>7, <1>8, <1>9 DEF Fits, c

------------------------------------------------------------------------------
(* A rotation                                                              *)

\* Tree u is t with node x gone down to side s, and its kid r on the other
\* side in its place.
Rotated(t, u, s, x, r) ==
  /\ u.root = IF t.parent[x] = Null THEN r ELSE t.root
  /\ \A y \in Nodes :
        u.parent[y] = IF y = r THEN t.parent[x] ELSE IF y = x THEN r
                      ELSE IF y = t.kid[s][r] THEN x ELSE t.parent[y]
  /\ \A d \in Sides, y \in Nodes :
        u.kid[d][y] = IF y = x THEN IF d = s THEN t.kid[s][x] ELSE t.kid[s][r]
                      ELSE IF y = r THEN IF d = s THEN x ELSE t.kid[d][r]
                      ELSE IF t.kid[d][y] = x THEN r
                      ELSE t.kid[d][y]

TurnedBounds(b, s, x, r) ==
  [d \in Sides |-> [y \in Nodes |-> IF y = x /\ d = Other(s) THEN r
                                    ELSE IF y = r /\ d = s THEN b[s][x]
                                    ELSE b[d][y]]]

\* A rotation leaves parents and kids belonging together.
LEMMA RotateShape ==
  ASSUME NEW t, NEW E, Shape(t, E), NEW s \in Sides, NEW x \in E, NEW r \in E, r = t.kid[Other(s)][x],
         NEW u \in Tree, Rotated(t, u, s, x, r), NEW b, Fits(t, E, b)
  PROVE  Shape(u, E)
<1> DEFINE o == Other(s)
           q == t.parent[x]
           m == t.kid[s][r]
<1>1. /\ E \subseteq Nodes /\ x \in Nodes /\ r \in Nodes /\ o \in Sides /\ o # s /\ x # Null /\ r # Null
      /\ \A d \in Sides : d = s \/ d = o
  BY NullNoNode, Order DEF Shape, OrderLaws
<1>2. t.parent[r] = x /\ x # r
  <2>1. t.parent[r] = x /\ Ord(o, x, r)
    <3>1. t.parent[r] = x
      BY <1>1 DEF Shape
    <3>2. b[s][r] = x /\ Short(s, r, x)
      BY <1>1, Order DEF Fits, Inherited, BoundsRight, OrderLaws
    <3>3. QED
      BY <1>1, <3>1, <3>2, Order DEF Short, OrderLaws
  <2>2. QED
    BY <1>1, <2>1, Order DEF OrderLaws
<1>3. m # Null => m \in E /\ t.parent[m] = r /\ m # r /\ m # x
  <2>1. SUFFICES ASSUME m # Null PROVE m \in E /\ t.parent[m] = r /\ m # r /\ m # x
    OBVIOUS
  <2>2. m \in E /\ t.parent[m] = r
    BY <2>1, SMTT(30) DEF Shape
  <2>3. b[o][m] = r /\ b[s][m] = x
    BY <1>1, <2>1, Order, SMTT(30) DEF Fits, Inherited, OrderLaws
  <2>4. Short(o, m, r) /\ Short(s, m, x)
    BY <1>1, <2>2, <2>3 DEF Fits, BoundsRight
  <2>5. QED
    BY <1>1, <2>2, <2>4, Order, SMTT(30) DEF Short, OrderLaws
<1>4. /\ q = Null => x = t.root
      /\ q # Null => q \in E /\ x # t.root /\ q # x /\ q # r
  <2>1. q = Null => x = t.root
    BY NullNoNode, <1>1 DEF Shape
  <2>2. q # Null => q \in E /\ x # t.root
    BY <1>1 DEF Shape
  <2>3. q # Null => q # x /\ q # r
    <3>1. SUFFICES ASSUME q # Null PROVE q # x /\ q # r
      OBVIOUS
    <3>2. PICK d \in Sides : t.kid[d][q] = x
      BY <2>2, <3>1 DEF Shape
    <3>3. b[d][x] = b[d][q] /\ b[Other(d)][x] = q
      BY <1>1, <2>2, <3>1, <3>2 DEF Fits, Inherited
    <3>4. Short(Other(d), x, q) /\ Other(d) \in Sides
      BY <1>1, <3>3, Order DEF Fits, BoundsRight, OrderLaws
    <3>5. q # x
      BY <1>1, <2>2, <3>1, <3>4, Order DEF Short, OrderLaws
    <3>6. q # r
      <4>1. SUFFICES ASSUME q = r PROVE FALSE
        OBVIOUS
      <4>2. In(b, q, x)
        BY <2>2, <1>1, <3>1, <3>3, Order DEF Fits, Nested, OrderLaws
      <4>3. b[s][r] = x
        BY <1>1, Order DEF Fits, Inherited, OrderLaws
      <4>4. In(b, x, r)
        BY <1>1, <4>3 DEF Fits, Nested
      <4>5. QED
        BY <1>1, <1>2, <4>1, <4>2, <4>4 DEF Fits, Nested
    <3>7. QED
      BY <3>5, <3>6
  <2>4. QED
    BY <2>1, <2>2, <2>3
<1>5. u.root \in E \union {Null} /\ (u.root = Null => E = {})
  BY <1>1 DEF Rotated, Shape
<1>6. u.root # Null => u.parent[u.root] = Null
  <2>1. CASE q = Null
    BY <1>1, <2>1 DEF Rotated
  <2>2. CASE q # Null
    <3>1. t.root \in E /\ u.root = t.root /\ t.parent[t.root] = Null /\ t.root # x /\ t.root # r
      BY <1>1, <1>2, <1>4, <2>2 DEF Rotated, Shape
    <3>2. t.root # m
      BY NullNoNode, <1>1, <1>3, <3>1
    <3>3. QED
      BY <1>1, <3>1, <3>2 DEF Rotated
  <2>3. QED
    BY <2>1, <2>2
<1>7. ASSUME NEW y \in E, y # u.root
      PROVE  u.parent[y] \in E /\ \E d \in Sides : u.kid[d][u.parent[y]] = y
  <2>1. CASE y = r
    <3>1. q # Null /\ q \in E /\ x # t.root /\ q # x /\ q # r
      BY <1>4, <1>7, <2>1 DEF Rotated
    <3>2. PICK d \in Sides : t.kid[d][q] = x
      BY <3>1 DEF Shape
    <3>3. u.parent[y] = q /\ u.kid[d][q] = r
      BY <1>1, <2>1, <3>1, <3>2 DEF Rotated
    <3>4. QED
      BY <2>1, <3>1, <3>3
  <2>2. CASE y = x
    <3>1. u.parent[y] = r /\ u.kid[s][r] = x
      BY <1>1, <1>2, <2>2 DEF Rotated
    <3>2. QED
      BY <2>2, <3>1
  <2>3. CASE y = m /\ y # x /\ y # r
    <3>1. u.parent[y] = x /\ u.kid[o][x] = m
      BY <1>1, <2>3 DEF Rotated
    <3>2. QED
      BY <1>1, <2>3, <3>1
  <2>4. CASE y # x /\ y # r /\ y # m
    <3>1. u.parent[y] = t.parent[y] /\ y # t.root
      BY <1>1, <1>4, <1>7, <2>4 DEF Rotated
    <3>2. PICK d \in Sides : t.parent[y] \in E /\ t.kid[d][t.parent[y]] = y
      BY <3>1 DEF Shape
    <3>3. CASE t.parent[y] # x /\ t.parent[y] # r
      <4>1. u.kid[d][t.parent[y]] = y
        BY <1>1, <2>4, <3>2, <3>3 DEF Rotated
      <4>2. QED
        BY <3>1, <3>2, <4>1
    <3>4. CASE t.parent[y] = x
      <4>1. d = s
        BY <1>1, <2>4, <3>2, <3>4
      <4>2. u.kid[s][x] = y
        BY <1>1, <3>2, <3>4, <4>1 DEF Rotated
      <4>3. QED
        BY <3>1, <3>4, <4>2
    <3>5. CASE t.parent[y] = r
      <4>1. d = o
        BY <1>1, <2>4, <3>2, <3>5
      <4>2. u.kid[o][r] = y
        BY <1>1, <1>2, <3>2, <3>5, <4>1 DEF Rotated
      <4>3. QED
        BY <1>1, <3>1, <3>5, <4>2
    <3>6. QED
      BY <3>3, <3>4, <3>5
  <2>5. QED
    BY <2>1, <2>2, <2>3, <2>4
<1>8. ASSUME NEW y \in E, NEW d \in Sides, u.kid[d][y] # Null
      PROVE  u.kid[d][y] \in E /\ u.parent[u.kid[d][y]] = y
  <2>1. CASE y = x /\ d = s
    <3>1. u.kid[d][y] = t.kid[s][x] /\ t.kid[s][x] \in E /\ t.parent[t.kid[s][x]] = x
      BY <1>1, <1>8, <2>1 DEF Rotated, Shape
    <3>2. t.kid[s][x] # m /\ t.kid[s][x] # x
      <4>1. b[o][t.kid[s][x]] = x
        BY <1>1, <1>8, <2>1, <3>1 DEF Fits, Inherited
      <4>2. Short(o, t.kid[s][x], x)
        BY <1>1, <3>1, <4>1 DEF Fits, BoundsRight
      <4>3. QED
        BY <1>1, <1>2, <1>3, <1>8, <3>1, <4>2, Order DEF Short, OrderLaws
    <3>3. t.kid[s][x] # r
      <4>1. b[o][t.kid[s][x]] = x /\ b[s][r] = x
        BY <1>1, <1>8, <2>1, <3>1, Order DEF Fits, Inherited, OrderLaws
      <4>2. Short(o, t.kid[s][x], x) /\ Short(s, r, x)
        BY <1>1, <3>1, <4>1 DEF Fits, BoundsRight
      <4>3. QED
        BY <1>1, <3>1, <4>2, Order DEF Short, OrderLaws
    <3>4. QED
      BY <1>1, <2>1, <3>1, <3>2, <3>3 DEF Rotated
  <2>2. CASE y = x /\ d = o
    BY <1>1, <1>3, <1>8, <2>2 DEF Rotated
  <2>3. CASE y = r /\ d = s
    BY <1>1, <1>2, <2>3, ZenonT(60) DEF Rotated
  <2>4. CASE y = r /\ d = o
    <3>1. u.kid[d][y] = t.kid[o][r] /\ t.kid[o][r] \in E /\ t.parent[t.kid[o][r]] = r
      BY <1>1, <1>2, <1>8, <2>4 DEF Rotated, Shape
    <3>2. t.kid[o][r] # x
      <4>1. b[s][t.kid[o][r]] = r /\ b[s][r] = x
        BY <1>1, <1>8, <3>1, Order DEF Fits, Inherited, OrderLaws
      <4>2. Short(s, t.kid[o][r], r) /\ Short(s, r, x)
        BY <1>1, <3>1, <4>1 DEF Fits, BoundsRight
      <4>3. QED
        BY <1>1, <3>1, <4>2, Order DEF Short, OrderLaws
    <3>3. t.kid[o][r] # m /\ t.kid[o][r] # r
      <4>1. b[s][t.kid[o][r]] = r /\ (m # Null => b[o][m] = r)
        BY <1>1, <1>8, <3>1, Order, SMTT(30) DEF Fits, Inherited, OrderLaws
      <4>2. Short(s, t.kid[o][r], r) /\ (m # Null => Short(o, m, r))
        BY <1>1, <1>3, <3>1, <4>1 DEF Fits, BoundsRight
      <4>3. QED
        BY NullNoNode, <1>1, <3>1, <4>2, Order, SMTT(30) DEF Short, OrderLaws
    <3>4. QED
      BY <1>1, <2>4, <3>1, <3>2, <3>3 DEF Rotated
  <2>5. CASE y # x /\ y # r
    <3>1. CASE t.kid[d][y] = x
      <4>1. u.kid[d][y] = r /\ y = q
        BY <1>1, <2>5, <3>1 DEF Rotated, Shape
      <4>2. QED
        BY <1>1, <4>1 DEF Rotated
    <3>2. CASE t.kid[d][y] # x
      <4>1. u.kid[d][y] = t.kid[d][y] /\ t.kid[d][y] \in E /\ t.parent[t.kid[d][y]] = y
        BY <1>1, <1>8, <2>5, <3>2 DEF Rotated, Shape
      <4>2. t.kid[d][y] # r /\ t.kid[d][y] # m
        BY NullNoNode, <1>1, <1>2, <1>3, <2>5, <4>1
      <4>3. QED
        BY <1>1, <3>2, <4>1, <4>2 DEF Rotated
    <3>3. QED
      BY <3>1, <3>2
  <2>6. QED
    BY <1>1, <2>1, <2>2, <2>3, <2>4, <2>5
<1>9. QED
  BY <1>1, <1>5, <1>6, <1>7, <1>8 DEF Shape

\* A rotation changes the bounds of its two nodes only: every node stays between the
\* nearest nodes above it on both sides.
LEMMA RotateFits ==
  ASSUME NEW t, NEW E, Shape(t, E), NEW s \in Sides, NEW x \in E, NEW r \in E, r = t.kid[Other(s)][x],
         NEW u, Rotated(t, u, s, x, r), NEW b, Fits(t, E, b)
  PROVE  Fits(u, E, TurnedBounds(b, s, x, r))
<1> DEFINE o == Other(s)
           c == TurnedBounds(b, s, x, r)
<1>1. /\ E \subseteq Nodes /\ x \in Nodes /\ r \in Nodes /\ o \in Sides /\ o # s /\ s # o
      /\ Other(o) = s /\ \A d \in Sides : d = s \/ d = o
      /\ x # Null /\ r # Null /\ Null \notin E
  BY NullNoNode, Order DEF Shape, OrderLaws
<1>2. BoundsRight(E, b) /\ Inherited(t, E, b) /\ NoneBetween(t, E, b) /\ Nested(E, b)
  BY DEF Fits
<1>3. b[s][r] = x /\ b[o][r] = b[o][x]
  BY <1>1, <1>2 DEF Inherited
<1>4. Ord(o, x, r) /\ x # r /\ Ord(s, r, x)
  <2>1. Short(s, r, x)
    BY <1>1, <1>2, <1>3 DEF BoundsRight
  <2>2. QED
    BY <1>1, <2>1, Order DEF Short, OrderLaws
<1>5. /\ c[s][r] = b[s][x] /\ c[o][r] = b[o][x] /\ c[s][x] = b[s][x] /\ c[o][x] = r
      /\ \A d \in Sides, y \in E : y # x /\ y # r => c[d][y] = b[d][y]
      /\ c \in [Sides -> [Nodes -> Pointer]]
  <2>1. b \in [Sides -> [Nodes -> Pointer]] /\ b[s][x] \in Pointer /\ r \in Pointer
    BY <1>1, <1>2 DEF BoundsRight, Pointer
  <2>2. c \in [Sides -> [Nodes -> Pointer]]
    BY <1>1, <2>1 DEF TurnedBounds
  <2>3. QED
    BY <1>1, <1>3, <1>4, <2>2 DEF TurnedBounds
<1> HIDE DEF c, o
<1>6. \A d \in Sides : /\ b[d][x] \in E \union {Null} /\ Short(d, x, b[d][x])
                       /\ b[d][x] # x /\ b[d][x] # r
  <2>1. SUFFICES ASSUME NEW d \in Sides
                 PROVE  /\ b[d][x] \in E \union {Null} /\ Short(d, x, b[d][x])
                        /\ b[d][x] # x /\ b[d][x] # r
    OBVIOUS
  <2>2. b[d][x] \in E \union {Null} /\ Short(d, x, b[d][x])
    BY <1>2 DEF BoundsRight
  <2>3. b[d][x] # x
    BY <1>1, <2>2, Order DEF Short, OrderLaws
  <2>4. b[d][x] # r
    <3>1. CASE d = s
      BY <1>1, <1>4, <2>2, <3>1, Order DEF Short, OrderLaws
    <3>2. CASE d = o
      <4>1. Short(o, r, b[o][r])
        BY <1>1, <1>2 DEF BoundsRight
      <4>2. QED
        BY <1>1, <1>3, <3>2, <4>1, Order DEF Short, OrderLaws
    <3>3. QED
      BY <1>1, <3>1, <3>2
  <2>5. QED
    BY <2>2, <2>3, <2>4
<1>7. /\ \A z \in Nodes : In(c, r, z) <=> In(b, x, z)
      /\ \A y \in E, z \in Nodes : y # x /\ y # r => (In(c, y, z) <=> In(b, y, z))
      /\ \A z \in Nodes : In(c, x, z) <=> Short(s, z, b[s][x]) /\ Ord(o, z, r)
  BY <1>1, <1>5 DEF In, Short
<1>8. In(b, x, r)
  BY <1>1, <1>2, <1>3 DEF Nested
<1>9. ASSUME NEW z \in Nodes, In(c, x, z)
      PROVE  In(b, x, z)
  <2>1. Short(s, z, b[s][x]) /\ Ord(o, z, r) /\ Short(o, r, b[o][x])
    BY <1>1, <1>7, <1>8, <1>9 DEF In
  <2>2. Short(o, z, b[o][x])
    BY <1>1, <1>6, <2>1, Order DEF Short, OrderLaws
  <2>3. QED
    BY <1>1, <2>1, <2>2 DEF In
<1>10. BoundsRight(E, c)
  <2>1. ASSUME NEW y \in E, NEW d \in Sides
        PROVE  c[d][y] \in E \union {Null} /\ Short(d, y, c[d][y])
    <3>1. CASE y = x
      BY <1>1, <1>4, <1>5, <1>6, <3>1 DEF Short
    <3>2. CASE y = r
      BY <1>1, <1>5, <1>6, <1>8, <3>2 DEF In
    <3>3. CASE y # x /\ y # r
      BY <1>2, <1>5, <3>3 DEF BoundsRight
    <3>4. QED
      BY <3>1, <3>2, <3>3
  <2>2. QED
    BY <1>5, <2>1 DEF BoundsRight
<1>11. Inherited(u, E, c)
  <2>1. ASSUME NEW d \in Sides, u.root # Null
        PROVE  c[d][u.root] = Null
    <3>1. CASE t.parent[x] = Null
      <4>1. u.root = r /\ x = t.root
        BY <1>1, <3>1 DEF Rotated, Shape
      <4>2. b[d][x] = Null
        BY <1>1, <1>2, <4>1 DEF Inherited
      <4>3. QED
        BY <1>1, <1>5, <4>1, <4>2
    <3>2. CASE t.parent[x] # Null
      <4>1. u.root = t.root /\ u.root \in E /\ t.root # x
        BY <2>1, <3>2 DEF Rotated, Shape
      <4>2. b[d][u.root] = Null
        BY <1>2, <2>1, <4>1 DEF Inherited
      <4>3. u.root # r
        BY <1>1, <1>2, <1>3, <2>1, <4>1 DEF Inherited
      <4>4. QED
        BY <1>5, <4>1, <4>2, <4>3
    <3>3. QED
      BY <3>1, <3>2
  <2>2. ASSUME NEW y \in E, NEW d \in Sides, u.kid[d][y] # Null
        PROVE  c[d][u.kid[d][y]] = c[d][y] /\ c[Other(d)][u.kid[d][y]] = y
    <3>0. Other(s) = o
      BY DEF o
    <3>1. CASE y = x /\ d = s
      <4>1. u.kid[d][y] = t.kid[s][x] /\ t.kid[s][x] \in E
        BY <1>1, <2>2, <3>1 DEF Rotated, Shape
      <4>2. b[s][t.kid[s][x]] = b[s][x] /\ b[o][t.kid[s][x]] = x
        BY <1>1, <1>2, <2>2, <3>0, <3>1, <4>1 DEF Inherited
      <4>3. t.kid[s][x] # x /\ t.kid[s][x] # r
        BY <1>1, <1>3, <1>6, <4>2, ZenonT(60)
      <4>4. QED
        BY <1>1, <1>5, <3>0, <3>1, <4>1, <4>2, <4>3
    <3>2. CASE y = x /\ d = o
      <4>1. u.kid[d][y] = t.kid[s][r] /\ t.kid[s][r] \in E /\ t.kid[s][r] # Null
        BY <1>1, <2>2, <3>2 DEF Rotated, Shape
      <4>2. b[s][t.kid[s][r]] = x /\ b[o][t.kid[s][r]] = r
        BY <1>1, <1>2, <1>3, <3>0, <4>1 DEF Inherited
      <4>3. t.kid[s][r] # x /\ t.kid[s][r] # r
        <5>1. Short(s, t.kid[s][r], x) /\ Short(o, t.kid[s][r], r)
          BY <1>1, <1>2, <4>1, <4>2 DEF BoundsRight
        <5>2. QED
          BY <1>1, <4>1, <5>1, Order DEF Short, OrderLaws
      <4>4. QED
        BY <1>1, <1>5, <3>0, <3>2, <4>1, <4>2, <4>3
    <3>3. CASE y = r /\ d = s
      <4>1. u.kid[d][y] = x
        BY <1>1, <1>4, <3>3, ZenonT(60) DEF Rotated
      <4>2. QED
        BY <1>1, <1>5, <3>0, <3>3, <4>1
    <3>4. CASE y = r /\ d = o
      <4>1. u.kid[d][y] = t.kid[o][r] /\ t.kid[o][r] \in E /\ t.kid[o][r] # Null
        BY <1>1, <1>4, <2>2, <3>4, SMTT(30) DEF Rotated, Shape
      <4>2. b[o][t.kid[o][r]] = b[o][r] /\ b[s][t.kid[o][r]] = r
        BY <1>1, <1>2, <4>1, SMTT(30) DEF Inherited
      <4>3. t.kid[o][r] # x /\ t.kid[o][r] # r
        <5>1. Short(s, t.kid[o][r], r)
          BY <1>1, <1>2, <4>1, <4>2 DEF BoundsRight
        <5>2. QED
          BY <1>1, <1>6, <4>1, <4>2, <5>1, Order, SMTT(30) DEF Short, OrderLaws
      <4>4. QED
        BY <1>1, <1>3, <1>5, <3>4, <4>1, <4>2, <4>3, SMTT(30)
    <3>5. CASE y # x /\ y # r
      <4>1. CASE t.kid[d][y] = x
        <5>1. u.kid[d][y] = r /\ b[d][x] = b[d][y] /\ b[Other(d)][x] = y
          BY <1>1, <1>2, <3>5, <4>1 DEF Rotated, Inherited
        <5>2. CASE d = s
          BY <1>1, <1>3, <1>5, <3>0, <3>5, <5>1, <5>2
        <5>3. CASE d = o
          BY <1>1, <1>3, <1>5, <3>0, <3>5, <5>1, <5>3
        <5>4. QED
          BY <1>1, <5>2, <5>3
      <4>2. CASE t.kid[d][y] # x
        <5>1. u.kid[d][y] = t.kid[d][y] /\ t.kid[d][y] \in E /\ t.parent[t.kid[d][y]] = y
          BY <1>1, <2>2, <3>5, <4>2 DEF Rotated, Shape
        <5>2. t.kid[d][y] # r
          BY <1>1, <3>0, <3>5, <5>1 DEF Shape
        <5>3. b[d][t.kid[d][y]] = b[d][y] /\ b[Other(d)][t.kid[d][y]] = y
          BY <1>2, <2>2, <5>1 DEF Inherited
        <5>4. Other(d) \in Sides
          BY <1>1, <3>0
        <5>5. QED
          BY <1>5, <3>5, <4>2, <5>1, <5>2, <5>3, <5>4
      <4>3. QED
        BY <4>1, <4>2
    <3>6. QED
      BY <1>1, <3>1, <3>2, <3>3, <3>4, <3>5
  <2>3. QED
    BY <2>1, <2>2 DEF Inherited
<1>12. NoneBetween(u, E, c)
  <2>1. SUFFICES ASSUME NEW z \in E, NEW y \in E, NEW d \in Sides,
                        u.kid[d][z] = Null, Ord(d, z, y), Short(d, y, c[d][z])
                 PROVE  FALSE
    BY DEF NoneBetween
  <2>2. CASE z = x /\ d = s
    <3>1. t.kid[s][x] = Null /\ Ord(s, x, y) /\ Short(s, y, b[s][x])
      BY <1>1, <1>5, <2>1, <2>2 DEF Rotated
    <3>2. QED
      BY <1>2, <3>1 DEF NoneBetween
  <2>3. CASE z = x /\ d = o
    <3>1. t.kid[s][r] = Null /\ Ord(o, x, y) /\ Ord(o, y, r)
      BY <1>1, <1>5, <2>1, <2>3 DEF Rotated, Short
    <3>2. Ord(s, r, y) /\ Short(s, y, b[s][r])
      BY <1>1, <1>3, <3>1, Order, SMTT(30) DEF Short, OrderLaws
    <3>3. QED
      BY <1>2, <3>1, <3>2 DEF NoneBetween
  <2>4. CASE z = r /\ d = s
    BY <1>1, <1>4, <2>1, <2>4 DEF Rotated
  <2>5. CASE z = r /\ d = o
    <3>1. t.kid[o][r] = Null /\ Ord(o, r, y) /\ Short(o, y, b[o][r])
      BY <1>1, <1>3, <1>4, <1>5, <2>1, <2>5 DEF Rotated
    <3>2. QED
      BY <1>1, <1>2, <3>1, ZenonT(60) DEF NoneBetween
  <2>6. CASE z # x /\ z # r
    <3>1. t.kid[d][z] = Null /\ c[d][z] = b[d][z]
      BY <1>1, <1>5, <2>1, <2>6 DEF Rotated
    <3>2. QED
      BY <1>2, <2>1, <3>1 DEF NoneBetween
  <2>7. QED
    BY <1>1, <2>2, <2>3, <2>4, <2>5, <2>6
<1>13. ASSUME NEW y \in E, NEW d \in Sides, c[d][y] # Null
       PROVE  In(c, c[d][y], y)
  <2>1. CASE y = r
    <3>1. c[d][y] = b[d][x] /\ b[d][x] \in E /\ b[d][x] # x /\ b[d][x] # r
      BY <1>1, <1>5, <1>6, <1>13, <2>1
    <3>2. In(b, b[d][x], x)
      BY <1>1, <1>2, <3>1 DEF Nested
    <3>3. In(b, b[d][x], r)
      BY <1>1, <1>2, <1>8, <3>1, <3>2, InTrans
    <3>4. QED
      BY <1>1, <1>7, <2>1, <3>1, <3>3
  <2>2. CASE y = x /\ d = o
    <3>1. In(b, x, x)
      BY <1>6 DEF In
    <3>2. QED
      BY <1>1, <1>5, <1>7, <2>2, <3>1
  <2>3. CASE y = x /\ d = s
    <3>1. c[d][y] = b[s][x] /\ b[s][x] \in E /\ b[s][x] # x /\ b[s][x] # r
      BY <1>1, <1>5, <1>6, <1>13, <2>3
    <3>2. In(b, b[s][x], x)
      BY <1>1, <1>2, <3>1 DEF Nested
    <3>3. QED
      BY <1>1, <1>7, <2>3, <3>1, <3>2
  <2>4. CASE y # x /\ y # r
    <3>1. c[d][y] = b[d][y] /\ b[d][y] \in E /\ In(b, b[d][y], y) /\ y \in Nodes
      BY <1>1, <1>2, <1>5, <1>13, <2>4 DEF BoundsRight, Nested
    <3>2. CASE b[d][y] # x /\ b[d][y] # r
      BY <1>7, <3>1, <3>2
    <3>3. CASE b[d][y] = r
      <4>1. In(b, x, y)
        BY <1>1, <1>2, <1>8, <3>1, <3>3, InTrans
      <4>2. QED
        BY <1>7, <3>1, <3>3, <4>1
    <3>4. CASE b[d][y] = x
      <4>1. In(b, x, y) /\ Short(s, y, b[s][x]) /\ Short(o, y, b[o][x])
        BY <1>1, <3>1, <3>4 DEF In
      <4>2. Short(d, y, x) /\ Ord(d, y, x) /\ Short(o, y, b[o][y]) /\ b[o][y] \in E \union {Null}
        BY <1>1, <1>2, <3>4 DEF BoundsRight, Short
      <4>3. Ord(o, y, r)
        <5>1. CASE d = o
          BY <1>1, <1>4, <3>1, <4>2, <5>1, Order DEF OrderLaws
        <5>2. CASE d = s /\ ~Ord(o, y, r)
          <6>1. Ord(o, r, y)
            BY <1>1, <2>4, <3>1, <5>2, Order DEF OrderLaws
          <6>2. In(b, y, r)
            <7>1. Short(s, r, b[s][y])
              BY <1>4, <3>4, <5>2 DEF Short
            <7>2. Short(o, r, b[o][y])
              BY <1>1, <3>1, <4>2, <6>1, Order DEF Short, OrderLaws
            <7>3. QED
              BY <1>1, <7>1, <7>2 DEF In
          <6>3. In(b, r, y)
            BY <1>1, <1>3, <4>1, <4>2, <5>2 DEF In
          <6>4. QED
            BY <1>2, <2>4, <6>2, <6>3 DEF Nested
        <5>3. QED
          BY <1>1, <5>1, <5>2
      <4>4. QED
        BY <1>7, <3>1, <3>4, <4>1, <4>3
    <3>5. QED
      BY <3>2, <3>3, <3>4
  <2>5. QED
    BY <1>1, <2>1, <2>2, <2>3, <2>4
<1>14. ASSUME NEW z \in E, z # r, In(c, r, z), In(c, z, r)
       PROVE  FALSE
  <2>1. In(b, x, z) /\ z \in Nodes
    BY <1>1, <1>7, <1>14
  <2>2. z # x
    BY <1>1, <1>7, <1>14, Order DEF OrderLaws
  <2>3. In(b, z, r)
    BY <1>1, <1>7, <1>14, <2>2
  <2>4. CASE Ord(o, x, z)
    <3>1. Short(s, z, x) /\ Short(o, z, b[o][x])
      BY <1>1, <2>1, <2>4, Order DEF In, Short, OrderLaws
    <3>2. In(b, r, z)
      BY <1>1, <1>3, <3>1 DEF In
    <3>3. QED
      BY <1>2, <1>14, <2>3, <3>2 DEF Nested
  <2>5. CASE Ord(s, x, z)
    <3>1. \A d \in Sides : Short(d, z, b[d][z]) /\ b[d][z] \in E \union {Null} /\ Short(d, r, b[d][z])
      BY <1>2, <2>3 DEF In, BoundsRight
    <3>2. Short(s, x, b[s][z])
      BY <1>1, <2>1, <2>5, <3>1, Order DEF Short, OrderLaws
    <3>3. Short(o, x, b[o][z])
      BY <1>1, <1>4, <3>1, Order DEF Short, OrderLaws
    <3>4. In(b, z, x)
      BY <1>1, <3>2, <3>3 DEF In
    <3>5. QED
      BY <1>2, <2>1, <2>2, <3>4 DEF Nested
  <2>6. QED
    BY <1>1, <2>1, <2>2, <2>4, <2>5, Order DEF OrderLaws
<1>15. ASSUME NEW y \in E, NEW z \in E, In(c, y, z), In(c, z, y)
       PROVE  y = z
  <2>1. CASE y = r \/ z = r
    BY <1>14, <1>15, <2>1
  <2>2. CASE y # r /\ z # r
    <3>1. In(b, y, z) /\ In(b, z, y)
      BY <1>1, <1>7, <1>9, <1>15, <2>2
    <3>2. QED
      BY <1>2, <3>1 DEF Nested
  <2>3. QED
    BY <2>1, <2>2
<1>16. Nested(E, c)
  BY <1>13, <1>15 DEF Nested
<1>17. QED
  BY <1>10, <1>11, <1>12, <1>16 DEF Fits, c

------------------------------------------------------------------------------
(* A node with at most one kid is taken out                                *)

\* Tree u is t with k, the kid of node x at side e or none, in the place of x,
\* which has no kid on the other side.
Removed(t, u, x, k, e) ==
  /\ k = t.kid[e][x] /\ t.kid[Other(e)][x] = Null
  /\ u.root = IF t.parent[x] = Null THEN k ELSE t.root
  /\ \A y \in Nodes : u.parent[y] = IF y = k THEN t.parent[x] ELSE t.parent[y]
  /\ \A d \in Sides, y \in Nodes : u.kid[d][y] = IF y = t.parent[x] /\ t.kid[d][y] = x THEN k ELSE t.kid[d][y]

\* Who had x as a bound has that of x.
PassedBounds(b, x) == [d \in Sides |-> [y \in Nodes |-> IF b[d][y] = x THEN b[d][x] ELSE b[d][y]]]

\* A node with one kid at most is taken out, and its kid hangs in its place.
LEMMA RemoveShape ==
  ASSUME NEW t, NEW E, Shape(t, E), NEW b, Fits(t, E, b), NEW x \in E, NEW k, NEW e \in Sides,
         NEW u \in Tree, Removed(t, u, x, k, e)
  PROVE  Shape(u, E \ {x})
<1> DEFINE F == E \ {x}
           o == Other(e)
           q == t.parent[x]
<1>1. /\ E \subseteq Nodes /\ F \subseteq Nodes /\ x \in Nodes /\ o \in Sides /\ o # e /\ e # o
      /\ \A d \in Sides : d = e \/ d = o
      /\ x # Null /\ Null \notin E /\ k = t.kid[e][x] /\ t.kid[o][x] = Null
  BY NullNoNode, Order DEF Shape, OrderLaws, Removed
<1>2. k # Null => k \in E /\ t.parent[k] = x /\ k # x
  <2>1. SUFFICES ASSUME k # Null PROVE k \in E /\ t.parent[k] = x /\ k # x
    OBVIOUS
  <2>2. k \in E /\ t.parent[k] = x
    BY <1>1, <2>1 DEF Shape
  <2>3. b[o][k] = x /\ Short(o, k, b[o][k])
    BY <1>1, <2>1, <2>2 DEF Fits, Inherited, BoundsRight
  <2>4. QED
    BY <1>1, <2>2, <2>3, Order DEF Short, OrderLaws
<1>3. /\ q = Null => x = t.root
      /\ q # Null => q \in E /\ x # t.root /\ q # x
  <2>1. q = Null => x = t.root
    BY <1>1 DEF Shape
  <2>2. q # Null => q \in E /\ x # t.root
    BY <1>1 DEF Shape
  <2>3. ASSUME q # Null PROVE q # x
    <3>1. PICK d \in Sides : t.kid[d][q] = x
      BY <2>2, <2>3 DEF Shape
    <3>2. b[Other(d)][x] = q /\ Other(d) \in Sides
      BY <1>1, <2>2, <2>3, <3>1, Order DEF Fits, Inherited, OrderLaws
    <3>3. Short(Other(d), x, q)
      BY <3>2 DEF Fits, BoundsRight
    <3>4. QED
      BY <1>1, <2>3, <3>2, <3>3, Order DEF Short, OrderLaws
  <2>4. QED
    BY <2>1, <2>2, <2>3
<1>4. u.root \in F \union {Null} /\ (u.root = Null => F = {})
  <2>1. CASE q # Null
    BY <1>1, <1>3, <2>1 DEF Removed, Shape
  <2>2. CASE q = Null
    <3>1. u.root = k /\ k \in F \union {Null}
      BY <1>2, <2>2 DEF Removed
    <3>2. ASSUME k = Null, NEW y \in F PROVE FALSE
      <4>1. \A d \in Sides : b[d][x] = Null /\ t.kid[d][x] = Null
        BY <1>1, <1>3, <2>2, <3>2 DEF Fits, Inherited
      <4>2. \A d \in Sides : ~Ord(d, x, y)
        BY <1>1, <4>1 DEF Fits, NoneBetween, Short
      <4>3. QED
        BY <1>1, <4>2, Order DEF OrderLaws
    <3>3. QED
      BY <3>1, <3>2
  <2>3. QED
    BY <2>1, <2>2
<1>5. u.root # Null => u.parent[u.root] = Null
  <2>1. CASE q = Null
    BY <1>1, <1>2, <2>1 DEF Removed
  <2>2. CASE q # Null
    <3>1. u.root = t.root /\ t.root # Null /\ t.root \in E /\ t.parent[t.root] = Null
      BY <1>1, <1>3, <2>2 DEF Removed, Shape
    <3>2. QED
      BY <1>1, <1>2, <3>1 DEF Removed
  <2>3. QED
    BY <2>1, <2>2
<1>6. ASSUME NEW y \in F, y # u.root
      PROVE  u.parent[y] \in F /\ \E d \in Sides : u.kid[d][u.parent[y]] = y
  <2>1. CASE y = k
    <3>1. q # Null /\ q \in E /\ q # x
      BY <1>3, <1>6, <2>1 DEF Removed
    <3>2. PICK d \in Sides : t.kid[d][q] = x
      BY <1>3, <3>1 DEF Shape
    <3>3. u.parent[y] = q /\ u.kid[d][q] = k
      BY <1>1, <2>1, <3>1, <3>2 DEF Removed
    <3>4. QED
      BY <2>1, <3>1, <3>3
  <2>2. CASE y # k
    <3>1. y \in E /\ y # t.root
      BY <1>3, <1>6 DEF Removed
    <3>2. PICK d \in Sides : t.parent[y] \in E /\ t.kid[d][t.parent[y]] = y
      BY <3>1 DEF Shape
    <3>3. t.parent[y] # x
      BY <1>1, <2>2, <3>1, <3>2
    <3>4. u.parent[y] = t.parent[y] /\ u.kid[d][t.parent[y]] = y
      BY <1>1, <2>2, <3>1, <3>2 DEF Removed
    <3>5. QED
      BY <3>2, <3>3, <3>4
  <2>3. QED
    BY <2>1, <2>2
<1>7. ASSUME NEW y \in F, NEW d \in Sides, u.kid[d][y] # Null
      PROVE  u.kid[d][y] \in F /\ u.parent[u.kid[d][y]] = y
  <2>1. CASE y = q /\ t.kid[d][y] = x
    BY <1>1, <1>2, <1>7, <2>1 DEF Removed
  <2>2. CASE ~(y = q /\ t.kid[d][y] = x)
    <3>1. u.kid[d][y] = t.kid[d][y] /\ t.kid[d][y] \in E /\ t.parent[t.kid[d][y]] = y
      BY <1>1, <1>7, <2>2 DEF Removed, Shape
    <3>2. t.kid[d][y] # x /\ t.kid[d][y] # k
      BY <1>1, <1>2, <2>2, <3>1
    <3>3. QED
      BY <1>1, <3>1, <3>2 DEF Removed
  <2>3. QED
    BY <2>1, <2>2
<1>8. QED
  BY <1>1, <1>4, <1>5, <1>6, <1>7 DEF Shape

\* Who had the removed node as a bound gets the bound of that node.
LEMMA RemoveFits ==
  ASSUME NEW t, NEW E, Shape(t, E), NEW b, Fits(t, E, b), NEW x \in E, NEW k, NEW e \in Sides,
         NEW u, Removed(t, u, x, k, e)
  PROVE  Fits(u, E \ {x}, PassedBounds(b, x))
<1> DEFINE F == E \ {x}
           o == Other(e)
           q == t.parent[x]
           c == PassedBounds(b, x)
<1>1. /\ E \subseteq Nodes /\ F \subseteq Nodes /\ x \in Nodes /\ o \in Sides /\ o # e /\ e # o
      /\ Other(o) = e /\ \A d \in Sides : d = e \/ d = o
      /\ x # Null /\ Null \notin E /\ k = t.kid[e][x] /\ t.kid[o][x] = Null
  BY NullNoNode, Order DEF Shape, OrderLaws, Removed
<1>2. BoundsRight(E, b) /\ Inherited(t, E, b) /\ NoneBetween(t, E, b) /\ Nested(E, b)
  BY DEF Fits
<1>3. \A d \in Sides : b[d][x] \in F \union {Null} /\ Short(d, x, b[d][x]) /\ b[d][x] # x
  BY <1>1, <1>2, Order DEF BoundsRight, Short, OrderLaws
<1>4. ASSUME NEW y \in E, Ord(o, x, y), Short(o, y, b[o][x])
      PROVE  FALSE
  BY <1>1, <1>2, <1>4 DEF NoneBetween
<1>5. ASSUME NEW y \in E, b[e][y] = x
      PROVE  FALSE
  <2>1. In(b, x, y) /\ Short(e, y, x)
    BY <1>1, <1>2, <1>5 DEF Nested, BoundsRight
  <2>2. Ord(o, x, y) /\ Short(o, y, b[o][x])
    BY <1>1, <2>1, Order DEF In, Short, OrderLaws
  <2>3. QED
    BY <1>4, <2>2
<1>6. /\ \A d \in Sides, y \in E : c[d][y] = IF b[d][y] = x THEN b[d][x] ELSE b[d][y]
      /\ \A y \in E : c[e][y] = b[e][y]
      /\ c \in [Sides -> [Nodes -> Pointer]]
  <2>1. b \in [Sides -> [Nodes -> Pointer]]
    BY <1>2 DEF BoundsRight
  <2>2. c \in [Sides -> [Nodes -> Pointer]]
    BY <1>1, <2>1 DEF PassedBounds
  <2>3. QED
    BY <1>1, <1>5, <2>2 DEF PassedBounds
<1> HIDE DEF c, o
<1>7. ASSUME NEW y \in F, NEW z \in Nodes, In(b, y, z)
      PROVE  In(c, y, z)
  <2>1. Short(e, z, c[e][y])
    BY <1>1, <1>6, <1>7 DEF In
  <2>2. Short(o, z, c[o][y])
    <3>1. CASE b[o][y] = x
      <4>1. Short(o, z, x) /\ c[o][y] = b[o][x]
        BY <1>1, <1>6, <1>7, <3>1 DEF In
      <4>2. QED
        BY <1>1, <1>3, <4>1, Order DEF Short, OrderLaws
    <3>2. CASE b[o][y] # x
      BY <1>1, <1>6, <1>7, <3>2 DEF In
    <3>3. QED
      BY <3>1, <3>2
  <2>3. QED
    BY <1>1, <2>1, <2>2 DEF In
<1>8. ASSUME NEW y \in F, NEW z \in F, In(c, y, z)
      PROVE  In(b, y, z)
  <2>1. Short(e, z, b[e][y])
    BY <1>1, <1>6, <1>8 DEF In
  <2>2. Short(o, z, b[o][y])
    <3>1. CASE b[o][y] = x
      <4>1. Short(o, z, b[o][x])
        BY <1>1, <1>6, <1>8, <3>1 DEF In
      <4>2. ~Ord(o, x, z)
        BY <1>4, <4>1
      <4>3. QED
        BY <1>1, <3>1, <4>2, Order DEF Short, OrderLaws
    <3>2. CASE b[o][y] # x
      BY <1>1, <1>6, <1>8, <3>2 DEF In
    <3>3. QED
      BY <3>1, <3>2
  <2>3. QED
    BY <1>1, <2>1, <2>2 DEF In
<1>9. BoundsRight(F, c)
  <2>1. ASSUME NEW y \in F, NEW d \in Sides
        PROVE  c[d][y] \in F \union {Null} /\ Short(d, y, c[d][y])
    <3>1. In(b, y, y)
      BY <1>2 DEF In, BoundsRight
    <3>2. In(c, y, y)
      BY <1>1, <1>7, <3>1
    <3>3. QED
      BY <1>2, <1>3, <1>6, <3>2 DEF In, BoundsRight
  <2>2. QED
    BY <1>6, <2>1 DEF BoundsRight
<1>10. k # Null => k \in F /\ c[e][k] = b[e][x] /\ c[o][k] = b[o][x]
  <2>1. SUFFICES ASSUME k # Null PROVE k \in F /\ c[e][k] = b[e][x] /\ c[o][k] = b[o][x]
    OBVIOUS
  <2>2. k \in E /\ b[e][k] = b[e][x] /\ b[o][k] = x
    BY <1>1, <1>2, <2>1 DEF Shape, Inherited, o
  <2>3. k # x
    BY <1>1, <1>3, <2>2
  <2>4. QED
    BY <1>1, <1>6, <2>2, <2>3
<1>11. Inherited(u, F, c)
  <2>1. ASSUME NEW d \in Sides, u.root # Null
        PROVE  c[d][u.root] = Null
    <3>1. CASE q = Null
      <4>1. u.root = k /\ x = t.root
        BY <1>1, <3>1 DEF Removed, Shape
      <4>2. b[d][x] = Null
        BY <1>1, <1>2, <4>1 DEF Inherited
      <4>3. QED
        BY <1>1, <1>10, <2>1, <4>1, <4>2
    <3>2. CASE q # Null
      <4>1. u.root = t.root /\ u.root \in E
        BY <2>1, <3>2 DEF Removed, Shape
      <4>2. b[d][u.root] = Null
        BY <1>2, <2>1, <4>1 DEF Inherited
      <4>3. QED
        BY <1>1, <1>6, <4>1, <4>2
    <3>3. QED
      BY <3>1, <3>2
  <2>2. ASSUME NEW y \in F, NEW d \in Sides, u.kid[d][y] # Null
        PROVE  c[d][u.kid[d][y]] = c[d][y] /\ c[Other(d)][u.kid[d][y]] = y
    <3>1. CASE y = q /\ t.kid[d][y] = x
      <4>1. u.kid[d][y] = k /\ k # Null
        BY <1>1, <2>2, <3>1 DEF Removed
      <4>2. b[d][x] = b[d][y] /\ b[Other(d)][x] = y
        BY <1>1, <1>2, <3>1 DEF Inherited
      <4>3. c[d][y] = b[d][x]
        BY <1>6, <4>2
      <4>4. Other(d) = o \/ Other(d) = e
        BY Order DEF OrderLaws, o
      <4>5. QED
        BY <1>1, <1>10, <4>1, <4>2, <4>3, <4>4
    <3>2. CASE ~(y = q /\ t.kid[d][y] = x)
      <4>1. u.kid[d][y] = t.kid[d][y] /\ t.kid[d][y] \in E /\ t.kid[d][y] # Null
        BY <1>1, <2>2, <3>2 DEF Removed, Shape
      <4>2. b[d][t.kid[d][y]] = b[d][y] /\ b[Other(d)][t.kid[d][y]] = y /\ Other(d) \in Sides
        BY <1>2, <4>1, Order DEF Inherited, OrderLaws
      <4>3. QED
        BY <1>6, <4>1, <4>2
    <3>3. QED
      BY <3>1, <3>2
  <2>3. QED
    BY <2>1, <2>2 DEF Inherited
<1>12. NoneBetween(u, F, c)
  <2>1. SUFFICES ASSUME NEW z \in F, NEW y \in F, NEW d \in Sides,
                        u.kid[d][z] = Null, Ord(d, z, y), Short(d, y, c[d][z])
                 PROVE  FALSE
    BY DEF NoneBetween
  <2>2. CASE z = q /\ t.kid[d][z] = x
    <3>1. k = Null /\ b[d][x] = b[d][z] /\ b[Other(d)][x] = z
      BY <1>1, <1>2, <2>1, <2>2 DEF Removed, Inherited
    <3>2. Short(d, y, b[d][x]) /\ Short(Other(d), y, b[Other(d)][x]) /\ Other(d) \in Sides
      BY <1>1, <1>3, <1>6, <2>1, <3>1, Order DEF Short, OrderLaws
    <3>3. t.kid[d][x] = Null /\ t.kid[Other(d)][x] = Null
      BY <1>1, <3>1, <3>2
    <3>4. ~Ord(d, x, y) /\ ~Ord(Other(d), x, y)
      BY <1>2, <3>2, <3>3 DEF NoneBetween
    <3>5. QED
      BY <1>1, <3>4, Order DEF OrderLaws
  <2>3. CASE ~(z = q /\ t.kid[d][z] = x)
    <3>1. t.kid[d][z] = Null
      BY <1>1, <2>1, <2>3 DEF Removed
    <3>2. ~Short(d, y, b[d][z])
      BY <1>2, <2>1, <3>1 DEF NoneBetween
    <3>3. b[d][z] = x /\ Short(d, y, b[d][x])
      BY <1>6, <2>1, <3>2
    <3>4. d = o
      BY <1>1, <1>5, <3>3
    <3>5. Ord(o, x, y)
      BY <1>1, <3>2, <3>3, <3>4, Order DEF Short, OrderLaws
    <3>6. QED
      BY <1>4, <3>3, <3>4, <3>5
  <2>4. QED
    BY <2>2, <2>3
<1>13. ASSUME NEW y \in F, NEW d \in Sides, c[d][y] # Null
       PROVE  In(c, c[d][y], y)
  <2>1. CASE b[d][y] # x
    <3>1. c[d][y] = b[d][y] /\ b[d][y] \in F /\ In(b, b[d][y], y)
      BY <1>2, <1>6, <1>13, <2>1 DEF BoundsRight, Nested
    <3>2. QED
      BY <1>1, <1>7, <3>1
  <2>2. CASE b[d][y] = x
    <3>1. c[d][y] = b[d][x] /\ b[d][x] \in F
      BY <1>3, <1>6, <1>13, <2>2
    <3>2. In(b, x, y) /\ In(b, b[d][x], x)
      BY <1>1, <1>2, <1>13, <2>2, <3>1 DEF Nested
    <3>3. In(b, b[d][x], y)
      BY <1>1, <1>2, <3>1, <3>2, InTrans
    <3>4. QED
      BY <1>1, <1>7, <3>1, <3>3
  <2>3. QED
    BY <2>1, <2>2
<1>14. ASSUME NEW y \in F, NEW z \in F, In(c, y, z), In(c, z, y)
       PROVE  y = z
  BY <1>2, <1>8, <1>14 DEF Nested
<1>15. Nested(F, c)
  BY <1>13, <1>14 DEF Nested
<1>16. QED
  BY <1>9, <1>11, <1>12, <1>15 DEF Fits, c

------------------------------------------------------------------------------
(* A node takes the place of another                                       *)

\* Tree u with the nodes F and the bounds c is t with E and b, but for the
\* names g of the nodes, which keep their order.
Copied(t, u, E, F, b, c, g) ==
  /\ g \in [E \union {Null} -> F \union {Null}] /\ g[Null] = Null
  /\ \A z \in E : g[z] \in F
  /\ \A w \in F : \E z \in E : g[z] = w
  /\ \A z, w \in E : g[z] = g[w] => z = w
  /\ \A z, w \in E, d \in Sides : Ord(d, z, w) <=> Ord(d, g[z], g[w])
  /\ u.root = g[t.root]
  /\ \A z \in E : u.parent[g[z]] = g[t.parent[z]]
  /\ \A z \in E, d \in Sides : u.kid[d][g[z]] = g[t.kid[d][z]] /\ c[d][g[z]] = g[b[d][z]]

\* A tree with other names for its nodes hangs together as the first does.
LEMMA CopyShape ==
  ASSUME NEW t, NEW E, Shape(t, E), NEW u \in Tree, NEW F, F \subseteq Nodes, NEW b, NEW c, NEW g,
         Copied(t, u, E, F, b, c, g)
  PROVE  Shape(u, F)
<1>1. Null \notin E /\ Null \notin F
  BY NullNoNode DEF Shape
<1>2. \A z \in E \union {Null} : /\ g[z] = Null <=> z = Null
                                 /\ g[z] \in F <=> z \in E
  BY <1>1 DEF Copied
<1>3. t.root \in E \union {Null} /\ \A z \in E : /\ t.parent[z] \in E \union {Null}
                                                 /\ \A d \in Sides : t.kid[d][z] \in E \union {Null}
  BY DEF Shape
<1>4. u.root \in F \union {Null} /\ (u.root = Null => F = {})
  <2>1. u.root \in F \union {Null}
    BY <1>3 DEF Copied
  <2>2. u.root = Null => F = {}
    BY <1>2, <1>3 DEF Copied, Shape
  <2>3. QED
    BY <2>1, <2>2
<1>5. u.root # Null => u.parent[u.root] = Null
  <2>1. SUFFICES ASSUME u.root # Null PROVE u.parent[u.root] = Null
    OBVIOUS
  <2>2. t.root \in E /\ t.parent[t.root] = Null /\ u.root = g[t.root]
    BY <1>1, <1>2, <1>3, <2>1 DEF Copied, Shape
  <2>3. QED
    BY <1>2, <2>2 DEF Copied
<1>6. ASSUME NEW w \in F, w # u.root
      PROVE  u.parent[w] \in F /\ \E d \in Sides : u.kid[d][u.parent[w]] = w
  <2>1. PICK z \in E : g[z] = w
    BY DEF Copied
  <2>2. z # t.root
    BY <1>6, <2>1 DEF Copied
  <2>3. PICK d \in Sides : t.parent[z] \in E /\ t.kid[d][t.parent[z]] = z
    BY <2>2 DEF Shape
  <2>4. u.parent[w] = g[t.parent[z]] /\ u.kid[d][g[t.parent[z]]] = w /\ g[t.parent[z]] \in F
    BY <2>1, <2>3 DEF Copied
  <2>5. QED
    BY <2>4
<1>7. ASSUME NEW w \in F, NEW d \in Sides, u.kid[d][w] # Null
      PROVE  u.kid[d][w] \in F /\ u.parent[u.kid[d][w]] = w
  <2>1. PICK z \in E : g[z] = w
    BY DEF Copied
  <2>2. u.kid[d][w] = g[t.kid[d][z]] /\ t.kid[d][z] # Null
    BY <1>2, <1>7, <2>1 DEF Copied
  <2>3. t.kid[d][z] \in E /\ t.parent[t.kid[d][z]] = z
    BY <2>2 DEF Shape
  <2>4. g[t.kid[d][z]] \in F /\ u.parent[g[t.kid[d][z]]] = g[z]
    BY <2>3 DEF Copied
  <2>5. QED
    BY <2>1, <2>2, <2>4
<1>8. QED
  BY <1>4, <1>5, <1>6, <1>7 DEF Shape

\* A tree whose new names keep the order fits the renamed bounds.
LEMMA CopyFits ==
  ASSUME NEW t, NEW E, Shape(t, E), NEW u, NEW F, F \subseteq Nodes, NEW b, Fits(t, E, b),
         NEW c \in [Sides -> [Nodes -> Pointer]], NEW g, Copied(t, u, E, F, b, c, g)
  PROVE  Fits(u, F, c)
<1>1. Null \notin E /\ Null \notin F /\ E \subseteq Nodes
  BY NullNoNode DEF Shape
<1>2. \A z \in E \union {Null} : /\ g[z] = Null <=> z = Null
                                 /\ g[z] \in F <=> z \in E
  BY <1>1 DEF Copied
<1>3. BoundsRight(E, b) /\ Inherited(t, E, b) /\ NoneBetween(t, E, b) /\ Nested(E, b)
  BY DEF Fits
<1>4. t.root \in E \union {Null} /\ \A z \in E, d \in Sides : t.kid[d][z] \in E \union {Null} /\ b[d][z] \in E \union {Null}
  BY <1>3 DEF Shape, BoundsRight
<1>5. \A d \in Sides, z \in E, w \in E \union {Null} : Short(d, z, w) <=> Short(d, g[z], g[w])
  BY <1>1, <1>2 DEF Copied, Short
<1>6. \A z, w \in E : In(b, w, z) <=> In(c, g[w], g[z])
  <2>1. SUFFICES ASSUME NEW z \in E, NEW w \in E
                 PROVE  In(b, w, z) <=> In(c, g[w], g[z])
    OBVIOUS
  <2>2. \A d \in Sides : Short(d, z, b[d][w]) <=> Short(d, g[z], c[d][g[w]])
    BY <1>4, <1>5 DEF Copied
  <2>3. QED
    BY <2>2 DEF In
<1>7. BoundsRight(F, c)
  <2>1. ASSUME NEW w \in F, NEW d \in Sides
        PROVE  c[d][w] \in F \union {Null} /\ Short(d, w, c[d][w])
    <3>1. PICK z \in E : g[z] = w
      BY DEF Copied
    <3>2. c[d][w] = g[b[d][z]] /\ b[d][z] \in E \union {Null} /\ Short(d, z, b[d][z])
      BY <1>3, <3>1 DEF Copied, BoundsRight
    <3>3. g[b[d][z]] \in F \union {Null}
      BY <3>2 DEF Copied
    <3>4. QED
      BY <1>5, <3>1, <3>2, <3>3
  <2>2. QED
    BY <2>1 DEF BoundsRight
<1>8. Inherited(u, F, c)
  <2>1. ASSUME NEW d \in Sides, u.root # Null
        PROVE  c[d][u.root] = Null
    <3>1. t.root \in E /\ b[d][t.root] = Null /\ u.root = g[t.root]
      BY <1>2, <1>3, <1>4, <2>1 DEF Copied, Inherited
    <3>2. QED
      BY <3>1 DEF Copied
  <2>2. ASSUME NEW w \in F, NEW d \in Sides, u.kid[d][w] # Null
        PROVE  c[d][u.kid[d][w]] = c[d][w] /\ c[Other(d)][u.kid[d][w]] = w
    <3>1. PICK z \in E : g[z] = w
      BY DEF Copied
    <3>2. u.kid[d][w] = g[t.kid[d][z]] /\ t.kid[d][z] \in E /\ t.kid[d][z] # Null
      BY <1>2, <1>4, <2>2, <3>1 DEF Copied
    <3>3. b[d][t.kid[d][z]] = b[d][z] /\ b[Other(d)][t.kid[d][z]] = z /\ Other(d) \in Sides
      BY <1>3, <3>2, Order DEF Inherited, OrderLaws
    <3>4. c[d][g[t.kid[d][z]]] = g[b[d][z]] /\ c[Other(d)][g[t.kid[d][z]]] = g[z] /\ c[d][g[z]] = g[b[d][z]]
      BY <3>2, <3>3 DEF Copied
    <3>5. QED
      BY <3>1, <3>2, <3>4
  <2>3. QED
    BY <2>1, <2>2 DEF Inherited
<1>9. NoneBetween(u, F, c)
  <2>1. SUFFICES ASSUME NEW v \in F, NEW w \in F, NEW d \in Sides,
                        u.kid[d][v] = Null, Ord(d, v, w), Short(d, w, c[d][v])
                 PROVE  FALSE
    BY DEF NoneBetween
  <2>2. PICK y \in E, z \in E : g[y] = v /\ g[z] = w
    BY DEF Copied
  <2>3. t.kid[d][y] = Null
    BY <1>2, <1>4, <2>1, <2>2 DEF Copied
  <2>4. Ord(d, y, z) /\ Short(d, z, b[d][y])
    BY <1>4, <1>5, <2>1, <2>2 DEF Copied
  <2>5. QED
    BY <1>3, <2>3, <2>4 DEF NoneBetween
<1>10. ASSUME NEW w \in F, NEW d \in Sides, c[d][w] # Null
       PROVE  In(c, c[d][w], w)
  <2>1. PICK z \in E : g[z] = w
    BY DEF Copied
  <2>2. c[d][w] = g[b[d][z]] /\ b[d][z] \in E /\ b[d][z] # Null
    BY <1>1, <1>2, <1>4, <1>10, <2>1 DEF Copied
  <2>3. In(b, b[d][z], z)
    BY <1>3, <2>2 DEF Nested
  <2>4. QED
    BY <1>6, <2>1, <2>2, <2>3
<1>11. ASSUME NEW v \in F, NEW w \in F, In(c, v, w), In(c, w, v)
       PROVE  v = w
  <2>1. PICK y \in E, z \in E : g[y] = v /\ g[z] = w
    BY DEF Copied
  <2>2. In(b, y, z) /\ In(b, z, y)
    BY <1>6, <1>11, <2>1
  <2>3. QED
    BY <1>3, <2>1, <2>2 DEF Nested
<1>12. Nested(F, c)
  BY <1>10, <1>11 DEF Nested
<1>13. QED
  BY <1>7, <1>8, <1>9, <1>12 DEF Fits

\* Tree u is t with node y, which was in no place, in the place of node x.
Placed(t, u, x, y) ==
  /\ u.root = IF t.parent[x] = Null THEN y ELSE t.root
  /\ \A z \in Nodes : u.parent[z] = IF z = y THEN t.parent[x]
                                    ELSE IF \E d \in Sides : z = t.kid[d][x] THEN y
                                    ELSE t.parent[z]
  /\ \A d \in Sides, z \in Nodes : u.kid[d][z] = IF z = y THEN t.kid[d][x]
                                                 ELSE IF z = t.parent[x] /\ t.kid[d][z] = x THEN y
                                                 ELSE t.kid[d][z]

RenamedBounds(E, b, x, y) ==
  [d \in Sides |-> [z \in Nodes |->
     LET w == b[d][IF z = y THEN x ELSE z] IN IF w = x THEN y ELSE w]]

\* The order does not tell the two nodes apart.
Alike(E, x, y) == \A z \in E \ {x}, d \in Sides : Ord(d, z, x) <=> Ord(d, z, y)

\* A node that takes the place of another makes such a renamed tree.
LEMMA PlaceCopies ==
  ASSUME NEW t, NEW E, Shape(t, E), NEW b, Fits(t, E, b), NEW x \in E, NEW y \in Nodes \ E, Alike(E, x, y),
         NEW u, Placed(t, u, x, y)
  PROVE  \E g : Copied(t, u, E, (E \ {x}) \union {y}, b, RenamedBounds(E, b, x, y), g)
<1> DEFINE F == (E \ {x}) \union {y}
           c == RenamedBounds(E, b, x, y)
           g == [z \in E \union {Null} |-> IF z = x THEN y ELSE z]
<1>1. /\ E \subseteq Nodes /\ F \subseteq Nodes /\ x \in Nodes /\ y \in Nodes /\ x # Null /\ y # Null
      /\ Null \notin E /\ y # x
  BY NullNoNode DEF Shape
<1>2. g \in [E \union {Null} -> F \union {Null}] /\ g[Null] = Null
  BY <1>1
<1>3. g[x] = y /\ \A z \in E : z # x => g[z] = z
  OBVIOUS
<1>4. b \in [Sides -> [Nodes -> Pointer]] /\ \A z \in E, d \in Sides : b[d][z] \in E \union {Null}
  BY DEF Fits, BoundsRight
<1> HIDE DEF g
<1>5. /\ \A z \in E : g[z] \in F
      /\ \A w \in F : \E z \in E : g[z] = w
      /\ \A z, w \in E : g[z] = g[w] => z = w
  BY <1>1, <1>3
<1>6. \A z, w \in E, d \in Sides : Ord(d, z, w) <=> Ord(d, g[z], g[w])
  <2>1. SUFFICES ASSUME NEW z \in E, NEW w \in E, NEW d \in Sides
                 PROVE  Ord(d, z, w) <=> Ord(d, g[z], g[w])
    OBVIOUS
  <2>2. CASE z = x /\ w = x
    BY <1>1, <1>3, <2>2, Order DEF OrderLaws
  <2>3. CASE z # x /\ w # x
    BY <1>3, <2>3
  <2>4. CASE z # x /\ w = x
    BY <1>3, <2>4 DEF Alike
  <2>5. CASE z = x /\ w # x
    <3>1. Ord(Other(d), w, x) <=> Ord(Other(d), w, y)
      BY <2>5, Order DEF Alike, OrderLaws
    <3>2. QED
      BY <1>1, <1>3, <2>5, <3>1, Order DEF OrderLaws
  <2>6. QED
    BY <2>2, <2>3, <2>4, <2>5
<1>7. u.root = g[t.root]
  <2>1. t.parent[x] = Null => t.root = x
    BY <1>1 DEF Shape
  <2>2. t.parent[x] # Null => t.root # x /\ t.root \in E
    BY <1>1 DEF Shape
  <2>3. QED
    BY <1>1, <1>3, <2>1, <2>2 DEF Placed
<1>8. \A d \in Sides : t.kid[d][x] # x /\ (t.kid[d][x] # Null => t.kid[d][x] \in E)
  <2>1. SUFFICES ASSUME NEW d \in Sides, t.kid[d][x] # Null
                 PROVE  t.kid[d][x] # x /\ t.kid[d][x] \in E
    BY <1>1
  <2>2. t.kid[d][x] \in E
    BY <2>1 DEF Shape
  <2>3. b[Other(d)][t.kid[d][x]] = x /\ Other(d) \in Sides
    BY <2>1, Order DEF Fits, Inherited, OrderLaws
  <2>4. Short(Other(d), t.kid[d][x], x)
    BY <2>2, <2>3 DEF Fits, BoundsRight
  <2>5. QED
    BY <1>1, <2>2, <2>3, <2>4, Order DEF Short, OrderLaws
<1>9. t.parent[x] # x
  <2>1. SUFFICES ASSUME t.parent[x] = x PROVE FALSE
    OBVIOUS
  <2>2. x # t.root
    BY <1>1, <2>1 DEF Shape
  <2>3. QED
    BY <1>8, <2>1, <2>2 DEF Shape
<1>10. ASSUME NEW z \in E
       PROVE  u.parent[g[z]] = g[t.parent[z]]
  <2>1. CASE z = x
    <3>1. u.parent[g[z]] = t.parent[x] /\ t.parent[x] \in E \union {Null}
      BY <1>1, <1>3, <2>1 DEF Placed, Shape
    <3>2. QED
      BY <1>2, <1>3, <1>9, <2>1, <3>1
  <2>2. CASE z # x /\ \E d \in Sides : z = t.kid[d][x]
    <3>1. t.parent[z] = x
      BY <1>1, <2>2 DEF Shape
    <3>2. QED
      BY <1>1, <1>3, <2>2, <3>1 DEF Placed
  <2>3. CASE z # x /\ ~\E d \in Sides : z = t.kid[d][x]
    <3>1. t.parent[z] # x /\ t.parent[z] \in E \union {Null}
      BY <1>1, <2>3 DEF Shape
    <3>2. u.parent[g[z]] = t.parent[z]
      BY <1>1, <1>3, <2>3 DEF Placed
    <3>3. QED
      BY <1>2, <1>3, <3>1, <3>2
  <2>4. QED
    BY <2>1, <2>2, <2>3
<1>11. ASSUME NEW z \in E, NEW d \in Sides
       PROVE  u.kid[d][g[z]] = g[t.kid[d][z]]
  <2>1. CASE z = x
    <3>1. u.kid[d][g[z]] = t.kid[d][x]
      BY <1>1, <1>3, <2>1 DEF Placed
    <3>2. QED
      BY <1>2, <1>3, <1>8, <2>1, <3>1
  <2>2. CASE z # x /\ t.kid[d][z] = x
    <3>1. t.parent[x] = z
      BY <1>1, <2>2 DEF Shape
    <3>2. QED
      BY <1>1, <1>3, <2>2, <3>1 DEF Placed
  <2>3. CASE z # x /\ t.kid[d][z] # x
    <3>1. u.kid[d][g[z]] = t.kid[d][z] /\ t.kid[d][z] \in E \union {Null}
      BY <1>1, <1>3, <2>3 DEF Placed, Shape
    <3>2. QED
      BY <1>2, <1>3, <2>3, <3>1
  <2>4. QED
    BY <2>1, <2>2, <2>3
<1>12. ASSUME NEW z \in E, NEW d \in Sides
       PROVE  c[d][g[z]] = g[b[d][z]]
  <2>1. g[z] \in Nodes /\ (IF g[z] = y THEN x ELSE g[z]) = z
    BY <1>1, <1>3
  <2>2. c[d][g[z]] = IF b[d][z] = x THEN y ELSE b[d][z]
    BY <2>1 DEF RenamedBounds
  <2>3. QED
    BY <1>2, <1>3, <1>4, <2>2
<1>13. QED
  <2>1. Copied(t, u, E, F, b, c, g)
    BY <1>2, <1>5, <1>6, <1>7, <1>10, <1>11, <1>12 DEF Copied
  <2>2. QED
    BY <2>1

\* So the tree still hangs together and keeps the order.
LEMMA PlaceFits ==
  ASSUME NEW t, NEW E, Shape(t, E), NEW b, Fits(t, E, b), NEW x \in E, NEW y \in Nodes \ E, Alike(E, x, y),
         NEW u \in Tree, Placed(t, u, x, y)
  PROVE  Shape(u, (E \ {x}) \union {y}) /\ Fits(u, (E \ {x}) \union {y}, RenamedBounds(E, b, x, y))
<1> DEFINE F == (E \ {x}) \union {y}
           c == RenamedBounds(E, b, x, y)
<1>1. F \subseteq Nodes /\ x \in Nodes /\ y \in Pointer
  BY DEF Shape, Pointer
<1>2. c \in [Sides -> [Nodes -> Pointer]]
  <2>1. b \in [Sides -> [Nodes -> Pointer]]
    BY DEF Fits, BoundsRight
  <2>2. QED
    BY <1>1, <2>1 DEF RenamedBounds
<1>3. PICK g : Copied(t, u, E, F, b, c, g)
  BY PlaceCopies
<1> HIDE DEF c, F
<1>4. Shape(u, F) /\ Fits(u, F, c)
  BY <1>1, <1>2, <1>3, CopyShape, CopyFits
<1>5. QED
  BY <1>4 DEF c, F

------------------------------------------------------------------------------
(* What the operations on pointers do                                      *)

\* The types of the fields.
LEMMA TreeFields ==
  ASSUME NEW t \in Tree
  PROVE  /\ t.root \in Pointer /\ t.parent \in [Nodes -> Pointer] /\ t.red \subseteq Nodes
         /\ t.kid \in [Sides -> [Nodes -> Pointer]]
         /\ \A d \in Sides : t.kid[d] \in [Nodes -> Pointer]
         /\ \A d \in Sides, x \in Nodes : t.kid[d][x] \in Pointer
         /\ \A x \in Nodes : t.parent[x] \in Pointer
BY DEF Tree

\* The fields of a tree that a color is put into.
LEMMA BlackenIs ==
  ASSUME NEW t \in Tree, NEW x
  PROVE  /\ Blacken(t, x) \in Tree
         /\ Blacken(t, x).root = t.root /\ Blacken(t, x).kid = t.kid /\ Blacken(t, x).parent = t.parent
         /\ Blacken(t, x).red = t.red \ {x}
BY DEF Tree, Blacken

\* A recolored node: the pointers stay.
LEMMA ReddenIs ==
  ASSUME NEW t \in Tree, NEW x \in Nodes
  PROVE  /\ Redden(t, x) \in Tree
         /\ Redden(t, x).root = t.root /\ Redden(t, x).kid = t.kid /\ Redden(t, x).parent = t.parent
         /\ Redden(t, x).red = t.red \union {x}
BY DEF Tree, Redden

\* A copied color: the pointers stay.
LEMMA CopyColorIs ==
  ASSUME NEW t \in Tree, NEW x \in Nodes, NEW y \in Nodes
  PROVE  /\ CopyColor(t, x, y) \in Tree
         /\ CopyColor(t, x, y).root = t.root /\ CopyColor(t, x, y).kid = t.kid
         /\ CopyColor(t, x, y).parent = t.parent
         /\ x \in t.red => CopyColor(t, x, y).red = t.red \union {y}
         /\ x \notin t.red => CopyColor(t, x, y).red = t.red \ {y}
BY BlackenIs, ReddenIs DEF CopyColor

\* Only the parent pointer of the kid changes, if there is one.
LEMMA AdoptIs ==
  ASSUME NEW t \in Tree, NEW x \in Pointer, NEW q \in Pointer
  PROVE  /\ Adopt(t, x, q) \in Tree
         /\ Adopt(t, x, q).root = t.root /\ Adopt(t, x, q).kid = t.kid /\ Adopt(t, x, q).red = t.red
         /\ \A z \in Nodes : Adopt(t, x, q).parent[z] = IF z = x THEN q ELSE t.parent[z]
<1>1. CASE x = Null
  BY <1>1, NullNoNode DEF Adopt
<1>2. CASE x # Null
  <2>1. x \in Nodes /\ Adopt(t, x, q) = [t EXCEPT !.parent[x] = q]
    BY <1>2 DEF Adopt, Pointer
  <2>2. QED
    BY <2>1 DEF Tree
<1>3. QED
  BY <1>1, <1>2

\* What was a kid on one side only, or the root, is replaced.
LEMMA ReplaceIs ==
  ASSUME NEW t \in Tree, NEW q \in Pointer, NEW x, NEW y \in Pointer,
         q # Null => \E d \in Sides : t.kid[d][q] = x /\ t.kid[Other(d)][q] # x
  PROVE  /\ Replace(t, q, x, y) \in Tree
         /\ Replace(t, q, x, y).root = IF q = Null THEN y ELSE t.root
         /\ Replace(t, q, x, y).parent = t.parent /\ Replace(t, q, x, y).red = t.red
         /\ \A d \in Sides, z \in Nodes :
               Replace(t, q, x, y).kid[d][z] = IF z = q /\ t.kid[d][z] = x THEN y ELSE t.kid[d][z]
<1>1. CASE q = Null
  <2>1. Replace(t, q, x, y) = [t EXCEPT !.root = y]
    BY <1>1 DEF Replace
  <2>2. QED
    BY <1>1, <2>1, NullNoNode DEF Tree
<1>2. CASE q # Null
  <2>1. q \in Nodes
    BY <1>2 DEF Pointer
  <2>2. PICK d \in Sides : t.kid[d][q] = x /\ t.kid[Other(d)][q] # x
    BY <1>2
  <2>3. SideOf(t, q, x) = d /\ \A e \in Sides : e = d \/ e = Other(d)
    BY <2>2 DEF SideOf, Sides, Other
  <2>4. Replace(t, q, x, y) = [t EXCEPT !.kid[d][q] = y]
    BY <1>2, <2>3 DEF Replace
  <2>5. Replace(t, q, x, y) \in Tree
    <3>1. t.kid \in [Sides -> [Nodes -> Pointer]] /\ t.kid[d] \in [Nodes -> Pointer]
      BY TreeFields
    <3>2. [t.kid[d] EXCEPT ![q] = y] \in [Nodes -> Pointer]
      BY <3>1
    <3>3. [t.kid EXCEPT ![d] = [t.kid[d] EXCEPT ![q] = y]] \in [Sides -> [Nodes -> Pointer]]
      BY <3>1, <3>2
    <3>4. [t EXCEPT !.kid[d][q] = y] = [t EXCEPT !.kid = [t.kid EXCEPT ![d] = [t.kid[d] EXCEPT ![q] = y]]]
      BY DEF Tree
    <3>5. QED
      BY <2>4, <3>3, <3>4 DEF Tree
  <2>6. /\ Replace(t, q, x, y).root = t.root /\ Replace(t, q, x, y).parent = t.parent
        /\ Replace(t, q, x, y).red = t.red
        /\ Replace(t, q, x, y).kid = [t.kid EXCEPT ![d] = [t.kid[d] EXCEPT ![q] = y]]
    BY <2>4 DEF Tree
  <2>7. ASSUME NEW e \in Sides, NEW z \in Nodes
        PROVE  Replace(t, q, x, y).kid[e][z] = IF z = q /\ t.kid[e][z] = x THEN y ELSE t.kid[e][z]
    <3>1. t.kid \in [Sides -> [Nodes -> Pointer]] /\ t.kid[d] \in [Nodes -> Pointer]
      BY DEF Tree
    <3>2. QED
      BY <2>1, <2>2, <2>3, <2>6, <3>1
  <2>8. QED
    BY <1>2, <2>5, <2>6, <2>7
<1>3. QED
  BY <1>1, <1>2

\* The place of a node below its parent.
LEMMA OneSide ==
  ASSUME NEW t, NEW E, Shape(t, E), NEW b, Fits(t, E, b), NEW x \in E, t.parent[x] # Null
  PROVE  /\ t.parent[x] \in E /\ x # t.root
         /\ \E d \in Sides : t.kid[d][t.parent[x]] = x /\ t.kid[Other(d)][t.parent[x]] # x
<1>1. E \subseteq Nodes /\ Null \notin E
  BY NullNoNode DEF Shape
<1>2. t.parent[x] \in E /\ x # t.root
  BY <1>1 DEF Shape
<1>3. PICK d \in Sides : t.kid[d][t.parent[x]] = x
  BY <1>2 DEF Shape
<1>4. t.kid[Other(d)][t.parent[x]] # x
  <2>1. SUFFICES ASSUME t.kid[Other(d)][t.parent[x]] = x PROVE FALSE
    OBVIOUS
  <2>2. b[Other(d)][x] = t.parent[x] /\ b[d][x] = t.parent[x] /\ Other(d) \in Sides
    BY <1>1, <1>2, <1>3, <2>1, Order DEF Fits, Inherited, OrderLaws
  <2>3. Short(d, x, t.parent[x]) /\ Short(Other(d), x, t.parent[x])
    BY <2>2 DEF Fits, BoundsRight
  <2>4. QED
    BY <1>1, <1>2, <2>2, <2>3, Order DEF Short, OrderLaws
<1>5. QED
  BY <1>2, <1>3, <1>4

\* A kid is on its side below its parent.
LEMMA KidBelow ==
  ASSUME NEW t, NEW E, Shape(t, E), NEW b, Fits(t, E, b), NEW x \in E, NEW d \in Sides,
         t.kid[d][x] # Null
  PROVE  /\ t.kid[d][x] \in E /\ t.parent[t.kid[d][x]] = x /\ t.kid[d][x] # x /\ t.kid[Other(d)][x] # t.kid[d][x]
         /\ Ord(d, x, t.kid[d][x]) /\ In(b, x, t.kid[d][x]) /\ ~In(b, t.kid[d][x], x)
<1> DEFINE k == t.kid[d][x]
           o == Other(d)
<1>1. /\ E \subseteq Nodes /\ x \in Nodes /\ o \in Sides /\ x # Null /\ k \in E /\ k \in Nodes
      /\ t.parent[k] = x
  BY NullNoNode, Order DEF Shape, OrderLaws
<1>2. b[o][k] = x /\ Short(o, k, x) /\ b[d][k] = b[d][x]
  BY <1>1 DEF Fits, Inherited, BoundsRight
<1>3. k # x /\ Ord(d, x, k)
  BY <1>1, <1>2, Order DEF Short, OrderLaws
<1>4. In(b, x, k)
  BY <1>1, <1>2 DEF Fits, Nested
<1>5. ~In(b, k, x)
  BY <1>1, <1>3, <1>4 DEF Fits, Nested
<1>6. t.kid[o][x] # k
  <2>1. SUFFICES ASSUME t.kid[o][x] = k PROVE FALSE
    OBVIOUS
  <2>2. b[Other(o)][k] = x /\ Other(o) = d /\ Short(d, k, x)
    BY <1>1, <2>1, Order DEF Fits, Inherited, BoundsRight, OrderLaws
  <2>3. QED
    BY <1>1, <1>3, <2>2, Order DEF Short, OrderLaws
<1>7. QED
  BY <1>1, <1>3, <1>4, <1>5, <1>6

\* Where the parent of a node is.
LEMMA ParentAbove ==
  ASSUME NEW t, NEW E, Shape(t, E), NEW b, Fits(t, E, b), NEW x \in E, t.parent[x] # Null
  PROVE  /\ t.parent[x] \in E /\ t.parent[x] # x /\ x # t.root
         /\ In(b, t.parent[x], x) /\ ~In(b, x, t.parent[x])
<1>1. PICK d \in Sides : /\ t.kid[d][t.parent[x]] = x
                         /\ t.parent[x] \in E /\ x # t.root /\ x # Null
  BY OneSide, NullNoNode DEF Shape
<1>2. QED
  BY <1>1, KidBelow

\* A rotation, field by field.
Turned(t, s, x, r, m) == [t EXCEPT !.kid[s][r] = x, !.kid[Other(s)][x] = m, !.parent[x] = r]

\* The three pointers that are written between the two nodes of a rotation.
LEMMA TurnIs ==
  ASSUME NEW t \in Tree, NEW s \in Sides, NEW x \in Nodes, NEW r \in Nodes, NEW m \in Pointer, x # r
  PROVE  /\ Turned(t, s, x, r, m) \in Tree
         /\ Turned(t, s, x, r, m).root = t.root /\ Turned(t, s, x, r, m).red = t.red
         /\ \A y \in Nodes : Turned(t, s, x, r, m).parent[y] = IF y = x THEN r ELSE t.parent[y]
         /\ \A d \in Sides, y \in Nodes :
               Turned(t, s, x, r, m).kid[d][y] =
                  IF d = s /\ y = r THEN x ELSE IF d = Other(s) /\ y = x THEN m ELSE t.kid[d][y]
<1> DEFINE u == Turned(t, s, x, r, m)
           o == Other(s)
           f == [t.kid[s] EXCEPT ![r] = x]
           k == [t.kid EXCEPT ![s] = f]
           h == [k[o] EXCEPT ![x] = m]
<1>1. o \in Sides /\ o # s /\ \A d \in Sides : d = s \/ d = o
  BY Order DEF OrderLaws
<1>2. t.kid \in [Sides -> [Nodes -> Pointer]] /\ t.kid[s] \in [Nodes -> Pointer]
      /\ t.kid[o] \in [Nodes -> Pointer] /\ t.parent \in [Nodes -> Pointer]
  BY <1>1, TreeFields
<1>3. f \in [Nodes -> Pointer]
  BY <1>2 DEF Pointer
<1>4. k \in [Sides -> [Nodes -> Pointer]] /\ k[o] = t.kid[o] /\ k[s] = f
  BY <1>1, <1>2, <1>3
<1>5. h \in [Nodes -> Pointer]
  BY <1>2, <1>4
<1>6. [k EXCEPT ![o] = h] \in [Sides -> [Nodes -> Pointer]]
  BY <1>4, <1>5
<1>7. [t.parent EXCEPT ![x] = r] \in [Nodes -> Pointer]
  BY <1>2 DEF Pointer
<1>8. u = [t EXCEPT !.kid = [k EXCEPT ![o] = h], !.parent = [t.parent EXCEPT ![x] = r]]
  BY <1>1, <1>2, <1>4 DEF Tree, Turned
<1>9. u \in Tree
  BY <1>6, <1>7, <1>8 DEF Tree
<1>10. /\ u.root = t.root /\ u.red = t.red /\ u.parent = [t.parent EXCEPT ![x] = r]
       /\ u.kid = [k EXCEPT ![o] = h]
  BY <1>8 DEF Tree
<1>11. ASSUME NEW d \in Sides, NEW y \in Nodes
       PROVE  u.kid[d][y] = IF d = s /\ y = r THEN x ELSE IF d = o /\ y = x THEN m ELSE t.kid[d][y]
  <2>1. u.kid[s] = f /\ u.kid[o] = h
    BY <1>1, <1>4, <1>10
  <2>2. f[y] = (IF y = r THEN x ELSE t.kid[s][y]) /\ h[y] = IF y = x THEN m ELSE t.kid[o][y]
    BY <1>2, <1>4
  <2>3. QED
    BY <1>1, <2>1, <2>2
<1>12. QED
  BY <1>2, <1>9, <1>10, <1>11

\* The code of the rotation does what Rotated says.
LEMMA RotateIs ==
  ASSUME NEW t, NEW E, Shape(t, E), Clean(t, E), NEW b, Fits(t, E, b), NEW s \in Sides, NEW x \in E,
         t.kid[Other(s)][x] # Null
  PROVE  /\ Rotate(t, s, x) \in Tree /\ Rotate(t, s, x).red = t.red
         /\ Rotated(t, Rotate(t, s, x), s, x, t.kid[Other(s)][x])
<1> DEFINE q == t.parent[x]
           o == Other(s)
           r == t.kid[o][x]
           m == t.kid[s][r]
           t1 == Replace(t, q, x, r)
           t2 == Adopt(t1, r, q)
           t3 == [t2 EXCEPT !.kid[s][r] = x, !.kid[o][x] = t.kid[s][r], !.parent[x] = r]
           u == Adopt(t3, m, x)
<1>1. /\ E \subseteq Nodes /\ x \in Nodes /\ o \in Sides /\ o # s /\ x # Null /\ Null \notin E
      /\ t \in Tree /\ \A d \in Sides : d = s \/ d = o
  BY NullNoNode, Order DEF Shape, OrderLaws
<1>2. /\ r \in E /\ r \in Nodes /\ r # Null /\ t.parent[r] = x /\ r # x
      /\ In(b, x, r) /\ ~In(b, r, x)
  BY <1>1, KidBelow, SMTT(30)
<1>3. m \in Pointer /\ (m # Null => m \in E /\ t.parent[m] = r /\ m # r /\ m # x)
  BY <1>1, <1>2, KidBelow DEF Shape, Pointer
<1>4. q \in Pointer /\ (q # Null => q \in E /\ q # x /\ q # r)
  BY <1>1, <1>2, ParentAbove DEF Pointer
<1>5. /\ t1 \in Tree /\ t1.root = (IF q = Null THEN r ELSE t.root) /\ t1.parent = t.parent /\ t1.red = t.red
      /\ \A d \in Sides, z \in Nodes : t1.kid[d][z] = IF z = q /\ t.kid[d][z] = x THEN r ELSE t.kid[d][z]
  <2>1. q # Null => \E d \in Sides : t.kid[d][q] = x /\ t.kid[Other(d)][q] # x
    BY OneSide
  <2>2. QED
    BY <1>1, <1>2, <1>4, <2>1, ReplaceIs DEF Pointer
<1>6. /\ t2 \in Tree /\ t2.root = t1.root /\ t2.kid = t1.kid /\ t2.red = t1.red
      /\ \A z \in Nodes : t2.parent[z] = IF z = r THEN q ELSE t1.parent[z]
  <2>1. r \in Pointer
    BY <1>2 DEF Pointer
  <2> HIDE DEF t1, q, r
  <2>2. QED
    BY <1>4, <1>5, <2>1, AdoptIs
<1>7. /\ t3 \in Tree /\ t3.root = t2.root /\ t3.red = t2.red
      /\ \A y \in Nodes : t3.parent[y] = IF y = x THEN r ELSE t2.parent[y]
      /\ \A d \in Sides, y \in Nodes :
            t3.kid[d][y] = IF d = s /\ y = r THEN x ELSE IF d = o /\ y = x THEN m ELSE t2.kid[d][y]
  <2>1. t3 = Turned(t2, s, x, r, m)
    BY DEF Turned
  <2> HIDE DEF t2, t3, r, m
  <2>2. t2 \in Tree /\ x \in Nodes /\ r \in Nodes /\ m \in Pointer /\ x # r
    BY <1>1, <1>2, <1>3, <1>6
  <2>3. QED
    BY <2>1, <2>2, TurnIs, SMTT(30)
<1>8. /\ u \in Tree /\ u.root = t3.root /\ u.kid = t3.kid /\ u.red = t3.red
      /\ \A z \in Nodes : u.parent[z] = IF z = m THEN x ELSE t3.parent[z]
  <2>1. x \in Pointer
    BY <1>1 DEF Pointer
  <2> HIDE DEF t3, m
  <2>2. QED
    BY <1>3, <1>7, <2>1, AdoptIs
<1>9. u = Rotate(t, s, x)
  BY DEF Rotate
<1> HIDE DEF t1, t2, t3, u
<1>10. u.red = t.red /\ u.root = IF q = Null THEN r ELSE t.root
  BY <1>5, <1>6, <1>7, <1>8
<1>11. ASSUME NEW y \in Nodes
       PROVE  u.parent[y] = IF y = r THEN q ELSE IF y = x THEN r ELSE IF y = m THEN x ELSE t.parent[y]
  <2>1. t3.parent[y] = IF y = x THEN r ELSE IF y = r THEN q ELSE t.parent[y]
    BY <1>5, <1>6, <1>7
  <2>2. QED
    BY <1>2, <1>3, <1>8, <2>1, NullNoNode
<1>12. ASSUME NEW d \in Sides, NEW y \in Nodes
       PROVE  u.kid[d][y] = IF y = x THEN IF d = s THEN t.kid[s][x] ELSE m
                            ELSE IF y = r THEN IF d = s THEN x ELSE t.kid[d][r]
                            ELSE IF t.kid[d][y] = x THEN r ELSE t.kid[d][y]
  <2>1. t.kid[d][y] = x => y = q
    BY <1>1 DEF Shape, Clean
  <2>2. u.kid[d][y] = IF d = s /\ y = r THEN x ELSE IF d = o /\ y = x THEN m
                      ELSE IF y = q /\ t.kid[d][y] = x THEN r ELSE t.kid[d][y]
    BY <1>5, <1>6, <1>7, <1>8
  <2>3. q # x /\ q # r
    BY <1>1, <1>2, <1>4
  <2>4. QED
    BY <1>1, <1>2, <2>1, <2>2, <2>3
<1>13. Rotated(t, u, s, x, r)
  BY <1>10, <1>11, <1>12 DEF Rotated
<1>14. QED
  BY <1>8, <1>9, <1>10, <1>13

\* The code that takes a node out does what Removed says.
LEMMA TakeOutIs ==
  ASSUME NEW t, NEW E, Shape(t, E), NEW b, Fits(t, E, b), NEW x \in E, NEW e \in Sides,
         t.kid[Other(e)][x] = Null
  PROVE  /\ TakeOut(t, x) \in Tree /\ TakeOut(t, x).red = t.red
         /\ Removed(t, TakeOut(t, x), x, t.kid[e][x], e)
<1> DEFINE q == t.parent[x]
           k == t.kid[e][x]
           t1 == Replace(t, q, x, k)
           u == Adopt(t1, k, q)
<1>1. /\ E \subseteq Nodes /\ x \in Nodes /\ t \in Tree /\ k \in Pointer
      /\ q \in Pointer
  BY DEF Shape, Pointer
<1>2. OnlyKid(t, x) = k
  BY DEF OnlyKid, Sides, Other
<1>3. u = TakeOut(t, x)
  BY <1>2 DEF TakeOut
<1>4. /\ t1 \in Tree /\ t1.root = (IF q = Null THEN k ELSE t.root) /\ t1.parent = t.parent /\ t1.red = t.red
      /\ \A d \in Sides, z \in Nodes : t1.kid[d][z] = IF z = q /\ t.kid[d][z] = x THEN k ELSE t.kid[d][z]
  <2>1. q # Null => \E d \in Sides : t.kid[d][q] = x /\ t.kid[Other(d)][q] # x
    BY OneSide
  <2>2. QED
    BY <1>1, <2>1, ReplaceIs
<1>5. /\ u \in Tree /\ u.root = t1.root /\ u.kid = t1.kid /\ u.red = t1.red
      /\ \A z \in Nodes : u.parent[z] = IF z = k THEN q ELSE t1.parent[z]
  <2> HIDE DEF t1, q, k
  <2>1. QED
    BY <1>1, <1>4, AdoptIs
<1> HIDE DEF t1, u
<1>6. Removed(t, u, x, k, e)
  BY <1>4, <1>5 DEF Removed
<1>7. QED
  BY <1>3, <1>4, <1>5, <1>6

\* The fields of a node that takes a place.
Settled(t, y, l, r, q) == [t EXCEPT !.kid["left"][y] = l, !.kid["right"][y] = r, !.parent[y] = q]

\* The three fields of the node that takes the place.
LEMMA SettledIs ==
  ASSUME NEW t \in Tree, NEW y \in Nodes, NEW l \in Pointer, NEW r \in Pointer, NEW q \in Pointer
  PROVE  /\ Settled(t, y, l, r, q) \in Tree
         /\ Settled(t, y, l, r, q).root = t.root /\ Settled(t, y, l, r, q).red = t.red
         /\ \A z \in Nodes : Settled(t, y, l, r, q).parent[z] = IF z = y THEN q ELSE t.parent[z]
         /\ \A d \in Sides, z \in Nodes :
               Settled(t, y, l, r, q).kid[d][z] = IF z = y THEN IF d = "left" THEN l ELSE r ELSE t.kid[d][z]
<1> DEFINE u == Settled(t, y, l, r, q)
           f == [t.kid["left"] EXCEPT ![y] = l]
           h == [t.kid["right"] EXCEPT ![y] = r]
           k == [t.kid EXCEPT !["left"] = f]
           g == [t.parent EXCEPT ![y] = q]
<1>1. "left" \in Sides /\ "right" \in Sides /\ \A d \in Sides : d = "left" \/ d = "right"
  BY DEF Sides
<1>2. /\ t.kid \in [Sides -> [Nodes -> Pointer]] /\ t.kid["left"] \in [Nodes -> Pointer]
      /\ t.kid["right"] \in [Nodes -> Pointer] /\ t.parent \in [Nodes -> Pointer]
  BY <1>1, TreeFields
<1>3. f \in [Nodes -> Pointer] /\ h \in [Nodes -> Pointer] /\ g \in [Nodes -> Pointer]
  BY <1>2
<1>4. k \in [Sides -> [Nodes -> Pointer]] /\ k["right"] = t.kid["right"] /\ k["left"] = f
  BY <1>1, <1>2, <1>3
<1>5. [k EXCEPT !["right"] = h] \in [Sides -> [Nodes -> Pointer]]
  BY <1>3, <1>4
<1>6. u = [t EXCEPT !.kid = [k EXCEPT !["right"] = h], !.parent = g]
  BY <1>1, <1>2, <1>4 DEF Tree, Settled
<1>7. u \in Tree
  BY <1>3, <1>5, <1>6 DEF Tree
<1>8. u.root = t.root /\ u.red = t.red /\ u.parent = g /\ u.kid = [k EXCEPT !["right"] = h]
  BY <1>6 DEF Tree
<1>9. ASSUME NEW d \in Sides, NEW z \in Nodes
      PROVE  u.kid[d][z] = IF z = y THEN IF d = "left" THEN l ELSE r ELSE t.kid[d][z]
  <2>1. u.kid["left"] = f /\ u.kid["right"] = h
    BY <1>1, <1>4, <1>8
  <2>2. f[z] = (IF z = y THEN l ELSE t.kid["left"][z]) /\ h[z] = IF z = y THEN r ELSE t.kid["right"][z]
    BY <1>2
  <2>3. QED
    BY <1>1, <2>1, <2>2
<1>10. QED
  BY <1>2, <1>7, <1>8, <1>9

\* The code that puts one node in the place of another does what Placed says.
LEMMA TakePlaceIs ==
  ASSUME NEW t, NEW E, Shape(t, E), NEW b, Fits(t, E, b), NEW x \in E, NEW y \in Nodes \ E
  PROVE  /\ TakePlace(t, x, y) \in Tree /\ Placed(t, TakePlace(t, x, y), x, y)
         /\ x \in t.red => TakePlace(t, x, y).red = t.red \union {y}
         /\ x \notin t.red => TakePlace(t, x, y).red = t.red \ {y}
<1> DEFINE q == t.parent[x]
           l == t.kid["left"][x]
           r == t.kid["right"][x]
           t1 == Replace(t, q, x, y)
           t2 == Settled(t1, y, l, r, q)
           t3 == Adopt(t2, l, y)
           t4 == Adopt(t3, r, y)
           u == CopyColor(t4, x, y)
<1>1. /\ E \subseteq Nodes /\ x \in Nodes /\ t \in Tree /\ y \in Nodes /\ y \in Pointer /\ x # y
      /\ "left" \in Sides /\ "right" \in Sides /\ \A d \in Sides : d = "left" \/ d = "right"
      /\ y # Null
  BY NullNoNode DEF Shape, Pointer, Sides
<1>2. /\ l \in Pointer /\ r \in Pointer /\ q \in Pointer
      /\ l \in E \union {Null} /\ r \in E \union {Null}
  BY <1>1 DEF Shape, Pointer
<1>3. u = TakePlace(t, x, y)
  BY DEF TakePlace, Settled
<1>4. /\ t1 \in Tree /\ t1.root = (IF q = Null THEN y ELSE t.root) /\ t1.parent = t.parent /\ t1.red = t.red
      /\ \A d \in Sides, z \in Nodes : t1.kid[d][z] = IF z = q /\ t.kid[d][z] = x THEN y ELSE t.kid[d][z]
  <2>1. q # Null => \E d \in Sides : t.kid[d][q] = x /\ t.kid[Other(d)][q] # x
    BY OneSide
  <2>2. QED
    BY <1>1, <1>2, <2>1, ReplaceIs, SMTT(30)
<1> HIDE DEF t1, q, l, r
<1>5. /\ t2 \in Tree /\ t2.root = t1.root /\ t2.red = t1.red
      /\ \A z \in Nodes : t2.parent[z] = IF z = y THEN q ELSE t1.parent[z]
      /\ \A d \in Sides, z \in Nodes :
            t2.kid[d][z] = IF z = y THEN IF d = "left" THEN l ELSE r ELSE t1.kid[d][z]
  <2>1. t1 \in Tree /\ y \in Nodes /\ l \in Pointer /\ r \in Pointer /\ q \in Pointer
    BY <1>1, <1>2, <1>4
  <2>2. QED
    BY <2>1, SettledIs, SMTT(30)
<1> HIDE DEF t2
<1>6. /\ t3 \in Tree /\ t3.root = t2.root /\ t3.kid = t2.kid /\ t3.red = t2.red
      /\ \A z \in Nodes : t3.parent[z] = IF z = l THEN y ELSE t2.parent[z]
  BY <1>1, <1>2, <1>5, AdoptIs
<1> HIDE DEF t3
<1>7. /\ t4 \in Tree /\ t4.root = t3.root /\ t4.kid = t3.kid /\ t4.red = t3.red
      /\ \A z \in Nodes : t4.parent[z] = IF z = r THEN y ELSE t3.parent[z]
  BY <1>1, <1>2, <1>6, AdoptIs
<1> HIDE DEF t4
<1>8. /\ u \in Tree /\ u.root = t4.root /\ u.kid = t4.kid /\ u.parent = t4.parent
      /\ x \in t4.red => u.red = t4.red \union {y}
      /\ x \notin t4.red => u.red = t4.red \ {y}
  <2>1. t4 \in Tree /\ x \in Nodes /\ y \in Nodes
    BY <1>1, <1>7
  <2>2. QED
    BY <2>1, CopyColorIs
<1> HIDE DEF u
<1>9. /\ x \in t.red => u.red = t.red \union {y}
      /\ x \notin t.red => u.red = t.red \ {y}
  BY <1>4, <1>5, <1>6, <1>7, <1>8
<1>10. u.root = IF q = Null THEN y ELSE t.root
  BY <1>4, <1>5, <1>6, <1>7, <1>8
<1>11. ASSUME NEW z \in Nodes
       PROVE  u.parent[z] = IF z = y THEN q ELSE IF z = l \/ z = r THEN y ELSE t.parent[z]
  <2>1. y # l /\ y # r
    BY <1>1, <1>2
  <2>2. QED
    BY <1>4, <1>5, <1>6, <1>7, <1>8, <2>1
<1>12. ASSUME NEW d \in Sides, NEW z \in Nodes
       PROVE  u.kid[d][z] = IF z = y THEN t.kid[d][x] ELSE IF z = q /\ t.kid[d][z] = x THEN y ELSE t.kid[d][z]
  <2>1. t.kid[d][x] = IF d = "left" THEN l ELSE r
    BY <1>1 DEF l, r
  <2>2. QED
    BY <1>4, <1>5, <1>6, <1>7, <1>8, <2>1
<1>13. \A z \in Nodes : (\E d \in Sides : z = t.kid[d][x]) <=> z = l \/ z = r
  BY <1>1 DEF l, r
<1>14. Placed(t, u, x, y)
  BY <1>10, <1>11, <1>12, <1>13 DEF Placed, q
<1>15. QED
  BY <1>3, <1>8, <1>9, <1>14

\* Only the fields of the unlinked node are reset.
LEMMA ForgetIs ==
  ASSUME NEW t \in Tree, NEW x \in Nodes
  PROVE  /\ Forget(t, x) \in Tree
         /\ Forget(t, x).root = t.root /\ Forget(t, x).red = t.red \ {x}
         /\ \A z \in Nodes : Forget(t, x).parent[z] = IF z = x THEN Null ELSE t.parent[z]
         /\ \A d \in Sides, z \in Nodes : Forget(t, x).kid[d][z] = IF z = x THEN Null ELSE t.kid[d][z]
<1> DEFINE v == Blacken(t, x)
           u == Settled(v, x, Null, Null, Null)
<1>1. /\ v \in Tree /\ v.root = t.root /\ v.kid = t.kid /\ v.parent = t.parent /\ v.red = t.red \ {x}
      /\ Null \in Pointer
  BY BlackenIs DEF Pointer
<1>2. u = Forget(t, x)
  BY DEF Forget, Settled
<1> HIDE DEF v
<1>3. /\ u \in Tree /\ u.root = v.root /\ u.red = v.red
      /\ \A z \in Nodes : u.parent[z] = IF z = x THEN Null ELSE v.parent[z]
      /\ \A d \in Sides, z \in Nodes : u.kid[d][z] = IF z = x THEN IF d = "left" THEN Null ELSE Null ELSE v.kid[d][z]
  BY <1>1, SettledIs
<1> HIDE DEF u
<1>4. QED
  BY <1>1, <1>2, <1>3

\* Only the fields of the new leaf, and one of its parent, are written.
LEMMA LinkedIs ==
  ASSUME tree \in Tree, NEW x \in Nodes, NEW q \in Pointer
  PROVE  /\ Linked(x, q) \in Tree
         /\ Linked(x, q).root = IF q = Null THEN x ELSE tree.root
         /\ q = Null => Linked(x, q).red = tree.red \ {x}
         /\ q # Null => Linked(x, q).red = tree.red \union {x}
         /\ \A z \in Nodes : Linked(x, q).parent[z] = IF z = x THEN q ELSE tree.parent[z]
         /\ \A s \in Sides, y \in Nodes :
               Linked(x, q).kid[s][y] =
                  IF y = x THEN Null
                  ELSE IF y = q /\ s = (IF x > q THEN "right" ELSE "left") THEN x ELSE tree.kid[s][y]
<1> DEFINE k == [s \in Sides |-> [y \in Nodes |->
                   IF y = x THEN Null
                   ELSE IF y = q /\ s = (IF x > q THEN "right" ELSE "left") THEN x ELSE tree.kid[s][y]]]
           g == [tree.parent EXCEPT ![x] = q]
           c == IF q = Null THEN tree.red \ {x} ELSE tree.red \union {x}
           o == IF q = Null THEN x ELSE tree.root
           u == Linked(x, q)
<1>1. \A s \in Sides, y \in Nodes : tree.kid[s][y] \in Pointer
  BY TreeFields
<1>2. /\ k \in [Sides -> [Nodes -> Pointer]] /\ g \in [Nodes -> Pointer]
      /\ c \in SUBSET Nodes /\ o \in Pointer
  BY <1>1, TreeFields DEF Pointer
<1>3. u = [root |-> o, kid |-> k, parent |-> g, red |-> c]
  <2>1. u = [tree EXCEPT !.root = o, !.kid = k, !.parent[x] = q, !.red = c]
    BY DEF Linked
  <2> HIDE DEF u, o, k, c
  <2>2. u = [tree EXCEPT !.root = o, !.kid = k, !.parent = g, !.red = c]
    BY <2>1 DEF Tree
  <2>3. QED
    BY <2>2 DEF Tree
<1>4. u \in Tree
  BY <1>2, <1>3 DEF Tree
<1>5. u.root = o /\ u.kid = k /\ u.parent = g /\ u.red = c
  BY <1>3
<1>6. \A z \in Nodes : u.parent[z] = IF z = x THEN q ELSE tree.parent[z]
  BY <1>5, TreeFields
<1>7. QED
  BY <1>4, <1>5, <1>6

\* The fields of the nodes of E are the same in both trees.
Same(t, u, E) ==
  /\ u.root = t.root
  /\ \A z \in E : u.parent[z] = t.parent[z] /\ \A d \in Sides : u.kid[d][z] = t.kid[d][z]

\* What does not change the pointers of the nodes keeps the tree.
LEMMA SameShape ==
  ASSUME NEW t, NEW u \in Tree, NEW E, Shape(t, E), NEW b, Fits(t, E, b), Same(t, u, E)
  PROVE  Shape(u, E) /\ Fits(u, E, b)
<1>1. E \subseteq Nodes /\ Null \notin E
  BY NullNoNode DEF Shape
<1>2. Shape(u, E)
  <2>1. /\ u.root \in E \union {Null}
        /\ u.root = Null => E = {}
        /\ u.root # Null => u.parent[u.root] = Null
    BY <1>1 DEF Shape, Same
  <2>2. ASSUME NEW x \in E, x # u.root
        PROVE  u.parent[x] \in E /\ \E d \in Sides : u.kid[d][u.parent[x]] = x
    BY <2>2 DEF Shape, Same
  <2>3. ASSUME NEW x \in E, NEW d \in Sides, u.kid[d][x] # Null
        PROVE  u.kid[d][x] \in E /\ u.parent[u.kid[d][x]] = x
    BY <2>3 DEF Shape, Same
  <2>4. QED
    BY <1>1, <2>1, <2>2, <2>3 DEF Shape
<1>3. Inherited(u, E, b) /\ NoneBetween(u, E, b)
  BY <1>1 DEF Fits, Inherited, NoneBetween, Same
<1>4. QED
  BY <1>2, <1>3 DEF Fits

\* Linked nodes have a parent, or are the root; the others have none.
LEMMA ElemsAre ==
  ASSUME NEW t, NEW E, Shape(t, E), Clean(t, E)
  PROVE  E = {x \in Nodes : x = t.root \/ t.parent[x] # Null}
BY NullNoNode DEF Shape, Clean

------------------------------------------------------------------------------
(* The operations keep the search tree                                     *)

Grown(t, E, b) == Shape(t, E) /\ Clean(t, E) /\ Fits(t, E, b)

\* Other colors: u has the pointers of t.
Recolored(t, u, E) ==
  /\ u \in Tree
  /\ u.root = t.root /\ u.kid = t.kid /\ u.parent = t.parent
  /\ u.red \subseteq E

\* Colors alone do not disturb the tree.
LEMMA RecolorGrown ==
  ASSUME NEW t, NEW E, NEW b, Grown(t, E, b), NEW u, Recolored(t, u, E)
  PROVE  Grown(u, E, b)
<1>1. Same(t, u, E)
  BY DEF Same, Recolored
<1>2. Shape(u, E) /\ Fits(u, E, b)
  BY <1>1, SameShape DEF Grown, Recolored
<1>3. Clean(u, E)
  BY DEF Grown, Clean, Recolored
<1>4. QED
  BY <1>2, <1>3 DEF Grown

\* A rotation writes the pointers of exactly the nodes it moves, and the tree still
\* hangs together and keeps the order.
LEMMA RotateGrown ==
  ASSUME NEW t, NEW E, NEW b, Grown(t, E, b), NEW s \in Sides, NEW x \in E, t.kid[Other(s)][x] # Null
  PROVE  /\ Rotated(t, Rotate(t, s, x), s, x, t.kid[Other(s)][x])
         /\ Rotate(t, s, x).red = t.red
         /\ \E c : Grown(Rotate(t, s, x), E, c)
<1> DEFINE u == Rotate(t, s, x)
           r == t.kid[Other(s)][x]
<1>1. Shape(t, E) /\ Clean(t, E) /\ Fits(t, E, b)
  BY DEF Grown
<1>2. r \in E /\ Other(s) \in Sides
  BY <1>1, Order DEF Shape, OrderLaws
<1>3. u \in Tree /\ u.red = t.red /\ Rotated(t, u, s, x, r)
  BY <1>1, RotateIs
<1> HIDE DEF u
<1>4. Shape(u, E)
  BY <1>1, <1>2, <1>3, RotateShape
<1>5. Fits(u, E, TurnedBounds(b, s, x, r))
  BY <1>1, <1>2, <1>3, RotateFits
<1>6. Clean(u, E)
  <2>1. SUFFICES ASSUME NEW y \in Nodes \ E
                 PROVE  u.parent[y] = Null /\ y \notin u.red /\ \A d \in Sides : u.kid[d][y] = Null
    BY DEF Clean
  <2>2. x \in E /\ x # Null /\ y # x /\ y # r /\ y # Null
    BY <1>1, <1>2, NullNoNode DEF Shape
  <2>3. y # t.kid[s][r]
    BY <1>1, <1>2, <2>2 DEF Shape
  <2>4. t.parent[y] = Null /\ y \notin t.red /\ \A d \in Sides : t.kid[d][y] = Null
    BY <1>1 DEF Clean
  <2>5. QED
    BY <1>3, <2>2, <2>3, <2>4 DEF Rotated
<1>7. Grown(u, E, TurnedBounds(b, s, x, r))
  BY <1>4, <1>5, <1>6 DEF Grown
<1>8. QED
  BY <1>3, <1>7 DEF u

\* A node with at most one kid is unlinked.
LEMMA OuterGrown ==
  ASSUME NEW t, NEW E, NEW b, Grown(t, E, b), NEW x \in E, NEW e \in Sides, t.kid[Other(e)][x] = Null,
         NEW v, Recolored(TakeOut(t, x), v, E)
  PROVE  /\ Removed(t, TakeOut(t, x), x, t.kid[e][x], e)
         /\ TakeOut(t, x).red = t.red /\ TakeOut(t, x) \in Tree
         /\ \E c : Grown(Forget(v, x), E \ {x}, c)
<1> DEFINE u == TakeOut(t, x)
           k == t.kid[e][x]
           w == Forget(v, x)
           F == E \ {x}
           c == PassedBounds(b, x)
<1>1. Shape(t, E) /\ Clean(t, E) /\ Fits(t, E, b)
  BY DEF Grown
<1>2. x \in Nodes /\ E \subseteq Nodes
  BY <1>1 DEF Shape
<1>3. u \in Tree /\ u.red = t.red /\ Removed(t, u, x, k, e)
  BY <1>1, TakeOutIs
<1> HIDE DEF u
<1>4. Shape(u, F) /\ Fits(u, F, c)
  BY <1>1, <1>3, RemoveShape, RemoveFits
<1>5. v \in Tree /\ v.root = u.root /\ v.kid = u.kid /\ v.parent = u.parent /\ v.red \subseteq E
  BY DEF Recolored, u
<1>6. /\ w \in Tree /\ w.root = v.root /\ w.red = v.red \ {x}
      /\ \A z \in Nodes : w.parent[z] = IF z = x THEN Null ELSE v.parent[z]
      /\ \A d \in Sides, z \in Nodes : w.kid[d][z] = IF z = x THEN Null ELSE v.kid[d][z]
  BY <1>2, <1>5, ForgetIs
<1> HIDE DEF w, c
<1>7. Same(u, w, F)
  BY <1>2, <1>5, <1>6 DEF Same
<1>8. Shape(w, F) /\ Fits(w, F, c)
  BY <1>4, <1>6, <1>7, SameShape
<1>9. Clean(w, F)
  <2>1. SUFFICES ASSUME NEW y \in Nodes \ F, y # x
                 PROVE  w.parent[y] = Null /\ y \notin w.red /\ \A d \in Sides : w.kid[d][y] = Null
    BY <1>2, <1>6 DEF Clean
  <2>2. y \notin E /\ t.parent[y] = Null /\ y # Null /\ \A d \in Sides : t.kid[d][y] = Null
    BY <1>1, <2>1, NullNoNode DEF Clean
  <2>3. y # k
    BY <1>1, <2>2 DEF Shape
  <2>4. u.parent[y] = Null /\ \A d \in Sides : u.kid[d][y] = Null
    BY <1>2, <1>3, <2>2, <2>3, NullNoNode DEF Removed
  <2>5. QED
    BY <1>5, <1>6, <2>1, <2>2, <2>4
<1>10. Grown(w, F, c)
  BY <1>8, <1>9 DEF Grown
<1>11. QED
  BY <1>3, <1>10 DEF w, u

\* Node y is taken out of t, which gives u, and takes the place of x: v, and
\* then w without x.
Replaced(t, E, x, y, k, u, v, w) ==
  /\ x # y /\ t.parent[y] # Null
  /\ Removed(t, u, y, k, "right") /\ u.red = t.red /\ u \in Tree
  /\ Shape(u, E \ {y}) /\ \E c : Fits(u, E \ {y}, c)
  /\ Placed(u, v, x, y) /\ v \in Tree
  /\ x \in t.red => v.red = t.red \union {y}
  /\ x \notin t.red => v.red = t.red \ {y}
  /\ \E c : Grown(w, E \ {x}, c)

\* A node with two kids is unlinked: the next node, without a left kid, takes
\* its place.
LEMMA InnerGrown ==
  ASSUME NEW t, NEW E, NEW b, Grown(t, E, b), NEW x \in E, NEW y \in E,
         t.kid["left"][y] = Null, b["left"][y] = x
  PROVE  Replaced(t, E, x, y, t.kid["right"][y], TakeOut(t, y), TakePlace(TakeOut(t, y), x, y),
                  Forget(TakePlace(TakeOut(t, y), x, y), x))
<1> DEFINE u == TakeOut(t, y)
           k == t.kid["right"][y]
           v == TakePlace(u, x, y)
           w == Forget(v, x)
           D == E \ {y}
           F == E \ {x}
           a == PassedBounds(b, y)
           c == RenamedBounds(D, a, x, y)
<1>1. Shape(t, E) /\ Clean(t, E) /\ Fits(t, E, b)
  BY DEF Grown
<1>2. /\ x \in Nodes /\ y \in Nodes /\ E \subseteq Nodes /\ Null \notin E
      /\ "left" \in Sides /\ "right" \in Sides /\ Other("right") = "left" /\ Other("left") = "right"
      /\ \A d \in Sides : d = "left" \/ d = "right"
  BY <1>1, NullNoNode DEF Shape, Sides, Other
<1>3. Ord("left", y, x) /\ x # y
  <2>1. Short("left", y, x)
    BY <1>1, <1>2 DEF Fits, BoundsRight
  <2>2. QED
    BY <1>2, <2>1, Order DEF Short, OrderLaws
<1>4. t.parent[y] # Null
  <2>1. SUFFICES ASSUME t.parent[y] = Null PROVE FALSE
    OBVIOUS
  <2>2. y = t.root /\ t.root # Null
    BY <1>1, <1>2, <2>1 DEF Shape
  <2>3. b["left"][y] = Null
    BY <1>1, <1>2, <2>2 DEF Fits, Inherited
  <2>4. QED
    BY <1>2, <2>3
<1>5. u \in Tree /\ u.red = t.red /\ Removed(t, u, y, k, "right")
  BY <1>1, <1>2, TakeOutIs
<1> HIDE DEF u, k
<1>6. Shape(u, D) /\ Fits(u, D, a)
  BY <1>1, <1>2, <1>5, RemoveShape, RemoveFits
<1>7. Alike(D, x, y)
  <2>1. SUFFICES ASSUME NEW z \in D \ {x}, NEW d \in Sides
                 PROVE  Ord(d, z, x) <=> Ord(d, z, y)
    BY DEF Alike
  <2>2. z \in E /\ z \in Nodes /\ z # x /\ z # y
    BY <1>2
  <2>3. ~(Ord("left", y, z) /\ Ord("left", z, x))
    BY <1>1, <1>2, <2>2 DEF Fits, NoneBetween, Short
  <2>4. Ord("left", z, x) <=> Ord("left", z, y)
    BY <1>2, <1>3, <2>2, <2>3, Order DEF OrderLaws
  <2>5. Ord("right", z, x) <=> Ord("right", z, y)
    BY <1>2, <2>2, <2>4, Order DEF OrderLaws
  <2>6. QED
    BY <1>2, <2>4, <2>5
<1>8. x \in D /\ y \in Nodes \ D
  BY <1>2, <1>3
<1>9. /\ v \in Tree /\ Placed(u, v, x, y)
      /\ x \in u.red => v.red = u.red \union {y}
      /\ x \notin u.red => v.red = u.red \ {y}
  BY <1>6, <1>8, TakePlaceIs
<1> HIDE DEF v
<1>10. Shape(v, F) /\ Fits(v, F, c)
  <2>1. (D \ {x}) \union {y} = F
    BY <1>3
  <2>2. QED
    BY <1>6, <1>7, <1>8, <1>9, <2>1, PlaceFits
<1>11. /\ w \in Tree /\ w.root = v.root /\ w.red = v.red \ {x}
       /\ \A z \in Nodes : w.parent[z] = IF z = x THEN Null ELSE v.parent[z]
       /\ \A d \in Sides, z \in Nodes : w.kid[d][z] = IF z = x THEN Null ELSE v.kid[d][z]
  BY <1>2, <1>9, ForgetIs
<1> HIDE DEF w, a, c, D, F
<1>12. Shape(w, F) /\ Fits(w, F, c)
  <2>1. Same(v, w, F)
    BY <1>2, <1>11 DEF Same, F
  <2>2. QED
    BY <1>10, <1>11, <2>1, SameShape
<1>13. Clean(w, F)
  <2>1. SUFFICES ASSUME NEW z \in Nodes, z \notin E
                 PROVE  w.parent[z] = Null /\ z \notin w.red /\ \A d \in Sides : w.kid[d][z] = Null
    BY <1>2, <1>11 DEF Clean, F
  <2>2. z # y /\ z # x /\ t.parent[z] = Null /\ z \notin t.red /\ z # Null /\ \A d \in Sides : t.kid[d][z] = Null
    BY <1>1, <2>1, NullNoNode DEF Clean
  <2>3. z # k
    BY <1>1, <1>2, <2>1, <2>2 DEF Shape, k
  <2>4. u.parent[z] = Null /\ \A d \in Sides : u.kid[d][z] = Null
    BY <1>2, <1>5, <2>2, <2>3 DEF Removed
  <2>5. \A d \in Sides : u.kid[d][x] # z
    BY <1>6, <1>8, <2>1, <2>2 DEF Shape, D
  <2>6. v.parent[z] = Null /\ \A d \in Sides : v.kid[d][z] = Null
    BY <1>2, <1>9, <2>2, <2>4, <2>5 DEF Placed
  <2>7. z \notin v.red
    BY <1>5, <1>9, <2>2
  <2>8. QED
    BY <1>11, <2>2, <2>6, <2>7
<1>14. Grown(w, F, c)
  BY <1>12, <1>13 DEF Grown
<1>15. Replaced(t, E, x, y, k, u, v, w)
  BY <1>3, <1>4, <1>5, <1>6, <1>9, <1>14 DEF Replaced, D, F
<1>16. QED
  BY <1>15 DEF u, v, w, k

\* The insertion of a leaf at the end of the walk.
LEMMA LeafGrown ==
  ASSUME NEW E, NEW b, Grown(tree, E, b), NEW x \in Nodes \ E, NEW q \in E, In(b, q, x),
         tree.kid[IF x > q THEN "right" ELSE "left"][q] = Null
  PROVE  \E c : Grown(Linked(x, q), E \union {x}, c)
<1> DEFINE d == IF x > q THEN "right" ELSE "left"
           u == Linked(x, q)
<1>1. Shape(tree, E) /\ Clean(tree, E) /\ Fits(tree, E, b) /\ tree \in Tree
  BY DEF Grown, Shape
<1>2. /\ E \subseteq Nodes /\ x \in Nodes /\ q \in Nodes /\ q \in Pointer /\ x # q /\ q # Null /\ d \in Sides
      /\ x # Null
  BY <1>1, NullNoNode DEF Shape, Pointer, Sides
<1>3. Ord(d, q, x)
  <2>1. x \in Nat /\ q \in Nat
    BY <1>2, NodesAssumption
  <2>2. QED
    BY <1>2, <2>1 DEF Ord
<1>4. FreePlace(tree, E, b, x, q, d)
  BY <1>2, <1>3 DEF FreePlace
<1>5. /\ u \in Tree /\ u.root = tree.root /\ u.red = tree.red \union {x}
      /\ \A z \in Nodes : u.parent[z] = IF z = x THEN q ELSE tree.parent[z]
      /\ \A s \in Sides, y \in Nodes :
            u.kid[s][y] = IF y = x THEN Null ELSE IF y = q /\ s = d THEN x ELSE tree.kid[s][y]
  BY <1>1, <1>2, LinkedIs
<1> HIDE DEF u, d
<1>6. Leafed(tree, u, x, q, d)
  BY <1>5 DEF Leafed
<1>7. Shape(u, E \union {x}) /\ Fits(u, E \union {x}, LeafBounds(b, x, q, d))
  <2>1. tree.kid[d][q] = Null
    BY DEF d
  <2>2. QED
    BY <1>1, <1>2, <1>4, <1>5, <1>6, <2>1, LeafShape, LeafFits
<1>8. Clean(u, E \union {x})
  <2>1. SUFFICES ASSUME NEW z \in Nodes, z \notin E, z # x
                 PROVE  u.parent[z] = Null /\ z \notin u.red /\ \A e \in Sides : u.kid[e][z] = Null
    BY DEF Clean
  <2>2. z # q /\ tree.parent[z] = Null /\ z \notin tree.red /\ \A e \in Sides : tree.kid[e][z] = Null
    BY <1>1, <2>1 DEF Clean
  <2>3. QED
    BY <1>5, <2>1, <2>2
<1>9. QED
  BY <1>7, <1>8 DEF Grown, u

\* The insertion of the first node.
LEMMA FirstGrown ==
  ASSUME NEW E, NEW b, Grown(tree, E, b), NEW x \in Nodes, tree.root = Null
  PROVE  E = {} /\ \E c : Grown(Linked(x, Null), {x}, c)
<1> DEFINE u == Linked(x, Null)
           c == [d \in Sides |-> [z \in Nodes |-> Null]]
<1>1. Shape(tree, E) /\ Clean(tree, E) /\ tree \in Tree /\ E = {}
  BY DEF Grown, Shape
<1>2. x # Null /\ Null \in Pointer /\ x \in Pointer
  BY NullNoNode DEF Pointer
<1>3. /\ u \in Tree /\ u.root = x /\ u.red = tree.red \ {x}
      /\ \A z \in Nodes : u.parent[z] = IF z = x THEN Null ELSE tree.parent[z]
      /\ \A s \in Sides, y \in Nodes : u.kid[s][y] = IF y = x THEN Null ELSE tree.kid[s][y]
  <2>1. \A y \in Nodes : y # Null
    BY NullNoNode
  <2>2. QED
    BY <1>1, <1>2, <2>1, LinkedIs
<1> HIDE DEF u
<1>4. u.parent[x] = Null /\ \A d \in Sides : u.kid[d][x] = Null
  BY <1>3
<1>5. Shape(u, {x})
  BY <1>2, <1>3, <1>4 DEF Shape
<1>6. Clean(u, {x})
  <2>1. SUFFICES ASSUME NEW z \in Nodes, z # x
                 PROVE  u.parent[z] = Null /\ z \notin u.red /\ \A e \in Sides : u.kid[e][z] = Null
    BY DEF Clean
  <2>2. tree.parent[z] = Null /\ z \notin tree.red /\ \A e \in Sides : tree.kid[e][z] = Null
    BY <1>1 DEF Clean
  <2>3. QED
    BY <1>3, <2>1, <2>2
<1>7. Fits(u, {x}, c)
  <2>1. c \in [Sides -> [Nodes -> Pointer]] /\ \A d \in Sides : c[d][x] = Null
    BY <1>2
  <2> HIDE DEF c
  <2>2. BoundsRight({x}, c) /\ Nested({x}, c)
    BY <2>1 DEF BoundsRight, Nested, Short
  <2>3. Inherited(u, {x}, c)
    BY <1>3, <1>4, <2>1 DEF Inherited
  <2>4. NoneBetween(u, {x}, c)
    BY Order, SMTT(30) DEF NoneBetween, OrderLaws
  <2>5. QED
    BY <2>2, <2>3, <2>4 DEF Fits
<1>8. QED
  BY <1>1, <1>5, <1>6, <1>7 DEF Grown, u

------------------------------------------------------------------------------
(* Heights in black nodes                                                  *)

Black(t, x) == IF x \in t.red THEN 0 ELSE 1

\* One black is missing below node m at side e.
Lack(x, d, m, e) == IF x = m /\ d = e THEN 1 ELSE 0

\* Both sides of node x are equally high.
Even(t, h, x, m, e) == \A d \in Sides : h[x] = h[t.kid[d][x]] + Lack(x, d, m, e) + Black(t, x)

Level(t, E, h, m, e) ==
  /\ h \in [Pointer -> Nat] /\ h[Null] = 0
  /\ \A x \in E : Even(t, h, x, m, e)

\* The fields that heights are about are the same.
Alikened(t, u, E) ==
  \A x \in E : /\ x \in u.red <=> x \in t.red
               /\ \A d \in Sides : u.kid[d][x] = t.kid[d][x]

\* Heights depend on kids and colors only.
LEMMA SameLevel ==
  ASSUME NEW t, NEW u, NEW E, NEW h, NEW m, NEW e, Level(t, E, h, m, e), Alikened(t, u, E)
  PROVE  Level(u, E, h, m, e)
<1>1. ASSUME NEW x \in E PROVE Even(u, h, x, m, e)
  BY DEF Level, Even, Black, Alikened
<1>2. QED
  BY <1>1 DEF Level

\* Where no node lacks, the place does not matter.
LEMMA NoLack ==
  ASSUME NEW t, NEW E, NEW h, NEW m, NEW e, Level(t, E, h, m, e), m \notin E,
         NEW m2, NEW e2, m2 \notin E
  PROVE  Level(t, E, h, m2, e2)
<1>1. ASSUME NEW x \in E PROVE Even(t, h, x, m2, e2)
  BY DEF Level, Even, Lack
<1>2. QED
  BY <1>1 DEF Level

\* The root gets black.
LEMMA RootLevel ==
  ASSUME NEW t, NEW E, Shape(t, E), NEW m, NEW e, \E h : Level(t, E, h, m, e)
  PROVE  \E g : Level(Blacken(t, t.root), E, g, m, e)
<1> DEFINE r == t.root
           u == Blacken(t, r)
<1>1. /\ E \subseteq Nodes /\ Null \notin E /\ t \in Tree
      /\ u.kid = t.kid /\ u.red = t.red \ {r} /\ r \in E \union {Null} /\ E \subseteq Pointer
  BY BlackenIs, NullNoNode DEF Shape, Pointer
<1>2. PICK h : Level(t, E, h, m, e)
  OBVIOUS
<1> HIDE DEF u
<1>3. CASE r \notin E \/ r \notin t.red
  <2>1. Alikened(t, u, E)
    BY <1>1, <1>3 DEF Alikened
  <2>2. QED
    BY <1>2, <2>1, SameLevel DEF u
<1>4. CASE r \in E /\ r \in t.red
  <2> DEFINE g == [h EXCEPT ![r] = h[r] + 1]
  <2>1. /\ g \in [Pointer -> Nat] /\ g[r] = h[r] + 1 /\ g[Null] = 0 /\ h \in [Pointer -> Nat] /\ h[r] \in Nat
        /\ \A z \in Pointer : z # r => g[z] = h[z]
    BY <1>1, <1>2, <1>4 DEF Level, Pointer
  <2> HIDE DEF g
  <2>2. ASSUME NEW x \in E PROVE Even(u, g, x, m, e)
    <3>1. SUFFICES ASSUME NEW d \in Sides
                   PROVE  g[x] = g[u.kid[d][x]] + Lack(x, d, m, e) + Black(u, x)
      BY DEF Even
    <3>2. u.kid[d][x] = t.kid[d][x] /\ t.kid[d][x] # r /\ t.kid[d][x] \in Pointer
      BY <1>1, <1>4 DEF Shape, Pointer
    <3>3. h[x] = h[t.kid[d][x]] + Lack(x, d, m, e) + Black(t, x)
      BY <1>2 DEF Level, Even
    <3>4. g[t.kid[d][x]] = h[t.kid[d][x]] /\ h[t.kid[d][x]] \in Nat /\ h[x] \in Nat
      BY <1>1, <2>1, <3>2
    <3>5. CASE x = r
      BY <1>1, <1>4, <2>1, <3>2, <3>3, <3>4, <3>5 DEF Black, Lack
    <3>6. CASE x # r
      BY <1>1, <2>1, <3>2, <3>3, <3>4, <3>6 DEF Black
    <3>7. QED
      BY <3>5, <3>6
  <2>3. QED
    BY <2>1, <2>2 DEF Level, u
<1>5. QED
  BY <1>3, <1>4

\* A red kid where the black is missing gets black.
LEMMA KidLevel ==
  ASSUME NEW t, NEW E, Shape(t, E), NEW m \in E, NEW e \in Sides, NEW h, Level(t, E, h, m, e),
         t.kid[e][m] \in t.red, t.kid[e][m] # Null, NEW b, Fits(t, E, b),
         NEW u, u.kid = t.kid, u.red = t.red \ {t.kid[e][m]}
  PROVE  \E g : Level(u, E, g, Null, e)
<1> DEFINE w == t.kid[e][m]
           g == [h EXCEPT ![w] = h[w] + 1]
<1>1. /\ E \subseteq Nodes /\ Null \notin E /\ E \subseteq Pointer /\ w \in E /\ t.parent[w] = m /\ w # m
      /\ t.kid[Other(e)][m] # w /\ \A d \in Sides : d = e \/ d = Other(e)
  BY NullNoNode, KidBelow, Order DEF Shape, Pointer, OrderLaws
<1>2. /\ g \in [Pointer -> Nat] /\ g[w] = h[w] + 1 /\ g[Null] = 0 /\ h \in [Pointer -> Nat] /\ h[w] \in Nat
      /\ \A z \in Pointer : z # w => g[z] = h[z]
  BY <1>1 DEF Level, Pointer
<1> HIDE DEF g
<1>3. ASSUME NEW x \in E PROVE Even(u, g, x, Null, e)
  <2>1. SUFFICES ASSUME NEW d \in Sides
                 PROVE  g[x] = g[t.kid[d][x]] + Lack(x, d, Null, e) + Black(u, x)
    BY DEF Even
  <2>2. t.kid[d][x] \in Pointer
    BY DEF Shape, Pointer
  <2>3. h[x] = h[t.kid[d][x]] + Lack(x, d, m, e) + Black(t, x)
    BY DEF Level, Even
  <2>4. h[t.kid[d][x]] \in Nat /\ h[x] \in Nat /\ Lack(x, d, Null, e) = 0
    BY <1>1, <1>2, <2>2 DEF Lack
  <2>5. CASE t.kid[d][x] = w
    <3>1. x = m
      BY <1>1, <2>5 DEF Shape
    <3>2. d = e /\ x # w
      BY <1>1, <2>5, <3>1
    <3>3. g[x] = h[x] /\ Lack(x, d, m, e) = 1 /\ Black(u, x) = Black(t, x)
      BY <1>1, <1>2, <3>1, <3>2 DEF Lack, Black
    <3>4. Black(t, x) \in Nat
      BY DEF Black
    <3>5. QED
      BY <1>2, <2>3, <2>4, <2>5, <3>3, <3>4
  <2>6. CASE t.kid[d][x] # w
    <3>1. g[t.kid[d][x]] = h[t.kid[d][x]]
      BY <1>2, <2>2, <2>6
    <3>2. Lack(x, d, m, e) = 0
      BY <1>1, <2>6, SMTT(30) DEF Lack
    <3>3. CASE x = w
      BY <1>2, <2>3, <2>4, <3>1, <3>2, <3>3 DEF Black
    <3>4. CASE x # w
      BY <1>1, <1>2, <2>3, <2>4, <3>1, <3>2, <3>4 DEF Black
    <3>5. QED
      BY <3>3, <3>4
  <2>7. QED
    BY <2>5, <2>6
<1>4. QED
  BY <1>2, <1>3 DEF Level

\* Two heights change.
LEMMA TwoHeights ==
  ASSUME NEW h \in [Pointer -> Nat], NEW x \in Pointer, NEW y \in Pointer, x # y,
         NEW i \in Nat, NEW j \in Nat
  PROVE  LET g == [h EXCEPT ![x] = i, ![y] = j]
         IN  /\ g \in [Pointer -> Nat] /\ g[x] = i /\ g[y] = j
             /\ \A z \in Pointer : z # x /\ z # y => g[z] = h[z]
<1> DEFINE f == [h EXCEPT ![x] = i]
           g == [f EXCEPT ![y] = j]
<1>1. f \in [Pointer -> Nat] /\ f[x] = i /\ \A z \in Pointer : z # x => f[z] = h[z]
  OBVIOUS
<1> HIDE DEF f
<1>2. g \in [Pointer -> Nat] /\ g[y] = j /\ \A z \in Pointer : z # y => g[z] = f[z]
  BY <1>1
<1> HIDE DEF g
<1>3. g \in [Pointer -> Nat] /\ g[x] = i /\ g[y] = j /\ \A z \in Pointer : z # x /\ z # y => g[z] = h[z]
  BY <1>1, <1>2
<1>4. QED
  BY <1>3 DEF f, g

\* A rotation: the two nodes swap their heights, if their colors fit that.
SwapRight(t, u, h, s, x, r, m, e) ==
  LET o == Other(s)
  IN  /\ h[r] = h[t.kid[s][x]] + Lack(x, s, m, e) + Black(u, x)
      /\ h[r] = h[t.kid[s][r]] + Lack(x, o, m, e) + Black(u, x)
      /\ h[x] = h[r] + Lack(r, s, m, e) + Black(u, r)
      /\ h[x] = h[t.kid[o][r]] + Lack(r, o, m, e) + Black(u, r)

\* A rotation keeps all heights but those of its two nodes; new ones are found for
\* them when the heights of the three subtrees agree.
LEMMA SwapLevel ==
  ASSUME NEW t, NEW E, NEW b, Shape(t, E), Fits(t, E, b), NEW m, NEW e, NEW h, Level(t, E, h, m, e),
         NEW s \in Sides, NEW x \in E, NEW r \in E, r = t.kid[Other(s)][x],
         NEW v, v.kid = t.kid, v.parent = t.parent, NEW u, Rotated(v, u, s, x, r),
         \A y \in E : y # x /\ y # r => (y \in u.red <=> y \in t.red),
         NEW m2, NEW e2,
         \A y \in E, d \in Sides : y # x /\ y # r => Lack(y, d, m2, e2) = Lack(y, d, m, e),
         SwapRight(t, u, h, s, x, r, m2, e2)
  PROVE  \E g : Level(u, E, g, m2, e2)
<1> DEFINE o == Other(s)
           g == [h EXCEPT ![x] = h[r], ![r] = h[x]]
<1>1. /\ E \subseteq Nodes /\ Null \notin E /\ E \subseteq Pointer /\ o \in Sides /\ o # s
      /\ \A d \in Sides : d = s \/ d = o
      /\ t.parent[r] = x /\ r # x /\ In(b, x, r) /\ ~In(b, r, x) /\ x # Null /\ r # Null
  BY NullNoNode, KidBelow, Order, SMTT(30) DEF Shape, Pointer, OrderLaws
<1>2. /\ g \in [Pointer -> Nat] /\ g[x] = h[r] /\ g[r] = h[x] /\ g[Null] = 0 /\ h \in [Pointer -> Nat]
      /\ h[x] \in Nat /\ h[r] \in Nat
      /\ \A z \in Pointer : z # x /\ z # r => g[z] = h[z]
  BY <1>1 DEF Level, Pointer
<1> HIDE DEF g, o
<1>3. \A d \in Sides, y \in E :
        /\ t.kid[d][y] \in Pointer
        /\ t.kid[d][y] = r => y = x
        /\ t.kid[d][y] = x => y # r /\ y # x
  <2>1. ASSUME NEW d \in Sides, NEW y \in E, t.kid[d][y] = x PROVE y # r /\ y # x
    BY <1>1, <2>1, KidBelow
  <2>2. QED
    BY <1>1, <2>1 DEF Shape, Pointer
<1>4. ASSUME NEW y \in E, y # x, y # r PROVE Even(u, g, y, m2, e2)
  <2>1. SUFFICES ASSUME NEW d \in Sides
                 PROVE  g[y] = g[u.kid[d][y]] + Lack(y, d, m2, e2) + Black(u, y)
    BY DEF Even
  <2>2. u.kid[d][y] = IF t.kid[d][y] = x THEN r ELSE t.kid[d][y]
    BY <1>1, <1>4 DEF Rotated
  <2>3. h[y] = h[t.kid[d][y]] + Lack(y, d, m, e) + Black(t, y)
    BY DEF Level, Even
  <2>4. g[u.kid[d][y]] = h[t.kid[d][y]]
    BY <1>2, <1>3, <1>4, <2>2
  <2>5. g[y] = h[y] /\ Black(u, y) = Black(t, y) /\ Lack(y, d, m2, e2) = Lack(y, d, m, e)
    BY <1>1, <1>2, <1>4, Zenon DEF Black
  <2>6. QED
    BY <2>3, <2>4, <2>5
<1>5. Even(u, g, x, m2, e2)
  <2>1. u.kid[s][x] = t.kid[s][x] /\ u.kid[o][x] = t.kid[s][r]
    BY <1>1 DEF Rotated
  <2>2. g[t.kid[s][x]] = h[t.kid[s][x]] /\ g[t.kid[s][r]] = h[t.kid[s][r]]
    <3>1. t.kid[s][x] # r /\ t.kid[s][x] # x
      <4>1. t.kid[s][x] # r
        BY <1>1, KidBelow DEF o
      <4>2. QED
        BY <1>3, <4>1
    <3>2. t.kid[s][r] # r /\ t.kid[s][r] # x
      BY <1>1, <1>3, KidBelow, SMTT(30)
    <3>3. QED
      BY <1>2, <1>3, <3>1, <3>2
  <2>3. QED
    BY <1>1, <1>2, <2>1, <2>2, ZenonT(60) DEF Even, SwapRight, o
<1>6. Even(u, g, r, m2, e2)
  <2>1. u.kid[s][r] = x /\ u.kid[o][r] = t.kid[o][r]
    BY <1>1, SMTT(30) DEF Rotated
  <2>2. g[t.kid[o][r]] = h[t.kid[o][r]]
    <3>1. t.kid[o][r] # r /\ t.kid[o][r] # x
      BY <1>1, <1>3, KidBelow
    <3>2. QED
      BY <1>1, <1>2, <1>3, <3>1
  <2>3. QED
    BY <1>1, <1>2, <2>1, <2>2, ZenonT(60) DEF Even, SwapRight, o
<1>7. QED
  BY <1>2, <1>4, <1>5, <1>6 DEF Level

\* A red leaf.
LEMMA LeafLevel ==
  ASSUME NEW t, NEW E, Shape(t, E), NEW x \in Nodes \ E, NEW q \in E, NEW d \in Sides, t.kid[d][q] = Null,
         NEW u, Leafed(t, u, x, q, d), u.red = t.red \union {x},
         NEW e, NEW h, Level(t, E, h, Null, e)
  PROVE  \E g : Level(u, E \union {x}, g, Null, e)
<1> DEFINE g == [h EXCEPT ![x] = 0]
<1>1. /\ E \subseteq Nodes /\ Null \notin E /\ E \subseteq Pointer /\ x # Null /\ x \notin E /\ x \in Nodes
      /\ x \in Pointer
  BY NullNoNode DEF Shape, Pointer
<1>2. /\ g \in [Pointer -> Nat] /\ g[x] = 0 /\ g[Null] = 0 /\ h[Null] = 0
      /\ \A z \in Pointer : z # x => g[z] = h[z]
  BY <1>1 DEF Level, Pointer
<1> HIDE DEF g
<1>3. ASSUME NEW y \in E PROVE Even(u, g, y, Null, e)
  <2>1. SUFFICES ASSUME NEW c \in Sides
                 PROVE  g[y] = g[u.kid[c][y]] + Lack(y, c, Null, e) + Black(u, y)
    BY DEF Even
  <2>2. h[y] = h[t.kid[c][y]] + Lack(y, c, Null, e) + Black(t, y)
    BY DEF Level, Even
  <2>3. g[y] = h[y] /\ Black(u, y) = Black(t, y)
    BY <1>1, <1>2 DEF Black
  <2>4. g[u.kid[c][y]] = h[t.kid[c][y]]
    <3>1. u.kid[c][y] = IF y = q /\ c = d THEN x ELSE t.kid[c][y]
      BY <1>1 DEF Leafed
    <3>2. t.kid[c][y] \in E \union {Null}
      BY DEF Shape
    <3>3. QED
      BY <1>1, <1>2, <3>1, <3>2 DEF Pointer
  <2>5. QED
    BY <2>2, <2>3, <2>4
<1>4. Even(u, g, x, Null, e)
  <2>1. \A c \in Sides : u.kid[c][x] = Null
    BY <1>1 DEF Leafed
  <2>2. QED
    BY <1>1, <1>2, <2>1 DEF Even, Lack, Black
<1>5. QED
  BY <1>2, <1>3, <1>4 DEF Level

\* The only node.
LEMMA FirstLevel ==
  ASSUME NEW u, NEW x \in Nodes, x \notin u.red, \A d \in Sides : u.kid[d][x] = Null, NEW e
  PROVE  \E g : Level(u, {x}, g, Null, e)
<1> DEFINE g == [z \in Pointer |-> IF z = x THEN 1 ELSE 0]
<1>1. x # Null /\ Null \in Pointer /\ x \in Pointer
  BY NullNoNode DEF Pointer
<1>2. g \in [Pointer -> Nat] /\ g[Null] = 0 /\ g[x] = 1
  BY <1>1
<1> HIDE DEF g
<1>3. Even(u, g, x, Null, e)
  BY <1>1, <1>2 DEF Even, Lack, Black
<1>4. QED
  BY <1>2, <1>3 DEF Level

\* A node with at most one kid is taken out: if it was black, its place lacks it.
LEMMA RemovedLevel ==
  ASSUME NEW t, NEW E, Shape(t, E), NEW b, Fits(t, E, b), NEW x \in E, NEW k, NEW c \in Sides,
         NEW u, Removed(t, u, x, k, c), \A y \in E : y # x => (y \in u.red <=> y \in t.red),
         NEW d \in Sides, t.parent[x] # Null => t.kid[d][t.parent[x]] = x,
         NEW e, NEW h, Level(t, E, h, Null, e)
  PROVE  Level(u, E \ {x}, h, IF x \in t.red THEN Null ELSE t.parent[x], d)
<1> DEFINE q == t.parent[x]
           m == IF x \in t.red THEN Null ELSE q
<1>1. E \subseteq Nodes /\ Null \notin E /\ x # Null /\ \A f \in Sides : f = d \/ f = Other(d)
  BY NullNoNode, Order DEF Shape, OrderLaws
<1>2. h \in [Pointer -> Nat] /\ h[Null] = 0
  BY DEF Level
<1>3. h[x] = h[k] + Black(t, x)
  <2>1. k = t.kid[c][x] /\ k \in Pointer
    BY DEF Removed, Shape, Pointer
  <2>2. h[x] = h[k] + Lack(x, c, Null, e) + Black(t, x)
    BY <2>1 DEF Level, Even
  <2>3. Lack(x, c, Null, e) = 0 /\ h[k] \in Nat /\ Black(t, x) \in Nat
    BY <1>1, <1>2, <2>1 DEF Lack, Black
  <2>4. QED
    BY <2>2, <2>3
<1>4. ASSUME NEW y \in E, y # x PROVE Even(u, h, y, m, d)
  <2>1. SUFFICES ASSUME NEW f \in Sides
                 PROVE  h[y] = h[u.kid[f][y]] + Lack(y, f, m, d) + Black(u, y)
    BY DEF Even
  <2>2. h[y] = h[t.kid[f][y]] + Lack(y, f, Null, e) + Black(t, y) /\ Lack(y, f, Null, e) = 0
    BY <1>1 DEF Level, Even, Lack
  <2>3. Black(u, y) = Black(t, y) /\ Black(t, y) \in Nat /\ Black(t, x) \in Nat
    BY <1>4 DEF Black
  <2>4. u.kid[f][y] = IF y = q /\ t.kid[f][y] = x THEN k ELSE t.kid[f][y]
    BY <1>1 DEF Removed
  <2>5. t.kid[f][y] \in Pointer /\ k \in Pointer /\ (t.kid[f][y] = x => y = q)
    BY <1>1 DEF Shape, Pointer, Removed
  <2>6. CASE t.kid[f][y] = x
    <3>1. y = q /\ q # Null /\ f = d
      <4>1. y = q /\ q # Null
        BY <1>1, <2>5, <2>6
      <4>2. t.kid[Other(d)][q] # x
        BY <1>1, <4>1, KidBelow
      <4>3. QED
        BY <1>1, <2>6, <4>1, <4>2
    <3>2. Lack(y, f, m, d) = Black(t, x)
      BY <1>1, <3>1 DEF Lack, Black
    <3>3. u.kid[f][y] = k
      BY <2>4, <2>6, <3>1
    <3>4. h[k] \in Nat
      BY <1>2, <2>5
    <3>5. QED
      BY <1>3, <2>2, <2>3, <2>6, <3>2, <3>3, <3>4
  <2>7. CASE t.kid[f][y] # x
    <3>1. ~(y = m /\ f = d)
      BY <1>1, <2>7
    <3>2. Lack(y, f, m, d) = 0
      BY <3>1 DEF Lack
    <3>3. QED
      BY <2>2, <2>3, <2>4, <2>7, <3>2
  <2>8. QED
    BY <2>6, <2>7
<1>5. QED
  BY <1>2, <1>4 DEF Level

\* A node takes the place and the color of another.
LEMMA PlacedLevel ==
  ASSUME NEW t, NEW E, Shape(t, E), NEW b, Fits(t, E, b), NEW x \in E, NEW y \in Nodes \ E,
         NEW u, Placed(t, u, x, y), y \in u.red <=> x \in t.red,
         \A z \in E : z # x => (z \in u.red <=> z \in t.red),
         NEW m \in E \union {Null}, NEW e, NEW h, Level(t, E, h, m, e)
  PROVE  \E g : Level(u, (E \ {x}) \union {y}, g, IF m = x THEN y ELSE m, e)
<1> DEFINE g == [h EXCEPT ![y] = h[x]]
           m2 == IF m = x THEN y ELSE m
<1>1. /\ E \subseteq Nodes /\ Null \notin E /\ E \subseteq Pointer /\ x # Null /\ y # Null /\ y \in Pointer
      /\ x \in Pointer /\ x # y
  BY NullNoNode DEF Shape, Pointer
<1>2. /\ g \in [Pointer -> Nat] /\ g[Null] = 0 /\ g[y] = h[x]
      /\ \A z \in Pointer : z # y => g[z] = h[z]
  BY <1>1 DEF Level
<1> HIDE DEF g
<1>3. ASSUME NEW z \in E, z # x PROVE Even(u, g, z, m2, e)
  <2>1. SUFFICES ASSUME NEW d \in Sides
                 PROVE  g[z] = g[u.kid[d][z]] + Lack(z, d, m2, e) + Black(u, z)
    BY DEF Even
  <2>2. h[z] = h[t.kid[d][z]] + Lack(z, d, m, e) + Black(t, z)
    BY DEF Level, Even
  <2>3. Lack(z, d, m2, e) = Lack(z, d, m, e) /\ Black(u, z) = Black(t, z) /\ g[z] = h[z]
    BY <1>1, <1>2, <1>3 DEF Lack, Black
  <2>4. g[u.kid[d][z]] = h[t.kid[d][z]]
    <3>1. u.kid[d][z] = IF z = t.parent[x] /\ t.kid[d][z] = x THEN y ELSE t.kid[d][z]
      BY <1>1 DEF Placed
    <3>2. t.kid[d][z] \in E \union {Null} /\ (t.kid[d][z] = x => z = t.parent[x])
      BY <1>1 DEF Shape
    <3>3. QED
      BY <1>1, <1>2, <3>1, <3>2 DEF Pointer
  <2>5. QED
    BY <2>2, <2>3, <2>4
<1>4. Even(u, g, y, m2, e)
  <2>1. SUFFICES ASSUME NEW d \in Sides
                 PROVE  g[y] = g[u.kid[d][y]] + Lack(y, d, m2, e) + Black(u, y)
    BY DEF Even
  <2>2. h[x] = h[t.kid[d][x]] + Lack(x, d, m, e) + Black(t, x)
    BY DEF Level, Even
  <2>3. Lack(y, d, m2, e) = Lack(x, d, m, e) /\ Black(u, y) = Black(t, x)
    BY <1>1 DEF Lack, Black
  <2>4. u.kid[d][y] = t.kid[d][x] /\ t.kid[d][x] \in E \union {Null}
    BY <1>1 DEF Placed, Shape
  <2>5. g[u.kid[d][y]] = h[t.kid[d][x]]
    BY <1>1, <1>2, <2>4 DEF Pointer
  <2>6. QED
    BY <1>2, <2>2, <2>3, <2>5
<1>5. QED
  BY <1>2, <1>3, <1>4 DEF Level

\* A black node with two red kids gives them its black.
LEMMA UncleLevel ==
  ASSUME NEW t, NEW E, Shape(t, E), NEW b, Fits(t, E, b), NEW x \in E, x \notin t.red,
         NEW s \in Sides, NEW y \in E, NEW z \in E, y = t.kid[s][x], z = t.kid[Other(s)][x],
         y \in t.red, z \in t.red,
         NEW u, u.kid = t.kid, u.red = ((t.red \ {z}) \ {y}) \union {x},
         NEW e, NEW h, Level(t, E, h, Null, e)
  PROVE  \E g : Level(u, E, g, Null, e)
<1> DEFINE g == [h EXCEPT ![y] = h[y] + 1, ![z] = h[z] + 1]
<1>1. /\ E \subseteq Nodes /\ Null \notin E /\ E \subseteq Pointer /\ y # Null /\ z # Null
      /\ Other(s) \in Sides /\ \A d \in Sides : d = s \/ d = Other(s)
  BY NullNoNode, Order DEF Shape, Pointer, OrderLaws
<1>2. y # z /\ y # x /\ z # x /\ t.parent[y] = x /\ t.parent[z] = x
  BY <1>1, KidBelow
<1>3. /\ g \in [Pointer -> Nat] /\ g[y] = h[y] + 1 /\ g[z] = h[z] + 1 /\ g[Null] = 0 /\ h \in [Pointer -> Nat]
      /\ \A w \in Pointer : w # y /\ w # z => g[w] = h[w]
  <2>1. h \in [Pointer -> Nat] /\ h[Null] = 0 /\ Null \in Pointer
    BY DEF Level, Pointer
  <2>2. y \in Pointer /\ z \in Pointer /\ h[y] + 1 \in Nat /\ h[z] + 1 \in Nat
    BY <1>1, <2>1
  <2>3. /\ g \in [Pointer -> Nat] /\ g[y] = h[y] + 1 /\ g[z] = h[z] + 1
        /\ \A w \in Pointer : w # y /\ w # z => g[w] = h[w]
    BY <1>2, <2>1, <2>2, TwoHeights
  <2> HIDE DEF g
  <2>4. QED
    BY <1>1, <2>1, <2>3
<1> HIDE DEF g
<1>4. ASSUME NEW w \in E PROVE Even(u, g, w, Null, e)
  <2>1. SUFFICES ASSUME NEW d \in Sides
                 PROVE  g[w] = g[t.kid[d][w]] + Lack(w, d, Null, e) + Black(u, w)
    BY DEF Even
  <2>2. h[w] = h[t.kid[d][w]] + Black(t, w) /\ Lack(w, d, Null, e) = 0
    <3>1. h[w] = h[t.kid[d][w]] + Lack(w, d, Null, e) + Black(t, w) /\ Lack(w, d, Null, e) = 0
      BY <1>1 DEF Level, Even, Lack
    <3>2. h[t.kid[d][w]] \in Nat /\ Black(t, w) \in Nat
      BY <1>3 DEF Shape, Pointer, Black
    <3>3. QED
      BY <3>1, <3>2
  <2>3. t.kid[d][w] \in Pointer /\ h[t.kid[d][w]] \in Nat /\ h[w] \in Nat
    BY <1>1, <1>3 DEF Shape, Pointer
  <2>4. CASE w = x
    <3>1. t.kid[d][w] = y \/ t.kid[d][w] = z
      BY <1>1, <2>4
    <3>2. g[t.kid[d][w]] = h[t.kid[d][w]] + 1 /\ g[w] = h[w]
      BY <1>1, <1>2, <1>3, <2>4, <3>1
    <3>3. Black(u, w) = 0 /\ Black(t, w) = 1
      BY <2>4 DEF Black
    <3>4. QED
      BY <2>2, <2>3, <3>2, <3>3
  <2>5. CASE w # x
    <3>1. t.kid[d][w] # y /\ t.kid[d][w] # z
      BY <1>1, <1>2, <2>5 DEF Shape
    <3>2. g[t.kid[d][w]] = h[t.kid[d][w]]
      BY <1>3, <2>3, <3>1
    <3>3. CASE w = y \/ w = z
      <4>1. Black(u, w) = 1 /\ Black(t, w) = 0 /\ g[w] = h[w] + 1
        BY <1>2, <1>3, <3>3 DEF Black
      <4>2. QED
        BY <2>2, <2>3, <3>2, <4>1
    <3>4. CASE w # y /\ w # z
      <4>1. Black(u, w) = Black(t, w) /\ g[w] = h[w]
        BY <1>1, <1>3, <2>5, <3>4 DEF Black
      <4>2. Black(t, w) \in Nat
        BY DEF Black
      <4>3. QED
        BY <2>2, <2>3, <3>2, <4>1, <4>2
    <3>5. QED
      BY <3>3, <3>4
  <2>6. QED
    BY <2>4, <2>5
<1>5. QED
  BY <1>3, <1>4 DEF Level

\* The sibling of the place where a black is missing is there; if it is black
\* it gets red, and the black is missing one level higher.
LEMMA SiblingThere ==
  ASSUME NEW t, NEW E, Shape(t, E), NEW m \in E, NEW e \in Sides, NEW h, Level(t, E, h, m, e)
  PROVE  t.kid[Other(e)][m] # Null
<1>1. Other(e) \in Sides /\ Other(e) # e /\ t.kid[e][m] \in Pointer
  BY Order DEF OrderLaws, Shape, Pointer
<1>2. h[m] = h[t.kid[e][m]] + Lack(m, e, m, e) + Black(t, m)
      /\ h[m] = h[t.kid[Other(e)][m]] + Lack(m, Other(e), m, e) + Black(t, m)
  BY <1>1 DEF Level, Even
<1>3. SUFFICES ASSUME t.kid[Other(e)][m] = Null PROVE FALSE
  OBVIOUS
<1>4. h[t.kid[e][m]] \in Nat /\ h[Null] = 0 /\ Black(t, m) \in Nat /\ Lack(m, e, m, e) = 1
      /\ Lack(m, Other(e), m, e) = 0
  BY <1>1 DEF Level, Black, Lack
<1>5. QED
  BY <1>2, <1>3, <1>4

\* A black sibling that gets red makes both sides of the parent even, and the parent
\* itself misses a black below its own parent.
LEMMA UpLevel ==
  ASSUME NEW t, NEW E, Shape(t, E), NEW b, Fits(t, E, b), NEW m \in E, NEW e \in Sides,
         NEW h, Level(t, E, h, m, e), t.kid[Other(e)][m] \notin t.red,
         NEW u, u.kid = t.kid, u.red = t.red \union {t.kid[Other(e)][m]},
         NEW d \in Sides, t.parent[m] # Null => t.kid[d][t.parent[m]] = m
  PROVE  \E g : Level(u, E, g, t.parent[m], d)
<1> DEFINE z == t.kid[Other(e)][m]
           q == t.parent[m]
           g == [h EXCEPT ![m] = h[m] - 1, ![z] = h[z] - 1]
<1>1. z # Null
  BY SiblingThere
<1>2. /\ E \subseteq Nodes /\ Null \notin E /\ E \subseteq Pointer /\ m # Null
      /\ Other(e) \in Sides /\ Other(Other(e)) = e /\ \A c \in Sides : c = e \/ c = Other(e)
      /\ \A c \in Sides : c = d \/ c = Other(d)
      /\ Other(e) # e
  BY NullNoNode, Order DEF Shape, Pointer, OrderLaws
<1>3. z \in E /\ z # m /\ t.parent[z] = m /\ t.kid[e][m] # z
  BY <1>1, <1>2, KidBelow, SMTT(30)
<1>4. h \in [Pointer -> Nat] /\ h[Null] = 0 /\ h[m] \in Nat /\ h[z] \in Nat /\ h[m] >= 1 /\ h[z] >= 1
  <2>1. h \in [Pointer -> Nat] /\ h[Null] = 0
    BY DEF Level
  <2>2. h[m] = h[t.kid[e][m]] + Lack(m, e, m, e) + Black(t, m)
    BY DEF Level, Even
  <2>3. h[z] = h[t.kid[e][z]] + Lack(z, e, m, e) + Black(t, z)
    BY <1>3 DEF Level, Even
  <2>4. h[t.kid[e][m]] \in Nat /\ h[t.kid[e][z]] \in Nat /\ h[m] \in Nat /\ h[z] \in Nat
    BY <1>2, <1>3, <2>1 DEF Shape, Pointer
  <2>5. Lack(m, e, m, e) = 1 /\ Lack(z, e, m, e) = 0 /\ Black(t, m) \in Nat /\ Black(t, z) = 1
    BY <1>3 DEF Lack, Black
  <2>6. QED
    BY <2>1, <2>2, <2>3, <2>4, <2>5
<1>5. /\ g \in [Pointer -> Nat] /\ g[m] = h[m] - 1 /\ g[z] = h[z] - 1 /\ g[Null] = 0
      /\ \A w \in Pointer : w # m /\ w # z => g[w] = h[w]
  <2>1. h[m] - 1 \in Nat /\ h[z] - 1 \in Nat /\ m \in Pointer /\ z \in Pointer /\ Null \in Pointer
    BY <1>2, <1>3, <1>4 DEF Pointer
  <2>2. /\ g \in [Pointer -> Nat] /\ g[m] = h[m] - 1 /\ g[z] = h[z] - 1
        /\ \A w \in Pointer : w # m /\ w # z => g[w] = h[w]
    BY <1>3, <1>4, <2>1, TwoHeights
  <2> HIDE DEF g
  <2>3. QED
    BY <1>1, <1>2, <1>4, <2>1, <2>2
<1> HIDE DEF g
<1>6. ASSUME NEW w \in E PROVE Even(u, g, w, q, d)
  <2>1. SUFFICES ASSUME NEW c \in Sides
                 PROVE  g[w] = g[t.kid[c][w]] + Lack(w, c, q, d) + Black(u, w)
    BY DEF Even
  <2>2. h[w] = h[t.kid[c][w]] + Lack(w, c, m, e) + Black(t, w)
    BY DEF Level, Even
  <2>3. t.kid[c][w] \in Pointer /\ h[t.kid[c][w]] \in Nat /\ h[w] \in Nat
    BY <1>2, <1>4 DEF Shape, Pointer
  <2>4. Black(t, w) \in Nat
    BY DEF Black
  <2>5. m # q
    BY <1>2, ParentAbove
  <2>6. CASE w = m
    <3>1. Black(u, w) = Black(t, w) /\ Lack(w, c, q, d) = 0
      BY <1>3, <2>5, <2>6 DEF Black, Lack
    <3>2. CASE c = e
      <4>1. t.kid[c][w] # m /\ t.kid[c][w] # z
        <5>1. t.kid[c][w] # m
          BY <1>2, <2>6, KidBelow
        <5>2. QED
          BY <1>3, <2>6, <3>2, <5>1
      <4>2. g[t.kid[c][w]] = h[t.kid[c][w]] /\ Lack(w, c, m, e) = 1
        BY <1>5, <2>3, <2>6, <3>2, <4>1 DEF Lack
      <4>3. QED
        BY <1>4, <1>5, <2>2, <2>3, <2>4, <2>6, <3>1, <4>2
    <3>3. CASE c = Other(e)
      <4>1. g[t.kid[c][w]] = h[t.kid[c][w]] - 1 /\ Lack(w, c, m, e) = 0
        BY <1>2, <1>5, <2>6, <3>3, ZenonT(60) DEF Lack
      <4>2. QED
        BY <1>4, <1>5, <2>2, <2>3, <2>4, <2>6, <3>1, <4>1
    <3>4. QED
      BY <1>2, <3>2, <3>3
  <2>7. CASE w = z
    <3>1. Black(u, w) = 0 /\ Black(t, w) = 1 /\ Lack(w, c, m, e) = 0
      BY <1>3, <2>7 DEF Black, Lack
    <3>2. t.kid[c][w] # m /\ t.kid[c][w] # z /\ q # z
      <4>1. t.kid[c][w] # z
        BY <1>2, <2>7, KidBelow
      <4>2. In(b, m, z) /\ ~In(b, z, m)
        BY <1>1, <1>2, KidBelow
      <4>3. t.kid[c][w] # m
        BY <1>2, <2>7, <4>2, KidBelow
      <4>4. q # z
        BY <1>2, <1>3, <4>2, ParentAbove
      <4>5. QED
        BY <4>1, <4>3, <4>4
    <3>3. Lack(w, c, q, d) = 0 /\ g[t.kid[c][w]] = h[t.kid[c][w]]
      BY <1>5, <2>3, <2>7, <3>2 DEF Lack
    <3>4. QED
      BY <1>4, <1>5, <2>2, <2>3, <2>7, <3>1, <3>3
  <2>8. CASE w # m /\ w # z
    <3>1. Black(u, w) = Black(t, w) /\ Lack(w, c, m, e) = 0 /\ g[w] = h[w]
      BY <1>2, <1>5, <2>8 DEF Black, Lack
    <3>2. t.kid[c][w] # z
      BY <1>1, <1>3, <2>8 DEF Shape
    <3>3. CASE t.kid[c][w] = m
      <4>1. w = q
        BY <1>2, <3>3 DEF Shape
      <4>2. c = d
        <5>1. q # Null /\ t.kid[d][q] = m
          BY <1>2, <4>1
        <5>2. t.kid[Other(d)][q] # m
          BY <1>2, <4>1, <5>1, KidBelow
        <5>3. QED
          BY <1>2, <3>3, <4>1, <5>2
      <4>3. Lack(w, c, q, d) = 1 /\ g[t.kid[c][w]] = h[t.kid[c][w]] - 1
        BY <1>5, <3>3, <4>1, <4>2 DEF Lack
      <4>4. QED
        BY <1>4, <2>2, <2>3, <2>4, <3>1, <3>3, <4>3
    <3>4. CASE t.kid[c][w] # m
      <4>1. ~(w = q /\ c = d)
        BY <1>2, <3>4
      <4>2. Lack(w, c, q, d) = 0 /\ g[t.kid[c][w]] = h[t.kid[c][w]]
        BY <1>5, <2>3, <3>2, <3>4, <4>1 DEF Lack
      <4>3. QED
        BY <2>2, <3>1, <4>2
    <3>5. QED
      BY <3>3, <3>4
  <2>9. QED
    BY <2>6, <2>7, <2>8
<1>7. QED
  BY <1>5, <1>6 DEF Level

------------------------------------------------------------------------------
(* The invariant                                                           *)

\* Where the walk of a call is: node is not at its place, but where the walk
\* goes; the place of the next node is found on one side.
Walks(b) ==
  /\ phase = "descend" => node \in Nodes \ Elems /\ at \in Elems /\ In(b, at, node)
  /\ phase \in {"seek", "find"} => /\ node \in Nodes
                                   /\ at = Null => node \notin Elems
                                   /\ at # Null => at \in Elems /\ In(b, at, node)
  /\ phase = "after" => /\ node \in Elems /\ at \in Elems
                        /\ \A d \in Sides : tree.kid[d][node] # Null
                        /\ b["left"][at] = node
  /\ phase = "down" => node \in Elems /\ at \in Elems /\ b[Other(side)][at] = node
  /\ phase = "up" => /\ node \in Elems /\ at \in Elems
                     /\ tree.kid[side][node] = Null /\ b[side][at] = b[side][node]

RedPair(t, x) == x \in t.red /\ t.parent[x] \in t.red

\* Only the loops that restore the balance have red below red: one node in that
\* of an insert; in that of a delete it is the kid at the place that lacks a
\* black, or a kid of it.
Colors ==
  /\ tree.root \notin tree.red
  /\ phase \notin {"insert", "delete"} => \A x \in Elems : ~RedPair(tree, x)
  /\ phase = "insert" => /\ node \in Elems /\ node \in tree.red /\ p = tree.parent[node]
                         /\ p \in Elems /\ p \in tree.red /\ pp = tree.parent[p] /\ pp \in Elems
                         /\ \A x \in Elems : RedPair(tree, x) => x = node
  /\ phase = "delete" => /\ n \in Elems
                         /\ \A x \in Elems : RedPair(tree, x) => tree.kid[side][n] \in {x, tree.parent[x]}
  /\ phase # "delete" => n = Null

Inv ==
  /\ TypeOK
  /\ \E b : Grown(tree, Elems, b) /\ Walks(b)
  /\ \E h : Level(tree, Elems, h, n, side)
  /\ Colors

\* A tree that a call may leave behind, but for the color of the root.
Fine(t, E) ==
  /\ \E c : Grown(t, E, c)
  /\ \E g : Level(t, E, g, Null, "left")
  /\ \A x \in E : ~RedPair(t, x)

\* Only nodes of the tree are red.
LEMMA RedsIn ==
  ASSUME NEW t, NEW E, NEW b, Grown(t, E, b)
  PROVE  t.red \subseteq E /\ Null \notin t.red /\ Null \notin E /\ E \subseteq Nodes /\ t \in Tree
BY NullNoNode DEF Grown, Shape, Clean, Tree

\* Every kid hangs below its parent.
Hangs(t, E, b) ==
  \A x \in E, d \in Sides :
     t.kid[d][x] # Null =>
        /\ t.kid[d][x] \in E /\ t.parent[t.kid[d][x]] = x /\ t.kid[d][x] # x /\ t.kid[Other(d)][x] # t.kid[d][x]
        /\ In(b, x, t.kid[d][x]) /\ ~In(b, t.kid[d][x], x)

\* What the shape and the bounds say of a kid, in one place.
LEMMA HangsIs ==
  ASSUME NEW t, NEW E, NEW b, Grown(t, E, b)
  PROVE  Hangs(t, E, b) /\ Shape(t, E) /\ Fits(t, E, b)
<1>1. Shape(t, E) /\ Fits(t, E, b)
  BY DEF Grown
<1>2. ASSUME NEW x \in E, NEW d \in Sides, t.kid[d][x] # Null
      PROVE  /\ t.kid[d][x] \in E /\ t.parent[t.kid[d][x]] = x /\ t.kid[d][x] # x
             /\ t.kid[Other(d)][x] # t.kid[d][x]
             /\ In(b, x, t.kid[d][x]) /\ ~In(b, t.kid[d][x], x)
  BY <1>1, <1>2, KidBelow
<1>3. QED
  BY <1>1, <1>2 DEF Hangs

\* The code finds the side of a node by comparing pointers.
LEMMA SideIs ==
  ASSUME NEW t, NEW E, NEW b, Grown(t, E, b), NEW x \in E, t.parent[x] # Null
  PROVE  /\ SideOf(t, t.parent[x], x) \in Sides
         /\ t.kid[SideOf(t, t.parent[x], x)][t.parent[x]] = x
         /\ t.parent[x] \in E
<1>1. PICK d \in Sides : t.kid[d][t.parent[x]] = x /\ t.kid[Other(d)][t.parent[x]] # x /\ t.parent[x] \in E
  BY OneSide DEF Grown
<1>2. SideOf(t, t.parent[x], x) = d
  BY <1>1 DEF SideOf, Sides, Other
<1>3. QED
  BY <1>1, <1>2

\* A call that ends and leaves a fine tree keeps the invariant.
LEMMA RestInv ==
  ASSUME NEW t, NEW E, Fine(t, E), t.root \notin t.red, tree' = t,
         NEW r, r.value \in Pointer, Return(r)
  PROVE  Inv' /\ Elems' = E
<1>1. PICK c : Grown(t, E, c)
  BY DEF Fine
<1>2. PICK g : Level(t, E, g, Null, "left")
  BY DEF Fine
<1>3. Elems' = E
  BY <1>1, ElemsAre DEF Grown, Elems
<1>4. TypeOK'
  BY <1>1 DEF Grown, Shape, TypeOK, Return, Pointer, Sides
<1>5. Grown(tree, Elems, c)' /\ Walks(c)'
  BY <1>1, <1>3 DEF Grown, Return, Walks, Shape, Clean, Fits, BoundsRight, Inherited, NoneBetween, Nested, In
<1>6. Level(tree, Elems, g, n, side)'
  BY <1>2, <1>3 DEF Return, Level, Even, Lack, Black
<1>7. Colors'
  BY <1>3 DEF Fine, Colors, Return, RedPair
<1>8. QED
  BY <1>3, <1>4, <1>5, <1>6, <1>7 DEF Inv

\* The same when the loop ends and the root gets black.
LEMMA SettleInv ==
  ASSUME NEW t, NEW E, Fine(t, E), answer.value \in Pointer, Settle(t)
  PROVE  Inv' /\ Elems' = E
<1> DEFINE u == Blacken(t, t.root)
<1>1. PICK c : Grown(t, E, c)
  BY DEF Fine
<1>2. /\ u \in Tree /\ u.root = t.root /\ u.kid = t.kid /\ u.parent = t.parent
      /\ u.red = t.red \ {t.root}
  BY <1>1, BlackenIs DEF Grown, Shape
<1> HIDE DEF u
<1>3. Grown(u, E, c)
  BY <1>1, <1>2, RecolorGrown, RedsIn DEF Recolored
<1>4. \E g : Level(u, E, g, Null, "left")
  BY <1>1, RootLevel DEF Grown, Fine, u
<1>5. \A x \in E : ~RedPair(u, x)
  BY <1>2 DEF Fine, RedPair
<1>6. Fine(u, E)
  BY <1>3, <1>4, <1>5 DEF Fine
<1>7. u.root \notin u.red
  BY <1>2
<1>8. QED
  BY <1>6, <1>7, RestInv DEF Settle, u

\* A loop goes on.
LEMMA LoopInv ==
  ASSUME NEW t, NEW E, \E c : Grown(t, E, c), \E g : Level(t, E, g, n', side'), tree' = t,
         phase' \in {"insert", "delete"}, Colors', node' \in Pointer, at' \in Pointer,
         p' \in Pointer, pp' \in Pointer, n' \in Pointer, side' \in Sides, answer'.value \in Pointer
  PROVE  Inv' /\ Elems' = E
<1>1. PICK c : Grown(t, E, c)
  OBVIOUS
<1>2. PICK g : Level(t, E, g, n', side')
  OBVIOUS
<1>3. Elems' = E
  BY <1>1, ElemsAre DEF Grown, Elems
<1>4. TypeOK'
  BY <1>1 DEF Grown, Shape, TypeOK
<1>5. Grown(tree, Elems, c)' /\ Walks(c)'
  BY <1>1, <1>3 DEF Grown, Walks, Shape, Clean, Fits, BoundsRight, Inherited, NoneBetween, Nested, In
<1>6. Level(tree, Elems, g, n, side)'
  BY <1>2, <1>3 DEF Level, Even, Lack, Black
<1>7. QED
  BY <1>3, <1>4, <1>5, <1>6 DEF Inv

\* The first node is linked at once; otherwise the walk begins at the root.
LEMMA InsertInv ==
  ASSUME Inv, NEW x \in Nodes, Insert(x)
  PROVE  Inv' /\ Elems' = IF tree.root = Null THEN {x} ELSE Elems
<1>1. PICK b : Grown(tree, Elems, b) /\ Walks(b)
  BY DEF Inv
<1>2. phase = "rest" /\ x \notin Elems /\ TypeOK /\ Colors
  BY DEF Inv, Insert
<1>3. CASE tree.root = Null
  <2> DEFINE u == Linked(x, Null)
  <2>1. /\ tree' = u /\ Return(Answer("insert", x, Null))
        /\ Null \in Pointer /\ Answer("insert", x, Null).value = Null
    BY <1>3 DEF Insert, Answer, Pointer
  <2>2. \E c : Grown(u, {x}, c)
    BY <1>1, <1>3, FirstGrown
  <2>3. /\ u.root = x /\ u.red = tree.red \ {x} /\ u.parent[x] = Null
        /\ \A d \in Sides : u.kid[d][x] = Null
    BY <1>2, <2>1, LinkedIs DEF TypeOK
  <2> HIDE DEF u
  <2>4. \E g : Level(u, {x}, g, Null, "left")
    BY <2>3, FirstLevel
  <2>5. Fine(u, {x}) /\ u.root \notin u.red
    BY <2>2, <2>3, <2>4 DEF Fine, RedPair
  <2>6. QED
    BY <1>3, <2>1, <2>5, RestInv
<1>4. CASE tree.root # Null
  <2>1. WalkFrom("descend", x, tree.root) /\ UNCHANGED side
    BY <1>4 DEF Insert
  <2>2. tree' = tree /\ Elems' = Elems /\ n' = n /\ side' = side /\ phase' = "descend" /\ node' = x
        /\ at' = tree.root
    BY <2>1 DEF WalkFrom, Elems
  <2>3. TypeOK'
    BY <1>2, <2>1, <2>2, TreeFields DEF TypeOK, WalkFrom, NoAnswer, Answer, Pointer
  <2>4. Walks(b)'
    <3>1. tree.root \in Elems /\ In(b, tree.root, x)
      BY <1>1, <1>4 DEF Grown, Shape, Fits, Inherited, In, Short
    <3>2. QED
      BY <1>2, <2>2, <3>1 DEF Walks
  <2>5. Colors'
    BY <1>2, <2>2 DEF Colors, RedPair
  <2>6. QED
    BY <1>1, <1>4, <2>2, <2>3, <2>4, <2>5 DEF Inv
<1>5. QED
  BY <1>3, <1>4

\* The node is linked where its walk ends, red; red below red begins the loop.
LEMMA InsertThereInv ==
  ASSUME Inv, InsertThere
  PROVE  Inv' /\ Elems' = Elems \union {node}
<1> DEFINE u == Linked(node, at)
           d == IF node > at THEN "right" ELSE "left"
           F == Elems \union {node}
<1>1. PICK b : Grown(tree, Elems, b) /\ Walks(b)
  BY DEF Inv
<1>2. PICK h : Level(tree, Elems, h, n, side)
  BY DEF Inv
<1>3. /\ phase = "descend" /\ TypeOK /\ Colors /\ tree.kid[d][at] = Null /\ tree' = u /\ n = Null
      /\ node \in Nodes /\ node \notin Elems /\ at \in Elems /\ In(b, at, node) /\ d \in Sides
  BY <1>1 DEF Inv, InsertThere, Ahead, Walks, Colors, Sides
<1>4. /\ Elems \subseteq Nodes /\ tree \in Tree /\ Null \notin Elems /\ at \in Pointer /\ at # Null
      /\ tree.red \subseteq Elems /\ Null \notin tree.red /\ at \in Nodes /\ at # node
  BY <1>1, <1>3, RedsIn DEF Pointer
<1>5. \E c : Grown(u, F, c)
  BY <1>1, <1>3, LeafGrown
<1>6. /\ u.root = tree.root /\ u.red = tree.red \union {node}
      /\ \A z \in Nodes : u.parent[z] = IF z = node THEN at ELSE tree.parent[z]
      /\ \A s \in Sides, y \in Nodes :
            u.kid[s][y] = IF y = node THEN Null ELSE IF y = at /\ s = d THEN node ELSE tree.kid[s][y]
  BY <1>3, <1>4, LinkedIs
<1> HIDE DEF u
<1>7. Leafed(tree, u, node, at, d)
  BY <1>6 DEF Leafed
<1>8. ASSUME NEW m, m = Null, NEW e PROVE \E g : Level(u, F, g, m, e)
  <2>1. Level(tree, Elems, h, Null, e)
    BY <1>2, <1>3, <1>4, NoLack
  <2>2. Shape(tree, Elems)
    BY <1>1 DEF Grown
  <2> HIDE DEF d
  <2>3. \E g : Level(u, F, g, Null, e)
    BY <1>3, <1>6, <1>7, <2>1, <2>2, LeafLevel
  <2>4. QED
    BY <1>8, <2>3
<1>9. \A x \in Elems : ~RedPair(tree, x)
  BY <1>3 DEF Colors
<1>10. \A x \in F : RedPair(u, x) => x = node /\ at \in tree.red
  <2>1. SUFFICES ASSUME NEW x \in F, RedPair(u, x) PROVE x = node /\ at \in tree.red
    OBVIOUS
  <2>2. x \in Nodes /\ u.parent[x] = IF x = node THEN at ELSE tree.parent[x]
    BY <1>3, <1>4, <1>6
  <2>3. CASE x = node
    BY <1>4, <1>6, <2>1, <2>2, <2>3 DEF RedPair
  <2>4. CASE x # node
    <3>1. x \in Elems /\ x \in tree.red /\ tree.parent[x] # node
      BY NullNoNode, <1>1, <1>3, <1>4, <1>6, <2>1, <2>4 DEF RedPair, Grown, Shape
    <3>2. tree.parent[x] \in tree.red
      BY <1>6, <2>1, <2>2, <2>4, <3>1 DEF RedPair
    <3>3. QED
      BY <1>9, <3>1, <3>2 DEF RedPair
  <2>5. QED
    BY <2>3, <2>4
<1>11. u.root \notin u.red /\ u.root # node
  BY <1>1, <1>3, <1>4, <1>6 DEF Colors, Grown, Shape
<1>12. CASE at \notin tree.red
  <2>1. Fine(u, F)
    BY <1>5, <1>8, <1>10, <1>12 DEF Fine
  <2>2. Return(Answer("insert", node, Null)) /\ Answer("insert", node, Null).value \in Pointer
    BY <1>12 DEF InsertThere, Answer, Pointer
  <2>3. QED
    BY <1>3, <1>11, <2>1, <2>2, RestInv
<1>13. CASE at \in tree.red
  <2>1. /\ phase' = "insert" /\ p' = at /\ pp' = tree.parent[at] /\ at' = Null /\ node' = node
        /\ n' = n /\ side' = side /\ answer'.value = Null
    BY <1>13 DEF InsertThere, Answer
  <2>2. tree.parent[at] \in Elems /\ Null \in Pointer /\ Elems \subseteq Pointer
    BY <1>1, <1>3, <1>4, <1>13 DEF Colors, Grown, Shape, Pointer
  <2>3. Elems' = F
    BY <1>3, <1>5, ElemsAre DEF Grown, Elems
  <2>4. Colors'
    <3>1. node \in F /\ node \in u.red /\ at = u.parent[node] /\ at \in F /\ at \in u.red
          /\ tree.parent[at] = u.parent[at] /\ tree.parent[at] \in F
      BY <1>3, <1>4, <1>6, <1>13, <2>2
    <3>2. QED
      BY <1>3, <1>10, <1>11, <2>1, <2>3, <3>1 DEF Colors
  <2>5. \E g : Level(u, F, g, n', side')
    BY <1>3, <1>8, <2>1
  <2>6. node' \in Pointer /\ at' \in Pointer /\ p' \in Pointer /\ pp' \in Pointer /\ n' \in Pointer
        /\ side' \in Sides /\ answer'.value \in Pointer
    BY <1>3, <1>4, <2>1, <2>2 DEF TypeOK
  <2>7. QED
    BY <1>3, <1>5, <2>1, <2>4, <2>5, <2>6, LoopInv
<1>14. QED
  BY <1>12, <1>13

\* A red uncle: the red pair moves two levels up, or is gone.
LEMMA InsertUpInv ==
  ASSUME Inv, InsertUp
  PROVE  Inv' /\ Elems' = Elems
<1>0. PICK E, s : E = Elems /\ s = SideOf(tree, pp, p)
  OBVIOUS
<1>1. PICK z, q, t : /\ z = tree.kid[Other(s)][pp] /\ q = tree.parent[pp]
                     /\ t = Redden(Blacken(Blacken(tree, z), p), pp)
  OBVIOUS
<1>2. PICK b : Grown(tree, E, b)
  BY <1>0 DEF Inv
<1>3. PICK h : Level(tree, E, h, n, side)
  BY <1>0 DEF Inv
<1>4. /\ phase = "insert" /\ TypeOK /\ Colors /\ n = Null /\ z \in tree.red
      /\ node \in E /\ node \in tree.red /\ p = tree.parent[node]
      /\ p \in E /\ p \in tree.red /\ pp = tree.parent[p] /\ pp \in E
      /\ \A x \in E : RedPair(tree, x) => x = node
      /\ tree.root \notin tree.red
  BY <1>0, <1>1 DEF Inv, InsertUp, RedUncle, Colors
<1>5. /\ E \subseteq Nodes /\ tree \in Tree /\ Null \notin E /\ tree.red \subseteq E
      /\ Shape(tree, E) /\ Fits(tree, E, b) /\ pp # Null /\ pp \in Nodes
  BY <1>2, <1>4, RedsIn DEF Grown
<1>6. /\ s \in Sides /\ p = tree.kid[s][pp] /\ Other(s) \in Sides
      /\ \A d \in Sides : d = s \/ d = Other(s)
  <2>1. s \in Sides /\ p = tree.kid[s][pp]
    BY <1>0, <1>2, <1>4, <1>5, SideIs
  <2>2. QED
    BY <2>1, Order DEF OrderLaws
<1>7. /\ p # Null /\ tree.parent[p] = pp /\ p # pp /\ In(b, pp, p)
      /\ z \in E /\ z # Null /\ tree.parent[z] = pp /\ z # p /\ z # pp /\ In(b, pp, z)
  <2>0. Hangs(tree, E, b)
    BY <1>2, HangsIs
  <2>1. p # Null /\ z # Null
    BY <1>4, <1>5
  <2>2. tree.parent[p] = pp /\ p # pp /\ In(b, pp, p) /\ tree.kid[Other(s)][pp] # p
    <3>1. tree.kid[s][pp] = p /\ tree.kid[s][pp] # Null /\ pp \in E /\ s \in Sides
      BY <1>4, <1>6, <2>1, Zenon
    <3>2. QED
      BY <2>0, <3>1 DEF Hangs
  <2>3. z \in E /\ tree.parent[z] = pp /\ z # pp /\ In(b, pp, z)
    BY <1>1, <1>4, <1>6, <2>0, <2>1, ZenonT(60) DEF Hangs
  <2>4. QED
    BY <1>1, <2>1, <2>2, <2>3
<1>8. pp \notin tree.red /\ node # p
  <2>1. node # p
    BY <1>4, <1>5, <1>7, ParentAbove
  <2>2. QED
    BY <1>4, <2>1 DEF RedPair
<1>9. /\ t \in Tree /\ t.root = tree.root /\ t.kid = tree.kid /\ t.parent = tree.parent
      /\ t.red = ((tree.red \ {z}) \ {p}) \union {pp}
  <2>1. PICK t1, t2 : t1 = Blacken(tree, z) /\ t2 = Blacken(t1, p) /\ t = Redden(t2, pp)
    BY <1>1
  <2>2. t1 \in Tree /\ t1.root = tree.root /\ t1.kid = tree.kid /\ t1.parent = tree.parent
        /\ t1.red = tree.red \ {z}
    BY <1>5, <2>1, BlackenIs
  <2>3. t2 \in Tree /\ t2.root = t1.root /\ t2.kid = t1.kid /\ t2.parent = t1.parent
        /\ t2.red = t1.red \ {p}
    BY <2>1, <2>2, BlackenIs
  <2>4. t \in Tree /\ t.root = t2.root /\ t.kid = t2.kid /\ t.parent = t2.parent
        /\ t.red = t2.red \union {pp}
    BY <1>5, <2>1, <2>3, ReddenIs
  <2>5. QED
    BY <2>2, <2>3, <2>4
<1>10. Grown(t, E, b)
  <2>1. Recolored(tree, t, E)
    BY <1>4, <1>5, <1>9 DEF Recolored
  <2>2. QED
    BY <1>2, <2>1, RecolorGrown
<1>11. \A e : \E g : Level(t, E, g, Null, e)
  <2>1. SUFFICES ASSUME NEW e PROVE \E g : Level(t, E, g, Null, e)
    OBVIOUS
  <2>2. Level(tree, E, h, Null, e)
    BY <1>3, <1>4, <1>5, NoLack
  <2>3. t.kid = tree.kid /\ t.red = ((tree.red \ {z}) \ {p}) \union {pp} /\ pp \notin tree.red
    BY <1>8, <1>9
  <2>4. /\ Shape(tree, E) /\ Fits(tree, E, b) /\ pp \in E /\ s \in Sides /\ p \in E /\ z \in E
        /\ p = tree.kid[s][pp] /\ z = tree.kid[Other(s)][pp] /\ p \in tree.red /\ z \in tree.red
    BY <1>1, <1>4, <1>5, <1>6, <1>7, Zenon
  <2>5. QED
    BY <2>2, <2>3, <2>4, UncleLevel
<1>12. \A x \in E : RedPair(t, x) => x = pp /\ q \in tree.red /\ q # Null
  <2>1. SUFFICES ASSUME NEW x \in E, RedPair(t, x) PROVE x = pp /\ q \in tree.red /\ q # Null
    OBVIOUS
  <2>2. x \in t.red /\ tree.parent[x] \in t.red /\ x # p /\ x # z /\ tree.parent[x] # p
    BY <1>4, <1>7, <1>9, <2>1 DEF RedPair
  <2>3. CASE x = pp
    <3>1. q # Null
      BY <1>1, <1>4, <1>5, <1>9, <2>2, <2>3, ZenonT(60)
    <3>2. q # pp
      BY <1>1, <1>4, <1>5, <3>1, ParentAbove, SMTT(30)
    <3>3. QED
      BY <1>1, <1>9, <2>2, <2>3, <3>1, <3>2
  <2>4. CASE x # pp
    <3>1. x \in tree.red /\ x # node
      BY <1>4, <1>9, <2>2, <2>4
    <3>2. tree.parent[x] # pp
      <4>1. SUFFICES ASSUME tree.parent[x] = pp PROVE FALSE
        OBVIOUS
      <4>2. PICK d \in Sides : tree.kid[d][pp] = x
        BY <1>5, <4>1 DEF Shape
      <4>3. QED
        BY <1>1, <1>6, <2>2, <4>2
    <3>3. RedPair(tree, x)
      BY <1>9, <2>2, <3>1, <3>2 DEF RedPair
    <3>4. QED
      BY <1>4, <3>1, <3>3
  <2>5. QED
    BY <2>3, <2>4
<1>13. CASE q = Null \/ q \notin tree.red
  <2>1. Fine(t, E)
    BY <1>10, <1>11, <1>12, <1>13 DEF Fine
  <2>2. Settle(t) /\ answer.value \in Pointer
    BY <1>0, <1>1, <1>4, <1>13, Zenon DEF InsertUp, TypeOK
  <2>3. QED
    BY <1>0, <2>1, <2>2, SettleInv
<1>14. CASE q # Null /\ q \in tree.red
  <2>1. /\ tree' = t /\ node' = pp /\ p' = q /\ pp' = tree.parent[q] /\ phase' = "insert"
        /\ at' = at /\ n' = n /\ side' = side /\ answer' = answer
    BY <1>0, <1>1, <1>4, <1>14, Zenon DEF InsertUp
  <2>2. q \in E /\ q # p /\ q # z /\ q # pp /\ pp # tree.root
    <3>1. q \in E /\ q # pp /\ pp # tree.root /\ In(b, q, pp) /\ ~In(b, pp, q)
      BY <1>1, <1>5, <1>14, <1>4, ParentAbove
    <3>2. QED
      BY <1>7, <3>1, ZenonT(60)
  <2>3. tree.parent[q] \in E
    BY <1>4, <1>5, <1>14, <2>2 DEF Shape
  <2>4. Elems' = E
    BY <1>10, <2>1, ElemsAre, ZenonT(60) DEF Grown, Elems
  <2>5. Colors'
    <3>1. pp \in t.red /\ q \in t.red /\ t.root \notin t.red
      BY <1>4, <1>9, <1>14, <2>2
    <3>2. q = t.parent[pp] /\ tree.parent[q] = t.parent[q]
      BY <1>1, <1>9
    <3>3. QED
      BY <1>4, <1>12, <2>1, <2>2, <2>3, <2>4, <3>1, <3>2 DEF Colors
  <2>6. \E g : Level(t, E, g, n', side')
    BY <1>4, <1>11, <2>1
  <2>7. node' \in Pointer /\ at' \in Pointer /\ p' \in Pointer /\ pp' \in Pointer /\ n' \in Pointer
        /\ side' \in Sides /\ answer'.value \in Pointer
    BY <1>4, <1>5, <2>1, <2>2, <2>3 DEF TypeOK, Pointer
  <2>8. QED
    BY <1>0, <1>10, <2>1, <2>5, <2>6, <2>7, LoopInv
<1>15. QED
  BY <1>0, <1>13, <1>14

\* The last rotation of an insert: the red kid top of a black node x gets black
\* and goes up.
LEMMA TopUp ==
  ASSUME NEW t, NEW E, NEW b, Grown(t, E, b), NEW h, Level(t, E, h, Null, "left"),
         NEW x \in E, x \notin t.red, NEW o \in Sides, NEW top \in t.red, t.kid[Other(o)][x] = top,
         t.kid[o][x] \notin t.red,
         \A y \in E : RedPair(t, y) => t.parent[y] = top /\ y # t.kid[o][top]
  PROVE  Fine(Rotate(Blacken(Redden(t, x), top), o, x), E)
<1>1. PICK v, w, u, s : v = Redden(t, x) /\ w = Blacken(v, top) /\ u = Rotate(w, o, x) /\ s = Other(o)
  OBVIOUS
<1>2. /\ E \subseteq Nodes /\ t \in Tree /\ Null \notin E /\ t.red \subseteq E /\ x \in Nodes
      /\ Shape(t, E) /\ Fits(t, E, b) /\ Hangs(t, E, b) /\ top # Null /\ top \in E /\ x # top
      /\ s \in Sides /\ o # s /\ Other(s) = o /\ \A d \in Sides : d = o \/ d = s
  <2>1. /\ E \subseteq Nodes /\ t \in Tree /\ Null \notin E /\ t.red \subseteq E
        /\ Shape(t, E) /\ Fits(t, E, b) /\ Hangs(t, E, b)
    BY RedsIn, HangsIs
  <2>2. s \in Sides /\ o # s /\ Other(s) = o /\ \A d \in Sides : d = o \/ d = s
    BY <1>1, Order DEF OrderLaws
  <2>3. QED
    BY <2>1, <2>2
<1>3. /\ w \in Tree /\ w.root = t.root /\ w.kid = t.kid /\ w.parent = t.parent
      /\ w.red = (t.red \union {x}) \ {top}
  <2>1. v \in Tree /\ v.root = t.root /\ v.kid = t.kid /\ v.parent = t.parent /\ v.red = t.red \union {x}
    BY <1>1, <1>2, ReddenIs
  <2>2. w \in Tree /\ w.root = v.root /\ w.kid = v.kid /\ w.parent = v.parent /\ w.red = v.red \ {top}
    BY <1>1, <2>1, BlackenIs
  <2>3. QED
    BY <2>1, <2>2
<1>4. Grown(w, E, b)
  <2>1. Recolored(t, w, E)
    BY <1>2, <1>3 DEF Recolored
  <2>2. QED
    BY <2>1, RecolorGrown
<1>5. w.kid[Other(o)][x] = top /\ w.kid[Other(o)][x] # Null
  BY <1>2, <1>3
<1>6. Rotated(w, u, o, x, top) /\ u.red = w.red /\ \E c : Grown(u, E, c)
  BY <1>1, <1>4, <1>5, RotateGrown
<1>7. top \notin u.red /\ x \in u.red
  BY <1>2, <1>3, <1>6
<1>8. \E g : Level(u, E, g, Null, "left")
  <2>1. SwapRight(t, u, h, o, x, top, Null, "left")
    <3>1. \A y \in E, d \in Sides : /\ h[y] = h[t.kid[d][y]] + Lack(y, d, Null, "left") + Black(t, y)
                                    /\ Lack(y, d, Null, "left") = 0
                                    /\ h[y] \in Nat /\ h[t.kid[d][y]] \in Nat
      BY <1>2 DEF Level, Even, Lack, Shape, Pointer
    <3>2. Black(u, x) = 0 /\ Black(u, top) = 1 /\ Black(t, x) = 1 /\ Black(t, top) = 0
      BY <1>7 DEF Black
    <3>3. h[x] = h[top] + 1 /\ h[x] = h[t.kid[o][x]] + 1
      BY <1>1, <1>2, <3>1, <3>2
    <3>4. h[top] = h[t.kid[o][top]] /\ h[top] = h[t.kid[s][top]]
      BY <1>2, <3>1, <3>2
    <3>5. \A d \in Sides : Lack(x, d, Null, "left") = 0 /\ Lack(top, d, Null, "left") = 0
      BY <1>2, <3>1
    <3>6. h[top] \in Nat /\ h[x] \in Nat /\ h[t.kid[o][x]] \in Nat
      BY <1>2, <3>1
    <3>7. QED
      BY <1>1, <1>2, <3>2, <3>3, <3>4, <3>5, <3>6 DEF SwapRight
  <2>2. \A y \in E : y # x /\ y # top => (y \in u.red <=> y \in t.red)
    BY <1>3, <1>6
  <2>3. top = t.kid[Other(o)][x] /\ w.kid = t.kid /\ w.parent = t.parent /\ top \in E
    BY <1>2, <1>3
  <2>4. Shape(t, E) /\ Fits(t, E, b)
    BY <1>2
  <2>5. QED
    BY <1>6, <2>1, <2>2, <2>3, <2>4, SwapLevel
<1>9. \A y \in E : ~RedPair(u, y)
  <2>1. SUFFICES ASSUME NEW y \in E, RedPair(u, y) PROVE FALSE
    OBVIOUS
  <2>2. y \in u.red /\ u.parent[y] \in u.red /\ y \in Nodes /\ y # top /\ y # Null
    BY <1>2, <1>7, <2>1 DEF RedPair
  <2>3. u.parent[y] = IF y = top THEN t.parent[x] ELSE IF y = x THEN top
                      ELSE IF y = t.kid[o][top] THEN x ELSE t.parent[y]
    BY <1>3, <1>6, <2>2 DEF Rotated
  <2>4. y # x
    BY <1>7, <2>2, <2>3
  <2>5. y \in t.red
    BY <1>3, <1>6, <2>2, <2>4
  <2>6. y # t.kid[o][top]
    <3>1. SUFFICES ASSUME y = t.kid[o][top] PROVE FALSE
      OBVIOUS
    <3>2. t.parent[y] = top
      BY <1>2, <2>2, <3>1 DEF Shape
    <3>3. RedPair(t, y)
      BY <2>5, <3>2 DEF RedPair
    <3>4. QED
      BY <3>1, <3>3
  <2>7. t.parent[y] \in u.red
    BY <2>2, <2>3, <2>4, <2>6
  <2>8. t.parent[y] # x
    <3>1. SUFFICES ASSUME t.parent[y] = x PROVE FALSE
      OBVIOUS
    <3>2. y # t.root
      BY <1>2, <3>1 DEF Shape
    <3>3. PICK d \in Sides : t.kid[d][x] = y
      BY <1>2, <3>1, <3>2 DEF Shape
    <3>4. QED
      BY <1>1, <1>2, <2>2, <2>5, <3>3
  <2>9. RedPair(t, y)
    BY <1>3, <1>6, <2>5, <2>7, <2>8 DEF RedPair
  <2>10. QED
    BY <1>7, <2>7, <2>9
<1>10. QED
  BY <1>1, <1>6, <1>8, <1>9 DEF Fine

\* A black uncle: one rotation or two, and no red pair is left.
LEMMA InsertRotateInv ==
  ASSUME Inv, InsertRotate
  PROVE  Inv' /\ Elems' = Elems
<1>0. PICK E, s, o : E = Elems /\ s = SideOf(tree, pp, p) /\ o = Other(s)
  OBVIOUS
<1>1. PICK b : Grown(tree, E, b)
  BY <1>0 DEF Inv
<1>2. PICK h0 : Level(tree, E, h0, n, side)
  BY <1>0 DEF Inv
<1>3. /\ phase = "insert" /\ TypeOK /\ Colors /\ n = Null /\ tree.kid[o][pp] \notin tree.red
      /\ node \in E /\ node \in tree.red /\ p = tree.parent[node]
      /\ p \in E /\ p \in tree.red /\ pp = tree.parent[p] /\ pp \in E
      /\ \A x \in E : RedPair(tree, x) => x = node
  BY <1>0 DEF Inv, InsertRotate, RedUncle, Colors
<1>4. /\ E \subseteq Nodes /\ tree \in Tree /\ Null \notin E /\ tree.red \subseteq E
      /\ Shape(tree, E) /\ Fits(tree, E, b) /\ Hangs(tree, E, b)
  BY <1>1, RedsIn, HangsIs, ZenonT(60)
<1>5. s \in Sides /\ tree.kid[s][pp] = p
  BY <1>0, <1>1, <1>3, <1>4, SideIs
<1>6. o \in Sides /\ o # s /\ Other(o) = s /\ \A d \in Sides : d = s \/ d = o
  BY <1>0, <1>5, Order, ZenonT(60) DEF OrderLaws
<1>7. p # Null /\ node # Null /\ pp # Null /\ p # pp /\ tree.kid[o][pp] # p
  <2>1. tree.kid[s][pp] # Null
    BY <1>3, <1>4, <1>5
  <2>2. QED
    BY <1>0, <1>3, <1>4, <1>5, <2>1 DEF Hangs
<1>8. pp \notin tree.red /\ node # p /\ pp # node
  <2>1. node # p
    BY <1>3, <1>4, <1>7, ParentAbove
  <2>2. QED
    BY <1>3, <2>1 DEF RedPair
<1>9. Level(tree, E, h0, Null, "left")
  BY <1>2, <1>3, <1>4, NoLack
<1>10. CASE tree.kid[o][p] # node
  <2>1. \A y \in E : RedPair(tree, y) => tree.parent[y] = p /\ y # tree.kid[o][p]
    BY <1>3, <1>10, SMTT(30)
  <2>2. Fine(Rotate(Blacken(Redden(tree, pp), p), o, pp), E)
    BY <1>1, <1>3, <1>5, <1>6, <1>8, <1>9, <2>1, TopUp, SMTT(30)
  <2>3. Settle(Rotate(Blacken(Redden(tree, pp), p), o, pp)) /\ answer.value \in Pointer
    BY <1>0, <1>3, <1>10 DEF InsertRotate, TypeOK
  <2>4. QED
    BY <1>0, <2>2, <2>3, SettleInv
<1>11. CASE tree.kid[o][p] = node
  <2>1. PICK t : t = Rotate(tree, s, p)
    OBVIOUS
  <2>2. tree.kid[Other(s)][p] = node /\ tree.kid[Other(s)][p] # Null
    BY <1>0, <1>7, <1>11
  <2>3. Rotated(tree, t, s, p, node) /\ t.red = tree.red /\ \E c : Grown(t, E, c)
    BY <1>1, <1>3, <1>5, <2>1, <2>2, RotateGrown
  <2>4. PICK c : Grown(t, E, c)
    BY <2>3
  <2>5. \E g : Level(t, E, g, Null, "left")
    <3>1. SwapRight(tree, t, h0, s, p, node, Null, "left")
      <4>1. \A y \in E, d \in Sides : /\ h0[y] = h0[tree.kid[d][y]] + Lack(y, d, Null, "left") + Black(tree, y)
                                      /\ Lack(y, d, Null, "left") = 0
                                      /\ h0[y] \in Nat /\ h0[tree.kid[d][y]] \in Nat
        BY <1>4, <1>9 DEF Level, Even, Lack, Shape, Pointer
      <4>2. Black(t, p) = 0 /\ Black(t, node) = 0 /\ Black(tree, p) = 0 /\ Black(tree, node) = 0
        BY <1>3, <2>3 DEF Black
      <4>3. h0[p] = h0[tree.kid[s][p]] /\ h0[p] = h0[node]
        BY <1>3, <1>5, <1>6, <1>11, <4>1, <4>2
      <4>4. h0[node] = h0[tree.kid[s][node]] /\ h0[node] = h0[tree.kid[o][node]]
        BY <1>3, <1>5, <1>6, <4>1, <4>2
      <4>5. \A d \in Sides : Lack(p, d, Null, "left") = 0 /\ Lack(node, d, Null, "left") = 0
        BY <1>3, <4>1
      <4>6. h0[p] \in Nat /\ h0[node] \in Nat
        BY <1>3, <1>5, <4>1
      <4>7. QED
        BY <1>0, <1>5, <1>6, <4>2, <4>3, <4>4, <4>5, <4>6 DEF SwapRight
    <3>2. \A y \in E : y # p /\ y # node => (y \in t.red <=> y \in tree.red)
      BY <2>3
    <3>3. node = tree.kid[Other(s)][p] /\ p \in E /\ node \in E /\ Shape(tree, E) /\ Fits(tree, E, b)
      BY <1>3, <1>4, <2>2
    <3>4. QED
      BY <1>5, <1>9, <2>3, <3>1, <3>2, <3>3, SwapLevel
  <2>6. PICK g : Level(t, E, g, Null, "left")
    BY <2>5, ZenonT(60)
  <2>7. t.kid[s][pp] = node /\ t.kid[o][pp] \notin t.red /\ t.kid[o][node] = tree.kid[o][node]
    <3>1. pp \in Nodes /\ node \in Nodes
      BY <1>3, <1>4
    <3>2. QED
      BY <1>3, <1>5, <1>6, <1>7, <1>8, <2>3, <3>1 DEF Rotated
  <2>8. \A y \in E : RedPair(t, y) => t.parent[y] = node /\ y # t.kid[o][node]
    <3>1. SUFFICES ASSUME NEW y \in E, RedPair(t, y) PROVE t.parent[y] = node /\ y # t.kid[o][node]
      OBVIOUS
    <3>2. t.parent[y] = IF y = node THEN tree.parent[p] ELSE IF y = p THEN node
                        ELSE IF y = tree.kid[s][node] THEN p ELSE tree.parent[y]
      BY <1>4, <2>3 DEF Rotated
    <3>3. y \in tree.red /\ t.parent[y] \in tree.red /\ y # Null /\ y # node
      BY <1>3, <1>4, <1>8, <2>3, <3>1, <3>2 DEF RedPair
    <3>4. y # tree.kid[s][node]
      <4>1. SUFFICES ASSUME y = tree.kid[s][node] PROVE FALSE
        OBVIOUS
      <4>2. tree.parent[y] = node
        BY <1>3, <1>4, <1>5, <3>3, <4>1 DEF Hangs
      <4>3. QED
        BY <1>3, <3>3, <4>2 DEF RedPair
    <3>5. y = p
      BY <1>3, <3>2, <3>3, <3>4 DEF RedPair
    <3>6. p # tree.kid[o][node]
      <4>1. In(b, p, node) /\ ~In(b, node, p)
        BY <1>3, <1>4, <1>6, <1>7, <1>11 DEF Hangs
      <4>2. QED
        BY <1>3, <1>4, <1>6, <1>7, <4>1 DEF Hangs
    <3>7. QED
      BY <1>8, <2>7, <3>2, <3>5, <3>6
  <2>9. Fine(Rotate(Blacken(Redden(t, pp), node), o, pp), E)
    <3>1. node \in t.red /\ pp \notin t.red /\ t.kid[Other(o)][pp] = node
      BY <1>3, <1>6, <1>8, <2>3, <2>7, ZenonT(60)
    <3>2. QED
      BY <1>3, <1>6, <2>4, <2>6, <2>7, <2>8, <3>1, TopUp
  <2>10. Settle(Rotate(Blacken(Redden(t, pp), node), o, pp)) /\ answer.value \in Pointer
    BY <1>0, <1>3, <1>11, <2>1 DEF InsertRotate, TypeOK
  <2>11. QED
    BY <1>0, <2>9, <2>10, SettleInv
<1>12. QED
  BY <1>0, <1>10, <1>11

\* What the turns of the loop of a delete begin with.
Misses(E, b, h) ==
  /\ E = Elems /\ Grown(tree, E, b) /\ Level(tree, E, h, n, side)
  /\ E \subseteq Nodes /\ tree \in Tree /\ Null \notin E /\ tree.red \subseteq E
  /\ Shape(tree, E) /\ Fits(tree, E, b) /\ Hangs(tree, E, b)
  /\ n \in E /\ n # Null /\ tree.kid[Other(side)][n] # Null
  /\ side \in Sides /\ Other(side) \in Sides /\ Other(side) # side
  /\ \A d \in Sides : d = side \/ d = Other(side)
  /\ tree.root \notin tree.red /\ answer.value \in Pointer

\* What every turn of the loop of a deletion finds.
LEMMA DeleteBegins ==
  ASSUME Inv, phase = "delete"
  PROVE  /\ \E E, b, h : Misses(E, b, h)
         /\ \A x \in Elems : RedPair(tree, x) => tree.kid[side][n] \in {x, tree.parent[x]}
<1>1. PICK b : Grown(tree, Elems, b)
  BY DEF Inv
<1>2. PICK h : Level(tree, Elems, h, n, side)
  BY DEF Inv
<1>3. /\ n \in Elems /\ side \in Sides /\ tree.root \notin tree.red /\ answer.value \in Pointer
      /\ \A x \in Elems : RedPair(tree, x) => tree.kid[side][n] \in {x, tree.parent[x]}
  BY DEF Inv, Colors, TypeOK
<1>4. Shape(tree, Elems) /\ Fits(tree, Elems, b) /\ Hangs(tree, Elems, b)
  BY <1>1, HangsIs
<1>5. tree.kid[Other(side)][n] # Null
  BY <1>2, <1>3, <1>4, SiblingThere
<1>6. /\ Elems \subseteq Nodes /\ tree \in Tree /\ Null \notin Elems /\ tree.red \subseteq Elems
  BY <1>1, RedsIn
<1>7. Other(side) \in Sides /\ Other(side) # side /\ \A d \in Sides : d = side \/ d = Other(side)
  BY <1>3, Order DEF OrderLaws
<1>8. Misses(Elems, b, h)
  BY <1>1, <1>2, <1>3, <1>4, <1>5, <1>6, <1>7 DEF Misses
<1>9. QED
  BY <1>3, <1>8

\* A red kid where the black is missing makes up for it.
LEMMA DeleteBlackenInv ==
  ASSUME Inv, DeleteBlacken
  PROVE  Inv' /\ Elems' = Elems
<1>1. phase = "delete" /\ IsRed(tree.kid[side][n])
  BY DEF DeleteBlacken
<1>2. PICK E, b, h : Misses(E, b, h)
  BY <1>1, DeleteBegins
<1>3. \A x \in E : RedPair(tree, x) => tree.kid[side][n] \in {x, tree.parent[x]}
  BY <1>1, <1>2, DeleteBegins DEF Misses
<1>4. PICK k, u : k = tree.kid[side][n] /\ u = Blacken(tree, k)
  OBVIOUS
<1>5. k # Null /\ k \in tree.red
  BY <1>1, <1>4 DEF IsRed
<1>6. /\ u \in Tree /\ u.root = tree.root /\ u.kid = tree.kid /\ u.parent = tree.parent
      /\ u.red = tree.red \ {k}
  BY <1>2, <1>4, BlackenIs DEF Misses
<1>7. Grown(u, E, b)
  <2>1. Recolored(tree, u, E)
    BY <1>2, <1>6 DEF Recolored, Misses
  <2>2. QED
    BY <1>2, <2>1, RecolorGrown DEF Misses
<1>8. \E g : Level(u, E, g, Null, "left")
  <2>1. PICK g : Level(u, E, g, Null, side)
    <3>1. tree.kid[side][n] \in tree.red /\ tree.kid[side][n] # Null
          /\ u.kid = tree.kid /\ u.red = tree.red \ {tree.kid[side][n]}
      BY <1>4, <1>5, <1>6
    <3>2. Shape(tree, E) /\ Fits(tree, E, b) /\ n \in E /\ side \in Sides /\ Level(tree, E, h, n, side)
      BY <1>2 DEF Misses
    <3>3. QED
      BY <3>1, <3>2, KidLevel
  <2>2. QED
    BY <1>2, <2>1, NoLack DEF Misses
<1>9. \A x \in E : ~RedPair(u, x)
  BY <1>3, <1>4, <1>6 DEF RedPair
<1>10. Fine(u, E)
  BY <1>7, <1>8, <1>9 DEF Fine
<1>11. Settle(u) /\ answer.value \in Pointer
  BY <1>2, <1>4 DEF DeleteBlacken, Misses
<1>12. QED
  BY <1>2, <1>10, <1>11, SettleInv DEF Misses

\* Without a red kid there, no red is below red.
LEMMA DeleteNoRed ==
  ASSUME Inv, Deficient, NEW E, NEW b, NEW h, Misses(E, b, h)
  PROVE  /\ phase = "delete" /\ tree.kid[side][n] \notin tree.red
         /\ \A x \in E : ~RedPair(tree, x)
<1>1. phase = "delete" /\ tree.kid[side][n] \notin tree.red
  BY DEF Deficient, IsRed, Misses
<1>2. \A x \in E : RedPair(tree, x) => tree.kid[side][n] \in {x, tree.parent[x]}
  BY <1>1, DeleteBegins DEF Misses
<1>3. QED
  BY <1>1, <1>2 DEF RedPair

\* The sibling gets red: the black is missing one level higher, or nowhere.
LEMMA DeleteUpInv ==
  ASSUME Inv, DeleteUp
  PROVE  Inv' /\ Elems' = Elems
<1>1. PICK E, b, h : Misses(E, b, h)
  BY DeleteBegins DEF DeleteUp, Deficient
<1>2. /\ phase = "delete" /\ tree.kid[side][n] \notin tree.red
      /\ \A x \in E : ~RedPair(tree, x)
  BY <1>1, DeleteNoRed DEF DeleteUp
<1>3. PICK z, q, t : z = tree.kid[Other(side)][n] /\ q = tree.parent[n] /\ t = Redden(tree, z)
  OBVIOUS
<1>4. /\ z \in E /\ z # Null /\ tree.parent[z] = n /\ z # n /\ z \notin tree.red
      /\ \A d \in Sides : tree.kid[d][z] \notin tree.red
  <2>1. z \in E /\ z # Null /\ tree.parent[z] = n /\ z # n
    BY <1>1, <1>3 DEF Misses, Hangs
  <2>2. z \notin tree.red /\ tree.kid[side][z] \notin tree.red /\ tree.kid[Other(side)][z] \notin tree.red
    BY <1>1, <1>3, <2>1 DEF DeleteUp, IsRed, Sibling, Outer, Inner, Nephew, Misses
  <2>3. QED
    BY <1>1, <2>1, <2>2 DEF Misses
<1>5. /\ t \in Tree /\ t.root = tree.root /\ t.kid = tree.kid /\ t.parent = tree.parent
      /\ t.red = tree.red \union {z}
  BY <1>1, <1>3, <1>4, ReddenIs DEF Misses
<1>6. Grown(t, E, b)
  <2>1. Recolored(tree, t, E)
    BY <1>1, <1>4, <1>5 DEF Recolored, Misses
  <2>2. QED
    BY <1>1, <2>1, RecolorGrown DEF Misses
<1>7. \A d \in Sides : (q # Null => tree.kid[d][q] = n) => \E g : Level(t, E, g, q, d)
  <2>1. SUFFICES ASSUME NEW d \in Sides, q # Null => tree.kid[d][q] = n PROVE \E g : Level(t, E, g, q, d)
    OBVIOUS
  <2>2. /\ Shape(tree, E) /\ Fits(tree, E, b) /\ n \in E /\ side \in Sides /\ Level(tree, E, h, n, side)
    BY <1>1 DEF Misses
  <2>3. /\ tree.kid[Other(side)][n] \notin tree.red /\ t.kid = tree.kid
        /\ t.red = tree.red \union {tree.kid[Other(side)][n]}
        /\ tree.parent[n] # Null => tree.kid[d][tree.parent[n]] = n
    BY <1>3, <1>4, <1>5, <2>1
  <2>4. \E g : Level(t, E, g, tree.parent[n], d)
    BY <2>1, <2>2, <2>3, UpLevel
  <2>5. QED
    BY <1>3, <2>4
<1>8. \A x \in E : RedPair(t, x) => x = z /\ n \in tree.red
  <2>1. SUFFICES ASSUME NEW x \in E, RedPair(t, x) PROVE x = z /\ n \in tree.red
    OBVIOUS
  <2>2. x \in t.red /\ tree.parent[x] \in t.red
    BY <1>5, <2>1 DEF RedPair
  <2>3. CASE x = z
    BY <1>4, <1>5, <2>2, <2>3
  <2>4. CASE x # z
    <3>1. x \in tree.red
      BY <1>5, <2>2, <2>4
    <3>2. tree.parent[x] # z
      <4>1. SUFFICES ASSUME tree.parent[x] = z PROVE FALSE
        OBVIOUS
      <4>2. x # tree.root
        BY <1>1, <1>4, <4>1 DEF Misses, Shape
      <4>3. PICK d \in Sides : tree.kid[d][z] = x
        BY <1>1, <4>1, <4>2 DEF Misses, Shape
      <4>4. QED
        BY <1>4, <3>1, <4>3
    <3>3. QED
      BY <1>2, <1>5, <2>2, <3>1, <3>2 DEF RedPair
  <2>5. QED
    BY <2>3, <2>4
<1>9. CASE q = Null
  <2>1. n = tree.root
    <3>1. Shape(tree, E) /\ n \in E /\ tree.parent[n] = Null /\ Null \notin E
      BY <1>1, <1>3, <1>9 DEF Misses
    <3>2. n # tree.root => tree.parent[n] \in E
      BY <3>1 DEF Shape
    <3>3. QED
      BY <3>1, <3>2
  <2>2. \A x \in E : ~RedPair(t, x)
    BY <1>1, <1>8, <2>1 DEF Misses
  <2>3. \E g : Level(t, E, g, Null, "left")
    <3>1. "left" \in Sides
      BY DEF Sides
    <3>2. QED
      BY <1>7, <1>9, <3>1
  <2>4. Fine(t, E)
    BY <1>6, <2>2, <2>3 DEF Fine
  <2>5. Settle(t) /\ answer.value \in Pointer
    BY <1>1, <1>3, <1>9 DEF DeleteUp, Sibling, Misses
  <2>6. QED
    BY <1>1, <2>4, <2>5, SettleInv DEF Misses
<1>10. CASE q # Null
  <2>1. q \in E /\ q # n /\ \E d \in Sides : tree.kid[d][q] = n /\ tree.kid[Other(d)][q] # n
    <3>1. Shape(tree, E) /\ Fits(tree, E, b) /\ n \in E /\ tree.parent[n] # Null
      BY <1>1, <1>3, <1>10 DEF Misses
    <3>2. QED
      BY <1>3, <3>1, OneSide, ParentAbove
  <2>2. /\ tree' = t /\ n' = q /\ side' = SideAbove(q) /\ phase' = "delete" /\ answer' = answer
        /\ node' = node /\ at' = at /\ p' = p /\ pp' = pp
    BY <1>2, <1>3, <1>10 DEF DeleteUp, Sibling, Above
  <2>3. side' \in Sides /\ tree.kid[side'][q] = n
    <3>1. PICK d \in Sides : tree.kid[d][q] = n /\ tree.kid[Other(d)][q] # n
      BY <2>1
    <3>2. d = side \/ d = Other(side)
      BY <1>1, <3>1 DEF Misses
    <3>3. Other(Other(side)) = side /\ side \in Sides /\ Other(side) \in Sides
      BY <1>1, Order DEF Misses, OrderLaws
    <3>4. QED
      BY <2>2, <3>1, <3>2, <3>3 DEF SideAbove
  <2>4. \E g : Level(t, E, g, n', side')
    BY <1>7, <2>2, <2>3
  <2>5. Elems' = E
    BY <1>6, <2>2, ElemsAre DEF Grown, Elems
  <2>6. Colors'
    <3>1. t.root \notin t.red
      <4>1. tree.root # z
        BY <1>1, <1>4 DEF Misses, Shape
      <4>2. QED
        BY <1>1, <1>5, <4>1 DEF Misses
    <3>2. \A x \in E : RedPair(t, x) => t.kid[side'][q] \in {x, t.parent[x]}
      BY <1>4, <1>5, <1>8, <2>3
    <3>3. QED
      BY <2>1, <2>2, <2>5, <3>1, <3>2 DEF Colors
  <2>7. node' \in Pointer /\ at' \in Pointer /\ p' \in Pointer /\ pp' \in Pointer /\ n' \in Pointer
        /\ answer'.value \in Pointer
    BY <1>1, <2>1, <2>2 DEF Inv, TypeOK, Misses, Pointer
  <2>8. QED
    BY <1>1, <1>6, <2>2, <2>3, <2>4, <2>6, <2>7, LoopInv DEF Misses
<1>11. QED
  BY <1>1, <1>9, <1>10 DEF Misses

\* A node that has a parent is its kid on one side.
LEMMA KidOf ==
  ASSUME NEW t, NEW E, Shape(t, E), NEW x \in E, NEW y \in E, t.parent[y] = x
  PROVE  \E d \in Sides : t.kid[d][x] = y
<1>1. y # t.root
  BY NullNoNode, ZenonT(60) DEF Shape
<1>2. QED
  BY <1>1 DEF Shape

\* The heights around the place that lacks a black.
LEMMA HeightsAround ==
  ASSUME NEW E, NEW b, NEW h, Misses(E, b, h), NEW r, r = tree.kid[Other(side)][n]
  PROVE  /\ r \in E /\ r # Null /\ r # n /\ tree.parent[r] = n /\ tree.kid[side][n] # r
         /\ h[n] = h[tree.kid[side][n]] + 1 + Black(tree, n) /\ h[n] = h[r] + Black(tree, n)
         /\ \A d \in Sides : h[r] = h[tree.kid[d][r]] + Black(tree, r) /\ h[tree.kid[d][r]] \in Nat
         /\ h[n] \in Nat /\ h[r] \in Nat /\ h[tree.kid[side][n]] \in Nat
<1>1. /\ r \in E /\ r # Null /\ r # n /\ tree.parent[r] = n
  BY DEF Misses, Hangs
<1>2. tree.kid[side][n] # r
  <2>1. tree.kid[Other(Other(side))][n] # r
    BY DEF Misses, Hangs
  <2>2. Other(Other(side)) = side
    BY Order DEF OrderLaws, Misses
  <2>3. QED
    BY <2>1, <2>2
<1>3. /\ h[Null] = 0 /\ \A x \in E : h[x] \in Nat
      /\ \A x \in E, d \in Sides : /\ h[tree.kid[d][x]] \in Nat
                                   /\ h[x] = h[tree.kid[d][x]] + Lack(x, d, n, side) + Black(tree, x)
  BY DEF Misses, Level, Even, Shape, Pointer
<1>4. /\ Lack(n, side, n, side) = 1 /\ Lack(n, Other(side), n, side) = 0
      /\ \A d \in Sides : Lack(r, d, n, side) = 0
  BY <1>1 DEF Lack, Misses
<1>5. Black(tree, n) \in Nat /\ Black(tree, r) \in Nat
  BY DEF Black
<1>6. h[n] = h[tree.kid[side][n]] + 1 + Black(tree, n)
  BY <1>3, <1>4 DEF Misses
<1>7. h[n] = h[r] + Black(tree, n)
  <2>1. h[n] = h[r] + 0 + Black(tree, n)
    BY <1>3, <1>4 DEF Misses
  <2>2. h[r] \in Nat
    BY <1>1, <1>3
  <2>3. QED
    BY <1>5, <2>1, <2>2
<1>8. ASSUME NEW d \in Sides PROVE h[r] = h[tree.kid[d][r]] + Black(tree, r) /\ h[tree.kid[d][r]] \in Nat
  <2>1. h[r] = h[tree.kid[d][r]] + 0 + Black(tree, r) /\ h[tree.kid[d][r]] \in Nat
    BY <1>1, <1>3, <1>4
  <2>2. QED
    BY <1>5, <2>1
<1>9. QED
  BY <1>1, <1>2, <1>3, <1>6, <1>7, <1>8 DEF Misses

\* A red sibling goes up: the black is missing at the same place, with a black sibling.
LEMMA DeleteRedSiblingInv ==
  ASSUME Inv, DeleteRedSibling
  PROVE  Inv' /\ Elems' = Elems
<1>1. PICK E, b, h : Misses(E, b, h)
  BY DeleteBegins DEF DeleteRedSibling, Deficient
<1>2. /\ phase = "delete" /\ tree.kid[side][n] \notin tree.red
      /\ \A x \in E : ~RedPair(tree, x)
  BY <1>1, DeleteNoRed DEF DeleteRedSibling
<1>3. PICK r, o, k, m, w, v, u : /\ r = tree.kid[Other(side)][n] /\ o = Other(side) /\ k = tree.kid[side][n]
                                 /\ m = tree.kid[side][r]
                                 /\ w = Blacken(tree, r) /\ v = Redden(w, n) /\ u = Rotate(v, side, n)
  BY ZenonT(60)
<1>4. /\ r \in E /\ r # Null /\ r # n /\ tree.parent[r] = n /\ k # r
      /\ h[n] = h[k] + 1 + Black(tree, n) /\ h[n] = h[r] + Black(tree, n)
      /\ \A d \in Sides : h[r] = h[tree.kid[d][r]] + Black(tree, r) /\ h[tree.kid[d][r]] \in Nat
      /\ h[n] \in Nat /\ h[r] \in Nat /\ h[k] \in Nat
  BY <1>1, <1>3, HeightsAround
<1>5. r \in tree.red /\ n \notin tree.red
  <2>1. r \in tree.red
    BY <1>3 DEF DeleteRedSibling, IsRed, Sibling
  <2>2. QED
    BY <1>2, <1>4, <2>1 DEF RedPair
<1>6. /\ v \in Tree /\ v.root = tree.root /\ v.kid = tree.kid /\ v.parent = tree.parent
      /\ v.red = (tree.red \ {r}) \union {n}
  <2>1. w \in Tree /\ w.root = tree.root /\ w.kid = tree.kid /\ w.parent = tree.parent /\ w.red = tree.red \ {r}
    BY <1>1, <1>3, BlackenIs DEF Misses
  <2>2. n \in Nodes
    BY <1>1 DEF Misses
  <2>3. v \in Tree /\ v.root = w.root /\ v.kid = w.kid /\ v.parent = w.parent /\ v.red = w.red \union {n}
    BY <1>3, <2>1, <2>2, ReddenIs
  <2>4. QED
    BY <2>1, <2>3
<1>7. Grown(v, E, b)
  <2>1. Recolored(tree, v, E)
    BY <1>1, <1>6 DEF Recolored, Misses
  <2>2. QED
    BY <1>1, <2>1, RecolorGrown DEF Misses
<1>8. Rotated(v, u, side, n, r) /\ u.red = v.red /\ \E c : Grown(u, E, c)
  <2>1. n \in E /\ side \in Sides /\ v.kid[Other(side)][n] = r /\ r # Null
    BY <1>1, <1>3, <1>4, <1>6 DEF Misses
  <2>2. u = Rotate(v, side, n)
    BY <1>3, Zenon
  <2>3. QED
    BY <1>7, <2>1, <2>2, RotateGrown, SMTT(30)
<1>9. u.red = (tree.red \ {r}) \union {n} /\ r \notin u.red /\ n \in u.red
  BY <1>4, <1>6, <1>8
<1>10. \E g : Level(u, E, g, n, side)
  <2>1. SwapRight(tree, u, h, side, n, r, n, side)
    <3>1. Black(u, n) = 0 /\ Black(u, r) = 1 /\ Black(tree, n) = 1 /\ Black(tree, r) = 0
      BY <1>5, <1>9, ZenonT(60) DEF Black
    <3>2. Lack(n, side, n, side) = 1 /\ Lack(n, o, n, side) = 0 /\ \A d \in Sides : Lack(r, d, n, side) = 0
      BY <1>1, <1>3, <1>4 DEF Lack, Misses
    <3>3. side \in Sides /\ o \in Sides
      BY <1>1, <1>3 DEF Misses
    <3>4. /\ h[r] = h[tree.kid[side][r]] + 0 /\ h[r] = h[tree.kid[o][r]] + 0
          /\ h[tree.kid[side][r]] \in Nat /\ h[tree.kid[o][r]] \in Nat
      BY <1>4, <3>1, <3>3
    <3>5. h[n] = h[k] + 1 + 1 /\ h[n] = h[r] + 1
      BY <1>4, <3>1
    <3>6. h[r] = h[k] + 1 + 0
      BY <1>4, <3>5
    <3>7. h[r] = h[tree.kid[side][r]] + 0 + 0 /\ h[n] = h[r] + 0 + 1 /\ h[n] = h[tree.kid[o][r]] + 0 + 1
      BY <1>4, <3>4, <3>5
    <3>8. QED
      BY <1>3, <3>1, <3>2, <3>3, <3>6, <3>7 DEF SwapRight
  <2>2. \A y \in E : y # n /\ y # r => (y \in u.red <=> y \in tree.red)
    BY <1>9, ZenonT(60)
  <2>3. r = tree.kid[Other(side)][n] /\ v.kid = tree.kid /\ v.parent = tree.parent /\ r \in E /\ n \in E
        /\ side \in Sides /\ Shape(tree, E) /\ Fits(tree, E, b) /\ Level(tree, E, h, n, side)
    BY <1>1, <1>3, <1>4, <1>6 DEF Misses
  <2>4. QED
    BY <1>8, <2>1, <2>2, <2>3, SwapLevel, ZenonT(60)
<1>11. \A y \in E : ~RedPair(u, y)
  <2>1. SUFFICES ASSUME NEW y \in E, RedPair(u, y) PROVE FALSE
    OBVIOUS
  <2>2. /\ y \in u.red /\ u.parent[y] \in u.red /\ y \in Nodes /\ y # r /\ y # Null
        /\ Shape(tree, E) /\ \A d \in Sides : d = side \/ d = o
    BY <1>1, <1>3, <1>9, <2>1, ZenonT(60) DEF RedPair, Misses
  <2>3. u.parent[y] = IF y = r THEN tree.parent[n] ELSE IF y = n THEN r
                      ELSE IF y = m THEN n ELSE tree.parent[y]
    BY <1>3, <1>6, <1>8, <2>2 DEF Rotated
  <2>4. y # n
    BY <1>9, <2>2, <2>3
  <2>5. y \in tree.red
    BY <1>9, <2>2, <2>4
  <2>6. y # m
    <3>1. SUFFICES ASSUME y = m PROVE FALSE
      OBVIOUS
    <3>2. tree.parent[y] = r
      BY <1>1, <1>3, <1>4, <2>2, <3>1, ZenonT(60) DEF Shape, Misses
    <3>3. QED
      BY <1>2, <1>5, <2>5, <3>2 DEF RedPair
  <2>7. tree.parent[y] \in u.red
    BY <2>2, <2>3, <2>4, <2>6
  <2>8. tree.parent[y] = n
    BY <1>2, <1>9, <2>5, <2>7 DEF RedPair
  <2>9. PICK d \in Sides : tree.kid[d][n] = y
    BY <1>1, <2>2, <2>8, KidOf DEF Misses
  <2>10. QED
    BY <1>2, <1>3, <2>2, <2>5, <2>9
<1>12. u.root \notin u.red
  <2>1. u.root = IF tree.parent[n] = Null THEN r ELSE tree.root
    BY <1>6, <1>8 DEF Rotated
  <2>2. tree.root = n => tree.parent[n] = Null
    BY <1>1 DEF Misses, Shape
  <2>3. QED
    BY <1>1, <1>9, <2>1, <2>2 DEF Misses
<1>13. /\ tree' = u /\ n' = n /\ side' = side /\ phase' = "delete" /\ answer' = answer
       /\ node' = node /\ at' = at /\ p' = p /\ pp' = pp
  BY <1>2, <1>3 DEF DeleteRedSibling, Sibling
<1>14. Elems' = E
  BY <1>8, <1>13, ElemsAre DEF Grown, Elems
<1>15. Colors'
  <2>1. n \in E
    BY <1>1 DEF Misses
  <2>2. QED
    BY <1>11, <1>12, <1>13, <1>14, <2>1 DEF Colors
<1>16. node' \in Pointer /\ at' \in Pointer /\ p' \in Pointer /\ pp' \in Pointer /\ n' \in Pointer
       /\ side' \in Sides /\ answer'.value \in Pointer
  BY <1>13 DEF Inv, TypeOK
<1>17. QED
  BY <1>1, <1>8, <1>10, <1>13, <1>15, <1>16, LoopInv DEF Misses

\* The outer nephew is red: one rotation, and no black is missing.
LEMMA DeleteOuterInv ==
  ASSUME Inv, DeleteOuter
  PROVE  Inv' /\ Elems' = Elems
<1>1. PICK E, b, h : Misses(E, b, h)
  BY DeleteBegins DEF DeleteOuter, Deficient
<1>2. /\ phase = "delete" /\ tree.kid[side][n] \notin tree.red
      /\ \A x \in E : ~RedPair(tree, x)
  BY <1>1, DeleteNoRed DEF DeleteOuter
<1>3. PICK r, o, k, m, w, t1, t2, v, u : /\ r = tree.kid[Other(side)][n] /\ o = Other(side) /\ k = tree.kid[side][n]
                                         /\ m = tree.kid[side][r] /\ w = tree.kid[o][r]
                                         /\ t1 = CopyColor(tree, n, r) /\ t2 = Blacken(t1, n)
                                         /\ v = Blacken(t2, w) /\ u = Rotate(v, side, n)
  OBVIOUS
<1>4. /\ r \in E /\ r # Null /\ r # n /\ tree.parent[r] = n /\ k # r
      /\ h[n] = h[k] + 1 + Black(tree, n) /\ h[n] = h[r] + Black(tree, n)
      /\ \A d \in Sides : h[r] = h[tree.kid[d][r]] + Black(tree, r) /\ h[tree.kid[d][r]] \in Nat
      /\ h[n] \in Nat /\ h[r] \in Nat /\ h[k] \in Nat
  <2>1. r = tree.kid[Other(side)][n] /\ k = tree.kid[side][n]
    BY <1>3
  <2>2. QED
    BY <1>1, <2>1, HeightsAround
<1>5. r \notin tree.red /\ w \in tree.red /\ w # Null
  BY <1>3, <1>4, Zenon DEF DeleteOuter, IsRed, Sibling, Outer, Nephew
<1>6. /\ n \in E /\ n \in Nodes /\ r \in Nodes /\ side \in Sides /\ o \in Sides /\ o # side /\ tree \in Tree
      /\ tree.red \subseteq E /\ E \subseteq Nodes /\ Null \notin E
      /\ \A d \in Sides : d = side \/ d = o
      /\ Shape(tree, E) /\ Fits(tree, E, b) /\ Level(tree, E, h, n, side) /\ Grown(tree, E, b)
  BY <1>1, <1>3, <1>4, Zenon DEF Misses
<1>7. w \in E /\ w # r /\ tree.parent[w] = r /\ w # n
  <2>1. w \in E /\ w # r /\ tree.parent[w] = r
    BY <1>1, <1>3, <1>4, <1>5, <1>6, Zenon DEF Misses, Hangs
  <2>2. In(b, n, r) /\ ~In(b, r, n) /\ In(b, r, w)
    BY <1>1, <1>3, <1>4, <1>5, <1>6, Zenon DEF Misses, Hangs
  <2>3. QED
    BY <2>1, <2>2
<1>8. /\ v \in Tree /\ v.root = tree.root /\ v.kid = tree.kid /\ v.parent = tree.parent
      /\ n \in tree.red => v.red = (tree.red \union {r}) \ {n, w}
      /\ n \notin tree.red => v.red = tree.red \ {w}
  <2>0. t1 = CopyColor(tree, n, r) /\ t2 = Blacken(t1, n) /\ v = Blacken(t2, w)
    BY <1>3, Zenon
  <2>1. /\ t1 \in Tree /\ t1.root = tree.root /\ t1.kid = tree.kid /\ t1.parent = tree.parent
        /\ n \in tree.red => t1.red = tree.red \union {r}
        /\ n \notin tree.red => t1.red = tree.red \ {r}
    <3>1. tree \in Tree /\ n \in Nodes /\ r \in Nodes
      BY <1>6, Zenon
    <3>2. QED
      BY <2>0, <3>1, CopyColorIs
  <2>2. t2 \in Tree /\ t2.root = t1.root /\ t2.kid = t1.kid /\ t2.parent = t1.parent /\ t2.red = t1.red \ {n}
    BY <2>0, <2>1, BlackenIs
  <2>3. v \in Tree /\ v.root = t2.root /\ v.kid = t2.kid /\ v.parent = t2.parent /\ v.red = t2.red \ {w}
    BY <2>0, <2>2, BlackenIs
  <2>4. n \in tree.red => v.red = (tree.red \union {r}) \ {n, w}
    BY <2>1, <2>2, <2>3
  <2>5. n \notin tree.red => v.red = tree.red \ {w}
    BY <1>5, <2>1, <2>2, <2>3
  <2>6. QED
    BY <2>1, <2>2, <2>3, <2>4, <2>5, Zenon
<1>9. Grown(v, E, b)
  <2>1. v.red \subseteq E
    BY <1>4, <1>6, <1>8
  <2>2. Recolored(tree, v, E)
    BY <1>8, <2>1 DEF Recolored
  <2>3. QED
    BY <1>6, <2>2, RecolorGrown
<1>10. Rotated(v, u, side, n, r) /\ u.red = v.red /\ \E c : Grown(u, E, c)
  <2>1. v.kid[Other(side)][n] = r /\ r # Null /\ n \in E /\ side \in Sides
    BY <1>3, <1>4, <1>6, <1>8, Zenon
  <2>2. u = Rotate(v, side, n)
    BY <1>3
  <2>3. QED
    BY <1>9, <2>1, <2>2, RotateGrown
<1>11. PICK c : Grown(u, E, c)
  BY <1>10
<1>12. Shape(u, E) /\ Fits(u, E, c) /\ u \in Tree /\ Null \notin u.red
  BY <1>11, HangsIs, RedsIn
<1>13. w \notin u.red /\ n \notin u.red /\ (r \in u.red <=> n \in tree.red)
       /\ \A y \in E : y # n /\ y # r /\ y # w => (y \in u.red <=> y \in tree.red)
  BY <1>4, <1>5, <1>7, <1>8, <1>10
<1>14. PICK u0 : u0 = Redden(u, w)
  OBVIOUS
<1>15. u0 \in Tree /\ u0.root = u.root /\ u0.kid = u.kid /\ u0.parent = u.parent /\ u0.red = u.red \union {w}
  BY <1>6, <1>7, <1>12, <1>14, ReddenIs, ZenonT(60)
<1>16. Rotated(v, u0, side, n, r)
  BY <1>10, <1>15 DEF Rotated
<1>17. Shape(u0, E) /\ Fits(u0, E, c)
  <2>1. Recolored(u, u0, E)
    BY <1>7, <1>11, <1>15, RedsIn, Zenon DEF Recolored
  <2>2. QED
    BY <1>11, <2>1, RecolorGrown, HangsIs
<1>18. \E g : Level(u0, E, g, r, o)
  <2>1. SwapRight(tree, u0, h, side, n, r, r, o)
    <3>1. Black(u0, n) = 1 /\ Black(u0, r) = Black(tree, n) /\ Black(tree, r) = 1 /\ Black(tree, n) \in Nat
      BY <1>5, <1>7, <1>13, <1>15 DEF Black
    <3>2. /\ Lack(n, side, r, o) = 0 /\ Lack(n, o, r, o) = 0
          /\ Lack(r, side, r, o) = 0 /\ Lack(r, o, r, o) = 1
      BY <1>4, <1>6 DEF Lack
    <3>3. h[r] = h[m] + 1 /\ h[r] = h[w] + 1 /\ h[m] \in Nat /\ h[w] \in Nat
      BY <1>3, <1>4, <1>6, <3>1, Zenon
    <3>4. h[r] = h[k] + 1
      BY <1>4, <3>1
    <3>5. h[r] = h[k] + 0 + 1 /\ h[r] = h[m] + 0 + 1
      BY <1>4, <3>3, <3>4
    <3>6. h[n] = h[r] + 0 + Black(tree, n) /\ h[n] = h[w] + 1 + Black(tree, n)
      BY <1>4, <3>1, <3>3
    <3>7. QED
      BY <1>3, <3>1, <3>2, <3>5, <3>6, Zenon DEF SwapRight
  <2>2. \A y \in E : y # n /\ y # r => (y \in u0.red <=> y \in tree.red)
    BY <1>5, <1>13, <1>15
  <2>3. \A y \in E, d \in Sides : y # n /\ y # r => Lack(y, d, r, o) = Lack(y, d, n, side)
    BY DEF Lack
  <2>4. r = tree.kid[Other(side)][n] /\ v.kid = tree.kid /\ v.parent = tree.parent
    BY <1>3, <1>8, Zenon
  <2>5. QED
    BY <1>4, <1>6, <1>16, <2>1, <2>2, <2>3, <2>4, SwapLevel, SMTT(30)
<1>19. \E g : Level(u, E, g, Null, "left")
  <2>1. PICK g0 : Level(u0, E, g0, r, o)
    BY <1>18
  <2>2. u0.kid[o][r] = w
    <3>1. u0.kid[o][r] = v.kid[o][r]
      BY <1>4, <1>6, <1>16 DEF Rotated
    <3>2. QED
      BY <1>3, <1>8, <3>1, Zenon
  <2>3. u0.kid[o][r] \in u0.red /\ u0.kid[o][r] # Null /\ u.kid = u0.kid /\ u.red = u0.red \ {u0.kid[o][r]}
    BY <1>5, <1>13, <1>15, <2>2
  <2>4. PICK g : Level(u, E, g, Null, o)
    BY <1>4, <1>6, <1>17, <2>1, <2>3, KidLevel
  <2>5. QED
    BY <1>6, <2>4, NoLack
<1>20. \A y \in E : ~RedPair(u, y)
  <2>1. SUFFICES ASSUME NEW y \in E, RedPair(u, y) PROVE FALSE
    OBVIOUS
  <2>2. y \in u.red /\ u.parent[y] \in u.red /\ y \in Nodes /\ y # Null /\ y # n /\ y # w
    BY <1>6, <1>13, <2>1 DEF RedPair
  <2>3. u.parent[y] = IF y = r THEN tree.parent[n] ELSE IF y = n THEN r
                      ELSE IF y = m THEN n ELSE tree.parent[y]
    <3>1. m = v.kid[side][r] /\ v.parent = tree.parent
      BY <1>3, <1>8, Zenon
    <3>2. QED
      BY <1>10, <2>2, <3>1 DEF Rotated
  <2>4. y # m \/ y = r
    BY <1>13, <2>2, <2>3
  <2>5. u.parent[y] # y /\ u.parent[y] \in E
    BY <1>12, <2>2, ParentAbove
  <2>6. CASE y = r
    <3>1. n \in tree.red /\ tree.parent[n] \in u.red /\ tree.parent[n] # r /\ tree.parent[n] \in E
      BY <1>13, <2>2, <2>3, <2>5, <2>6
    <3>2. tree.parent[n] \in tree.red
      BY <1>8, <1>10, <3>1, ZenonT(60)
    <3>3. QED
      BY <1>2, <1>6, <3>1, <3>2 DEF RedPair
  <2>7. CASE y # r
    <3>1. y \in tree.red /\ tree.parent[y] \in u.red /\ tree.parent[y] \in E /\ y # m
      BY <1>13, <2>2, <2>3, <2>4, <2>5, <2>7
    <3>2. tree.parent[y] = r
      BY <1>2, <1>13, <3>1 DEF RedPair
    <3>3. PICK d \in Sides : tree.kid[d][r] = y
      BY <1>4, <1>6, <3>2, KidOf
    <3>4. QED
      BY <1>3, <1>6, <2>2, <3>1, <3>3
  <2>8. QED
    BY <2>6, <2>7
<1>21. Fine(u, E)
  BY <1>10, <1>19, <1>20, ZenonT(60) DEF Fine
<1>22. Settle(u) /\ answer.value \in Pointer
  <2>1. Sibling = r /\ Outer = w
    BY <1>3, <1>4, Zenon DEF Sibling, Outer, Nephew
  <2>2. QED
    BY <1>1, <1>3, <2>1 DEF DeleteOuter, Misses
<1>23. QED
  BY <1>1, <1>21, <1>22, SettleInv DEF Misses

\* The inner nephew is red: a rotation makes it the sibling, with a red outer kid.
LEMMA DeleteInnerInv ==
  ASSUME Inv, DeleteInner
  PROVE  Inv' /\ Elems' = Elems
<1>1. PICK E, b, h : Misses(E, b, h)
  BY DeleteBegins DEF DeleteInner, Deficient
<1>2. /\ phase = "delete" /\ tree.kid[side][n] \notin tree.red
      /\ \A x \in E : ~RedPair(tree, x)
  BY <1>1, DeleteNoRed DEF DeleteInner
<1>3. PICK r, o, k, m, w, t1, v, u : /\ r = tree.kid[Other(side)][n] /\ o = Other(side) /\ k = tree.kid[side][n]
                                     /\ m = tree.kid[side][r] /\ w = tree.kid[o][r]
                                     /\ t1 = Blacken(tree, m) /\ v = Redden(t1, r) /\ u = Rotate(v, o, r)
  OBVIOUS
<1>4. /\ r \in E /\ r # Null /\ r # n /\ tree.parent[r] = n /\ k # r
      /\ \A d \in Sides : h[r] = h[tree.kid[d][r]] + Black(tree, r) /\ h[tree.kid[d][r]] \in Nat
      /\ h[r] \in Nat
  <2>1. r = tree.kid[Other(side)][n] /\ k = tree.kid[side][n]
    BY <1>3
  <2>2. QED
    BY <1>1, <2>1, HeightsAround, SMTT(30)
<1>5. r \notin tree.red /\ m \in tree.red /\ m # Null /\ w \notin tree.red
  <2>1. r \notin tree.red /\ m \in tree.red /\ m # Null /\ (w # Null => w \notin tree.red)
    BY <1>3, <1>4, Zenon DEF DeleteInner, IsRed, Sibling, Outer, Inner, Nephew
  <2>2. QED
    BY <1>1, <2>1 DEF Misses
<1>6. /\ n \in E /\ n \in Nodes /\ r \in Nodes /\ side \in Sides /\ o \in Sides /\ o # side /\ tree \in Tree
      /\ tree.red \subseteq E /\ E \subseteq Nodes /\ Null \notin E /\ Other(o) = side
      /\ \A d \in Sides : d = side \/ d = o
      /\ Shape(tree, E) /\ Fits(tree, E, b) /\ Level(tree, E, h, n, side) /\ Grown(tree, E, b)
  <2>1. Other(o) = side
    BY <1>1, <1>3, Order DEF Misses, OrderLaws
  <2>2. QED
    BY <1>1, <1>3, <1>4, <2>1, ZenonT(60) DEF Misses
<1>7. m \in E /\ m # r /\ tree.parent[m] = r /\ m # n /\ w # m
  <2>1. m \in E /\ m # r /\ tree.parent[m] = r /\ w # m
    BY <1>1, <1>3, <1>4, <1>5, <1>6, Zenon DEF Misses, Hangs
  <2>2. In(b, n, r) /\ ~In(b, r, n) /\ In(b, r, m)
    BY <1>1, <1>3, <1>4, <1>5, <1>6, Zenon DEF Misses, Hangs
  <2>3. QED
    BY <2>1, <2>2
<1>8. /\ v \in Tree /\ v.root = tree.root /\ v.kid = tree.kid /\ v.parent = tree.parent
      /\ v.red = (tree.red \ {m}) \union {r}
  <2>0. t1 = Blacken(tree, m) /\ v = Redden(t1, r)
    BY <1>3, Zenon
  <2>1. t1 \in Tree /\ t1.root = tree.root /\ t1.kid = tree.kid /\ t1.parent = tree.parent /\ t1.red = tree.red \ {m}
    BY <1>6, <2>0, BlackenIs
  <2>2. v \in Tree /\ v.root = t1.root /\ v.kid = t1.kid /\ v.parent = t1.parent /\ v.red = t1.red \union {r}
    BY <1>6, <2>0, <2>1, ReddenIs
  <2>3. QED
    BY <2>1, <2>2
<1>9. Grown(v, E, b)
  <2>1. v.red \subseteq E
    BY <1>4, <1>6, <1>8
  <2>2. Recolored(tree, v, E)
    BY <1>8, <2>1 DEF Recolored
  <2>3. QED
    BY <1>6, <2>2, RecolorGrown
<1>10. Rotated(v, u, o, r, m) /\ u.red = v.red /\ \E c : Grown(u, E, c)
  <2>1. v.kid[Other(o)][r] = m /\ m # Null /\ r \in E /\ o \in Sides
    BY <1>3, <1>4, <1>5, <1>6, <1>8, Zenon
  <2>2. u = Rotate(v, o, r)
    BY <1>3, Zenon
  <2>3. QED
    BY <1>9, <2>1, <2>2, RotateGrown
<1>11. u.red = (tree.red \ {m}) \union {r} /\ m \notin u.red /\ r \in u.red
  BY <1>7, <1>8, <1>10
<1>12. \E g : Level(u, E, g, n, side)
  <2>1. SwapRight(tree, u, h, o, r, m, n, side)
    <3>1. Black(u, r) = 0 /\ Black(u, m) = 1 /\ Black(tree, r) = 1 /\ Black(tree, m) = 0
      BY <1>5, <1>11 DEF Black
    <3>2. \A d \in Sides : Lack(r, d, n, side) = 0 /\ Lack(m, d, n, side) = 0
      BY <1>4, <1>7 DEF Lack
    <3>3. h[r] = h[m] + 1 /\ h[r] = h[w] + 1 /\ h[m] \in Nat /\ h[w] \in Nat
      BY <1>3, <1>4, <1>6, <3>1, Zenon
    <3>4. \A d \in Sides : h[m] = h[tree.kid[d][m]] + 0 + 0 /\ h[tree.kid[d][m]] \in Nat
      <4>1. SUFFICES ASSUME NEW d \in Sides PROVE h[m] = h[tree.kid[d][m]] + 0 + 0 /\ h[tree.kid[d][m]] \in Nat
        OBVIOUS
      <4>2. h[m] = h[tree.kid[d][m]] + Lack(m, d, n, side) + Black(tree, m)
        BY <1>6, <1>7 DEF Level, Even
      <4>3. h[tree.kid[d][m]] \in Nat
        BY <1>6, <1>7 DEF Level, Shape, Pointer
      <4>4. QED
        BY <3>1, <3>2, <4>2, <4>3
    <3>5. h[m] = h[w] + 0 + 0
      BY <3>3
    <3>6. h[r] = h[m] + 0 + 1 /\ h[r] = h[tree.kid[side][m]] + 0 + 1
      <4>1. h[m] = h[tree.kid[side][m]] + 0 + 0 /\ h[tree.kid[side][m]] \in Nat
        BY <1>6, <3>4
      <4>2. QED
        BY <1>4, <3>3, <4>1
    <3>7. h[m] = h[tree.kid[o][m]] + 0 + 0
      BY <1>6, <3>4
    <3>8. QED
      BY <1>3, <1>6, <3>1, <3>2, <3>5, <3>6, <3>7, ZenonT(60) DEF SwapRight
  <2>2. \A y \in E : y # r /\ y # m => (y \in u.red <=> y \in tree.red)
    BY <1>11
  <2>3. m = tree.kid[Other(o)][r] /\ v.kid = tree.kid /\ v.parent = tree.parent
    BY <1>3, <1>6, <1>8, Zenon
  <2>4. QED
    BY <1>4, <1>6, <1>7, <1>10, <2>1, <2>2, <2>3, SwapLevel
<1>13. \A y \in E : ~RedPair(u, y)
  <2>1. SUFFICES ASSUME NEW y \in E, RedPair(u, y) PROVE FALSE
    OBVIOUS
  <2>2. y \in u.red /\ u.parent[y] \in u.red /\ y \in Nodes /\ y # Null /\ y # m
    BY <1>6, <1>11, <2>1 DEF RedPair
  <2>3. u.parent[y] = IF y = m THEN tree.parent[r] ELSE IF y = r THEN m
                      ELSE IF y = tree.kid[o][m] THEN r ELSE tree.parent[y]
    BY <1>8, <1>10, <2>2 DEF Rotated
  <2>4. y # r
    BY <1>11, <2>2, <2>3
  <2>5. y \in tree.red
    BY <1>11, <2>2, <2>4
  <2>6. y # tree.kid[o][m]
    <3>1. SUFFICES ASSUME y = tree.kid[o][m] PROVE FALSE
      OBVIOUS
    <3>2. tree.parent[y] = m
      BY <1>6, <1>7, <2>2, <3>1 DEF Shape
    <3>3. QED
      BY <1>2, <1>5, <2>5, <3>2 DEF RedPair
  <2>7. tree.parent[y] \in u.red
    BY <2>2, <2>3, <2>4, <2>6
  <2>8. tree.parent[y] = r
    BY <1>2, <1>11, <2>5, <2>7 DEF RedPair
  <2>9. PICK d \in Sides : tree.kid[d][r] = y
    BY <1>4, <1>6, <2>8, KidOf
  <2>10. QED
    BY <1>3, <1>5, <1>6, <2>2, <2>5, <2>9, Zenon
<1>14. u.root \notin u.red
  <2>1. u.root = IF tree.parent[r] = Null THEN m ELSE tree.root
    BY <1>8, <1>10 DEF Rotated
  <2>2. tree.root = r => tree.parent[r] = Null
    BY <1>4, <1>6 DEF Shape
  <2>3. QED
    BY <1>1, <1>11, <2>1, <2>2 DEF Misses
<1>15. /\ tree' = u /\ n' = n /\ side' = side /\ phase' = "delete" /\ answer' = answer
       /\ node' = node /\ at' = at /\ p' = p /\ pp' = pp
  <2>1. Sibling = r /\ Inner = m
    BY <1>3, <1>4, Zenon DEF Sibling, Inner, Nephew
  <2>2. QED
    BY <1>2, <1>3, <2>1, Zenon DEF DeleteInner
<1>16. Elems' = E
  BY <1>10, <1>15, ElemsAre DEF Grown, Elems
<1>17. Colors'
  BY <1>6, <1>13, <1>14, <1>15, <1>16 DEF Colors
<1>18. node' \in Pointer /\ at' \in Pointer /\ p' \in Pointer /\ pp' \in Pointer /\ n' \in Pointer
       /\ side' \in Sides /\ answer'.value \in Pointer
  BY <1>15 DEF Inv, TypeOK
<1>19. QED
  BY <1>1, <1>10, <1>12, <1>15, <1>17, <1>18, LoopInv DEF Misses

\* What the turns of the walks begin with.
Calm(E, b, h) ==
  /\ E = Elems /\ Grown(tree, E, b) /\ Level(tree, E, h, Null, "left") /\ Walks(b)
  /\ E \subseteq Nodes /\ tree \in Tree /\ Null \notin E /\ tree.red \subseteq E
  /\ Shape(tree, E) /\ Fits(tree, E, b) /\ Hangs(tree, E, b)
  /\ n = Null /\ tree.root \notin tree.red /\ TypeOK
  /\ \A x \in E : ~RedPair(tree, x)

\* Outside the balancing loops no black is missing and no red is below red.
LEMMA CalmIs ==
  ASSUME Inv, phase \notin {"insert", "delete"}
  PROVE  \E E, b, h : Calm(E, b, h)
<1>1. PICK b : Grown(tree, Elems, b) /\ Walks(b)
  BY DEF Inv
<1>2. PICK h : Level(tree, Elems, h, n, side)
  BY DEF Inv
<1>3. n = Null /\ tree.root \notin tree.red /\ TypeOK /\ \A x \in Elems : ~RedPair(tree, x)
  BY DEF Inv, Colors
<1>4. Shape(tree, Elems) /\ Fits(tree, Elems, b) /\ Hangs(tree, Elems, b)
  BY <1>1, HangsIs
<1>5. /\ Elems \subseteq Nodes /\ tree \in Tree /\ Null \notin Elems /\ tree.red \subseteq Elems
  BY <1>1, RedsIn
<1>6. Level(tree, Elems, h, Null, "left")
  BY <1>2, <1>3, <1>5, NoLack
<1>7. Calm(Elems, b, h)
  BY <1>1, <1>3, <1>4, <1>5, <1>6 DEF Calm
<1>8. QED
  BY <1>7

\* Without the node, tree w with the nodes F has lost the place of x.
Lost(w, F, q, s, x) ==
  /\ \E c : Grown(w, F, c)
  /\ \E g : Level(w, F, g, IF x \in tree.red THEN Null ELSE q, s)
  /\ w.root \notin w.red /\ q \in F /\ s \in Sides
  /\ \A y \in F : RedPair(w, y) => x \notin tree.red /\ y = w.kid[s][q]

\* The end of RBTREE_DELETE's first half.
LEMMA UnlinkInv ==
  ASSUME TypeOK, n = Null, node \in Nodes,
         NEW t, NEW q, NEW s, NEW x, NEW F, Unlink(t, q, s, x), Lost(Forget(t, node), F, q, s, x)
  PROVE  Inv' /\ Elems' = F
<1>0. PICK w, g : /\ w = Forget(t, node) /\ Level(w, F, g, IF x \in tree.red THEN Null ELSE q, s)
                  /\ w.root \notin w.red /\ q \in F /\ s \in Sides
                  /\ \A y \in F : RedPair(w, y) => x \notin tree.red /\ y = w.kid[s][q]
                  /\ \E c : Grown(w, F, c)
  BY DEF Lost
<1>1. F \subseteq Nodes /\ Null \notin F
  BY <1>0, RedsIn
<1>2. CASE x \in tree.red
  <2>1. Level(w, F, g, Null, s)
    BY <1>0, <1>2
  <2>2. Level(w, F, g, Null, "left")
    BY <1>1, <2>1, NoLack
  <2>3. \A y \in F : ~RedPair(w, y)
    BY <1>0, <1>2
  <2>4. Fine(w, F)
    BY <1>0, <2>2, <2>3 DEF Fine
  <2>5. tree' = w /\ Return(Answer("delete", node, node))
    BY <1>0, <1>2 DEF Unlink, LosesBlack
  <2>6. Answer("delete", node, node).value \in Pointer
    BY DEF Answer, Pointer
  <2>7. QED
    BY <1>0, <2>4, <2>5, <2>6, RestInv
<1>3. CASE x \notin tree.red
  <2>1. Level(w, F, g, q, s)
    BY <1>0, <1>3
  <2>2. /\ tree' = w /\ phase' = "delete" /\ n' = q /\ side' = s
        /\ node' = Null /\ at' = Null /\ p' = p /\ pp' = pp /\ answer' = Answer("delete", node, node)
    BY <1>0, <1>3 DEF Unlink, LosesBlack
  <2>3. answer'.value \in Pointer /\ node' \in Pointer /\ at' \in Pointer /\ p' \in Pointer /\ pp' \in Pointer
        /\ n' \in Pointer /\ side' \in Sides
    BY <1>0, <1>1, <2>2 DEF Answer, Pointer, TypeOK
  <2>4. Elems' = F
    BY <1>0, <2>2, ElemsAre DEF Grown, Elems
  <2>5. \A y \in F : RedPair(w, y) => w.kid[s][q] \in {y, w.parent[y]}
    BY <1>0
  <2>6. Colors'
    BY <1>0, <2>2, <2>4, <2>5 DEF Colors
  <2>7. QED
    BY <1>0, <2>1, <2>2, <2>3, <2>6, LoopInv
<1>4. QED
  BY <1>2, <1>3

\* A node with one kid at most is unlinked.
LEMMA UnlinkOuterInv ==
  ASSUME Inv, UnlinkOuter
  PROVE  Inv' /\ Elems' = Elems \ {node}
<1>1. PICK E, b, h : Calm(E, b, h)
  BY CalmIs DEF UnlinkOuter, There
<1>2. /\ E \subseteq Nodes /\ tree \in Tree /\ Null \notin E /\ tree.red \subseteq E
      /\ Grown(tree, E, b) /\ Shape(tree, E) /\ Fits(tree, E, b) /\ Level(tree, E, h, Null, "left")
      /\ n = Null /\ tree.root \notin tree.red /\ TypeOK
      /\ \A x \in E : ~RedPair(tree, x)
  BY <1>1 DEF Calm
<1>3. node \in E /\ node \in Nodes /\ node # Null
  BY <1>1 DEF UnlinkOuter, There, Calm, Walks
<1>4. PICK e \in Sides : tree.kid[Other(e)][node] = Null
  BY DEF UnlinkOuter, Sides, Other
<1>5. PICK q, k, u, F : q = tree.parent[node] /\ k = tree.kid[e][node] /\ u = TakeOut(tree, node) /\ F = E \ {node}
  OBVIOUS
<1>6. Removed(tree, u, node, k, e) /\ u.red = tree.red /\ u \in Tree
  BY <1>2, <1>3, <1>4, <1>5, TakeOutIs
<1>7. Shape(u, F)
  BY <1>2, <1>3, <1>5, <1>6, RemoveShape
<1>8. \A d \in Sides : (q # Null => tree.kid[d][q] = node)
                       => Level(u, F, h, IF node \in tree.red THEN Null ELSE q, d)
  <2>1. SUFFICES ASSUME NEW d \in Sides, q # Null => tree.kid[d][q] = node
                 PROVE  Level(u, F, h, IF node \in tree.red THEN Null ELSE q, d)
    OBVIOUS
  <2>2. \A y \in E : y # node => (y \in u.red <=> y \in tree.red)
    BY <1>6
  <2>3. tree.parent[node] # Null => tree.kid[d][tree.parent[node]] = node
    BY <1>5, <2>1
  <2>4. Level(u, E \ {node}, h, IF node \in tree.red THEN Null ELSE tree.parent[node], d)
    BY <1>2, <1>3, <1>6, <2>2, <2>3, RemovedLevel
  <2>5. QED
    BY <1>5, <2>4
<1>9. /\ u.root = IF q = Null THEN k ELSE tree.root
      /\ \A y \in Nodes : u.parent[y] = IF y = k THEN q ELSE tree.parent[y]
      /\ \A d \in Sides, y \in Nodes : u.kid[d][y] = IF y = q /\ tree.kid[d][y] = node THEN k ELSE tree.kid[d][y]
  <2>1. q = tree.parent[node]
    BY <1>5
  <2>2. QED
    BY <1>6, <2>1 DEF Removed
<1>10. k # Null => tree.parent[k] = node /\ k \in E
  BY <1>2, <1>3, <1>5 DEF Shape
<1>11. F \subseteq Nodes /\ F \subseteq E /\ Null \notin F /\ \A y \in F : y # node /\ y # Null
  BY <1>2, <1>5
<1>12. CASE q = Null
  <2>1. PICK v, w : v = Blacken(u, u.root) /\ w = Forget(v, node)
    OBVIOUS
  <2>2. v \in Tree /\ v.root = u.root /\ v.kid = u.kid /\ v.parent = u.parent /\ v.red = u.red \ {u.root}
    BY <1>6, <2>1, BlackenIs
  <2>3. \E c : Grown(w, F, c)
    <3>1. Recolored(TakeOut(tree, node), v, E)
      BY <1>2, <1>5, <1>6, <2>2 DEF Recolored
    <3>2. QED
      BY <1>2, <1>3, <1>4, <1>5, <2>1, <3>1, OuterGrown
  <2>4. /\ w.root = v.root /\ w.red = v.red \ {node}
        /\ \A z \in Nodes : w.parent[z] = IF z = node THEN Null ELSE v.parent[z]
        /\ \A d \in Sides, z \in Nodes : w.kid[d][z] = IF z = node THEN Null ELSE v.kid[d][z]
    BY <1>3, <2>1, <2>2, ForgetIs
  <2>5. \E g : Level(w, F, g, Null, "left")
    <3>1. Level(u, F, h, Null, e)
      BY <1>8, <1>12
    <3>2. PICK g : Level(v, F, g, Null, e)
      BY <1>7, <2>1, <3>1, RootLevel
    <3>3. Alikened(v, w, F)
      BY <1>11, <2>4 DEF Alikened
    <3>4. Level(w, F, g, Null, e)
      BY <3>2, <3>3, SameLevel
    <3>5. QED
      BY <1>11, <3>4, NoLack
  <2>6. \A y \in F : ~RedPair(w, y)
    <3>1. SUFFICES ASSUME NEW y \in F, RedPair(w, y) PROVE FALSE
      OBVIOUS
    <3>2. y \in tree.red /\ w.parent[y] \in tree.red /\ y \in E /\ y \in Nodes /\ y # node
      BY <1>6, <1>11, <2>2, <2>4, <3>1 DEF RedPair
    <3>3. w.parent[y] = IF y = k THEN Null ELSE tree.parent[y]
      BY <1>9, <1>12, <2>2, <2>4, <3>2
    <3>4. QED
      BY <1>2, <3>2, <3>3 DEF RedPair
  <2>7. Fine(w, F)
    BY <2>3, <2>5, <2>6 DEF Fine
  <2>8. w.root \notin w.red
    BY <2>2, <2>4
  <2>9. tree' = w /\ Return(Answer("delete", node, node))
    BY <1>5, <1>12, <2>1 DEF UnlinkOuter
  <2>10. Answer("delete", node, node).value \in Pointer
    BY <1>3 DEF Answer, Pointer
  <2>11. QED
    BY <1>1, <1>5, <2>7, <2>8, <2>9, <2>10, RestInv DEF Calm
<1>13. CASE q # Null
  <2>1. PICK w, s : w = Forget(u, node) /\ s = SideOf(tree, q, node)
    OBVIOUS
  <2>2. s \in Sides /\ tree.kid[s][q] = node /\ q \in E /\ q # node
    <3>1. tree.parent[node] # Null /\ s = SideOf(tree, tree.parent[node], node)
      BY <1>5, <1>13, <2>1
    <3>2. s \in Sides /\ tree.kid[s][tree.parent[node]] = node /\ tree.parent[node] \in E
      BY <1>2, <1>3, <3>1, SideIs
    <3>3. tree.parent[node] # node
      BY <1>2, <1>3, <3>1, ParentAbove
    <3>4. QED
      BY <1>5, <3>2, <3>3
  <2>3. \E c : Grown(w, F, c)
    <3>1. Recolored(TakeOut(tree, node), u, E)
      BY <1>2, <1>5, <1>6 DEF Recolored
    <3>2. QED
      BY <1>2, <1>3, <1>4, <1>5, <2>1, <3>1, OuterGrown
  <2>4. /\ w.root = u.root /\ w.red = u.red \ {node}
        /\ \A z \in Nodes : w.parent[z] = IF z = node THEN Null ELSE u.parent[z]
        /\ \A d \in Sides, z \in Nodes : w.kid[d][z] = IF z = node THEN Null ELSE u.kid[d][z]
    BY <1>3, <1>6, <2>1, ForgetIs
  <2>5. Level(w, F, h, IF node \in tree.red THEN Null ELSE q, s)
    <3>1. Level(u, F, h, IF node \in tree.red THEN Null ELSE q, s)
      BY <1>8, <2>2
    <3>2. Alikened(u, w, F)
      BY <1>11, <2>4 DEF Alikened
    <3>3. QED
      BY <3>1, <3>2, SameLevel
  <2>6. q \in F
    BY <1>5, <2>2
  <2>7. \A y \in F : RedPair(w, y) => node \notin tree.red /\ y = w.kid[s][q]
    <3>1. SUFFICES ASSUME NEW y \in F, RedPair(w, y) PROVE node \notin tree.red /\ y = w.kid[s][q]
      OBVIOUS
    <3>2. y \in tree.red /\ w.parent[y] \in tree.red /\ y \in E /\ y \in Nodes /\ y # node /\ y # Null
      BY <1>6, <1>11, <2>4, <3>1 DEF RedPair
    <3>3. w.parent[y] = IF y = k THEN q ELSE tree.parent[y]
      BY <1>9, <2>4, <3>2
    <3>4. y = k
      BY <1>2, <3>2, <3>3 DEF RedPair
    <3>5. w.kid[s][q] = k
      BY <1>9, <1>11, <2>2, <2>4, <2>6
    <3>6. node \notin tree.red
      BY <1>2, <1>10, <3>2, <3>4 DEF RedPair
    <3>7. QED
      BY <3>4, <3>5, <3>6
  <2>8. w.root \notin w.red
    BY <1>2, <1>6, <1>9, <1>13, <2>4
  <2>9. Unlink(u, q, s, node)
    BY <1>5, <1>13, <2>1 DEF UnlinkOuter
  <2>10. Lost(w, F, q, s, node)
    BY <2>2, <2>3, <2>5, <2>6, <2>7, <2>8 DEF Lost
  <2>11. Lost(Forget(u, node), F, q, s, node) /\ node \in Nodes /\ n = Null /\ TypeOK
    BY <1>2, <1>3, <2>1, <2>10
  <2>12. QED
    BY <1>1, <1>5, <2>9, <2>11, UnlinkInv DEF Calm
<1>14. QED
  BY <1>12, <1>13

\* A node with two kids is unlinked, and the next one takes its place.
LEMMA UnlinkInnerInv ==
  ASSUME Inv, UnlinkInner
  PROVE  Inv' /\ Elems' = Elems \ {node}
<1>1. PICK E, b, h : Calm(E, b, h)
  BY CalmIs DEF UnlinkInner
<1>2. /\ E \subseteq Nodes /\ tree \in Tree /\ Null \notin E /\ tree.red \subseteq E
      /\ Grown(tree, E, b) /\ Shape(tree, E) /\ Fits(tree, E, b) /\ Hangs(tree, E, b)
      /\ Level(tree, E, h, Null, "left")
      /\ n = Null /\ tree.root \notin tree.red /\ TypeOK
      /\ \A x \in E : ~RedPair(tree, x)
  BY <1>1 DEF Calm
<1>3. /\ node \in E /\ node \in Nodes /\ node # Null /\ at \in E /\ at \in Nodes /\ at # Null
      /\ b["left"][at] = node /\ tree.kid["left"][at] = Null
  BY <1>1 DEF UnlinkInner, Calm, Walks
<1>4. "left" \in Sides /\ "right" \in Sides /\ \A d \in Sides : d = "left" \/ d = "right"
  BY DEF Sides
<1>5. PICK k, u, v, w, D, F : /\ k = tree.kid["right"][at] /\ u = TakeOut(tree, at) /\ v = TakePlace(u, node, at)
                              /\ w = Forget(v, node) /\ D = E \ {at} /\ F = E \ {node}
  OBVIOUS
<1>6. /\ Removed(tree, u, at, k, "right") /\ u.red = tree.red /\ u \in Tree
      /\ Placed(u, v, node, at) /\ v \in Tree
      /\ node \in tree.red => v.red = tree.red \union {at}
      /\ node \notin tree.red => v.red = tree.red \ {at}
      /\ node # at /\ tree.parent[at] # Null
      /\ Shape(u, D) /\ \E c : Fits(u, D, c)
      /\ \E c : Grown(w, F, c)
  <2>1. Replaced(tree, E, node, at, tree.kid["right"][at], TakeOut(tree, at),
                 TakePlace(TakeOut(tree, at), node, at), Forget(TakePlace(TakeOut(tree, at), node, at), node))
    <3>1. Grown(tree, E, b) /\ node \in E /\ at \in E /\ tree.kid["left"][at] = Null /\ b["left"][at] = node
      BY <1>2, <1>3
    <3>2. QED
      BY <3>1, InnerGrown
  <2>2. Replaced(tree, E, node, at, k, u, v, w)
    BY <1>5, <2>1
  <2>3. QED
    BY <1>5, <2>2 DEF Replaced
<1>7. /\ u.root = tree.root
      /\ \A y \in Nodes : u.parent[y] = IF y = k THEN tree.parent[at] ELSE tree.parent[y]
      /\ \A d \in Sides, y \in Nodes :
            u.kid[d][y] = IF y = tree.parent[at] /\ tree.kid[d][y] = at THEN k ELSE tree.kid[d][y]
  BY <1>6 DEF Removed
<1>8. /\ v.root = IF u.parent[node] = Null THEN at ELSE u.root
      /\ \A z \in Nodes : v.parent[z] = IF z = at THEN u.parent[node]
                                        ELSE IF \E d \in Sides : z = u.kid[d][node] THEN at
                                        ELSE u.parent[z]
      /\ \A d \in Sides, z \in Nodes : v.kid[d][z] = IF z = at THEN u.kid[d][node]
                                                     ELSE IF z = u.parent[node] /\ u.kid[d][z] = node THEN at
                                                     ELSE u.kid[d][z]
  BY <1>6 DEF Placed
<1>9. /\ w.root = v.root /\ w.red = v.red \ {node}
      /\ \A z \in Nodes : w.parent[z] = IF z = node THEN Null ELSE v.parent[z]
      /\ \A d \in Sides, z \in Nodes : w.kid[d][z] = IF z = node THEN Null ELSE v.kid[d][z]
  <2>1. w = Forget(v, node) /\ v \in Tree /\ node \in Nodes
    BY <1>3, <1>5, <1>6
  <2>2. QED
    BY <2>1, ForgetIs
<1>10. k # Null => k \in E /\ tree.parent[k] = at
  BY <1>2, <1>3, <1>4, <1>5 DEF Shape
<1>11. tree.parent[node] # at
  <2>1. SUFFICES ASSUME tree.parent[node] = at PROVE FALSE
    OBVIOUS
  <2>2. In(b, at, node) /\ ~In(b, node, at)
    BY <1>2, <1>3, <2>1, ParentAbove
  <2>3. In(b, node, at)
    BY <1>2, <1>3, <1>4 DEF Fits, Nested
  <2>4. QED
    BY <2>2, <2>3
<1>12. node # k /\ at # k
  <2>1. node # k
    BY <1>3, <1>10, <1>11
  <2>2. at # k
    BY <1>2, <1>3, <1>4, <1>5 DEF Hangs
  <2>3. QED
    BY <2>1, <2>2
<1>13. PICK q, s : /\ q = (IF at = tree.kid["right"][node] THEN at ELSE tree.parent[at])
                   /\ s = (IF at = tree.kid["right"][node] THEN "right" ELSE "left")
  OBVIOUS
<1>14. /\ s \in Sides /\ tree.kid[s][tree.parent[at]] = at /\ tree.parent[at] \in E /\ tree.parent[at] # at
       /\ at = tree.kid["right"][node] => q = at /\ s = "right" /\ tree.parent[at] = node
       /\ at # tree.kid["right"][node] => q = tree.parent[at] /\ s = "left" /\ tree.parent[at] # node
  <2>1. tree.parent[at] \in E /\ tree.parent[at] # at
    BY <1>2, <1>3, <1>6, ParentAbove
  <2>2. PICK d \in Sides : tree.kid[d][tree.parent[at]] = at
    BY <1>2, <1>3, <2>1, KidOf
  <2>3. CASE at = tree.kid["right"][node]
    <3>1. tree.parent[at] = node
      BY <1>2, <1>3, <1>4, <2>3 DEF Shape
    <3>2. QED
      BY <1>4, <1>13, <2>1, <2>3, <3>1
  <2>4. CASE at # tree.kid["right"][node]
    <3>1. d = "left"
      <4>1. SUFFICES ASSUME d = "right" PROVE FALSE
        BY <1>4
      <4>2. b["left"][at] = tree.parent[at]
        <5>1. Other("right") = "left"
          BY DEF Other
        <5>2. b[Other("right")][at] = tree.parent[at]
          BY <1>2, <1>3, <1>4, <2>1, <2>2, <4>1 DEF Fits, Inherited
        <5>3. QED
          BY <5>1, <5>2
      <4>3. QED
        BY <1>3, <2>2, <2>4, <4>1, <4>2
    <3>2. tree.parent[at] # node
      <4>1. SUFFICES ASSUME tree.parent[at] = node PROVE FALSE
        OBVIOUS
      <4>2. b["left"][at] = b["left"][node]
        BY <1>2, <1>3, <1>4, <2>2, <3>1, <4>1 DEF Fits, Inherited
      <4>3. Short("left", node, node)
        BY <1>2, <1>3, <1>4, <4>2 DEF Fits, BoundsRight
      <4>4. QED
        BY <1>3, <1>4, <4>3, Order DEF Short, OrderLaws
    <3>3. QED
      BY <1>13, <2>1, <2>2, <2>4, <3>1, <3>2
  <2>5. QED
    BY <2>3, <2>4
<1>15. F \subseteq Nodes /\ F \subseteq E /\ Null \notin F /\ \A y \in F : y # node /\ y # Null
  BY <1>2, <1>5
<1>16. q \in F
  BY <1>3, <1>5, <1>6, <1>14
<1>17. \E g : Level(w, F, g, IF at \in tree.red THEN Null ELSE q, s)
  <2>1. PICK m : m = IF at \in tree.red THEN Null ELSE tree.parent[at]
    OBVIOUS
  <2>2. Level(u, D, h, m, s)
    <3>1. \A y \in E : y # at => (y \in u.red <=> y \in tree.red)
      BY <1>6
    <3>2. Level(u, E \ {at}, h, IF at \in tree.red THEN Null ELSE tree.parent[at], s)
      BY <1>2, <1>3, <1>4, <1>6, <1>14, <3>1, RemovedLevel
    <3>3. QED
      BY <1>5, <2>1, <3>2
  <2>3. PICK c : Fits(u, D, c)
    BY <1>6
  <2>4. m \in D \union {Null} /\ node \in D /\ at \in Nodes \ D
    BY <1>3, <1>5, <1>6, <1>14, <2>1
  <2>5. at \in v.red <=> node \in u.red
    BY <1>6
  <2>6. \A z \in D : z # node => (z \in v.red <=> z \in u.red)
    BY <1>5, <1>6
  <2>7. PICK g : Level(v, (D \ {node}) \union {at}, g, IF m = node THEN at ELSE m, s)
    BY <1>6, <2>2, <2>3, <2>4, <2>5, <2>6, PlacedLevel
  <2>8. (D \ {node}) \union {at} = F
    BY <1>3, <1>5, <1>6
  <2>9. (IF m = node THEN at ELSE m) = IF at \in tree.red THEN Null ELSE q
    BY <1>3, <1>14, <2>1
  <2>10. Alikened(v, w, F)
    BY <1>9, <1>15 DEF Alikened
  <2>11. QED
    BY <2>7, <2>8, <2>9, <2>10, SameLevel
<1>18. \A y \in F : RedPair(w, y) => at \notin tree.red /\ y = w.kid[s][q]
  <2>1. SUFFICES ASSUME NEW y \in F, RedPair(w, y) PROVE at \notin tree.red /\ y = w.kid[s][q]
    OBVIOUS
  <2>2. /\ y \in w.red /\ w.parent[y] \in w.red /\ y \in E /\ y \in Nodes /\ y # node /\ y # Null
        /\ w.parent[y] # node
    BY <1>9, <1>15, <2>1 DEF RedPair
  <2>3. \A z : z # at /\ z \in w.red => z \in tree.red
    BY <1>6, <1>9
  <2>4. at \in w.red => node \in tree.red
    BY <1>6, <1>9
  <2>5. y # at
    <3>1. SUFFICES ASSUME y = at PROVE FALSE
      OBVIOUS
    <3>2. w.parent[at] = tree.parent[node]
      BY <1>3, <1>6, <1>7, <1>8, <1>9, <1>12
    <3>3. node \in tree.red /\ tree.parent[node] \in tree.red
      BY <1>11, <2>2, <2>3, <2>4, <3>1, <3>2
    <3>4. QED
      BY <1>2, <1>3, <3>3 DEF RedPair
  <2>6. y \in tree.red /\ w.parent[y] = IF \E d \in Sides : y = u.kid[d][node] THEN at ELSE u.parent[y]
    BY <1>8, <1>9, <2>2, <2>3, <2>5
  <2>7. y = k
    <3>1. SUFFICES ASSUME y # k PROVE FALSE
      OBVIOUS
    <3>2. u.parent[y] = tree.parent[y]
      BY <1>7, <2>2, <3>1
    <3>3. CASE \E d \in Sides : y = u.kid[d][node]
      <4>1. PICK d \in Sides : y = u.kid[d][node]
        BY <3>3
      <4>2. y = tree.kid[d][node]
        BY <1>3, <1>7, <3>1, <4>1
      <4>3. tree.parent[y] = node
        BY <1>2, <1>3, <2>2, <4>2 DEF Shape
      <4>4. node \in tree.red
        BY <2>2, <2>4, <2>6, <3>3
      <4>5. QED
        BY <1>2, <2>2, <2>6, <4>3, <4>4 DEF RedPair
    <3>4. CASE ~\E d \in Sides : y = u.kid[d][node]
      <4>1. tree.parent[y] \in w.red
        BY <2>2, <2>6, <3>2, <3>4
      <4>2. tree.parent[y] # at
        <5>1. SUFFICES ASSUME tree.parent[y] = at PROVE FALSE
          OBVIOUS
        <5>2. PICK d \in Sides : tree.kid[d][at] = y
          BY <1>2, <1>3, <2>2, <5>1, KidOf
        <5>3. QED
          BY <1>3, <1>4, <1>5, <2>2, <3>1, <5>2
      <4>3. QED
        BY <1>2, <2>2, <2>3, <2>6, <4>1, <4>2 DEF RedPair
    <3>5. QED
      BY <3>3, <3>4
  <2>8. at \notin tree.red
    BY <1>2, <1>10, <2>2, <2>6, <2>7 DEF RedPair
  <2>9. y = w.kid[s][q]
    <3>1. CASE at = tree.kid["right"][node]
      <4>1. u.kid["right"][node] = k
        BY <1>3, <1>4, <1>7, <1>14, <3>1
      <4>2. v.kid["right"][at] = k
        BY <1>3, <1>4, <1>8, <4>1
      <4>3. QED
        BY <1>3, <1>4, <1>6, <1>9, <1>14, <2>7, <3>1, <4>2, SMTT(30)
    <3>2. CASE at # tree.kid["right"][node]
      <4>1. q = tree.parent[at] /\ s = "left" /\ q \in Nodes /\ q # at /\ q # node
        BY <1>2, <1>14, <3>2
      <4>2. u.kid["left"][q] = k
        BY <1>4, <1>7, <1>14, <4>1
      <4>3. v.kid["left"][q] = k
        BY <1>4, <1>8, <1>12, <4>1, <4>2
      <4>4. QED
        BY <1>4, <1>9, <2>7, <4>1, <4>3
    <3>3. QED
      BY <3>1, <3>2, Zenon
  <2>10. QED
    BY <2>8, <2>9
<1>19. w.root \notin w.red
  <2>1. u.parent[node] = tree.parent[node]
    BY <1>3, <1>7, <1>12
  <2>2. CASE tree.parent[node] = Null
    <3>1. node = tree.root
      BY <1>2, <1>3, <2>2 DEF Shape
    <3>2. QED
      BY <1>2, <1>6, <1>8, <1>9, <2>1, <2>2, <3>1
  <2>3. CASE tree.parent[node] # Null
    <3>1. w.root = tree.root
      BY <1>7, <1>8, <1>9, <2>1, <2>3
    <3>2. tree.root # at
      BY <1>2, <1>3, <1>6 DEF Shape
    <3>3. QED
      BY <1>2, <1>6, <1>9, <3>1, <3>2
  <2>4. QED
    BY <2>2, <2>3
<1>20. Unlink(v, q, s, at)
  BY <1>5, <1>13 DEF UnlinkInner
<1>21. Lost(w, F, q, s, at)
  BY <1>6, <1>14, <1>16, <1>17, <1>18, <1>19 DEF Lost
<1>22. Lost(Forget(v, node), F, q, s, at) /\ node \in Nodes /\ n = Null /\ TypeOK
  BY <1>2, <1>3, <1>5, <1>21
<1>23. QED
  BY <1>1, <1>5, <1>20, <1>22, UnlinkInv DEF Calm

------------------------------------------------------------------------------
(* The walks                                                               *)

\* A walk goes on: the tree stays.
LEMMA WalkInv ==
  ASSUME NEW E, NEW b, NEW h, Calm(E, b, h), tree' = tree, Walks(b)',
         phase' \in {"descend", "seek", "find", "after", "down", "up"},
         node' \in Pointer, at' \in Pointer, p' \in Pointer, pp' \in Pointer, n' = n, side' \in Sides,
         answer'.value \in Pointer
  PROVE  Inv'
<1>1. /\ E = Elems /\ Grown(tree, E, b) /\ Level(tree, E, h, Null, "left") /\ TypeOK /\ Null \notin E
      /\ n = Null /\ tree.root \notin tree.red /\ \A x \in E : ~RedPair(tree, x)
  BY DEF Calm
<1>2. Elems' = E
  BY <1>1 DEF Elems
<1>3. TypeOK'
  BY <1>1 DEF TypeOK
<1>4. Grown(tree, Elems, b)'
  BY <1>1, <1>2 DEF Grown, Shape, Clean, Fits, BoundsRight, Inherited, NoneBetween, Nested, In
<1>5. Level(tree, E, h, Null, side')
  BY <1>1, NoLack
<1>6. Level(tree, Elems, h, n, side)'
  BY <1>1, <1>2, <1>5 DEF Level, Even, Lack, Black
<1>7. Colors'
  BY <1>1, <1>2 DEF Colors, RedPair
<1>8. QED
  BY <1>3, <1>4, <1>6, <1>7 DEF Inv

\* A walk ends, and the tree stays.
LEMMA ReturnInv ==
  ASSUME NEW E, NEW b, NEW h, Calm(E, b, h), tree' = tree, NEW r, Return(r), r.value \in Pointer
  PROVE  Inv'
<1>1. PICK t : t = tree
  OBVIOUS
<1>2. Fine(t, E) /\ t.root \notin t.red /\ tree' = t
  BY <1>1 DEF Calm, Fine
<1>3. QED
  BY <1>2, RestInv

\* Which way node is.
LEMMA WayIs ==
  ASSUME NEW x \in Nodes, NEW y \in Nodes, x # y
  PROVE  \E d \in Sides : d = (IF y > x THEN "right" ELSE "left") /\ Ord(d, x, y)
BY NodesAssumption DEF Sides, Ord

\* A turn of the way down to a free place: the bounds of the node there include node.
LEMMA DescendInv ==
  ASSUME Inv, Descend
  PROVE  Inv'
<1>1. PICK E, b, h : Calm(E, b, h)
  BY CalmIs DEF Descend
<1>2. phase = "descend" /\ Ahead # Null /\ at' = Ahead
      /\ tree' = tree /\ phase' = phase /\ node' = node /\ p' = p /\ pp' = pp /\ n' = n
      /\ side' = side /\ answer' = answer
  BY DEF Descend, WalkTo
<1>3. /\ E = Elems /\ E \subseteq Nodes /\ node \in Nodes /\ node \notin E /\ at \in E /\ In(b, at, node) /\ TypeOK
      /\ Shape(tree, E) /\ Fits(tree, E, b)
  BY <1>1, <1>2 DEF Calm, Walks
<1>4. PICK d \in Sides : d = (IF node > at THEN "right" ELSE "left") /\ Ord(d, at, node)
  BY <1>3, WayIs
<1>5. at' = tree.kid[d][at] /\ at' # Null
  BY <1>2, <1>4 DEF Ahead
<1>6. /\ at' \in E /\ b[d][at'] = b[d][at] /\ b[Other(d)][at'] = at
  BY <1>3, <1>5 DEF Shape, Fits, Inherited
<1>7. In(b, at', node)
  <2>1. \A c \in Sides : c = d \/ c = Other(d)
    BY Order DEF OrderLaws
  <2>2. Short(d, node, b[d][at'])
    BY <1>3, <1>6 DEF In
  <2>3. Short(Other(d), node, b[Other(d)][at'])
    BY <1>3, <1>4, <1>6, Order DEF Short, OrderLaws
  <2>4. QED
    BY <2>1, <2>2, <2>3 DEF In
<1>8. Elems' = E
  BY <1>2, <1>3 DEF Elems
<1>9. Walks(b)'
  BY <1>2, <1>3, <1>6, <1>7, <1>8 DEF Walks, In
<1>10. at' \in Pointer /\ node' \in Pointer /\ p' \in Pointer /\ pp' \in Pointer /\ side' \in Sides
       /\ answer'.value \in Pointer
  BY <1>2, <1>3, <1>6 DEF TypeOK, Pointer
<1>11. QED
  BY <1>1, <1>2, <1>9, <1>10, WalkInv

\* A turn of a search: node is below, or nowhere.
LEMMA SeekInv ==
  ASSUME Inv, Seek
  PROVE  Inv'
<1>1. PICK E, b, h : Calm(E, b, h)
  BY CalmIs DEF Seek
<1>2. phase \in {"find", "seek"} /\ at # Null /\ at # node /\ at' = Ahead
      /\ tree' = tree /\ phase' = phase /\ node' = node /\ p' = p /\ pp' = pp /\ n' = n
      /\ side' = side /\ answer' = answer
  BY DEF Seek, WalkTo
<1>3. /\ E = Elems /\ E \subseteq Nodes /\ node \in Nodes /\ at \in E /\ In(b, at, node) /\ TypeOK
      /\ Shape(tree, E) /\ Fits(tree, E, b)
  BY <1>1, <1>2 DEF Calm, Walks
<1>4. PICK d \in Sides : d = (IF node > at THEN "right" ELSE "left") /\ Ord(d, at, node)
  BY <1>2, <1>3, WayIs
<1>5. at' = tree.kid[d][at]
  BY <1>2, <1>4 DEF Ahead
<1>6. at' # Null => at' \in E /\ In(b, at', node)
  <2>1. SUFFICES ASSUME at' # Null PROVE at' \in E /\ In(b, at', node)
    OBVIOUS
  <2>2. /\ at' \in E /\ b[d][at'] = b[d][at] /\ b[Other(d)][at'] = at
    BY <1>3, <1>5, <2>1 DEF Shape, Fits, Inherited
  <2>3. \A c \in Sides : c = d \/ c = Other(d)
    BY Order DEF OrderLaws
  <2>4. Short(d, node, b[d][at'])
    BY <1>3, <2>2 DEF In
  <2>5. Short(Other(d), node, b[Other(d)][at'])
    BY <1>3, <1>4, <2>2, Order DEF Short, OrderLaws
  <2>6. QED
    BY <2>2, <2>3, <2>4, <2>5 DEF In
<1>7. at' = Null => node \notin E
  BY <1>3, <1>4, <1>5 DEF Fits, NoneBetween, In
<1>8. Elems' = E
  BY <1>2, <1>3 DEF Elems
<1>9. Walks(b)'
  BY <1>2, <1>3, <1>6, <1>7, <1>8 DEF Walks, In
<1>10. at' \in Pointer /\ node' \in Pointer /\ p' \in Pointer /\ pp' \in Pointer /\ side' \in Sides
       /\ answer'.value \in Pointer
  BY <1>2, <1>3, <1>6 DEF TypeOK, Pointer
<1>11. phase' \in {"descend", "seek", "find", "after", "down", "up"} /\ n' = n /\ tree' = tree
  BY <1>2
<1>12. QED
  BY <1>1, <1>9, <1>10, <1>11, WalkInv

\* RBTREE_FIND and RBTREE_DELETE begin at the root.
LEMMA BeginInv ==
  ASSUME Inv, NEW x \in Nodes, Find(x) \/ Delete(x)
  PROVE  Inv'
<1>1. PICK E, b, h : Calm(E, b, h)
  BY CalmIs DEF Find, Delete
<1>2. phase' \in {"find", "seek"} /\ node' = x /\ at' = tree.root /\ answer' = NoAnswer
      /\ tree' = tree /\ p' = p /\ pp' = pp /\ n' = n /\ side' = side
  BY DEF Find, Delete, WalkFrom
<1>3. E = Elems /\ Shape(tree, E) /\ Fits(tree, E, b) /\ TypeOK
  BY <1>1 DEF Calm
<1>4. Elems' = E
  BY <1>2, <1>3 DEF Elems
<1>5. at' # Null => at' \in E /\ In(b, at', x)
  BY <1>2, <1>3 DEF Shape, Fits, Inherited, In, Short
<1>6. at' = Null => x \notin E
  BY <1>2, <1>3 DEF Shape
<1>7. Walks(b)'
  BY <1>2, <1>4, <1>5, <1>6 DEF Walks, In
<1>8. at' \in Pointer /\ node' \in Pointer /\ p' \in Pointer /\ pp' \in Pointer /\ side' \in Sides
      /\ answer'.value \in Pointer
  BY <1>2, <1>3 DEF TypeOK, Tree, Pointer, NoAnswer, Answer
<1>9. phase' \in {"descend", "seek", "find", "after", "down", "up"} /\ n' = n /\ tree' = tree
  BY <1>2
<1>10. QED
  BY <1>1, <1>7, <1>8, <1>9, WalkInv

\* The end of a search.
LEMMA AnsweredInv ==
  ASSUME Inv, Found \/ NotThere
  PROVE  Inv'
<1>1. PICK E, b, h : Calm(E, b, h)
  BY CalmIs DEF Found, NotThere
<1>2. PICK r : Return(r) /\ tree' = tree /\ r.value \in {at, Null}
  BY DEF Found, NotThere, Answer
<1>3. r.value \in Pointer
  BY <1>1, <1>2 DEF Calm, TypeOK, Pointer
<1>4. QED
  BY <1>1, <1>2, <1>3, ReturnInv

\* The walk to the next node begins on the right.
LEMMA TwoKidsInv ==
  ASSUME Inv, TwoKids
  PROVE  Inv'
<1>1. PICK E, b, h : Calm(E, b, h)
  BY CalmIs DEF TwoKids, There
<1>2. phase = "seek" /\ at = node /\ at # Null /\ phase' = "after" /\ at' = tree.kid["right"][node]
      /\ tree.kid["left"][node] # Null /\ tree.kid["right"][node] # Null
      /\ tree' = tree /\ node' = node /\ p' = p /\ pp' = pp /\ n' = n /\ side' = side /\ answer' = answer
  BY DEF TwoKids, There
<1>3. /\ E = Elems /\ node \in E /\ TypeOK /\ Shape(tree, E) /\ Fits(tree, E, b)
  BY <1>1, <1>2 DEF Calm, Walks
<1>4. Elems' = E
  BY <1>2, <1>3 DEF Elems
<1>5. at' \in E /\ b["left"][at'] = node
  <2>1. Other("right") = "left" /\ "right" \in Sides
    BY DEF Other, Sides
  <2>2. at' \in E /\ b[Other("right")][at'] = node
    BY <1>2, <1>3, <2>1 DEF Shape, Fits, Inherited
  <2>3. QED
    BY <2>1, <2>2
<1>6. \A d \in Sides : tree.kid[d][node] # Null
  BY <1>2 DEF Sides
<1>7. Walks(b)'
  BY <1>2, <1>3, <1>4, <1>5, <1>6 DEF Walks
<1>8. at' \in Pointer /\ node' \in Pointer /\ p' \in Pointer /\ pp' \in Pointer /\ side' \in Sides
      /\ answer'.value \in Pointer
  BY <1>2, <1>3, <1>5 DEF TypeOK, Pointer, Shape
<1>9. phase' \in {"descend", "seek", "find", "after", "down", "up"} /\ n' = n /\ tree' = tree
  BY <1>2
<1>10. QED
  BY <1>1, <1>7, <1>8, <1>9, WalkInv

\* It goes on to the left, where the lower bound stays node.
LEMMA AfterInv ==
  ASSUME Inv, After
  PROVE  Inv'
<1>1. PICK E, b, h : Calm(E, b, h)
  BY CalmIs DEF After
<1>2. phase = "after" /\ at' = tree.kid["left"][at] /\ at' # Null
      /\ tree' = tree /\ phase' = phase /\ node' = node /\ p' = p /\ pp' = pp /\ n' = n /\ side' = side
      /\ answer' = answer
  BY DEF After, WalkTo
<1>3. /\ E = Elems /\ node \in E /\ at \in E /\ b["left"][at] = node /\ TypeOK /\ Shape(tree, E) /\ Fits(tree, E, b)
      /\ \A d \in Sides : tree.kid[d][node] # Null
  BY <1>1, <1>2 DEF Calm, Walks
<1>4. Elems' = E
  BY <1>2, <1>3 DEF Elems
<1>5. at' \in E /\ b["left"][at'] = node
  <2>1. "left" \in Sides
    BY DEF Sides
  <2>2. QED
    BY <1>2, <1>3, <2>1 DEF Shape, Fits, Inherited
<1>6. Walks(b)'
  BY <1>2, <1>3, <1>4, <1>5 DEF Walks
<1>7. at' \in Pointer /\ node' \in Pointer /\ p' \in Pointer /\ pp' \in Pointer /\ side' \in Sides
      /\ answer'.value \in Pointer
  BY <1>2, <1>3, <1>5 DEF TypeOK, Pointer, Shape
<1>8. phase' \in {"descend", "seek", "find", "after", "down", "up"} /\ n' = n /\ tree' = tree
  BY <1>2
<1>9. QED
  BY <1>1, <1>6, <1>7, <1>8, WalkInv

\* RBTREE_NEXT and RBTREE_PREV.
LEMMA StepToInv ==
  ASSUME Inv, NEW x \in Nodes, StepTo(x)
  PROVE  Inv'
<1>1. PICK E, b, h : Calm(E, b, h)
  BY CalmIs DEF StepTo
<1>2. PICK s \in Sides :
        /\ side' = s /\ node' = x /\ answer' = NoAnswer /\ tree' = tree /\ p' = p /\ pp' = pp /\ n' = n
        /\ tree.kid[s][x] # Null => phase' = "down" /\ at' = tree.kid[s][x]
        /\ tree.kid[s][x] = Null => phase' = "up" /\ at' = x
  BY DEF StepTo, WalkFrom
<1>3. /\ E = Elems /\ x \in E /\ TypeOK /\ Shape(tree, E) /\ Fits(tree, E, b)
  BY <1>1 DEF Calm, StepTo
<1>4. Elems' = E
  BY <1>2, <1>3 DEF Elems
<1>5. CASE tree.kid[s][x] # Null
  <2>1. at' \in E /\ b[Other(side')][at'] = x
    BY <1>2, <1>3, <1>5 DEF Shape, Fits, Inherited
  <2>2. Walks(b)'
    BY <1>2, <1>3, <1>4, <1>5, <2>1 DEF Walks
  <2>3. at' \in Pointer /\ node' \in Pointer /\ p' \in Pointer /\ pp' \in Pointer /\ side' \in Sides
        /\ answer'.value \in Pointer
    BY <1>2, <1>3, <2>1 DEF TypeOK, Pointer, Shape, NoAnswer, Answer
  <2>4. phase' \in {"descend", "seek", "find", "after", "down", "up"} /\ n' = n /\ tree' = tree
    BY <1>2, <1>5
  <2>5. QED
    BY <1>1, <2>2, <2>3, <2>4, WalkInv
<1>6. CASE tree.kid[s][x] = Null
  <2>1. Walks(b)'
    BY <1>2, <1>3, <1>4, <1>6 DEF Walks
  <2>2. at' \in Pointer /\ node' \in Pointer /\ p' \in Pointer /\ pp' \in Pointer /\ side' \in Sides
        /\ answer'.value \in Pointer
    BY <1>2, <1>3, <1>6 DEF TypeOK, Pointer, Shape, NoAnswer, Answer
  <2>3. phase' \in {"descend", "seek", "find", "after", "down", "up"} /\ n' = n /\ tree' = tree
    BY <1>2, <1>6
  <2>4. QED
    BY <1>1, <2>1, <2>2, <2>3, WalkInv
<1>7. QED
  BY <1>5, <1>6

\* A turn of the way down to the next or the previous node.
LEMMA DownInv ==
  ASSUME Inv, Down
  PROVE  Inv'
<1>1. PICK E, b, h : Calm(E, b, h)
  BY CalmIs DEF Down
<1>2. phase = "down"
  BY DEF Down
<1>3. /\ E = Elems /\ node \in E /\ at \in E /\ b[Other(side)][at] = node /\ TypeOK /\ Shape(tree, E)
      /\ Fits(tree, E, b) /\ side \in Sides
  BY <1>1, <1>2 DEF Calm, Walks, TypeOK
<1>4. CASE tree.kid[Other(side)][at] = Null
  <2>1. Return(Answer(side, node, at)) /\ tree' = tree
    BY <1>4 DEF Down
  <2>2. Answer(side, node, at).value \in Pointer
    BY <1>3 DEF Answer, TypeOK
  <2>3. QED
    BY <1>1, <2>1, <2>2, ReturnInv
<1>5. CASE tree.kid[Other(side)][at] # Null
  <2>1. /\ at' = tree.kid[Other(side)][at] /\ tree' = tree /\ phase' = phase /\ node' = node /\ p' = p
        /\ pp' = pp /\ n' = n /\ side' = side /\ answer' = answer
    BY <1>5 DEF Down, WalkTo
  <2>2. Elems' = E
    BY <1>3, <2>1 DEF Elems
  <2>3. Other(side) \in Sides
    BY <1>3, Order DEF OrderLaws
  <2>4. at' \in E /\ b[Other(side)][at'] = node
    BY <1>3, <1>5, <2>1, <2>3 DEF Shape, Fits, Inherited
  <2>5. Walks(b)'
    BY <1>2, <1>3, <2>1, <2>2, <2>4 DEF Walks
  <2>6. at' \in Pointer /\ node' \in Pointer /\ p' \in Pointer /\ pp' \in Pointer /\ side' \in Sides
        /\ answer'.value \in Pointer
    BY <1>3, <2>1, <2>4 DEF TypeOK, Pointer, Shape
  <2>7. phase' \in {"descend", "seek", "find", "after", "down", "up"} /\ n' = n /\ tree' = tree
    BY <1>2, <2>1
  <2>8. QED
    BY <1>1, <2>5, <2>6, <2>7, WalkInv
<1>6. QED
  BY <1>4, <1>5

\* A turn of the way up: the bound on that side stays that of node.
LEMMA UpInv ==
  ASSUME Inv, Up
  PROVE  Inv'
<1>1. PICK E, b, h : Calm(E, b, h)
  BY CalmIs DEF Up
<1>2. phase = "up"
  BY DEF Up
<1>3. /\ E = Elems /\ node \in E /\ at \in E /\ b[side][at] = b[side][node] /\ tree.kid[side][node] = Null
      /\ TypeOK /\ Shape(tree, E) /\ Fits(tree, E, b) /\ side \in Sides
  BY <1>1, <1>2 DEF Calm, Walks, TypeOK
<1>4. PICK q : q = tree.parent[at]
  OBVIOUS
<1>5. q \in Pointer
  BY <1>3, <1>4 DEF Shape, Tree
<1>6. CASE Turns(q)
  <2>1. Return(Answer(side, node, q)) /\ tree' = tree
    BY <1>4, <1>6 DEF Up
  <2>2. Answer(side, node, q).value \in Pointer
    BY <1>5 DEF Answer
  <2>3. QED
    BY <1>1, <2>1, <2>2, ReturnInv
<1>7. CASE ~Turns(q)
  <2>1. /\ at' = q /\ tree' = tree /\ phase' = phase /\ node' = node /\ p' = p
        /\ pp' = pp /\ n' = n /\ side' = side /\ answer' = answer
    BY <1>4, <1>7 DEF Up, WalkTo
  <2>2. q # Null /\ tree.kid[side][q] = at
    BY <1>7 DEF Turns
  <2>3. Elems' = E
    BY <1>3, <2>1 DEF Elems
  <2>4. q \in E
    BY <1>3, <1>4, <2>2, ParentAbove
  <2>5. b[side][q] = b[side][node]
    BY <1>3, <2>2, <2>4, NullNoNode DEF Shape, Fits, Inherited
  <2>6. Walks(b)'
    BY <1>2, <1>3, <2>1, <2>3, <2>4, <2>5 DEF Walks
  <2>7. at' \in Pointer /\ node' \in Pointer /\ p' \in Pointer /\ pp' \in Pointer /\ side' \in Sides
        /\ answer'.value \in Pointer
    BY <1>3, <1>5, <2>1 DEF TypeOK
  <2>8. phase' \in {"descend", "seek", "find", "after", "down", "up"} /\ n' = n /\ tree' = tree
    BY <1>2, <2>1
  <2>9. QED
    BY <1>1, <2>6, <2>7, <2>8, WalkInv
<1>8. QED
  BY <1>6, <1>7

------------------------------------------------------------------------------
(* The invariant                                                           *)

\* The empty tree.
LEMMA InitInv ==
  ASSUME Init
  PROVE  Inv
<1> DEFINE b == [d \in Sides |-> [x \in Nodes |-> Null]]
           h == [x \in Pointer |-> 0]
<1>1. /\ tree \in Tree /\ tree.root = Null /\ tree.red = {}
      /\ \A x \in Nodes : tree.parent[x] = Null
      /\ \A d \in Sides, x \in Nodes : tree.kid[d][x] = Null
  BY DEF Init, EmptyTree, Tree, Pointer
<1>2. Elems = {}
  BY <1>1, NullNoNode DEF Elems
<1>3. TypeOK
  BY <1>1 DEF Init, TypeOK, Pointer, Sides, NoAnswer, Answer
<1>4. Grown(tree, {}, b)
  <2>1. b \in [Sides -> [Nodes -> Pointer]]
    BY DEF Pointer
  <2>2. Shape(tree, {}) /\ Clean(tree, {})
    BY <1>1 DEF Shape, Clean
  <2>3. Fits(tree, {}, b)
    BY <1>1, <2>1 DEF Fits, BoundsRight, Inherited, NoneBetween, Nested
  <2>4. QED
    BY <2>2, <2>3 DEF Grown
<1>5. Walks(b)
  BY DEF Init, Walks
<1>6. Level(tree, {}, h, n, side)
  BY DEF Level, Pointer
<1>7. Colors
  BY <1>1, <1>2 DEF Init, Colors
<1>8. QED
  BY <1>2, <1>3, <1>4, <1>5, <1>6, <1>7 DEF Inv

\* A step that changes nothing.
LEMMA StutterInv ==
  ASSUME Inv, UNCHANGED vars
  PROVE  Inv'
<1>1. PICK b : Grown(tree, Elems, b) /\ Walks(b)
  BY DEF Inv
<1>2. PICK h : Level(tree, Elems, h, n, side)
  BY DEF Inv
<1>3. /\ tree' = tree /\ phase' = phase /\ node' = node /\ at' = at /\ p' = p /\ pp' = pp /\ n' = n
      /\ side' = side /\ answer' = answer /\ TypeOK /\ Colors
  BY DEF vars, Inv
<1>4. Elems' = Elems
  BY <1>3 DEF Elems
<1>5. TypeOK'
  BY <1>3 DEF TypeOK
<1>6. Grown(tree, Elems, b)' /\ Walks(b)'
  BY <1>1, <1>3, <1>4 DEF Walks
<1>7. Level(tree, Elems, h, n, side)'
  BY <1>2, <1>3, <1>4
<1>8. Colors'
  BY <1>3, <1>4 DEF Colors
<1>9. QED
  BY <1>5, <1>6, <1>7, <1>8 DEF Inv

\* Every step keeps the invariant.
LEMMA StepInv ==
  ASSUME Inv, Next
  PROVE  Inv'
<1>1. CASE Walk
  BY <1>1, DescendInv, InsertThereInv, SeekInv, AnsweredInv, TwoKidsInv, AfterInv, DownInv, UpInv DEF Walk
<1>2. CASE UnlinkOuter
  BY <1>2, UnlinkOuterInv
<1>3. CASE UnlinkInner
  BY <1>3, UnlinkInnerInv
<1>4. CASE Fix
  BY <1>4, InsertUpInv, InsertRotateInv, DeleteBlackenInv, DeleteRedSiblingInv, DeleteOuterInv, DeleteInnerInv,
     DeleteUpInv DEF Fix
<1>5. ASSUME NEW x \in Nodes, Insert(x) PROVE Inv'
  BY <1>5, InsertInv
<1>6. ASSUME NEW x \in Nodes, Delete(x) \/ Find(x) PROVE Inv'
  BY <1>6, BeginInv
<1>7. ASSUME NEW x \in Nodes, StepTo(x) PROVE Inv'
  BY <1>7, StepToInv
<1>8. QED
  BY <1>1, <1>2, <1>3, <1>4, <1>5, <1>6, <1>7 DEF Next, Proceed

\* The invariant holds at every turn of the loops: the tree hangs together
\* between the bounds of its nodes, every node has one height in black nodes,
\* and the walks are where their node is, or would be.
THEOREM Invariant == Spec => []Inv
<1>1. Init => Inv
  BY InitInv
<1>2. Inv /\ [Next]_vars => Inv'
  BY StepInv, StutterInv
<1>3. QED
  BY <1>1, <1>2, PTL DEF Spec

\* Type correctness: no loop of the template writes to the null pointer, and no
\* walk leaves the nodes.
THEOREM TypeCorrect == Spec => []TypeOK
<1>1. Inv => TypeOK
  BY DEF Inv
<1>2. QED
  BY <1>1, Invariant, PTL

------------------------------------------------------------------------------
(* What is below a node                                                    *)

\* The library's theorem with the relation spelled out.
LEMMA NatWellFounded ==
  IsWellFoundedOn({i \in Nat \X Nat : i[1] < i[2]}, Nat)
BY NatLessThanWellFounded DEF OpToRel

\* A set of natural numbers that is not empty has a least element.
LEMMA LeastNat ==
  ASSUME NEW T, T \subseteq Nat, T # {}
  PROVE  \E x \in T : \A y \in T : x <= y
<1> DEFINE R == {i \in Nat \X Nat : i[1] < i[2]}
<1>1. \E x \in T : \A y \in T : ~(<<y, x>> \in R)
  <2>1. IsWellFoundedOn(R, Nat)
    BY NatWellFounded
  <2> HIDE DEF R
  <2>2. QED
    BY <2>1, WFMin, Zenon
<1>2. PICK x \in T : \A y \in T : ~(<<y, x>> \in R)
  BY <1>1
<1>3. ASSUME NEW y \in T
      PROVE  x <= y
  <2>1. x \in Nat /\ y \in Nat /\ ~(<<y, x>> \in R)
    BY <1>2
  <2>2. ~(y < x)
    BY <2>1
  <2>3. QED
    BY <2>1, <2>2
<1>4. QED
  BY <1>3

\* With every node the set has its kids.
Closed(t, S) == \A z \in S, d \in Sides : t.kid[d][z] \in S \union {Null}

\* One step on the way down to node y.
LEMMA StepDown ==
  ASSUME NEW t, NEW E, Shape(t, E), NEW b, Fits(t, E, b), NEW z \in E, NEW y \in E, z # y, In(b, z, y),
         NEW d \in Sides, Ord(d, z, y)
  PROVE  /\ t.kid[d][z] # Null /\ t.kid[d][z] \in E /\ In(b, t.kid[d][z], y)
         /\ b[d][t.kid[d][z]] = b[d][z] /\ b[Other(d)][t.kid[d][z]] = z
<1>1. t.kid[d][z] # Null
  BY DEF Fits, NoneBetween, In
<1>2. /\ t.kid[d][z] \in E /\ b[d][t.kid[d][z]] = b[d][z] /\ b[Other(d)][t.kid[d][z]] = z
  BY <1>1 DEF Shape, Fits, Inherited
<1>3. /\ z \in Nodes /\ y \in Nodes
  BY DEF Shape
<1>4. \A c \in Sides : c = d \/ c = Other(d)
  BY Order DEF OrderLaws
<1>5. Short(d, y, b[d][t.kid[d][z]])
  BY <1>2 DEF In
<1>6. Short(Other(d), y, b[Other(d)][t.kid[d][z]])
  BY <1>2, <1>3, Order DEF Short, OrderLaws
<1>7. In(b, t.kid[d][z], y)
  BY <1>4, <1>5, <1>6 DEF In
<1>8. QED
  BY <1>1, <1>2, <1>7

\* A closed set that has a node has the nodes between its bounds.
LEMMA ClosedHas ==
  ASSUME NEW t, NEW E, Shape(t, E), NEW b, Fits(t, E, b), NEW S, S \subseteq E, Closed(t, S),
         NEW x \in S, NEW y \in E, In(b, x, y)
  PROVE  y \in S
<1> SUFFICES ASSUME y \notin S PROVE FALSE
  OBVIOUS
<1> DEFINE Z == {z \in S : In(b, z, y)}
           I == {i \in Nat : \E z \in Z : i = y - b["left"][z]}
<1>1. /\ E \subseteq Nodes /\ Null = 0 /\ E \subseteq Nat /\ y \in Nat /\ y \in Nodes /\ Null \notin Nodes
      /\ "left" \in Sides /\ "right" \in Sides /\ Other("left") = "right" /\ Other("right") = "left"
  BY NodesAssumption DEF Shape, Sides, Other
<1>2. ASSUME NEW z \in Z
      PROVE  /\ z \in E /\ z \in Nat /\ z \in Nodes /\ z # y /\ b["left"][z] \in Nat /\ b["left"][z] <= y
             /\ b["left"][z] < z
  <2>1. z \in S /\ In(b, z, y) /\ z \in E /\ z # y
    OBVIOUS
  <2>2. Short("left", y, b["left"][z]) /\ Short("left", z, b["left"][z]) /\ b["left"][z] \in E \union {Null}
    BY <1>1, <2>1 DEF In, Fits, BoundsRight
  <2>3. b["left"][z] \in Nat /\ z \in Nat /\ z # 0
    <3>1. PICK c : c = b["left"][z]
      OBVIOUS
    <3>2. c \in E \/ c = 0
      BY <1>1, <2>2, <3>1
    <3>3. c \in Nat
      <4>1. \A w \in E : w \in Nat
        BY <1>1
      <4>2. CASE c \in E
        BY <4>1, <4>2
      <4>3. CASE c = 0
        BY <4>3
      <4>4. QED
        BY <3>2, <4>2, <4>3
    <3>4. z \in Nat /\ z \in Nodes
      BY <1>1, <2>1
    <3>5. z # 0
      BY <1>1, <3>4
    <3>6. QED
      BY <3>1, <3>3, <3>4, <3>5
  <2>4. (b["left"][z] = 0 \/ b["left"][z] < y) /\ (b["left"][z] = 0 \/ b["left"][z] < z)
    BY <1>1, <2>2 DEF Short, Ord
  <2>5. QED
    BY <1>1, <2>1, <2>3, <2>4
<1>3. x \in Z
  OBVIOUS
<1>4. ASSUME NEW z \in Z PROVE y - b["left"][z] \in I
  BY <1>1, <1>2
<1>5. PICK i \in I : \A j \in I : i <= j
  <2>1. I \subseteq Nat /\ I # {}
    BY <1>3, <1>4
  <2> HIDE DEF I
  <2>2. QED
    BY <2>1, LeastNat
<1> DEFINE Q == {z \in Z : i = y - b["left"][z]}
<1>6. Q # {} /\ Q \subseteq Nat
  BY <1>2, <1>5
<1>7. PICK z \in Q : \A w \in Q : z <= w
  <2> HIDE DEF Q
  <2>1. QED
    BY <1>6, LeastNat
<1>8. z \in Z /\ i = y - b["left"][z] /\ z \in S /\ In(b, z, y)
  BY <1>7
<1> HIDE DEF I, Q
<1>9. /\ z \in E /\ z \in Nat /\ z \in Nodes /\ z # y /\ b["left"][z] \in Nat /\ b["left"][z] <= y
      /\ b["left"][z] < z
  BY <1>2, <1>8
<1>10. CASE z < y
  <2>1. Ord("right", z, y)
    BY <1>10 DEF Ord
  <2>2. PICK k : k = t.kid["right"][z]
    OBVIOUS
  <2>3. k # Null /\ In(b, k, y) /\ b["left"][k] = z
    <3>1. t.kid["right"][z] # Null /\ In(b, t.kid["right"][z], y) /\ b[Other("right")][t.kid["right"][z]] = z
      BY <1>1, <1>8, <1>9, <2>1, StepDown
    <3>2. QED
      BY <1>1, <2>2, <3>1
  <2>4. k \in S
    BY <1>1, <1>8, <2>2, <2>3 DEF Closed
  <2>5. k \in Z
    BY <2>3, <2>4
  <2>6. y - z \in I
    BY <1>4, <2>3, <2>5
  <2>7. i <= y - z
    BY <1>5, <2>6
  <2>8. QED
    BY <1>1, <1>8, <1>9, <2>7
<1>11. CASE y < z
  <2>1. Ord("left", z, y)
    BY <1>11 DEF Ord
  <2>2. PICK k : k = t.kid["left"][z]
    OBVIOUS
  <2>3. k # Null /\ In(b, k, y) /\ b["left"][k] = b["left"][z] /\ b["right"][k] = z /\ k \in E
    <3>1. t.kid["left"][z] # Null /\ In(b, t.kid["left"][z], y) /\ b["left"][t.kid["left"][z]] = b["left"][z]
          /\ b[Other("left")][t.kid["left"][z]] = z /\ t.kid["left"][z] \in E
      BY <1>1, <1>8, <1>9, <2>1, StepDown
    <3>2. QED
      BY <1>1, <2>2, <3>1
  <2>4. k \in S
    BY <1>1, <1>8, <2>2, <2>3 DEF Closed
  <2>5. k \in Q
    BY <1>8, <2>3, <2>4 DEF Q
  <2>6. k < z
    <3>1. Short("right", k, z)
      BY <1>1, <2>3 DEF Fits, BoundsRight
    <3>2. QED
      BY <1>1, <1>9, <3>1 DEF Short, Ord
  <2>7. z <= k
    BY <1>7, <2>5
  <2>8. k \in Nat
    BY <1>1, <2>3
  <2>9. QED
    BY <1>9, <2>6, <2>7, <2>8
<1>12. QED
  BY <1>1, <1>9, <1>10, <1>11

\* The nodes that the tree reaches below x are those between its bounds.
LEMMA ReachIs ==
  ASSUME NEW b, Grown(tree, Elems, b), NEW x, NEW y
  PROVE  <<x, y>> \in Reach <=> x \in Elems /\ y \in Elems /\ In(b, x, y)
<1>1. PICK E : E = Elems
  OBVIOUS
<1>2. Shape(tree, E) /\ Fits(tree, E, b) /\ Hangs(tree, E, b) /\ E \subseteq Nodes /\ Null \notin E
  BY <1>1, HangsIs, RedsIn
<1>3. <<x, y>> \in Reach <=> /\ x \in E /\ y \in E
                             /\ \A S \in SUBSET E : Closed(tree, S) => (x \in S => y \in S)
  BY <1>1 DEF Reach, Closed
<1>4. ASSUME <<x, y>> \in Reach PROVE x \in E /\ y \in E /\ In(b, x, y)
  <2> DEFINE S == {z \in E : In(b, x, z)}
  <2>1. x \in E /\ y \in E
    BY <1>3, <1>4
  <2>2. In(b, x, x)
    BY <1>2, <2>1 DEF In, Fits, BoundsRight
  <2>3. Closed(tree, S)
    <3>1. SUFFICES ASSUME NEW z \in S, NEW d \in Sides, tree.kid[d][z] # Null PROVE tree.kid[d][z] \in S
      BY DEF Closed
    <3>2. tree.kid[d][z] \in E /\ In(b, z, tree.kid[d][z]) /\ z \in E /\ In(b, x, z)
      BY <1>2, <3>1 DEF Hangs
    <3>3. In(b, x, tree.kid[d][z])
      BY <1>2, <2>1, <3>2, InTrans DEF Fits
    <3>4. QED
      BY <3>2, <3>3
  <2>4. y \in S
    BY <1>3, <1>4, <2>1, <2>2, <2>3
  <2>5. QED
    BY <2>1, <2>4
<1>5. ASSUME x \in E, y \in E, In(b, x, y) PROVE <<x, y>> \in Reach
  <2>1. ASSUME NEW S \in SUBSET E, Closed(tree, S), x \in S PROVE y \in S
    BY <1>2, <1>5, <2>1, ClosedHas
  <2>2. QED
    BY <1>3, <1>5, <2>1
<1>6. QED
  BY <1>1, <1>4, <1>5

\* What is above a kid is the kid, or above its parent.
LEMMA AboveKid ==
  ASSUME NEW t, NEW E, NEW b, Grown(t, E, b), NEW x \in E, NEW d \in Sides, t.kid[d][x] # Null,
         NEW y \in E, y # t.kid[d][x]
  PROVE  In(b, y, t.kid[d][x]) <=> In(b, y, x)
<1> DEFINE k == t.kid[d][x]
<1>1. Shape(t, E) /\ Fits(t, E, b) /\ Hangs(t, E, b) /\ E \subseteq Nodes /\ Null \notin E
  BY HangsIs, RedsIn
<1>2. k \in E /\ t.parent[k] = x /\ In(b, x, k) /\ k \in Nodes
  BY <1>1 DEF Hangs
<1>3. ASSUME In(b, y, x) PROVE In(b, y, k)
  BY <1>1, <1>2, <1>3, InTrans DEF Fits
<1>4. ASSUME In(b, y, k), ~In(b, y, x) PROVE FALSE
  <2> DEFINE S == {z \in E : In(b, y, z)} \ {k}
  <2>1. In(b, y, y) /\ y \in S
    BY <1>1 DEF In, Fits, BoundsRight
  <2>2. Closed(t, S)
    <3>1. SUFFICES ASSUME NEW z \in S, NEW c \in Sides, t.kid[c][z] # Null PROVE t.kid[c][z] \in S
      BY DEF Closed
    <3>2. t.kid[c][z] \in E /\ In(b, z, t.kid[c][z]) /\ z \in E /\ In(b, y, z) /\ t.parent[t.kid[c][z]] = z
      BY <1>1, <3>1 DEF Hangs
    <3>3. In(b, y, t.kid[c][z])
      BY <1>1, <3>2, InTrans DEF Fits
    <3>4. t.kid[c][z] # k
      BY <1>2, <1>4, <3>2
    <3>5. QED
      BY <3>2, <3>3, <3>4
  <2>3. k \in S
    BY <1>1, <1>2, <1>4, <2>1, <2>2, ClosedHas
  <2>4. QED
    BY <2>3
<1>5. QED
  BY <1>3, <1>4

\* Every node is between the bounds of the root, and the root between those of no other.
LEMMA RootAbove ==
  ASSUME NEW t, NEW E, NEW b, Grown(t, E, b), NEW x \in E
  PROVE  t.root \in E /\ In(b, t.root, x) /\ (In(b, x, t.root) => x = t.root)
<1>1. Shape(t, E) /\ Fits(t, E, b)
  BY HangsIs
<1>2. t.root \in E /\ t.root # Null
  BY <1>1, NullNoNode DEF Shape
<1>3. In(b, t.root, x)
  BY <1>1, <1>2 DEF Fits, Inherited, In, Short
<1>4. QED
  BY <1>1, <1>2, <1>3 DEF Fits, Nested

\* The invariant of the bounds says that the tree is a search tree.
LEMMA SearchTreeIs ==
  ASSUME Inv
  PROVE  SearchTree(Reach)
<1>1. PICK b : Grown(tree, Elems, b)
  BY DEF Inv
<1>2. Shape(tree, Elems) /\ Fits(tree, Elems, b) /\ Elems \subseteq Nodes /\ Null \notin Elems
  BY <1>1, HangsIs, RedsIn
<1>3. ASSUME NEW x \in Elems PROVE <<tree.root, x>> \in Reach
  BY <1>1, RootAbove, ReachIs
<1>4. ASSUME NEW x \in Elems, NEW y \in Elems, NEW d \in Sides, <<tree.kid[d][x], y>> \in Reach
      PROVE  Ord(Other(d), y, x)
  <2>1. tree.kid[d][x] \in Elems /\ In(b, tree.kid[d][x], y)
    BY <1>1, <1>4, ReachIs
  <2>2. b[Other(d)][tree.kid[d][x]] = x /\ Other(d) \in Sides
    BY <1>2, <2>1, Order DEF Fits, Inherited, OrderLaws
  <2>3. QED
    BY <1>2, <2>1, <2>2 DEF In, Short
<1>5. ASSUME NEW x \in Elems, NEW y \in Elems
      PROVE  /\ <<tree.kid["left"][x], y>> \in Reach => y < x
             /\ <<tree.kid["right"][x], y>> \in Reach => y > x
  <2>1. "left" \in Sides /\ "right" \in Sides /\ x \in Nat /\ y \in Nat
    BY <1>2, NodesAssumption DEF Sides
  <2>2. <<tree.kid["left"][x], y>> \in Reach => y < x
    BY <1>4, <2>1 DEF Ord, Other
  <2>3. <<tree.kid["right"][x], y>> \in Reach => y > x
    BY <1>4, <2>1 DEF Ord, Other
  <2>4. QED
    BY <2>2, <2>3
<1>6. tree.root # Null => tree.parent[tree.root] = Null
  BY <1>2 DEF Shape
<1>7. \A x \in Elems, d \in Sides : tree.kid[d][x] # Null => tree.parent[tree.kid[d][x]] = x
  BY <1>2 DEF Shape
<1>8. QED
  BY <1>3, <1>5, <1>6, <1>7 DEF SearchTree

\* The black nodes on the way to node x, itself included.
Blacks(b, x) == {y \in Elems \ tree.red : In(b, y, x)}

\* Whether the way to x leads through the kid at the place where one is missing.
Through(b, x) ==
  IF phase = "delete" /\ tree.kid[side][n] # Null /\ In(b, tree.kid[side][n], x) THEN 1 ELSE 0

\* The black nodes above x and the height of x make the height of the tree.
Sum(b, h, x) ==
  IsFiniteSet(Blacks(b, x)) /\ Cardinality(Blacks(b, x)) + Through(b, x) + h[x] = h[tree.root] + Black(tree, x)

\* What the sums are about.
Scales(E, b, h) ==
  /\ E = Elems /\ Grown(tree, E, b) /\ Level(tree, E, h, n, side)
  /\ E \subseteq Nodes /\ Null \notin E /\ Shape(tree, E) /\ Fits(tree, E, b) /\ Hangs(tree, E, b)
  /\ side \in Sides /\ (phase = "delete" => n \in E) /\ (phase # "delete" => n = Null)
  /\ h \in [Pointer -> Nat] /\ h[Null] = 0

\* What the sums over paths need of the invariant.
LEMMA ScalesAre ==
  ASSUME Inv
  PROVE  \E E, b, h : Scales(E, b, h)
<1>1. PICK b : Grown(tree, Elems, b)
  BY DEF Inv
<1>2. PICK h : Level(tree, Elems, h, n, side)
  BY DEF Inv
<1>3. Shape(tree, Elems) /\ Fits(tree, Elems, b) /\ Hangs(tree, Elems, b) /\ Elems \subseteq Nodes /\ Null \notin Elems
  BY <1>1, HangsIs, RedsIn
<1>4. side \in Sides /\ (phase = "delete" => n \in Elems) /\ (phase # "delete" => n = Null)
  BY DEF Inv, TypeOK, Colors
<1>5. Scales(Elems, b, h)
  BY <1>1, <1>2, <1>3, <1>4 DEF Scales, Level
<1>6. QED
  BY <1>5

\* At the root nothing is passed and all height is left.
LEMMA SumAtRoot ==
  ASSUME NEW E, NEW b, NEW h, Scales(E, b, h), E # {}
  PROVE  tree.root \in E /\ Sum(b, h, tree.root)
<1>1. PICK r : r = tree.root
  OBVIOUS
<1>2. /\ E = Elems /\ r \in E /\ r # Null /\ tree.parent[r] = Null /\ \A x \in E : In(b, x, r) => x = r
  BY <1>1, RootAbove, NullNoNode DEF Scales, Shape
<1>3. In(b, r, r)
  BY <1>2 DEF Scales, In, Fits, BoundsRight
<1>4. Blacks(b, r) = IF r \in tree.red THEN {} ELSE {r}
  BY <1>2, <1>3 DEF Blacks
<1>5. IsFiniteSet(Blacks(b, r)) /\ Cardinality(Blacks(b, r)) = Black(tree, r)
  <2>1. CASE r \in tree.red
    BY <1>4, <2>1, FS_EmptySet DEF Black
  <2>2. CASE r \notin tree.red
    BY <1>4, <2>2, FS_Singleton DEF Black
  <2>3. QED
    BY <2>1, <2>2
<1>6. Through(b, r) = 0
  <2>1. SUFFICES ASSUME phase = "delete", tree.kid[side][n] # Null, In(b, tree.kid[side][n], r) PROVE FALSE
    BY DEF Through
  <2>2. tree.kid[side][n] \in E /\ tree.parent[tree.kid[side][n]] = n /\ n # Null
    BY <2>1 DEF Scales, Hangs
  <2>3. QED
    BY <1>2, <2>1, <2>2
<1>7. h[r] \in Nat /\ Black(tree, r) \in Nat
  BY <1>2 DEF Scales, Pointer, Black
<1>8. Cardinality(Blacks(b, r)) + Through(b, r) + h[r] = h[r] + Black(tree, r)
  BY <1>5, <1>6, <1>7
<1>9. QED
  BY <1>1, <1>2, <1>5, <1>8 DEF Sum

\* One kid further down, what is passed grows by what is no longer left.
LEMMA SumAtKid ==
  ASSUME NEW E, NEW b, NEW h, Scales(E, b, h), NEW x \in E, Sum(b, h, x), NEW d \in Sides, tree.kid[d][x] # Null
  PROVE  Sum(b, h, tree.kid[d][x])
<1>1. PICK k : k = tree.kid[d][x]
  OBVIOUS
<1>2. /\ k \in E /\ k # Null /\ tree.parent[k] = x /\ In(b, x, k) /\ ~In(b, k, x) /\ x # Null
      /\ tree.kid[Other(d)][x] # k /\ E = Elems
  BY <1>1 DEF Scales, Hangs
<1>3. In(b, k, k)
  BY <1>2 DEF Scales, In, Fits, BoundsRight
<1>4. \A y \in E : y # k => (In(b, y, k) <=> In(b, y, x))
  BY <1>1, AboveKid DEF Scales
<1>5. /\ IsFiniteSet(Blacks(b, k))
      /\ Cardinality(Blacks(b, k)) = Cardinality(Blacks(b, x)) + Black(tree, k)
      /\ Cardinality(Blacks(b, x)) \in Nat
  <2>1. IsFiniteSet(Blacks(b, x)) /\ k \notin Blacks(b, x) /\ Cardinality(Blacks(b, x)) \in Nat
    BY <1>2, FS_CardinalityType DEF Sum, Blacks
  <2>2. CASE k \in tree.red
    <3>1. Blacks(b, k) = Blacks(b, x)
      BY <1>2, <1>4, <2>2 DEF Blacks
    <3>2. QED
      BY <2>1, <2>2, <3>1 DEF Black
  <2>3. CASE k \notin tree.red
    <3>1. Blacks(b, k) = Blacks(b, x) \union {k}
      BY <1>2, <1>3, <1>4, <2>3 DEF Blacks
    <3>2. QED
      BY <2>1, <2>3, <3>1, FS_AddElement DEF Black
  <2>4. QED
    BY <2>2, <2>3
<1>6. Through(b, k) = Through(b, x) + Lack(x, d, n, side)
  <2>1. PICK m : m = tree.kid[side][n]
    OBVIOUS
  <2>2. CASE phase # "delete"
    BY <1>2, <2>2 DEF Through, Lack, Scales
  <2>3. CASE phase = "delete" /\ m = Null
    <3>1. ~(x = n /\ d = side)
      BY <1>1, <1>2, <2>1, <2>3
    <3>2. QED
      BY <2>1, <2>3, <3>1 DEF Through, Lack
  <2>4. CASE phase = "delete" /\ m # Null
    <3>1. m \in E /\ tree.parent[m] = n /\ n \in E
      BY <2>1, <2>4 DEF Scales, Hangs
    <3>2. CASE m = k
      <4>1. x = n
        BY <1>2, <3>1, <3>2
      <4>2. d = side
        BY <1>2, <2>1, <3>2, <4>1, Order DEF Scales, OrderLaws
      <4>3. Through(b, k) = 1 /\ Through(b, x) = 0 /\ Lack(x, d, n, side) = 1
        BY <1>2, <1>3, <2>1, <2>4, <3>2, <4>1, <4>2 DEF Through, Lack
      <4>4. QED
        BY <4>3
    <3>3. CASE m # k
      <4>1. Lack(x, d, n, side) = 0
        BY <1>1, <2>1, <3>3 DEF Lack
      <4>2. In(b, m, k) <=> In(b, m, x)
        BY <1>4, <3>1, <3>3
      <4>3. Through(b, k) = Through(b, x) /\ Through(b, x) \in Nat
        BY <2>1, <2>4, <4>2 DEF Through
      <4>4. QED
        BY <4>1, <4>3
    <3>4. QED
      BY <3>2, <3>3
  <2>5. QED
    BY <2>2, <2>3, <2>4
<1>7. h[x] = h[k] + Lack(x, d, n, side) + Black(tree, x) /\ h[k] \in Nat /\ h[x] \in Nat
  BY <1>1, <1>2 DEF Scales, Level, Even, Pointer
<1>8. /\ Cardinality(Blacks(b, x)) + Through(b, x) + h[x] = h[tree.root] + Black(tree, x)
      /\ h[tree.root] \in Nat
  <2>1. tree.root \in Pointer
    BY DEF Scales, Shape, Tree
  <2>2. QED
    BY <2>1 DEF Sum, Scales
<1>9. /\ Through(b, x) \in Nat /\ Lack(x, d, n, side) \in Nat /\ Black(tree, x) \in Nat /\ Black(tree, k) \in Nat
  BY DEF Through, Lack, Black
<1>10. Cardinality(Blacks(b, k)) + Through(b, k) + h[k] = h[tree.root] + Black(tree, k)
  <2>1. ASSUME NEW c \in Nat, NEW t \in Nat, NEW l \in Nat, NEW i \in Nat, NEW j \in Nat, NEW r \in Nat,
               NEW v \in Nat, NEW w \in Nat, c + t + i = r + v, i = j + l + v
        PROVE  (c + w) + (t + l) + j = r + w
    BY <2>1
  <2>2. (Cardinality(Blacks(b, x)) + Black(tree, k)) + (Through(b, x) + Lack(x, d, n, side)) + h[k]
        = h[tree.root] + Black(tree, k)
    BY <1>5, <1>7, <1>8, <1>9, <2>1
  <2>3. QED
    BY <1>5, <1>6, <2>2
<1>11. QED
  BY <1>1, <1>5, <1>10 DEF Sum

\* From the root down, the black nodes passed and the height left are together
\* the height of the root.
LEMMA SumEverywhere ==
  ASSUME NEW E, NEW b, NEW h, Scales(E, b, h), NEW x \in E
  PROVE  Sum(b, h, x)
<1> DEFINE S == {y \in E : Sum(b, h, y)}
<1>1. tree.root \in S
  BY SumAtRoot
<1>2. Closed(tree, S)
  <2>1. SUFFICES ASSUME NEW z \in S, NEW d \in Sides, tree.kid[d][z] # Null PROVE tree.kid[d][z] \in S
    BY DEF Closed
  <2>2. tree.kid[d][z] \in E
    BY <2>1 DEF Scales, Hangs
  <2>3. QED
    BY <2>1, <2>2, SumAtKid
<1>3. In(b, tree.root, x) /\ Shape(tree, E) /\ Fits(tree, E, b)
  BY RootAbove DEF Scales
<1>4. S \subseteq E
  OBVIOUS
<1> HIDE DEF S
<1>5. x \in S
  BY <1>1, <1>2, <1>3, <1>4, ClosedHas
<1>6. QED
  BY <1>5 DEF S

\* Every path down has as many black nodes as the tree is high.
LEMMA PathIs ==
  ASSUME NEW E, NEW b, NEW h, Scales(E, b, h), NEW x \in E, NEW d \in Sides, tree.kid[d][x] = Null
  PROVE  BlackNodes(Reach, x, d) = h[tree.root]
<1>1. Grown(tree, Elems, b) /\ x \in Elems /\ E = Elems /\ x # Null
  BY DEF Scales
<1>2. {y \in Elems \ tree.red : <<y, x>> \in Reach} = Blacks(b, x)
  BY <1>1, ReachIs DEF Blacks
<1>3. PICK m : m = IF phase = "delete" /\ (<<x, d>> = <<n, side>> \/ <<tree.kid[side][n], x>> \in Reach) THEN 1 ELSE 0
  OBVIOUS
<1>4. BlackNodes(Reach, x, d) = Cardinality(Blacks(b, x)) + m
  BY <1>2, <1>3 DEF BlackNodes
<1>5. m = Through(b, x) + Lack(x, d, n, side)
  <2>1. CASE phase # "delete"
    BY <1>1, <1>3, <2>1 DEF Through, Lack, Scales
  <2>2. CASE phase = "delete" /\ x = n /\ d = side
    BY <1>3, <2>2 DEF Through, Lack
  <2>3. CASE phase = "delete" /\ ~(x = n /\ d = side)
    <3>1. <<tree.kid[side][n], x>> \in Reach <=> tree.kid[side][n] # Null /\ In(b, tree.kid[side][n], x)
      <4>1. tree.kid[side][n] # Null <=> tree.kid[side][n] \in Elems
        BY <2>3 DEF Scales, Hangs
      <4>2. QED
        BY <1>1, <4>1, ReachIs
    <3>2. <<x, d>> # <<n, side>>
      BY <2>3
    <3>3. QED
      BY <1>3, <2>3, <3>1, <3>2 DEF Through, Lack
  <2>4. QED
    BY <2>1, <2>2, <2>3
<1>6. /\ Cardinality(Blacks(b, x)) + Through(b, x) + h[x] = h[tree.root] + Black(tree, x)
      /\ Cardinality(Blacks(b, x)) \in Nat
  BY SumEverywhere, FS_CardinalityType DEF Sum
<1>7. h[x] = 0 + Lack(x, d, n, side) + Black(tree, x)
  BY DEF Scales, Level, Even
<1>8. h[tree.root] \in Nat
  <2>1. tree.root \in Pointer
    BY DEF Scales, Shape, Tree
  <2>2. QED
    BY <2>1 DEF Scales
<1>9. /\ Through(b, x) \in Nat /\ Lack(x, d, n, side) \in Nat /\ Black(tree, x) \in Nat
  BY DEF Through, Lack, Black
<1>10. QED
  BY <1>4, <1>5, <1>6, <1>7, <1>8, <1>9

\* So all paths from the root down have the same number of black nodes.
LEMMA BalancedIs ==
  ASSUME Inv
  PROVE  Balanced(Reach)
<1>1. PICK E, b, h : Scales(E, b, h)
  BY ScalesAre
<1>2. \A z \in Elems \X Sides : tree.kid[z[2]][z[1]] = Null => BlackNodes(Reach, z[1], z[2]) = h[tree.root]
  BY <1>1, PathIs DEF Scales
<1>3. QED
  BY <1>2 DEF Balanced

\* The property RedBlack follows from the invariant.
LEMMA InvRedBlack ==
  ASSUME Inv
  PROVE  RedBlack
<1>1. SearchTree(Reach) /\ Balanced(Reach)
  BY SearchTreeIs, BalancedIs
<1>2. tree.root \notin tree.red
  BY DEF Inv, Colors
<1>3. ASSUME NEW x \in Elems, RedAbove(x)
      PROVE  \/ phase = "insert" /\ x = node
             \/ phase = "delete" /\ tree.kid[side][n] \in {x, tree.parent[x]}
  BY <1>3 DEF RedAbove, Inv, Colors, RedPair
<1>4. QED
  BY <1>1, <1>2, <1>3 DEF RedBlack

\* At every turn of its loops the tree is a balanced search tree.
THEOREM RedBlackCorrect == Spec => []RedBlack
<1>1. Inv => RedBlack
  BY InvRedBlack
<1>2. QED
  BY <1>1, Invariant, PTL

------------------------------------------------------------------------------
(* The ordered set                                                         *)

\* What the ordered set sees of a step of the tree.
Steps == [Set!Next]_(Set!vars)

\* A call that is not over changes neither the set nor the answer; one that
\* begins resets the answer.
LEMMA QuietSteps ==
  ASSUME Elems' = Elems, answer' = answer \/ answer' = NoAnswer
  PROVE  Steps
<1>1. CASE answer' = answer
  BY <1>1 DEF Steps, Set!vars
<1>2. CASE answer' = NoAnswer
  BY <1>2 DEF Steps, Set!Next, Set!Call, Set!NoAnswer, NoAnswer, Answer
<1>3. QED
  BY <1>1, <1>2

\* Insertion, as the ordered set sees it.
LEMMA InsertSteps ==
  ASSUME NEW x \in Nodes, x \notin Elems, Elems' = Elems \union {x}, answer' = Answer("insert", x, Null)
  PROVE  Steps
BY DEF Steps, Set!Next, Set!Insert, Set!Returns, Answer

\* Deletion, as the ordered set sees it, whether the node is there or not.
LEMMA DeleteSteps ==
  ASSUME NEW x \in Nodes, Elems' = Elems \ {x},
         answer' = Answer("delete", x, IF x \in Elems THEN x ELSE Null)
  PROVE  Steps
BY DEF Steps, Set!Next, Set!Delete, Set!Returns, Answer

\* Search, as the ordered set sees it.
LEMMA FindSteps ==
  ASSUME NEW x \in Nodes, Elems' = Elems,
         answer' = Answer("find", x, IF x \in Elems THEN x ELSE Null)
  PROVE  Steps
BY DEF Steps, Set!Next, Set!Find, Set!Returns, Answer

\* Node y is the nearest one of E on side s of x; or y is Null and there is none.
Nearest(E, s, x, y) ==
  /\ y = Null => \A z \in E : ~Ord(s, x, z)
  /\ y # Null => y \in E /\ Ord(s, x, y) /\ \A z \in E : ~(Ord(s, x, z) /\ Ord(s, z, y))

\* The nearest node on a side is the least of those above, or the greatest below.
LEMMA WalkSteps ==
  ASSUME Elems \subseteq Nodes, Elems' = Elems, NEW x \in Elems, NEW s \in Sides, NEW y,
         Nearest(Elems, s, x, y), answer' = Answer(s, x, y)
  PROVE  Steps
<1>1. Elems \subseteq Nat
  BY NodesAssumption
<1>2. CASE s = "right"
  <2>1. y = Set!Least(Set!Above(x))
    <3>1. Set!Above(x) = {z \in Elems : z > x}
      BY DEF Set!Above
    <3>2. CASE y = Null
      <4>1. Set!Above(x) = {}
        BY <1>1, <1>2, <3>1, <3>2 DEF Nearest, Ord
      <4>2. QED
        BY <3>2, <4>1 DEF Set!Least
    <3>3. CASE y # Null
      <4>1. y \in Set!Above(x) /\ \A z \in Set!Above(x) : y <= z
        <5>1. y \in Elems /\ y \in Nat /\ Ord(s, x, y) /\ x \in Nat
          BY <1>1, <3>3 DEF Nearest
        <5>2. y \in Set!Above(x)
          BY <1>2, <3>1, <5>1 DEF Ord
        <5>3. ASSUME NEW z \in Set!Above(x) PROVE y <= z
          <6>1. z \in Elems /\ z \in Nat /\ Ord(s, x, z)
            BY <1>1, <1>2, <3>1 DEF Ord
          <6>2. ~Ord(s, z, y)
            BY <3>3, <6>1 DEF Nearest
          <6>3. QED
            BY <1>2, <5>1, <6>1, <6>2 DEF Ord
        <5>4. QED
          BY <5>2, <5>3
      <4>2. Set!Above(x) \subseteq Nat
        BY <1>1, <3>1
      <4>3. \A m \in Set!Above(x) : (\A z \in Set!Above(x) : m <= z) => m = y
        BY <4>1, <4>2
      <4>4. Set!Min(Set!Above(x)) = y
        BY <4>1, <4>3 DEF Set!Min
      <4>5. QED
        BY <4>1, <4>4 DEF Set!Least
    <3>4. QED
      BY <3>2, <3>3
  <2>2. Set!NextOf(x)
    BY <1>2, <2>1 DEF Set!NextOf, Set!Returns, Answer
  <2>3. QED
    BY <2>2 DEF Steps, Set!Next
<1>3. CASE s = "left"
  <2>1. y = Set!Greatest(Set!Below(x))
    <3>1. Set!Below(x) = {z \in Elems : z < x}
      BY DEF Set!Below
    <3>2. CASE y = Null
      <4>1. Set!Below(x) = {}
        BY <1>1, <1>3, <3>1, <3>2 DEF Nearest, Ord
      <4>2. QED
        BY <3>2, <4>1 DEF Set!Greatest
    <3>3. CASE y # Null
      <4>1. y \in Set!Below(x) /\ \A z \in Set!Below(x) : y >= z
        <5>1. y \in Elems /\ y \in Nat /\ Ord(s, x, y) /\ x \in Nat
          BY <1>1, <3>3 DEF Nearest
        <5>2. y \in Set!Below(x)
          BY <1>3, <3>1, <5>1 DEF Ord
        <5>3. ASSUME NEW z \in Set!Below(x) PROVE y >= z
          <6>1. z \in Elems /\ z \in Nat /\ Ord(s, x, z)
            BY <1>1, <1>3, <3>1 DEF Ord
          <6>2. ~Ord(s, z, y)
            BY <3>3, <6>1 DEF Nearest
          <6>3. QED
            BY <1>3, <5>1, <6>1, <6>2 DEF Ord
        <5>4. QED
          BY <5>2, <5>3
      <4>2. Set!Below(x) \subseteq Nat
        BY <1>1, <3>1
      <4>3. \A m \in Set!Below(x) : (\A z \in Set!Below(x) : m >= z) => m = y
        BY <4>1, <4>2
      <4>4. Set!Max(Set!Below(x)) = y
        BY <4>1, <4>3 DEF Set!Max
      <4>5. QED
        BY <4>1, <4>4 DEF Set!Greatest
    <3>4. QED
      BY <3>2, <3>3
  <2>2. Set!PrevOf(x)
    BY <1>3, <2>1 DEF Set!PrevOf, Set!Returns, Answer
  <2>3. QED
    BY <2>2 DEF Steps, Set!Next
<1>4. QED
  BY <1>2, <1>3 DEF Sides

\* The turns that only move.
LEMMA MoveSteps ==
  ASSUME Descend \/ Seek \/ TwoKids \/ After
  PROVE  Steps
<1>1. tree' = tree /\ answer' = answer
  BY DEF Descend, Seek, TwoKids, After, WalkTo
<1>2. Elems' = Elems
  BY <1>1 DEF Elems
<1>3. QED
  BY <1>1, <1>2, QuietSteps

\* Calls that walk first.
LEMMA BeginSteps ==
  ASSUME NEW x \in Nodes, Find(x) \/ Delete(x) \/ StepTo(x)
  PROVE  Steps
<1>1. tree' = tree /\ answer' = NoAnswer
  BY DEF Find, Delete, StepTo, WalkFrom
<1>2. Elems' = Elems
  BY <1>1 DEF Elems
<1>3. QED
  BY <1>1, <1>2, QuietSteps

\* The first node is inserted at once.
LEMMA InsertBeginSteps ==
  ASSUME Inv, NEW x \in Nodes, Insert(x)
  PROVE  Steps
<1>1. Elems' = IF tree.root = Null THEN {x} ELSE Elems
  BY InsertInv
<1>2. x \notin Elems
  BY DEF Insert
<1>3. CASE tree.root = Null
  <2>1. PICK b : Grown(tree, Elems, b)
    BY DEF Inv
  <2>2. Elems = {}
    BY <1>3, <2>1 DEF Grown, Shape
  <2>3. Elems' = Elems \union {x}
    BY <1>1, <1>3, <2>2
  <2>4. answer' = Answer("insert", x, Null)
    BY <1>3 DEF Insert, Return
  <2>5. QED
    BY <1>2, <2>3, <2>4, InsertSteps
<1>4. CASE tree.root # Null
  <2>1. answer' = NoAnswer
    BY <1>4 DEF Insert, WalkFrom
  <2>2. QED
    BY <1>1, <1>4, <2>1, QuietSteps
<1>5. QED
  BY <1>3, <1>4

\* An insertion takes effect when the node is linked.
LEMMA InsertThereSteps ==
  ASSUME Inv, InsertThere
  PROVE  Steps
<1>1. Elems' = Elems \union {node}
  BY InsertThereInv
<1>2. answer' = Answer("insert", node, Null)
  BY DEF InsertThere, Return
<1>3. node \in Nodes /\ node \notin Elems
  BY DEF Inv, InsertThere, Walks
<1>4. QED
  BY <1>1, <1>2, <1>3, InsertSteps

\* The fix-ups change neither the set nor the answer.
LEMMA FixSteps ==
  ASSUME Inv, Fix
  PROVE  Steps
<1>1. Elems' = Elems
  BY InsertUpInv, InsertRotateInv, DeleteBlackenInv, DeleteRedSiblingInv, DeleteOuterInv, DeleteInnerInv,
     DeleteUpInv DEF Fix
<1>2. answer' = answer
  <2>1. CASE InsertUp \/ InsertRotate
    BY <2>1 DEF InsertUp, InsertRotate, Settle, Return
  <2>2. CASE DeleteBlacken \/ DeleteRedSibling \/ DeleteOuter
    BY <2>2 DEF DeleteBlacken, DeleteRedSibling, DeleteOuter, Settle, Return
  <2>3. CASE DeleteInner \/ DeleteUp
    BY <2>3 DEF DeleteInner, DeleteUp, Settle, Return
  <2>4. QED
    BY <2>1, <2>2, <2>3 DEF Fix
<1>3. QED
  BY <1>1, <1>2, QuietSteps

\* A search that ends at a node found it; one that ends at none could not.
LEMMA AnsweredSteps ==
  ASSUME Inv, Found \/ NotThere
  PROVE  Steps
<1>1. node \in Nodes /\ (at = Null => node \notin Elems) /\ (at # Null => at \in Elems)
  BY DEF Inv, Found, NotThere, Walks
<1>2. tree' = tree
  BY DEF Found, NotThere
<1>3. Elems' = Elems
  BY <1>2 DEF Elems
<1>4. CASE Found
  <2>1. at = (IF node \in Elems THEN node ELSE Null) /\ answer' = Answer("find", node, at)
    BY <1>1, <1>4 DEF Found, Return
  <2>2. answer' = Answer("find", node, IF node \in Elems THEN node ELSE Null)
    BY <2>1
  <2>3. QED
    BY <1>1, <1>3, <2>2, FindSteps
<1>5. CASE NotThere
  <2>1. node \notin Elems /\ answer' = Answer("delete", node, Null)
    BY <1>1, <1>5 DEF NotThere, Return
  <2>2. Elems' = Elems \ {node} /\ answer' = Answer("delete", node, IF node \in Elems THEN node ELSE Null)
    BY <1>3, <2>1
  <2>3. QED
    BY <1>1, <2>2, DeleteSteps
<1>6. QED
  BY <1>4, <1>5

\* A deletion takes effect when the node is unlinked.
LEMMA UnlinkSteps ==
  ASSUME Inv, UnlinkOuter \/ UnlinkInner
  PROVE  Steps
<1>1. Elems' = Elems \ {node}
  BY UnlinkOuterInv, UnlinkInnerInv
<1>2. node \in Elems /\ Elems \subseteq Nodes
  BY DEF Inv, UnlinkOuter, UnlinkInner, There, Walks, Elems
<1>3. answer' = Answer("delete", node, node)
  BY DEF UnlinkOuter, UnlinkInner, Unlink, Return
<1>4. QED
  BY <1>1, <1>2, <1>3, DeleteSteps

\* The outermost node below is the nearest one.
LEMMA DownSteps ==
  ASSUME Inv, Down
  PROVE  Steps
<1>1. PICK E, b, h : Calm(E, b, h)
  BY CalmIs DEF Down
<1>2. /\ E = Elems /\ node \in E /\ at \in E /\ b[Other(side)][at] = node /\ E \subseteq Nodes
      /\ Fits(tree, E, b) /\ side \in Sides /\ Other(side) \in Sides
  BY <1>1, Order DEF Down, Calm, Walks, TypeOK, OrderLaws
<1>3. tree' = tree /\ at # Null /\ node # Null
  BY <1>2, NullNoNode DEF Down, WalkTo
<1>4. Elems' = Elems
  BY <1>3 DEF Elems
<1>5. CASE tree.kid[Other(side)][at] # Null
  <2>1. answer' = answer
    BY <1>5 DEF Down, WalkTo
  <2>2. QED
    BY <1>4, <2>1, QuietSteps
<1>6. CASE tree.kid[Other(side)][at] = Null
  <2>1. answer' = Answer(side, node, at)
    BY <1>6 DEF Down, Return
  <2>2. Ord(side, node, at)
    <3>1. Short(Other(side), at, b[Other(side)][at])
      BY <1>2 DEF Fits, BoundsRight
    <3>2. Ord(Other(side), at, node)
      BY <1>2, <1>3, <3>1 DEF Short
    <3>3. QED
      BY <1>2, <3>2, Order DEF OrderLaws
  <2>3. ASSUME NEW z \in E, Ord(side, node, z), Ord(side, z, at) PROVE FALSE
    <3>1. Ord(Other(side), at, z) /\ Ord(Other(side), z, node)
      BY <1>2, <2>3, Order DEF OrderLaws
    <3>2. Short(Other(side), z, b[Other(side)][at])
      BY <1>2, <3>1 DEF Short
    <3>3. QED
      BY <1>2, <1>6, <3>1, <3>2 DEF Fits, NoneBetween
  <2>4. Nearest(E, side, node, at)
    BY <1>2, <1>3, <2>2, <2>3 DEF Nearest
  <2>5. QED
    BY <1>2, <1>4, <2>1, <2>4, WalkSteps
<1>7. QED
  BY <1>5, <1>6

\* The first node above that is not left behind is the nearest one.
LEMMA UpSteps ==
  ASSUME Inv, Up
  PROVE  Steps
<1>1. PICK E, b, h : Calm(E, b, h)
  BY CalmIs DEF Up
<1>2. /\ E = Elems /\ node \in E /\ at \in E /\ b[side][at] = b[side][node] /\ tree.kid[side][node] = Null
      /\ E \subseteq Nodes /\ Shape(tree, E) /\ Fits(tree, E, b) /\ side \in Sides /\ Grown(tree, E, b)
  BY <1>1 DEF Up, Calm, Walks, TypeOK
<1>3. tree' = tree
  BY DEF Up, WalkTo
<1>4. Elems' = Elems
  BY <1>3 DEF Elems
<1>5. CASE ~Turns(tree.parent[at])
  <2>1. answer' = answer
    BY <1>5 DEF Up, WalkTo
  <2>2. QED
    BY <1>4, <2>1, QuietSteps
<1>6. CASE Turns(tree.parent[at])
  <2>1. PICK q : q = tree.parent[at]
    OBVIOUS
  <2>2. answer' = Answer(side, node, q)
    BY <1>6, <2>1 DEF Up, Return
  <2>3. b[side][node] = q
    <3>1. CASE q = Null
      <4>1. at = tree.root
        BY <1>2, <2>1, <3>1, NullNoNode DEF Shape
      <4>2. tree.root # Null
        BY <1>2, <4>1, NullNoNode
      <4>3. b[side][tree.root] = Null
        BY <1>2, <4>2 DEF Fits, Inherited
      <4>4. QED
        BY <1>2, <3>1, <4>1, <4>3
    <3>2. CASE q # Null
      <4>1. tree.kid[side][q] # at
        BY <1>6, <2>1, <3>2 DEF Turns
      <4>2. PICK d \in Sides : tree.kid[d][q] = at /\ q \in E
        BY <1>2, <2>1, <3>2, OneSide
      <4>3. d # side /\ Other(d) = side
        BY <1>2, <4>1, <4>2, Order DEF OrderLaws
      <4>4. b[side][at] = q
        BY <1>2, <4>2, <4>3, NullNoNode DEF Fits, Inherited
      <4>5. QED
        BY <1>2, <4>4
    <3>3. QED
      BY <3>1, <3>2
  <2>4. q # Null => q \in E /\ Ord(side, node, q)
    BY <1>2, <2>3 DEF Fits, BoundsRight, Short
  <2>5. \A z \in E : Ord(side, node, z) => ~Short(side, z, q)
    BY <1>2, <2>3 DEF Fits, NoneBetween
  <2>6. Nearest(E, side, node, q)
    BY <2>4, <2>5 DEF Nearest, Short
  <2>7. QED
    BY <1>2, <1>4, <2>2, <2>6, WalkSteps
<1>7. QED
  BY <1>5, <1>6

\* Every step is one of the ordered set, or none.
LEMMA StepSteps ==
  ASSUME Inv, Next
  PROVE  Steps
<1>1. CASE Walk
  BY <1>1, MoveSteps, InsertThereSteps, AnsweredSteps, DownSteps, UpSteps DEF Walk
<1>2. CASE UnlinkOuter \/ UnlinkInner
  BY <1>2, UnlinkSteps
<1>3. CASE Fix
  BY <1>3, FixSteps
<1>4. ASSUME NEW x \in Nodes, Insert(x) PROVE Steps
  BY <1>4, InsertBeginSteps
<1>5. ASSUME NEW x \in Nodes, Delete(x) \/ Find(x) \/ StepTo(x) PROVE Steps
  BY <1>5, BeginSteps
<1>6. QED
  BY <1>1, <1>2, <1>3, <1>4, <1>5 DEF Next, Proceed

\* The tree implements the ordered set: RBTREE_INSERT adds its node, and
\* RBTREE_DELETE takes it away and returns it, at the one step that links or
\* unlinks it; RBTREE_FIND returns the node if it is there, RBTREE_NEXT the
\* least one above and RBTREE_PREV the greatest one below; no rotation and no
\* turn of a walk changes what the tree holds.
THEOREM RefinesCorrect == Spec => Refines
<1>1. Init => Set!Init
  <2>1. Init => Elems = {}
    BY NullNoNode DEF Init, EmptyTree, Elems
  <2>2. QED
    BY <2>1 DEF Init, Set!Init, NoAnswer, Answer, Set!NoAnswer
<1>2. Inv /\ [Next]_vars => [Set!Next]_(Set!vars)
  <2>1. Inv /\ Next => [Set!Next]_(Set!vars)
    BY StepSteps DEF Steps
  <2>2. UNCHANGED vars => [Set!Next]_(Set!vars)
    BY DEF vars, Elems, Set!vars
  <2>3. QED
    BY <2>1, <2>2
<1>3. QED
  BY <1>1, <1>2, Invariant, PTL DEF Spec, Refines, Set!Spec
=============================================================================
