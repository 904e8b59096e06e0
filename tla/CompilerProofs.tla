---------------------------- MODULE CompilerProofs ----------------------------
(***************************************************************************)
(* Proofs about two parts of the compiler: the allocator of its programs,  *)
(* module BlockMalloc, and the passes of the assembler, module Assembler.  *)
(* None sees the other.                                                    *)
(*                                                                         *)
(* The invariant of the allocator is stated of values, so that a step can  *)
(* be followed through the zone, the head and the object it makes one      *)
(* after the other; an action of the module is one or two of these.        *)
(***************************************************************************)
EXTENDS BlockMalloc, Assembler, FiniteSetTheorems, TLAPS

------------------------------------------------------------------------------
(* Induction on numbers, stated about sets: the library's takes an operator *)

\* The library's theorem with the relation spelled out.
LEMMA NatWellFounded ==
  IsWellFoundedOn({p \in Nat \X Nat : p[1] < p[2]}, Nat)
BY NatLessThanWellFounded DEF OpToRel

\* A set of natural numbers that is not empty has a least element.
LEMMA LeastNat ==
  ASSUME NEW T, T \subseteq Nat, T # {}
  PROVE  \E x \in T : \A y \in T : x <= y
<1> DEFINE R == {p \in Nat \X Nat : p[1] < p[2]}
<1>1. \E x \in T : \A y \in T : ~(<<y, x>> \in R)
  <2>1. IsWellFoundedOn(R, Nat)
    BY NatWellFounded
  <2> HIDE DEF R
  <2>2. QED
    BY <2>1, WFMin, Zenon
<1>2. PICK x \in T : \A y \in T : ~(<<y, x>> \in R)
  BY <1>1
<1>3. ASSUME NEW y \in T
      PROVE  x <= y
  <2>1. x \in Nat /\ y \in Nat /\ ~(<<y, x>> \in R)
    BY <1>2
  <2>2. ~(y < x)
    BY <2>1
  <2>3. QED
    BY <2>1, <2>2
<1>4. QED
  BY <1>3

\* A set that has 0 and, with every number, the next has all of them.
LEMMA SetInduction ==
  ASSUME NEW S, 0 \in S, \A n \in Nat : n \in S => n + 1 \in S
  PROVE  \A n \in Nat : n \in S
<1> DEFINE T == Nat \ S
<1>1. SUFFICES ASSUME T # {} PROVE FALSE
  OBVIOUS
<1>2. PICK x \in T : \A y \in T : x <= y
  BY <1>1, LeastNat
<1>3. x \in Nat /\ x # 0 /\ x - 1 \in Nat /\ x - 1 \notin T
  BY <1>2
<1>4. x - 1 \in S /\ (x - 1) + 1 = x
  BY <1>3
<1>5. QED
  BY <1>2, <1>3, <1>4

------------------------------------------------------------------------------
(* The inductive invariant                                                 *)

\* The objects of the zone at b.
In(Z, O, b) == {p \in DOMAIN O : b < p /\ p < b + Z[b]}

\* Where the head of an object leads: to its block, or, of an object that is a
\* zone, to that zone.
Home(M, p) == p - 1 - M[p - 1]

\* Zones do not overlap.
ZonesOK(Z) ==
    /\ DOMAIN Z \subseteq Addresses
    /\ \A z \in DOMAIN Z : Z[z] \in Nat \ {0}
    /\ \A y, z \in DOMAIN Z : y < z => y + Z[y] <= z

\* Objects do not overlap, with the heads between them; each lies in the zone its
\* head leads to, and a block has no object at its first place.
ObjsOK(Z, M, O) ==
    /\ \A p \in DOMAIN O :
           /\ p \in Nat
           /\ O[p] \in Sizes
           /\ M[p - 1] \in Nat
           /\ Home(M, p) \in DOMAIN Z
           /\ p + O[p] <= Home(M, p) + Z[Home(M, p)]
           /\ M[p - 1] # 0 =>
                  /\ Z[Home(M, p)] = BlockSize
                  /\ Home(M, p) + 1 \notin DOMAIN O
    /\ \A p, q \in DOMAIN O : p < q => p + O[p] < q

\* The blocks K are kept, the blocks E have just been had; every other zone has
\* an object, and the head of a block counts its objects.
Book(Z, M, O, K, E) ==
    /\ DOMAIN M = DOMAIN Z \union {p - 1 : p \in DOMAIN O}
    /\ K \union E \subseteq DOMAIN Z
    /\ \A b \in K \union E : In(Z, O, b) = {} /\ Z[b] = BlockSize
    /\ \A b \in DOMAIN Z \ K :
           /\ b \notin E => In(Z, O, b) # {}
           /\ b + 1 \notin DOMAIN O => M[b] = Cardinality(In(Z, O, b))

\* The list of n kept blocks that begins at f goes through c.
Chain(M, c, n, f) ==
    /\ n \in 0..MaxFree
    /\ c \in [1..n -> Nat \ {0}]
    /\ \A i, j \in 1..n : c[i] = c[j] => i = j
    /\ f = IF n = 0 THEN NULL ELSE c[1]
    /\ \A k \in 1..n : M[c[k]] = IF k = n THEN NULL ELSE c[k + 1]

\* What follows place o of the block b that is being cut, if t is not 0, is free.
Cutting(Z, O, b, t, o) ==
    /\ t \in {0, BlockSize}
    /\ o \in 0..BlockSize
    /\ b # NULL => b \in DOMAIN Z /\ b + 1 \notin DOMAIN O
    /\ t # 0 =>
           /\ b # NULL /\ o # 0 /\ Z[b] = BlockSize
           /\ \A p \in In(Z, O, b) : p + O[p] <= b + o

Elements(c) == {c[k] : k \in DOMAIN c}

Inv ==
    /\ ZonesOK(zones)
    /\ ObjsOK(zones, mem, objs)
    /\ Cutting(zones, objs, block, blockSize, off)
    /\ \E c : /\ Chain(mem, c, freeCount, freeBlocks)
              /\ Book(zones, mem, objs, Elements(c), {})
              /\ block \notin Elements(c)

------------------------------------------------------------------------------
(* Zones and what is in them                                               *)

\* A zone of the model begins at a natural number after NULL.
LEMMA ZoneNat ==
  ASSUME SizesAssumption, NEW Z, ZonesOK(Z), NEW z \in DOMAIN Z
  PROVE  z \in Nat /\ z # NULL /\ Z[z] \in Nat /\ Z[z] # 0
BY DEF SizesAssumption, ZonesOK, NULL

\* The size of an object is a number.
LEMMA SizeNat ==
  ASSUME SizesAssumption
  PROVE  /\ \A s \in Sizes : s \in Nat /\ s # 0
         /\ Large \in Nat /\ BlockSize \in Nat /\ Large + 3 <= BlockSize
         /\ MaxFree \in Nat /\ MaxFree # 0
BY DEF SizesAssumption

\* An object is among those of the zone its head leads to.
LEMMA HomeIn ==
  ASSUME SizesAssumption, NEW Z, NEW M, NEW O,
         ZonesOK(Z), ObjsOK(Z, M, O), NEW p \in DOMAIN O
  PROVE  /\ Home(M, p) \in DOMAIN Z /\ Home(M, p) \in Nat
         /\ p \in In(Z, O, Home(M, p))
         /\ p \in Nat /\ O[p] \in Nat /\ O[p] # 0
         /\ p + O[p] <= Home(M, p) + Z[Home(M, p)]
<1>1. /\ p \in Nat /\ O[p] \in Nat /\ O[p] # 0 /\ M[p - 1] \in Nat
      /\ Home(M, p) \in DOMAIN Z
      /\ p + O[p] <= Home(M, p) + Z[Home(M, p)]
  BY SizeNat DEF ObjsOK
<1>2. Home(M, p) \in Nat /\ Z[Home(M, p)] \in Nat
  BY <1>1, ZoneNat
<1>3. Home(M, p) < p
  BY <1>1 DEF Home
<1>4. QED
  BY <1>1, <1>2, <1>3 DEF In

\* A place lies in one zone only.
LEMMA OneZone ==
  ASSUME SizesAssumption, NEW Z, ZonesOK(Z), NEW y \in DOMAIN Z, NEW z \in DOMAIN Z,
         NEW p \in Nat, y <= p, p < y + Z[y], z <= p, p < z + Z[z]
  PROVE  y = z
<1>1. /\ y \in Nat /\ z \in Nat /\ Z[y] \in Nat /\ Z[z] \in Nat
      /\ y < z => y + Z[y] <= z
      /\ z < y => z + Z[z] <= y
  BY ZoneNat DEF ZonesOK
<1>2. QED
  BY <1>1

\* The head of an object leads to the zone it is in.
LEMMA HomeIs ==
  ASSUME SizesAssumption, NEW Z, NEW M, NEW O,
         ZonesOK(Z), ObjsOK(Z, M, O), NEW b \in DOMAIN Z, NEW p \in In(Z, O, b)
  PROVE  Home(M, p) = b
<1>1. p \in DOMAIN O /\ b < p /\ p < b + Z[b]
  BY DEF In
<1>2. /\ Home(M, p) \in DOMAIN Z /\ Home(M, p) \in Nat /\ p \in Nat
      /\ p \in In(Z, O, Home(M, p))
  BY <1>1, HomeIn
<1>3. Home(M, p) < p /\ p < Home(M, p) + Z[Home(M, p)]
  BY <1>2 DEF In
<1>4. b \in Nat /\ Z[b] \in Nat /\ Z[Home(M, p)] \in Nat
  BY <1>2, ZoneNat
<1>5. b <= p /\ Home(M, p) <= p
  BY <1>1, <1>2, <1>3, <1>4
<1>6. QED
  BY <1>1, <1>2, <1>3, <1>5, OneZone

\* A zone has finitely many objects.
LEMMA InFinite ==
  ASSUME SizesAssumption, NEW Z, NEW M, NEW O,
         ZonesOK(Z), ObjsOK(Z, M, O), NEW b \in DOMAIN Z
  PROVE  IsFiniteSet(In(Z, O, b)) /\ Cardinality(In(Z, O, b)) \in Nat
<1>1. b \in Nat /\ Z[b] \in Nat
  BY ZoneNat
<1>2. ASSUME NEW p \in In(Z, O, b)
      PROVE  p \in b..(b + Z[b])
  <2>1. p \in DOMAIN O /\ b < p /\ p < b + Z[b]
    BY DEF In
  <2>2. p \in Nat
    BY <2>1 DEF ObjsOK
  <2>3. QED
    BY <1>1, <2>1, <2>2
<1>3. IsFiniteSet(b..(b + Z[b]))
  BY <1>1, FS_Interval
<1>4. IsFiniteSet(In(Z, O, b))
  BY <1>2, <1>3, FS_Subset
<1>5. QED
  BY <1>4, FS_CardinalityType

\* An object whose head is that of a zone is that zone's only one.
LEMMA AtZone ==
  ASSUME SizesAssumption, NEW Z, NEW M, NEW O,
         ZonesOK(Z), ObjsOK(Z, M, O), NEW p \in DOMAIN O, p - 1 \in DOMAIN Z
  PROVE  M[p - 1] = 0 /\ Home(M, p) = p - 1 /\ In(Z, O, p - 1) = {p}
<1>1. /\ p \in Nat /\ O[p] \in Nat /\ O[p] # 0
      /\ Home(M, p) \in DOMAIN Z /\ Home(M, p) \in Nat
      /\ p + O[p] <= Home(M, p) + Z[Home(M, p)]
      /\ M[p - 1] \in Nat
  BY HomeIn DEF ObjsOK
<1>2. p - 1 \in Nat /\ Z[p - 1] \in Nat /\ Z[p - 1] # 0 /\ Z[Home(M, p)] \in Nat
  BY <1>1, ZoneNat
<1>3. Home(M, p) <= p - 1
  BY <1>1 DEF Home
<1>4. p - 1 < (p - 1) + Z[p - 1] /\ p - 1 < Home(M, p) + Z[Home(M, p)]
  BY <1>1, <1>2
<1>5. Home(M, p) = p - 1
  BY <1>1, <1>2, <1>3, <1>4, OneZone
<1>6. M[p - 1] = 0
  BY <1>1, <1>5 DEF Home
<1>7. p \in In(Z, O, p - 1)
  BY <1>5, HomeIn
<1>8. ASSUME NEW q \in In(Z, O, p - 1)
      PROVE  q = p
  <2>1. q \in DOMAIN O /\ Home(M, q) = p - 1
    BY <1>8, HomeIs DEF In
  <2>2. q \in Nat /\ M[q - 1] \in Nat
    BY <2>1 DEF ObjsOK
  <2>3. M[q - 1] # 0 => (p - 1) + 1 \notin DOMAIN O
    BY <2>1 DEF ObjsOK
  <2>4. M[q - 1] = 0
    BY <2>3, <1>1
  <2>5. QED
    BY <2>1, <2>2, <2>4, <1>1 DEF Home
<1>9. QED
  BY <1>5, <1>6, <1>7, <1>8

------------------------------------------------------------------------------
(* What a step may change                                                  *)

\* Fewer zones are as well apart.
LEMMA FewerZones ==
  ASSUME NEW Z, ZonesOK(Z), NEW Y, DOMAIN Y \subseteq DOMAIN Z,
         \A z \in DOMAIN Y : Y[z] = Z[z]
  PROVE  ZonesOK(Y)
BY DEF ZonesOK

\* The objects P are among O, with the heads and the zones they had.
Among(Z, M, O, Y, N, P) ==
    /\ DOMAIN P \subseteq DOMAIN O
    /\ \A p \in DOMAIN P :
           /\ P[p] = O[p] /\ N[p - 1] = M[p - 1]
           /\ Home(M, p) \in DOMAIN Y /\ Y[Home(M, p)] = Z[Home(M, p)]

\* Objects stay right while their heads and their zones stay.
LEMMA FewerObjects ==
  ASSUME NEW Z, NEW M, NEW O, ObjsOK(Z, M, O), NEW Y, NEW N, NEW P,
         Among(Z, M, O, Y, N, P)
  PROVE  ObjsOK(Y, N, P) /\ \A p \in DOMAIN P : Home(N, p) = Home(M, p)
<1>1. \A p \in DOMAIN P : Home(N, p) = Home(M, p)
  BY DEF Home, Among
<1>2. ASSUME NEW p \in DOMAIN P
      PROVE  /\ p \in Nat
             /\ P[p] \in Sizes
             /\ N[p - 1] \in Nat
             /\ Home(N, p) \in DOMAIN Y
             /\ p + P[p] <= Home(N, p) + Y[Home(N, p)]
             /\ N[p - 1] # 0 =>
                    /\ Y[Home(N, p)] = BlockSize
                    /\ Home(N, p) + 1 \notin DOMAIN P
  BY <1>1 DEF ObjsOK, Among
<1>3. \A p, q \in DOMAIN P : p < q => p + P[p] < q
  BY DEF ObjsOK, Among
<1>4. QED
  BY <1>1, <1>2, <1>3 DEF ObjsOK

------------------------------------------------------------------------------
(* A zone is had                                                           *)

\* What a new zone of length n at a leaves as it was, and what it adds.
Grown(Z, M, O, a, n, Y, N) ==
    /\ ZonesOK(Y) /\ ObjsOK(Y, N, O)
    /\ a \in Nat /\ a # NULL /\ a \notin DOMAIN Z /\ a + 1 \notin DOMAIN O
    /\ DOMAIN Y = DOMAIN Z \union {a} /\ DOMAIN N = DOMAIN M \union {a}
    /\ Y[a] = n /\ N[a] = 0 /\ In(Y, O, a) = {}
    /\ \A z \in DOMAIN Z : Y[z] = Z[z] /\ N[z] = M[z] /\ In(Y, O, z) = In(Z, O, z)
    /\ \A p \in DOMAIN O : /\ p < a => p + O[p] <= a
                           /\ p >= a => a + n < p

\* A new zone is empty and leaves all others as they are.
LEMMA NewZone ==
  ASSUME SizesAssumption, NEW Z, NEW M, NEW O, ZonesOK(Z), ObjsOK(Z, M, O),
         NEW a \in Addresses, NEW n \in Nat \ {0, 1},
         \A z \in DOMAIN Z : Apart(a, n, z, Z[z]),
         DOMAIN M = DOMAIN Z \union {p - 1 : p \in DOMAIN O}
  PROVE  Grown(Z, M, O, a, n, Put(Z, a, n), Put(M, a, 0))
<1> DEFINE Y == Put(Z, a, n)
<1> DEFINE N == Put(M, a, 0)
<1>1. a \in Nat /\ a # NULL
  BY DEF SizesAssumption, NULL
<1>2. \A z \in DOMAIN Z : /\ z \in Nat /\ Z[z] \in Nat /\ Z[z] # 0
                          /\ a + n <= z \/ z + Z[z] <= a
  BY ZoneNat DEF Apart
<1>3. a \notin DOMAIN Z
  BY <1>1, <1>2
<1>4. /\ DOMAIN Y = DOMAIN Z \union {a} /\ DOMAIN N = DOMAIN M \union {a}
      /\ Y[a] = n /\ N[a] = 0
      /\ \A z \in DOMAIN Z : Y[z] = Z[z] /\ N[z] = M[z]
  BY <1>3 DEF Put
<1>5. ASSUME NEW p \in DOMAIN O
      PROVE  p \in Nat /\ O[p] \in Nat /\ O[p] # 0 /\ (p + O[p] <= a \/ a + n < p)
  <2>1. /\ Home(M, p) \in DOMAIN Z
        /\ p \in In(Z, O, Home(M, p))
        /\ p \in Nat /\ O[p] \in Nat /\ O[p] # 0
        /\ p + O[p] <= Home(M, p) + Z[Home(M, p)]
    BY HomeIn
  <2>2. Home(M, p) < p
    BY <2>1 DEF In
  <2> DEFINE h == Home(M, p)
  <2>3. /\ h \in Nat /\ Z[h] \in Nat
        /\ a + n <= h \/ h + Z[h] <= a
    BY <2>1, <1>2
  <2> HIDE DEF h
  <2>4. h < p /\ p + O[p] <= h + Z[h]
    BY <2>1, <2>2 DEF h
  <2>5. QED
    BY <2>1, <2>3, <2>4, <1>1
<1>6. a + 1 \notin DOMAIN O
  <2>1. ~(a + 1 + O[a + 1] <= a) \/ O[a + 1] \notin Nat
    BY <1>1
  <2>2. ~(a + n < a + 1)
    BY <1>1
  <2>3. QED
    BY <2>1, <2>2, <1>5, <1>1
<1>7. ASSUME NEW p \in DOMAIN O
      PROVE  p - 1 # a /\ N[p - 1] = M[p - 1] /\ p - 1 \in DOMAIN M
  <2>1. p \in Nat
    BY <1>5
  <2>2. p - 1 # a
    BY <2>1, <1>6, <1>1
  <2>3. p - 1 \in DOMAIN M
    OBVIOUS
  <2>4. QED
    BY <2>2, <2>3 DEF Put
<1>8. In(Y, O, a) = {}
  <2>1. ASSUME NEW p \in DOMAIN O, a < p, p < a + n
        PROVE  FALSE
    BY <1>1, <1>5, <2>1
  <2>2. QED
    BY <2>1, <1>4 DEF In
<1>9. \A z \in DOMAIN Z : In(Y, O, z) = In(Z, O, z)
  BY <1>4 DEF In
<1>10. ZonesOK(Y)
  <2>1. DOMAIN Y \subseteq Addresses
    BY <1>4 DEF ZonesOK
  <2>2. \A z \in DOMAIN Y : Y[z] \in Nat \ {0}
    BY <1>4, <1>2
  <2>3. ASSUME NEW y \in DOMAIN Y, NEW z \in DOMAIN Y, y < z
        PROVE  y + Y[y] <= z
    <3>1. CASE y = a /\ z = a
      BY <3>1, <2>3, <1>1
    <3>2. CASE y = a /\ z # a
      BY <3>2, <2>3, <1>1, <1>2, <1>4
    <3>3. CASE y # a /\ z = a
      BY <3>3, <2>3, <1>1, <1>2, <1>4
    <3>4. CASE y # a /\ z # a
      BY <3>4, <2>3, <1>4 DEF ZonesOK
    <3>5. QED
      BY <3>1, <3>2, <3>3, <3>4
  <2>4. QED
    BY <2>1, <2>2, <2>3 DEF ZonesOK
<1>11. ObjsOK(Y, N, O)
  <2>1. \A p \in DOMAIN O : Home(M, p) \in DOMAIN Z
    BY DEF ObjsOK
  <2>2. Among(Z, M, O, Y, N, O)
    BY <2>1, <1>4, <1>7 DEF Among
  <2>3. QED
    BY <2>2, FewerObjects
<1>12. \A p \in DOMAIN O : (p < a => p + O[p] <= a) /\ (p >= a => a + n < p)
  <2>1. ASSUME NEW p \in DOMAIN O
        PROVE  (p < a => p + O[p] <= a) /\ (p >= a => a + n < p)
    BY <1>1, <1>5
  <2>2. QED
    BY <2>1
<1> HIDE DEF Y, N
<1>13. Grown(Z, M, O, a, n, Y, N)
  BY <1>1, <1>3, <1>4, <1>6, <1>8, <1>9, <1>10, <1>11, <1>12 DEF Grown
<1>14. QED
  BY <1>13 DEF Y, N

\* A block that was had may be cut: it has no object yet, and its head says so.
LEMMA NewBlock ==
  ASSUME SizesAssumption, NEW Z, NEW M, NEW O, NEW K, ZonesOK(Z), ObjsOK(Z, M, O),
         Book(Z, M, O, K, {}), NEW a \in Addresses,
         \A z \in DOMAIN Z : Apart(a, BlockSize, z, Z[z]),
         NEW Y, Y = Put(Z, a, BlockSize), NEW N, N = Put(M, a, 0)
  PROVE  /\ ZonesOK(Y) /\ ObjsOK(Y, N, O) /\ Book(Y, N, O, K, {a})
         /\ a # NULL /\ a \in DOMAIN Y \ K /\ Y[a] = BlockSize
         /\ a + 1 \notin DOMAIN O /\ In(Y, O, a) = {}
         /\ \A b \in K : N[b] = M[b]
<1>1. DOMAIN M = DOMAIN Z \union {p - 1 : p \in DOMAIN O} /\ K \subseteq DOMAIN Z
  BY DEF Book
<1>2. BlockSize \in Nat \ {0, 1}
  BY SizeNat
<1>3. /\ ZonesOK(Y) /\ ObjsOK(Y, N, O)
      /\ a \in Nat /\ a # NULL /\ a \notin DOMAIN Z /\ a + 1 \notin DOMAIN O
      /\ DOMAIN Y = DOMAIN Z \union {a} /\ DOMAIN N = DOMAIN M \union {a}
      /\ Y[a] = BlockSize /\ N[a] = 0 /\ In(Y, O, a) = {}
      /\ \A z \in DOMAIN Z : Y[z] = Z[z] /\ N[z] = M[z] /\ In(Y, O, z) = In(Z, O, z)
  <2>1. Grown(Z, M, O, a, BlockSize, Put(Z, a, BlockSize), Put(M, a, 0))
    BY <1>1, <1>2, NewZone
  <2>2. QED
    BY <2>1 DEF Grown
<1>4. Cardinality({}) = 0
  BY FS_EmptySet
<1>5. \A b \in K \union {a} : In(Y, O, b) = {} /\ Y[b] = BlockSize
  BY <1>1, <1>3 DEF Book
<1>6. ASSUME NEW b \in DOMAIN Y \ K
      PROVE  /\ b \notin {a} => In(Y, O, b) # {}
             /\ b + 1 \notin DOMAIN O => N[b] = Cardinality(In(Y, O, b))
  <2>1. CASE b = a
    BY <2>1, <1>3, <1>4
  <2>2. CASE b # a
    BY <2>2, <1>3 DEF Book
  <2>3. QED
    BY <2>1, <2>2
<1>7. DOMAIN N = DOMAIN Y \union {p - 1 : p \in DOMAIN O} /\ K \subseteq DOMAIN Y
  BY <1>1, <1>3
<1>8. QED
  BY <1>1, <1>3, <1>5, <1>6, <1>7 DEF Book

\* A zone that was had for one object holds it and no other.
LEMMA NewAlone ==
  ASSUME SizesAssumption, NEW Z, NEW M, NEW O, NEW K, ZonesOK(Z), ObjsOK(Z, M, O),
         Book(Z, M, O, K, {}), NEW a \in Addresses, NEW s \in Sizes,
         \A z \in DOMAIN Z : Apart(a, ZoneLen(s), z, Z[z]),
         NEW Y, Y = Put(Z, a, ZoneLen(s)), NEW N, N = Put(M, a, 0),
         NEW P, P = Put(O, a + 1, s)
  PROVE  /\ ZonesOK(Y) /\ ObjsOK(Y, N, P) /\ Book(Y, N, P, K, {})
         /\ a + 1 \notin DOMAIN O
         /\ \A q \in DOMAIN O : Apart(a + 1, s, q, O[q])
         /\ \A b \in K : N[b] = M[b]
         /\ \A z \in DOMAIN Z : /\ z \in DOMAIN Y /\ Y[z] = Z[z] /\ In(Y, P, z) = In(Z, O, z)
                                /\ \A p \in In(Z, O, z) : P[p] = O[p]
                                /\ z + 1 \in DOMAIN P => z + 1 \in DOMAIN O
<1>1. DOMAIN M = DOMAIN Z \union {p - 1 : p \in DOMAIN O} /\ K \subseteq DOMAIN Z
  BY DEF Book
<1> DEFINE n == ZoneLen(s)
<1>2. n \in Nat \ {0, 1} /\ n = s + 1 /\ s \in Nat /\ s # 0
  BY SizeNat DEF ZoneLen
<1>3. /\ ZonesOK(Y) /\ ObjsOK(Y, N, O)
      /\ a \in Nat /\ a # NULL /\ a \notin DOMAIN Z /\ a + 1 \notin DOMAIN O
      /\ DOMAIN Y = DOMAIN Z \union {a} /\ DOMAIN N = DOMAIN M \union {a}
      /\ Y[a] = n /\ N[a] = 0 /\ In(Y, O, a) = {}
      /\ \A z \in DOMAIN Z : Y[z] = Z[z] /\ N[z] = M[z] /\ In(Y, O, z) = In(Z, O, z)
      /\ \A p \in DOMAIN O : (p < a => p + O[p] <= a) /\ (p >= a => a + n < p)
  <2> HIDE DEF n
  <2>1. \A z \in DOMAIN Z : Apart(a, n, z, Z[z])
    BY DEF n
  <2>2. Grown(Z, M, O, a, n, Put(Z, a, n), Put(M, a, 0))
    BY <1>1, <1>2, <2>1, NewZone
  <2>3. Grown(Z, M, O, a, n, Y, N)
    BY <2>2 DEF n
  <2>4. QED
    BY <2>3 DEF Grown
<1> HIDE DEF n
<1>4. /\ DOMAIN P = DOMAIN O \union {a + 1} /\ P[a + 1] = s
      /\ \A q \in DOMAIN O : P[q] = O[q]
  BY <1>3 DEF Put
<1>5. (a + 1) - 1 = a /\ N[(a + 1) - 1] = 0 /\ Home(N, a + 1) = a
  BY <1>3 DEF Home
<1>6. \A q \in DOMAIN O : q \in Nat /\ O[q] \in Nat /\ O[q] # 0
  BY HomeIn
<1>7. ASSUME NEW q \in DOMAIN O
      PROVE  q + O[q] < a + 1 \/ a + 1 + s < q
  BY <1>2, <1>3, <1>6
<1>8. ObjsOK(Y, N, P)
  <2>1. ASSUME NEW p \in DOMAIN P
        PROVE  /\ p \in Nat
               /\ P[p] \in Sizes
               /\ N[p - 1] \in Nat
               /\ Home(N, p) \in DOMAIN Y
               /\ p + P[p] <= Home(N, p) + Y[Home(N, p)]
               /\ N[p - 1] # 0 =>
                      /\ Y[Home(N, p)] = BlockSize
                      /\ Home(N, p) + 1 \notin DOMAIN P
    <3>1. CASE p = a + 1
      <4>1. /\ p \in Nat /\ P[p] \in Sizes /\ N[p - 1] = 0 /\ Home(N, p) = a
            /\ a \in DOMAIN Y /\ Y[a] = s + 1 /\ P[p] = s
        BY <3>1, <1>2, <1>3, <1>4, <1>5
      <4>2. p + s <= a + (s + 1)
        BY <3>1, <1>2, <1>3
      <4>3. QED
        BY <4>1, <4>2
    <3>2. CASE p # a + 1
      <4>1. p \in DOMAIN O /\ P[p] = O[p]
        BY <3>2, <1>4
      <4>2. /\ p \in Nat
            /\ O[p] \in Sizes
            /\ N[p - 1] \in Nat
            /\ Home(N, p) \in DOMAIN Y
            /\ p + O[p] <= Home(N, p) + Y[Home(N, p)]
            /\ N[p - 1] # 0 =>
                   /\ Y[Home(N, p)] = BlockSize
                   /\ Home(N, p) + 1 \notin DOMAIN O
        BY <4>1, <1>3 DEF ObjsOK
      <4>3. Home(N, p) # a
        <5>1. p \in In(Y, O, Home(N, p))
          BY <4>1, <1>3, HomeIn
        <5>2. QED
          BY <5>1, <1>3
      <4>4. Home(N, p) + 1 # a + 1
        <5>1. Home(N, p) \in Nat
          BY <4>2, <1>3, ZoneNat
        <5>2. QED
          BY <5>1, <4>3, <1>3
      <4>5. QED
        BY <4>1, <4>2, <4>4, <1>4
    <3>3. QED
      BY <3>1, <3>2
  <2>2. ASSUME NEW p \in DOMAIN P, NEW q \in DOMAIN P, p < q
        PROVE  p + P[p] < q
    <3>1. CASE p = a + 1 /\ q = a + 1
      BY <3>1, <2>2, <1>3
    <3>2. CASE p = a + 1 /\ q # a + 1
      <4>1. q \in DOMAIN O /\ P[p] = s
        BY <3>2, <1>4
      <4>2. ~(q + O[q] < a + 1)
        BY <3>2, <4>1, <2>2, <1>3, <1>6
      <4>3. QED
        BY <3>2, <4>1, <4>2, <1>7
    <3>3. CASE p # a + 1 /\ q = a + 1
      <4>1. p \in DOMAIN O /\ P[p] = O[p]
        BY <3>3, <1>4
      <4>2. ~(a + 1 + s < p)
        BY <3>3, <4>1, <2>2, <1>2, <1>3, <1>6
      <4>3. QED
        BY <3>3, <4>1, <4>2, <1>7
    <3>4. CASE p # a + 1 /\ q # a + 1
      BY <3>4, <2>2, <1>4 DEF ObjsOK
    <3>5. QED
      BY <3>1, <3>2, <3>3, <3>4
  <2>3. QED
    BY <2>1, <2>2 DEF ObjsOK
<1>9. In(Y, P, a) = {a + 1}
  <2>1. a < a + 1 /\ a + 1 < a + Y[a]
    BY <1>2, <1>3
  <2>2. QED
    BY <2>1, <1>3, <1>4 DEF In
<1>10. ASSUME NEW z \in DOMAIN Z
       PROVE  In(Y, P, z) = In(Z, O, z)
  <2>1. a + 1 \notin In(Y, P, z)
    <3>1. SUFFICES ASSUME a + 1 \in In(Y, P, z) PROVE FALSE
      OBVIOUS
    <3>2. Home(N, a + 1) = z
      BY <3>1, <1>3, <1>8, HomeIs
    <3>3. QED
      BY <3>2, <1>3, <1>5
  <2>2. In(Y, P, z) = In(Y, O, z)
    BY <2>1, <1>4 DEF In
  <2>3. QED
    BY <2>2, <1>3
<1>11. Book(Y, N, P, K, {})
  <2>1. DOMAIN N = DOMAIN Y \union {p - 1 : p \in DOMAIN P}
    <3>1. {p - 1 : p \in DOMAIN P} = {p - 1 : p \in DOMAIN O} \union {(a + 1) - 1}
      BY <1>4
    <3>2. {p - 1 : p \in DOMAIN P} = {p - 1 : p \in DOMAIN O} \union {a}
      BY <3>1, <1>5
    <3>3. QED
      BY <3>2, <1>1, <1>3
  <2>2. \A b \in K \union {} : In(Y, P, b) = {} /\ Y[b] = BlockSize
    BY <1>1, <1>3, <1>10 DEF Book
  <2>3. ASSUME NEW b \in DOMAIN Y \ K
        PROVE  /\ In(Y, P, b) # {}
               /\ b + 1 \notin DOMAIN P => N[b] = Cardinality(In(Y, P, b))
    <3>1. CASE b = a
      BY <3>1, <1>4, <1>9
    <3>2. CASE b # a
      <4>1. b \in DOMAIN Z \ K
        BY <3>2, <1>3
      <4>2. In(Z, O, b) # {} /\ (b + 1 \notin DOMAIN O => M[b] = Cardinality(In(Z, O, b)))
        BY <4>1 DEF Book
      <4>3. QED
        BY <4>1, <4>2, <1>3, <1>4, <1>10
    <3>3. QED
      BY <3>1, <3>2
  <2>4. QED
    BY <2>1, <2>2, <2>3, <1>1, <1>3 DEF Book
<1>12. \A q \in DOMAIN O : Apart(a + 1, s, q, O[q])
  <2>1. ASSUME NEW q \in DOMAIN O
        PROVE  a + 1 + s <= q \/ q + O[q] <= a + 1
    BY <1>2, <1>3, <1>6, <1>7
  <2>2. QED
    BY <2>1 DEF Apart
<1>13. ASSUME NEW z \in DOMAIN Z
       PROVE  /\ z \in DOMAIN Y /\ Y[z] = Z[z] /\ In(Y, P, z) = In(Z, O, z)
              /\ \A p \in In(Z, O, z) : P[p] = O[p]
              /\ z + 1 \in DOMAIN P => z + 1 \in DOMAIN O
  <2>1. \A p \in In(Z, O, z) : p \in DOMAIN O
    BY DEF In
  <2>2. z \in Nat /\ z # a
    BY <1>3, ZoneNat
  <2>3. z + 1 # a + 1
    BY <2>2, <1>3
  <2>4. QED
    BY <2>1, <2>3, <1>3, <1>4, <1>10
<1>14. QED
  BY <1>1, <1>3, <1>8, <1>11, <1>12, <1>13

------------------------------------------------------------------------------
(* An object is cut out of a block                                         *)

\* A new object fits behind those that were cut out of the block before, and the
\* head of the block counts it.
LEMMA CutObject ==
  ASSUME SizesAssumption, NEW Z, NEW M, NEW O, NEW K, NEW E,
         ZonesOK(Z), ObjsOK(Z, M, O), Book(Z, M, O, K, E),
         NEW b \in DOMAIN Z \ K, Z[b] = BlockSize, b + 1 \notin DOMAIN O,
         NEW o \in Nat \ {0}, NEW s \in Sizes, o + ObjLen(s) <= BlockSize,
         \A p \in In(Z, O, b) : p + O[p] <= b + o,
         NEW N, N = Put(Put(M, b + o, o), b, M[b] + 1),
         NEW P, P = Put(O, b + o + 1, s)
  PROVE  /\ ObjsOK(Z, N, P) /\ Book(Z, N, P, K, E \ {b})
         /\ b + o + 1 \notin DOMAIN O
         /\ \A q \in DOMAIN O : Apart(b + o + 1, s, q, O[q])
         /\ \A c \in K : N[c] = M[c]
         /\ \A q \in In(Z, P, b) : q + P[q] <= b + (o + ObjLen(s))
         /\ b + 1 \notin DOMAIN P
<1> DEFINE p == b + o + 1
<1>1. /\ DOMAIN M = DOMAIN Z \union {q - 1 : q \in DOMAIN O}
      /\ K \subseteq DOMAIN Z
  BY DEF Book
<1>2. /\ b \in Nat /\ BlockSize \in Nat /\ s \in Nat /\ s # 0 /\ ObjLen(s) = s + 2
  BY ZoneNat, SizeNat DEF ObjLen
<1>3. p \in Nat /\ p - 1 = b + o /\ b < b + o /\ p + s < b + BlockSize
      /\ p + s < b + (o + ObjLen(s)) /\ p # b + 1 /\ b < p /\ p < b + BlockSize
  BY <1>2
<1>4. ASSUME NEW q \in DOMAIN O
      PROVE  /\ q \in Nat /\ O[q] \in Nat /\ O[q] # 0
             /\ q + O[q] < p \/ p + s < q
  <2> DEFINE h == Home(M, q)
  <2>1. /\ h \in DOMAIN Z /\ h \in Nat
        /\ q \in In(Z, O, h)
        /\ q \in Nat /\ O[q] \in Nat /\ O[q] # 0
        /\ q + O[q] <= h + Z[h]
    BY HomeIn
  <2> HIDE DEF h
  <2>2. h < q /\ Z[h] \in Nat
    BY <2>1, ZoneNat DEF In
  <2>3. CASE h = b
    <3>1. q + O[q] <= b + o
      BY <2>1, <2>3
    <3>2. QED
      BY <2>1, <3>1, <1>2
  <2>4. CASE h < b
    <3>1. h + Z[h] <= b
      BY <2>1, <2>4 DEF ZonesOK
    <3>2. QED
      BY <2>1, <2>2, <3>1, <1>2
  <2>5. CASE b < h
    <3>1. b + BlockSize <= h
      BY <2>1, <2>5 DEF ZonesOK
    <3>2. QED
      BY <2>1, <2>2, <3>1, <1>2, <1>3
  <2>6. QED
    BY <2>1, <2>3, <2>4, <2>5, <1>2
<1>5. p \notin DOMAIN O
  BY <1>3, <1>4, <1>2
<1>6. b + o \notin DOMAIN Z
  <2>1. ASSUME NEW z \in DOMAIN Z, z = b + o
        PROVE  FALSE
    <3>1. b < z => b + BlockSize <= z
      BY DEF ZonesOK
    <3>2. QED
      BY <2>1, <3>1, <1>2, <1>3
  <2>2. QED
    BY <2>1
<1> HIDE DEF p
<1>7. /\ DOMAIN P = DOMAIN O \union {p} /\ P[p] = s
      /\ \A q \in DOMAIN O : P[q] = O[q]
  BY <1>5 DEF Put, p
<1>8. /\ b \in DOMAIN M /\ b # b + o
      /\ DOMAIN N = DOMAIN M \union {b + o} /\ N[b + o] = o /\ N[b] = M[b] + 1
      /\ \A x \in DOMAIN M : x # b + o /\ x # b => N[x] = M[x]
  <2>1. b \in DOMAIN M /\ b # b + o
    BY <1>1, <1>3, <1>2
  <2>2. QED
    BY <2>1 DEF Put
<1>9. \A z \in DOMAIN Z : z # b => N[z] = M[z]
  BY <1>1, <1>6, <1>8
<1>10. ASSUME NEW q \in DOMAIN O
       PROVE  N[q - 1] = M[q - 1]
  <2>1. q - 1 \in DOMAIN M
    BY <1>1
  <2>2. q - 1 # b + o /\ q - 1 # b
    BY <1>2, <1>3, <1>4, <1>5
  <2>3. QED
    BY <2>1, <2>2, <1>8
<1>11. N[p - 1] = o /\ Home(N, p) = b
  BY <1>2, <1>3, <1>8 DEF Home
<1>12. b + 1 \notin DOMAIN P
  BY <1>3, <1>7
<1>13. ObjsOK(Z, N, P)
  <2>1. ASSUME NEW q \in DOMAIN P
        PROVE  /\ q \in Nat
               /\ P[q] \in Sizes
               /\ N[q - 1] \in Nat
               /\ Home(N, q) \in DOMAIN Z
               /\ q + P[q] <= Home(N, q) + Z[Home(N, q)]
               /\ N[q - 1] # 0 =>
                      /\ Z[Home(N, q)] = BlockSize
                      /\ Home(N, q) + 1 \notin DOMAIN P
    <3>1. CASE q = p
      <4>1. p + s <= b + BlockSize
        BY <1>2, <1>3
      <4>2. QED
        BY <3>1, <4>1, <1>3, <1>7, <1>11, <1>12
    <3>2. CASE q # p
      <4>1. q \in DOMAIN O /\ P[q] = O[q] /\ N[q - 1] = M[q - 1]
        BY <3>2, <1>7, <1>10
      <4>2. Home(N, q) = Home(M, q)
        BY <4>1 DEF Home
      <4>3. /\ q \in Nat
            /\ O[q] \in Sizes
            /\ M[q - 1] \in Nat
            /\ Home(M, q) \in DOMAIN Z
            /\ q + O[q] <= Home(M, q) + Z[Home(M, q)]
            /\ M[q - 1] # 0 =>
                   /\ Z[Home(M, q)] = BlockSize
                   /\ Home(M, q) + 1 \notin DOMAIN O
        BY <4>1 DEF ObjsOK
      <4>4. Home(M, q) + 1 # p
        <5>1. CASE Home(M, q) = b
          BY <5>1, <1>3
        <5>2. CASE Home(M, q) # b
          <6>1. SUFFICES ASSUME Home(M, q) + 1 = p PROVE FALSE
            OBVIOUS
          <6>2. Home(M, q) = b + o
            BY <6>1, <4>3, <1>2, <1>3, ZoneNat
          <6>3. QED
            BY <6>2, <4>3, <1>6
        <5>3. QED
          BY <5>1, <5>2
      <4>5. QED
        BY <4>1, <4>2, <4>3, <4>4, <1>7
    <3>3. QED
      BY <3>1, <3>2
  <2>2. ASSUME NEW x \in DOMAIN P, NEW y \in DOMAIN P, x < y
        PROVE  x + P[x] < y
    <3>1. CASE x = p /\ y = p
      BY <3>1, <2>2, <1>3
    <3>2. CASE x = p /\ y # p
      <4>1. y \in DOMAIN O /\ P[x] = s
        BY <3>2, <1>7
      <4>2. ~(y + O[y] < p)
        BY <3>2, <4>1, <2>2, <1>3, <1>4
      <4>3. QED
        BY <3>2, <4>1, <4>2, <1>4
    <3>3. CASE x # p /\ y = p
      <4>1. x \in DOMAIN O /\ P[x] = O[x]
        BY <3>3, <1>7
      <4>2. ~(p + s < x)
        BY <3>3, <4>1, <2>2, <1>2, <1>3, <1>4
      <4>3. QED
        BY <3>3, <4>1, <4>2, <1>4
    <3>4. CASE x # p /\ y # p
      BY <3>4, <2>2, <1>7 DEF ObjsOK
    <3>5. QED
      BY <3>1, <3>2, <3>3, <3>4
  <2>3. QED
    BY <2>1, <2>2 DEF ObjsOK
<1>14. In(Z, P, b) = In(Z, O, b) \union {p} /\ p \notin In(Z, O, b)
  BY <1>3, <1>5, <1>7 DEF In
<1>15. ASSUME NEW z \in DOMAIN Z, z # b
       PROVE  In(Z, P, z) = In(Z, O, z)
  <2>1. p \notin In(Z, P, z)
    BY <1>11, <1>13, <1>15, HomeIs
  <2>2. QED
    BY <2>1, <1>7 DEF In
<1>16. Cardinality(In(Z, P, b)) = Cardinality(In(Z, O, b)) + 1
  <2>1. IsFiniteSet(In(Z, O, b))
    BY InFinite
  <2>2. QED
    BY <2>1, <1>14, FS_AddElement
<1>17. Book(Z, N, P, K, E \ {b})
  <2>1. DOMAIN N = DOMAIN Z \union {q - 1 : q \in DOMAIN P}
    <3>1. {q - 1 : q \in DOMAIN P} = {q - 1 : q \in DOMAIN O} \union {p - 1}
      BY <1>7
    <3>2. {q - 1 : q \in DOMAIN P} = {q - 1 : q \in DOMAIN O} \union {b + o}
      BY <3>1, <1>3
    <3>3. QED
      BY <3>2, <1>1, <1>8
  <2>2. ASSUME NEW c \in K \union (E \ {b})
        PROVE  In(Z, P, c) = {} /\ Z[c] = BlockSize
    <3>1. In(Z, O, c) = {} /\ Z[c] = BlockSize /\ c # b
      BY DEF Book
    <3>2. In(Z, P, c) = {}
      <4>1. c \in DOMAIN Z
        BY DEF Book
      <4>2. QED
        BY <3>1, <4>1, <1>15
    <3>3. QED
      BY <3>1, <3>2
  <2>3. ASSUME NEW z \in DOMAIN Z \ K
        PROVE  /\ z \notin E \ {b} => In(Z, P, z) # {}
               /\ z + 1 \notin DOMAIN P => N[z] = Cardinality(In(Z, P, z))
    <3>1. CASE z = b
      <4>1. M[b] = Cardinality(In(Z, O, b))
        BY DEF Book
      <4>2. QED
        BY <3>1, <4>1, <1>8, <1>14, <1>16
    <3>2. CASE z # b
      <4>1. /\ z \notin E => In(Z, O, z) # {}
            /\ z + 1 \notin DOMAIN O => M[z] = Cardinality(In(Z, O, z))
        BY DEF Book
      <4>2. QED
        BY <3>2, <4>1, <1>7, <1>9, <1>15
    <3>3. QED
      BY <3>1, <3>2
  <2>4. K \union (E \ {b}) \subseteq DOMAIN Z
    BY DEF Book
  <2>5. QED
    BY <2>1, <2>2, <2>3, <2>4 DEF Book
<1>18. \A q \in DOMAIN O : Apart(p, s, q, O[q])
  <2>1. ASSUME NEW q \in DOMAIN O
        PROVE  p + s <= q \/ q + O[q] <= p
    BY <1>2, <1>3, <1>4
  <2>2. QED
    BY <2>1 DEF Apart
<1>19. \A q \in In(Z, P, b) : q + P[q] <= b + (o + ObjLen(s))
  <2>1. ASSUME NEW q \in In(Z, P, b)
        PROVE  q + P[q] <= b + (o + ObjLen(s))
    <3>1. CASE q = p
      BY <3>1, <1>2, <1>3, <1>7
    <3>2. CASE q # p
      <4>1. q \in In(Z, O, b) /\ q \in DOMAIN O
        BY <3>2, <1>14 DEF In
      <4>2. q + O[q] <= b + o /\ P[q] = O[q]
        BY <4>1, <1>7
      <4>3. QED
        BY <4>1, <4>2, <1>2, <1>4
    <3>3. QED
      BY <3>1, <3>2
  <2>2. QED
    BY <2>1
<1>20. \A c \in K : N[c] = M[c]
  BY <1>1, <1>9
<1>21. QED
  BY <1>5, <1>12, <1>13, <1>17, <1>18, <1>19, <1>20 DEF p

------------------------------------------------------------------------------
(* An object is freed                                                      *)

\* What is left of the objects without p, and of their heads.
Without(O, p, P) ==
    /\ DOMAIN P = DOMAIN O \ {p}
    /\ \A q \in DOMAIN P : P[q] = O[q] /\ q - 1 # p - 1
    /\ {q - 1 : q \in DOMAIN P} = {q - 1 : q \in DOMAIN O} \ {p - 1}

\* The objects that stay when one is freed, and their heads.
LEMMA ObjectsLeft ==
  ASSUME SizesAssumption, NEW Z, NEW M, NEW O, ObjsOK(Z, M, O),
         NEW p \in DOMAIN O
  PROVE  Without(O, p, Drop(O, p))
<1> DEFINE P == Drop(O, p)
<1>1. DOMAIN P = DOMAIN O \ {p} /\ \A q \in DOMAIN P : P[q] = O[q]
  BY DEF Drop, Restrict
<1>2. \A q \in DOMAIN O : q \in Nat
  BY DEF ObjsOK
<1> HIDE DEF P
<1>3. \A q \in DOMAIN P : q - 1 # p - 1
  BY <1>1, <1>2
<1>4. Without(O, p, P)
  BY <1>1, <1>3 DEF Without
<1>5. QED
  BY <1>4 DEF P

\* A block that an object leads to is in use and counts its objects.
LEMMA BlockInUse ==
  ASSUME SizesAssumption, NEW Z, NEW M, NEW O, NEW K, ZonesOK(Z), ObjsOK(Z, M, O),
         Book(Z, M, O, K, {}), NEW p \in DOMAIN O, M[p - 1] # 0,
         NEW b, b = Home(M, p)
  PROVE  /\ b \in DOMAIN Z \ K /\ Z[b] = BlockSize /\ b \in Nat /\ b # NULL
         /\ b + 1 \notin DOMAIN O /\ b # p - 1
         /\ p \in In(Z, O, b) /\ p - 1 \notin DOMAIN Z
         /\ IsFiniteSet(In(Z, O, b))
         /\ M[b] = Cardinality(In(Z, O, b)) /\ M[b] \in Nat /\ M[b] # 0
         /\ M[b] = 1 => In(Z, O, b) = {p}
         /\ \A q \in DOMAIN O : q - 1 # b
<1>1. /\ b \in DOMAIN Z /\ Z[b] = BlockSize /\ b + 1 \notin DOMAIN O
      /\ p \in In(Z, O, b) /\ p \in Nat
  BY HomeIn DEF ObjsOK
<1>2. b \in Nat /\ b # NULL
  BY <1>1, ZoneNat
<1>3. b \notin K
  BY <1>1 DEF Book
<1>4. M[b] = Cardinality(In(Z, O, b))
  BY <1>1, <1>3 DEF Book
<1>5. IsFiniteSet(In(Z, O, b)) /\ M[b] \in Nat
  BY <1>1, <1>4, InFinite
<1>6. M[b] # 0
  BY <1>1, <1>4, <1>5, FS_EmptySet
<1>7. M[b] = 1 => In(Z, O, b) = {p}
  <2>1. ASSUME M[b] = 1
        PROVE  In(Z, O, b) = {p}
    <3>1. \E x : In(Z, O, b) = {x}
      BY <2>1, <1>4, <1>5, FS_Singleton
    <3>2. QED
      BY <3>1, <1>1
  <2>2. QED
    BY <2>1
<1>8. p - 1 \notin DOMAIN Z
  BY AtZone
<1>9. \A q \in DOMAIN O : q - 1 # b
  <2>1. \A q \in DOMAIN O : q \in Nat
    BY DEF ObjsOK
  <2>2. QED
    BY <2>1, <1>1, <1>2
<1>10. QED
  BY <1>1, <1>2, <1>3, <1>4, <1>5, <1>6, <1>7, <1>8, <1>9

\* What goes with a zone is all that leads to it.
LEMMA OthersStay ==
  ASSUME SizesAssumption, NEW Z, NEW M, NEW O, ZonesOK(Z), ObjsOK(Z, M, O),
         NEW b \in DOMAIN Z, NEW p \in DOMAIN O, In(Z, O, b) = {p},
         NEW q \in DOMAIN O, q # p
  PROVE  Home(M, q) \in DOMAIN Z \ {b}
<1>1. Home(M, q) \in DOMAIN Z /\ q \in In(Z, O, Home(M, q))
  BY HomeIn
<1>2. QED
  BY <1>1

\* The objects of a zone while one of another is freed.
LEMMA InStays ==
  ASSUME SizesAssumption, NEW Z, NEW M, NEW O, ZonesOK(Z), ObjsOK(Z, M, O),
         NEW p \in DOMAIN O, NEW z \in DOMAIN Z, z # Home(M, p),
         NEW Y, Y[z] = Z[z], NEW P, DOMAIN P = DOMAIN O \ {p}
  PROVE  In(Y, P, z) = In(Z, O, z)
<1>1. p \notin In(Z, O, z)
  BY HomeIs
<1>2. QED
  BY <1>1 DEF In

\* The object p was the only one of the zone at b, and both are gone with their heads.
Gone(Z, M, O, p, b, Y, N, P) ==
    /\ b = Home(M, p) /\ In(Z, O, b) = {p}
    /\ b = p - 1 \/ p - 1 \notin DOMAIN Z
    /\ Y = Drop(Z, b) /\ P = Drop(O, p)
    /\ DOMAIN N = DOMAIN M \ {p - 1, b}
    /\ \A x \in DOMAIN N : N[x] = M[x]

\* All is right without the zone at b; the other zones and the kept blocks are as
\* they were.
RightWithout(Z, M, O, K, b, Y, N, P) ==
    /\ ZonesOK(Y) /\ ObjsOK(Y, N, P) /\ Book(Y, N, P, K, {})
    /\ \A c \in K : N[c] = M[c]
    /\ DOMAIN Y = DOMAIN Z \ {b}
    /\ \A z \in DOMAIN Y : Y[z] = Z[z] /\ In(Y, P, z) = In(Z, O, z)

\* A zone goes back with the one object that was in it; its head, and that of the
\* object, are no heads any more.
LEMMA ZoneGoes ==
  ASSUME SizesAssumption, NEW Z, NEW M, NEW O, NEW K, ZonesOK(Z), ObjsOK(Z, M, O),
         Book(Z, M, O, K, {}), NEW p \in DOMAIN O, NEW b,
         NEW Y, NEW N, NEW P, Gone(Z, M, O, p, b, Y, N, P)
  PROVE  RightWithout(Z, M, O, K, b, Y, N, P)
<1> USE DEF Gone
<1>1. /\ DOMAIN P = DOMAIN O \ {p}
      /\ \A q \in DOMAIN P : P[q] = O[q] /\ q - 1 # p - 1
      /\ {q - 1 : q \in DOMAIN P} = {q - 1 : q \in DOMAIN O} \ {p - 1}
  <2>1. Without(O, p, P)
    BY ObjectsLeft
  <2>2. QED
    BY <2>1 DEF Without
<1>2. DOMAIN Y = DOMAIN Z \ {b} /\ \A z \in DOMAIN Y : Y[z] = Z[z]
  BY DEF Drop, Restrict
<1>3. b \in DOMAIN Z /\ b \notin K /\ K \subseteq DOMAIN Z
  BY HomeIn DEF Book
<1>4. \A q \in DOMAIN O : q # p => q - 1 # b
  <2>1. ASSUME NEW q \in DOMAIN O, q # p, q - 1 = b
        PROVE  FALSE
    <3>1. q - 1 \in DOMAIN Z /\ In(Z, O, q - 1) = {p}
      BY <2>1, <1>3
    <3>2. In(Z, O, q - 1) = {q}
      BY <3>1, AtZone
    <3>3. QED
      BY <2>1, <3>1, <3>2
  <2>2. QED
    BY <2>1
<1>5. DOMAIN M = DOMAIN Z \union {q - 1 : q \in DOMAIN O}
  BY DEF Book
<1>6. DOMAIN N = DOMAIN Y \union {q - 1 : q \in DOMAIN P}
  BY <1>1, <1>2, <1>3, <1>4, <1>5
<1>7. \A q \in DOMAIN P : N[q - 1] = M[q - 1]
  BY <1>6
<1>8. \A q \in DOMAIN P : Home(M, q) \in DOMAIN Y /\ Y[Home(M, q)] = Z[Home(M, q)]
  BY <1>1, <1>2, <1>3, OthersStay
<1>9. ObjsOK(Y, N, P)
  <2>1. Among(Z, M, O, Y, N, P)
    BY <1>1, <1>7, <1>8 DEF Among
  <2>2. QED
    BY <2>1, FewerObjects
<1>10. ZonesOK(Y)
  BY <1>2, FewerZones
<1>11. \A z \in DOMAIN Y : In(Y, P, z) = In(Z, O, z)
  <2>1. ASSUME NEW z \in DOMAIN Y
        PROVE  In(Y, P, z) = In(Z, O, z)
    <3>1. z \in DOMAIN Z /\ z # Home(M, p) /\ Y[z] = Z[z]
      BY <1>2
    <3>2. QED
      BY <3>1, <1>1, InStays
  <2>2. QED
    BY <2>1
<1>12. \A z \in DOMAIN Y : N[z] = M[z]
  BY <1>6
<1>13. Book(Y, N, P, K, {})
  <2>1. \A c \in K \union {} : In(Y, P, c) = {} /\ Y[c] = BlockSize
    BY <1>2, <1>3, <1>11 DEF Book
  <2>2. ASSUME NEW z \in DOMAIN Y \ K
        PROVE  /\ In(Y, P, z) # {}
               /\ z + 1 \notin DOMAIN P => N[z] = Cardinality(In(Y, P, z))
    <3>1. z \in DOMAIN Z \ K
      BY <1>2
    <3>2. In(Z, O, z) # {} /\ (z + 1 \notin DOMAIN O => M[z] = Cardinality(In(Z, O, z)))
      BY <3>1 DEF Book
    <3>3. z + 1 = p => z = b
      <4>1. ASSUME z + 1 = p
            PROVE  z = b
        <5>1. p - 1 = z
          BY <3>1, <4>1, ZoneNat
        <5>2. QED
          BY <5>1, <3>1, AtZone
      <4>2. QED
        BY <4>1
    <3>4. QED
      BY <3>2, <3>3, <1>1, <1>2, <1>11, <1>12
  <2>3. QED
    BY <2>1, <2>2, <1>2, <1>3, <1>6 DEF Book
<1>14. \A c \in K : N[c] = M[c]
  BY <1>2, <1>3, <1>12
<1>15. QED
  BY <1>2, <1>9, <1>10, <1>11, <1>13, <1>14 DEF RightWithout

\* The object p of block b is gone: what the head of b gets, and which blocks are
\* kept then.
Counted(M, O, K, p, b, v, L, N, P) ==
    /\ b = Home(M, p) /\ M[p - 1] # 0
    /\ P = Drop(O, p) /\ N = Drop([M EXCEPT ![b] = v], p - 1)
    /\ \/ M[b] # 1 /\ v = M[b] - 1 /\ L = K
       \/ M[b] = 1 /\ L = K \union {b}

\* All is right with the blocks L kept; the blocks K are as they were.
RightWith(Z, M, O, K, b, v, L, N, P) ==
    /\ ObjsOK(Z, N, P) /\ Book(Z, N, P, L, {})
    /\ N[b] = v /\ \A c \in K : N[c] = M[c]
    /\ \A z \in DOMAIN Z : In(Z, P, z) \subseteq In(Z, O, z)

\* A block loses an object: its head has v now, the number of those that are left,
\* or, when there are none, the link of the kept blocks, which it is one of.
LEMMA BlockStays ==
  ASSUME SizesAssumption, NEW Z, NEW M, NEW O, NEW K, ZonesOK(Z), ObjsOK(Z, M, O),
         Book(Z, M, O, K, {}), NEW p \in DOMAIN O, NEW b, NEW v, NEW L, NEW N, NEW P,
         Counted(M, O, K, p, b, v, L, N, P)
  PROVE  RightWith(Z, M, O, K, b, v, L, N, P)
<1> USE DEF Counted
<1>1. /\ b \in DOMAIN Z \ K /\ Z[b] = BlockSize /\ b \in Nat /\ b # NULL
      /\ b + 1 \notin DOMAIN O /\ b # p - 1
      /\ p \in In(Z, O, b) /\ p - 1 \notin DOMAIN Z
      /\ IsFiniteSet(In(Z, O, b))
      /\ M[b] = Cardinality(In(Z, O, b)) /\ M[b] \in Nat /\ M[b] # 0
      /\ M[b] = 1 => In(Z, O, b) = {p}
      /\ \A q \in DOMAIN O : q - 1 # b
  BY BlockInUse
<1>2. /\ DOMAIN P = DOMAIN O \ {p}
      /\ \A q \in DOMAIN P : P[q] = O[q] /\ q - 1 # p - 1
      /\ {q - 1 : q \in DOMAIN P} = {q - 1 : q \in DOMAIN O} \ {p - 1}
  <2>1. Without(O, p, P)
    BY ObjectsLeft
  <2>2. QED
    BY <2>1 DEF Without
<1>3. DOMAIN M = DOMAIN Z \union {q - 1 : q \in DOMAIN O} /\ K \subseteq DOMAIN Z
  BY DEF Book
<1>4. /\ DOMAIN N = DOMAIN M \ {p - 1} /\ N[b] = v
      /\ \A x \in DOMAIN N : x # b => N[x] = M[x]
  BY <1>1, <1>3 DEF Drop, Restrict
<1>5. DOMAIN N = DOMAIN Z \union {q - 1 : q \in DOMAIN P}
  BY <1>1, <1>2, <1>3, <1>4
<1>6. \A q \in DOMAIN P : N[q - 1] = M[q - 1]
  BY <1>1, <1>2, <1>4, <1>5
<1>7. \A z \in DOMAIN Z : z # b => N[z] = M[z]
  BY <1>4, <1>5
<1>8. ObjsOK(Z, N, P)
  <2>1. Among(Z, M, O, Z, N, P)
    BY <1>2, <1>6 DEF ObjsOK, Among
  <2>2. QED
    BY <2>1, FewerObjects
<1>9. In(Z, P, b) = In(Z, O, b) \ {p}
  BY <1>2 DEF In
<1>10. \A z \in DOMAIN Z : z # b => In(Z, P, z) = In(Z, O, z)
  <2>1. ASSUME NEW z \in DOMAIN Z, z # b
        PROVE  In(Z, P, z) = In(Z, O, z)
    <3>1. p \notin In(Z, O, z)
      BY <2>1, HomeIs
    <3>2. QED
      BY <3>1, <1>2 DEF In
  <2>2. QED
    BY <2>1
<1>11. ASSUME NEW z \in DOMAIN Z \ K, z # b
       PROVE  /\ In(Z, P, z) # {}
              /\ z + 1 \notin DOMAIN P => N[z] = Cardinality(In(Z, P, z))
  <2>1. In(Z, O, z) # {} /\ (z + 1 \notin DOMAIN O => M[z] = Cardinality(In(Z, O, z)))
    BY DEF Book
  <2>2. z + 1 # p
    <3>1. z \in Nat
      BY ZoneNat
    <3>2. z + 1 = p => p - 1 = z
      BY <3>1
    <3>3. QED
      BY <3>2, <1>1
  <2>3. QED
    BY <2>1, <2>2, <1>2, <1>7, <1>10, <1>11
<1>12. \A c \in K : In(Z, P, c) = {} /\ Z[c] = BlockSize
  <2>1. \A c \in K : In(Z, O, c) = {} /\ Z[c] = BlockSize /\ c # b /\ c \in DOMAIN Z
    BY <1>1, <1>3 DEF Book
  <2>2. QED
    BY <2>1, <1>10
<1>13. Book(Z, N, P, L, {})
  <2>1. CASE M[b] # 1 /\ v = M[b] - 1 /\ L = K
    <3>1. Cardinality(In(Z, P, b)) = M[b] - 1
      BY <1>1, <1>9, FS_RemoveElement
    <3>2. In(Z, P, b) # {}
      <4>1. M[b] - 1 # 0
        BY <2>1, <1>1
      <4>2. QED
        BY <4>1, <3>1, FS_EmptySet
    <3>3. QED
      BY <2>1, <3>1, <3>2, <1>3, <1>4, <1>5, <1>11, <1>12 DEF Book
  <2>2. CASE M[b] = 1 /\ L = K \union {b}
    <3>1. In(Z, P, b) = {}
      BY <2>2, <1>1, <1>9
    <3>2. QED
      BY <2>2, <3>1, <1>1, <1>3, <1>5, <1>11, <1>12 DEF Book
  <2>3. QED
    BY <2>1, <2>2
<1>14. \A c \in K : N[c] = M[c]
  BY <1>1, <1>3, <1>7
<1>15. \A z \in DOMAIN Z : In(Z, P, z) \subseteq In(Z, O, z)
  BY <1>2 DEF In
<1>16. QED
  BY <1>4, <1>8, <1>13, <1>14, <1>15 DEF RightWith

------------------------------------------------------------------------------
(* The list of the blocks that are kept                                    *)

\* The list is as it was while the heads on it are.
LEMMA ChainStays ==
  ASSUME NEW M, NEW N, NEW c, NEW n, NEW f, Chain(M, c, n, f),
         \A k \in Elements(c) : N[k] = M[k]
  PROVE  Chain(N, c, n, f)
<1>1. DOMAIN c = 1..n
  BY DEF Chain
<1>2. \A k \in 1..n : N[c[k]] = M[c[k]]
  BY <1>1 DEF Elements
<1>3. QED
  BY <1>2 DEF Chain

\* The first block is taken off the list.
LEMMA ChainTake ==
  ASSUME SizesAssumption, NEW M, NEW N, NEW c, NEW n, NEW f, Chain(M, c, n, f), f # NULL,
         \A k \in Elements(c) \ {f} : N[k] = M[k]
  PROVE  /\ f \in Elements(c)
         /\ \E d : Chain(N, d, n - 1, M[f]) /\ Elements(d) = Elements(c) \ {f}
<1>1. /\ n \in 0..MaxFree /\ MaxFree \in Nat /\ n # 0 /\ f = c[1]
      /\ c \in [1..n -> Nat \ {0}] /\ DOMAIN c = 1..n
  BY SizeNat DEF Chain
<1>2. n \in Nat /\ n - 1 \in 0..MaxFree /\ 1 \in 1..n
  BY <1>1
<1>3. f \in Elements(c)
  BY <1>1, <1>2 DEF Elements
<1> DEFINE d == [k \in 1..(n - 1) |-> c[k + 1]]
<1>4. \A k \in 1..(n - 1) : k \in Nat /\ k + 1 \in 1..n /\ k + 1 # 1 /\ d[k] = c[k + 1]
  BY <1>2
<1>5. \A i, j \in 1..n : c[i] = c[j] => i = j
  BY DEF Chain
<1> HIDE DEF d
<1>6. d \in [1..(n - 1) -> Nat \ {0}] /\ DOMAIN d = 1..(n - 1)
  BY <1>1, <1>4 DEF d
<1>7. ASSUME NEW i \in 1..(n - 1), NEW j \in 1..(n - 1), d[i] = d[j]
      PROVE  i = j
  <2>1. c[i + 1] = c[j + 1]
    BY <1>4, <1>7
  <2>2. i + 1 = j + 1
    BY <2>1, <1>4, <1>5
  <2>3. QED
    BY <2>2, <1>4
<1>8. \A k \in 1..(n - 1) : d[k] \in Elements(c) \ {f}
  BY <1>1, <1>2, <1>4, <1>5 DEF Elements
<1>9. Elements(d) = Elements(c) \ {f}
  <2>1. ASSUME NEW x \in Elements(c), x # f
        PROVE  x \in Elements(d)
    <3>1. PICK i \in 1..n : x = c[i]
      BY <1>1 DEF Elements
    <3>2. i - 1 \in 1..(n - 1) /\ (i - 1) + 1 = i
      BY <2>1, <3>1, <1>1, <1>2
    <3>3. d[i - 1] = x
      BY <3>1, <3>2, <1>4
    <3>4. QED
      BY <3>2, <3>3, <1>6 DEF Elements
  <2>2. \A x \in Elements(d) : x \in Elements(c) \ {f}
    BY <1>6, <1>8 DEF Elements
  <2>3. QED
    BY <2>1, <2>2
<1>10. ASSUME NEW k \in 1..(n - 1)
       PROVE  N[d[k]] = IF k = n - 1 THEN NULL ELSE d[k + 1]
  <2>1. N[d[k]] = M[c[k + 1]]
    BY <1>4, <1>8
  <2>2. M[c[k + 1]] = IF k + 1 = n THEN NULL ELSE c[(k + 1) + 1]
    BY <1>4 DEF Chain
  <2>3. k + 1 = n <=> k = n - 1
    BY <1>2, <1>4
  <2>4. k # n - 1 => k + 1 \in 1..(n - 1)
    BY <1>2, <1>4
  <2>5. QED
    BY <2>1, <2>2, <2>3, <2>4, <1>4
<1>11. M[f] = IF n - 1 = 0 THEN NULL ELSE d[1]
  <2>1. M[f] = IF 1 = n THEN NULL ELSE c[1 + 1]
    BY <1>1, <1>2 DEF Chain
  <2>2. n - 1 = 0 <=> 1 = n
    BY <1>2
  <2>3. n - 1 # 0 => 1 \in 1..(n - 1)
    BY <1>1, <1>2
  <2>4. QED
    BY <2>1, <2>2, <2>3, <1>4
<1>12. Chain(N, d, n - 1, M[f])
  BY <1>2, <1>6, <1>7, <1>10, <1>11 DEF Chain
<1>13. QED
  BY <1>3, <1>9, <1>12

\* A block is put before the others.
LEMMA ChainPut ==
  ASSUME SizesAssumption, NEW M, NEW N, NEW c, NEW n, NEW f, Chain(M, c, n, f), n # MaxFree,
         NEW b \in Nat \ {0}, b \notin Elements(c), N[b] = f,
         \A k \in Elements(c) : N[k] = M[k]
  PROVE  \E d : Chain(N, d, n + 1, b) /\ Elements(d) = Elements(c) \union {b}
<1>1. /\ n \in 0..MaxFree /\ MaxFree \in Nat
      /\ f = IF n = 0 THEN NULL ELSE c[1]
      /\ c \in [1..n -> Nat \ {0}] /\ DOMAIN c = 1..n
  BY SizeNat DEF Chain
<1>2. n \in Nat /\ n + 1 \in 0..MaxFree /\ 1 \in 1..(n + 1)
  BY <1>1
<1> DEFINE d == [k \in 1..(n + 1) |-> IF k = 1 THEN b ELSE c[k - 1]]
<1>3. d[1] = b
  BY <1>2
<1>4. \A k \in 1..(n + 1) : k \in Nat /\ (k # 1 => k - 1 \in 1..n /\ d[k] = c[k - 1])
  BY <1>2
<1>5. \A i, j \in 1..n : c[i] = c[j] => i = j
  BY DEF Chain
<1>6. \A k \in 1..n : c[k] \in Elements(c)
  BY <1>1 DEF Elements
<1> HIDE DEF d
<1>7. d \in [1..(n + 1) -> Nat \ {0}] /\ DOMAIN d = 1..(n + 1)
  BY <1>1, <1>4 DEF d
<1>8. ASSUME NEW i \in 1..(n + 1), NEW j \in 1..(n + 1), d[i] = d[j]
      PROVE  i = j
  <2>1. CASE i = 1 \/ j = 1
    BY <2>1, <1>3, <1>4, <1>6, <1>8
  <2>2. CASE i # 1 /\ j # 1
    <3>1. c[i - 1] = c[j - 1]
      BY <2>2, <1>4, <1>8
    <3>2. i - 1 = j - 1
      BY <2>2, <3>1, <1>4, <1>5
    <3>3. QED
      BY <3>2, <1>4
  <2>3. QED
    BY <2>1, <2>2
<1>9. Elements(d) = Elements(c) \union {b}
  <2>1. ASSUME NEW x \in Elements(c)
        PROVE  x \in Elements(d)
    <3>1. PICK i \in 1..n : x = c[i]
      BY <1>1 DEF Elements
    <3>2. i + 1 \in 1..(n + 1) /\ (i + 1) - 1 = i /\ i + 1 # 1
      BY <1>2
    <3>3. d[i + 1] = x
      BY <3>1, <3>2, <1>4
    <3>4. QED
      BY <3>2, <3>3, <1>7 DEF Elements
  <2>2. b \in Elements(d)
    BY <1>2, <1>3, <1>7 DEF Elements
  <2>3. \A k \in 1..(n + 1) : d[k] \in Elements(c) \union {b}
    BY <1>3, <1>4, <1>6
  <2>4. \A x \in Elements(d) : x \in Elements(c) \union {b}
    BY <2>3, <1>7 DEF Elements
  <2>5. QED
    BY <2>1, <2>2, <2>4
<1>10. ASSUME NEW k \in 1..(n + 1)
       PROVE  N[d[k]] = IF k = n + 1 THEN NULL ELSE d[k + 1]
  <2>1. CASE k = 1
    <3>1. N[d[k]] = f
      BY <2>1, <1>3
    <3>2. k = n + 1 <=> n = 0
      BY <2>1, <1>2
    <3>3. n # 0 => d[k + 1] = c[1]
      <4>1. ASSUME n # 0
            PROVE  d[k + 1] = c[1]
        <5>1. k + 1 \in 1..(n + 1) /\ k + 1 # 1 /\ (k + 1) - 1 = 1
          BY <2>1, <4>1, <1>2
        <5>2. QED
          BY <5>1, <1>4
      <4>2. QED
        BY <4>1
    <3>4. QED
      BY <3>1, <3>2, <3>3, <1>1
  <2>2. CASE k # 1
    <3>1. k - 1 \in 1..n /\ d[k] = c[k - 1]
      BY <2>2, <1>4
    <3>2. N[d[k]] = IF k - 1 = n THEN NULL ELSE c[(k - 1) + 1]
      BY <3>1, <1>6 DEF Chain
    <3>3. (k - 1 = n <=> k = n + 1) /\ (k - 1) + 1 = k
      BY <1>2, <1>4
    <3>4. k # n + 1 => d[k + 1] = c[k]
      <4>1. ASSUME k # n + 1
            PROVE  d[k + 1] = c[k]
        <5>1. k + 1 \in 1..(n + 1) /\ k + 1 # 1 /\ (k + 1) - 1 = k
          BY <4>1, <1>2, <1>4
        <5>2. QED
          BY <5>1, <1>4
      <4>2. QED
        BY <4>1
    <3>5. QED
      BY <3>2, <3>3, <3>4
  <2>3. QED
    BY <2>1, <2>2
<1>11. b = IF n + 1 = 0 THEN NULL ELSE d[1]
  BY <1>2, <1>3
<1>12. Chain(N, d, n + 1, b)
  BY <1>2, <1>7, <1>8, <1>10, <1>11 DEF Chain
<1>13. QED
  BY <1>9, <1>12

\* As many blocks are on the list as are counted.
LEMMA ChainCounts ==
  ASSUME SizesAssumption, NEW M, NEW c, NEW n, NEW f, Chain(M, c, n, f)
  PROVE  Cardinality(Elements(c)) = n /\ n \in 0..MaxFree
<1>1. n \in Nat /\ n \in 0..MaxFree /\ c \in [1..n -> Nat \ {0}] /\ DOMAIN c = 1..n
      /\ \A i, j \in 1..n : c[i] = c[j] => i = j
  BY SizeNat DEF Chain
<1>2. c \in Bijection(1..n, Elements(c))
  <2>1. c \in [1..n -> Elements(c)]
    BY <1>1 DEF Elements
  <2>2. \A t \in Elements(c) : \E s \in 1..n : c[s] = t
    BY <1>1 DEF Elements
  <2>3. QED
    BY <2>1, <2>2, <1>1 DEF Bijection, Injection, Surjection, IsInjective
<1>3. ExistsBijection(1..n, Elements(c))
  BY <1>2 DEF ExistsBijection
<1>4. QED
  BY <1>1, <1>3, FS_CountingElements

\* The property's list is the invariant's: both follow the links from the first.
LEMMA KeptIs ==
  ASSUME NEW c, Chain(mem, c, freeCount, freeBlocks), freeCount \in Nat
  PROVE  Kept = Elements(c)
<1> DEFINE n == freeCount
<1> DEFINE Follows(g) == g = [k \in 1..n |-> IF k = 1 THEN freeBlocks ELSE mem[g[k - 1]]]
<1> DEFINE g == CHOOSE h : Follows(h)
<1>1. c \in [1..n -> Nat \ {0}] /\ DOMAIN c = 1..n
  BY DEF Chain
<1>2. ASSUME NEW k \in 1..n
      PROVE  c[k] = IF k = 1 THEN freeBlocks ELSE mem[c[k - 1]]
  <2>1. CASE k = 1
    BY <2>1 DEF Chain
  <2>2. CASE k # 1
    <3>1. k - 1 \in 1..n /\ k - 1 # n /\ (k - 1) + 1 = k
      BY <2>2
    <3>2. mem[c[k - 1]] = c[(k - 1) + 1]
      BY <3>1 DEF Chain
    <3>3. QED
      BY <2>2, <3>1, <3>2
  <2>3. QED
    BY <2>1, <2>2
<1>3. Follows(c)
  BY <1>1, <1>2
<1>4. Follows(g)
  BY <1>3
<1>5. Kept = {g[k] : k \in 1..n}
  BY DEF Kept
<1> HIDE DEF g
<1>6. \A k \in 1..n : g[k] = IF k = 1 THEN freeBlocks ELSE mem[g[k - 1]]
  BY <1>4
<1> DEFINE S == {k \in Nat : k \in 1..n => g[k] = c[k]}
<1>7. 0 \in S
  OBVIOUS
<1>8. ASSUME NEW k \in Nat, k \in S
      PROVE  k + 1 \in S
  <2>1. ASSUME k + 1 \in 1..n
        PROVE  g[k + 1] = c[k + 1]
    <3>1. g[k + 1] = IF k + 1 = 1 THEN freeBlocks ELSE mem[g[(k + 1) - 1]]
      BY <2>1, <1>6
    <3>2. c[k + 1] = IF k + 1 = 1 THEN freeBlocks ELSE mem[c[(k + 1) - 1]]
      BY <2>1, <1>2
    <3>3. (k + 1) - 1 = k /\ (k + 1 # 1 => k \in 1..n)
      BY <2>1
    <3>4. QED
      BY <3>1, <3>2, <3>3, <1>8
  <2>2. QED
    BY <2>1
<1>9. \A k \in Nat : k \in S
  <2> HIDE DEF S
  <2>1. QED
    BY <1>7, <1>8, SetInduction
<1>10. \A k \in 1..n : g[k] = c[k]
  BY <1>9
<1>11. QED
  BY <1>1, <1>5, <1>10 DEF Elements

\* A block that was kept may be cut again: it is off the list and its head is 0.
LEMMA ReuseBlock ==
  ASSUME SizesAssumption, NEW Z, NEW M, NEW O, NEW K, ZonesOK(Z), ObjsOK(Z, M, O),
         Book(Z, M, O, K, {}), NEW f \in K, NEW N, N = Put(M, f, 0)
  PROVE  /\ ObjsOK(Z, N, O) /\ Book(Z, N, O, K \ {f}, {f})
         /\ f \in DOMAIN Z \ (K \ {f}) /\ Z[f] = BlockSize
         /\ f + 1 \notin DOMAIN O /\ In(Z, O, f) = {}
         /\ \A k \in K \ {f} : N[k] = M[k]
<1>1. /\ DOMAIN M = DOMAIN Z \union {q - 1 : q \in DOMAIN O}
      /\ f \in DOMAIN Z /\ In(Z, O, f) = {} /\ Z[f] = BlockSize /\ K \subseteq DOMAIN Z
  BY DEF Book
<1>2. \A q \in DOMAIN O : q - 1 # f
  <2>1. ASSUME NEW q \in DOMAIN O, q - 1 = f
        PROVE  FALSE
    <3>1. In(Z, O, f) = {q}
      BY <2>1, <1>1, AtZone
    <3>2. QED
      BY <3>1, <1>1
  <2>2. QED
    BY <2>1
<1>3. f + 1 \notin DOMAIN O
  <2>1. f \in Nat /\ (f + 1) - 1 = f
    BY <1>1, ZoneNat
  <2>2. QED
    BY <2>1, <1>2
<1>4. DOMAIN N = DOMAIN M /\ N[f] = 0 /\ \A x \in DOMAIN M : x # f => N[x] = M[x]
  BY <1>1 DEF Put
<1>5. \A q \in DOMAIN O : N[q - 1] = M[q - 1]
  BY <1>1, <1>2, <1>4
<1>6. \A z \in DOMAIN Z : z # f => N[z] = M[z]
  BY <1>1, <1>4
<1>7. ObjsOK(Z, N, O)
  <2>1. Among(Z, M, O, Z, N, O)
    BY <1>5 DEF ObjsOK, Among
  <2>2. QED
    BY <2>1, FewerObjects
<1>8. Book(Z, N, O, K \ {f}, {f})
  <2>1. \A k \in (K \ {f}) \union {f} : In(Z, O, k) = {} /\ Z[k] = BlockSize
    BY <1>1 DEF Book
  <2>2. ASSUME NEW z \in DOMAIN Z \ (K \ {f})
        PROVE  /\ z \notin {f} => In(Z, O, z) # {}
               /\ z + 1 \notin DOMAIN O => N[z] = Cardinality(In(Z, O, z))
    <3>1. CASE z = f
      BY <3>1, <1>1, <1>4, FS_EmptySet
    <3>2. CASE z # f
      BY <3>2, <1>6 DEF Book
    <3>3. QED
      BY <3>1, <3>2
  <2>3. (K \ {f}) \union {f} \subseteq DOMAIN Z
    BY <1>1
  <2>4. QED
    BY <2>1, <2>2, <2>3, <1>1, <1>4 DEF Book
<1>9. QED
  BY <1>1, <1>3, <1>4, <1>6, <1>7, <1>8

------------------------------------------------------------------------------
(* The block that is being cut                                             *)

\* It may be cut on while it is the zone it was, with no object that it had not.
LEMMA CuttingStays ==
  ASSUME NEW Z, NEW O, NEW b, NEW t, NEW o, Cutting(Z, O, b, t, o),
         NEW Y, NEW P,
         b # NULL => /\ b \in DOMAIN Y /\ Y[b] = Z[b]
                     /\ b + 1 \in DOMAIN P => b + 1 \in DOMAIN O
                     /\ In(Y, P, b) \subseteq In(Z, O, b)
                     /\ \A p \in In(Y, P, b) : P[p] = O[p]
  PROVE  Cutting(Y, P, b, t, o)
<1>1. t \in {0, BlockSize} /\ o \in 0..BlockSize
  BY DEF Cutting
<1>2. b # NULL => b \in DOMAIN Y /\ b + 1 \notin DOMAIN P
  BY DEF Cutting
<1>3. ASSUME t # 0
      PROVE  /\ b # NULL /\ o # 0 /\ Y[b] = BlockSize
             /\ \A p \in In(Y, P, b) : p + P[p] <= b + o
  BY <1>3 DEF Cutting
<1>4. QED
  BY <1>1, <1>2, <1>3 DEF Cutting

\* There is none.
LEMMA CuttingNone ==
  ASSUME SizesAssumption, NEW Z, NEW O
  PROVE  Cutting(Z, O, NULL, 0, 0)
BY SizeNat DEF Cutting, NULL

\* An object of size s was cut at o: the rest of the block follows it, if any.
LEMMA CuttingCut ==
  ASSUME SizesAssumption, NEW Z, NEW O, NEW b \in DOMAIN Z, b # NULL, Z[b] = BlockSize,
         b + 1 \notin DOMAIN O, NEW o \in Nat, NEW s \in Sizes, o + ObjLen(s) <= BlockSize,
         \A p \in In(Z, O, b) : p + O[p] <= b + (o + ObjLen(s)),
         NEW t, NEW u,
         IF o + ObjLen(s) = BlockSize THEN t = 0 /\ u = 0
                                      ELSE t = BlockSize /\ u = o + ObjLen(s)
  PROVE  Cutting(Z, O, b, t, u)
<1>1. s \in Nat /\ BlockSize \in Nat /\ ObjLen(s) = s + 2
  BY SizeNat DEF ObjLen
<1>2. o + ObjLen(s) \in 0..BlockSize /\ o + ObjLen(s) # 0
  BY <1>1
<1>3. CASE o + ObjLen(s) = BlockSize
  BY <1>1, <1>3 DEF Cutting
<1>4. CASE o + ObjLen(s) # BlockSize
  BY <1>1, <1>2, <1>4 DEF Cutting
<1>5. QED
  BY <1>3, <1>4

------------------------------------------------------------------------------
(* What the client sees                                                    *)

\* A pointer to an area that touches no other: the abstract allocator's step.
LEMMA ClientAlloc ==
  ASSUME SizesAssumption, NEW a \in Addresses, NEW k \in 1..BlockSize, NEW s \in Sizes,
         a + k \notin DOMAIN objs,
         \A q \in DOMAIN objs : Apart(a + k, s, q, objs[q]),
         objs' = Put(objs, a + k, s)
  PROVE  Client!ANext
<1>1. s > 0
  BY SizeNat
<1>2. Client!AAlloc(a + k, s)
  BY <1>1 DEF Client!AAlloc, Client!Apart, Apart, Put
<1>3. QED
  BY <1>2 DEF Client!ANext

\* Every pointer that the client holds is one that the abstract allocator may give.
LEMMA ClientFree ==
  ASSUME SizesAssumption, NEW Z, NEW M, ZonesOK(Z), ObjsOK(Z, M, objs),
         NEW p \in DOMAIN objs, objs' = Drop(objs, p)
  PROVE  Client!ANext
<1> DEFINE h == Home(M, p)
<1>1. /\ h \in DOMAIN Z /\ h \in Nat /\ p \in Nat /\ h < p /\ p < h + Z[h]
  BY HomeIn DEF In
<1>2. M[p - 1] \in Nat /\ (M[p - 1] # 0 => Z[h] = BlockSize)
  BY DEF ObjsOK
<1>3. h = p - 1 - M[p - 1]
  BY DEF Home
<1> HIDE DEF h
<1>4. h \in Addresses
  BY <1>1 DEF ZonesOK
<1>5. p - h \in 1..BlockSize /\ p = h + (p - h)
  <2>1. BlockSize \in Nat /\ 1 <= BlockSize
    BY SizeNat
  <2>2. CASE M[p - 1] = 0
    BY <2>1, <2>2, <1>1, <1>3
  <2>3. CASE M[p - 1] # 0
    BY <2>1, <2>3, <1>1, <1>2
  <2>4. QED
    BY <2>2, <2>3
<1>6. Client!AFree(p)
  BY DEF Client!AFree, Drop, Restrict
<1>7. p \in {a + k : a \in Addresses, k \in 1..BlockSize}
  BY <1>4, <1>5
<1>8. QED
  BY <1>6, <1>7 DEF Client!ANext

------------------------------------------------------------------------------
(* The calls                                                               *)

\* malloc of an object that gets its own zone, or fails.
LEMMA AloneStep ==
  ASSUME SizesAssumption, Inv, NEW s \in Sizes, Alone(s),
         UNCHANGED <<freeBlocks, freeCount>>,
         \/ UNCHANGED <<block, blockSize, off>>
         \/ block' = NULL /\ blockSize' = 0 /\ off' = 0
  PROVE  Inv' /\ (Client!ANext \/ UNCHANGED objs)
<1>1. ZonesOK(zones) /\ ObjsOK(zones, mem, objs)
      /\ Cutting(zones, objs, block, blockSize, off)
  BY DEF Inv
<1>2. PICK c : /\ Chain(mem, c, freeCount, freeBlocks)
               /\ Book(zones, mem, objs, Elements(c), {})
               /\ block \notin Elements(c)
  BY DEF Inv
<1>3. NULL \notin Elements(c)
  <2>1. c \in [1..freeCount -> Nat \ {0}]
    BY <1>2 DEF Chain
  <2>2. QED
    BY <2>1 DEF Elements, NULL
<1>4. block' \notin Elements(c)
  BY <1>2, <1>3
<1>5. CASE \E a \in Places(ZoneLen(s)) :
               /\ zones' = Put(zones, a, ZoneLen(s))
               /\ mem' = Put(mem, a, 0)
               /\ objs' = Put(objs, a + 1, s)
  <2>1. PICK a \in Places(ZoneLen(s)) :
               /\ zones' = Put(zones, a, ZoneLen(s))
               /\ mem' = Put(mem, a, 0)
               /\ objs' = Put(objs, a + 1, s)
    BY <1>5
  <2>2. a \in Addresses /\ \A z \in DOMAIN zones : Apart(a, ZoneLen(s), z, zones[z])
    BY DEF Places
  <2>3. /\ ZonesOK(zones') /\ ObjsOK(zones', mem', objs')
        /\ Book(zones', mem', objs', Elements(c), {})
        /\ a + 1 \notin DOMAIN objs
        /\ \A q \in DOMAIN objs : Apart(a + 1, s, q, objs[q])
        /\ \A b \in Elements(c) : mem'[b] = mem[b]
        /\ \A z \in DOMAIN zones :
               /\ z \in DOMAIN zones' /\ zones'[z] = zones[z]
               /\ In(zones', objs', z) = In(zones, objs, z)
               /\ \A p \in In(zones, objs, z) : objs'[p] = objs[p]
               /\ z + 1 \in DOMAIN objs' => z + 1 \in DOMAIN objs
    BY <1>1, <1>2, <2>1, <2>2, NewAlone
  <2>4. Chain(mem', c, freeCount', freeBlocks')
    BY <1>2, <2>3, ChainStays
  <2>5. Cutting(zones', objs', block', blockSize', off')
    <3>1. CASE UNCHANGED <<block, blockSize, off>>
      <4>1. block # NULL => block \in DOMAIN zones
        BY <1>1 DEF Cutting
      <4>2. Cutting(zones', objs', block, blockSize, off)
        BY <4>1, <1>1, <2>3, CuttingStays
      <4>3. QED
        BY <3>1, <4>2
    <3>2. CASE block' = NULL /\ blockSize' = 0 /\ off' = 0
      BY <3>2, CuttingNone
    <3>3. QED
      BY <3>1, <3>2
  <2>6. Inv'
    BY <1>4, <2>3, <2>4, <2>5 DEF Inv
  <2>7. Client!ANext
    <3>1. 1 \in 1..BlockSize
      BY SizeNat
    <3>2. QED
      BY <3>1, <2>1, <2>2, <2>3, ClientAlloc
  <2>8. QED
    BY <2>6, <2>7
<1>6. CASE UNCHANGED <<zones, mem, objs>>
  <2>1. Cutting(zones', objs', block', blockSize', off')
    <3>1. CASE UNCHANGED <<block, blockSize, off>>
      BY <3>1, <1>1, <1>6
    <3>2. CASE block' = NULL /\ blockSize' = 0 /\ off' = 0
      BY <3>2, CuttingNone
    <3>3. QED
      BY <3>1, <3>2
  <2>2. ZonesOK(zones') /\ ObjsOK(zones', mem', objs')
    BY <1>1, <1>6
  <2>3. Chain(mem', c, freeCount', freeBlocks') /\ Book(zones', mem', objs', Elements(c), {})
    BY <1>2, <1>6
  <2>4. Inv'
    BY <1>4, <2>1, <2>2, <2>3 DEF Inv
  <2>5. QED
    BY <2>4, <1>6
<1>7. QED
  BY <1>5, <1>6 DEF Alone

\* malloc of an object from block b of the zones Z, with the heads M and the kept
\* blocks of list d, where place o of b is the first that is free.
LEMMA CutStep ==
  ASSUME SizesAssumption, NEW Z, NEW M, NEW K, NEW E, NEW d,
         ZonesOK(Z), ObjsOK(Z, M, objs), Book(Z, M, objs, K, E),
         NEW b \in DOMAIN Z \ K, E \subseteq {b},
         Z[b] = BlockSize, b + 1 \notin DOMAIN objs,
         NEW o \in Nat \ {0}, NEW s \in Sizes, o + ObjLen(s) <= BlockSize,
         \A p \in In(Z, objs, b) : p + objs[p] <= b + o,
         Cut(M, b, o, s), zones' = Z, block' = b,
         Chain(M, d, freeCount', freeBlocks'), Elements(d) = K
  PROVE  Inv' /\ Client!ANext
<1>1. /\ mem' = Put(Put(M, b + o, o), b, M[b] + 1)
      /\ objs' = Put(objs, b + o + 1, s)
      /\ IF o + ObjLen(s) = BlockSize
         THEN blockSize' = 0 /\ off' = 0
         ELSE blockSize' = BlockSize /\ off' = o + ObjLen(s)
  BY DEF Cut
<1>2. b \in Nat /\ b # NULL /\ b \in Addresses /\ b \in DOMAIN Z
  BY ZoneNat DEF ZonesOK
<1>3. /\ ObjsOK(Z, mem', objs') /\ Book(Z, mem', objs', K, E \ {b})
      /\ b + o + 1 \notin DOMAIN objs
      /\ \A q \in DOMAIN objs : Apart(b + o + 1, s, q, objs[q])
      /\ \A c \in K : mem'[c] = M[c]
      /\ \A q \in In(Z, objs', b) : q + objs'[q] <= b + (o + ObjLen(s))
      /\ b + 1 \notin DOMAIN objs'
  BY <1>1, CutObject
<1>4. E \ {b} = {}
  OBVIOUS
<1>5. Chain(mem', d, freeCount', freeBlocks')
  BY <1>3, ChainStays
<1>6. Cutting(Z, objs', b, blockSize', off')
  BY <1>1, <1>2, <1>3, CuttingCut
<1>7. Book(Z, mem', objs', K, {}) /\ b \notin K
  BY <1>3, <1>4
<1>8. Inv'
  BY <1>3, <1>5, <1>6, <1>7 DEF Inv
<1>9. Client!ANext
  <2>1. o + 1 \in 1..BlockSize /\ b + (o + 1) = b + o + 1
    BY <1>2, SizeNat DEF ObjLen
  <2>2. QED
    BY <2>1, <1>1, <1>2, <1>3, ClientAlloc
<1>10. QED
  BY <1>8, <1>9

\* malloc from the block at hand.
LEMMA HereStep ==
  ASSUME SizesAssumption, Inv, NEW s \in Sizes, MallocHere(s)
  PROVE  Inv' /\ Client!ANext
<1>1. ZonesOK(zones) /\ ObjsOK(zones, mem, objs)
      /\ Cutting(zones, objs, block, blockSize, off)
  BY DEF Inv
<1>2. PICK c : /\ Chain(mem, c, freeCount, freeBlocks)
               /\ Book(zones, mem, objs, Elements(c), {})
               /\ block \notin Elements(c)
  BY DEF Inv
<1>3. /\ Cut(mem, block, off, s) /\ blockSize # 0 /\ off + ObjLen(s) <= blockSize
      /\ UNCHANGED <<zones, freeBlocks, freeCount, block>>
  BY DEF MallocHere, Room
<1>4. /\ blockSize = BlockSize /\ block # NULL /\ off # 0 /\ zones[block] = BlockSize
      /\ off \in 0..BlockSize
      /\ block \in DOMAIN zones /\ block + 1 \notin DOMAIN objs
      /\ \A p \in In(zones, objs, block) : p + objs[p] <= block + off
  BY <1>1, <1>3 DEF Cutting
<1>5. block \in DOMAIN zones \ Elements(c) /\ off \in Nat \ {0}
      /\ off + ObjLen(s) <= BlockSize
  BY <1>2, <1>3, <1>4
<1>6. Chain(mem, c, freeCount', freeBlocks') /\ zones' = zones /\ block' = block
  BY <1>2, <1>3
<1>7. QED
  BY <1>1, <1>2, <1>3, <1>4, <1>5, <1>6, CutStep

\* malloc from a block that was kept.
LEMMA ReuseStep ==
  ASSUME SizesAssumption, Inv, NEW s \in Sizes, MallocReuse(s)
  PROVE  Inv' /\ Client!ANext
<1>1. ZonesOK(zones) /\ ObjsOK(zones, mem, objs)
  BY DEF Inv
<1>2. PICK c : /\ Chain(mem, c, freeCount, freeBlocks)
               /\ Book(zones, mem, objs, Elements(c), {})
               /\ block \notin Elements(c)
  BY DEF Inv
<1> DEFINE f == freeBlocks
<1> DEFINE K == Elements(c)
<1> DEFINE M == Put(mem, f, 0)
<1>3. /\ s <= Large /\ f # NULL /\ block' = f
      /\ freeBlocks' = mem[f] /\ freeCount' = freeCount - 1
      /\ Cut(M, f, 1, s) /\ zones' = zones
  BY DEF MallocReuse, NewHead, Link
<1>4. f \in K
  BY <1>2, <1>3, ChainTake
<1>5. /\ ObjsOK(zones, M, objs) /\ Book(zones, M, objs, K \ {f}, {f})
      /\ f \in DOMAIN zones \ (K \ {f}) /\ zones[f] = BlockSize
      /\ f + 1 \notin DOMAIN objs /\ In(zones, objs, f) = {}
      /\ \A k \in K \ {f} : M[k] = mem[k]
  <2>1. M = Put(mem, f, 0) /\ Book(zones, mem, objs, K, {})
    BY <1>2
  <2> HIDE DEF M, K, f
  <2>2. QED
    BY <1>1, <1>4, <2>1, ReuseBlock
<1> HIDE DEF M
<1>6. PICK d : Chain(M, d, freeCount - 1, mem[f]) /\ Elements(d) = K \ {f}
  BY <1>2, <1>3, <1>5, ChainTake
<1>7. 1 \in Nat \ {0} /\ 1 + ObjLen(s) <= BlockSize
  BY <1>3, SizeNat DEF ObjLen
<1>8. \A p \in In(zones, objs, f) : p + objs[p] <= f + 1
  BY <1>5
<1>9. Chain(M, d, freeCount', freeBlocks')
  BY <1>3, <1>6
<1>10. QED
  BY <1>1, <1>3, <1>5, <1>6, <1>7, <1>8, <1>9, CutStep

\* malloc from a new block.
LEMMA NewStep ==
  ASSUME SizesAssumption, Inv, NEW s \in Sizes, MallocNew(s)
  PROVE  Inv' /\ Client!ANext
<1>1. ZonesOK(zones) /\ ObjsOK(zones, mem, objs)
  BY DEF Inv
<1>2. PICK c : /\ Chain(mem, c, freeCount, freeBlocks)
               /\ Book(zones, mem, objs, Elements(c), {})
               /\ block \notin Elements(c)
  BY DEF Inv
<1>3. PICK a \in Places(BlockSize) :
           /\ zones' = Put(zones, a, BlockSize)
           /\ block' = a
           /\ Cut(NewHead(a), a, 1, s)
  BY DEF MallocNew
<1>4. s <= Large /\ UNCHANGED <<freeBlocks, freeCount>>
  BY DEF MallocNew
<1>5. a \in Addresses /\ \A z \in DOMAIN zones : Apart(a, BlockSize, z, zones[z])
  BY DEF Places
<1> DEFINE Y == Put(zones, a, BlockSize)
<1> DEFINE M == Put(mem, a, 0)
<1> DEFINE K == Elements(c)
<1>6. /\ ZonesOK(Y) /\ ObjsOK(Y, M, objs) /\ Book(Y, M, objs, K, {a})
      /\ a # NULL /\ a \in DOMAIN Y \ K /\ Y[a] = BlockSize
      /\ a + 1 \notin DOMAIN objs /\ In(Y, objs, a) = {}
      /\ \A b \in K : M[b] = mem[b]
  BY <1>1, <1>2, <1>5, NewBlock
<1>7. Cut(M, a, 1, s) /\ zones' = Y
  BY <1>3 DEF NewHead
<1> HIDE DEF Y, M
<1>8. Chain(M, c, freeCount', freeBlocks')
  BY <1>2, <1>4, <1>6, ChainStays
<1>9. 1 \in Nat \ {0} /\ 1 + ObjLen(s) <= BlockSize
  BY <1>4, SizeNat DEF ObjLen
<1>10. \A p \in In(Y, objs, a) : p + objs[p] <= a + 1
  BY <1>6
<1>11. QED
  BY <1>3, <1>6, <1>7, <1>8, <1>9, <1>10, CutStep

\* free of an object that has its own zone.
LEMMA FreeAloneStep ==
  ASSUME SizesAssumption, Inv, NEW p \in DOMAIN objs, FreeAlone(p), objs' = Drop(objs, p)
  PROVE  Inv' /\ Client!ANext
<1>1. ZonesOK(zones) /\ ObjsOK(zones, mem, objs)
      /\ Cutting(zones, objs, block, blockSize, off)
  BY DEF Inv
<1>2. PICK c : /\ Chain(mem, c, freeCount, freeBlocks)
               /\ Book(zones, mem, objs, Elements(c), {})
               /\ block \notin Elements(c)
  BY DEF Inv
<1>3. /\ mem[p - 1] = 0 /\ zones' = Drop(zones, p - 1) /\ mem' = Drop(mem, p - 1)
      /\ UNCHANGED <<freeBlocks, freeCount, block, blockSize, off>>
  BY DEF FreeAlone
<1> DEFINE b == p - 1
<1>4. p \in Nat /\ Home(mem, p) = b /\ Home(mem, p) \in DOMAIN zones
  <2>1. p \in Nat /\ Home(mem, p) \in DOMAIN zones
    BY <1>1, HomeIn
  <2>2. QED
    BY <2>1, <1>3 DEF Home
<1>5. In(zones, objs, b) = {p}
  BY <1>1, <1>4, AtZone
<1>6. /\ DOMAIN mem' = DOMAIN mem \ {p - 1, b}
      /\ \A x \in DOMAIN mem' : mem'[x] = mem[x]
  BY <1>3 DEF Drop, Restrict
<1>7. p = b + 1 /\ b \in DOMAIN zones
  BY <1>4
<1> HIDE DEF b
<1>8. zones' = Drop(zones, b) /\ (b = p - 1 \/ p - 1 \notin DOMAIN zones)
  BY <1>3 DEF b
<1>9. /\ ZonesOK(zones') /\ ObjsOK(zones', mem', objs')
      /\ Book(zones', mem', objs', Elements(c), {})
      /\ \A k \in Elements(c) : mem'[k] = mem[k]
      /\ DOMAIN zones' = DOMAIN zones \ {b}
      /\ \A z \in DOMAIN zones' : /\ zones'[z] = zones[z]
                                  /\ In(zones', objs', z) = In(zones, objs, z)
  <2>1. Gone(zones, mem, objs, p, b, zones', mem', objs')
    BY <1>4, <1>5, <1>6, <1>8 DEF Gone
  <2>2. RightWithout(zones, mem, objs, Elements(c), b, zones', mem', objs')
    BY <2>1, <1>1, <1>2, ZoneGoes
  <2>3. QED
    BY <2>2 DEF RightWithout
<1>10. Chain(mem', c, freeCount', freeBlocks')
  BY <1>2, <1>3, <1>9, ChainStays
<1>11. Without(objs, p, objs')
  BY <1>1, ObjectsLeft
<1>12. Cutting(zones', objs', block, blockSize, off)
  <2>1. block # NULL => block \in DOMAIN zones /\ block + 1 \notin DOMAIN objs
    BY <1>1 DEF Cutting
  <2>2. block # NULL => block \in DOMAIN zones'
    BY <2>1, <1>7, <1>9
  <2>3. /\ block # NULL => \A q \in In(zones', objs', block) : objs'[q] = objs[q]
        /\ block + 1 \in DOMAIN objs' => block + 1 \in DOMAIN objs
    BY <1>11 DEF In, Without
  <2>4. block # NULL => /\ zones'[block] = zones[block]
                        /\ In(zones', objs', block) \subseteq In(zones, objs, block)
    BY <2>2, <1>9
  <2>5. QED
    BY <2>2, <2>3, <2>4, <1>1, CuttingStays
<1>13. Inv'
  BY <1>2, <1>3, <1>9, <1>10, <1>12 DEF Inv
<1>14. QED
  BY <1>1, <1>13, ClientFree

\* free of one of several objects of a block.
LEMMA FreeOneStep ==
  ASSUME SizesAssumption, Inv, NEW p \in DOMAIN objs, FreeOne(p), objs' = Drop(objs, p)
  PROVE  Inv' /\ Client!ANext
<1>1. ZonesOK(zones) /\ ObjsOK(zones, mem, objs)
      /\ Cutting(zones, objs, block, blockSize, off)
  BY DEF Inv
<1>2. PICK c : /\ Chain(mem, c, freeCount, freeBlocks)
               /\ Book(zones, mem, objs, Elements(c), {})
               /\ block \notin Elements(c)
  BY DEF Inv
<1> DEFINE b == Home(mem, p)
<1> DEFINE v == mem[b] - 1
<1> DEFINE K == Elements(c)
<1>3. /\ mem[p - 1] # 0 /\ mem[b] # 1
      /\ mem' = Drop([mem EXCEPT ![b] = v], p - 1)
      /\ UNCHANGED <<zones, freeBlocks, freeCount, block, blockSize, off>>
  BY DEF FreeOne, BlockOf, Home
<1> HIDE DEF b, v, K
<1>4. /\ b = Home(mem, p) /\ Book(zones, mem, objs, K, {})
      /\ Counted(mem, objs, K, p, b, v, K, mem', objs')
  BY <1>2, <1>3 DEF b, v, K, Counted
<1>5. /\ ObjsOK(zones, mem', objs') /\ Book(zones, mem', objs', K, {})
      /\ mem'[b] = v /\ \A k \in K : mem'[k] = mem[k]
      /\ \A z \in DOMAIN zones : In(zones, objs', z) \subseteq In(zones, objs, z)
  <2>1. RightWith(zones, mem, objs, K, b, v, K, mem', objs')
    BY <1>1, <1>4, BlockStays
  <2>2. QED
    BY <2>1 DEF RightWith
<1>6. Chain(mem', c, freeCount', freeBlocks')
  BY <1>2, <1>3, <1>5, ChainStays DEF K
<1>7. Without(objs, p, objs')
  BY <1>1, ObjectsLeft
<1>8. Cutting(zones, objs', block, blockSize, off)
  <2>1. block # NULL => block \in DOMAIN zones
    BY <1>1 DEF Cutting
  <2>2. /\ block # NULL => \A q \in In(zones, objs', block) : objs'[q] = objs[q]
        /\ block + 1 \in DOMAIN objs' => block + 1 \in DOMAIN objs
    BY <1>7 DEF In, Without
  <2>3. QED
    BY <2>1, <2>2, <1>1, <1>5, CuttingStays
<1>9. Inv'
  BY <1>1, <1>2, <1>3, <1>5, <1>6, <1>8 DEF Inv, K
<1>10. QED
  BY <1>1, <1>9, ClientFree

\* free of the last object of a block: it goes back, or before those that are kept.
LEMMA FreeLastStep ==
  ASSUME SizesAssumption, Inv, NEW p \in DOMAIN objs, FreeLast(p), objs' = Drop(objs, p)
  PROVE  Inv' /\ Client!ANext
<1>1. ZonesOK(zones) /\ ObjsOK(zones, mem, objs)
      /\ Cutting(zones, objs, block, blockSize, off)
  BY DEF Inv
<1>2. PICK c : /\ Chain(mem, c, freeCount, freeBlocks)
               /\ Book(zones, mem, objs, Elements(c), {})
               /\ block \notin Elements(c)
  BY DEF Inv
<1> DEFINE b == Home(mem, p)
<1> DEFINE K == Elements(c)
<1> HIDE DEF b, K
<1>3. /\ mem[p - 1] # 0 /\ mem[b] = 1
      /\ \/ /\ zones' = Drop(zones, b)
            /\ mem' = Drop(Drop(mem, p - 1), b)
            /\ UNCHANGED <<freeBlocks, freeCount>>
         \/ /\ freeCount # MaxFree
            /\ mem' = Drop([mem EXCEPT ![b] = freeBlocks], p - 1)
            /\ freeBlocks' = b
            /\ freeCount' = freeCount + 1
            /\ UNCHANGED zones
      /\ \/ b = block /\ block' = NULL /\ blockSize' = 0 /\ off' = 0
         \/ b # block /\ UNCHANGED <<block, blockSize, off>>
  BY DEF FreeLast, BlockOf, Home, Full, Leave, b
<1>4. b = Home(mem, p) /\ Book(zones, mem, objs, K, {})
  BY <1>2 DEF b, K
<1>5. /\ b \in DOMAIN zones \ K /\ zones[b] = BlockSize /\ b \in Nat /\ b # NULL
      /\ b # p - 1 /\ p - 1 \notin DOMAIN zones
      /\ mem[b] = 1 => In(zones, objs, b) = {p}
  BY <1>1, <1>3, <1>4, BlockInUse
<1>6. NULL \notin K /\ b \in Nat \ {0}
  <2>1. c \in [1..freeCount -> Nat \ {0}]
    BY <1>2 DEF Chain
  <2>2. QED
    BY <2>1, <1>5 DEF Elements, NULL, K
<1>7. block' \notin K /\ block' # b
  BY <1>2, <1>3, <1>5, <1>6 DEF K
<1>8. Without(objs, p, objs')
  BY <1>1, ObjectsLeft
<1>9. Client!ANext
  BY <1>1, ClientFree
<1>10. ASSUME block # b /\ block # NULL =>
                  /\ block \in DOMAIN zones' /\ zones'[block] = zones[block]
                  /\ In(zones', objs', block) \subseteq In(zones, objs, block)
       PROVE  Cutting(zones', objs', block', blockSize', off')
  <2>1. CASE b = block
    <3>1. block' = NULL /\ blockSize' = 0 /\ off' = 0
      BY <2>1, <1>3
    <3>2. QED
      BY <3>1, CuttingNone
  <2>2. CASE b # block
    <3>1. /\ \A q \in In(zones', objs', block) : objs'[q] = objs[q]
          /\ block + 1 \in DOMAIN objs' => block + 1 \in DOMAIN objs
      BY <1>8 DEF In, Without
    <3>2. Cutting(zones', objs', block, blockSize, off)
      BY <2>2, <3>1, <1>1, <1>10, CuttingStays
    <3>3. QED
      BY <2>2, <3>2, <1>3
  <2>3. QED
    BY <2>1, <2>2
<1>11. block # NULL => block \in DOMAIN zones
  BY <1>1 DEF Cutting
<1>12. CASE /\ zones' = Drop(zones, b)
            /\ mem' = Drop(Drop(mem, p - 1), b)
            /\ UNCHANGED <<freeBlocks, freeCount>>
  <2>1. /\ DOMAIN mem' = DOMAIN mem \ {p - 1, b}
        /\ \A x \in DOMAIN mem' : mem'[x] = mem[x]
    BY <1>12 DEF Drop, Restrict
  <2>2. /\ ZonesOK(zones') /\ ObjsOK(zones', mem', objs')
        /\ Book(zones', mem', objs', K, {})
        /\ \A k \in K : mem'[k] = mem[k]
        /\ DOMAIN zones' = DOMAIN zones \ {b}
        /\ \A z \in DOMAIN zones' : /\ zones'[z] = zones[z]
                                    /\ In(zones', objs', z) = In(zones, objs, z)
    <3>1. Gone(zones, mem, objs, p, b, zones', mem', objs')
      BY <2>1, <1>3, <1>4, <1>5, <1>12 DEF Gone
    <3>2. RightWithout(zones, mem, objs, K, b, zones', mem', objs')
      BY <3>1, <1>1, <1>4, ZoneGoes
    <3>3. QED
      BY <3>2 DEF RightWithout
  <2>3. Chain(mem', c, freeCount', freeBlocks')
    BY <2>2, <1>2, <1>12, ChainStays DEF K
  <2>4. Cutting(zones', objs', block', blockSize', off')
    <3>1. block # b /\ block # NULL =>
              /\ block \in DOMAIN zones' /\ zones'[block] = zones[block]
              /\ In(zones', objs', block) \subseteq In(zones, objs, block)
      BY <2>2, <1>11
    <3>2. QED
      BY <3>1, <1>10
  <2>5. Inv'
    BY <2>2, <2>3, <2>4, <1>7 DEF Inv, K
  <2>6. QED
    BY <2>5, <1>9
<1>13. CASE /\ freeCount # MaxFree
            /\ mem' = Drop([mem EXCEPT ![b] = freeBlocks], p - 1)
            /\ freeBlocks' = b
            /\ freeCount' = freeCount + 1
            /\ UNCHANGED zones
  <2> DEFINE L == K \union {b}
  <2>1. Counted(mem, objs, K, p, b, freeBlocks, L, mem', objs') /\ L = K \union {b}
    BY <1>3, <1>4, <1>13 DEF Counted
  <2> HIDE DEF L
  <2>2. /\ ObjsOK(zones, mem', objs') /\ Book(zones, mem', objs', L, {})
        /\ mem'[b] = freeBlocks /\ \A k \in K : mem'[k] = mem[k]
        /\ \A z \in DOMAIN zones : In(zones, objs', z) \subseteq In(zones, objs, z)
    <3>1. RightWith(zones, mem, objs, K, b, freeBlocks, L, mem', objs')
      BY <2>1, <1>1, <1>4, BlockStays
    <3>2. QED
      BY <3>1 DEF RightWith
  <2>3. PICK d : Chain(mem', d, freeCount + 1, b) /\ Elements(d) = K \union {b}
    <3>1. /\ Chain(mem, c, freeCount, freeBlocks) /\ freeCount # MaxFree
          /\ b \in Nat \ {0} /\ b \notin Elements(c) /\ mem'[b] = freeBlocks
          /\ \A k \in Elements(c) : mem'[k] = mem[k]
      BY <2>2, <1>2, <1>5, <1>6, <1>13 DEF K
    <3>2. QED
      BY <3>1, ChainPut DEF K
  <2>4. Cutting(zones', objs', block', blockSize', off')
    BY <2>2, <1>10, <1>11, <1>13
  <2>5. block' \notin Elements(d)
    BY <2>3, <1>7
  <2>6. Book(zones', mem', objs', Elements(d), {}) /\ Chain(mem', d, freeCount', freeBlocks')
    BY <2>1, <2>2, <2>3, <1>13
  <2>7. ZonesOK(zones') /\ ObjsOK(zones', mem', objs')
    BY <2>2, <1>1, <1>13
  <2>8. Inv'
    BY <2>4, <2>5, <2>6, <2>7 DEF Inv
  <2>9. QED
    BY <2>8, <1>9
<1>14. QED
  BY <1>3, <1>12, <1>13

------------------------------------------------------------------------------
(* The specification                                                       *)

\* Before the first call nothing is allocated.
LEMMA InitInv ==
  ASSUME SizesAssumption, BlockInit
  PROVE  Inv
<1>1. /\ DOMAIN zones = {} /\ DOMAIN mem = {} /\ DOMAIN objs = {}
      /\ freeBlocks = NULL /\ freeCount = 0
      /\ block = NULL /\ blockSize = 0 /\ off = 0
  BY DEF BlockInit
<1> DEFINE c == [k \in 1..0 |-> 1]
<1>2. c \in [1..0 -> Nat \ {0}] /\ 1..0 = {} /\ DOMAIN c = {}
  OBVIOUS
<1> HIDE DEF c
<1>3. Elements(c) = {}
  BY <1>2 DEF Elements
<1>4. ZonesOK(zones) /\ ObjsOK(zones, mem, objs)
  BY <1>1 DEF ZonesOK, ObjsOK
<1>5. Cutting(zones, objs, block, blockSize, off)
  BY <1>1, CuttingNone
<1>6. Chain(mem, c, freeCount, freeBlocks)
  BY <1>1, <1>2, SizeNat DEF Chain
<1>7. Book(zones, mem, objs, Elements(c), {})
  BY <1>1, <1>3 DEF Book
<1>8. QED
  BY <1>3, <1>4, <1>5, <1>6, <1>7 DEF Inv

\* Every call keeps the invariant, and is a call of the abstract allocator or fails.
LEMMA NextStep ==
  ASSUME SizesAssumption, Inv, [BlockNext]_blockVars
  PROVE  Inv' /\ (Client!ANext \/ UNCHANGED objs)
<1>1. ASSUME NEW s \in Sizes, MallocLarge(s)
      PROVE  Inv' /\ (Client!ANext \/ UNCHANGED objs)
  BY <1>1, AloneStep DEF MallocLarge
<1>2. ASSUME NEW s \in Sizes, MallocNoBlock(s)
      PROVE  Inv' /\ (Client!ANext \/ UNCHANGED objs)
  BY <1>2, AloneStep DEF MallocNoBlock
<1>3. ASSUME NEW s \in Sizes, Malloc(s)
      PROVE  Inv' /\ (Client!ANext \/ UNCHANGED objs)
  BY <1>1, <1>2, <1>3, HereStep, ReuseStep, NewStep DEF Malloc
<1>4. ASSUME NEW p \in DOMAIN objs, Free(p)
      PROVE  Inv' /\ Client!ANext
  BY <1>4, FreeAloneStep, FreeOneStep, FreeLastStep DEF Free
<1>5. CASE UNCHANGED blockVars
  <2>1. /\ zones' = zones /\ mem' = mem /\ objs' = objs
        /\ freeBlocks' = freeBlocks /\ freeCount' = freeCount
        /\ block' = block /\ blockSize' = blockSize /\ off' = off
    BY <1>5 DEF blockVars
  <2>2. Inv'
    BY <2>1 DEF Inv
  <2>3. QED
    BY <2>1, <2>2
<1>6. QED
  BY <1>3, <1>4, <1>5 DEF BlockNext

\* The invariant says what BookKept does, of the list that the links make.
LEMMA InvBook ==
  ASSUME SizesAssumption, Inv
  PROVE  BookKept
<1>1. ZonesOK(zones) /\ ObjsOK(zones, mem, objs)
  BY DEF Inv
<1>2. PICK c : /\ Chain(mem, c, freeCount, freeBlocks)
               /\ Book(zones, mem, objs, Elements(c), {})
               /\ block \notin Elements(c)
  BY DEF Inv
<1>3. /\ Cardinality(Elements(c)) = freeCount
      /\ freeCount \in 0..MaxFree /\ freeCount \in Nat /\ freeCount <= MaxFree
  BY <1>2, ChainCounts, SizeNat
<1>4. Kept = Elements(c)
  BY <1>2, <1>3, KeptIs
<1>5. \A b : ObjectsIn(b) = In(zones, objs, b)
  BY DEF ObjectsIn, In
<1>6. /\ DOMAIN mem = DOMAIN zones \union {p - 1 : p \in DOMAIN objs}
      /\ Kept \subseteq DOMAIN zones
      /\ \A b \in Kept : ObjectsIn(b) = {}
      /\ \A b \in DOMAIN zones \ Kept :
             /\ ObjectsIn(b) # {}
             /\ b + 1 \notin DOMAIN objs => mem[b] = Cardinality(ObjectsIn(b))
  BY <1>2, <1>4, <1>5 DEF Book
<1>7. ASSUME NEW p \in DOMAIN objs, NEW x \in p..(p + objs[p] - 1), x \in DOMAIN mem
      PROVE  FALSE
  <2>1. /\ Home(mem, p) \in DOMAIN zones /\ Home(mem, p) \in Nat
        /\ p \in Nat /\ objs[p] \in Nat /\ objs[p] # 0
        /\ p \in In(zones, objs, Home(mem, p))
        /\ p + objs[p] <= Home(mem, p) + zones[Home(mem, p)]
    BY <1>1, HomeIn
  <2>2. zones[Home(mem, p)] \in Nat /\ Home(mem, p) < p
    BY <2>1, <1>1, ZoneNat DEF In
  <2>3. x \in Nat /\ p <= x /\ x < p + objs[p]
    BY <2>1, <1>7
  <2>4. CASE x \in DOMAIN zones
    <3>1. x < x + zones[x]
      BY <2>3, <2>4, <1>1, ZoneNat
    <3>2. Home(mem, p) <= x /\ x < Home(mem, p) + zones[Home(mem, p)]
      BY <2>1, <2>2, <2>3
    <3>3. Home(mem, p) = x
      BY <2>1, <2>3, <2>4, <3>1, <3>2, <1>1, OneZone
    <3>4. QED
      BY <2>1, <2>2, <2>3, <3>3
  <2>5. CASE \E q \in DOMAIN objs : x = q - 1
    <3>1. PICK q \in DOMAIN objs : x = q - 1
      BY <2>5
    <3>2. q \in Nat /\ (p < q => p + objs[p] < q)
      BY <1>1 DEF ObjsOK
    <3>3. QED
      BY <2>1, <2>3, <3>1, <3>2
  <2>6. QED
    BY <2>4, <2>5, <1>6, <1>7
<1>8. \A p \in DOMAIN objs : p..(p + objs[p] - 1) \intersect DOMAIN mem = {}
  BY <1>7
<1>9. ASSUME NEW p \in DOMAIN objs
      PROVE  p \in ObjectsIn(BlockOf(p))
  <2>1. p \in In(zones, objs, Home(mem, p))
    BY <1>1, HomeIn
  <2>2. QED
    BY <2>1, <1>5 DEF Home, BlockOf
<1>10. CountsRight
  BY <1>6, <1>8, <1>9 DEF CountsRight
<1>11. freeCount = 0 <=> freeBlocks = NULL
  <2>1. /\ c \in [1..freeCount -> Nat \ {0}]
        /\ freeBlocks = IF freeCount = 0 THEN NULL ELSE c[1]
    BY <1>2 DEF Chain
  <2>2. freeCount # 0 => 1 \in 1..freeCount
    BY <1>3
  <2>3. QED
    BY <2>1, <2>2 DEF NULL
<1>12. KeptRight
  BY <1>2, <1>3, <1>4, <1>6, <1>11 DEF KeptRight
<1>13. NoLeak
  BY <1>6 DEF NoLeak
<1>14. QED
  BY <1>3, <1>10, <1>12, <1>13 DEF BookKept

\* The invariant holds after any calls.
LEMMA InvAlways ==
  ASSUME SizesAssumption
  PROVE  BlockSpec => []Inv
<1>1. ASSUME BlockInit PROVE Inv
  BY <1>1, InitInv
<1>2. ASSUME Inv, [BlockNext]_blockVars PROVE Inv'
  BY <1>2, NextStep
<1>3. QED
  BY <1>1, <1>2, PTL DEF BlockSpec

\* After any calls, no head lies in an object, a block's head counts the objects in
\* it, the kept blocks are those of the list, empty, as many as are counted and no
\* more than may be, and every zone is kept or has an object that gives it back
\* (malloc and free of scc/include/malloc.c).
THEOREM BookKeptCorrect ==
  ASSUME SizesAssumption
  PROVE  BlockSpec => []BookKept
<1>1. ASSUME Inv PROVE BookKept
  BY <1>1, InvBook
<1>2. QED
  BY <1>1, InvAlways, PTL

\* Whatever a program allocates and frees, through every reuse of a block, it sees
\* an allocator: the area of a new pointer touches none that is live.
THEOREM ClientSpecCorrect ==
  ASSUME SizesAssumption
  PROVE  BlockSpec => ClientSpec
<1>1. ASSUME BlockInit PROVE Client!AInit
  BY <1>1 DEF BlockInit, Client!AInit
<1>2. ASSUME Inv, [BlockNext]_blockVars PROVE [Client!ANext]_objs
  BY <1>2, NextStep
<1>3. QED
  BY <1>1, <1>2, InvAlways, PTL DEF BlockSpec, ClientSpec, Client!ASpec

\* The variables keep their types.
THEOREM BlockTypeCorrect ==
  ASSUME SizesAssumption
  PROVE  BlockSpec => []BlockTypeOK
<1>1. ASSUME Inv PROVE BlockTypeOK
  <2>1. PICK c : /\ Chain(mem, c, freeCount, freeBlocks)
                 /\ Book(zones, mem, objs, Elements(c), {})
    BY <1>1 DEF Inv
  <2>2. /\ freeCount \in 0..MaxFree /\ freeCount \in Nat
        /\ c \in [1..freeCount -> Nat \ {0}] /\ DOMAIN c = 1..freeCount
        /\ freeBlocks = IF freeCount = 0 THEN NULL ELSE c[1]
    BY <2>1, SizeNat DEF Chain
  <2>3. freeBlocks \in {NULL} \union DOMAIN zones
    <3>1. freeCount # 0 => c[1] \in Elements(c)
      BY <2>2 DEF Elements
    <3>2. QED
      BY <2>1, <2>2, <3>1 DEF Book
  <2>4. DOMAIN zones \subseteq Addresses
    BY <1>1 DEF Inv, ZonesOK
  <2>5. /\ block \in {NULL} \union DOMAIN zones
        /\ blockSize \in {0, BlockSize} /\ off \in 0..BlockSize
    BY <1>1 DEF Inv, Cutting
  <2>6. \A p \in DOMAIN objs : objs[p] \in Sizes /\ p - 1 \in DOMAIN mem
    BY <1>1, <2>1 DEF Inv, ObjsOK, Book
  <2>7. QED
    BY <2>2, <2>3, <2>4, <2>5, <2>6 DEF BlockTypeOK
<1>2. QED
  BY <1>1, InvAlways, PTL

------------------------------------------------------------------------------
(* The assembler, for programs of any length, with any padding             *)

\* The inductive invariant.  A label is known when its line was passed in
\* stage 0, and there is only one such line.
Passed(i) == IF stage = 0 THEN i < at ELSE i \in 1..Len(code)

LabelsKnown ==
    /\ \A i \in 1..Len(code) : Passed(i) /\ code[i].kind = "label" => value[code[i].name] # NoLabel
    /\ \A x \in Names : value[x] # NoLabel => \E i \in 1..Len(code) : Passed(i) /\ IsLabel(i, x)
    /\ \A i, j \in 1..Len(code) :
           /\ Passed(i) /\ Passed(j)
           /\ code[i].kind = "label" /\ code[j].kind = "label"
           /\ code[i].name = code[j].name
           => i = j

\* In stage 1 the lines that were passed follow each other, and the labels
\* among them have the place of their line.
LinesPlaced ==
    stage = 1 =>
        /\ \A i \in 1..Len(code) - 1 : i + 1 < at => pos[i + 1] = After(i)
        /\ \A i \in 1..Len(code) : i + 1 = at => pc = After(i)
        /\ \A i \in 1..Len(code) : i < at /\ code[i].kind = "label" => value[code[i].name] = pos[i]

\* As long as no label moved, the branches that were passed are right.
BranchRight(i) ==
    /\ value[code[i].name] # NoLabel
    /\ pos[i] + len[i] + dist[i] = value[code[i].name]
    /\ len[i] = 2 => Near(dist[i])

BranchesRight ==
    stage = 1 /\ ~moved =>
        \A i \in 1..Len(code) : i < at /\ code[i].kind \in Branches => BranchRight(i)

WrittenAtEnd == phase = "written" => at = Len(code) + 1 /\ stage = 1 /\ ~moved

AsmInv ==
    /\ TypeOK
    /\ LabelsKnown
    /\ LinesPlaced
    /\ BranchesRight
    /\ WrittenAtEnd

------------------------------------------------------------------------------
(* What a line is and what it encodes.                                     *)

\* The range of a remainder.
LEMMA ModRange == \A m \in Int, n \in Nat \ {0} : m % n \in Nat
  OBVIOUS

\* The fields of a line of the program.
LEMMA LineType ==
  ASSUME TypeOK, NEW i \in 1..Len(code)
  PROVE  /\ code[i].kind \in Kinds
         /\ code[i].name \in Names
         /\ code[i].arg \in Nat
         /\ code[i].kind = "align" => code[i].arg # 0
  BY DEF TypeOK, Line

\* The length of an encoded line is a number.
LEMMA BytesType ==
  ASSUME TypeOK, at \in 1..Len(code), ~Wrong(code[at])
  PROVE  Bytes(code[at]) \in Nat
<1>1. /\ code[at].arg \in Nat
      /\ code[at].kind = "align" => code[at].arg # 0
      /\ spos \in Nat
  BY LineType DEF TypeOK
<1>2. code[at].kind = "align" => Zeros(code[at]) \in Nat
  BY <1>1, ModRange DEF Zeros
<1>3. code[at].kind = "offset" => code[at].arg - spos \in Nat
  BY <1>1 DEF Wrong
<1>4. BranchLen(code[at]) \in Nat /\ ImmLen(code[at]) \in Nat
  BY DEF BranchLen, ImmLen, LongForm
<1> QED
  BY <1>1, <1>2, <1>3, <1>4 DEF Bytes

\* The length and the distance of a branch in the later passes.
LEMMA BranchBytes ==
  ASSUME TypeOK, at \in 1..Len(code), code[at].kind \in Branches, stage = 1
  PROVE  /\ Bytes(code[at]) = BranchLen(code[at])
         /\ Bytes(code[at]) \in Nat
         /\ Dist(code[at]) = value[code[at].name] - pc - Bytes(code[at])
         /\ Bytes(code[at]) = 2 => Near(Dist(code[at]))
<1>1. Bytes(code[at]) = BranchLen(code[at])
  BY DEF Bytes, Branches
<1>2. BranchLen(code[at]) \in {2, 5, 6}
  BY DEF BranchLen, LongForm
<1>3. BranchLen(code[at]) = 2 => Near(value[code[at].name] - pc - 2)
  BY DEF BranchLen, LongForm, Const
<1> QED
  BY <1>1, <1>2, <1>3 DEF Dist, Const

------------------------------------------------------------------------------
(* Init and the actions                                                    *)

\* Before the first pass.
LEMMA AsmInitInv ==
  ASSUME Init
  PROVE  AsmInv
<1>1. code \in Seq(Line)
  BY ProgramAssumption DEF Init
<1>2. TypeOK
  <2>1. Len(code) \in Nat /\ 1 \in 1..Len(code) + 1
    BY <1>1
  <2>2. value \in [Names -> Nat \union {NoLabel}]
    BY DEF Init
  <2>3. pos \in [1..Len(code) -> Nat] /\ len \in [1..Len(code) -> Nat] /\ dist \in [1..Len(code) -> Int]
    BY DEF Init
  <2>4. phase \in {"passes", "written", "failed"} /\ stage \in {0, 1} /\ moved \in BOOLEAN
    BY DEF Init
  <2>5. at \in 1..Len(code) + 1 /\ pc \in Nat /\ spos \in Nat /\ entry \in Nat
    BY <2>1, BaseAssumption DEF Init
  <2> QED
    BY <1>1, <2>2, <2>3, <2>4, <2>5 DEF TypeOK
<1>3. LabelsKnown
  BY <1>1 DEF Init, LabelsKnown, Passed, NoLabel
<1>4. LinesPlaced /\ BranchesRight /\ WrittenAtEnd
  BY DEF Init, LinesPlaced, BranchesRight, WrittenAtEnd
<1> QED
  BY <1>2, <1>3, <1>4 DEF AsmInv

\* A step that fails keeps the invariant.
LEMMA FailInv ==
  ASSUME AsmInv, Fail
  PROVE  AsmInv'
<1>1. /\ phase' = "failed"
      /\ UNCHANGED <<code, stage, at, pc, spos, moved, value, pos, len, dist, entry>>
  BY DEF Fail
<1>2. TypeOK'
  BY <1>1 DEF AsmInv, TypeOK
<1>3. LabelsKnown'
  BY <1>1 DEF AsmInv, LabelsKnown, Passed, IsLabel
<1>4. LinesPlaced'
  BY <1>1 DEF AsmInv, LinesPlaced, After
<1>5. BranchesRight'
  BY <1>1 DEF AsmInv, BranchesRight, BranchRight, Near
<1>6. WrittenAtEnd'
  BY <1>1 DEF WrittenAtEnd
<1> QED
  BY <1>2, <1>3, <1>4, <1>5, <1>6 DEF AsmInv

\* The executable is written after a pass that moved no label.
LEMMA MkElfInv ==
  ASSUME AsmInv, MkElf
  PROVE  AsmInv'
<1>1. /\ phase' = "written"
      /\ at > Len(code) /\ stage = 1 /\ ~moved
      /\ UNCHANGED <<code, stage, at, pc, spos, moved, value, pos, len, dist, entry>>
  BY DEF MkElf
<1>2. TypeOK'
  BY <1>1 DEF AsmInv, TypeOK
<1>3. LabelsKnown'
  BY <1>1 DEF AsmInv, LabelsKnown, Passed, IsLabel
<1>4. LinesPlaced'
  BY <1>1 DEF AsmInv, LinesPlaced, After
<1>5. BranchesRight'
  BY <1>1 DEF AsmInv, BranchesRight, BranchRight, Near
<1>6. WrittenAtEnd'
  BY <1>1 DEF AsmInv, TypeOK, WrittenAtEnd
<1> QED
  BY <1>2, <1>3, <1>4, <1>5, <1>6 DEF AsmInv

\* At the end of a pass every line was passed; the next pass starts with none.
LEMMA NextPassInv ==
  ASSUME AsmInv, NextPass
  PROVE  AsmInv'
<1>1. /\ phase = "passes" /\ at > Len(code)
      /\ stage' = 1 /\ at' = 1 /\ pc' = Base /\ spos' = 0 /\ moved' = FALSE /\ entry' = 0
      /\ UNCHANGED <<code, phase, value, pos, len, dist>>
  BY DEF NextPass
<1>2. TypeOK'
  <2>1. Len(code) \in Nat /\ 1 \in 1..Len(code) + 1
    BY DEF AsmInv, TypeOK
  <2> QED
    BY <1>1, <2>1, BaseAssumption DEF AsmInv, TypeOK
<1>3. \A i \in 1..Len(code) : Passed(i) /\ Passed(i)'
  BY <1>1 DEF AsmInv, TypeOK, Passed
<1>4. LabelsKnown'
  BY <1>1, <1>3 DEF AsmInv, LabelsKnown, IsLabel
<1>5. LinesPlaced' /\ BranchesRight'
  BY <1>1 DEF AsmInv, TypeOK, LinesPlaced, BranchesRight
<1>6. WrittenAtEnd'
  BY <1>1 DEF WrittenAtEnd
<1> QED
  BY <1>2, <1>4, <1>5, <1>6 DEF AsmInv

\* A line is encoded and written.
LEMMA WriteInv ==
  ASSUME AsmInv, Write
  PROVE  AsmInv'
<1> DEFINE line == code[at]
           x == code[at].name
           n == Bytes(code[at])
<1>0. /\ phase = "passes" /\ phase' = phase /\ code' = code /\ stage' = stage
      /\ at' = at + 1
      /\ pos' = IF stage = 1 THEN [pos EXCEPT ![at] = pc] ELSE pos
      /\ len' = [len EXCEPT ![at] = n]
      /\ dist' = [dist EXCEPT ![at] = IF line.kind \in Branches THEN Dist(line) ELSE 0]
      /\ spos' = spos + n
      /\ pc' = IF line.kind = "addr" THEN line.arg ELSE pc + n
      /\ value' = IF line.kind = "label" THEN [value EXCEPT ![x] = pc] ELSE value
      /\ moved' = (moved \/ Moves(line))
      /\ entry' = IF line.kind = "entry" THEN pc ELSE entry
  BY DEF Write, Encode
<1>1. TypeOK /\ at \in 1..Len(code) /\ ~Wrong(line)
  BY DEF AsmInv, TypeOK, Write
<1>2. line.kind \in Kinds /\ x \in Names /\ line.arg \in Nat /\ n \in Nat
  BY <1>1, LineType, BytesType
<1>3. TypeOK'
  <2>1. code' \in Seq(Line) /\ at' \in 1..Len(code') + 1
    BY <1>0, <1>1 DEF TypeOK
  <2>2. phase' \in {"passes", "written", "failed"} /\ stage' \in {0, 1} /\ spos' \in Nat /\ entry' \in Nat /\ pc' \in Nat
    BY <1>0, <1>1, <1>2 DEF TypeOK
  <2>3. moved' \in BOOLEAN
    BY <1>0, <1>1 DEF TypeOK, Moves
  <2>4. value' \in [Names -> Nat \union {NoLabel}]
    BY <1>0, <1>1, <1>2 DEF TypeOK
  <2>5. pos' \in [1..Len(code') -> Nat] /\ len' \in [1..Len(code') -> Nat]
    BY <1>0, <1>1, <1>2 DEF TypeOK
  <2>6. line.kind \in Branches => Dist(line) \in Int
    <3>1. value[x] \in Int /\ pc \in Int
      BY <1>1, <1>2 DEF TypeOK, NoLabel
    <3>2. Const(x) \in Int
      BY <3>1 DEF Const
    <3>3. BranchLen(line) \in Int
      BY DEF BranchLen, LongForm
    <3> QED
      BY <3>1, <3>2, <3>3 DEF Dist
  <2>7. dist' \in [1..Len(code') -> Int]
    BY <1>0, <1>1, <2>6 DEF TypeOK
  <2> QED
    BY <2>1, <2>2, <2>3, <2>4, <2>5, <2>7 DEF TypeOK
<1>4. ASSUME stage = 0
      PROVE  AsmInv'
  <2>1. \A i \in 1..Len(code) : Passed(i)' <=> Passed(i) \/ i = at
    BY <1>0, <1>1, <1>4 DEF Passed
  <2>2. line.kind = "label" => value[x] = NoLabel /\ pc # NoLabel
    BY <1>1, <1>4 DEF Wrong, Known, TypeOK, NoLabel
  <2>3. LabelsKnown'
    <3>1. \A y \in Names : value'[y] = IF line.kind = "label" /\ y = x THEN pc ELSE value[y]
      BY <1>0, <1>1, <1>2 DEF TypeOK
    <3>2. \A i \in 1..Len(code) : Passed(i)' /\ code[i].kind = "label" => value'[code[i].name] # NoLabel
      BY <2>1, <2>2, <3>1, <1>1, LineType DEF AsmInv, LabelsKnown
    <3>3. \A y \in Names : value'[y] # NoLabel => \E i \in 1..Len(code) : Passed(i)' /\ IsLabel(i, y)
      BY <2>1, <3>1, <1>1 DEF AsmInv, LabelsKnown, IsLabel
    <3>4. \A i, j \in 1..Len(code) :
              /\ Passed(i)' /\ Passed(j)'
              /\ code[i].kind = "label" /\ code[j].kind = "label"
              /\ code[i].name = code[j].name
              => i = j
      BY <2>1, <2>2 DEF AsmInv, LabelsKnown
    <3> QED
      BY <1>0, <3>2, <3>3, <3>4 DEF LabelsKnown, IsLabel
  <2>4. LinesPlaced' /\ BranchesRight'
    BY <1>0, <1>4 DEF LinesPlaced, BranchesRight
  <2>5. WrittenAtEnd'
    BY <1>0 DEF WrittenAtEnd
  <2> QED
    BY <1>3, <2>3, <2>4, <2>5 DEF AsmInv
<1>5. ASSUME stage = 1
      PROVE  AsmInv'
  <2>1. \A i \in 1..Len(code) : Passed(i)' /\ Passed(i)
    BY <1>0, <1>5 DEF Passed
  <2>2. \A y \in Names : value'[y] = IF line.kind = "label" /\ y = x THEN pc ELSE value[y]
    BY <1>0, <1>1, <1>2 DEF TypeOK
  <2>3. line.kind = "label" => value[x] # NoLabel /\ pc # NoLabel
    BY <1>1, <2>1 DEF AsmInv, LabelsKnown, TypeOK, NoLabel
  <2>4. LabelsKnown'
    <3>1. \A y \in Names : value'[y] # NoLabel <=> value[y] # NoLabel
      BY <2>2, <2>3
    <3> QED
      BY <1>0, <1>1, <2>1, <3>1, LineType DEF AsmInv, LabelsKnown, IsLabel
  <2>5. \A i \in 1..Len(code) : /\ pos'[i] = IF i = at THEN pc ELSE pos[i]
                                /\ len'[i] = IF i = at THEN n ELSE len[i]
                                /\ dist'[i] = IF i = at THEN (IF line.kind \in Branches THEN Dist(line) ELSE 0) ELSE dist[i]
    BY <1>0, <1>1, <1>5 DEF TypeOK
  <2>6. \A i \in 1..Len(code) : After(i)' = IF i = at THEN pc' ELSE After(i)
    BY <1>0, <2>5 DEF After
  <2>7. LinesPlaced'
    <3>1. ASSUME NEW i \in 1..Len(code) - 1, i + 1 < at'
          PROVE  pos'[i + 1] = After(i)'
      <4>1. CASE i + 1 = at
        <5>1. pos'[i + 1] = pc
          BY <2>5, <4>1, <1>1
        <5>2. After(i)' = After(i) /\ pc = After(i)
          BY <2>6, <4>1, <1>1, <1>5 DEF AsmInv, LinesPlaced
        <5> QED
          BY <5>1, <5>2
      <4>2. CASE i + 1 # at
        <5>1. i + 1 < at /\ i \in 1..Len(code) /\ i + 1 \in 1..Len(code) /\ i # at
          BY <1>0, <1>1, <3>1, <4>2
        <5>2. pos[i + 1] = After(i)
          BY <5>1, <1>5 DEF AsmInv, LinesPlaced
        <5> QED
          BY <5>1, <5>2, <2>5, <2>6
      <4> QED
        BY <4>1, <4>2
    <3>2. ASSUME NEW i \in 1..Len(code), i + 1 = at'
          PROVE  pc' = After(i)'
      BY <1>0, <1>1, <2>6, <3>2
    <3>3. ASSUME NEW i \in 1..Len(code), i < at', code[i].kind = "label"
          PROVE  value'[code[i].name] = pos'[i]
      <4>1. CASE i = at
        BY <4>1, <3>3, <2>2, <2>5, <1>2
      <4>2. CASE i # at
        <5>1. i < at /\ value[code[i].name] = pos[i]
          BY <4>2, <3>3, <1>0, <1>1, <1>5 DEF AsmInv, LinesPlaced
        <5>2. ~(line.kind = "label" /\ code[i].name = x)
          BY <4>2, <3>3, <1>1, <2>1 DEF AsmInv, LabelsKnown
        <5>3. code[i].name \in Names
          BY <1>1, LineType
        <5> QED
          BY <4>2, <5>1, <5>2, <5>3, <2>2, <2>5
      <4> QED
        BY <4>1, <4>2
    <3> QED
      BY <1>0, <3>1, <3>2, <3>3 DEF LinesPlaced
  <2>8. BranchesRight'
    <3>1. SUFFICES ASSUME ~moved', NEW i \in 1..Len(code), i < at', code[i].kind \in Branches
                   PROVE  BranchRight(i)'
      BY <1>0 DEF BranchesRight
    <3>2. ~moved /\ ~Moves(line)
      BY <1>0, <3>1
    <3>3. \A y \in Names : value'[y] = value[y]
      BY <2>2, <3>2, <1>5 DEF Moves
    <3>4. code[i].name \in Names
      BY <1>1, LineType
    <3>5. CASE i = at
      <4>1. Known(x) /\ value[x] \in Nat /\ pc \in Nat
        BY <3>5, <3>1, <1>1, <1>2, <1>5 DEF Wrong, NamesLabel, Known, TypeOK
      <4>2. Dist(line) = value[x] - pc - n /\ (n = 2 => Near(Dist(line)))
        BY <3>5, <3>1, <1>1, <1>5, BranchBytes
      <4>3. pos'[i] = pc /\ len'[i] = n /\ dist'[i] = Dist(line)
        BY <3>5, <3>1, <2>5
      <4>4. pos'[i] + len'[i] + dist'[i] = value'[x]
        BY <4>1, <4>2, <4>3, <3>3, <1>2
      <4> QED
        BY <1>0, <3>3, <3>4, <3>5, <4>1, <4>2, <4>3, <4>4 DEF BranchRight, Known, Near
    <3>6. CASE i # at
      <4>1. BranchRight(i)
        BY <3>1, <3>2, <3>6, <1>0, <1>1, <1>5 DEF AsmInv, BranchesRight
      <4> QED
        BY <1>0, <3>3, <3>4, <3>6, <2>5, <4>1 DEF BranchRight, Near
    <3> QED
      BY <3>5, <3>6
  <2>9. WrittenAtEnd'
    BY <1>0 DEF WrittenAtEnd
  <2> QED
    BY <1>3, <2>4, <2>7, <2>8, <2>9 DEF AsmInv
<1> QED
  BY <1>1, <1>4, <1>5 DEF TypeOK

------------------------------------------------------------------------------

\* Every step keeps the invariant of the assembler.
LEMMA Inductive ==
  ASSUME AsmInv, [Next]_vars
  PROVE  AsmInv'
<1>1. CASE Fail
  BY <1>1, FailInv
<1>2. CASE Write
  BY <1>2, WriteInv
<1>3. CASE NextPass
  BY <1>3, NextPassInv
<1>4. CASE MkElf
  BY <1>4, MkElfInv
<1>5. CASE UNCHANGED vars
  BY <1>5 DEF vars, AsmInv, TypeOK, LabelsKnown, LinesPlaced, BranchesRight, WrittenAtEnd,
              Passed, IsLabel, After, BranchRight, Near
<1> QED
  BY <1>1, <1>2, <1>3, <1>4, <1>5 DEF Next, Assemble

\* The invariant says that the branches of a written program arrive.
LEMMA InvArrive ==
  ASSUME AsmInv
  PROVE  BranchesArrive
<1>1. SUFFICES ASSUME phase = "written"
               PROVE  /\ \A i \in 1..Len(code) - 1 : pos[i + 1] = After(i)
                      /\ \A i \in 1..Len(code) : code[i].kind \in Branches =>
                             \E j \in 1..Len(code) :
                                 /\ IsLabel(j, code[i].name)
                                 /\ pos[i] + len[i] + dist[i] = pos[j]
                                 /\ len[i] = 2 => Near(dist[i])
  BY DEF BranchesArrive
<1>2. at = Len(code) + 1 /\ stage = 1 /\ ~moved /\ Len(code) \in Nat
  BY <1>1 DEF AsmInv, WrittenAtEnd, TypeOK
<1>3. \A i \in 1..Len(code) - 1 : pos[i + 1] = After(i)
  BY <1>2 DEF AsmInv, LinesPlaced
<1>4. ASSUME NEW i \in 1..Len(code), code[i].kind \in Branches
      PROVE  \E j \in 1..Len(code) :
                 /\ IsLabel(j, code[i].name)
                 /\ pos[i] + len[i] + dist[i] = pos[j]
                 /\ len[i] = 2 => Near(dist[i])
  <2>1. BranchRight(i) /\ code[i].name \in Names
    BY <1>2, <1>4, LineType DEF AsmInv, BranchesRight
  <2>2. PICK j \in 1..Len(code) : IsLabel(j, code[i].name)
    BY <2>1 DEF AsmInv, LabelsKnown, BranchRight
  <2>3. value[code[i].name] = pos[j]
    BY <1>2, <2>2 DEF AsmInv, LinesPlaced, IsLabel
  <2> QED
    BY <2>1, <2>2, <2>3 DEF BranchRight
<1> QED
  BY <1>3, <1>4

\* Type correctness of the assembler's tables (asm/main.c, label.c), for
\* programs of any length.
THEOREM AsmTypeCorrect == Spec => []TypeOK
<1>1. Init => AsmInv
  BY AsmInitInv
<1>2. AsmInv /\ [Next]_vars => AsmInv'
  BY Inductive
<1>3. AsmInv => TypeOK
  BY DEF AsmInv
<1> QED
  BY <1>1, <1>2, <1>3, PTL DEF Spec

\* In every executable that asm writes every branch arrives at the line of its
\* label, whatever the lines between them are, and although the passes stop as
\* soon as no label moved (asm/main.c, asm/ins/jmp.c).
THEOREM BranchesArriveCorrect == Spec => []BranchesArrive
<1>1. Init => AsmInv
  BY AsmInitInv
<1>2. AsmInv /\ [Next]_vars => AsmInv'
  BY Inductive
<1>3. AsmInv => BranchesArrive
  BY InvArrive
<1> QED
  BY <1>1, <1>2, <1>3, PTL DEF Spec
=============================================================================
