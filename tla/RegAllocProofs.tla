--------------------------- MODULE RegAllocProofs ---------------------------
(***************************************************************************)
(* Proofs about the register allocation, for functions of any length with  *)
(* any number of variables, registers and batches.                         *)
(*                                                                         *)
(* The argument: what calculate_df leaves is closed under its equations    *)
(* (Flowing, Solved), each map has every line its variables need (Placed), *)
(* so variables of one map need it at different lines (Apart); whatever    *)
(* has no register has bytes of its own (Stack).  When the function runs,  *)
(* a variable that is live, or that is in memory for good, is intact       *)
(* (Running).                                                              *)
(***************************************************************************)
EXTENDS RegAlloc, WellFoundedInduction, TLAPS

\* The library's theorem with the relation spelled out.
LEMMA NatWellFounded ==
  IsWellFoundedOn({p \in Nat \X Nat : p[1] < p[2]}, Nat)
BY NatLessThanWellFounded DEF OpToRel

\* A set of natural numbers that is not empty has a least element.
LEMMA LeastNat ==
  ASSUME NEW T, T \subseteq Nat, T # {}
  PROVE  \E x \in T : \A y \in T : x <= y
<1> DEFINE R == {p \in Nat \X Nat : p[1] < p[2]}
<1>1. \E x \in T : \A y \in T : ~(<<y, x>> \in R)
  <2>1. IsWellFoundedOn(R, Nat)
    BY NatWellFounded
  <2> HIDE DEF R
  <2>2. QED
    BY <2>1, WFMin, Zenon
<1>2. PICK x \in T : \A y \in T : ~(<<y, x>> \in R)
  BY <1>1
<1>3. ASSUME NEW y \in T
      PROVE  x <= y
  <2>1. x \in Nat /\ y \in Nat /\ ~(<<y, x>> \in R)
    BY <1>2
  <2>2. ~(y < x)
    BY <2>1
  <2>3. QED
    BY <2>1, <2>2
<1>4. QED
  BY <1>3

Solves(v) == \A i \in Lines : LiveIn(v, i) => i \in live[v]

\* reg_init has not yet met the declaration of a variable without register.
Here == IF phase = "scan" THEN line ELSE resume
Seen ==
  phase \in {"scan", "flow", "fit"} =>
    \A v \in Vars, i \in Lines :
      code[i].local = v /\ (reg[v] # NoReg \/ v \in InBatch) => i < Here

Collected ==
  /\ \A v \in InBatch : v \notin Mem
  /\ \A v \in Vars : reg[v] # NoReg => v \notin Mem
  /\ phase \in {"scan", "flow"} => \A v \in InBatch : reg[v] = NoReg
  /\ phase # "fit" => fitting = 0

Flowing ==
  phase = "flow" /\ ~changed =>
    \A v \in InBatch, i \in Lines : i < line /\ LiveIn(v, i) => i \in live[v]

Solved == phase = "fit" => \A v \in InBatch : Solves(v)

Placed ==
  \A v \in Vars : reg[v] # NoReg =>
    /\ Solves(v)
    /\ \E q \in DOMAIN maps : maps[q].n = reg[v] /\ VarMap(v) \subseteq maps[q].bits

Apart ==
  \A v, w \in Vars : v # w /\ reg[v] # NoReg /\ reg[v] = reg[w] => VarMap(v) \cap VarMap(w) = {}

MapsApart ==
  \A q, r \in DOMAIN maps : maps[q].n < Len(maps) /\ (maps[q].n = maps[r].n => q = r)

ArgsLoaded ==
  /\ \A v \in Args : reg[v] # NoReg => reg[v] < Regs /\ argMap[reg[v]] = v
  /\ \A n \in 0..(Regs - 1) : argMap[n] # None => n < Len(maps)

Passed(v) == phase = "run" \/ \E i \in Lines : i < line /\ code[i].local = v
OwnBytes(v) == v \in Vars \ Args /\ reg[v] = NoReg /\ Passed(v)

OwnPlaces ==
  /\ frame % 16 = 0
  /\ \A v \in Vars : OwnBytes(v) => frame <= off[v]
  /\ \A v, w \in Vars : OwnBytes(v) /\ OwnBytes(w) /\ v # w =>
       off[v] + Size[v] <= off[w] \/ off[w] + Size[w] <= off[v]

Stack ==
  /\ frame % 16 = 0
  /\ phase \in {"layout", "run"} =>
       /\ OwnPlaces
       /\ \A v \in Vars \ Args : reg[v] # NoReg /\ Passed(v) => reg[v] <= topReg
       /\ \A i \in Lines : /\ phase = "run" \/ i < line
                           /\ code[i].op = 11
                           /\ code[i].a[2] \in Vars
                           => reg[code[i].a[2]] = NoReg
  /\ phase = "run" => stackSize + SlotBytes <= frame

Running ==
  phase = "run" => \A v \in written : reg[v] = NoReg \/ line \in live[v] => v \in intact

AllocInv ==
  /\ code \in Functions /\ TypeOK
  /\ Seen /\ Collected
  /\ Flowing /\ Solved
  /\ Placed /\ Apart /\ MapsApart /\ ArgsLoaded
  /\ Stack /\ Running

-----------------------------------------------------------------------------
(***************************************************************************)
(* Functions and maps.                                                     *)
(***************************************************************************)
\* What the assumption says of the function that is compiled.
LEMMA CodeFacts ==
  ASSUME code \in Functions
  PROVE  /\ Len(code) \in Nat
         /\ \A i \in Lines :
              /\ code[i].op \in {0, 1, 2, 3, 4, 5, 6, 7, 8, 9, 10, 11, 12, 13, 14, 17}
              /\ code[i].a \in [1..3 -> Vars \cup {None}]
              /\ code[i].branch \in Lines \cup {None}
              /\ code[i].local \in Vars \cup {None}
              /\ code[i].local # None => code[i].op = 0
              /\ Succ(i) \subseteq Lines
              /\ Use(i) \subseteq Vars \cup {None}
              /\ Stored(i) \subseteq Vars \cup {None}
<1>1. code \in Seq(Line(Len(code)))
  BY FunctionsAssumption
<1>2. Len(code) \in Nat
  BY <1>1
<1>3. ASSUME NEW i \in Lines
      PROVE  /\ code[i].op \in {0, 1, 2, 3, 4, 5, 6, 7, 8, 9, 10, 11, 12, 13, 14, 17}
             /\ code[i].a \in [1..3 -> Vars \cup {None}]
             /\ code[i].branch \in Lines \cup {None}
             /\ code[i].local \in Vars \cup {None}
             /\ code[i].local # None => code[i].op = 0
  <2>1. code[i] \in Line(Len(code))
    BY <1>1, <1>3 DEF Lines
  <2>2. code[i].local # None => code[i].op = 0
    BY <1>3, FunctionsAssumption DEF Lines
  <2>3. QED
    BY <2>1, <2>2 DEF Line, Lines
<1>4. ASSUME NEW i \in Lines
      PROVE  /\ Use(i) \subseteq Vars \cup {None}
             /\ Stored(i) \subseteq Vars \cup {None}
  BY <1>3 DEF Use, Stored
<1>5. \A i \in Lines : Succ(i) \subseteq Lines
  BY DEF Succ
<1>6. QED
  BY <1>2, <1>3, <1>4, <1>5

\* A variable is declared at one line, before the lines that name it.
LEMMA DeclarationFacts ==
  ASSUME code \in Functions, NEW v \in Vars
  PROVE  \E i \in Lines : /\ code[i].local = v
                          /\ \A j \in Lines : /\ code[j].local = v => j = i
                                              /\ j < i => \A x \in 1..3 : code[j].a[x] # v
BY FunctionsAssumption DEF Lines

\* Sorting only moves the maps.
LEMMA SortedFacts ==
  ASSUME NEW ms \in Seq(RegMap), NEW q \in 1..Len(ms)
  PROVE  /\ Sorted(ms, q) \in Seq(RegMap)
         /\ Len(Sorted(ms, q)) = Len(ms)
         /\ \A k \in 1..Len(ms) : \E i \in 1..Len(ms) : Sorted(ms, q)[i] = ms[k]
         /\ \E f \in [1..Len(ms) -> 1..Len(ms)] :
              \A i, j \in 1..Len(ms) : Sorted(ms, q)[i] = ms[f[i]] /\ (f[i] = f[j] => i = j)
<1> DEFINE T == {i \in 1..q : i = q \/ ms[i].uses < ms[q].uses}
           P(i) == /\ i = q \/ ms[i].uses < ms[q].uses
                   /\ \A j \in 1..(i - 1) : ms[j].uses >= ms[q].uses
           p == CHOOSE i \in 1..q : P(i)
           move == [i \in 1..Len(ms) |-> IF i = p THEN q ELSE IF i \in (p + 1)..q THEN i - 1 ELSE i]
<1>0. Len(ms) \in Nat /\ q \in Nat /\ q >= 1 /\ q <= Len(ms)
  OBVIOUS
<1>1. \A i \in 1..Len(ms) : ms[i] \in RegMap /\ ms[i].uses \in Nat
  <2>1. \A m \in RegMap : m.uses \in Nat
    BY DEF RegMap
  <2>2. \A i \in 1..Len(ms) : ms[i] \in RegMap
    OBVIOUS
  <2>3. QED
    BY <2>1, <2>2
<1>2. \E i \in 1..q : P(i)
  <2>1. T \subseteq Nat /\ q \in T
    BY <1>0
  <2>2. PICK i \in T : \A j \in T : i <= j
    BY <2>1, LeastNat
  <2>3. \A j \in 1..(i - 1) : ms[j].uses >= ms[q].uses
    <3>1. TAKE j \in 1..(i - 1)
    <3>2. i \in 1..q /\ j \in 1..q /\ ~(i <= j)
      BY <1>0, <2>2
    <3>3. j \notin T
      BY <2>2, <3>2
    <3>4. ms[j].uses \in Nat /\ ms[q].uses \in Nat /\ ~(ms[j].uses < ms[q].uses)
      BY <1>0, <1>1, <3>2, <3>3
    <3>5. QED
      BY <3>4
  <2>4. QED
    BY <2>2, <2>3
<1>3. p \in 1..q
  BY <1>2, Zenon
<1> HIDE DEF p, T, P
<1>4. Sorted(ms, q) = [i \in 1..Len(ms) |-> IF i = p THEN ms[q] ELSE IF i \in (p + 1)..q THEN ms[i - 1] ELSE ms[i]]
  BY DEF Sorted, p, P
<1>5. move \in [1..Len(ms) -> 1..Len(ms)]
  BY <1>0, <1>3
<1>6. \A i \in 1..Len(ms) : Sorted(ms, q)[i] = ms[move[i]]
  BY <1>0, <1>3, <1>4
<1>7. \A i, j \in 1..Len(ms) : move[i] = move[j] => i = j
  BY <1>0, <1>3
<1>8. \A k \in 1..Len(ms) : \E i \in 1..Len(ms) : move[i] = k
  <2>1. TAKE k \in 1..Len(ms)
  <2>2. CASE k = q
    BY <1>0, <1>3, <2>2
  <2>3. CASE k \in p..(q - 1)
    <3>1. k + 1 \in 1..Len(ms) /\ move[k + 1] = k
      BY <1>0, <1>3, <2>3
    <3>2. QED
      BY <3>1
  <2>4. CASE k \notin p..q
    BY <1>0, <1>3, <2>4
  <2>5. QED
    BY <1>0, <1>3, <2>2, <2>3, <2>4
<1> HIDE DEF move
<1>9. DOMAIN Sorted(ms, q) = 1..Len(ms) /\ \A i \in 1..Len(ms) : Sorted(ms, q)[i] \in RegMap
  BY <1>1, <1>4, <1>5, <1>6
<1>10. Sorted(ms, q) \in [1..Len(ms) -> RegMap]
  BY <1>4, <1>9
<1>11. Sorted(ms, q) \in Seq(RegMap)
  BY <1>0, <1>10
<1>12. Len(Sorted(ms, q)) = Len(ms)
  BY <1>0, <1>9, <1>11
<1>13. \A k \in 1..Len(ms) : \E i \in 1..Len(ms) : Sorted(ms, q)[i] = ms[k]
  <2>1. TAKE k \in 1..Len(ms)
  <2>2. PICK i \in 1..Len(ms) : move[i] = k
    BY <1>8
  <2>3. Sorted(ms, q)[i] = ms[k]
    BY <1>6, <2>2
  <2>4. QED
    BY <2>3
<1>14. \E f \in [1..Len(ms) -> 1..Len(ms)] :
         \A i, j \in 1..Len(ms) : Sorted(ms, q)[i] = ms[f[i]] /\ (f[i] = f[j] => i = j)
  <2>1. WITNESS move \in [1..Len(ms) -> 1..Len(ms)]
  <2>2. QED
    BY <1>6, <1>7
<1>15. QED
  BY <1>11, <1>12, <1>13, <1>14

\* What is computed from the function, and from live for one variable,
\* stays while they do.
LEMMA SameLiveOf ==
  ASSUME code' = code
  PROVE  /\ Lines' = Lines
         /\ RegMap' = RegMap
         /\ \A i : Use(i)' = Use(i) /\ Stored(i)' = Stored(i) /\ Def(i)' = Def(i) /\ Succ(i)' = Succ(i)
         /\ \A v : live'[v] = live[v] => /\ VarMap(v)' = VarMap(v)
                                         /\ Solves(v)' <=> Solves(v)
                                         /\ \A i : LiveIn(v, i)' <=> LiveIn(v, i)
<1>1. Lines' = Lines
  BY DEF Lines
<1>2. \A i : Use(i)' = Use(i) /\ Stored(i)' = Stored(i)
  BY DEF Use, Stored
<1>3. \A i : Def(i)' = Def(i)
  BY <1>2 DEF Def
<1>4. \A i : Succ(i)' = Succ(i)
  BY <1>1 DEF Succ, Falls
<1>5. ASSUME NEW v, live'[v] = live[v]
      PROVE  /\ VarMap(v)' = VarMap(v)
             /\ Solves(v)' <=> Solves(v)
             /\ \A i : LiveIn(v, i)' <=> LiveIn(v, i)
  <2>1. \A i : LiveIn(v, i)' <=> LiveIn(v, i)
    BY <1>2, <1>3, <1>4, <1>5 DEF LiveIn
  <2>2. VarMap(v)' = VarMap(v)
    BY <1>1, <1>3, <1>5 DEF VarMap
  <2>3. Solves(v)' <=> Solves(v)
    BY <1>1, <1>5, <2>1 DEF Solves
  <2>4. QED
    BY <2>1, <2>2, <2>3
<1>6. RegMap' = RegMap
  BY <1>1 DEF RegMap
<1> QED
  BY <1>1, <1>2, <1>3, <1>4, <1>5, <1>6

LEMMA SameLive ==
  ASSUME code' = code, live' = live
  PROVE  /\ Lines' = Lines
         /\ RegMap' = RegMap
         /\ \A v : VarMap(v)' = VarMap(v)
         /\ \A v : Solves(v)' <=> Solves(v)
         /\ \A v, i : LiveIn(v, i)' <=> LiveIn(v, i)
BY SameLiveOf

-----------------------------------------------------------------------------
(***************************************************************************)
(* The steps of the compiler.                                              *)
(***************************************************************************)
\* A declaration put before the batch.
LEMMA FrontFacts ==
  ASSUME NEW s \in Seq(Vars), NEW u \in Vars
  PROVE  /\ <<u>> \o s \in Seq(Vars)
         /\ \A w \in {(<<u>> \o s)[i] : i \in DOMAIN (<<u>> \o s)} : w = u \/ w \in {s[i] : i \in DOMAIN s}
<1> DEFINE t == <<u>> \o s
<1>1. <<u>> \in Seq(Vars) /\ Len(<<u>>) = 1 /\ <<u>>[1] = u
  OBVIOUS
<1>2. t \in Seq(Vars) /\ Len(t) = 1 + Len(s) /\ Len(s) \in Nat
  BY <1>1
<1>3. \A i \in 1..Len(t) : t[i] = IF i <= 1 THEN u ELSE s[i - 1]
  BY <1>1, <1>2
<1>4. DOMAIN t = 1..Len(t) /\ DOMAIN s = 1..Len(s)
  BY <1>2
<1> HIDE DEF t
<1>5. ASSUME NEW i \in DOMAIN t
      PROVE  t[i] = u \/ \E j \in DOMAIN s : s[j] = t[i]
  <2>1. CASE i <= 1
    BY <1>3, <1>4, <2>1
  <2>2. CASE ~(i <= 1)
    <3>1. i - 1 \in DOMAIN s /\ t[i] = s[i - 1]
      BY <1>2, <1>3, <1>4, <2>2
    <3>2. QED
      BY <3>1
  <2>3. QED
    BY <2>1, <2>2
<1>6. QED
  BY <1>2, <1>5 DEF t

LEMMA ScanStep ==
  ASSUME AllocInv, Scan
  PROVE  AllocInv'
<1> DEFINE v == code[line].local
<1>0. /\ phase = "scan" /\ line \in Lines /\ code' = code /\ live' = live
      /\ UNCHANGED <<maps, reg, argMap, off, frame, lastSize, topReg, stackSize, written, intact, fitting>>
  BY DEF Scan, mapVars, stackVars, runVars
<1>1. /\ Lines' = Lines /\ RegMap' = RegMap
      /\ \A w : VarMap(w)' = VarMap(w)
      /\ \A w : Solves(w)' <=> Solves(w)
      /\ \A w, i : LiveIn(w, i)' <=> LiveIn(w, i)
  BY <1>0, SameLive
<1>2. Len(code) \in Nat /\ v \in Vars \cup {None}
  BY <1>0, CodeFacts DEF AllocInv
<1>3. \/ idList' = idList
      \/ v \in Vars \ Mem /\ idList' = <<v>> \o idList
  BY <1>0, <1>2 DEF Scan, Declared, Collects, StartGetReg, batchVars
<1>4. \/ phase' = "scan" /\ line' = line + 1 /\ changed' = changed /\ resume' = resume
      \/ phase' = "flow" /\ line' = 1 /\ changed' = FALSE /\ resume' = line + 1
  BY <1>0 DEF Scan, StartGetReg, batchVars
<1>5. count' \in 0..(Batch - 1)
  <2>1. count' = count \/ count' = 0 \/ (count' = count + 1 /\ count + 1 # Batch)
    BY DEF Scan, StartGetReg, batchVars
  <2>2. QED
    BY <2>1, BatchAssumption DEF AllocInv, TypeOK
<1>6. TypeOK'
  <2>1. idList' \in Seq(Vars)
    <3>1. idList \in Seq(Vars)
      BY DEF AllocInv, TypeOK
    <3>2. QED
      BY <1>3, <3>1, FrontFacts
  <2>2. line' \in 1..(Len(code) + 1) /\ resume' \in 1..(Len(code) + 1)
    BY <1>0, <1>2, <1>4 DEF AllocInv, TypeOK, Lines
  <2>3. changed' \in BOOLEAN /\ phase' \in {"scan", "flow", "fit", "layout", "run"}
    BY <1>4 DEF AllocInv, TypeOK
  <2>4. fitting' \in 0..Len(idList')
    BY <1>0, <2>1 DEF AllocInv, Collected
  <2>5. QED
    BY <1>0, <1>1, <1>5, <2>1, <2>2, <2>3, <2>4 DEF AllocInv, TypeOK
<1>7. \A w \in InBatch' : w \in InBatch \/ (w = v /\ v \in Vars \ Mem)
  <2>1. idList \in Seq(Vars)
    BY DEF AllocInv, TypeOK
  <2>2. CASE idList' = idList
    BY <2>2 DEF InBatch
  <2>3. CASE v \in Vars \ Mem /\ idList' = <<v>> \o idList
    BY <2>1, <2>3, FrontFacts DEF InBatch
  <2>4. QED
    BY <1>3, <2>2, <2>3
<1>8. Here' = Here + 1 /\ Here = line
  BY <1>0, <1>4 DEF Here, AllocInv, TypeOK
<1>9. \A w \in Vars, i \in Lines : code[i].local = w /\ (reg[w] # NoReg \/ w \in InBatch) => i < line
  BY <1>0, <1>8 DEF AllocInv, Seen
<1>10. ASSUME v \in Vars
       PROVE  reg[v] = NoReg
  BY <1>0, <1>2, <1>9, <1>10 DEF AllocInv, TypeOK
<1>11. Seen'
  <2>1. ASSUME NEW w \in Vars, NEW i \in Lines, code[i].local = w, reg[w] # NoReg \/ w \in InBatch'
        PROVE  i < line + 1
    <3>1. CASE reg[w] # NoReg \/ w \in InBatch
      BY <1>0, <1>2, <1>9, <2>1, <3>1 DEF Lines, AllocInv, TypeOK
    <3>2. CASE w = v /\ v \in Vars \ Mem
      <4>1. PICK d \in Lines : \A j \in Lines : code[j].local = w => j = d
        BY DeclarationFacts DEF AllocInv
      <4>2. i = d /\ line = d
        BY <1>0, <2>1, <3>2, <4>1
      <4>3. QED
        BY <1>2, <4>2 DEF Lines
    <3>3. QED
      BY <1>7, <2>1, <3>1, <3>2
  <2>2. QED
    BY <1>0, <1>1, <1>8, <2>1 DEF Seen
<1>12. Collected'
  BY <1>0, <1>4, <1>7, <1>10 DEF AllocInv, Collected
<1>13. Flowing' /\ Solved'
  <2>1. Solved'
    BY <1>4 DEF Solved
  <2>2. \A i \in Lines : ~(i < 1)
    BY <1>2 DEF Lines
  <2>3. QED
    BY <1>1, <1>4, <2>1, <2>2 DEF Flowing
<1>14. Placed' /\ Apart' /\ MapsApart' /\ ArgsLoaded'
  BY <1>0, <1>1 DEF AllocInv, Placed, Apart, MapsApart, ArgsLoaded
<1>15. Stack' /\ Running'
  BY <1>0, <1>4 DEF AllocInv, Stack, Running
<1>16. QED
  BY <1>0, <1>6, <1>11, <1>12, <1>13, <1>14, <1>15 DEF AllocInv

LEMMA EndOfFunctionStep ==
  ASSUME AllocInv, EndOfFunction
  PROVE  AllocInv'
<1>0. /\ phase = "scan" /\ line \notin Lines /\ code' = code /\ live' = live /\ idList' = idList
      /\ UNCHANGED <<maps, reg, argMap, off, frame, lastSize, topReg, stackSize, written, intact, fitting>>
  BY DEF EndOfFunction, mapVars, stackVars, runVars, batchVars
<1>1. /\ Lines' = Lines /\ RegMap' = RegMap
      /\ \A w : VarMap(w)' = VarMap(w)
      /\ \A w : Solves(w)' <=> Solves(w)
      /\ \A w, i : LiveIn(w, i)' <=> LiveIn(w, i)
  BY <1>0, SameLive
<1>2. Len(code) \in Nat
  BY CodeFacts DEF AllocInv
<1>3. \/ phase' = "flow" /\ line' = 1 /\ changed' = FALSE /\ resume' = line /\ count' = 0
      \/ phase' = "layout" /\ line' = 1 /\ changed' = changed /\ resume' = resume /\ count' = count
  BY <1>0 DEF EndOfFunction, StartGetReg, batchVars
<1>4. TypeOK'
  <2>1. line' \in 1..(Len(code) + 1) /\ resume' \in 1..(Len(code) + 1)
    BY <1>0, <1>2, <1>3 DEF AllocInv, TypeOK
  <2>2. count' \in 0..(Batch - 1) /\ changed' \in BOOLEAN /\ phase' \in {"scan", "flow", "fit", "layout", "run"}
    <3>1. count \in 0..(Batch - 1) /\ changed \in BOOLEAN
      BY DEF AllocInv, TypeOK
    <3>2. 0 \in 0..(Batch - 1)
      BY BatchAssumption
    <3>3. QED
      BY <1>3, <3>1, <3>2
  <2>3. QED
    BY <1>0, <1>1, <2>1, <2>2 DEF AllocInv, TypeOK
<1>5. Seen'
  BY <1>0, <1>1, <1>3 DEF AllocInv, Seen, Here, InBatch
<1>8. \A i \in Lines : ~(i < 1)
  BY <1>2 DEF Lines
<1>9. Flowing' /\ Solved'
  BY <1>1, <1>3, <1>8 DEF Flowing, Solved
<1>10. Placed' /\ Apart' /\ MapsApart' /\ ArgsLoaded'
  BY <1>0, <1>1 DEF AllocInv, Placed, Apart, MapsApart, ArgsLoaded
<1>11. Stack' /\ Running'
  BY <1>0, <1>1, <1>3, <1>8 DEF AllocInv, Stack, OwnPlaces, Running, OwnBytes, Passed
<1>12. Collected'
  BY <1>0, <1>3 DEF AllocInv, Collected, InBatch
<1> QED
  BY <1>0, <1>4, <1>5, <1>9, <1>10, <1>11, <1>12 DEF AllocInv

LEMMA FlowStep ==
  ASSUME AllocInv, Flow
  PROVE  AllocInv'
<1> DEFINE new == [v \in Vars |-> IF v \notin InBatch THEN live[v]
                                  ELSE IF LiveIn(v, line) THEN live[v] \cup {line} ELSE live[v] \ {line}]
<1>0. /\ phase = "flow" /\ line \in Lines /\ code' = code /\ phase' = phase /\ line' = line + 1
      /\ live' = new /\ changed' = (changed \/ new # live)
      /\ UNCHANGED <<idList, count, resume, fitting, maps, reg, argMap>>
      /\ UNCHANGED <<off, frame, lastSize, topReg, stackSize, written, intact>>
  BY DEF Flow, mapVars, stackVars, runVars, batchVars
<1>1. /\ Lines' = Lines /\ RegMap' = RegMap
      /\ \A w : live'[w] = live[w] => /\ VarMap(w)' = VarMap(w)
                                      /\ Solves(w)' <=> Solves(w)
                                      /\ \A i : LiveIn(w, i)' <=> LiveIn(w, i)
  BY <1>0, SameLiveOf
<1>2. Len(code) \in Nat
  BY CodeFacts DEF AllocInv
<1>3. live \in [Vars -> SUBSET Lines]
  BY DEF AllocInv, TypeOK
<1>4. \A v \in Vars : v \notin InBatch => live'[v] = live[v]
  BY <1>0
<1>5. \A v \in Vars : reg[v] # NoReg => v \notin InBatch
  BY <1>0 DEF AllocInv, Collected
<1>6. TypeOK'
  <2>1. live' \in [Vars -> SUBSET Lines]
    BY <1>0, <1>3
  <2>2. line' \in 1..(Len(code) + 1)
    BY <1>0, <1>2 DEF Lines
  <2>3. changed' \in BOOLEAN
    BY <1>0, Zenon DEF AllocInv, TypeOK
  <2>4. QED
    BY <1>0, <1>1, <2>1, <2>2, <2>3 DEF AllocInv, TypeOK
<1>7. Seen'
  BY <1>0, <1>1 DEF AllocInv, Seen, Here, InBatch
<1>8. Collected'
  BY <1>0 DEF AllocInv, Collected, InBatch
<1>9. Flowing'
  <2>1. SUFFICES ASSUME ~changed', NEW v \in InBatch', NEW i \in Lines', i < line', LiveIn(v, i)'
                 PROVE  i \in live'[v]
    BY DEF Flowing
  <2>2. ~changed /\ new = live
    BY <1>0, <2>1
  <2>3. v \in InBatch /\ v \in Vars /\ i \in Lines
    BY <1>0, <1>1, <2>1 DEF InBatch, AllocInv, TypeOK
  <2>4. live' = live /\ LiveIn(v, i)
    BY <1>0, <1>1, <2>1, <2>2
  <2>5. CASE i < line
    BY <1>0, <2>2, <2>3, <2>4, <2>5 DEF AllocInv, Flowing
  <2>6. CASE i = line
    <3>1. new[v] = live[v] \cup {line}
      BY <2>3, <2>4, <2>6
    <3>2. QED
      BY <2>2, <2>4, <2>6, <3>1
  <2>7. QED
    BY <1>0, <1>2, <2>1, <2>3, <2>5, <2>6 DEF Lines
<1>10. Solved'
  BY <1>0 DEF Solved
<1> HIDE DEF new
<1>11. Placed' /\ Apart'
  BY <1>0, <1>1, <1>4, <1>5 DEF AllocInv, Placed, Apart
<1>12. MapsApart' /\ ArgsLoaded'
  BY <1>0 DEF AllocInv, MapsApart, ArgsLoaded
<1>13. Stack' /\ Running'
  BY <1>0 DEF AllocInv, Stack, Running
<1> QED
  BY <1>0, <1>6, <1>7, <1>8, <1>9, <1>10, <1>11, <1>12, <1>13 DEF AllocInv

LEMMA FlowAgainStep ==
  ASSUME AllocInv, FlowAgain
  PROVE  AllocInv'
<1>0. /\ phase = "flow" /\ code' = code /\ phase' = phase /\ line' = 1 /\ live' = live /\ changed' = FALSE
      /\ UNCHANGED <<idList, count, resume, fitting, maps, reg, argMap>>
      /\ UNCHANGED <<off, frame, lastSize, topReg, stackSize, written, intact>>
  BY DEF FlowAgain, mapVars, stackVars, runVars, batchVars
<1>1. /\ Lines' = Lines /\ RegMap' = RegMap
      /\ \A w : VarMap(w)' = VarMap(w)
      /\ \A w : Solves(w)' <=> Solves(w)
  BY <1>0, SameLive
<1>2. Len(code) \in Nat /\ \A i \in Lines : ~(i < 1)
  BY CodeFacts DEF AllocInv, Lines
<1>3. TypeOK'
  <2>1. line' \in 1..(Len(code) + 1)
    BY <1>0, <1>2
  <2>2. QED
    BY <1>0, <1>1, <2>1 DEF AllocInv, TypeOK
<1>4. Seen'
  BY <1>0, <1>1 DEF AllocInv, Seen, Here, InBatch
<1>5. Collected'
  BY <1>0 DEF AllocInv, Collected, InBatch
<1>6. Flowing' /\ Solved'
  BY <1>0, <1>1, <1>2 DEF Flowing, Solved
<1>7. Placed' /\ Apart' /\ MapsApart' /\ ArgsLoaded'
  BY <1>0, <1>1 DEF AllocInv, Placed, Apart, MapsApart, ArgsLoaded
<1>8. Stack' /\ Running'
  BY <1>0 DEF AllocInv, Stack, Running
<1> QED
  BY <1>0, <1>3, <1>4, <1>5, <1>6, <1>7, <1>8 DEF AllocInv

LEMMA FlowDoneStep ==
  ASSUME AllocInv, FlowDone
  PROVE  AllocInv'
<1>0. /\ phase = "flow" /\ line \notin Lines /\ ~changed
      /\ code' = code /\ phase' = "fit" /\ line' = line /\ live' = live /\ changed' = changed
      /\ UNCHANGED <<idList, count, resume, fitting, maps, reg, argMap>>
      /\ UNCHANGED <<off, frame, lastSize, topReg, stackSize, written, intact>>
  BY DEF FlowDone, mapVars, stackVars, runVars, batchVars
<1>1. /\ Lines' = Lines /\ RegMap' = RegMap
      /\ \A w : VarMap(w)' = VarMap(w)
      /\ \A w : Solves(w)' <=> Solves(w)
  BY <1>0, SameLive
<1>2. \A i \in Lines : i < line
  BY <1>0, CodeFacts DEF AllocInv, TypeOK, Lines
<1>3. \A v \in InBatch : Solves(v)
  BY <1>0, <1>2 DEF AllocInv, Flowing, Solves
<1>4. TypeOK'
  BY <1>0, <1>1 DEF AllocInv, TypeOK
<1>5. Seen'
  BY <1>0, <1>1 DEF AllocInv, Seen, Here, InBatch
<1>6. Collected'
  BY <1>0 DEF AllocInv, Collected, InBatch
<1>7. Flowing' /\ Solved'
  BY <1>0, <1>1, <1>3 DEF Flowing, Solved, InBatch
<1>8. Placed' /\ Apart' /\ MapsApart' /\ ArgsLoaded'
  BY <1>0, <1>1 DEF AllocInv, Placed, Apart, MapsApart, ArgsLoaded
<1>9. Stack' /\ Running'
  BY <1>0 DEF AllocInv, Stack, Running
<1> QED
  BY <1>0, <1>4, <1>5, <1>6, <1>7, <1>8, <1>9 DEF AllocInv

LEMMA FitDoneStep ==
  ASSUME AllocInv, FitDone
  PROVE  AllocInv'
<1>0. /\ phase = "fit" /\ code' = code /\ phase' = "scan" /\ line' = resume /\ idList' = <<>> /\ fitting' = 0
      /\ UNCHANGED <<count, resume, live, changed, maps, reg, argMap>>
      /\ UNCHANGED <<off, frame, lastSize, topReg, stackSize, written, intact>>
  BY DEF FitDone, mapVars, stackVars, runVars
<1>1. /\ Lines' = Lines /\ RegMap' = RegMap
      /\ \A w : VarMap(w)' = VarMap(w)
      /\ \A w : Solves(w)' <=> Solves(w)
  BY <1>0, SameLive
<1>2. InBatch' = {}
  BY <1>0 DEF InBatch
<1>3. TypeOK'
  BY <1>0, <1>1 DEF AllocInv, TypeOK
<1>4. Seen'
  BY <1>0, <1>1, <1>2 DEF AllocInv, Seen, Here
<1>5. Collected'
  BY <1>0, <1>2 DEF AllocInv, Collected
<1>6. Flowing' /\ Solved'
  BY <1>0 DEF Flowing, Solved
<1>7. Placed' /\ Apart' /\ MapsApart' /\ ArgsLoaded'
  BY <1>0, <1>1 DEF AllocInv, Placed, Apart, MapsApart, ArgsLoaded
<1>8. Stack' /\ Running'
  BY <1>0 DEF AllocInv, Stack, Running
<1> QED
  BY <1>0, <1>3, <1>4, <1>5, <1>6, <1>7, <1>8 DEF AllocInv

\* A list of maps that the variables placed so far agree with.
MapsFor(ms) ==
  /\ ms \in Seq(RegMap)
  /\ \A q, r \in 1..Len(ms) : ms[q].n < Len(ms) /\ (ms[q].n = ms[r].n => q = r)
  /\ \A w \in Vars : reg[w] # NoReg =>
       \E q \in 1..Len(ms) : ms[q].n = reg[w] /\ VarMap(w) \subseteq ms[q].bits
  /\ \A n \in 0..(Regs - 1) : argMap[n] # None => n < Len(ms)

\* A variable is put in a map that suits it.
LEMMA GiveFacts ==
  ASSUME AllocInv, code' = code, live' = live,
         NEW v \in Vars, Solves(v),
         NEW ms, MapsFor(ms),
         NEW q \in 1..Len(ms), Suits(ms[q], v), Give(v, ms, q)
  PROVE  /\ maps' \in Seq(RegMap)
         /\ reg' \in [Vars -> Nat \cup {NoReg}]
         /\ argMap' \in [0..(Regs - 1) -> Args \cup {None}]
         /\ \A w \in Vars : reg'[w] # NoReg => reg[w] # NoReg \/ w = v
         /\ Placed' /\ Apart' /\ MapsApart' /\ ArgsLoaded'
<1> DEFINE n == ms[q].n
           given == [ms EXCEPT ![q] = UseReg(ms[q], v)]
<1>0. /\ Lines' = Lines /\ RegMap' = RegMap
      /\ \A w : VarMap(w)' = VarMap(w)
      /\ \A w : Solves(w)' <=> Solves(w)
  BY SameLive
<1>1. /\ ms \in Seq(RegMap) /\ Len(ms) \in Nat /\ ms[q] \in RegMap
      /\ reg \in [Vars -> Nat \cup {NoReg}]
      /\ argMap \in [0..(Regs - 1) -> Args \cup {None}]
      /\ v \in Vars /\ Regs \in Nat
  <2>1. ms \in Seq(RegMap)
    BY DEF MapsFor
  <2>2. Len(ms) \in Nat /\ ms[q] \in RegMap
    BY <2>1
  <2>3. QED
    BY <2>1, <2>2, BatchAssumption DEF AllocInv, TypeOK
<1>2. n \in Nat /\ n # NoReg /\ ms[q].bits \subseteq Lines /\ VarMap(v) \subseteq Lines
  BY <1>1 DEF RegMap, VarMap, NoReg
<1>3. CASE ~Assigned(n, v)
  <2>1. maps' = ms /\ reg' = reg /\ argMap' = argMap
    BY <1>3 DEF Give
  <2>2. DOMAIN ms = 1..Len(ms)
    BY <1>1
  <2>3. Placed' /\ Apart' /\ MapsApart' /\ ArgsLoaded'
    BY <1>0, <2>1, <2>2 DEF AllocInv, MapsFor, Placed, Apart, MapsApart, ArgsLoaded
  <2>4. QED
    BY <1>1, <2>1, <2>3
<1>4. CASE Assigned(n, v)
  <2>1. /\ reg' = [reg EXCEPT ![v] = n]
        /\ argMap' = IF v \in Args THEN [argMap EXCEPT ![n] = v] ELSE argMap
        /\ maps' = Sorted(given, q)
    BY <1>4 DEF Give
  <2>2. UseReg(ms[q], v) \in RegMap /\ UseReg(ms[q], v).n = n /\ UseReg(ms[q], v).bits = ms[q].bits \cup VarMap(v)
    BY <1>1, <1>2 DEF UseReg, RegMap
  <2>3. given \in Seq(RegMap) /\ Len(given) = Len(ms) /\ \A i \in 1..Len(ms) : given[i] = IF i = q THEN UseReg(ms[q], v) ELSE ms[i]
    BY <1>1, <2>2
  <2>4. /\ maps' \in Seq(RegMap) /\ Len(maps') = Len(ms)
        /\ \A k \in 1..Len(ms) : \E i \in 1..Len(ms) : maps'[i] = given[k]
        /\ \E f \in [1..Len(ms) -> 1..Len(ms)] :
             \A i, j \in 1..Len(ms) : maps'[i] = given[f[i]] /\ (f[i] = f[j] => i = j)
    <3> HIDE DEF given
    <3>1. q \in 1..Len(given)
      BY <2>3
    <3>2. /\ Sorted(given, q) \in Seq(RegMap) /\ Len(Sorted(given, q)) = Len(given)
          /\ \A k \in 1..Len(given) : \E i \in 1..Len(given) : Sorted(given, q)[i] = given[k]
          /\ \E f \in [1..Len(given) -> 1..Len(given)] :
               \A i, j \in 1..Len(given) : Sorted(given, q)[i] = given[f[i]] /\ (f[i] = f[j] => i = j)
      BY <2>3, <3>1, SortedFacts, Zenon
    <3>3. Len(given) = Len(ms) /\ maps' = Sorted(given, q)
      BY <2>1, <2>3
    <3>4. maps' \in Seq(RegMap) /\ Len(maps') = Len(ms)
      BY <3>2, <3>3
    <3>5. \A k \in 1..Len(ms) : \E i \in 1..Len(ms) : maps'[i] = given[k]
      BY <3>2, <3>3
    <3>6. PICK f \in [1..Len(given) -> 1..Len(given)] :
             \A i, j \in 1..Len(given) : Sorted(given, q)[i] = given[f[i]] /\ (f[i] = f[j] => i = j)
      BY <3>2
    <3>7. /\ f \in [1..Len(ms) -> 1..Len(ms)]
          /\ \A i, j \in 1..Len(ms) : maps'[i] = given[f[i]] /\ (f[i] = f[j] => i = j)
      BY <3>3, <3>6
    <3>8. QED
      BY <3>4, <3>5, <3>7
  <2> HIDE DEF given
  <2>5. DOMAIN maps' = 1..Len(ms)
    BY <2>4
  <2>6. \A i \in 1..Len(ms) : given[i].n = ms[i].n
    BY <2>2, <2>3
  <2>7. MapsApart'
    <3>1. PICK f \in [1..Len(ms) -> 1..Len(ms)] :
             \A i, j \in 1..Len(ms) : maps'[i] = given[f[i]] /\ (f[i] = f[j] => i = j)
      BY <2>4
    <3>2. \A i \in 1..Len(ms) : f[i] \in 1..Len(ms) /\ maps'[i].n = ms[f[i]].n
      BY <2>6, <3>1
    <3>3. ASSUME NEW i \in 1..Len(ms), NEW j \in 1..Len(ms)
          PROVE  maps'[i].n < Len(ms) /\ (maps'[i].n = maps'[j].n => i = j)
      <4>1. f[i] \in 1..Len(ms) /\ f[j] \in 1..Len(ms)
        BY <3>2, <3>3
      <4>2. maps'[i].n = ms[f[i]].n /\ maps'[j].n = ms[f[j]].n
        BY <3>2, <3>3
      <4>3. ms[f[i]].n < Len(ms) /\ (ms[f[i]].n = ms[f[j]].n => f[i] = f[j])
        BY <4>1 DEF MapsFor
      <4>4. f[i] = f[j] => i = j
        BY <3>1, <3>3
      <4>5. QED
        BY <4>2, <4>3, <4>4
    <3>4. QED
      BY <2>4, <2>5, <3>3 DEF MapsApart
  <2>8. \A w \in Vars : reg'[w] = IF w = v THEN n ELSE reg[w]
    BY <1>1, <2>1
  <2>9. ASSUME NEW w \in Vars, reg'[w] # NoReg
        PROVE  /\ Solves(w)
               /\ \E i \in 1..Len(ms) : maps'[i].n = reg'[w] /\ VarMap(w) \subseteq maps'[i].bits
    <3>1. Solves(w)
      BY <2>8, <2>9 DEF AllocInv, Placed
    <3>2. \E k \in 1..Len(ms) : given[k].n = reg'[w] /\ VarMap(w) \subseteq given[k].bits
      <4>1. CASE w = v
        BY <2>2, <2>3, <2>8, <4>1
      <4>2. CASE w # v
        <5>1. PICK k \in 1..Len(ms) : ms[k].n = reg[w] /\ VarMap(w) \subseteq ms[k].bits
          BY <2>8, <2>9, <4>2 DEF MapsFor
        <5>2. given[k].n = reg'[w] /\ VarMap(w) \subseteq given[k].bits
          BY <2>2, <2>3, <2>6, <2>8, <4>2, <5>1
        <5>3. QED
          BY <5>2
      <4>3. QED
        BY <4>1, <4>2
    <3>3. PICK k \in 1..Len(ms) : given[k].n = reg'[w] /\ VarMap(w) \subseteq given[k].bits
      BY <3>2
    <3>4. PICK i \in 1..Len(ms) : maps'[i] = given[k]
      BY <2>4
    <3>5. maps'[i].n = reg'[w] /\ VarMap(w) \subseteq maps'[i].bits
      BY <3>3, <3>4
    <3>6. QED
      BY <3>1, <3>5
  <2>10. Placed'
    BY <1>0, <2>5, <2>9 DEF Placed
  <2>11. ASSUME NEW w \in Vars, w # v, reg[w] = n
         PROVE  VarMap(w) \cap VarMap(v) = {}
    <3>1. PICK k \in 1..Len(ms) : ms[k].n = reg[w] /\ VarMap(w) \subseteq ms[k].bits
      BY <1>2, <2>11 DEF MapsFor
    <3>2. k = q
      BY <2>11, <3>1 DEF MapsFor
    <3>3. QED
      BY <3>1, <3>2 DEF Suits, Available
  <2>12. Apart'
    <3>1. ASSUME NEW u \in Vars, NEW w \in Vars, u # w, reg'[u] # NoReg, reg'[u] = reg'[w]
          PROVE  VarMap(u) \cap VarMap(w) = {}
      <4>1. CASE u = v
        BY <2>8, <2>11, <3>1, <4>1
      <4>2. CASE w = v
        BY <2>8, <2>11, <3>1, <4>2
      <4>3. CASE u # v /\ w # v
        BY <2>8, <3>1, <4>3 DEF AllocInv, Apart
      <4>4. QED
        BY <4>1, <4>2, <4>3
    <3>2. QED
      BY <1>0, <3>1 DEF Apart
  <2>13. v \in Args => n \in 0..(Regs - 1) /\ argMap[n] = None
    BY <1>1, <1>2, <1>4 DEF Assigned, Suits
  <2>14. argMap' \in [0..(Regs - 1) -> Args \cup {None}]
    BY <1>1, <2>1, <2>13
  <2>15. ArgsLoaded'
    <3>1. ASSUME NEW a \in Args, reg'[a] # NoReg
          PROVE  reg'[a] < Regs /\ argMap'[reg'[a]] = a
      <4>1. a \in Vars
        BY VarsAssumption
      <4>2. CASE a = v
        <5>1. n \in 0..(Regs - 1) /\ reg'[a] = n /\ argMap' = [argMap EXCEPT ![n] = v]
          BY <2>1, <2>8, <2>13, <3>1, <4>1, <4>2
        <5>2. argMap'[n] = v /\ n < Regs
          BY <1>1, <5>1
        <5>3. QED
          BY <4>2, <5>1, <5>2
      <4>3. CASE a # v
        <5>1. reg'[a] = reg[a] /\ reg[a] \in 0..(Regs - 1) /\ argMap[reg[a]] = a
          BY <1>1, <2>8, <3>1, <4>1, <4>3 DEF AllocInv, ArgsLoaded
        <5>2. a # None
          BY <4>1, VarsAssumption
        <5>3. v \in Args => reg[a] # n
          BY <2>13, <5>1, <5>2
        <5>4. argMap'[reg[a]] = argMap[reg[a]]
          BY <1>1, <2>1, <5>1, <5>3
        <5>5. QED
          BY <5>1, <5>4, BatchAssumption
      <4>4. QED
        BY <4>2, <4>3
    <3>2. ASSUME NEW k \in 0..(Regs - 1), argMap'[k] # None
          PROVE  k < Len(maps')
      <4>1. n < Len(ms)
        BY DEF MapsFor
      <4>2. k = n \/ argMap[k] # None
        BY <1>1, <2>1, <3>2
      <4>3. QED
        BY <2>4, <4>1, <4>2 DEF MapsFor
    <3>3. QED
      BY <3>1, <3>2 DEF ArgsLoaded
  <2>16. reg' \in [Vars -> Nat \cup {NoReg}]
    BY <1>1, <1>2, <2>1
  <2>17. QED
    BY <2>4, <2>7, <2>8, <2>10, <2>12, <2>14, <2>15, <2>16
<1>5. QED
  BY <1>3, <1>4

LEMMA FitStep ==
  ASSUME AllocInv, Fit
  PROVE  AllocInv'
<1> DEFINE v == idList[fitting + 1]
           more == Append(maps, NewRegMap)
<1>0. /\ phase = "fit" /\ fitting < Len(idList) /\ fitting' = fitting + 1
      /\ code' = code /\ phase' = phase /\ line' = line /\ live' = live /\ changed' = changed
      /\ UNCHANGED <<idList, count, resume, off, frame, lastSize, topReg, stackSize, written, intact>>
  BY DEF Fit, batchVars, stackVars, runVars
<1>1. /\ Lines' = Lines /\ RegMap' = RegMap
      /\ \A w : VarMap(w)' = VarMap(w)
      /\ \A w : Solves(w)' <=> Solves(w)
  BY <1>0, SameLive
<1>2. idList \in Seq(Vars) /\ fitting \in Nat /\ Len(idList) \in Nat
  BY DEF AllocInv, TypeOK
<1>3. fitting + 1 \in DOMAIN idList
  BY <1>0, <1>2
<1>4. v \in Vars /\ v \in InBatch
  BY <1>2, <1>3 DEF InBatch
<1>5. Solves(v) /\ v \notin Mem
  BY <1>0, <1>4 DEF AllocInv, Solved, Collected
<1>6. maps \in Seq(RegMap) /\ Len(maps) \in Nat /\ DOMAIN maps = 1..Len(maps)
  BY DEF AllocInv, TypeOK
<1>7. MapsFor(maps)
  BY <1>6 DEF MapsFor, AllocInv, MapsApart, Placed, ArgsLoaded
<1>8. /\ maps' \in Seq(RegMap)
      /\ reg' \in [Vars -> Nat \cup {NoReg}]
      /\ argMap' \in [0..(Regs - 1) -> Args \cup {None}]
      /\ \A w \in Vars : reg'[w] # NoReg => reg[w] # NoReg \/ w = v
      /\ Placed' /\ Apart' /\ MapsApart' /\ ArgsLoaded'
  <2>1. CASE FirstFit(v) # {}
    <3>1. PICK q \in FirstFit(v) : Give(v, maps, q)
      BY <2>1 DEF Fit
    <3>2. q \in 1..Len(maps) /\ Suits(maps[q], v)
      BY <1>6, <3>1 DEF FirstFit
    <3> HIDE DEF v
    <3>3. QED
      BY <1>0, <1>4, <1>5, <1>7, <3>1, <3>2, GiveFacts
  <2>2. CASE FirstFit(v) = {}
    <3>1. Give(v, more, Len(maps) + 1)
      BY <2>2 DEF Fit
    <3>2. NewRegMap \in RegMap /\ NewRegMap.n = Len(maps) /\ NewRegMap.bits = {}
      BY <1>6 DEF NewRegMap, RegMap
    <3>3. /\ more \in Seq(RegMap) /\ Len(more) = Len(maps) + 1 /\ more[Len(maps) + 1] = NewRegMap
          /\ \A i \in 1..Len(maps) : more[i] = maps[i]
      BY <1>6, <3>2
    <3> HIDE DEF v, more
    <3>4. \A i \in 1..Len(more) : i \in 1..Len(maps) \/ i = Len(maps) + 1
      BY <1>6, <3>3
    <3>5. \A i \in 1..Len(maps) : maps[i].n \in Nat
      <4>1. \A m \in RegMap : m.n \in Nat
        BY DEF RegMap
      <4>2. \A i \in 1..Len(maps) : maps[i] \in RegMap
        BY <1>6
      <4>3. QED
        BY <4>1, <4>2
    <3>6. ASSUME NEW q \in 1..Len(more), NEW r \in 1..Len(more)
          PROVE  more[q].n < Len(more) /\ (more[q].n = more[r].n => q = r)
      <4>1. \A i, j \in 1..Len(maps) : maps[i].n < Len(maps) /\ (maps[i].n = maps[j].n => i = j)
        BY <1>7 DEF MapsFor
      <4>2. CASE q \in 1..Len(maps) /\ r \in 1..Len(maps)
        BY <1>6, <3>3, <3>5, <4>1, <4>2
      <4>3. CASE q \in 1..Len(maps) /\ r = Len(maps) + 1
        BY <1>6, <3>2, <3>3, <3>5, <4>1, <4>3
      <4>4. CASE q = Len(maps) + 1 /\ r \in 1..Len(maps)
        BY <1>6, <3>2, <3>3, <3>5, <4>1, <4>4
      <4>5. CASE q = Len(maps) + 1 /\ r = Len(maps) + 1
        BY <1>6, <3>2, <3>3, <4>5
      <4>6. QED
        BY <3>4, <4>2, <4>3, <4>4, <4>5
    <3>7. ASSUME NEW w \in Vars, reg[w] # NoReg
          PROVE  \E q \in 1..Len(more) : more[q].n = reg[w] /\ VarMap(w) \subseteq more[q].bits
      <4>1. PICK q \in 1..Len(maps) : maps[q].n = reg[w] /\ VarMap(w) \subseteq maps[q].bits
        BY <1>7, <3>7 DEF MapsFor
      <4>2. q \in 1..Len(more) /\ more[q] = maps[q]
        BY <1>6, <3>3
      <4>3. QED
        BY <4>1, <4>2
    <3>8. MapsFor(more)
      <4>1. ASSUME NEW n \in 0..(Regs - 1), argMap[n] # None
            PROVE  n < Len(more)
        BY <1>6, <1>7, <3>3, <4>1, BatchAssumption DEF MapsFor
      <4>2. QED
        BY <3>3, <3>6, <3>7, <4>1 DEF MapsFor
    <3>9. Suits(more[Len(maps) + 1], v)
      <4>1. more[Len(maps) + 1].bits = {} /\ more[Len(maps) + 1].n = Len(maps)
        BY <3>2, <3>3
      <4>2. ~(Len(maps) >= Regs) => argMap[Len(maps)] = None
        <5>1. \A n \in 0..(Regs - 1) : argMap[n] # None => n < Len(maps)
          BY <1>7 DEF MapsFor
        <5>2. QED
          BY <1>6, <5>1, BatchAssumption
      <4>3. QED
        BY <4>1, <4>2 DEF Suits, Available
    <3>10. Len(maps) + 1 \in 1..Len(more)
      BY <1>6, <3>3
    <3>11. QED
      BY <1>0, <1>4, <1>5, <3>1, <3>8, <3>9, <3>10, GiveFacts
  <2>3. QED
    BY <2>1, <2>2
<1>9. TypeOK'
  BY <1>0, <1>1, <1>2, <1>3, <1>8 DEF AllocInv, TypeOK
<1>10. Seen'
  BY <1>0, <1>1, <1>4, <1>8 DEF AllocInv, Seen, Here, InBatch
<1>11. Collected'
  BY <1>0, <1>5, <1>8 DEF AllocInv, Collected, InBatch
<1>12. Flowing' /\ Solved'
  BY <1>0, <1>1 DEF AllocInv, Flowing, Solved, InBatch
<1>13. Stack' /\ Running'
  BY <1>0 DEF AllocInv, Stack, Running
<1> QED
  BY <1>0, <1>8, <1>9, <1>10, <1>11, <1>12, <1>13 DEF AllocInv

\* Whatever the size, the next place is below the last and ends above it.
LEMMA DownFacts ==
  ASSUME NEW bytes \in Nat \ {0}, frame \in Int, frame % 16 = 0
  PROVE  /\ Down(bytes) \in Int
         /\ Down(bytes) % 16 = 0
         /\ Down(bytes) + bytes <= frame
         /\ Down(bytes) + 16 <= frame
<1> DEFINE k == (frame - bytes) \div 16
<1>1. k \in Int /\ 16 * k <= frame - bytes /\ frame - bytes < 16 * k + 16
  OBVIOUS
<1>2. Down(bytes) = 16 * k
  BY DEF Down, Align
<1>3. frame = 16 * (frame \div 16) /\ frame \div 16 \in Int
  OBVIOUS
<1> HIDE DEF k
<1>4. k < frame \div 16
  BY <1>1, <1>3
<1>5. (16 * k) % 16 = 0
  BY <1>1
<1>6. QED
  BY <1>1, <1>2, <1>3, <1>4, <1>5

\* A new place has its bytes to itself.
LEMMA PlaceFacts ==
  ASSUME AllocInv, phase = "layout",
         NEW w \in Vars, NEW bytes \in Nat \ {0}, Place(w, bytes),
         Size[w] <= bytes \/ Size[w] <= 16,
         \A v \in Vars : OwnBytes(v)' => OwnBytes(v) \/ v = w
  PROVE  off' \in [Vars -> Int] /\ frame' \in Int /\ OwnPlaces'
<1>1. off \in [Vars -> Int] /\ frame \in Int /\ frame % 16 = 0
  BY DEF AllocInv, TypeOK, Stack
<1>2. /\ frame' = Down(bytes) /\ off' = [off EXCEPT ![w] = Down(bytes)]
      /\ Down(bytes) \in Int /\ Down(bytes) % 16 = 0
      /\ Down(bytes) + bytes <= frame /\ Down(bytes) + 16 <= frame
  BY <1>1, DownFacts DEF Place
<1>3. \A v \in Vars : Size[v] \in Nat
  BY VarsAssumption
<1>4. Down(bytes) + Size[w] <= frame
  BY <1>1, <1>2, <1>3
<1>5. \A v \in Vars : off[v] \in Int /\ off'[v] = IF v = w THEN Down(bytes) ELSE off[v]
  BY <1>1, <1>2
<1>6. ASSUME NEW v \in Vars, OwnBytes(v)', v # w
      PROVE  frame <= off[v] /\ off'[v] = off[v] /\ OwnBytes(v)
  BY <1>5, <1>6 DEF AllocInv, Stack, OwnPlaces
<1>7. \A v \in Vars : OwnBytes(v)' => frame' <= off'[v]
  BY <1>1, <1>2, <1>5, <1>6
<1>8. ASSUME NEW u \in Vars, NEW v \in Vars, OwnBytes(u)', OwnBytes(v)', u # v
      PROVE  off'[u] + Size[u] <= off'[v] \/ off'[v] + Size[v] <= off'[u]
  <2>1. CASE u = w
    BY <1>1, <1>2, <1>3, <1>4, <1>5, <1>6, <1>8, <2>1
  <2>2. CASE v = w
    BY <1>1, <1>2, <1>3, <1>4, <1>5, <1>6, <1>8, <2>2
  <2>3. CASE u # w /\ v # w
    BY <1>6, <1>8, <2>3 DEF AllocInv, Stack, OwnPlaces
  <2>4. QED
    BY <2>1, <2>2, <2>3
<1>9. off' \in [Vars -> Int]
  BY <1>1, <1>2
<1>10. QED
  BY <1>2, <1>7, <1>8, <1>9 DEF OwnPlaces

LEMMA LayoutStep ==
  ASSUME AllocInv, Layout
  PROVE  AllocInv'
<1> DEFINE v == code[line].local
           u == code[line].a[2]
<1>0. /\ phase = "layout" /\ line \in Lines /\ code' = code /\ phase' = phase /\ line' = line + 1 /\ live' = live
      /\ UNCHANGED <<idList, count, resume, changed, fitting, maps, argMap, stackSize, written, intact>>
  BY DEF Layout, batchVars, runVars
<1>1. /\ Lines' = Lines /\ RegMap' = RegMap
      /\ \A w : VarMap(w)' = VarMap(w)
      /\ \A w : Solves(w)' <=> Solves(w)
  BY <1>0, SameLive
<1>2. /\ Len(code) \in Nat /\ line \in Nat
      /\ v \in Vars \cup {None} /\ u \in Vars \cup {None}
      /\ v # None => code[line].op = 0
      /\ \A i \in Lines : i \in Nat
  BY <1>0, CodeFacts DEF AllocInv, Lines
<1>3. /\ reg \in [Vars -> Nat \cup {NoReg}] /\ off \in [Vars -> Int] /\ frame \in Int
      /\ lastSize \in Nat \ {0} /\ topReg \in Nat
  BY DEF AllocInv, TypeOK
<1>4. /\ Args \subseteq Vars /\ None \notin Vars /\ \A w \in Vars : Size[w] \in Nat \ {0}
      /\ \A w \in Vars \ Mem : Size[w] <= 8
  BY VarsAssumption
<1> HIDE DEF v, u
<1>5. \/ v # None /\ LayLocal(v)
      \/ v = None /\ code[line].op = 11 /\ LayAddress(u)
      \/ v = None /\ code[line].op # 11 /\ UNCHANGED <<reg, off, frame, lastSize, topReg>>
  BY <1>0 DEF Layout, v, u
<1>6. \A w \in Vars : reg'[w] = reg[w] \/ reg'[w] = NoReg
  BY <1>3, <1>5 DEF LayLocal, LayAddress
<1>7. reg' \in [Vars -> Nat \cup {NoReg}]
  BY <1>3, <1>5 DEF LayLocal, LayAddress
<1>8. \A w : Passed(w)' <=> Passed(w) \/ w = v
  <2>1. \A w : Passed(w)' <=> \E i \in Lines : i < line + 1 /\ code[i].local = w
    BY <1>0, <1>1 DEF Passed
  <2>2. \A w : Passed(w) <=> \E i \in Lines : i < line /\ code[i].local = w
    BY <1>0 DEF Passed
  <2>3. \A i \in Lines : i < line + 1 <=> i < line \/ i = line
    BY <1>2
  <2>4. QED
    BY <1>0, <2>1, <2>2, <2>3 DEF v
<1>9. \A w : OwnBytes(w)' <=> w \in Vars \ Args /\ reg'[w] = NoReg /\ (Passed(w) \/ w = v)
  BY <1>8 DEF OwnBytes
\* An address is taken after the declaration.
<1>10. u \in Vars /\ code[line].op = 11 => Passed(u)
  <2>1. SUFFICES ASSUME u \in Vars, code[line].op = 11 PROVE Passed(u)
    OBVIOUS
  <2>2. PICK d \in Lines : /\ code[d].local = u
                           /\ \A j \in Lines : j < d => \A x \in 1..3 : code[j].a[x] # u
    BY <2>1, DeclarationFacts DEF AllocInv
  <2>3. ~(line < d)
    BY <1>0, <2>2 DEF u
  <2>4. line # d
    BY <1>2, <1>4, <2>1, <2>2 DEF v
  <2>5. d < line
    BY <1>2, <2>3, <2>4
  <2>6. QED
    BY <2>2, <2>5 DEF Passed
<1>11. off' \in [Vars -> Int] /\ frame' \in Int /\ OwnPlaces'
  <2>1. ASSUME UNCHANGED <<off, frame>>, \A w \in Vars : OwnBytes(w)' => OwnBytes(w)
        PROVE  off' \in [Vars -> Int] /\ frame' \in Int /\ OwnPlaces'
    BY <1>0, <1>3, <2>1 DEF AllocInv, Stack, OwnPlaces
  <2>2. CASE v # None /\ LayLocal(v)
    <3>1. v \in Vars /\ reg' = reg
      BY <1>2, <2>2 DEF LayLocal
    <3>2. CASE v \in Args \/ reg[v] # NoReg
      <4>1. UNCHANGED <<off, frame>>
        BY <2>2, <3>2 DEF LayLocal
      <4>2. \A w \in Vars : OwnBytes(w)' => OwnBytes(w)
        BY <1>9, <3>1, <3>2 DEF OwnBytes
      <4>3. QED
        BY <2>1, <4>1, <4>2
    <3>3. CASE v \notin Args /\ reg[v] = NoReg
      <4>1. Place(v, Size[v])
        BY <2>2, <3>3 DEF LayLocal
      <4>2. \A w \in Vars : OwnBytes(w)' => OwnBytes(w) \/ w = v
        BY <1>9, <3>1 DEF OwnBytes
      <4>3. Size[v] \in Nat \ {0} /\ Size[v] <= Size[v]
        BY <1>4, <3>1
      <4>4. QED
        BY <1>0, <3>1, <4>1, <4>2, <4>3, PlaceFacts
    <3>4. QED
      BY <3>2, <3>3
  <2>3. CASE v = None /\ code[line].op = 11 /\ LayAddress(u)
    <3>1. CASE u \in Vars \ Args /\ reg[u] # NoReg
      <4>1. Place(u, lastSize) /\ reg' = [reg EXCEPT ![u] = NoReg]
        BY <2>3, <3>1 DEF LayAddress
      <4>2. \A w \in Vars : OwnBytes(w)' => OwnBytes(w) \/ w = u
        BY <1>3, <1>4, <1>9, <2>3, <4>1 DEF OwnBytes
      <4>3. u \notin Mem /\ Size[u] <= 16
        BY <1>4, <3>1 DEF AllocInv, Collected
      <4>4. QED
        BY <1>0, <1>3, <3>1, <4>1, <4>2, <4>3, PlaceFacts
    <3>2. CASE ~(u \in Vars \ Args /\ reg[u] # NoReg)
      <4>1. UNCHANGED <<off, frame>>
        BY <2>3, <3>2 DEF LayAddress
      <4>2. \A w \in Vars \ Args : reg'[w] = reg[w]
        BY <1>3, <2>3, <3>2 DEF LayAddress
      <4>3. \A w \in Vars : OwnBytes(w)' => OwnBytes(w)
        BY <1>4, <1>9, <2>3, <4>2 DEF OwnBytes
      <4>4. QED
        BY <2>1, <4>1, <4>3
    <3>3. QED
      BY <3>1, <3>2
  <2>4. CASE v = None /\ code[line].op # 11 /\ UNCHANGED <<reg, off, frame, lastSize, topReg>>
    <3>1. \A w \in Vars : OwnBytes(w)' => OwnBytes(w)
      BY <1>4, <1>9, <2>4 DEF OwnBytes
    <3>2. QED
      BY <2>1, <2>4, <3>1
  <2>5. QED
    BY <1>5, <2>2, <2>3, <2>4
<1>12. topReg' \in Nat /\ topReg' >= topReg
  BY <1>2, <1>3, <1>5 DEF LayLocal, LayAddress, NoReg
<1>13. ASSUME NEW w \in Vars \ Args, reg'[w] # NoReg, Passed(w)'
       PROVE  reg'[w] <= topReg'
  <2>1. reg'[w] = reg[w] /\ reg[w] \in Nat
    BY <1>3, <1>6, <1>13
  <2>2. CASE Passed(w)
    BY <1>0, <1>3, <1>12, <1>13, <2>1, <2>2 DEF AllocInv, Stack
  <2>3. CASE w = v
    <3>1. topReg' = IF reg[v] > topReg THEN reg[v] ELSE topReg
      BY <1>4, <1>5, <1>13, <2>1, <2>3 DEF LayLocal
    <3>2. QED
      BY <1>3, <2>1, <2>3, <3>1
  <2>4. QED
    BY <1>8, <1>13, <2>2, <2>3
<1>14. ASSUME NEW i \in Lines, i < line + 1, code[i].op = 11, code[i].a[2] \in Vars
       PROVE  reg'[code[i].a[2]] = NoReg
  <2>1. CASE i < line
    BY <1>0, <1>6, <1>14, <2>1 DEF AllocInv, Stack
  <2>2. CASE i = line
    <3>1. code[line].op = 11 /\ u \in Vars /\ v = None
      BY <1>2, <1>14, <2>2 DEF u
    <3>2. LayAddress(u)
      BY <1>5, <3>1
    <3>3. reg'[u] = NoReg
      BY <1>3, <3>1, <3>2 DEF LayAddress
    <3>4. QED
      BY <2>2, <3>3 DEF u
  <2>3. QED
    BY <1>2, <1>14, <2>1, <2>2
<1>15. lastSize' \in Nat \ {0}
  BY <1>2, <1>3, <1>4, <1>5 DEF LayLocal, LayAddress
<1>16. TypeOK'
  <2>1. line' \in 1..(Len(code) + 1)
    BY <1>0, <1>2 DEF Lines
  <2>2. QED
    BY <1>0, <1>1, <1>7, <1>11, <1>12, <1>15, <2>1 DEF AllocInv, TypeOK
<1>17. Seen' /\ Collected'
  BY <1>0, <1>6 DEF AllocInv, Seen, Collected, InBatch
<1>18. Flowing' /\ Solved' /\ Running'
  BY <1>0 DEF Flowing, Solved, Running
<1>19. Placed' /\ Apart' /\ MapsApart'
  BY <1>0, <1>1, <1>6 DEF AllocInv, Placed, Apart, MapsApart
<1>20. ArgsLoaded'
  BY <1>0, <1>4, <1>6 DEF AllocInv, ArgsLoaded
<1>21. Stack'
  BY <1>0, <1>1, <1>11, <1>13, <1>14 DEF Stack, OwnPlaces
<1> QED
  BY <1>0, <1>16, <1>17, <1>18, <1>19, <1>20, <1>21 DEF AllocInv

LEMMA LayoutDoneStep ==
  ASSUME AllocInv, LayoutDone
  PROVE  AllocInv'
<1>0. /\ phase = "layout" /\ line \notin Lines /\ code' = code /\ phase' = "run" /\ line' = 1 /\ live' = live
      /\ UNCHANGED <<idList, count, resume, changed, fitting, maps, reg, argMap, off, frame, lastSize, topReg>>
      /\ stackSize' = Align(frame - 32 - SlotBytes) /\ written' = Args /\ intact' = Loaded
  BY DEF LayoutDone, batchVars, mapVars
<1>1. /\ Lines' = Lines /\ RegMap' = RegMap
      /\ \A w : VarMap(w)' = VarMap(w)
      /\ \A w : Solves(w)' <=> Solves(w)
  BY <1>0, SameLive
<1>2. Len(code) \in Nat /\ \A i \in Lines : i < line
  BY <1>0, CodeFacts DEF AllocInv, TypeOK, Lines
<1>3. \A v \in Vars : Passed(v) /\ Passed(v)'
  BY <1>0, <1>2, DeclarationFacts DEF AllocInv, Passed
<1>4. frame \in Int /\ topReg \in Nat /\ Regs \in Nat
  BY BatchAssumption DEF AllocInv, TypeOK
<1>5. SlotBytes \in Nat /\ SlotBytes' = SlotBytes
  BY <1>0, <1>4 DEF SlotBytes
<1>6. stackSize' \in Int /\ stackSize' + SlotBytes' <= frame'
  <2> DEFINE n == frame - 32 - SlotBytes
  <2>1. n \in Int
    BY <1>4, <1>5
  <2> HIDE DEF n
  <2>2. 16 * (n \div 16) \in Int /\ 16 * (n \div 16) <= n
    BY <2>1
  <2>3. stackSize' \in Int /\ stackSize' <= n
    BY <1>0, <2>2 DEF Align, n
  <2>4. QED
    BY <1>0, <1>4, <1>5, <2>3 DEF n
<1>7. Loaded = Args /\ Args \subseteq Vars
  BY VarsAssumption DEF Loaded, AllocInv, ArgsLoaded
<1>8. TypeOK'
  <2>1. line' \in 1..(Len(code) + 1)
    BY <1>0, <1>2
  <2>2. QED
    BY <1>0, <1>1, <1>6, <1>7, <2>1 DEF AllocInv, TypeOK
<1>9. Seen' /\ Collected'
  BY <1>0 DEF AllocInv, Seen, Collected, InBatch
<1>10. Flowing' /\ Solved'
  BY <1>0 DEF Flowing, Solved
<1>11. Running'
  BY <1>0, <1>7 DEF Running
<1>12. Placed' /\ Apart' /\ MapsApart' /\ ArgsLoaded'
  BY <1>0, <1>1 DEF AllocInv, Placed, Apart, MapsApart, ArgsLoaded
<1>13. OwnPlaces'
  <2>1. \A v \in Vars : OwnBytes(v)' <=> OwnBytes(v)
    BY <1>0, <1>3 DEF OwnBytes
  <2>2. QED
    BY <1>0, <2>1 DEF AllocInv, Stack, OwnPlaces
<1>14. Stack'
  BY <1>0, <1>1, <1>2, <1>3, <1>6, <1>13 DEF AllocInv, Stack
<1> QED
  BY <1>0, <1>8, <1>9, <1>10, <1>11, <1>12, <1>14 DEF AllocInv

\* Two variables have the same place only if they have the same register.
LEMMA OverlapFacts ==
  ASSUME AllocInv, phase = "run", NEW v \in Vars, NEW w \in Vars, v # w,
         reg[v] = NoReg \/ reg[w] = NoReg \/ reg[v] # reg[w]
  PROVE  ~ Overlap(v, w)
<1>1. /\ reg \in [Vars -> Nat \cup {NoReg}] /\ off \in [Vars -> Int]
      /\ frame \in Int /\ topReg \in Nat /\ stackSize \in Int /\ Regs \in Nat
  BY BatchAssumption DEF AllocInv, TypeOK
<1>2. \A u \in Vars : Size[u] \in Nat \ {0} /\ (reg[u] # NoReg => Size[u] <= 8)
  BY VarsAssumption DEF AllocInv, Collected
<1>3. ~(InReg(v) /\ InReg(w) /\ reg[v] = reg[w])
  BY DEF InReg
<1>4. \A u \in Vars : OnStack(u) /\ reg[u] = NoReg => OwnBytes(u)
  BY DEF OnStack, OwnBytes, Passed
\* Where a slot is.
<1>5. ASSUME NEW u \in Vars, OnStack(u), reg[u] # NoReg
      PROVE  /\ reg[u] \in Nat /\ Address(u) = (reg[u] - Regs) * 8 + stackSize /\ reg[u] >= Regs
             /\ Address(u) + 8 <= frame
  <2>1. reg[u] \in Nat /\ reg[u] >= Regs /\ u \notin Args
    BY <1>1, <1>5 DEF OnStack, InReg
  <2>2. reg[u] <= topReg
    BY <1>5, <2>1 DEF AllocInv, Stack, Passed
  <2>3. SlotBytes = (topReg - (Regs - 1)) * 8
    BY <1>1, <2>1, <2>2 DEF SlotBytes
  <2>4. stackSize + SlotBytes <= frame
    BY DEF AllocInv, Stack
  <2>5. Address(u) = (reg[u] - Regs) * 8 + stackSize
    BY <1>5 DEF Address
  <2>6. QED
    BY <1>1, <2>1, <2>2, <2>3, <2>4, <2>5
<1>6. ASSUME NEW u \in Vars, OnStack(u), reg[u] = NoReg
      PROVE  Address(u) = off[u] /\ frame <= off[u]
  BY <1>4, <1>6 DEF AllocInv, Stack, OwnPlaces, Address
<1>7. SUFFICES ASSUME OnStack(v), OnStack(w)
               PROVE  Address(v) + Size[v] <= Address(w) \/ Address(w) + Size[w] <= Address(v)
  <2>1. ASSUME NEW u \in Vars
        PROVE  Address(u) \in Int /\ Size[u] \in Int
    <3>1. CASE reg[u] = NoReg
      BY <1>1, <1>2, <3>1 DEF Address
    <3>2. CASE reg[u] # NoReg
      <4>1. reg[u] \in Nat
        BY <1>1, <3>2
      <4>2. (reg[u] - Regs) * 8 + stackSize \in Int
        BY <1>1, <4>1
      <4>3. QED
        BY <1>2, <3>2, <4>2 DEF Address
    <3>3. QED
      BY <3>1, <3>2
  <2>2. QED
    BY <1>3, <1>7, <2>1 DEF Overlap
<1>8. CASE reg[v] = NoReg /\ reg[w] = NoReg
  BY <1>4, <1>6, <1>7, <1>8 DEF AllocInv, Stack, OwnPlaces
<1>9. CASE reg[v] = NoReg /\ reg[w] # NoReg
  BY <1>1, <1>2, <1>5, <1>6, <1>7, <1>9
<1>10. CASE reg[v] # NoReg /\ reg[w] = NoReg
  BY <1>1, <1>2, <1>5, <1>6, <1>7, <1>10
<1>11. CASE reg[v] # NoReg /\ reg[w] # NoReg
  <2>1. reg[v] < reg[w] \/ reg[w] < reg[v]
    BY <1>5, <1>7, <1>11
  <2>2. QED
    BY <1>1, <1>2, <1>5, <1>7, <1>11, <2>1
<1>12. QED
  BY <1>8, <1>9, <1>10, <1>11

\* A variable that a pointer may reach has no register.
LEMMA PointedFacts ==
  ASSUME AllocInv, phase = "run", NEW v \in Pointed
  PROVE  v \in Vars /\ reg[v] = NoReg
<1>1. v \in Vars /\ \E i \in Lines : code[i].op = 11 /\ code[i].a[2] = v
  BY DEF Pointed
<1>2. QED
  BY <1>1 DEF AllocInv, Stack

LEMMA RunStep ==
  ASSUME AllocInv, Run
  PROVE  AllocInv'
<1>0. /\ phase = "run" /\ line \in Lines /\ code' = code /\ phase' = phase /\ live' = live
      /\ UNCHANGED <<idList, count, resume, changed, fitting, maps, reg, argMap>>
      /\ UNCHANGED <<off, frame, lastSize, topReg, stackSize>>
  BY DEF Run, batchVars, mapVars, stackVars
<1>1. /\ Lines' = Lines /\ RegMap' = RegMap
      /\ \A w : VarMap(w)' = VarMap(w)
      /\ \A w : Solves(w)' <=> Solves(w)
  BY <1>0, SameLive
<1>2. PICK S \in SUBSET Vars :
        /\ Store(S)
        /\ Stored(line) \ {None} \subseteq S
        /\ \A w \in S : w \in Stored(line) \/ w \in Pointed
  <2>1. Stored(line) \ {None} \subseteq Vars /\ Pointed \subseteq Vars
    BY <1>0, CodeFacts DEF AllocInv, Pointed
  <2>2. CASE Store(Stored(line) \ {None})
    BY <2>1, <2>2
  <2>3. ASSUME NEW v \in Pointed, Store({v} \cup (Stored(line) \ {None}))
        PROVE  \E T \in SUBSET Vars : /\ Store(T)
                                      /\ Stored(line) \ {None} \subseteq T
                                      /\ \A w \in T : w \in Stored(line) \/ w \in Pointed
    BY <2>1, <2>3
  <2>4. QED
    BY <2>2, <2>3 DEF Run
<1>3. written' = written \cup S /\ intact' = {v \in intact : \A w \in S : ~ Overlap(v, w)} \cup S
  BY <1>2 DEF Store
<1>4. written \subseteq Vars /\ intact \subseteq written /\ live \in [Vars -> SUBSET Lines] /\ Len(code) \in Nat
  BY CodeFacts DEF AllocInv, TypeOK
<1>5. \/ Succ(line) # {} /\ line' \in Succ(line)
      \/ line' = Len(code) + 1
  BY DEF Run
<1>6. line' \in Succ(line) \/ line' \notin Lines
  BY <1>4, <1>5 DEF Lines
<1>7. ASSUME NEW v \in written', reg[v] = NoReg \/ line' \in live[v]
      PROVE  v \in intact'
  <2>1. CASE v \in S
    BY <1>3, <2>1
  <2>2. CASE v \notin S
    <3>1. v \in written /\ v \in Vars /\ v \notin Stored(line)
      BY <1>2, <1>3, <1>4, <1>7, <2>2, VarsAssumption
    <3>2. reg[v] # NoReg => line \in live[v]
      <4>1. SUFFICES ASSUME reg[v] # NoReg PROVE line \in live[v]
        OBVIOUS
      <4>2. line' \in live[v] /\ line' \in Succ(line)
        BY <1>4, <1>6, <1>7, <3>1, <4>1
      <4>3. LiveIn(v, line)
        BY <3>1, <4>2 DEF LiveIn, Def
      <4>4. QED
        BY <1>0, <3>1, <4>1, <4>3 DEF AllocInv, Placed, Solves
    <3>3. v \in intact
      BY <1>0, <3>1, <3>2 DEF AllocInv, Running
    <3>4. ASSUME NEW w \in S
          PROVE  ~ Overlap(v, w)
      <4>1. w \in Vars /\ v # w
        BY <2>2
      <4>2. CASE reg[v] = NoReg \/ reg[w] = NoReg \/ reg[v] # reg[w]
        BY <1>0, <3>1, <4>1, <4>2, OverlapFacts
      <4>3. CASE reg[v] # NoReg /\ reg[w] # NoReg /\ reg[v] = reg[w]
        <5>1. w \in Stored(line)
          BY <1>0, <1>2, <4>3, PointedFacts
        <5>2. line \in VarMap(v)
          BY <1>0, <3>2, <4>3 DEF VarMap
        <5>3. line \in VarMap(w)
          <6>1. CASE w \in Def(line)
            BY <1>0, <6>1 DEF VarMap
          <6>2. CASE w \in Use(line)
            <7>1. LiveIn(w, line)
              BY <6>2 DEF LiveIn
            <7>2. line \in live[w]
              BY <1>0, <4>1, <4>3, <7>1 DEF AllocInv, Placed, Solves
            <7>3. QED
              BY <1>0, <7>2 DEF VarMap
          <6>3. QED
            BY <5>1, <6>1, <6>2 DEF Def
        <5>4. QED
          BY <3>1, <4>1, <4>3, <5>2, <5>3 DEF AllocInv, Apart
      <4>4. QED
        BY <4>2, <4>3
    <3>5. QED
      BY <1>3, <3>3, <3>4
  <2>3. QED
    BY <2>1, <2>2
<1>8. Running'
  BY <1>0, <1>7 DEF Running
<1>9. TypeOK'
  <2>1. line' \in 1..(Len(code) + 1)
    BY <1>0, <1>4, <1>5, CodeFacts DEF AllocInv, Lines
  <2>2. written' \subseteq Vars /\ intact' \subseteq written'
    BY <1>3, <1>4
  <2>3. QED
    BY <1>0, <1>1, <2>1, <2>2 DEF AllocInv, TypeOK
<1>10. Seen' /\ Collected'
  BY <1>0 DEF AllocInv, Seen, Collected, InBatch
<1>11. Flowing' /\ Solved'
  BY <1>0 DEF Flowing, Solved
<1>12. Placed' /\ Apart' /\ MapsApart' /\ ArgsLoaded'
  BY <1>0, <1>1 DEF AllocInv, Placed, Apart, MapsApart, ArgsLoaded
<1>13. OwnPlaces' /\ SlotBytes' = SlotBytes
  BY <1>0 DEF AllocInv, Stack, OwnPlaces, OwnBytes, Passed, SlotBytes
<1>14. Stack'
  BY <1>0, <1>1, <1>13 DEF AllocInv, Stack, Passed
<1> QED
  BY <1>0, <1>8, <1>9, <1>10, <1>11, <1>12, <1>14 DEF AllocInv

-----------------------------------------------------------------------------
(***************************************************************************)
(* The theorems.                                                           *)
(***************************************************************************)
\* The compiler starts with nothing declared and nothing placed.
LEMMA AllocInit ==
  ASSUME Init
  PROVE  AllocInv
<1>1. Len(code) \in Nat /\ \A i \in Lines : ~(i < 1)
  BY CodeFacts DEF Init, Lines
<1>2. TypeOK
  <2>1. 1 \in 1..(Len(code) + 1) /\ 0 \in 0..(Batch - 1) /\ 1 \in Nat \ {0}
    BY <1>1, BatchAssumption
  <2>2. idList \in Seq(Vars) /\ fitting \in 0..Len(idList) /\ maps \in Seq(RegMap)
    BY DEF Init
  <2>3. live \in [Vars -> SUBSET Lines] /\ reg \in [Vars -> Nat \cup {NoReg}]
    BY DEF Init
  <2>4. off \in [Vars -> Int] /\ argMap \in [0..(Regs - 1) -> Args \cup {None}]
    BY DEF Init
  <2>5. /\ phase = "scan" /\ line = 1 /\ count = 0 /\ resume = 1 /\ changed = FALSE
        /\ frame = 0 /\ lastSize = 1 /\ topReg = 0 /\ stackSize = 0 /\ written = {} /\ intact = {}
    BY DEF Init
  <2>6. 0 \in Int /\ 0 \in Nat
    OBVIOUS
  <2>7. QED
    BY <2>1, <2>2, <2>3, <2>4, <2>5, <2>6 DEF TypeOK
<1>3. Seen /\ Collected /\ Flowing /\ Solved
  BY DEF Init, Seen, Collected, Flowing, Solved, InBatch
<1>4. Placed /\ Apart /\ MapsApart
  BY DEF Init, Placed, Apart, MapsApart
<1>5. ArgsLoaded
  BY VarsAssumption DEF Init, ArgsLoaded
<1>6. Stack /\ Running
  BY DEF Init, Stack, Running
<1> QED
  BY <1>2, <1>3, <1>4, <1>5, <1>6 DEF AllocInv, Init

LEMMA AllocStep ==
  ASSUME AllocInv, [Next]_vars
  PROVE  AllocInv'
<1>1. CASE Compile
  BY <1>1, ScanStep, EndOfFunctionStep, FlowStep, FlowAgainStep, FlowDoneStep, FitStep, FitDoneStep,
     LayoutStep, LayoutDoneStep DEF Compile
<1>2. CASE Run
  BY <1>2, RunStep
<1>3. CASE UNCHANGED vars
  <2>1. /\ code' = code /\ live' = live /\ UNCHANGED <<phase, line, changed, fitting>>
        /\ UNCHANGED <<idList, count, resume, maps, reg, argMap>>
        /\ UNCHANGED <<off, frame, lastSize, topReg, stackSize, written, intact>>
    BY <1>3 DEF vars, batchVars, mapVars, stackVars, runVars
  <2>2. /\ Lines' = Lines /\ RegMap' = RegMap
        /\ \A w : VarMap(w)' = VarMap(w)
        /\ \A w : Solves(w)' <=> Solves(w)
        /\ \A w, i : LiveIn(w, i)' <=> LiveIn(w, i)
    BY <2>1, SameLive
  <2>3. TypeOK' /\ Seen' /\ Collected'
    BY <2>1, <2>2 DEF AllocInv, TypeOK, Seen, Here, Collected, InBatch
  <2>4. Flowing' /\ Solved' /\ Placed' /\ Apart' /\ MapsApart' /\ ArgsLoaded' /\ Running'
    BY <2>1, <2>2 DEF AllocInv, Flowing, Solved, Placed, Apart, MapsApart, ArgsLoaded, Running, InBatch
  <2>5. OwnPlaces' <=> OwnPlaces
    BY <2>1, <2>2 DEF OwnPlaces, OwnBytes, Passed
  <2>6. Stack'
    BY <2>1, <2>2, <2>5 DEF AllocInv, Stack, Passed, SlotBytes
  <2> QED
    BY <2>1, <2>3, <2>4, <2>6 DEF AllocInv
<1> QED
  BY <1>1, <1>2, <1>3 DEF Next

\* In a run the function reads what it stored.
LEMMA AllocReads ==
  ASSUME AllocInv
  PROVE  ReadsRight
<1>1. SUFFICES ASSUME phase = "run", line \in Lines, NEW v \in written, v \in Use(line) \/ v \in Pointed
               PROVE  v \in intact
  BY DEF ReadsRight
<1>2. v \in Vars
  BY DEF AllocInv, TypeOK
<1>3. CASE v \in Pointed
  BY <1>1, <1>3, PointedFacts DEF AllocInv, Running
<1>4. CASE v \in Use(line)
  <2>1. reg[v] # NoReg => line \in live[v]
    BY <1>1, <1>2, <1>4 DEF AllocInv, Placed, Solves, LiveIn
  <2>2. QED
    BY <1>1, <2>1 DEF AllocInv, Running
<1>5. QED
  BY <1>1, <1>3, <1>4

\* The tables of the compiler keep their types, whatever function it compiles:
\* the batch and the registers never outgrow what holds them.
THEOREM TypeCorrect == Spec => []TypeOK
<1>1. Spec => []AllocInv
  BY AllocInit, AllocStep, PTL DEF Spec
<1>2. AllocInv => TypeOK
  BY DEF AllocInv
<1>3. QED
  BY <1>1, <1>2, PTL

\* The registers and stack places of reg_init are safe for every function:
\* a line that reads a variable finds what was last stored in it.
THEOREM ReadsRightCorrect == Spec => []ReadsRight
<1>1. Spec => []AllocInv
  BY AllocInit, AllocStep, PTL DEF Spec
<1>2. QED
  BY <1>1, AllocReads, PTL
-----------------------------------------------------------------------------
(***************************************************************************)
(* Whatever calculate_df has marked so far is in every closed set: it adds *)
(* a line only for a use, or for a line after it that is marked.           *)
(***************************************************************************)
Least == \A v \in Vars : \A S \in SUBSET Lines : Closed(v, S) => live[v] \subseteq S

\* Only Flow changes what is marked, and nothing changes the function.
LEMMA NextLive ==
  ASSUME [Next]_vars
  PROVE  code' = code /\ (Flow \/ live' = live)
<1>1. CASE UNCHANGED vars
  BY <1>1 DEF vars
<1>2. CASE Scan \/ EndOfFunction
  BY <1>2 DEF Scan, EndOfFunction
<1>3. CASE Flow
  BY <1>3 DEF Flow
<1>4. CASE FlowAgain \/ FlowDone \/ Fit \/ FitDone
  BY <1>4 DEF FlowAgain, FlowDone, Fit, FitDone
<1>5. CASE Layout \/ LayoutDone \/ Run
  BY <1>5 DEF Layout, LayoutDone, Run
<1>6. QED
  BY <1>1, <1>2, <1>3, <1>4, <1>5 DEF Next, Compile

LEMMA LeastStep ==
  ASSUME AllocInv, Least, [Next]_vars
  PROVE  Least'
<1>1. code' = code /\ (Flow \/ live' = live)
  BY NextLive
<1>2. /\ Lines' = Lines
      /\ \A i : Use(i)' = Use(i) /\ Def(i)' = Def(i) /\ Succ(i)' = Succ(i)
  BY <1>1 DEF Lines, Use, Def, Stored, Succ, Falls
<1>3. \A v, S : Closed(v, S)' <=> Closed(v, S)
  BY <1>2 DEF Closed
<1>4. SUFFICES ASSUME NEW v \in Vars, NEW S \in SUBSET Lines, Closed(v, S)
               PROVE  live'[v] \subseteq S
  BY <1>2, <1>3 DEF Least
<1>5. live[v] \subseteq S
  BY <1>4 DEF Least
<1>6. CASE live' = live
  BY <1>5, <1>6
<1>7. CASE Flow
  <2>1. LiveIn(v, line) => line \in S
    BY <1>4, <1>5, <1>7 DEF Flow, LiveIn, Closed
  <2>2. \/ live'[v] = live[v]
        \/ live'[v] = live[v] \ {line}
        \/ live'[v] = live[v] \cup {line} /\ LiveIn(v, line)
    BY <1>7 DEF Flow
  <2>3. QED
    BY <1>5, <2>1, <2>2
<1>8. QED
  BY <1>1, <1>6, <1>7

\* At the end of calculate_df what is marked is closed itself.
LEMMA LeastRight ==
  ASSUME AllocInv, Least
  PROVE  LiveRight
<1>1. SUFFICES ASSUME phase = "fit", NEW v \in InBatch
               PROVE  /\ Closed(v, live[v])
                      /\ \A S \in SUBSET Lines : Closed(v, S) => live[v] \subseteq S
  BY DEF LiveRight
<1>2. v \in Vars
  BY DEF AllocInv, TypeOK, InBatch
<1>3. Solves(v)
  BY <1>1 DEF AllocInv, Solved
<1>4. Closed(v, live[v])
  BY <1>3 DEF Solves, LiveIn, Closed
<1>5. QED
  BY <1>2, <1>4 DEF Least

\* calculate_df computes liveness for every function: when it ends, after however
\* many passes, each variable is marked at the lines of the least closed set.
THEOREM LiveRightCorrect == Spec => []LiveRight
<1>1. Init => AllocInv /\ Least
  BY AllocInit DEF Init, Least
<1>2. AllocInv /\ Least /\ [Next]_vars => (AllocInv /\ Least)'
  BY AllocStep, LeastStep
<1>3. AllocInv /\ Least => LiveRight
  BY LeastRight
<1>4. QED
  BY <1>1, <1>2, <1>3, PTL DEF Spec
=============================================================================
