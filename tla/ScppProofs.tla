------------------------------ MODULE ScppProofs ------------------------------
(***************************************************************************)
(* Proofs about the preprocessor, for any nesting of conditionals and      *)
(* files and any number of lines.                                          *)
(*                                                                         *)
(* The invariant has a part for each property: Shape says which pattern of *)
(* open conditionals the four numbers stand for, LinesInv what a waiting   *)
(* activation has kept, Alternating how the kept definitions follow each   *)
(* other.                                                                  *)
(***************************************************************************)
EXTENDS Scpp, TLAPS

\* While nothing is skipped all open conditionals are on.  While lines are
\* skipped, those below oldLevels are on, the one at oldLevels is not, and those
\* above, being inside skipped lines, are done for.
Shape ==
  legal =>
    \/ /\ condc = 0 /\ condcElse = 0
       /\ \A i \in 1 .. levels : cond[i].state = "on"
    \/ /\ condc = 1 /\ oldLevels \in 1 .. levels
       /\ \A i \in 1 .. levels : i < oldLevels => cond[i].state = "on"
       /\ \A i \in 1 .. levels : i > oldLevels => cond[i].state = "done"
       /\ cond[oldLevels].state = (IF condcElse = 1 THEN "done" ELSE "wait")

LinesInv ==
  /\ LineNumbersRight
  /\ \A i \in 1 .. Top : files[i].old <= currentLine

CondInv == TypeOK /\ LevelsRight /\ Shape /\ LinesInv

-----------------------------------------------------------------------------
(***************************************************************************)
(* The steps.                                                              *)
(***************************************************************************)

\* What the lines that are read do to an activation.
LEMMA ReadMore ==
  ASSUME NEW f \in Activation, NEW k \in Nat, NEW old \in Nat
  PROVE  /\ [f EXCEPT !.read = @ + k] \in Activation
         /\ [f EXCEPT !.read = @ + k, !.old = old] \in Activation
<1>1. f.flines \in Nat /\ f.old \in Nat /\ f.read + k \in Nat
  BY DEF Activation
<1>2. f = [flines |-> f.flines, old |-> f.old, read |-> f.read]
  BY DEF Activation
<1>3. /\ [f EXCEPT !.read = @ + k] = [flines |-> f.flines, old |-> f.old, read |-> f.read + k]
      /\ [f EXCEPT !.read = @ + k, !.old = old]
         = [flines |-> f.flines, old |-> old, read |-> f.read + k]
  <2>1. [f EXCEPT !.read = @ + k] = [flines |-> f.flines, old |-> f.old, read |-> f.read + k]
    BY <1>2
  <2> DEFINE g == [f EXCEPT !.read = @ + k]
  <2>2. [f EXCEPT !.read = @ + k, !.old = old] = [g EXCEPT !.old = old]
    OBVIOUS
  <2>3. g = [flines |-> f.flines, old |-> f.old, read |-> f.read + k]
    BY <2>1
  <2> HIDE DEF g
  <2>4. [g EXCEPT !.old = old] = [flines |-> f.flines, old |-> old, read |-> f.read + k]
    BY <2>3
  <2>5. QED
    BY <2>1, <2>2, <2>4
<1>4. QED
  BY <1>1, <1>3 DEF Activation

\* Reading a line keeps the line numbers right.
LEMMA ReadLineFacts ==
  ASSUME CondInv, NEW k \in Joined, ReadLine(k)
  PROVE  /\ currentLine' \in Nat /\ files' \in Seq(Activation) /\ LinesInv'
<1> USE DEF CondInv
<1>1. /\ k \in Nat \ {0} /\ currentLine \in Nat /\ currentLine' = currentLine + k
      /\ files \in Seq(Activation) /\ Top \in Nat \ {0}
      /\ files' = [files EXCEPT ![Top].read = @ + k]
  BY ScppAssumption DEF ReadLine, Reading, TypeOK, Top
<1>2. \A i \in 1 .. Top : files[i] \in Activation
  BY <1>1 DEF Top
<1> DEFINE line == [files[Top] EXCEPT !.read = @ + k]
<1>3. line \in Activation
  <2>1. files[Top] \in Activation
    BY <1>1, <1>2
  <2>2. QED
    BY <1>1, <2>1, ReadMore
<1>4. files' \in Seq(Activation) /\ Top' = Top
  <2>1. files' = [files EXCEPT ![Top] = line]
    BY <1>1
  <2> HIDE DEF line
  <2>2. Top = Len(files)
    BY DEF Top
  <2>3. files' \in Seq(Activation) /\ Len(files') = Len(files)
    BY <1>1, <1>3, <2>1, <2>2
  <2>4. QED
    BY <2>3 DEF Top
<1>5. \A i \in 1 .. Top : /\ files'[i].flines = files[i].flines
                          /\ files'[i].old = files[i].old
                          /\ files'[i].read = IF i = Top THEN files[i].read + k ELSE files[i].read
  BY <1>1, <1>2 DEF Activation, Top
<1>6. LineNumbersRight'
  <2>1. ASSUME NEW i \in 1 .. Top
        PROVE  files'[i].read = (IF i = Top THEN currentLine + k ELSE files[i].old) - files[i].flines
    <3>1. files[i].read = (IF i = Top THEN currentLine ELSE files[i].old) - files[i].flines
      BY DEF LinesInv, LineNumbersRight
    <3>2. /\ files[i].flines \in Nat /\ files[i].old \in Nat /\ files[i].read \in Nat
      BY <1>2 DEF Activation
    <3>3. QED
      BY <1>1, <1>5, <3>1, <3>2
  <2>2. QED
    BY <1>1, <1>4, <1>5, <2>1 DEF LineNumbersRight
<1>7. \A i \in 1 .. Top : files'[i].old <= currentLine'
  BY <1>1, <1>2, <1>5 DEF LinesInv, Activation
<1>8. QED
  BY <1>1, <1>4, <1>6, <1>7 DEF LinesInv

\* Lines that are no conditionals leave the conditionals alone.
LEMMA PlainStep ==
  ASSUME CondInv, NEW k \in Joined,
         \/ Text(k) \/ Complain(k)
         \/ \E m \in Macros : Define(m, k) \/ Undef(m, k)
  PROVE  CondInv'
<1>1. /\ ReadLine(k) /\ UNCHANGED <<condVars, refVars>>
  BY DEF Text, Complain, Define, Undef
<1> DEFINE Typed == /\ defs' \subseteq Macros /\ tab' = tab /\ err' \in Messages
                    /\ kept' \in Seq(Definition)
<1>2. Typed
  <2>1. CASE Text(k) \/ Complain(k)
    BY <2>1 DEF Text, Complain, macVars, Messages, CondInv, TypeOK
  <2>2. ASSUME NEW m \in Macros, NEW op \in {"define", "undef"}, Keep(op, m)
        PROVE  kept' \in Seq(Definition)
    <3>1. [op |-> op, macro |-> m] \in Definition
      BY DEF Definition
    <3>2. kept \in Seq(Definition)
      BY DEF CondInv, TypeOK
    <3>3. QED
      BY <2>2, <3>1, <3>2 DEF Keep
  <2>3. ASSUME NEW m \in Macros, Define(m, k) \/ Undef(m, k)
        PROVE  Typed
    BY <2>2, <2>3 DEF Define, Undef, Error, macVars, Messages, CondInv, TypeOK
  <2>4. QED
    BY <2>1, <2>3
<1>3. TypeOK' /\ LinesInv'
  BY <1>1, <1>2, ReadLineFacts DEF CondInv, TypeOK, condVars, refVars
<1>4. LevelsRight' /\ Shape'
  BY <1>1 DEF CondInv, LevelsRight, Shape, condVars, refVars
<1>5. QED
  BY <1>3, <1>4 DEF CondInv

\* Whether the innermost conditional is on is what condc says.
LEMMA ShapeSkips == CondInv => SkipsWhatCSkips
  BY DEF CondInv, TypeOK, LevelsRight, Shape, SkipsWhatCSkips, Taken, Conditional

\* #ifdef and #ifndef open a conditional that is on, waits, or is done for.
LEMMA IfStep ==
  ASSUME CondInv, NEW k \in Joined, NEW m \in Macros, NEW want \in BOOLEAN, If(m, want, k)
  PROVE  CondInv'
<1> DEFINE met == (m \in defs) = want
           st == IF ~Taken THEN "done" ELSE IF met THEN "on" ELSE "wait"
<1>1. /\ ReadLine(k) /\ levels' = levels + 1 /\ UNCHANGED <<condcElse, legal, macVars, err>>
      /\ cond' = Append(cond, [else |-> FALSE, state |-> st])
      /\ \/ condc = 0 /\ ~met /\ condc' = 1 /\ oldLevels' = levels + 1
         \/ ~(condc = 0 /\ ~met) /\ condc' = condc /\ oldLevels' = oldLevels
  BY DEF If
<1>2. /\ levels \in Nat /\ Len(cond) = levels /\ cond \in Seq(Conditional)
      /\ condc \in {0, 1} /\ oldLevels \in Nat /\ condcElse \in {0, 1}
  BY DEF CondInv, TypeOK, LevelsRight
<1>3. [else |-> FALSE, state |-> st] \in Conditional
  BY DEF Conditional
<1>4. legal => (condc = 0 <=> Taken)
  BY ShapeSkips DEF SkipsWhatCSkips
<1> HIDE DEF met, st
<1>5. /\ cond' \in Seq(Conditional) /\ Len(cond') = levels'
      /\ cond'[levels'].state = st /\ \A i \in 1 .. levels : cond'[i] = cond[i]
  BY <1>1, <1>2, <1>3
<1>6. TypeOK' /\ LinesInv'
  BY <1>1, <1>2, <1>5, ReadLineFacts DEF CondInv, TypeOK, macVars
<1>7. Shape'
  <2>1. SUFFICES ASSUME legal PROVE Shape'
    BY <1>1 DEF Shape
  <2>2. CASE condc = 0 /\ met
    BY <1>1, <1>2, <1>4, <1>5, <2>1, <2>2 DEF CondInv, Shape, st
  <2>3. CASE condc = 0 /\ ~met
    BY <1>1, <1>2, <1>4, <1>5, <2>1, <2>3 DEF CondInv, Shape, st
  <2>4. CASE condc = 1
    BY <1>1, <1>2, <1>4, <1>5, <2>1, <2>4 DEF CondInv, Shape, st
  <2>5. QED
    BY <1>2, <2>2, <2>3, <2>4
<1>8. QED
  BY <1>5, <1>6, <1>7 DEF CondInv, LevelsRight

\* #endif closes the innermost one; if it made the skipping start, that ends.
LEMMA EndifStep ==
  ASSUME CondInv, NEW k \in Joined, Endif(k)
  PROVE  CondInv'
<1>1. /\ ReadLine(k) /\ UNCHANGED <<legal, macVars>> /\ err' \in Messages
  BY DEF Endif, Error, Messages, CondInv, TypeOK
<1>2. /\ levels \in Nat /\ Len(cond) = levels /\ cond \in Seq(Conditional)
      /\ condc \in {0, 1} /\ oldLevels \in Nat /\ condcElse \in {0, 1}
  BY DEF CondInv, TypeOK, LevelsRight
<1>3. CASE UNCHANGED <<condVars, cond>>
  BY <1>1, <1>3, ReadLineFacts DEF CondInv, TypeOK, LevelsRight, Shape, condVars, macVars
<1>4. CASE levels > 0 /\ ~(UNCHANGED <<condVars, cond>>)
  <2>1. /\ levels' = levels - 1 /\ cond' = SubSeq(cond, 1, Len(cond) - 1)
        /\ \/ oldLevels = levels /\ condc' = 0 /\ oldLevels' = 0 /\ condcElse' = 0
           \/ oldLevels # levels /\ UNCHANGED <<condc, oldLevels, condcElse>>
    BY <1>4 DEF Endif
  <2>2. /\ cond' \in Seq(Conditional) /\ Len(cond') = levels'
        /\ \A i \in 1 .. levels' : cond'[i] = cond[i]
    BY <1>2, <1>4, <2>1
  <2>3. TypeOK' /\ LinesInv'
    BY <1>1, <1>2, <1>4, <2>1, <2>2, ReadLineFacts DEF CondInv, TypeOK, macVars
  <2>4. Shape'
    <3>1. SUFFICES ASSUME legal PROVE Shape'
      BY <1>1 DEF Shape
    <3>2. CASE condc = 0
      BY <1>1, <1>2, <1>4, <2>1, <2>2, <3>1, <3>2 DEF CondInv, Shape
    <3>3. CASE condc = 1
      BY <1>1, <1>2, <1>4, <2>1, <2>2, <3>1, <3>3 DEF CondInv, Shape
    <3>4. QED
      BY <1>2, <3>2, <3>3
  <2>5. QED
    BY <2>2, <2>3, <2>4 DEF CondInv, LevelsRight
<1>5. QED
  BY <1>3, <1>4 DEF Endif

\* #else turns the innermost one over, unless the lines around it are skipped.
LEMMA ElseStep ==
  ASSUME CondInv, NEW k \in Joined, Else(k)
  PROVE  CondInv'
<1>1. /\ ReadLine(k) /\ UNCHANGED macVars /\ err' \in Messages
  BY DEF Else, Error, Messages, CondInv, TypeOK
<1>2. /\ levels \in Nat /\ Len(cond) = levels /\ cond \in Seq(Conditional)
      /\ condc \in {0, 1} /\ oldLevels \in Nat /\ condcElse \in {0, 1} /\ legal \in BOOLEAN
  BY DEF CondInv, TypeOK, LevelsRight
<1>3. CASE UNCHANGED <<condVars, cond, legal>>
  BY <1>1, <1>3, ReadLineFacts DEF CondInv, TypeOK, LevelsRight, Shape, condVars, macVars
<1>4. CASE levels > 0 /\ condcElse = 0 /\ ~(UNCHANGED <<condVars, cond, legal>>)
  <2>1. /\ levels' = levels
        /\ legal' = (legal /\ ~cond[levels].else)
        /\ cond' = [cond EXCEPT ![levels] = AfterElse(@)]
        /\ \/ condc = 1 /\ oldLevels = levels /\ condc' = 0 /\ UNCHANGED <<oldLevels, condcElse>>
           \/ condc = 0 /\ condc' = 1 /\ oldLevels' = levels /\ condcElse' = 1
           \/ condc = 1 /\ oldLevels # levels /\ UNCHANGED <<condc, oldLevels, condcElse>>
    BY <1>2, <1>4 DEF Else
  <2>2. cond[levels] \in Conditional /\ AfterElse(cond[levels]) \in Conditional
    <3>1. levels \in 1 .. Len(cond)
      BY <1>2, <1>4
    <3>2. cond[levels] \in Conditional
      BY <1>2, <3>1
    <3>3. QED
      BY <3>2 DEF Conditional, AfterElse
  <2>3. /\ cond' \in Seq(Conditional) /\ Len(cond') = levels
        /\ cond'[levels] = AfterElse(cond[levels])
        /\ \A i \in 1 .. levels : i # levels => cond'[i] = cond[i]
    BY <1>2, <1>4, <2>1, <2>2
  <2>4. legal' \in BOOLEAN
    BY <1>2, <2>1, <2>2 DEF Conditional
  <2>5. TypeOK' /\ LinesInv'
    BY <1>1, <1>2, <2>1, <2>3, <2>4, ReadLineFacts DEF CondInv, TypeOK, macVars
  <2>6. Shape'
    <3>1. SUFFICES ASSUME legal PROVE Shape'
      BY <1>2, <2>1 DEF Shape
    <3>2. CASE condc = 0
      BY <1>2, <1>4, <2>1, <2>3, <3>1, <3>2 DEF CondInv, Shape, AfterElse
    <3>3. CASE condc = 1 /\ oldLevels = levels
      BY <1>2, <1>4, <2>1, <2>3, <3>1, <3>3 DEF CondInv, Shape, AfterElse
    <3>4. CASE condc = 1 /\ oldLevels # levels
      BY <1>2, <1>4, <2>1, <2>3, <3>1, <3>4 DEF CondInv, Shape, AfterElse
    <3>5. QED
      BY <1>2, <3>2, <3>3, <3>4
  <2>7. QED
    BY <2>1, <2>3, <2>5, <2>6 DEF CondInv, LevelsRight
<1>5. QED
  BY <1>2, <1>3, <1>4 DEF Else

\* The activations below the innermost wait: their lines are kept right.  A new
\* one starts at the line the count has reached.
LEMMA IncludeStep ==
  ASSUME CondInv, NEW k \in Joined, Include(k)
  PROVE  CondInv'
<1>1. UNCHANGED <<condVars, refVars, macVars>> /\ err' \in Messages
  BY DEF Include, Error, Messages, CondInv, TypeOK
<1>2. currentLine' \in Nat /\ files' \in Seq(Activation) /\ LinesInv'
  <2>1. CASE files' = [files EXCEPT ![Top].read = @ + k]
    <3>1. ReadLine(k)
      BY <2>1 DEF Include, ReadLine
    <3>2. QED
      BY <3>1, ReadLineFacts
  <2>2. CASE files' = Append([files EXCEPT ![Top].read = @ + k, ![Top].old = currentLine'],
                             File(currentLine'))
    <3> DEFINE waiting == [files[Top] EXCEPT !.read = @ + k, !.old = currentLine']
               last == files[Top]
               below == [files EXCEPT ![Top] = waiting]
    <3>1. /\ k \in Nat \ {0} /\ currentLine \in Nat /\ currentLine' = currentLine + k
          /\ files \in Seq(Activation) /\ Top \in Nat \ {0} /\ Len(files) = Top
      BY ScppAssumption DEF Include, Reading, CondInv, TypeOK, Top
    <3>2. \A i \in 1 .. Top : files[i] \in Activation
      BY <3>1
    <3>3. files[Top] \in Activation
      BY <3>1, <3>2
    <3>4. waiting \in Activation
      <4>1. last \in Activation /\ k \in Nat /\ currentLine' \in Nat
        BY <3>1, <3>3
      <4> HIDE DEF last
      <4>2. [last EXCEPT !.read = @ + k, !.old = currentLine'] \in Activation
        BY <4>1, ReadMore
      <4>3. QED
        BY <4>2 DEF last
    <3>5. File(currentLine') \in Activation
      BY <3>1 DEF File, Activation
    <3>6. /\ waiting.flines = files[Top].flines /\ waiting.old = currentLine'
          /\ waiting.read = files[Top].read + k
      BY <3>3 DEF Activation
    <3>7. files' = Append(below, File(currentLine'))
      BY <2>2
    <3> HIDE DEF waiting
    <3>8. below \in Seq(Activation) /\ Len(below) = Top
      BY <3>1, <3>4
    <3>9. \A i \in 1 .. Top : below[i] = IF i = Top THEN waiting ELSE files[i]
      BY <3>1
    <3> HIDE DEF below
    <3>10. /\ files' \in Seq(Activation) /\ Len(files') = Top + 1
           /\ files'[Top + 1] = File(currentLine')
           /\ \A i \in 1 .. Top : files'[i] = below[i]
      BY <3>1, <3>5, <3>7, <3>8
    <3>11. Top' = Top + 1
      BY <3>10 DEF Top
    <3>12. \A i \in 1 .. Top : files[i].flines \in Nat /\ files[i].old \in Nat /\ files[i].read \in Nat
      BY <3>2 DEF Activation
    <3>13. /\ File(currentLine').flines = currentLine' /\ File(currentLine').old = currentLine'
           /\ File(currentLine').read = 0
      BY DEF File
    <3>14. ASSUME NEW i \in 1 .. Top + 1
           PROVE  /\ files'[i].read = (IF i = Top + 1 THEN currentLine' ELSE files'[i].old)
                                        - files'[i].flines
                  /\ files'[i].old <= currentLine'
      <4>1. CASE i = Top + 1
        BY <3>1, <3>10, <3>13, <4>1
      <4>2. CASE i = Top
        <5>1. files'[i] = waiting
          BY <3>1, <3>9, <3>10, <4>2
        <5>2. files[Top].read = currentLine - files[Top].flines
          BY <3>1 DEF CondInv, LinesInv, LineNumbersRight
        <5>3. QED
          BY <3>1, <3>6, <3>12, <4>2, <5>1, <5>2
      <4>3. CASE i < Top
        <5>1. i \in 1 .. Top /\ files'[i] = files[i]
          BY <3>1, <3>9, <3>10, <4>3
        <5>2. files[i].read = files[i].old - files[i].flines /\ files[i].old <= currentLine
          BY <4>3, <5>1 DEF CondInv, LinesInv, LineNumbersRight
        <5>3. QED
          BY <3>1, <3>12, <4>3, <5>1, <5>2
      <4>4. QED
        BY <3>1, <4>1, <4>2, <4>3
    <3>15. LinesInv'
      BY <3>11, <3>14 DEF LinesInv, LineNumbersRight
    <3>16. QED
      BY <3>1, <3>10, <3>15
  <2>3. QED
    BY <2>1, <2>2 DEF Include
<1>3. QED
  BY <1>1, <1>2 DEF CondInv, TypeOK, LevelsRight, Shape, condVars, refVars, macVars

\* The caller goes on with what it has kept, less the lines that were included.
LEMMA EofStep ==
  ASSUME CondInv, Eof
  PROVE  CondInv'
<1>1. UNCHANGED <<condVars, refVars, macVars, currentLine>> /\ err' \in Messages
  BY DEF Eof, Messages, CondInv, TypeOK
<1>2. files' \in Seq(Activation) /\ LinesInv'
  <2>1. CASE files' = << >>
    BY <2>1 DEF LinesInv, LineNumbersRight, Top
  <2>2. CASE /\ Top > 1
             /\ files' = [i \in 1 .. Top - 1 |->
                   IF i < Top - 1 THEN files[i]
                   ELSE [files[i] EXCEPT !.flines = @ + (currentLine - files[i].old)]]
    <3> DEFINE n == Top - 1
               resumed == [files[n] EXCEPT !.flines = @ + (currentLine - files[n].old)]
    <3>1. /\ currentLine \in Nat /\ files \in Seq(Activation) /\ n \in Nat \ {0} /\ Top = n + 1
          /\ Len(files) = Top
      BY <2>2 DEF CondInv, TypeOK, Top
    <3>2. \A i \in 1 .. Top : files[i] \in Activation
      BY <3>1
    <3>3. /\ files[n] \in Activation /\ files[n].old <= currentLine
          /\ files[n].read = files[n].old - files[n].flines
      BY <3>1, <3>2 DEF CondInv, LinesInv, LineNumbersRight
    <3>4. currentLine - files[n].old \in Nat
      BY <3>1, <3>3 DEF Activation
    <3>5. resumed \in Activation
      BY <3>3, <3>4 DEF Activation
    <3>6. /\ resumed.flines = files[n].flines + (currentLine - files[n].old)
          /\ resumed.old = files[n].old /\ resumed.read = files[n].read
      BY <3>3 DEF Activation
    <3>7. files' = [i \in 1 .. n |-> IF i < n THEN files[i] ELSE resumed]
      BY <2>2, <3>1
    <3> HIDE DEF resumed, n
    <3>8. \A i \in 1 .. n : files'[i] \in Activation
      BY <3>1, <3>2, <3>5, <3>7
    <3>9. files' \in Seq(Activation) /\ Len(files') = n
      BY <3>1, <3>7, <3>8
    <3>10. Top' = n
      BY <3>9 DEF Top
    <3>11. ASSUME NEW i \in 1 .. n
           PROVE  /\ files'[i].read = (IF i = n THEN currentLine ELSE files'[i].old)
                                        - files'[i].flines
                  /\ files'[i].old <= currentLine
      <4>1. CASE i = n
        BY <3>1, <3>3, <3>6, <3>7, <4>1 DEF Activation
      <4>2. CASE i # n
        <5>1. i \in 1 .. Top /\ i # Top /\ files'[i] = files[i]
          BY <3>1, <3>7, <4>2
        <5>2. QED
          BY <4>2, <5>1 DEF CondInv, LinesInv, LineNumbersRight
      <4>3. QED
        BY <4>1, <4>2
    <3>12. LinesInv'
      BY <1>1, <3>10, <3>11 DEF LinesInv, LineNumbersRight
    <3>13. QED
      BY <3>9, <3>12
  <2>3. QED
    BY <2>1, <2>2 DEF Eof
<1>3. QED
  BY <1>1, <1>2 DEF CondInv, TypeOK, LevelsRight, Shape, condVars, refVars, macVars

\* The second pass touches neither conditionals nor lines.
LEMMA SecondPassStep ==
  ASSUME CondInv, SecondPass
  PROVE  CondInv'
<1>1. UNCHANGED <<condVars, refVars, lineVars, defs, err>>
  BY DEF SecondPass
<1>2. /\ Head(kept) \in Definition
      /\ kept' \in Seq(Definition)
  BY DEF SecondPass, CondInv, TypeOK
<1>3. tab' \subseteq Macros
  BY <1>2 DEF SecondPass, CondInv, TypeOK, Definition
<1>4. QED
  BY <1>1, <1>2, <1>3
     DEF CondInv, TypeOK, LevelsRight, Shape, LinesInv, LineNumbersRight, Top,
         condVars, refVars, lineVars

LEMMA CondInvCorrect == Spec => []CondInv
<1>1. Init => CondInv
  <2> SUFFICES ASSUME Init PROVE CondInv
    OBVIOUS
  <2>1. << >> \in Seq(Conditional) /\ << >> \in Seq(Definition)
    OBVIOUS
  <2>2. File(0) \in Activation
    BY DEF File, Activation
  <2>3. <<File(0)>> \in Seq(Activation) /\ Len(<<File(0)>>) = 1 /\ <<File(0)>>[1] = File(0)
    BY <2>2
  <2>4. TypeOK
    BY <2>1, <2>3 DEF Init, TypeOK, Messages
  <2>5. LinesInv
    BY <2>3 DEF Init, LinesInv, LineNumbersRight, Top, File
  <2>6. LevelsRight /\ Shape
    BY DEF Init, LevelsRight, Shape
  <2>7. QED
    BY <2>4, <2>5, <2>6 DEF CondInv
<1>2. CondInv /\ [Next]_vars => CondInv'
  <2> SUFFICES ASSUME CondInv, [Next]_vars PROVE CondInv'
    OBVIOUS
  <2>1. CASE UNCHANGED vars
    BY <2>1 DEF vars, condVars, refVars, macVars, lineVars, CondInv, TypeOK, LevelsRight, Shape,
                LinesInv, LineNumbersRight, Top
  <2>2. ASSUME NEW k \in Joined,
               \/ Text(k) \/ Complain(k)
               \/ \E m \in Macros : Define(m, k) \/ Undef(m, k)
        PROVE  CondInv'
    BY <2>2, PlainStep
  <2>3. ASSUME NEW k \in Joined, NEW m \in Macros, NEW want \in BOOLEAN, If(m, want, k)
        PROVE  CondInv'
    BY <2>3, IfStep
  <2>4. ASSUME NEW k \in Joined, Endif(k) \/ Else(k) \/ Include(k)
        PROVE  CondInv'
    BY <2>4, EndifStep, ElseStep, IncludeStep
  <2>5. CASE Eof \/ SecondPass
    BY <2>5, EofStep, SecondPassStep
  <2>6. QED
    BY <2>1, <2>2, <2>3, <2>4, <2>5 DEF Next
<1>3. QED
  BY <1>1, <1>2, PTL DEF Spec

-----------------------------------------------------------------------------
(***************************************************************************)
(* The definitions.                                                        *)
(***************************************************************************)

\* Each kept definition has the other operation than the one of the same macro
\* before it; the first starts from tab, the last ends at defs, and a macro
\* without any is the same in both.
Alternating ==
  /\ \A i, j \in 1 .. Len(kept) :
       /\ i < j /\ kept[i].macro = kept[j].macro
       /\ \A l \in i + 1 .. j - 1 : kept[l].macro # kept[j].macro
       => kept[i].op # kept[j].op
  /\ \A i \in 1 .. Len(kept) :
       (\A l \in 1 .. i - 1 : kept[l].macro # kept[i].macro)
       => (kept[i].op = "define" <=> kept[i].macro \notin tab)
  /\ \A i \in 1 .. Len(kept) :
       (\A l \in i + 1 .. Len(kept) : kept[l].macro # kept[i].macro)
       => (kept[i].op = "define" <=> kept[i].macro \in defs)
  /\ \A m \in Macros :
       (\A l \in 1 .. Len(kept) : kept[l].macro # m) => (m \in tab <=> m \in defs)

\* A definition is kept only if the macro was not defined, a removal only if it
\* was: that is other than the last one kept.
LEMMA KeepStep ==
  ASSUME TypeOK, Alternating, NEW m \in Macros, NEW op \in {"define", "undef"},
         Keep(op, m), tab' = tab,
         op = "define" <=> m \notin defs,
         defs' = (IF op = "define" THEN defs \cup {m} ELSE defs \ {m})
  PROVE  Alternating'
<1> DEFINE n == Len(kept)
           new == [op |-> op, macro |-> m]
<1>1. /\ n \in Nat /\ Len(kept') = n + 1
      /\ \A i \in 1 .. n : kept'[i] = kept[i] /\ kept[i].op \in {"define", "undef"}
      /\ kept'[n + 1].op = op /\ kept'[n + 1].macro = m
  <2>1. new \in Definition /\ new.op = op /\ new.macro = m
    BY DEF Definition
  <2>2. kept \in Seq(Definition) /\ kept' = Append(kept, new)
    BY DEF TypeOK, Keep
  <2> HIDE DEF new
  <2>3. /\ n \in Nat /\ Len(kept') = n + 1 /\ kept'[n + 1] = new
        /\ \A i \in 1 .. n : kept'[i] = kept[i] /\ kept[i] \in Definition
    BY <2>1, <2>2
  <2>4. QED
    BY <2>1, <2>3 DEF Definition
<1> HIDE DEF n
<1>2. \A o \in Macros : o # m => (o \in defs' <=> o \in defs)
  OBVIOUS
<1>3. m \in defs' <=> op = "define"
  OBVIOUS
<1>4. \A i \in 1 .. n : kept[i].macro \in Macros
  <2>1. \A i \in 1 .. n : kept[i] \in Definition
    BY DEF TypeOK, n
  <2>2. QED
    BY <2>1 DEF Definition
<1>5. ASSUME NEW i \in 1 .. n + 1, NEW j \in 1 .. n + 1,
             i < j, kept'[i].macro = kept'[j].macro,
             \A l \in i + 1 .. j - 1 : kept'[l].macro # kept'[j].macro
      PROVE  kept'[i].op # kept'[j].op
  <2>1. CASE j = n + 1
    <3>1. i \in 1 .. n /\ kept[i].macro = m
      BY <1>1, <1>5, <2>1
    <3>2. \A l \in i + 1 .. n : kept[l].macro # kept[i].macro
      BY <1>1, <1>5, <2>1, <3>1
    <3>3. kept[i].op = "define" <=> m \in defs
      BY <3>1, <3>2 DEF Alternating, n
    <3>4. QED
      BY <1>1, <2>1, <3>1, <3>3
  <2>2. CASE j # n + 1
    <3>1. i \in 1 .. n /\ j \in 1 .. n
      BY <1>1, <1>5, <2>2
    <3>2. \A l \in i + 1 .. j - 1 : kept[l].macro # kept[j].macro
      BY <1>1, <1>5, <3>1
    <3>3. QED
      BY <1>1, <1>5, <3>1, <3>2 DEF Alternating, n
  <2>3. QED
    BY <2>1, <2>2
<1>6. ASSUME NEW i \in 1 .. n + 1, \A l \in 1 .. i - 1 : kept'[l].macro # kept'[i].macro
      PROVE  kept'[i].op = "define" <=> kept'[i].macro \notin tab
  <2>1. CASE i = n + 1
    <3>1. \A l \in 1 .. n : kept[l].macro # m
      BY <1>1, <1>6, <2>1
    <3>2. m \in tab <=> m \in defs
      BY <3>1 DEF Alternating, n
    <3>3. QED
      BY <1>1, <2>1, <3>2
  <2>2. CASE i # n + 1
    <3>1. i \in 1 .. n /\ \A l \in 1 .. i - 1 : kept[l].macro # kept[i].macro
      BY <1>1, <1>6, <2>2
    <3>2. QED
      BY <1>1, <3>1 DEF Alternating, n
  <2>3. QED
    BY <2>1, <2>2
<1>7. ASSUME NEW i \in 1 .. n + 1, \A l \in i + 1 .. n + 1 : kept'[l].macro # kept'[i].macro
      PROVE  kept'[i].op = "define" <=> kept'[i].macro \in defs'
  <2>1. CASE i = n + 1
    BY <1>1, <1>3, <2>1
  <2>2. CASE i # n + 1
    <3>1. i \in 1 .. n /\ kept[i].macro # m
      BY <1>1, <1>7, <2>2
    <3>2. \A l \in i + 1 .. n : kept[l].macro # kept[i].macro
      BY <1>1, <1>7, <3>1
    <3>3. kept[i].op = "define" <=> kept[i].macro \in defs
      BY <3>1, <3>2 DEF Alternating, n
    <3>4. QED
      BY <1>1, <1>2, <1>4, <3>1, <3>3
  <2>3. QED
    BY <2>1, <2>2
<1>8. ASSUME NEW o \in Macros, \A l \in 1 .. n + 1 : kept'[l].macro # o
      PROVE  o \in tab <=> o \in defs'
  <2>1. o # m
    BY <1>1, <1>8
  <2>2. \A l \in 1 .. n : kept[l].macro # o
    BY <1>1, <1>8
  <2>3. QED
    BY <1>2, <2>1, <2>2 DEF Alternating, n
<1>9. QED
  BY <1>1, <1>5, <1>6, <1>7, <1>8 DEF Alternating

\* The second pass moves the first definition from kept to tab.
LEMMA TakeStep ==
  ASSUME TypeOK, Alternating, SecondPass
  PROVE  Alternating'
<1> DEFINE n == Len(kept) - 1
           m == kept[1].macro
<1>1. /\ n \in Nat /\ Len(kept) = n + 1 /\ Len(kept') = n
      /\ \A i \in 1 .. n : kept'[i] = kept[i + 1]
      /\ \A i \in 1 .. n + 1 : kept[i].op \in {"define", "undef"} /\ kept[i].macro \in Macros
      /\ Head(kept) = kept[1]
  <2>1. kept \in Seq(Definition) /\ kept # << >> /\ kept' = Tail(kept)
    BY DEF TypeOK, SecondPass
  <2>2. Len(kept) \in Nat \ {0} /\ \A i \in 1 .. Len(kept) : kept[i] \in Definition
    BY <2>1
  <2>3. \A i \in 1 .. Len(kept) : kept[i].op \in {"define", "undef"} /\ kept[i].macro \in Macros
    BY <2>2 DEF Definition
  <2>4. QED
    BY <2>1, <2>2, <2>3
<1>2. /\ defs' = defs
      /\ tab' = IF kept[1].op = "define" THEN tab \cup {m} ELSE tab \ {m}
  BY <1>1 DEF SecondPass
<1>3. m \in tab' <=> kept[1].op = "define"
  BY <1>2
<1>4. \A o \in Macros : o # m => (o \in tab' <=> o \in tab)
  BY <1>2
<1> HIDE DEF n, m
<1>5. ASSUME NEW i \in 1 .. n, NEW j \in 1 .. n,
             i < j, kept'[i].macro = kept'[j].macro,
             \A l \in i + 1 .. j - 1 : kept'[l].macro # kept'[j].macro
      PROVE  kept'[i].op # kept'[j].op
  <2>1. /\ i + 1 \in 1 .. n + 1 /\ j + 1 \in 1 .. n + 1 /\ i + 1 < j + 1
        /\ kept[i + 1].macro = kept[j + 1].macro
    BY <1>1, <1>5
  <2>2. ASSUME NEW l \in (i + 1) + 1 .. (j + 1) - 1
        PROVE  kept[l].macro # kept[j + 1].macro
    <3>1. l - 1 \in i + 1 .. j - 1 /\ l - 1 \in 1 .. n /\ kept'[l - 1] = kept[l]
      BY <1>1
    <3>2. QED
      BY <1>1, <1>5, <3>1
  <2>3. kept[i + 1].op # kept[j + 1].op
    BY <1>1, <2>1, <2>2 DEF Alternating
  <2>4. QED
    BY <1>1, <2>3
<1>6. ASSUME NEW i \in 1 .. n, \A l \in 1 .. i - 1 : kept'[l].macro # kept'[i].macro
      PROVE  kept'[i].op = "define" <=> kept'[i].macro \notin tab'
  <2>1. i + 1 \in 1 .. n + 1 /\ kept'[i] = kept[i + 1]
    BY <1>1
  <2>2. ASSUME NEW l \in 2 .. (i + 1) - 1
        PROVE  kept[l].macro # kept[i + 1].macro
    <3>1. l - 1 \in 1 .. i - 1 /\ l - 1 \in 1 .. n /\ kept'[l - 1] = kept[l]
      BY <1>1
    <3>2. QED
      BY <1>6, <2>1, <3>1
  <2>3. CASE kept[i + 1].macro = m
    <3>1. kept[1].op # kept[i + 1].op
      <4>1. 1 \in 1 .. n + 1 /\ 1 < i + 1 /\ kept[1].macro = kept[i + 1].macro
        BY <1>1, <2>3 DEF m
      <4>2. \A l \in 1 + 1 .. (i + 1) - 1 : kept[l].macro # kept[i + 1].macro
        BY <2>2
      <4>3. QED
        BY <1>1, <2>1, <4>1, <4>2 DEF Alternating
    <3>2. kept[1].op \in {"define", "undef"} /\ kept[i + 1].op \in {"define", "undef"}
      BY <1>1, <2>1
    <3>3. QED
      BY <1>3, <2>1, <2>3, <3>1, <3>2
  <2>4. CASE kept[i + 1].macro # m
    <3>1. \A l \in 1 .. (i + 1) - 1 : kept[l].macro # kept[i + 1].macro
      BY <2>2, <2>4 DEF m
    <3>2. kept[i + 1].op = "define" <=> kept[i + 1].macro \notin tab
      BY <1>1, <2>1, <3>1 DEF Alternating
    <3>3. QED
      BY <1>1, <1>4, <2>1, <2>4, <3>2
  <2>5. QED
    BY <2>3, <2>4
<1>7. ASSUME NEW i \in 1 .. n, \A l \in i + 1 .. n : kept'[l].macro # kept'[i].macro
      PROVE  kept'[i].op = "define" <=> kept'[i].macro \in defs'
  <2>1. i + 1 \in 1 .. n + 1 /\ kept'[i] = kept[i + 1]
    BY <1>1
  <2>2. ASSUME NEW l \in (i + 1) + 1 .. n + 1
        PROVE  kept[l].macro # kept[i + 1].macro
    <3>1. l - 1 \in i + 1 .. n /\ l - 1 \in 1 .. n /\ kept'[l - 1] = kept[l]
      BY <1>1
    <3>2. QED
      BY <1>7, <2>1, <3>1
  <2>3. QED
    BY <1>1, <1>2, <2>1, <2>2 DEF Alternating
<1>8. ASSUME NEW o \in Macros, \A l \in 1 .. n : kept'[l].macro # o
      PROVE  o \in tab' <=> o \in defs'
  <2>1. ASSUME NEW l \in 2 .. n + 1
        PROVE  kept[l].macro # o
    <3>1. l - 1 \in 1 .. n /\ kept'[l - 1] = kept[l]
      BY <1>1
    <3>2. QED
      BY <1>8, <3>1
  <2>2. CASE o = m
    <3>1. \A l \in 1 + 1 .. n + 1 : kept[l].macro # kept[1].macro
      BY <2>1, <2>2 DEF m
    <3>2. 1 \in 1 .. n + 1
      BY <1>1
    <3>3. kept[1].op = "define" <=> kept[1].macro \in defs
      BY <1>1, <3>1, <3>2 DEF Alternating
    <3>4. QED
      BY <1>2, <1>3, <2>2, <3>3 DEF m
  <2>3. CASE o # m
    <3>1. \A l \in 1 .. n + 1 : kept[l].macro # o
      BY <2>1, <2>3 DEF m
    <3>2. o \in tab <=> o \in defs
      BY <1>1, <3>1 DEF Alternating
    <3>3. QED
      BY <1>2, <1>4, <2>3, <3>2
  <2>4. QED
    BY <2>2, <2>3
<1>9. QED
  BY <1>1, <1>5, <1>6, <1>7, <1>8 DEF Alternating

LEMMA AlternatingCorrect == Spec => []Alternating
<1>1. Init => Alternating
  BY DEF Init, Alternating
<1>2. TypeOK /\ Alternating /\ [Next]_vars => Alternating'
  <2> SUFFICES ASSUME TypeOK, Alternating, [Next]_vars PROVE Alternating'
    OBVIOUS
  <2>1. CASE UNCHANGED macVars
    <3>1. kept' = kept /\ tab' = tab /\ defs' = defs
      BY <2>1 DEF macVars
    <3>2. Alternating!1' /\ Alternating!2' /\ Alternating!3' /\ Alternating!4'
      BY <3>1 DEF Alternating
    <3>3. QED
      BY <3>2 DEF Alternating
  <2>2. ASSUME NEW m \in Macros, NEW k \in Joined, Define(m, k) \/ Undef(m, k), ~UNCHANGED macVars
        PROVE  Alternating'
    <3>1. CASE m \notin defs /\ defs' = defs \cup {m} /\ Keep("define", m) /\ tab' = tab
      BY <3>1, KeepStep
    <3>2. CASE m \in defs /\ defs' = defs \ {m} /\ Keep("undef", m) /\ tab' = tab
      BY <3>2, KeepStep
    <3>3. QED
      BY <2>2, <3>1, <3>2 DEF Define, Undef
  <2>3. CASE SecondPass
    BY <2>3, TakeStep
  <2>4. QED
    BY <2>1, <2>2, <2>3
       DEF Next, vars, macVars, Text, Complain, If, Endif, Else, Include, Eof
<1>3. Spec => []TypeOK
  BY CondInvCorrect, PTL DEF CondInv
<1>4. QED
  BY <1>1, <1>2, <1>3, PTL DEF Spec

-----------------------------------------------------------------------------
(***************************************************************************)
(* The theorems.                                                           *)
(***************************************************************************)

\* The variables of the preprocessor keep their types, and levels (condc_levels,
\* signed in the code) never falls below zero.
THEOREM TypeCorrect == Spec => []TypeOK
  BY CondInvCorrect, PTL DEF CondInv

\* The four numbers skip what C skips, for conditionals nested to any depth.
THEOREM SkipsCorrect == Spec => []SkipsWhatCSkips
  BY CondInvCorrect, ShapeSkips, PTL

\* condc_levels counts the conditionals that are open.
THEOREM LevelsCorrect == Spec => []LevelsRight
  BY CondInvCorrect, PTL DEF CondInv

\* Messages name the right line, for any nesting of includes.
THEOREM LineNumbersCorrect == Spec => []LineNumbersRight
<1>1. CondInv => LineNumbersRight
  BY DEF CondInv, LinesInv
<1>2. QED
  BY <1>1, CondInvCorrect, PTL

\* The second pass never removes a macro that is not there, nor defines one twice.
THEOREM SecondPassCorrect == Spec => []SecondPassSafe
<1>1. TypeOK /\ Alternating => SecondPassSafe
  <2> SUFFICES ASSUME TypeOK, Alternating, kept # << >>
               PROVE  Head(kept).op = "undef" <=> Head(kept).macro \in tab
    BY DEF SecondPassSafe
  <2>1. /\ 1 \in 1 .. Len(kept) /\ Head(kept) = kept[1]
        /\ kept[1].op \in {"define", "undef"}
    <3>1. 1 \in 1 .. Len(kept) /\ Head(kept) = kept[1] /\ kept[1] \in Definition
      BY DEF TypeOK
    <3>2. QED
      BY <3>1 DEF Definition
  <2>2. \A l \in 1 .. 1 - 1 : kept[l].macro # kept[1].macro
    OBVIOUS
  <2>3. kept[1].op = "define" <=> kept[1].macro \notin tab
    BY <2>1, <2>2 DEF Alternating
  <2>4. QED
    BY <2>1, <2>3
<1>2. QED
  BY <1>1, TypeCorrect, AlternatingCorrect, PTL
=============================================================================
