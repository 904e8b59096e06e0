---------------------------- MODULE MallocProofs ----------------------------
(***************************************************************************)
(* Proofs about the futex mutex and the zone allocator under it, for any   *)
(* set of threads and any values of the constants that satisfy             *)
(* MallocAssumption (the mutex needs none).                                *)
(*                                                                         *)
(* The invariant of the mutex ties the word to the holder: it is 1 exactly *)
(* when a thread is in the critical section, and then there is one.        *)
(*                                                                         *)
(* The properties of Malloc.tla are not inductive one by one.  The         *)
(* invariant IInv adds what a thread knows at each step (StepsInv, that it *)
(* holds the mutex; LocalsInv, what its local variables point to) and that *)
(* every zone ends at or below the break (Bounded).                        *)
(***************************************************************************)
EXTENDS Malloc, WellFoundedInduction, TLAPS

(***************************************************************************)
(* The mutex.                                                              *)
(***************************************************************************)

LockInv ==
  /\ LockTypeOK
  /\ word = 0 => \A t \in Threads : lpc[t] # "crit"
  /\ word = 1 => \E t \in Threads : lpc[t] = "crit"
  /\ \A s, t \in Threads : lpc[s] = "crit" /\ lpc[t] = "crit" => s = t

\* The invariant holds when nobody has asked for the mutex.
LEMMA LockInvInit == LockInit => LockInv
  BY DEF LockInit, LockInv, LockTypeOK, LockPc

\* Every step of mutex_lock and mutex_unlock preserves it.
LEMMA LockInvStep == LockInv /\ [LockNext]_lockVars => LockInv'
<1> SUFFICES ASSUME LockInv, [LockNext]_lockVars
             PROVE  LockInv'
  OBVIOUS
<1> USE DEF LockInv, LockTypeOK, LockPc, Goto
<1>1. ASSUME NEW t \in Threads, Want(t)
      PROVE  LockInv'
  BY <1>1 DEF Want
<1>2. ASSUME NEW t \in Threads, Xchg(t)
      PROVE  LockInv'
  <2>1. CASE word = 0
    BY <1>2, <2>1 DEF Xchg
  <2>2. CASE word = 1
    BY <1>2, <2>2 DEF Xchg
  <2>3. QED
    BY <2>1, <2>2
<1>3. ASSUME NEW t \in Threads, FutexWait(t)
      PROVE  LockInv'
  BY <1>3 DEF FutexWait
<1>4. ASSUME NEW t \in Threads, Interrupted(t)
      PROVE  LockInv'
  BY <1>4 DEF Interrupted
<1>5. ASSUME NEW t \in Threads, Release(t)
      PROVE  LockInv'
  BY <1>5 DEF Release
<1>6. ASSUME NEW t \in Threads, Wake(t)
      PROVE  LockInv'
  BY <1>6 DEF Wake, Asleep
<1>7. CASE UNCHANGED lockVars
  BY <1>7 DEF lockVars
<1>8. QED
  BY <1>1, <1>2, <1>3, <1>4, <1>5, <1>6, <1>7 DEF LockNext

\* The invariant implies the two properties about the holder.
LEMMA LockInvImplies == LockInv => MutualExclusion /\ WordTellsHolder
  BY DEF LockInv, LockTypeOK, MutualExclusion, WordTellsHolder, Holders

\* The lock word and every thread's place stay what they are meant to be.
THEOREM LockTypeCorrect == LockSafeSpec => []LockTypeOK
<1>1. LockInv => LockTypeOK
  BY DEF LockInv
<1>2. QED
  BY <1>1, LockInvInit, LockInvStep, PTL DEF LockSafeSpec

\* At most one thread is between mutex_lock and mutex_unlock of lock.c.
THEOREM MutexCorrect == LockSafeSpec => []MutualExclusion
  BY LockInvInit, LockInvStep, LockInvImplies, PTL DEF LockSafeSpec

\* The word is 1 exactly while the mutex is held, although losers write it too.
THEOREM WordCorrect == LockSafeSpec => []WordTellsHolder
  BY LockInvInit, LockInvStep, LockInvImplies, PTL DEF LockSafeSpec

-----------------------------------------------------------------------------
\* A step of the mutex never leaves sleepers behind with nobody to wake them.
LEMMA NoLostWakeupStep ==
  LockInv /\ NoLostWakeup /\ [LockNext]_lockVars => NoLostWakeup'
<1> SUFFICES ASSUME LockInv, NoLostWakeup, [LockNext]_lockVars
             PROVE  NoLostWakeup'
  OBVIOUS
<1> USE DEF LockInv, LockTypeOK, LockPc, Goto, NoLostWakeup, Asleep
<1>1. ASSUME NEW t \in Threads, Want(t)
      PROVE  NoLostWakeup'
  BY <1>1 DEF Want
<1>2. ASSUME NEW t \in Threads, Xchg(t)
      PROVE  NoLostWakeup'
  BY <1>2 DEF Xchg
<1>3. ASSUME NEW t \in Threads, FutexWait(t)
      PROVE  NoLostWakeup'
  BY <1>3 DEF FutexWait
<1>4. ASSUME NEW t \in Threads, Interrupted(t)
      PROVE  NoLostWakeup'
  BY <1>4 DEF Interrupted
<1>5. ASSUME NEW t \in Threads, Release(t)
      PROVE  NoLostWakeup'
  BY <1>5 DEF Release
<1>6. ASSUME NEW t \in Threads, Wake(t)
      PROVE  NoLostWakeup'
  BY <1>6 DEF Wake
<1>7. CASE UNCHANGED lockVars
  BY <1>7 DEF lockVars
<1>8. QED
  BY <1>1, <1>2, <1>3, <1>4, <1>5, <1>6, <1>7 DEF LockNext

\* When the mutex is free, its sleepers have a thread that will wake them.
THEOREM NoLostWakeupCorrect == LockSafeSpec => []NoLostWakeup
<1>1. LockInit => NoLostWakeup
  BY DEF LockInit, NoLostWakeup, Asleep
<1>2. QED
  BY <1>1, LockInvInit, LockInvStep, NoLostWakeupStep, PTL DEF LockSafeSpec

\* mutex_lock and mutex_unlock keep word, holder and sleepers in step.
THEOREM LockRightCorrect == LockSafeSpec => []LockRight
  BY WordCorrect, NoLostWakeupCorrect, PTL DEF LockRight

(***************************************************************************)
(* The allocator.                                                          *)
(***************************************************************************)
\* The steps of the heap operations are taken under the mutex, the others not.
StepsInv ==
  \A t \in Threads :
    /\ step[t] \in {"take", "grow", "carve", "mergePrev", "mergeNext", "trim"}
         => lpc[t] = "crit"
    /\ step[t] = "idle" <=> lpc[t] = "out"
    /\ lpc[t] = "wake" => step[t] = "done"
    /\ step[t] = "done" => lpc[t] \in {"crit", "wake"}
    /\ step[t] # "error"

\* What the locals req and zone hold at each step.
LocalsInv ==
  \A t \in Threads :
    /\ step[t] \in {"idle", "find", "grow"} => zone[t] = NULL
    /\ step[t] \in {"take", "grow", "carve"} => req[t] # 0
    /\ step[t] \in {"take", "carve"} =>
         zone[t] \in Zones \ (used \cup lost) /\ Request(req[t]) <= zsize[zone[t]]
    /\ step[t] \in {"mergePrev", "mergeNext", "trim"} => zone[t] \in Zones \ (used \cup lost)
    /\ step[t] = "check" => zone[t] = NULL \/ zone[t] \in used
    /\ step[t] = "done" => zone[t] = NULL \/
         (zone[t] \in used /\ req[t] # 0 /\ HdrOff + req[t] <= zsize[zone[t]])

\* No zone reaches beyond the break.
Bounded == \A z \in Zones : End(z) <= heap

HeapInv == TypeOK /\ StepsInv /\ LocalsInv /\ Tiled /\ Bounded
           /\ IndexesAgree /\ Accounted /\ LiveInZone

IInv == LockInv /\ HeapInv

-----------------------------------------------------------------------------
(***************************************************************************)
(* Arithmetic of the sizes.                                                *)
(***************************************************************************)

\* Rounding up to a multiple yields at least the number.
LEMMA RoundUpFacts ==
  ASSUME NEW n \in Nat \ {0}, NEW a \in Nat \ {0}
  PROVE  RoundUp(n, a) \in Nat \ {0} /\ n <= RoundUp(n, a)
<1> DEFINE q == (n - 1) \div a
           r == (n - 1) % a
<1>1. q \in Nat /\ r \in 0 .. a - 1 /\ n - 1 = a * q + r
  OBVIOUS
<1> HIDE DEF q, r
<1>2. (q + 1) * a = a * q + a /\ a * q \in Nat
  BY <1>1
<1>3. (q + 1) * a \in Nat /\ n <= (q + 1) * a
  BY <1>1, <1>2
<1>4. QED
  BY <1>3 DEF RoundUp, q

\* A zone of size1 holds the header and the client's area.
LEMMA RequestFacts ==
  ASSUME NEW n \in Sizes, n # 0
  PROVE  Request(n) \in Nat \ {0} /\ HdrOff + n <= Request(n)
<1>1. n \in Nat \ {0} /\ Align \in Nat \ {0}
  BY MallocAssumption
<1>2. RoundUp(n, Align) \in Nat \ {0} /\ n <= RoundUp(n, Align)
  BY <1>1, RoundUpFacts
<1>3. QED
  BY <1>2, MallocAssumption DEF Request

\* Whatever size class it falls into, a request fits what brk is asked for.
LEMMA GrowFacts ==
  ASSUME NEW s \in Nat \ {0}
  PROVE  /\ GrowBy(s) \in Nat \ {0} /\ s <= GrowBy(s)
         /\ RoundUp(s, Page) \in Nat \ {0} /\ s <= RoundUp(s, Page)
<1> DEFINE g == IF s < SmallReq THEN GrowSmall ELSE IF s < MidReq THEN GrowMid ELSE 8 * s
<1>1. g \in Nat \ {0} /\ s <= g
  BY MallocAssumption
<1>2. GrowBy(s) = RoundUp(g, Page)
  BY DEF GrowBy
<1> HIDE DEF g
<1>3. RoundUp(g, Page) \in Nat \ {0} /\ g <= RoundUp(g, Page)
  BY <1>1, RoundUpFacts, MallocAssumption
<1>4. RoundUp(s, Page) \in Nat \ {0} /\ s <= RoundUp(s, Page)
  BY RoundUpFacts, MallocAssumption
<1>5. QED
  BY <1>1, <1>2, <1>3, <1>4

-----------------------------------------------------------------------------
(***************************************************************************)
(* The mutex.                                                              *)
(***************************************************************************)

\* Every step of the allocator is a step of the mutex or leaves it alone.
LEMMA LockStep == [Next]_vars => [LockNext]_lockVars
<1> SUFFICES ASSUME [Next]_vars PROVE [LockNext]_lockVars
  OBVIOUS
<1>1. ASSUME NEW t \in Threads,
             \/ \E n \in Sizes : CallMalloc(t, n)
             \/ \E p \in DOMAIN live \cup {NULL} : CallFree(t, p)
             \/ Acquire(t) \/ Unlock(t) \/ Return(t)
      PROVE  LockNext
  BY <1>1 DEF CallMalloc, CallFree, Acquire, Unlock, Return, LockNext
<1>2. ASSUME NEW t \in Threads,
             \/ Find(t) \/ Take(t) \/ Grow(t) \/ Carve(t)
             \/ Check(t) \/ MergePrev(t) \/ MergeNext(t) \/ Trim(t)
      PROVE  UNCHANGED lockVars
  BY <1>2 DEF Find, Take, Grow, Extend, Carve, Check, MergePrev, MergeNext, Trim,
              At, lockVars
<1>3. CASE UNCHANGED vars
  BY <1>3 DEF vars, lockVars
<1>4. QED
  BY <1>1, <1>2, <1>3 DEF Next

\* The thread in the critical section is the only one inside a heap operation.
LEMMA Alone ==
  ASSUME LockInv, StepsInv, NEW t \in Threads, lpc[t] = "crit"
  PROVE  /\ \A u \in Threads \ {t} :
              step[u] \notin {"take", "grow", "carve", "mergePrev", "mergeNext", "trim"}
         /\ step[t] # "carve" => Carving = {}
         /\ step[t] = "carve" => Carving = {zone[t]}
  BY DEF LockInv, StepsInv, Carving

-----------------------------------------------------------------------------
\* All conjuncts hold of the empty heap.
LEMMA IInvInit == Init => IInv
<1> SUFFICES ASSUME Init PROVE IInv
  OBVIOUS
<1>1. LockInv
  BY LockInvInit DEF Init
<1>2. TypeOK
  BY <1>1, MallocAssumption DEF Init, TypeOK, LockInv, StepPc, Zones, NULL
<1>3. StepsInv /\ LocalsInv
  BY DEF Init, LockInit, StepsInv, LocalsInv
<1>4. Tiled /\ Bounded /\ IndexesAgree /\ Accounted /\ LiveInZone
  BY DEF Init, Tiled, Bounded, IndexesAgree, Accounted, LiveInZone, Zones, Free,
         Carving, Carrying
<1>5. QED
  BY <1>1, <1>2, <1>3, <1>4 DEF IInv, HeapInv

-----------------------------------------------------------------------------
(***************************************************************************)
(* Steps that leave the heap alone: calls, the mutex, the search.          *)
(***************************************************************************)

\* The heap part of the invariant survives the call of malloc.
LEMMA CallMallocStep ==
  ASSUME IInv, LockInv', NEW t \in Threads, NEW n \in Sizes, CallMalloc(t, n)
  PROVE  HeapInv'
<1> USE DEF IInv, HeapInv, CallMalloc, Want, Goto, heapVars
<1>1. TypeOK'
  BY DEF TypeOK, LockInv, LockTypeOK, StepPc, Zones
<1>2. StepsInv'
  BY DEF StepsInv, TypeOK, LockTypeOK
<1>3. LocalsInv'
  BY DEF LocalsInv, TypeOK, Zones, NULL
<1>4. Tiled' /\ Bounded'
  BY DEF Tiled, Bounded, Zones, End
<1>5. Carving' = Carving /\ Carrying' = Carrying
  BY DEF Carving, Carrying, TypeOK
<1>6. IndexesAgree'
  BY <1>5 DEF IndexesAgree, Free, Zones, End
<1>7. Accounted'
  BY <1>5 DEF Accounted, Carrying, TypeOK
<1>8. LiveInZone'
  BY DEF LiveInZone, Zones, End
<1>9. QED
  BY <1>1, <1>2, <1>3, <1>4, <1>6, <1>7, <1>8

\* free takes the pointer from the client: its zone is now carried by the thread.
LEMMA CallFreeStep ==
  ASSUME IInv, LockInv', NEW t \in Threads, NEW p \in DOMAIN live \cup {NULL}, CallFree(t, p)
  PROVE  HeapInv'
<1> USE DEF IInv, HeapInv, CallFree, Want, Goto, heapVars
<1>1. p # NULL => p - HdrOff \in Zones
  BY DEF LiveInZone
<1>2. TypeOK'
  BY <1>1 DEF TypeOK, LockInv, LockTypeOK, StepPc, Zones, Drop
<1>3. StepsInv'
  BY DEF StepsInv, TypeOK, LockTypeOK
<1>4. LocalsInv'
  BY DEF LocalsInv, TypeOK, Zones, NULL, Accounted
<1>5. Tiled' /\ Bounded'
  BY DEF Tiled, Bounded, Zones, End
<1>6. Carving' = Carving
  BY DEF Carving, TypeOK
<1>7. IndexesAgree'
  BY <1>6 DEF IndexesAgree, Free, Zones, End
<1>8. Accounted'
  <2>1. CASE p = NULL
    <3>1. Carrying' = Carrying
      BY <2>1 DEF Carrying, TypeOK, NULL
    <3>2. live' = live
      BY <2>1 DEF Drop, TypeOK, NULL
    <3>3. QED
      BY <1>6, <3>1, <3>2 DEF Accounted, Carrying, TypeOK
  <2>2. CASE p # NULL
    <3>1. t \notin Carrying /\ Carrying' = Carrying \cup {t}
      BY <2>2, <1>1, MallocAssumption DEF Carrying, TypeOK, NULL
    <3>2. zone'[t] = p - HdrOff /\ \A u \in Carrying : zone'[u] = zone[u]
      BY <2>2, <3>1 DEF Carrying, TypeOK
    <3>3. DOMAIN live' = DOMAIN live \ {p}
      BY DEF Drop
    <3>4. \A q \in DOMAIN live : q \in Nat
      BY DEF TypeOK
    <3>5. p \in DOMAIN live
      BY <2>2
    <3> HIDE DEF CallFree
    <3>6. used' = used /\ lost' = lost
      BY DEF CallFree
    <3>7. used' = {q - HdrOff : q \in DOMAIN live'} \cup {zone'[u] : u \in Carrying'}
      BY <3>1, <3>2, <3>3, <3>4, <3>5, <3>6, MallocAssumption DEF Accounted
    <3>8. \A u \in Carrying' : zone'[u] + HdrOff \notin DOMAIN live'
      BY <3>1, <3>2, <3>3, <3>4, <3>5, MallocAssumption DEF Accounted
    <3>9. \A u \in Carrying : zone[u] # p - HdrOff
      BY <3>4, <3>5, MallocAssumption DEF Accounted
    <3>10. \A u, v \in Carrying' : zone'[u] = zone'[v] => u = v
      BY <3>1, <3>2, <3>9 DEF Accounted
    <3>11. lost' \cap (used' \cup Carving') = {}
      BY <1>6, <3>6 DEF Accounted
    <3>12. QED
      BY <3>7, <3>8, <3>10, <3>11 DEF Accounted
  <2>3. QED
    BY <2>1, <2>2
<1>9. LiveInZone'
  BY DEF LiveInZone, Zones, End, Drop
<1>10. QED
  BY <1>2, <1>3, <1>4, <1>5, <1>7, <1>8, <1>9

\* Waiting for the mutex, and its release, move no zone.
LEMMA AcquireUnlockStep ==
  ASSUME IInv, LockInv', NEW t \in Threads, Acquire(t) \/ Unlock(t)
  PROVE  HeapInv'
<1>1. UNCHANGED <<heapVars, step, req, zone, live>>
  BY DEF Acquire, Unlock
<1> USE <1>1 DEF IInv, HeapInv, heapVars
<1>2. TypeOK'
  BY DEF TypeOK, LockInv, Zones
<1>3. StepsInv'
  BY DEF StepsInv, TypeOK, LockTypeOK, Acquire, Unlock, Xchg, FutexWait, Interrupted,
         Release, Goto
<1>4. LocalsInv'
  BY DEF LocalsInv, Zones
<1>5. Tiled' /\ Bounded' /\ LiveInZone'
  BY DEF Tiled, Bounded, LiveInZone, Zones, End
<1>6. Carving' = Carving /\ Carrying' = Carrying
  BY DEF Carving, Carrying
<1>7. IndexesAgree'
  BY <1>6 DEF IndexesAgree, Free, Zones, End
<1>8. Accounted'
  BY <1>6 DEF Accounted, Carrying
<1>9. QED
  BY <1>2, <1>3, <1>4, <1>5, <1>7, <1>8

\* The return hands the zone the thread carries to the client.
LEMMA ReturnStep ==
  ASSUME IInv, LockInv', NEW t \in Threads, Return(t)
  PROVE  HeapInv'
<1> USE DEF IInv, HeapInv, heapVars
<1>1. /\ step' = [step EXCEPT ![t] = "idle"] /\ zone' = [zone EXCEPT ![t] = NULL]
      /\ req' = [req EXCEPT ![t] = 0] /\ UNCHANGED heapVars
      /\ live' = IF zone[t] = NULL THEN live ELSE Put(live, zone[t] + HdrOff, req[t])
      /\ Wake(t)
  BY DEF Return
<1>2. step[t] = "done"
  BY <1>1 DEF Wake, StepsInv
<1>3. zone[t] # NULL => /\ t \in Carrying /\ zone[t] \in Zones
                        /\ req[t] \in Sizes \ {0} /\ HdrOff + req[t] <= zsize[zone[t]]
                        /\ zone[t] + HdrOff \in Nat
  BY <1>2, MallocAssumption DEF Carrying, LocalsInv, TypeOK
<1>4. TypeOK'
  BY <1>1, <1>3 DEF TypeOK, LockInv, StepPc, Zones, Put
<1>5. StepsInv'
  BY <1>1, <1>2 DEF StepsInv, TypeOK, LockTypeOK, Wake, Asleep
<1>6. LocalsInv'
  BY <1>1 DEF LocalsInv, TypeOK, Zones, NULL
<1>7. Tiled' /\ Bounded'
  BY <1>1 DEF Tiled, Bounded, Zones, End
<1>8. Carving' = Carving
  BY <1>1, <1>2 DEF Carving, TypeOK
<1>9. IndexesAgree'
  BY <1>1, <1>8 DEF IndexesAgree, Free, Zones, End
<1>10. Carrying' = Carrying \ {t} /\ \A u \in Carrying' : zone'[u] = zone[u]
  BY <1>1 DEF Carrying, TypeOK
<1>11. Accounted'
  <2>1. CASE zone[t] = NULL
    <3>1. t \notin Carrying /\ live' = live
      BY <1>1, <2>1 DEF Carrying
    <3>2. QED
      BY <3>1, <1>1, <1>8, <1>10 DEF Accounted
  <2>2. CASE zone[t] # NULL
    <3>1. DOMAIN live' = DOMAIN live \cup {zone[t] + HdrOff}
      BY <1>1, <2>2 DEF Put
    <3>2. \A q \in DOMAIN live : q \in Nat
      BY DEF TypeOK
    <3>3. t \in Carrying /\ zone[t] \in Nat /\ \A u \in Carrying : zone[u] \in Nat
      BY <1>3, <2>2 DEF Carrying, TypeOK
    <3>4. used' = used
      BY <1>1
    <3>5. used' = {q - HdrOff : q \in DOMAIN live'} \cup {zone'[u] : u \in Carrying'}
      BY <3>1, <3>2, <3>3, <3>4, <1>10, MallocAssumption DEF Accounted
    <3>6. \A u \in Carrying' : zone'[u] + HdrOff \notin DOMAIN live'
      BY <3>1, <3>3, <1>10, MallocAssumption DEF Accounted
    <3>7. \A u, v \in Carrying' : zone'[u] = zone'[v] => u = v
      BY <1>10 DEF Accounted
    <3>8. lost' \cap (used' \cup Carving') = {}
      BY <1>1, <1>8 DEF Accounted
    <3>9. QED
      BY <3>5, <3>6, <3>7, <3>8 DEF Accounted
  <2>3. QED
    BY <2>1, <2>2
<1>12. LiveInZone'
  <2>1. CASE zone[t] = NULL
    BY <1>1, <2>1 DEF LiveInZone, Zones, End
  <2>2. CASE zone[t] # NULL
    <3>1. zone[t] \in Nat /\ zone[t] + HdrOff - HdrOff = zone[t]
      BY <2>2, MallocAssumption DEF TypeOK
    <3>2. zone[t] + HdrOff + req[t] <= End(zone[t])
      BY <1>3, <2>2, <3>1, MallocAssumption DEF End, TypeOK
    <3>3. live' = Put(live, zone[t] + HdrOff, req[t]) /\ zsize' = zsize
      BY <1>1, <2>2
    <3>4. ASSUME NEW p \in DOMAIN live'
          PROVE  p - HdrOff \in Zones /\ p + live'[p] <= End(p - HdrOff)
      <4>1. CASE p = zone[t] + HdrOff
        <5>1. live'[p] = req[t]
          BY <4>1, <3>3 DEF Put
        <5>2. p - HdrOff = zone[t]
          BY <4>1, <3>1, MallocAssumption
        <5>3. QED
          BY <5>1, <5>2, <4>1, <1>3, <2>2, <3>2
      <4>2. CASE p # zone[t] + HdrOff
        BY <4>2, <3>3 DEF LiveInZone, Put
      <4>3. QED
        BY <4>1, <4>2
    <3>5. QED
      BY <3>3, <3>4 DEF LiveInZone, Zones, End
  <2>3. QED
    BY <2>1, <2>2
<1>13. QED
  BY <1>4, <1>5, <1>6, <1>7, <1>9, <1>11, <1>12

\* The search only reads: what it finds is a free zone that is large enough.
LEMMA FindStep ==
  ASSUME IInv, LockInv', NEW t \in Threads, Find(t)
  PROVE  HeapInv'
<1> USE DEF IInv, HeapInv, heapVars
<1>1. /\ lpc[t] = "crit" /\ step[t] = "find" /\ zone[t] = NULL
      /\ UNCHANGED <<heapVars, word, lpc, req, live>>
  BY DEF Find, At, LocalsInv
<1>2. Carving = {} /\ Free = Zones \ (used \cup lost)
  BY <1>1, Alone DEF Free
<1>3. \/ /\ step' = [step EXCEPT ![t] = "done"] /\ zone' = zone
      \/ /\ step' = [step EXCEPT ![t] = "grow"] /\ zone' = zone /\ req[t] # 0
      \/ \E e \in sizeIdx : /\ step' = [step EXCEPT ![t] = "take"] /\ req[t] # 0
                            /\ zone' = [zone EXCEPT ![t] = e[2]]
                            /\ e[1] >= Request(req[t])
  BY DEF Find, At, Fitting
<1>4. \/ /\ step'[t] \in {"done", "grow"} /\ zone' = zone
         /\ step'[t] = "grow" => req[t] # 0
      \/ /\ step'[t] = "take" /\ req[t] # 0 /\ zone'[t] \in Zones \ (used \cup lost)
         /\ Request(req[t]) <= zsize[zone'[t]]
  BY <1>2, <1>3 DEF IndexesAgree, TypeOK
<1>5. /\ step' = [step EXCEPT ![t] = step'[t]] /\ zone' = [zone EXCEPT ![t] = zone'[t]]
      /\ step'[t] \in StepPc
  BY <1>3 DEF StepPc, TypeOK
<1>6. TypeOK'
  BY <1>1, <1>4, <1>5 DEF TypeOK, LockInv, Zones
<1>7. StepsInv'
  BY <1>1, <1>4, <1>5 DEF StepsInv, TypeOK, LockTypeOK
<1>8. LocalsInv'
  BY <1>1, <1>4, <1>5 DEF LocalsInv, TypeOK, Zones
<1>9. Tiled' /\ Bounded' /\ LiveInZone'
  BY <1>1 DEF Tiled, Bounded, LiveInZone, Zones, End
<1>10. Carving' = Carving /\ Carrying' = Carrying
  BY <1>1, <1>4, <1>5 DEF Carving, Carrying, TypeOK
<1>11. IndexesAgree'
  BY <1>1, <1>10 DEF IndexesAgree, Free, Zones, End
<1>12. Accounted'
  BY <1>1, <1>4, <1>5, <1>10 DEF Accounted, Carrying, TypeOK
<1>13. QED
  BY <1>6, <1>7, <1>8, <1>9, <1>11, <1>12

-----------------------------------------------------------------------------
(***************************************************************************)
(* Steps of malloc_nolock that change the heap.                            *)
(***************************************************************************)

\* What every heap step of a thread leaves alone.
LEMMA OthersKeep ==
  ASSUME IInv, LockInv', NEW t \in Threads, lpc[t] = "crit",
         NEW x \in StepPc \ {"idle", "error"}, NEW y,
         step' = [step EXCEPT ![t] = x], zone' = [zone EXCEPT ![t] = y],
         UNCHANGED <<word, lpc, req, live>>,
         \A u \in Threads \ {t} : zone[u] \in used =>
             zone[u] \in used' /\ zsize'[zone[u]] = zsize[zone[u]]
  PROVE  /\ StepsInv'
         /\ \A u \in Threads \ {t} :
              /\ step'[u] = step[u] /\ zone'[u] = zone[u]
              /\ step[u] \in {"idle", "find", "check", "done"}
         /\ step'[t] = x /\ zone'[t] = y
         /\ x # "carve" => Carving' = {}
         /\ x = "carve" => Carving' = {y}
         /\ Carrying' \ {t} = Carrying \ {t}
<1> USE DEF IInv, HeapInv
<1>1. \A u \in Threads \ {t} : step[u] \in {"idle", "find", "check", "done"}
  BY Alone DEF StepsInv, TypeOK, StepPc
<1>2. \A u \in Threads \ {t} : step'[u] = step[u] /\ zone'[u] = zone[u]
  BY DEF TypeOK
<1>3. step'[t] = x /\ zone'[t] = y
  BY DEF TypeOK
<1>4. StepsInv'
  BY <1>1, <1>2, <1>3 DEF StepsInv, TypeOK, LockTypeOK
<1>5. (x # "carve" => Carving' = {}) /\ (x = "carve" => Carving' = {y})
  BY <1>1, <1>2, <1>3 DEF Carving
<1>6. Carrying' \ {t} = Carrying \ {t}
  BY <1>1, <1>2, <1>3 DEF Carrying
<1>7. QED
  BY <1>1, <1>2, <1>3, <1>4, <1>5, <1>6

\* The zone leaves the three indexes; its header does not change.
LEMMA TakeStep ==
  ASSUME IInv, LockInv', NEW t \in Threads, Take(t)
  PROVE  HeapInv'
<1> USE DEF IInv, HeapInv
<1> DEFINE z == zone[t]
<1>1. /\ lpc[t] = "crit" /\ step[t] = "take" /\ step' = [step EXCEPT ![t] = "carve"]
      /\ zone' = zone /\ UNCHANGED <<heap, zsize, used, lost, word, lpc, req, live>>
      /\ Reindex({z}, {}, zsize)
  BY DEF Take, At
<1>2. zone' = [zone EXCEPT ![t] = z]
  BY <1>1 DEF TypeOK
<1>3. z \in Zones \ (used \cup lost) /\ Carving = {} /\ Free = Zones \ (used \cup lost)
  BY <1>1, Alone DEF LocalsInv, Free
<1>4. /\ StepsInv'
      /\ \A u \in Threads \ {t} : step'[u] = step[u] /\ zone'[u] = zone[u]
      /\ step'[t] = "carve" /\ Carving' = {z} /\ Carrying' \ {t} = Carrying \ {t}
  BY <1>1, <1>2, OthersKeep DEF StepPc
<1>5. IndexesAgree'
  BY <1>1, <1>3, <1>4 DEF IndexesAgree, Free, Zones, End, Reindex
<1>6. TypeOK'
  BY <1>1, <1>5 DEF TypeOK, LockInv, Zones, StepPc, Reindex
<1>7. LocalsInv'
  BY <1>1, <1>4 DEF LocalsInv, Zones
<1>8. Tiled' /\ Bounded' /\ LiveInZone'
  BY <1>1 DEF Tiled, Bounded, LiveInZone, Zones, End
<1>9. Carrying' = Carrying
  BY <1>1, <1>4 DEF Carrying
<1>10. Accounted'
  BY <1>1, <1>3, <1>4, <1>9 DEF Accounted, Carrying
<1>11. QED
  BY <1>4, <1>5, <1>6, <1>7, <1>8, <1>10

\* A grown heap has one zone more, between the old and the new break.
LEMMA GrowStep ==
  ASSUME IInv, LockInv', NEW t \in Threads, Grow(t)
  PROVE  HeapInv'
<1> USE DEF IInv, HeapInv
<1> DEFINE s == Request(req[t])
<1>1. /\ lpc[t] = "crit" /\ step[t] = "grow" /\ UNCHANGED <<word, lpc, req, live>>
      /\ zone[t] = NULL /\ req[t] \in Sizes \ {0}
  BY DEF Grow, Extend, At, LocalsInv, TypeOK
<1>2. s \in Nat \ {0}
  BY <1>1, RequestFacts
<1>3. Carving = {} /\ Free = Zones \ (used \cup lost)
  BY <1>1, Alone DEF Free
<1>4. CASE At(t, "grow", "done") /\ UNCHANGED <<heapVars, zone>>
  <2>1. /\ step' = [step EXCEPT ![t] = "done"] /\ zone' = [zone EXCEPT ![t] = NULL]
        /\ UNCHANGED <<heap, zsize, used, sizeIdx, startIdx, endIdx, zone, lost>>
    BY <1>1, <1>4 DEF At, TypeOK, heapVars
  <2>2. /\ StepsInv'
        /\ \A u \in Threads \ {t} : step'[u] = step[u] /\ zone'[u] = zone[u]
        /\ step'[t] = "done" /\ zone'[t] = NULL
        /\ Carving' = {} /\ Carrying' \ {t} = Carrying \ {t}
    <3>1. "done" \in StepPc \ {"idle", "error"}
      BY DEF StepPc
    <3>2. \A u \in Threads \ {t} : zone[u] \in used =>
             zone[u] \in used' /\ zsize'[zone[u]] = zsize[zone[u]]
      BY <2>1
    <3>3. UNCHANGED <<word, lpc, req, live>> /\ lpc[t] = "crit"
      BY <1>1
    <3>4. step' = [step EXCEPT ![t] = "done"] /\ zone' = [zone EXCEPT ![t] = NULL]
      BY <2>1
    <3>5. step'[t] = "done" /\ zone'[t] = NULL
      BY <3>4 DEF TypeOK
    <3> HIDE DEF IInv, HeapInv
    <3>6. /\ StepsInv' /\ Carving' = {} /\ Carrying' \ {t} = Carrying \ {t}
          /\ \A u \in Threads \ {t} : step'[u] = step[u] /\ zone'[u] = zone[u]
      BY <3>1, <3>2, <3>3, <3>4, OthersKeep
    <3>7. QED
      BY <3>5, <3>6
  <2>3. TypeOK'
    BY <1>1, <2>1 DEF TypeOK, LockInv, Zones, StepPc
  <2>4. LocalsInv'
    BY <1>1, <2>1, <2>2 DEF LocalsInv, Zones
  <2>5. Tiled' /\ Bounded' /\ LiveInZone'
    BY <1>1, <2>1 DEF Tiled, Bounded, LiveInZone, Zones, End
  <2>6. IndexesAgree'
    BY <1>3, <2>1, <2>2 DEF IndexesAgree, Free, Zones, End
  <2>7. Carrying' = Carrying
    BY <1>1, <2>1, <2>2 DEF Carrying
  <2>8. Accounted'
    BY <1>1, <2>1, <2>2, <2>7 DEF Accounted, Carrying
  <2>9. QED
    BY <2>2, <2>3, <2>4, <2>5, <2>6, <2>8
<1>5. ASSUME NEW by \in Nat \ {0}, s <= by, Extend(t, by)
      PROVE  HeapInv'
  <2>1. /\ step' = [step EXCEPT ![t] = "carve"] /\ zone' = [zone EXCEPT ![t] = heap]
        /\ UNCHANGED <<used, lost, sizeIdx, startIdx, endIdx>>
        /\ heap' = heap + by /\ heap' <= Limit /\ zsize' = Put(zsize, heap, by)
    BY <1>5 DEF Extend, At, idxVars
  <2>2. heap \in Nat /\ heap \notin Zones
    BY DEF TypeOK, Bounded, End
  <2>3. /\ Zones' = Zones \cup {heap} /\ heap \notin used \cup lost
        /\ \A y \in Zones : zsize'[y] = zsize[y]
        /\ zsize'[heap] = by
        /\ \A y \in Zones : End(y)' = End(y) /\ End(y) <= heap
        /\ heap + zsize'[heap] = heap'
    <3>1. Zones' = Zones \cup {heap}
      BY <2>1 DEF Zones, Put
    <3>2. heap \notin used \cup lost
      BY <2>2 DEF TypeOK
    <3>3. (\A y \in Zones : zsize'[y] = zsize[y]) /\ zsize'[heap] = by
      BY <2>1, <2>2 DEF Zones, Put
    <3>4. \A y \in Zones : End(y)' = End(y) /\ End(y) <= heap
      BY <3>3 DEF End, Bounded
    <3>5. (heap + zsize'[heap]) = heap'
      BY <3>3, <2>1
    <3>6. QED
      BY <3>1, <3>2, <3>3, <3>4, <3>5
  <2>4. /\ StepsInv'
        /\ \A u \in Threads \ {t} : /\ step'[u] = step[u] /\ zone'[u] = zone[u]
                                     /\ step[u] \in {"idle", "find", "check", "done"}
        /\ step'[t] = "carve" /\ zone'[t] = heap
        /\ Carving' = {heap} /\ Carrying' \ {t} = Carrying \ {t}
    BY <1>1, <2>1, <2>3, OthersKeep DEF StepPc, TypeOK
  <2>5. TypeOK'
    BY <1>1, <1>5, <2>1, <2>2, <2>3, MallocAssumption DEF TypeOK, LockInv, StepPc, Put, Zones
  <2>6. LocalsInv'
    BY <1>1, <1>2, <1>5, <2>1, <2>3, <2>4 DEF LocalsInv, TypeOK
  <2>7. Tiled'
    <3>1. 0 \in Zones'
      BY <2>2, <2>3 DEF Tiled
    <3>2. \A y \in Zones' : End(y)' = heap' \/ End(y)' \in Zones'
      BY <2>3 DEF Tiled, End
    <3>3. ASSUME NEW y \in Zones', NEW z \in Zones', y < z
          PROVE  End(y)' <= z
      <4>1. y \in Zones
        BY <2>2, <2>3, <3>3, <1>5 DEF TypeOK, Bounded, End
      <4>2. QED
        BY <4>1, <2>3, <3>3 DEF Tiled
    <3>4. QED
      BY <3>1, <3>2, <3>3 DEF Tiled
  <2>8. Bounded'
    BY <1>5, <2>1, <2>2, <2>3 DEF Bounded, TypeOK, End
  <2>9. IndexesAgree'
    <3>1. Free' = Free
      BY <1>3, <2>1, <2>2, <2>3, <2>4 DEF Free, TypeOK
    <3>2. QED
      BY <3>1, <1>3, <2>1, <2>3 DEF IndexesAgree
  <2>10. Carrying' = Carrying
    BY <1>1, <2>4 DEF Carrying
  <2>11. Accounted'
    <3>1. lost' \cap (used' \cup Carving') = {}
      BY <2>1, <2>3, <2>4 DEF Accounted
    <3>2. \A u \in Carrying : u # t /\ zone'[u] = zone[u]
      BY <1>1, <2>4 DEF Carrying
    <3>3. QED
      BY <2>1, <2>4, <2>10, <3>1, <3>2, <1>1 DEF Accounted
  <2>12. LiveInZone'
    BY <1>1, <2>1, <2>3 DEF LiveInZone
  <2>13. QED
    BY <2>4, <2>5, <2>6, <2>7, <2>8, <2>9, <2>11, <2>12
<1>6. QED
  BY <1>2, <1>4, <1>5, GrowFacts DEF Grow

\* A zone that is large enough is cut in two; the first part becomes used.
LEMMA CarveStep ==
  ASSUME IInv, LockInv', NEW t \in Threads, Carve(t)
  PROVE  HeapInv'
<1> USE DEF IInv, HeapInv
<1> DEFINE z == zone[t]
           s == Request(req[t])
           rest == Put(zsize, z + s, zsize[z] - s)
<1>1. /\ lpc[t] = "crit" /\ step[t] = "carve" /\ UNCHANGED <<word, lpc, req, live>>
      /\ UNCHANGED <<heap, zone, lost>>
  BY DEF Carve, At
<1>2. /\ z \in Zones \ (used \cup lost) /\ z \in Nat /\ zsize[z] \in Nat /\ req[t] \in Sizes \ {0}
      /\ s \in Nat \ {0} /\ HdrOff + req[t] <= s /\ s <= zsize[z]
  BY <1>1, RequestFacts DEF LocalsInv, TypeOK
<1>3. Carving = {z} /\ Free = (Zones \ (used \cup lost)) \ {z}
  BY <1>1, Alone DEF Free
<1>4. /\ step' = [step EXCEPT ![t] = "done"] /\ used' = used \cup {z}
      /\ zone' = [zone EXCEPT ![t] = z]
  <2>1. ~ (s > zsize[z])
    BY <1>2
  <2>2. step' = [step EXCEPT ![t] = "done"] /\ used' = used \cup {z}
    BY <2>1 DEF Carve, At
  <2>3. zone' = [zone EXCEPT ![t] = z]
    BY <1>1 DEF TypeOK
  <2>4. QED
    BY <2>2, <2>3
<1>5. /\ Zones \subseteq Zones' /\ (\A y \in Zones \ {z} : zsize'[y] = zsize[y])
      /\ zsize' \in [Zones' -> Nat \ {0}] /\ Zones' \subseteq Nat
      /\ s <= zsize'[z] /\ Tiled' /\ Bounded'
      /\ sizeIdx' = {<<zsize'[y], y>> : y \in Zones' \ (used' \cup lost')}
      /\ startIdx' = Zones' \ (used' \cup lost')
      /\ endIdx' = {<<y + zsize'[y], y>> : y \in Zones' \ (used' \cup lost')}
  <2>1. CASE s + Slack < zsize[z]
    <3>1. Reindex({}, {z + s}, rest) /\ zsize' = Put(rest, z, s)
      BY <2>1, <1>2, MallocAssumption DEF Carve
    <3>2. /\ z + s \in Nat /\ z < z + s /\ z + s < End(z) /\ zsize[z] - s \in Nat \ {0}
          /\ End(z) \in Nat
      BY <2>1, <1>2, MallocAssumption DEF End
    <3>3. z + s \notin Zones
      BY <3>2, <1>2 DEF Tiled
    <3>4. /\ Zones' = Zones \cup {z + s} /\ zsize'[z] = s /\ zsize'[z + s] = zsize[z] - s
          /\ \A y \in Zones \ {z} : zsize'[y] = zsize[y]
          /\ rest[z + s] = zsize[z] - s
      BY <1>2, <3>1, <3>2, <3>3 DEF Zones, Put
    <3>5. zsize' \in [Zones' -> Nat \ {0}]
      <4>1. \A y \in Zones' : zsize'[y] \in Nat \ {0}
        BY <3>2, <3>4, <1>2 DEF TypeOK
      <4>2. QED
        BY <4>1, <3>1 DEF Zones, Put
    <3>6. /\ z + zsize'[z] = z + s /\ (z + s) + zsize'[z + s] = End(z)
          /\ \A y \in Zones \ {z} : y + zsize'[y] = End(y)
      BY <3>2, <3>4, <1>2 DEF End
    <3>7. Tiled'
      <4>1. heap' > 0 => 0 \in Zones'
        BY <1>1, <3>4 DEF Tiled
      <4>2. \A y \in Zones' : End(y)' = heap' \/ End(y)' \in Zones'
        <5>1. \A y \in Zones' : y + zsize'[y] = heap \/ y + zsize'[y] \in Zones'
          BY <1>2, <3>4, <3>6 DEF Tiled
        <5>2. QED
          BY <5>1, <1>1 DEF End
      <4>3. ASSUME NEW x \in Zones', NEW y \in Zones', x < y
            PROVE  x + zsize'[x] <= y
        <5>1. CASE x = z + s
          <6>1. y \in Zones /\ z < y
            BY <5>1, <4>3, <3>2, <3>4, <1>2 DEF TypeOK
          <6>2. End(z) <= y
            BY <6>1, <1>2 DEF Tiled
          <6>3. QED
            BY <6>2, <5>1, <3>6
        <5>2. CASE x \in Zones /\ y = z + s
          <6>1. CASE x = z
            BY <6>1, <5>2, <3>4, <1>2
          <6>2. CASE x # z
            <7>1. ~ (z < x)
              BY <6>2, <5>2, <4>3, <3>2, <1>2 DEF Tiled, TypeOK
            <7>2. x < z
              BY <7>1, <6>2, <5>2, <1>2 DEF TypeOK
            <7>3. End(x) <= z
              BY <7>2, <5>2, <1>2 DEF Tiled
            <7>4. x \in Nat /\ zsize[x] \in Nat /\ zsize'[x] = zsize[x]
              BY <5>2, <6>2, <3>4 DEF TypeOK
            <7>5. QED
              BY <7>3, <7>4, <5>2, <3>2, <1>2 DEF End
          <6>3. QED
            BY <6>1, <6>2
        <5>3. CASE x \in Zones /\ y \in Zones
          <6>1. End(x) <= y /\ x \in Nat /\ y \in Nat
            BY <5>3, <4>3 DEF Tiled, TypeOK
          <6>2. QED
            BY <6>1, <5>3, <3>2, <3>4, <3>6, <1>2 DEF End
        <5>4. QED
          BY <5>1, <5>2, <5>3, <3>4
      <4>4. QED
        BY <4>1, <4>2, <4>3 DEF Tiled, End
    <3>8. Bounded'
      <4>1. \A y \in Zones' : y + zsize'[y] <= heap
        BY <3>2, <3>4, <3>6, <1>2 DEF Bounded, TypeOK, End
      <4>2. QED
        BY <4>1, <1>1 DEF Bounded, End
    <3>9. Zones' \ (used' \cup lost') = Free \cup {z + s}
      BY <1>1, <1>3, <1>4, <3>2, <3>3, <3>4, <1>2 DEF TypeOK
    <3>10. \A y \in Free : zsize'[y] = zsize[y]
      BY <3>4, <1>3
    <3>11. /\ sizeIdx' = sizeIdx \cup {<<zsize'[z + s], z + s>>}
           /\ startIdx' = startIdx \cup {z + s}
           /\ endIdx' = endIdx \cup {<<(z + s) + zsize'[z + s], z + s>>}
      BY <3>1, <3>4 DEF Reindex
    <3>12. /\ sizeIdx' = {<<zsize'[y], y>> : y \in Free \cup {z + s}}
           /\ startIdx' = Free \cup {z + s}
           /\ endIdx' = {<<y + zsize'[y], y>> : y \in Free \cup {z + s}}
      BY <3>10, <3>11 DEF IndexesAgree, End
    <3>13. Zones' \subseteq Nat /\ s <= zsize'[z] /\ Zones \subseteq Zones'
      BY <3>2, <3>4, <1>2 DEF TypeOK
    <3>14. QED
      BY <3>4, <3>5, <3>7, <3>8, <3>9, <3>12, <3>13
  <2>2. CASE ~ (s + Slack < zsize[z])
    <3>1. UNCHANGED <<sizeIdx, startIdx, endIdx, zsize>>
      BY <2>2, <1>2, MallocAssumption DEF Carve, idxVars
    <3>2. Zones' = Zones /\ Zones' \ (used' \cup lost') = Free
      BY <3>1, <1>1, <1>3, <1>4 DEF Zones
    <3>3. Tiled' /\ Bounded'
      BY <3>1, <1>1 DEF Tiled, Bounded, Zones, End
    <3>4. QED
      BY <3>1, <3>2, <3>3, <1>2 DEF IndexesAgree, End, TypeOK
  <2>3. QED
    BY <2>1, <2>2
<1>6. /\ StepsInv'
      /\ \A u \in Threads \ {t} : /\ step'[u] = step[u] /\ zone'[u] = zone[u]
                                   /\ step[u] \in {"idle", "find", "check", "done"}
      /\ step'[t] = "done" /\ zone'[t] = z
      /\ Carving' = {} /\ Carrying' \ {t} = Carrying \ {t}
  <2>1. "done" \in StepPc \ {"idle", "error"}
    BY DEF StepPc
  <2>2. \A u \in Threads \ {t} : zone[u] \in used =>
           zone[u] \in used' /\ zsize'[zone[u]] = zsize[zone[u]]
    BY <1>2, <1>4, <1>5 DEF TypeOK
  <2>3. step'[t] = "done" /\ zone'[t] = z
    BY <1>4 DEF TypeOK
  <2>4. /\ UNCHANGED <<word, lpc, req, live>> /\ lpc[t] = "crit"
        /\ step' = [step EXCEPT ![t] = "done"] /\ zone' = [zone EXCEPT ![t] = z]
    BY <1>1, <1>4
  <2> HIDE DEF IInv, HeapInv, z
  <2>5. /\ StepsInv' /\ Carving' = {} /\ Carrying' \ {t} = Carrying \ {t}
        /\ \A u \in Threads \ {t} : /\ step'[u] = step[u] /\ zone'[u] = zone[u]
                                     /\ step[u] \in {"idle", "find", "check", "done"}
    BY <2>1, <2>2, <2>4, OthersKeep
  <2>6. QED
    BY <2>3, <2>5
<1>7. TypeOK'
  BY <1>1, <1>2, <1>4, <1>5 DEF TypeOK, LockInv, StepPc
<1>8. LocalsInv'
  BY <1>1, <1>2, <1>4, <1>5, <1>6, MallocAssumption DEF LocalsInv, TypeOK, StepPc
<1>9. IndexesAgree'
  BY <1>5, <1>6 DEF IndexesAgree, Free, End
<1>10. t \notin Carrying /\ Carrying' = Carrying \cup {t}
  BY <1>1, <1>2, <1>6 DEF Carrying, NULL
<1>11. Accounted'
  <2>1. \A u \in Carrying : zone[u] \in used /\ zone'[u] = zone[u]
    BY <1>1 DEF Accounted
  <2>2. \A q \in DOMAIN live : q - HdrOff \in used /\ q \in Nat
    BY DEF Accounted, TypeOK
  <2>3. z + HdrOff \notin DOMAIN live
    BY <2>2, <1>2, MallocAssumption
  <2>4. used' = {q - HdrOff : q \in DOMAIN live'} \cup {zone'[u] : u \in Carrying'}
    BY <1>1, <1>4, <1>6, <1>10, <2>1 DEF Accounted
  <2>5. \A u \in Carrying' : zone'[u] + HdrOff \notin DOMAIN live'
    BY <1>1, <1>6, <1>10, <2>1, <2>3 DEF Accounted
  <2>6. \A u, v \in Carrying' : zone'[u] = zone'[v] => u = v
    BY <1>2, <1>6, <1>10, <2>1 DEF Accounted
  <2>7. lost' \cap (used' \cup Carving') = {}
    BY <1>1, <1>2, <1>4, <1>6 DEF Accounted
  <2>8. QED
    BY <2>4, <2>5, <2>6, <2>7 DEF Accounted
<1>12. LiveInZone'
  <2>1. \A q \in DOMAIN live : q - HdrOff \in used
    BY DEF Accounted
  <2>2. \A q \in DOMAIN live : zsize'[q - HdrOff] = zsize[q - HdrOff]
    BY <2>1, <1>2, <1>5 DEF TypeOK
  <2>3. QED
    BY <1>1, <1>5, <2>2 DEF LiveInZone, End
<1>13. QED
  BY <1>5, <1>6, <1>7, <1>8, <1>9, <1>11, <1>12

-----------------------------------------------------------------------------
(***************************************************************************)
(* Steps of free_nolock that change the heap.                              *)
(***************************************************************************)

\* A step of free that touches no used zone keeps the invariant when the free
\* zones and the indexes are right after it.
LEMMA FreeStep ==
  ASSUME IInv, LockInv', NEW t \in Threads, lpc[t] = "crit", t \notin Carrying,
         NEW x \in {"mergeNext", "trim", "done"}, NEW y \in Zones' \cup {NULL},
         step' = [step EXCEPT ![t] = x], zone' = [zone EXCEPT ![t] = y],
         UNCHANGED <<word, lpc, req, live>>, used' = used,
         x = "done" => y = NULL, x # "done" => y \in Zones' \ (used \cup lost'),
         used \subseteq Zones', lost' \subseteq Zones' \ used,
         \A z \in used : zsize'[z] = zsize[z],
         heap' \in 0 .. Limit, Zones' \subseteq Nat, zsize' \in [Zones' -> Nat \ {0}],
         Tiled', Bounded',
         sizeIdx' = {<<zsize'[z], z>> : z \in Zones' \ (used \cup lost')},
         startIdx' = Zones' \ (used \cup lost'),
         endIdx' = {<<z + zsize'[z], z>> : z \in Zones' \ (used \cup lost')}
  PROVE  HeapInv'
<1> USE DEF IInv, HeapInv
<1>1. x \in StepPc \ {"idle", "error"} /\ x # "carve"
  BY DEF StepPc
<1>2. step'[t] = x /\ zone'[t] = y
  BY DEF TypeOK
<1>3. \A u \in Threads \ {t} : zone[u] \in used =>
         zone[u] \in used' /\ zsize'[zone[u]] = zsize[zone[u]]
  OBVIOUS
<1>4. /\ StepsInv' /\ Carving' = {} /\ Carrying' \ {t} = Carrying \ {t}
      /\ \A u \in Threads \ {t} : /\ step'[u] = step[u] /\ zone'[u] = zone[u]
                                   /\ step[u] \in {"idle", "find", "check", "done"}
  <2> HIDE DEF IInv, HeapInv
  <2>1. QED
    BY <1>1, <1>3, OthersKeep
<1>5. \A u \in Threads \ {t} : zone[u] \in used \cup {NULL}
  BY <1>4 DEF LocalsInv
<1>6. zone' \in [Threads -> Zones' \cup {NULL}]
  BY <1>2, <1>5 DEF TypeOK
<1>7. TypeOK'
  BY <1>1, <1>6 DEF TypeOK, LockInv
<1>8. LocalsInv'
  BY <1>2, <1>3, <1>4, <1>5 DEF LocalsInv, TypeOK
<1>9. IndexesAgree'
  BY <1>4 DEF IndexesAgree, Free, End
<1>10. Carrying' = Carrying /\ \A u \in Carrying : zone'[u] = zone[u]
  BY <1>2, <1>4 DEF Carrying
<1>11. Accounted'
  <2>1. lost' \cap (used' \cup Carving') = {}
    BY <1>4
  <2>2. used' = {p - HdrOff : p \in DOMAIN live'} \cup {zone'[u] : u \in Carrying'}
    BY <1>10 DEF Accounted
  <2>3. /\ \A u \in Carrying' : zone'[u] + HdrOff \notin DOMAIN live'
        /\ \A u, v \in Carrying' : zone'[u] = zone'[v] => u = v
    BY <1>10 DEF Accounted
  <2>4. QED
    BY <2>1, <2>2, <2>3 DEF Accounted
<1>12. LiveInZone'
  <2>1. \A q \in DOMAIN live : q - HdrOff \in used
    BY DEF Accounted
  <2>2. \A q \in DOMAIN live : /\ q - HdrOff \in Zones'
                                /\ q + live[q] <= (q - HdrOff) + zsize'[q - HdrOff]
    BY <2>1 DEF LiveInZone, End
  <2>3. QED
    BY <2>2 DEF LiveInZone, End
<1>13. QED
  BY <1>4, <1>7, <1>8, <1>9, <1>11, <1>12

\* No two zones end at the same place.
LEMMA OneEnd ==
  ASSUME HeapInv, NEW y \in Zones, NEW z \in Zones, End(y) = End(z)
  PROVE  y = z
<1>1. /\ y \in Nat /\ z \in Nat /\ zsize[y] \in Nat \ {0} /\ zsize[z] \in Nat \ {0}
  BY DEF HeapInv, TypeOK
<1>2. (y < z => End(y) <= z) /\ (z < y => End(z) <= y)
  BY <1>1 DEF HeapInv, Tiled
<1>3. QED
  BY <1>1, <1>2 DEF End

\* The same after a step.
LEMMA OneEndNext ==
  ASSUME HeapInv', NEW y \in Zones', NEW z \in Zones',
         y + zsize'[y] = z + zsize'[z]
  PROVE  y = z
<1>1. /\ y \in Nat /\ z \in Nat /\ zsize'[y] \in Nat \ {0} /\ zsize'[z] \in Nat \ {0}
  BY DEF HeapInv, TypeOK
<1>2. (y < z => End(y)' <= z) /\ (z < y => End(z)' <= y)
  BY <1>1 DEF HeapInv, Tiled
<1>3. QED
  BY <1>1, <1>2 DEF End

\* Two free neighbours become one: the heap is still tiled, the indexes agree.
LEMMA JoinFacts ==
  ASSUME IInv, Carving = {}, NEW a \in Zones \ (used \cup lost),
         NEW b \in Zones \ (used \cup lost), End(a) = b,
         heap' = heap, lost' = lost, zsize' = Joined(a, b), Reindex({a, b}, {a}, Joined(a, b))
  PROVE  /\ Zones' = Zones \ {b} /\ a # b /\ lost' \subseteq Zones' \ used
         /\ \A z \in used : zsize'[z] = zsize[z]
         /\ zsize' \in [Zones' -> Nat \ {0}]
         /\ Tiled' /\ Bounded'
         /\ sizeIdx' = {<<zsize'[z], z>> : z \in Zones' \ (used \cup lost')}
         /\ startIdx' = Zones' \ (used \cup lost')
         /\ endIdx' = {<<z + zsize'[z], z>> : z \in Zones' \ (used \cup lost')}
<1> USE DEF IInv, HeapInv
<1>1. a \in Nat /\ b \in Nat /\ zsize[a] \in Nat \ {0} /\ zsize[b] \in Nat \ {0}
  BY DEF TypeOK
<1>2. a # b /\ a < b /\ b = a + zsize[a]
  BY <1>1 DEF End
<1>3. /\ Zones' = Zones \ {b} /\ zsize'[a] = zsize[a] + zsize[b]
      /\ \A z \in Zones' \ {a} : zsize'[z] = zsize[z]
  BY <1>2 DEF Zones, Joined, Put, Drop
<1>4. /\ a + zsize'[a] = End(b) /\ End(b) \in Nat
      /\ \A z \in Zones' \ {a} : z + zsize'[z] = End(z)
  BY <1>1, <1>2, <1>3 DEF End
<1>5. zsize' \in [Zones' -> Nat \ {0}]
  <2>1. \A z \in Zones' : zsize'[z] \in Nat \ {0}
    BY <1>1, <1>3 DEF TypeOK
  <2>2. zsize' = [z \in Zones' |-> zsize'[z]]
    BY DEF Zones, Joined, Put, Drop
  <2>3. QED
    BY <2>1, <2>2
<1>6. \A z \in Zones \ {a} : End(z) # b
  BY <1>1, <1>2, OneEnd
<1>7. Tiled'
  <2>1. heap' > 0 => 0 \in Zones'
    BY <1>1, <1>2, <1>3 DEF Tiled
  <2>2. \A z \in Zones' : z + zsize'[z] = heap \/ z + zsize'[z] \in Zones'
    <3>1. End(b) # b
      BY <1>1 DEF End
    <3>2. QED
      BY <1>2, <1>3, <1>4, <1>6, <3>1 DEF Tiled
  <2>3. ASSUME NEW y \in Zones', NEW z \in Zones', y < z
        PROVE  y + zsize'[y] <= z
    <3>1. CASE y = a
      <4>1. b <= z
        BY <3>1, <2>3, <1>2, <1>3 DEF Tiled, End
      <4>2. b < z
        BY <4>1, <1>1, <1>3 DEF TypeOK
      <4>3. End(b) <= z
        BY <4>2, <1>3 DEF Tiled
      <4>4. QED
        BY <4>3, <3>1, <1>4
    <3>2. CASE y # a
      <4>1. End(y) <= z
        BY <2>3, <1>3 DEF Tiled
      <4>2. QED
        BY <4>1, <3>2, <1>4
    <3>3. QED
      BY <3>1, <3>2
  <2>4. QED
    BY <2>1, <2>2, <2>3 DEF Tiled, End
<1>8. Bounded'
  <2>1. \A z \in Zones' : z + zsize'[z] <= heap
    BY <1>2, <1>3, <1>4 DEF Bounded
  <2>2. QED
    BY <2>1 DEF Bounded, End
<1>9. Free = Zones \ (used \cup lost)
  BY DEF Free
<1>10. Joined(a, b)[a] = zsize'[a]
  OBVIOUS
<1>11. Zones' \ (used \cup lost') = (Free \ {a, b}) \cup {a}
  BY <1>2, <1>3, <1>9
<1>12. /\ sizeIdx' = {<<zsize'[z], z>> : z \in Zones' \ (used \cup lost')}
       /\ startIdx' = Zones' \ (used \cup lost')
       /\ endIdx' = {<<z + zsize'[z], z>> : z \in Zones' \ (used \cup lost')}
  <2>1. /\ sizeIdx' = (sizeIdx \ {<<zsize[z], z>> : z \in {a, b}}) \cup {<<zsize'[a], a>>}
        /\ startIdx' = (startIdx \ {a, b}) \cup {a}
        /\ endIdx' = (endIdx \ {<<End(z), z>> : z \in {a, b}}) \cup {<<a + zsize'[a], a>>}
    BY <1>10 DEF Reindex
  <2>2. /\ sizeIdx \ {<<zsize[z], z>> : z \in {a, b}} = {<<zsize[z], z>> : z \in Free \ {a, b}}
        /\ endIdx \ {<<End(z), z>> : z \in {a, b}} = {<<End(z), z>> : z \in Free \ {a, b}}
    BY DEF IndexesAgree
  <2>3. \A z \in Free \ {a, b} : zsize'[z] = zsize[z] /\ z + zsize'[z] = End(z)
    BY <1>3, <1>4, <1>9
  <2>4. sizeIdx' = {<<zsize'[z], z>> : z \in (Free \ {a, b}) \cup {a}}
    BY <2>1, <2>2, <2>3
  <2>5. endIdx' = {<<z + zsize'[z], z>> : z \in (Free \ {a, b}) \cup {a}}
    BY <2>1, <2>2, <2>3
  <2>6. startIdx' = (Free \ {a, b}) \cup {a}
    BY <2>1 DEF IndexesAgree
  <2>7. QED
    BY <2>4, <2>5, <2>6, <1>11
<1>13. \A z \in used : zsize'[z] = zsize[z]
  BY <1>3 DEF TypeOK
<1>14. lost' \subseteq Zones' \ used
  BY <1>3 DEF TypeOK, Accounted
<1>15. QED
  BY <1>2, <1>3, <1>5, <1>7, <1>8, <1>12, <1>13, <1>14

\* The zone given to free becomes free; its carrier is the thread no more.
LEMMA CheckStep ==
  ASSUME IInv, LockInv', NEW t \in Threads, Check(t)
  PROVE  HeapInv'
<1> USE DEF IInv, HeapInv
<1> DEFINE z == zone[t]
<1>1. /\ lpc[t] = "crit" /\ step[t] = "check" /\ UNCHANGED <<word, lpc, req, live>>
      /\ zone' = zone /\ heap' = heap /\ zsize' = zsize /\ lost' = lost
  BY DEF Check, At, heapVars
<1>2. Carving = {} /\ Free = Zones \ (used \cup lost) /\ zone' = [zone EXCEPT ![t] = z]
  BY <1>1, Alone DEF Free, TypeOK
<1>3. Zones' = Zones /\ Tiled' /\ Bounded'
  BY <1>1 DEF Zones, Tiled, Bounded, End
<1>4. CASE z = NULL
  <2>1. step' = [step EXCEPT ![t] = "done"] /\ UNCHANGED <<used, sizeIdx, startIdx, endIdx>>
    BY <1>4 DEF Check, At, heapVars
  <2>2. t \notin Carrying
    BY <1>4 DEF Carrying
  <2>3. /\ sizeIdx' = {<<zsize'[y], y>> : y \in Zones' \ (used \cup lost')}
        /\ startIdx' = Zones' \ (used \cup lost')
        /\ endIdx' = {<<y + zsize'[y], y>> : y \in Zones' \ (used \cup lost')}
    BY <1>1, <1>2, <1>3, <2>1 DEF IndexesAgree, End
  <2>4. /\ heap' \in 0 .. Limit /\ Zones' \subseteq Nat /\ zsize' \in [Zones' -> Nat \ {0}]
        /\ used \subseteq Zones' /\ used' = used /\ lost' \subseteq Zones' \ used
    BY <1>1, <1>3, <2>1 DEF TypeOK, Accounted
  <2>5. zone' = [zone EXCEPT ![t] = NULL]
    BY <1>2, <1>4
  <2>6. \A y \in used : zsize'[y] = zsize[y]
    BY <1>1
  <2> HIDE DEF IInv, HeapInv, z
  <2>7. QED
    BY <1>1, <1>3, <2>1, <2>2, <2>3, <2>4, <2>5, <2>6, FreeStep
<1>5. CASE z # NULL
  <2>1. z \in used /\ t \in Carrying
    BY <1>1, <1>5 DEF LocalsInv, Carrying
  <2>2. /\ step' = [step EXCEPT ![t] = "mergePrev"] /\ used' = used \ {z}
        /\ Reindex({}, {z}, zsize)
    BY <1>5, <2>1 DEF Check, At
  <2>3. "mergePrev" \in StepPc \ {"idle", "error"}
    BY DEF StepPc
  <2>4. \A u \in Threads \ {t} : zone[u] \in used => zone[u] # z
    <3>1. \A u \in Threads \ {t} : step[u] \in {"idle", "find", "check", "done"}
      BY <1>1, Alone DEF StepsInv, TypeOK, StepPc
    <3>2. ASSUME NEW u \in Threads \ {t}, zone[u] \in used
          PROVE  u \in Carrying
      BY <3>1, <3>2 DEF Carrying, LocalsInv, TypeOK, NULL
    <3>3. QED
      BY <2>1, <3>2 DEF Accounted
  <2>5. \A u \in Threads \ {t} : zone[u] \in used =>
           zone[u] \in used' /\ zsize'[zone[u]] = zsize[zone[u]]
    BY <1>1, <2>2, <2>4
  <2>6. step'[t] = "mergePrev" /\ zone'[t] = z
    BY <1>2, <2>2 DEF TypeOK
  <2>7. /\ StepsInv' /\ Carving' = {} /\ Carrying' \ {t} = Carrying \ {t}
        /\ \A u \in Threads \ {t} : /\ step'[u] = step[u] /\ zone'[u] = zone[u]
                                     /\ step[u] \in {"idle", "find", "check", "done"}
    <3>1. /\ UNCHANGED <<word, lpc, req, live>> /\ lpc[t] = "crit"
          /\ step' = [step EXCEPT ![t] = "mergePrev"] /\ zone' = [zone EXCEPT ![t] = z]
      BY <1>1, <1>2, <2>2
    <3> HIDE DEF IInv, HeapInv, z
    <3>2. QED
      BY <2>3, <2>5, <3>1, OthersKeep
  <2>8. /\ sizeIdx' = {<<zsize[y], y>> : y \in Free \cup {z}}
        /\ startIdx' = Free \cup {z}
        /\ endIdx' = {<<End(y), y>> : y \in Free \cup {z}}
    BY <2>2 DEF Reindex, IndexesAgree, End
  <2>9. Free' = Free \cup {z}
    BY <1>1, <1>2, <1>3, <2>1, <2>2, <2>7 DEF Free, TypeOK, Accounted
  <2>10. IndexesAgree'
    BY <1>1, <2>8, <2>9 DEF IndexesAgree, End
  <2>11. TypeOK'
    BY <1>1, <1>3, <2>1, <2>2, <2>8, <2>10, <2>9 DEF TypeOK, LockInv, StepPc, Reindex
  <2>12. LocalsInv'
    BY <1>1, <1>3, <2>1, <2>2, <2>4, <2>6, <2>7 DEF LocalsInv, TypeOK, Accounted
  <2>13. Carrying' = Carrying \ {t}
    BY <2>6, <2>7 DEF Carrying
  <2>14. Accounted'
    <3>1. \A q \in DOMAIN live : q - HdrOff # z
      BY <2>1, MallocAssumption DEF Accounted, TypeOK
    <3>2. \A u \in Carrying' : zone'[u] = zone[u] /\ zone[u] # z
      BY <1>1, <2>1, <2>13 DEF Accounted
    <3>3. used' = {q - HdrOff : q \in DOMAIN live'} \cup {zone'[u] : u \in Carrying'}
      BY <1>1, <2>1, <2>2, <2>13, <3>1, <3>2 DEF Accounted
    <3>4. lost' \cap (used' \cup Carving') = {}
      BY <1>1, <2>2, <2>7 DEF Accounted
    <3>5. QED
      BY <1>1, <2>13, <3>2, <3>3, <3>4 DEF Accounted
  <2>15. LiveInZone'
    BY <1>1, <1>3 DEF LiveInZone, End
  <2>16. QED
    BY <1>3, <2>7, <2>10, <2>11, <2>12, <2>14, <2>15
<1>6. QED
  BY <1>4, <1>5

\* The freed zone joins the free zone before it, if there is one.
LEMMA MergePrevStep ==
  ASSUME IInv, LockInv', NEW t \in Threads, MergePrev(t)
  PROVE  HeapInv'
<1> USE DEF IInv, HeapInv
<1> DEFINE z == zone[t]
<1>1. /\ lpc[t] = "crit" /\ step[t] = "mergePrev" /\ UNCHANGED <<word, lpc, req, live>>
      /\ heap' = heap /\ used' = used /\ lost' = lost
      /\ step' = [step EXCEPT ![t] = "mergeNext"]
  BY DEF MergePrev, At
<1>2. Carving = {} /\ Free = Zones \ (used \cup lost) /\ t \notin Carrying
  BY <1>1, Alone DEF Free, Carrying
<1>3. z \in Zones \ (used \cup lost) /\ z \in Nat /\ heap \in 0 .. Limit /\ used \subseteq Zones
  BY <1>1 DEF LocalsInv, TypeOK
<1>4. CASE UNCHANGED <<idxVars, zsize, zone>>
  <2>1. /\ Zones' = Zones /\ Tiled' /\ Bounded' /\ zsize' \in [Zones' -> Nat \ {0}]
        /\ Zones' \subseteq Nat /\ \A y \in used : zsize'[y] = zsize[y]
        /\ lost' \subseteq Zones' \ used
    BY <1>1, <1>4 DEF Zones, Tiled, Bounded, End, TypeOK, Accounted
  <2>2. /\ sizeIdx' = {<<zsize'[y], y>> : y \in Zones' \ (used \cup lost')}
        /\ startIdx' = Zones' \ (used \cup lost')
        /\ endIdx' = {<<y + zsize'[y], y>> : y \in Zones' \ (used \cup lost')}
    BY <1>1, <1>2, <1>4, <2>1 DEF IndexesAgree, End, idxVars
  <2>3. zone' = [zone EXCEPT ![t] = z]
    BY <1>4 DEF TypeOK
  <2> HIDE DEF IInv, HeapInv, z
  <2>4. QED
    BY <1>1, <1>2, <1>3, <2>1, <2>2, <2>3, FreeStep
<1>5. ASSUME NEW e \in endIdx, e[1] = z, Reindex({z, e[2]}, {e[2]}, Joined(e[2], z)),
             zsize' = Joined(e[2], z), zone' = [zone EXCEPT ![t] = e[2]]
      PROVE  HeapInv'
  <2>1. e[2] \in Zones \ (used \cup lost) /\ End(e[2]) = z
    BY <1>2, <1>5 DEF IndexesAgree
  <2>2. Reindex({e[2], z}, {e[2]}, Joined(e[2], z))
    BY <1>5 DEF Reindex
  <2> DEFINE a == e[2]
  <2>3. /\ Zones' = Zones \ {z} /\ a # z /\ lost' \subseteq Zones' \ used
        /\ \A y \in used : zsize'[y] = zsize[y]
        /\ zsize' \in [Zones' -> Nat \ {0}]
        /\ Tiled' /\ Bounded'
        /\ sizeIdx' = {<<zsize'[y], y>> : y \in Zones' \ (used \cup lost')}
        /\ startIdx' = Zones' \ (used \cup lost')
        /\ endIdx' = {<<y + zsize'[y], y>> : y \in Zones' \ (used \cup lost')}
    <3> HIDE DEF IInv, HeapInv, z, a
    <3>1. QED
      BY <1>1, <1>2, <1>3, <1>5, <2>1, <2>2, JoinFacts DEF a
  <2>4. Zones' \subseteq Nat /\ used \subseteq Zones' /\ a \in Zones' \ (used \cup lost')
    BY <1>1, <1>3, <2>1, <2>3 DEF TypeOK
  <2>5. zone' = [zone EXCEPT ![t] = a]
    BY <1>5
  <2> HIDE DEF IInv, HeapInv, z, a
  <2>6. QED
    BY <1>1, <1>2, <1>3, <2>3, <2>4, <2>5, FreeStep
<1>6. QED
  BY <1>4, <1>5 DEF MergePrev

\* The freed zone absorbs the free zone after it, if there is one.
LEMMA MergeNextStep ==
  ASSUME IInv, LockInv', NEW t \in Threads, MergeNext(t)
  PROVE  HeapInv'
<1> USE DEF IInv, HeapInv
<1> DEFINE z == zone[t]
           b == End(z)
<1>1. /\ lpc[t] = "crit" /\ step[t] = "mergeNext" /\ UNCHANGED <<word, lpc, req, live>>
      /\ heap' = heap /\ used' = used /\ lost' = lost /\ step' = [step EXCEPT ![t] = "trim"]
      /\ zone' = zone
  BY DEF MergeNext, At
<1>2. /\ Carving = {} /\ Free = Zones \ (used \cup lost) /\ t \notin Carrying
      /\ zone' = [zone EXCEPT ![t] = z]
  BY <1>1, Alone DEF Free, Carrying, TypeOK
<1>3. z \in Zones \ (used \cup lost) /\ z \in Nat /\ heap \in 0 .. Limit /\ used \subseteq Zones
  BY <1>1 DEF LocalsInv, TypeOK
<1>4. CASE UNCHANGED <<idxVars, zsize>>
  <2>1. /\ Zones' = Zones /\ Tiled' /\ Bounded' /\ zsize' \in [Zones' -> Nat \ {0}]
        /\ Zones' \subseteq Nat /\ \A y \in used : zsize'[y] = zsize[y]
        /\ lost' \subseteq Zones' \ used
    BY <1>1, <1>4 DEF Zones, Tiled, Bounded, End, TypeOK, Accounted
  <2>2. /\ sizeIdx' = {<<zsize'[y], y>> : y \in Zones' \ (used \cup lost')}
        /\ startIdx' = Zones' \ (used \cup lost')
        /\ endIdx' = {<<y + zsize'[y], y>> : y \in Zones' \ (used \cup lost')}
    BY <1>1, <1>2, <1>4, <2>1 DEF IndexesAgree, End, idxVars
  <2> HIDE DEF IInv, HeapInv, z
  <2>3. QED
    BY <1>1, <1>2, <1>3, <2>1, <2>2, FreeStep
<1>5. CASE b \in startIdx /\ Reindex({z, b}, {z}, Joined(z, b)) /\ zsize' = Joined(z, b)
  <2>1. b \in Zones \ (used \cup lost)
    BY <1>2, <1>5 DEF IndexesAgree
  <2>2. /\ Zones' = Zones \ {b} /\ z # b /\ lost' \subseteq Zones' \ used
        /\ \A y \in used : zsize'[y] = zsize[y]
        /\ zsize' \in [Zones' -> Nat \ {0}]
        /\ Tiled' /\ Bounded'
        /\ sizeIdx' = {<<zsize'[y], y>> : y \in Zones' \ (used \cup lost')}
        /\ startIdx' = Zones' \ (used \cup lost')
        /\ endIdx' = {<<y + zsize'[y], y>> : y \in Zones' \ (used \cup lost')}
    <3>1. End(z) = b
      OBVIOUS
    <3> HIDE DEF IInv, HeapInv, z, b
    <3>2. QED
      BY <1>1, <1>2, <1>3, <1>5, <2>1, <3>1, JoinFacts
  <2>3. Zones' \subseteq Nat /\ used \subseteq Zones' /\ z \in Zones' \ (used \cup lost')
    BY <1>1, <1>3, <2>1, <2>2 DEF TypeOK
  <2> HIDE DEF IInv, HeapInv, z, b
  <2>4. QED
    BY <1>1, <1>2, <1>3, <2>2, <2>3, FreeStep
<1>6. QED
  BY <1>4, <1>5 DEF MergeNext

\* The last zone, if free and large, leaves the heap together with the indexes.
LEMMA TrimStep ==
  ASSUME IInv, LockInv', NEW t \in Threads, Trim(t)
  PROVE  HeapInv'
<1> USE DEF IInv, HeapInv
<1> DEFINE z == zone[t]
<1>1. /\ lpc[t] = "crit" /\ step[t] = "trim" /\ UNCHANGED <<word, lpc, req, live>>
      /\ used' = used /\ step' = [step EXCEPT ![t] = "done"]
      /\ zone' = [zone EXCEPT ![t] = NULL]
  BY DEF Trim, At
<1>2. Carving = {} /\ Free = Zones \ (used \cup lost) /\ t \notin Carrying
  BY <1>1, Alone DEF Free, Carrying
<1>3. /\ z \in Zones \ (used \cup lost) /\ z \in Nat /\ heap \in 0 .. Limit /\ used \subseteq Zones
      /\ zsize[z] \in Nat \ {0}
  BY <1>1 DEF LocalsInv, TypeOK
<1>4. CASE UNCHANGED <<heap, idxVars, zsize, lost>>
  <2>1. /\ Zones' = Zones /\ Tiled' /\ Bounded' /\ zsize' \in [Zones' -> Nat \ {0}]
        /\ Zones' \subseteq Nat /\ \A y \in used : zsize'[y] = zsize[y]
        /\ lost' \subseteq Zones' \ used
    BY <1>1, <1>4 DEF Zones, Tiled, Bounded, End, TypeOK, Accounted
  <2>2. /\ sizeIdx' = {<<zsize'[y], y>> : y \in Zones' \ (used \cup lost')}
        /\ startIdx' = Zones' \ (used \cup lost')
        /\ endIdx' = {<<y + zsize'[y], y>> : y \in Zones' \ (used \cup lost')}
        /\ heap' \in 0 .. Limit
    BY <1>2, <1>3, <1>4, <2>1 DEF IndexesAgree, End, idxVars
  <2> HIDE DEF IInv, HeapInv, z
  <2>3. QED
    BY <1>1, <1>2, <1>3, <2>1, <2>2, FreeStep
<1>5. CASE /\ End(z) = heap /\ Reindex({z}, {}, zsize)
           /\ heap' = heap - zsize[z] /\ zsize' = Drop(zsize, z) /\ lost' = lost
  <2>1. /\ Zones' = Zones \ {z} /\ heap' = z /\ z < heap
        /\ \A y \in Zones' : zsize'[y] = zsize[y]
    BY <1>3, <1>5 DEF Zones, Drop, End
  <2>2. zsize' \in [Zones' -> Nat \ {0}]
    <3>1. \A y \in Zones' : zsize'[y] \in Nat \ {0}
      BY <2>1 DEF TypeOK
    <3>2. zsize' = [y \in Zones' |-> zsize'[y]]
      BY <1>5 DEF Zones, Drop
    <3>3. QED
      BY <3>1, <3>2
  <2>3. \A y \in Zones' : End(y) <= z
    <3>1. ASSUME NEW y \in Zones', z < y PROVE FALSE
      <4>1. End(z) <= y
        BY <3>1, <1>3, <2>1 DEF Tiled
      <4>2. End(y) <= heap /\ y \in Nat /\ zsize[y] \in Nat \ {0}
        BY <2>1 DEF Bounded, TypeOK
      <4>3. heap <= y
        BY <4>1, <1>5
      <4>4. y + zsize[y] <= heap /\ heap \in Nat
        BY <4>2, <1>3, MallocAssumption DEF End
      <4>5. QED
        BY <4>2, <4>3, <4>4
    <3>2. QED
      BY <3>1, <1>3, <2>1 DEF Tiled, TypeOK
  <2>4. \A y \in Zones' : y + zsize'[y] = End(y)
    BY <2>1 DEF End
  <2>5. Tiled'
    <3>1. heap' > 0 => 0 \in Zones'
      BY <1>3, <2>1 DEF Tiled
    <3>2. \A y \in Zones' : y + zsize'[y] = heap' \/ y + zsize'[y] \in Zones'
      BY <1>3, <2>1, <2>3, <2>4 DEF Tiled
    <3>3. \A x, y \in Zones' : x < y => x + zsize'[x] <= y
      BY <2>1, <2>4 DEF Tiled
    <3>4. QED
      BY <3>1, <3>2, <3>3 DEF Tiled, End
  <2>6. Bounded'
    BY <2>1, <2>3, <2>4 DEF Bounded, End
  <2>7. /\ sizeIdx' = {<<zsize'[y], y>> : y \in Zones' \ (used \cup lost')}
        /\ startIdx' = Zones' \ (used \cup lost')
        /\ endIdx' = {<<y + zsize'[y], y>> : y \in Zones' \ (used \cup lost')}
    <3>1. Zones' \ (used \cup lost') = Free \ {z}
      BY <1>2, <1>5, <2>1
    <3>2. /\ sizeIdx' = {<<zsize[y], y>> : y \in Free \ {z}}
          /\ startIdx' = Free \ {z}
          /\ endIdx' = {<<End(y), y>> : y \in Free \ {z}}
      BY <1>5 DEF Reindex, IndexesAgree
    <3>3. \A y \in Free \ {z} : zsize'[y] = zsize[y] /\ y + zsize'[y] = End(y)
      BY <1>2, <2>1, <2>4
    <3>4. QED
      BY <3>1, <3>2, <3>3
  <2>8. /\ heap' \in 0 .. Limit /\ Zones' \subseteq Nat /\ used \subseteq Zones'
        /\ lost' \subseteq Zones' \ used /\ \A y \in used : zsize'[y] = zsize[y]
    BY <1>3, <1>5, <2>1, MallocAssumption DEF TypeOK, Accounted
  <2> HIDE DEF IInv, HeapInv, z
  <2>9. QED
    BY <1>1, <1>2, <2>2, <2>5, <2>6, <2>7, <2>8, FreeStep
<1>6. CASE Reindex({z}, {}, zsize) /\ UNCHANGED <<heap, zsize>> /\ lost' = lost \cup {z}
  <2>1. /\ Zones' = Zones /\ Tiled' /\ Bounded' /\ zsize' \in [Zones' -> Nat \ {0}]
        /\ Zones' \subseteq Nat /\ \A y \in used : zsize'[y] = zsize[y]
        /\ lost' \subseteq Zones' \ used
    BY <1>3, <1>6 DEF Zones, Tiled, Bounded, End, TypeOK, Accounted
  <2>2. /\ sizeIdx' = {<<zsize'[y], y>> : y \in Zones' \ (used \cup lost')}
        /\ startIdx' = Zones' \ (used \cup lost')
        /\ endIdx' = {<<y + zsize'[y], y>> : y \in Zones' \ (used \cup lost')}
    <3>1. Zones' \ (used \cup lost') = Free \ {z}
      BY <1>2, <1>6, <2>1
    <3>2. /\ sizeIdx' = {<<zsize[y], y>> : y \in Free \ {z}}
          /\ startIdx' = Free \ {z}
          /\ endIdx' = {<<End(y), y>> : y \in Free \ {z}}
      BY <1>6 DEF Reindex, IndexesAgree
    <3>3. QED
      BY <1>6, <3>1, <3>2 DEF End
  <2>3. heap' \in 0 .. Limit
    BY <1>3, <1>6
  <2> HIDE DEF IInv, HeapInv, z
  <2>4. QED
    BY <1>1, <1>2, <1>3, <2>1, <2>2, <2>3, FreeStep
<1>7. QED
  BY <1>4, <1>5, <1>6 DEF Trim

-----------------------------------------------------------------------------
\* Every step of the allocator preserves the invariant.
LEMMA IInvStep == IInv /\ [Next]_vars => IInv'
<1> SUFFICES ASSUME IInv, [Next]_vars PROVE IInv'
  OBVIOUS
<1>1. LockInv'
  BY LockStep, LockInvStep DEF IInv
<1>2. CASE UNCHANGED vars
  <2>1. HeapInv'
    BY <1>2, <1>1 DEF IInv, HeapInv, vars, heapVars, TypeOK, LockInv, StepsInv, LocalsInv,
       Tiled, Bounded, IndexesAgree, Accounted, LiveInZone, Zones, End, Free, Carving, Carrying
  <2>2. QED
    BY <1>1, <2>1 DEF IInv
<1>3. CASE Next
  <2>1. HeapInv'
    BY <1>1, <1>3, CallMallocStep, CallFreeStep, AcquireUnlockStep, ReturnStep, FindStep,
       TakeStep, GrowStep, CarveStep, CheckStep, MergePrevStep, MergeNextStep, TrimStep
       DEF Next
  <2>2. QED
    BY <1>1, <2>1 DEF IInv
<1>4. QED
  BY <1>2, <1>3

\* The invariant holds of every reachable state.
THEOREM IInvCorrect == Spec => []IInv
  BY IInvInit, IInvStep, PTL DEF Spec

\* All variables of the allocator keep the shape the code gives them.
THEOREM TypeCorrect == Spec => []TypeOK
<1>1. IInv => TypeOK
  BY DEF IInv, HeapInv
<1>2. QED
  BY <1>1, IInvCorrect, PTL

\* The zones tile the heap after any sequence of splits, merges, growths and
\* trims, whichever threads make them.
THEOREM TiledCorrect == Spec => []Tiled
<1>1. IInv => Tiled
  BY DEF IInv, HeapInv
<1>2. QED
  BY <1>1, IInvCorrect, PTL

\* No index ever holds a stale key.
THEOREM IndexesCorrect == Spec => []IndexesAgree
<1>1. IInv => IndexesAgree
  BY DEF IInv, HeapInv
<1>2. QED
  BY <1>1, IInvCorrect, PTL

\* Every used zone has exactly one owner, a pointer or a call in progress.
THEOREM AccountedCorrect == Spec => []Accounted
<1>1. IInv => Accounted
  BY DEF IInv, HeapInv
<1>2. QED
  BY <1>1, IInvCorrect, PTL

\* Headers, indexes and owners describe one and the same tiling of the heap.
THEOREM ZonesCorrect == Spec => []ZonesRight
  BY TiledCorrect, IndexesCorrect, AccountedCorrect, PTL DEF ZonesRight

\* No client area reaches the next header.
THEOREM LiveInZoneCorrect == Spec => []LiveInZone
<1>1. IInv => LiveInZone
  BY DEF IInv, HeapInv
<1>2. QED
  BY <1>1, IInvCorrect, PTL

\* __malloc_error is never entered.
THEOREM NoMallocErrorCorrect == Spec => []NoMallocError
<1>1. IInv => NoMallocError
  BY DEF IInv, HeapInv, StepsInv, NoMallocError
<1>2. QED
  BY <1>1, IInvCorrect, PTL

-----------------------------------------------------------------------------
(***************************************************************************)
(* The allocator implements module Allocator: a call of free is AFree, the *)
(* return of a successful malloc is AAlloc, everything else stutters.      *)
(***************************************************************************)

\* The areas of two different used zones have no byte in common.
LEMMA AreasApart ==
  ASSUME IInv, NEW y \in Zones, NEW z \in Zones, y # z,
         NEW m \in Nat, NEW n \in Nat, HdrOff + m <= zsize[y], HdrOff + n <= zsize[z]
  PROVE  Abstract!Apart(y + HdrOff, m, z + HdrOff, n)
<1>1. y \in Nat /\ z \in Nat /\ HdrOff \in Nat /\ zsize[y] \in Nat /\ zsize[z] \in Nat
  BY MallocAssumption DEF IInv, HeapInv, TypeOK
<1>2. (y < z => End(y) <= z) /\ (z < y => End(z) <= y)
  BY DEF IInv, HeapInv, Tiled
<1>3. y < z \/ z < y
  BY <1>1
<1>4. (y < z => y + zsize[y] <= z) /\ (z < y => z + zsize[z] <= y)
  BY <1>2 DEF End
<1>5. QED
  BY <1>1, <1>3, <1>4 DEF Abstract!Apart

\* The return of malloc hands out an area that touches no live one.
LEMMA ReturnAllocates ==
  ASSUME IInv, NEW t \in Threads, Return(t)
  PROVE  [Abstract!ANext]_live
<1> USE DEF IInv, HeapInv
<1>1. CASE zone[t] = NULL
  BY <1>1 DEF Return
<1>2. CASE zone[t] # NULL
  <2> DEFINE z == zone[t]
             n == req[t]
             p == z + HdrOff
  <2>1. step[t] = "done"
    BY DEF Return, Wake, StepsInv
  <2>2. /\ t \in Carrying /\ z \in Zones /\ z \in Nat /\ n \in Sizes \ {0} /\ n \in Nat
        /\ HdrOff + n <= zsize[z] /\ HdrOff \in Nat
    BY <1>2, <2>1, MallocAssumption DEF LocalsInv, Carrying, TypeOK
  <2>3. p \notin DOMAIN live
    BY <2>2 DEF Accounted
  <2>4. ASSUME NEW q \in DOMAIN live
        PROVE  Abstract!Apart(p, n, q, live[q])
    <3> DEFINE y == q - HdrOff
    <3>1. y \in Zones /\ q \in Nat /\ live[q] \in Nat /\ q + live[q] <= End(y)
      BY MallocAssumption DEF LiveInZone, TypeOK
    <3>2. y # z /\ q = y + HdrOff
      BY <2>2, <2>3, <3>1
    <3>3. y \in Nat /\ zsize[y] \in Nat
      BY <3>1 DEF TypeOK
    <3>4. HdrOff + live[q] <= zsize[y]
      BY <2>2, <3>1, <3>2, <3>3 DEF End
    <3> HIDE DEF IInv, HeapInv, y, z, n
    <3>5. QED
      BY <2>2, <3>1, <3>2, <3>4, AreasApart
  <2>5. p \in 0 .. Limit + HdrOff
    <3>1. z + zsize[z] <= heap /\ zsize[z] \in Nat /\ heap \in 0 .. Limit
      BY <2>2 DEF Bounded, End, TypeOK
    <3>2. QED
      BY <3>1, <2>2, MallocAssumption
  <2>6. live' = Put(live, p, n)
    BY <1>2 DEF Return
  <2>7. Abstract!AAlloc(p, n)
    BY <2>2, <2>3, <2>4, <2>6 DEF Abstract!AAlloc, Put
  <2>8. QED
    BY <2>2, <2>5, <2>7 DEF Abstract!ANext
<1>3. QED
  BY <1>1, <1>2

\* Clients of malloc and free see the allocator of module Allocator.
THEOREM AllocatorRefined == Spec => AllocatorSpec
<1>1. Init => Abstract!AInit
  BY DEF Init, Abstract!AInit
<1>2. IInv /\ [Next]_vars => [Abstract!ANext]_live
  <2> SUFFICES ASSUME IInv, [Next]_vars PROVE [Abstract!ANext]_live
    OBVIOUS
  <2>1. ASSUME NEW t \in Threads, NEW p \in DOMAIN live \cup {NULL}, CallFree(t, p)
        PROVE  [Abstract!ANext]_live
    <3>1. CASE p = NULL
      BY <2>1, <3>1 DEF CallFree, Drop, IInv, HeapInv, TypeOK, NULL
    <3>2. CASE p # NULL
      <4>1. p \in DOMAIN live /\ p - HdrOff \in Zones /\ p \in Nat
        BY <3>2 DEF IInv, HeapInv, LiveInZone, TypeOK
      <4>2. p - HdrOff <= heap
        BY <4>1 DEF IInv, HeapInv, Bounded, End, TypeOK
      <4>3. p \in 0 .. Limit + HdrOff
        BY <4>1, <4>2, MallocAssumption DEF IInv, HeapInv, TypeOK
      <4>4. Abstract!AFree(p)
        BY <2>1, <4>1 DEF CallFree, Drop, Abstract!AFree
      <4>5. QED
        BY <4>3, <4>4 DEF Abstract!ANext
    <3>3. QED
      BY <3>1, <3>2
  <2>2. ASSUME NEW t \in Threads,
               \/ \E n \in Sizes : CallMalloc(t, n)
               \/ Acquire(t) \/ Unlock(t) \/ Find(t) \/ Take(t) \/ Grow(t) \/ Carve(t)
               \/ Check(t) \/ MergePrev(t) \/ MergeNext(t) \/ Trim(t)
        PROVE  UNCHANGED live
    BY <2>2 DEF CallMalloc, Acquire, Unlock, Find, Take, Grow, Extend, Carve, Check,
                MergePrev, MergeNext, Trim, At
  <2>3. CASE UNCHANGED vars
    BY <2>3 DEF vars
  <2>4. QED
    BY <2>1, <2>2, <2>3, ReturnAllocates DEF Next
<1>3. QED
  BY <1>1, <1>2, IInvCorrect, PTL DEF Spec, AllocatorSpec, Abstract!ASpec

-----------------------------------------------------------------------------
(***************************************************************************)
(* Coalescing.  Inside a call two free zones may be neighbours; CoInv says *)
(* of every such pair which thread is about to separate or join it.        *)
(***************************************************************************)
\* Thread t is at a step that deals with the neighbours y and End(y).
Mending(t, y) ==
  \/ step[t] = "carve" /\ zone[t] = End(y)
  \/ step[t] = "mergePrev" /\ zone[t] \in {y, End(y)}
  \/ step[t] = "mergeNext" /\ zone[t] = y

CoInv ==
  \A y \in Zones \ (used \cup lost) :
    End(y) \in Zones \ (used \cup lost) => \E t \in Threads : Mending(t, y)

\* Steps that touch neither the zones nor the step of the thread in charge.
LEMMA CoFrame ==
  ASSUME IInv, CoInv, UNCHANGED <<zsize, used, lost>>, NEW t \in Threads,
         step[t] \notin {"carve", "mergePrev", "mergeNext"},
         \A u \in Threads \ {t} : step'[u] = step[u] /\ zone'[u] = zone[u]
  PROVE  CoInv'
<1>1. Zones' = Zones /\ \A y \in Zones : End(y)' = End(y)
  BY DEF Zones, End
<1>2. ASSUME NEW y \in Zones \ (used \cup lost), End(y) \in Zones \ (used \cup lost)
      PROVE  \E u \in Threads : Mending(u, y)'
  <2>1. PICK u \in Threads : Mending(u, y)
    BY <1>2 DEF CoInv
  <2>2. u # t
    BY <2>1 DEF Mending
  <2>3. Mending(u, y)'
    BY <2>1, <2>2, <1>1 DEF Mending
  <2>4. QED
    BY <2>3
<1>3. QED
  BY <1>1, <1>2 DEF CoInv

\* A thread at a step of the heap is alone: only it can be mending.
LEMMA CoAlone ==
  ASSUME IInv, NEW t \in Threads, lpc[t] = "crit", NEW u \in Threads, NEW y, Mending(u, y)
  PROVE  u = t
  BY Alone DEF IInv, HeapInv, Mending

\* A grown heap ends with the zone that is about to be cut.
LEMMA CoGrow ==
  ASSUME IInv, CoInv, NEW t \in Threads, Grow(t), IInv'
  PROVE  CoInv'
<1> USE DEF IInv, HeapInv
<1>1. lpc[t] = "crit" /\ step[t] = "grow"
  BY DEF Grow, Extend, At
<1>2. CASE At(t, "grow", "done") /\ UNCHANGED <<heapVars, zone>>
  <2>1. /\ UNCHANGED <<zsize, used, lost>>
        /\ \A u \in Threads \ {t} : step'[u] = step[u] /\ zone'[u] = zone[u]
    BY <1>2 DEF At, heapVars, TypeOK
  <2> HIDE DEF IInv, HeapInv
  <2>2. QED
    BY <1>1, <2>1, CoFrame
<1>3. ASSUME NEW by, Extend(t, by)
      PROVE  CoInv'
  <2>1. /\ step'[t] = "carve" /\ zone'[t] = heap /\ used' = used /\ lost' = lost
        /\ zsize' = Put(zsize, heap, by) /\ heap' = heap + by
    BY <1>3 DEF Extend, At, idxVars, TypeOK
  <2>2. heap \notin Zones
    BY DEF TypeOK, Bounded, End
  <2>3. Zones' = Zones \cup {heap} /\ \A y \in Zones : zsize'[y] = zsize[y]
    BY <2>1, <2>2 DEF Zones, Put
  <2>4. \A y \in Zones : End(y)' = End(y)
    BY <2>3 DEF End
  <2>5. ASSUME NEW y \in Zones \ (used \cup lost), End(y) \in Zones \ (used \cup lost)
        PROVE  FALSE
    <3>1. PICK u \in Threads : Mending(u, y)
      BY <2>5 DEF CoInv
    <3>2. u = t
      <4> HIDE DEF IInv, HeapInv
      <4>1. QED
        BY <1>1, <3>1, CoAlone
    <3>3. QED
      BY <1>1, <3>1, <3>2 DEF Mending
  <2>6. heap + zsize'[heap] # heap /\ heap + zsize'[heap] \notin Zones
    <3>1. zsize'[heap] \in Nat \ {0} /\ heap \in Nat
      BY <2>3, MallocAssumption DEF TypeOK
    <3>2. \A y \in Zones : y <= heap
      BY <3>1 DEF Bounded, End, TypeOK
    <3>3. QED
      BY <3>1, <3>2 DEF TypeOK
  <2>7. ASSUME NEW y \in Zones' \ (used' \cup lost'), End(y)' \in Zones' \ (used' \cup lost')
        PROVE  y \in Zones /\ End(y)' = zone'[t]
    <3>1. y # heap
      BY <2>1, <2>3, <2>6, <2>7 DEF End
    <3>2. QED
      BY <3>1, <2>1, <2>3, <2>4, <2>5, <2>7
  <2>8. QED
    BY <2>1, <2>7 DEF CoInv, Mending
<1>4. QED
  BY <1>2, <1>3 DEF Grow

\* What is cut off a zone has no free neighbour, or the zone had one before.
LEMMA CoCarve ==
  ASSUME IInv, CoInv, NEW t \in Threads, Carve(t), IInv'
  PROVE  CoInv'
<1> USE DEF IInv, HeapInv
<1> DEFINE z == zone[t]
           s == Request(req[t])
           rest == Put(zsize, z + s, zsize[z] - s)
<1>1. lpc[t] = "crit" /\ step[t] = "carve"
  BY DEF Carve, At
<1>2. /\ z \in Zones \ (used \cup lost) /\ z \in Nat /\ zsize[z] \in Nat /\ req[t] \in Sizes \ {0}
      /\ s \in Nat \ {0} /\ s <= zsize[z]
  BY <1>1, RequestFacts DEF LocalsInv, TypeOK
<1>3. used' = used \cup {z} /\ lost' = lost
  BY <1>2 DEF Carve
<1>4. ASSUME NEW y \in Zones \ (used \cup lost), End(y) \in Zones \ (used \cup lost)
      PROVE  End(y) = z
  <2>1. PICK u \in Threads : Mending(u, y)
    BY <1>4 DEF CoInv
  <2>2. u = t
    <3> HIDE DEF IInv, HeapInv
    <3>1. QED
      BY <1>1, <2>1, CoAlone
  <2>3. QED
    BY <1>1, <2>1, <2>2 DEF Mending
<1>5. CASE s + Slack < zsize[z]
  <2>1. zsize' = Put(rest, z, s)
    BY <1>2, <1>5, MallocAssumption DEF Carve
  <2>2. z + s \in Nat /\ z < z + s /\ z + s < End(z) /\ End(z) \in Nat /\ z < End(z)
    BY <1>2, <1>5, MallocAssumption DEF End
  <2>3. z + s \notin Zones
    BY <1>2, <2>2 DEF Tiled
  <2>4. /\ Zones' = Zones \cup {z + s} /\ zsize'[z + s] = zsize[z] - s
        /\ \A y \in Zones \ {z} : zsize'[y] = zsize[y]
    BY <1>2, <2>1, <2>2, <2>3 DEF Zones, Put
  <2>5. (z + s) + zsize'[z + s] = End(z)
    BY <1>2, <2>4 DEF End
  <2>6. ASSUME NEW y \in Zones' \ (used' \cup lost'), y + zsize'[y] \in Zones' \ (used' \cup lost')
        PROVE  FALSE
    <3>1. CASE y = z + s
      <4>1. End(z) \in Zones \ (used \cup lost)
        BY <1>3, <2>2, <2>4, <2>5, <2>6, <3>1
      <4>2. QED
        BY <4>1, <1>2, <1>4, <2>2
    <3>2. CASE y \in Zones
      <4>1. y \in Zones \ (used \cup lost) /\ y # z /\ y + zsize'[y] = End(y)
        BY <1>3, <2>4, <2>6, <3>2 DEF End
      <4>2. End(y) # z + s
        <5>1. z + s < heap
          BY <1>2, <2>2, MallocAssumption DEF Bounded, TypeOK
        <5>2. QED
          BY <4>1, <5>1, <2>2, <2>3 DEF Tiled
      <4>3. End(y) \in Zones \ (used \cup lost)
        BY <1>3, <2>4, <2>6, <4>1, <4>2
      <4>4. QED
        BY <1>3, <1>4, <2>6, <4>1, <4>3
    <3>3. QED
      BY <3>1, <3>2, <2>4, <2>6
  <2>7. QED
    BY <2>6 DEF CoInv, End
<1>6. CASE ~ (s + Slack < zsize[z])
  <2>1. zsize' = zsize
    BY <1>2, <1>6, MallocAssumption DEF Carve
  <2>2. QED
    BY <1>3, <1>4, <2>1 DEF CoInv, Zones, End
<1>7. QED
  BY <1>5, <1>6

\* A zone that becomes free is the one its thread mends.
LEMMA CoCheck ==
  ASSUME IInv, CoInv, NEW t \in Threads, Check(t)
  PROVE  CoInv'
<1> USE DEF IInv, HeapInv
<1> DEFINE z == zone[t]
<1>1. /\ lpc[t] = "crit" /\ step[t] = "check" /\ UNCHANGED <<zsize, lost, zone>>
      /\ \A u \in Threads \ {t} : step'[u] = step[u]
  BY DEF Check, At, heapVars, TypeOK
<1>2. CASE z = NULL
  <2>1. used' = used
    BY <1>2 DEF Check, heapVars
  <2> HIDE DEF IInv, HeapInv
  <2>2. QED
    BY <1>1, <2>1, CoFrame
<1>3. CASE z # NULL
  <2>1. used' = used \ {z} /\ step'[t] = "mergePrev"
    BY <1>1, <1>3 DEF Check, At, LocalsInv, TypeOK
  <2>2. ASSUME NEW y \in Zones \ (used \cup lost), End(y) \in Zones \ (used \cup lost)
        PROVE  FALSE
    <3>1. PICK u \in Threads : Mending(u, y)
      BY <2>2 DEF CoInv
    <3>2. u = t
      <4> HIDE DEF IInv, HeapInv
      <4>1. QED
        BY <1>1, <3>1, CoAlone
    <3>3. QED
      BY <1>1, <3>1, <3>2 DEF Mending
  <2>3. \A y \in Zones \ (used' \cup lost) :
          End(y) \in Zones \ (used' \cup lost) => z \in {y, End(y)}
    BY <2>1, <2>2
  <2>4. QED
    BY <1>1, <2>1, <2>3 DEF CoInv, Mending, Zones, End
<1>4. QED
  BY <1>2, <1>3

\* After the look at the zone before, only the zone after may be free.
LEMMA CoMergePrev ==
  ASSUME IInv, CoInv, NEW t \in Threads, MergePrev(t)
  PROVE  CoInv'
<1> USE DEF IInv, HeapInv
<1> DEFINE z == zone[t]
<1>1. /\ lpc[t] = "crit" /\ step[t] = "mergePrev" /\ UNCHANGED <<used, lost>>
      /\ step'[t] = "mergeNext"
  BY DEF MergePrev, At, TypeOK
<1>2. Carving = {} /\ Free = Zones \ (used \cup lost)
  BY <1>1, Alone DEF Free
<1>3. ASSUME NEW y \in Zones \ (used \cup lost), End(y) \in Zones \ (used \cup lost)
      PROVE  z \in {y, End(y)}
  <2>1. PICK u \in Threads : Mending(u, y)
    BY <1>3 DEF CoInv
  <2>2. u = t
    <3> HIDE DEF IInv, HeapInv
    <3>1. QED
      BY <1>1, <2>1, CoAlone
  <2>3. QED
    BY <1>1, <2>1, <2>2 DEF Mending
<1>4. CASE (\A e \in endIdx : e[1] # z) /\ UNCHANGED <<idxVars, zsize, zone>>
  <2>1. \A y \in Zones \ (used \cup lost) : End(y) # z
    <3>1. \A y \in Zones \ (used \cup lost) : <<End(y), y>> \in endIdx
      BY <1>2 DEF IndexesAgree
    <3>2. QED
      BY <3>1, <1>4
  <2>2. QED
    BY <1>1, <1>3, <1>4, <2>1 DEF CoInv, Mending, Zones, End
<1>5. ASSUME NEW e \in endIdx, e[1] = z, Reindex({z, e[2]}, {e[2]}, Joined(e[2], z)),
             zsize' = Joined(e[2], z), zone' = [zone EXCEPT ![t] = e[2]]
      PROVE  CoInv'
  <2> DEFINE a == e[2]
  <2>1. a \in Zones \ (used \cup lost) /\ End(a) = z /\ z \in Zones \ (used \cup lost) /\ zone'[t] = a
    BY <1>1, <1>2, <1>5 DEF IndexesAgree, LocalsInv, TypeOK
  <2>2. a # z /\ \A y \in Zones \ {a} : End(y) # z
    <3>1. a # z
      BY <2>1 DEF TypeOK, End
    <3> HIDE DEF a, z
    <3>2. QED
      BY <2>1, <3>1, OneEnd
  <2>3. Zones' = Zones \ {z} /\ \A y \in Zones' \ {a} : y + zsize'[y] = End(y)
    <3>1. zsize' = Joined(a, z)
      BY <1>5
    <3> HIDE DEF a, z
    <3>2. Zones' = Zones \ {z} /\ \A y \in Zones' \ {a} : zsize'[y] = zsize[y]
      BY <3>1, <2>1, <2>2 DEF Zones, Joined, Put, Drop
    <3>3. QED
      BY <3>2 DEF End
  <2>4. \A y \in Zones' \ (used \cup lost) : y + zsize'[y] \in Zones' \ (used \cup lost) => y = a
    BY <1>3, <2>2, <2>3
  <2>5. QED
    BY <1>1, <2>1, <2>4 DEF CoInv, Mending, End
<1>6. QED
  BY <1>4, <1>5 DEF MergePrev

\* After the look at the zone after, no free neighbours are left.
LEMMA CoMergeNext ==
  ASSUME IInv, CoInv, NEW t \in Threads, MergeNext(t)
  PROVE  CoInv'
<1> USE DEF IInv, HeapInv
<1> DEFINE z == zone[t]
           b == End(z)
<1>1. lpc[t] = "crit" /\ step[t] = "mergeNext" /\ UNCHANGED <<used, lost>>
  BY DEF MergeNext, At
<1>2. /\ Carving = {} /\ Free = Zones \ (used \cup lost) /\ z \in Zones \ (used \cup lost) /\ z # b
  BY <1>1, Alone DEF Free, LocalsInv, TypeOK, End
<1>3. ASSUME NEW y \in Zones \ (used \cup lost), End(y) \in Zones \ (used \cup lost)
      PROVE  y = z
  <2>1. PICK u \in Threads : Mending(u, y)
    BY <1>3 DEF CoInv
  <2>2. u = t
    <3> HIDE DEF IInv, HeapInv
    <3>1. QED
      BY <1>1, <2>1, CoAlone
  <2>3. QED
    BY <1>1, <2>1, <2>2 DEF Mending
<1>4. CASE b \notin startIdx /\ UNCHANGED <<idxVars, zsize>>
  BY <1>1, <1>2, <1>3, <1>4 DEF CoInv, IndexesAgree, Zones, End
<1>5. CASE b \in startIdx /\ zsize' = Joined(z, b)
  <2>1. b \in Zones \ (used \cup lost) /\ b + zsize[b] = End(b)
    BY <1>2, <1>5 DEF IndexesAgree, End
  <2>2. /\ Zones' = Zones \ {b} /\ zsize'[z] = zsize[z] + zsize[b]
        /\ \A y \in Zones' \ {z} : y + zsize'[y] = End(y)
    BY <1>2, <1>5 DEF Zones, Joined, Put, Drop, End
  <2>3. z + zsize'[z] = End(b)
    BY <1>2, <2>1, <2>2 DEF End, TypeOK
  <2>4. End(b) \notin Zones \ (used \cup lost)
    BY <1>2, <1>3, <2>1
  <2>5. \A y \in Zones' \ (used \cup lost) : y + zsize'[y] \notin Zones' \ (used \cup lost)
    BY <1>3, <2>2, <2>3, <2>4
  <2>6. QED
    BY <1>1, <2>5 DEF CoInv, End
<1>6. QED
  BY <1>4, <1>5 DEF MergeNext

\* The zone to be trimmed has no free neighbour: giving it back or up makes none.
LEMMA CoTrim ==
  ASSUME IInv, CoInv, NEW t \in Threads, Trim(t)
  PROVE  CoInv'
<1>1. lpc[t] = "crit" /\ step[t] = "trim" /\ used' = used
  BY DEF Trim, At
<1>2. ASSUME NEW y \in Zones \ (used \cup lost), End(y) \in Zones \ (used \cup lost)
      PROVE  FALSE
  <2>1. PICK u \in Threads : Mending(u, y)
    BY <1>2 DEF CoInv
  <2>2. u = t
    BY <1>1, <2>1, CoAlone
  <2>3. QED
    BY <1>1, <2>1, <2>2 DEF Mending
<1>3. /\ Zones' \subseteq Zones /\ lost \subseteq lost'
      /\ \A y \in Zones' : y + zsize'[y] = End(y)
  BY DEF Trim, Zones, Drop, End
<1>4. QED
  BY <1>1, <1>2, <1>3 DEF CoInv, End

\* Every step keeps the neighbours of free zones in somebody's care.
LEMMA CoStep == IInv /\ CoInv /\ [Next]_vars => CoInv'
<1> SUFFICES ASSUME IInv, CoInv, [Next]_vars PROVE CoInv'
  OBVIOUS
<1>1. IInv'
  BY IInvStep
<1>2. CASE UNCHANGED <<zsize, used, lost, step, zone>>
  BY <1>2 DEF CoInv, Mending, Zones, End
<1>3. ASSUME NEW t \in Threads,
             \/ \E n \in Sizes : CallMalloc(t, n)
             \/ \E p \in DOMAIN live \cup {NULL} : CallFree(t, p)
             \/ Return(t) \/ Find(t) \/ Take(t)
      PROVE  CoInv'
  <2>1. /\ UNCHANGED <<zsize, used, lost>>
        /\ \A u \in Threads \ {t} : step'[u] = step[u] /\ zone'[u] = zone[u]
    BY <1>3 DEF CallMalloc, CallFree, Return, Find, Take, At, heapVars, IInv, HeapInv, TypeOK
  <2>2. step[t] \notin {"carve", "mergePrev", "mergeNext"}
    BY <1>3 DEF CallMalloc, CallFree, Return, Wake, Find, Take, At, IInv, HeapInv, StepsInv
  <2>3. QED
    BY <2>1, <2>2, CoFrame
<1>4. ASSUME NEW t \in Threads, Acquire(t) \/ Unlock(t)
      PROVE  CoInv'
  BY <1>2, <1>4 DEF Acquire, Unlock, heapVars
<1>5. CASE UNCHANGED vars
  BY <1>2, <1>5 DEF vars, heapVars
<1>6. QED
  BY <1>1, <1>3, <1>4, <1>5, CoGrow, CoCarve, CoCheck, CoMergePrev, CoMergeNext, CoTrim
     DEF Next

\* Outside the critical section no two free zones are neighbours.
THEOREM CoalescedCorrect == Spec => []Coalesced
<1>1. Init => CoInv
  BY DEF Init, CoInv, Zones
<1>2. IInv /\ CoInv => Coalesced
  BY DEF IInv, HeapInv, StepsInv, CoInv, Mending, Coalesced, Holders, Free
<1>3. QED
  BY <1>1, <1>2, CoStep, IInvCorrect, PTL DEF Spec
-----------------------------------------------------------------------------
(***************************************************************************)
(* What is given back.  A zone long enough for the trim, at the end of the *)
(* heap and with nothing before it but what brk has refused, is in the     *)
(* hands of the thread that is about to cut or trim it.                    *)
(***************************************************************************)
Long(z) ==
  /\ z \in Zones \ (used \cup lost)
  /\ End(z) = heap
  /\ zsize[z] >= TrimMin
  /\ z = 0 \/ \E y \in lost : End(y) = z

Working == {"carve", "mergePrev", "mergeNext", "trim"}
HandsOn(t, z) == step[t] \in Working /\ zone[t] = z

TrimInv == \A z \in Zones : Long(z) => \E t \in Threads : HandsOn(t, z)

\* The library's theorem with the relation spelled out.
LEMMA NatWellFounded ==
  IsWellFoundedOn({p \in Nat \X Nat : p[1] < p[2]}, Nat)
BY NatLessThanWellFounded DEF OpToRel

\* A set of natural numbers that is not empty has a least element.
LEMMA LeastNat ==
  ASSUME NEW T, T \subseteq Nat, T # {}
  PROVE  \E x \in T : \A y \in T : x <= y
<1> DEFINE R == {p \in Nat \X Nat : p[1] < p[2]}
<1>1. \E x \in T : \A y \in T : ~(<<y, x>> \in R)
  <2>1. IsWellFoundedOn(R, Nat)
    BY NatWellFounded
  <2> HIDE DEF R
  <2>2. QED
    BY <2>1, WFMin, Zenon
<1>2. PICK x \in T : \A y \in T : ~(<<y, x>> \in R)
  BY <1>1
<1>3. ASSUME NEW y \in T
      PROVE  x <= y
  <2>1. x \in Nat /\ y \in Nat /\ ~(<<y, x>> \in R)
    BY <1>2
  <2>2. ~(y < x)
    BY <2>1
  <2>3. QED
    BY <2>1, <2>2
<1>4. QED
  BY <1>3

\* A zone ends at the break, if the heap is not empty, and where any zone but the
\* first starts: the greatest of those below.
LEMMA ZoneBefore ==
  ASSUME HeapInv, NEW k \in Zones \cup {heap}, k > 0
  PROVE  \E p \in Zones : End(p) = k
<1>1. heap \in Nat /\ Zones \subseteq Nat /\ \A y \in Zones : zsize[y] \in Nat \ {0}
  BY MallocAssumption DEF HeapInv, TypeOK
<1>2. k \in Nat /\ \A y \in Zones : End(y) \in Nat /\ y < End(y) /\ End(y) <= heap
  BY <1>1 DEF HeapInv, Bounded, End
<1>3. 0 \in Zones
  <2>1. heap > 0
    BY <1>1, <1>2
  <2>2. QED
    BY <2>1 DEF HeapInv, Tiled
<1> DEFINE T == {k - y : y \in {w \in Zones : w < k}}
<1>4. T \subseteq Nat /\ T # {}
  BY <1>1, <1>2, <1>3
<1>5. PICK x \in T : \A y \in T : x <= y
  <2> HIDE DEF T
  <2>1. QED
    BY <1>4, LeastNat
<1>6. PICK p \in Zones : p < k /\ x = k - p
  OBVIOUS
<1>7. \A w \in Zones : w < k => w <= p
  <2>1. ASSUME NEW w \in Zones, w < k
        PROVE  w <= p
    <3>1. k - p <= k - w
      BY <1>5, <1>6, <2>1
    <3>2. QED
      BY <1>1, <1>2, <3>1
  <2>2. QED
    BY <2>1
<1>8. End(p) <= k
  BY <1>1, <1>2, <1>6 DEF HeapInv, Tiled
<1>9. End(p) = heap \/ End(p) \in Zones
  BY DEF HeapInv, Tiled
<1>10. QED
  BY <1>1, <1>2, <1>6, <1>7, <1>8, <1>9

\* A thread at a step of the heap is alone: what is long is in its hands.
LEMMA LongAlone ==
  ASSUME IInv, TrimInv, NEW t \in Threads, lpc[t] = "crit", NEW z \in Zones, Long(z)
  PROVE  HandsOn(t, z)
<1>1. PICK u \in Threads : HandsOn(u, z)
  BY DEF TrimInv
<1>2. u = t
  BY <1>1, Alone DEF IInv, HeapInv, HandsOn, Working
<1>3. QED
  BY <1>1, <1>2

\* A zone that is long after a step that touches neither it nor what is lost was
\* long before.
LEMMA LongKept ==
  ASSUME NEW z \in Zones, Long(z)', z \notin used, heap' = heap, lost' = lost,
         zsize'[z] = zsize[z], \A y \in lost : zsize'[y] = zsize[y]
  PROVE  Long(z)
BY DEF Long, End, Zones

\* Steps after which nothing is long but what the thread works on.
LEMMA TrimInHands ==
  ASSUME NEW t \in Threads, step'[t] \in Working, \A z \in Zones' : Long(z)' => z = zone'[t]
  PROVE  TrimInv'
BY DEF TrimInv, HandsOn

\* Steps that leave the heap and the thread at work alone.
LEMMA TrimFrame ==
  ASSUME TrimInv, NEW t \in Threads, UNCHANGED <<heap, zsize, used, lost>>,
         step[t] \notin Working,
         \A u \in Threads \ {t} : step'[u] = step[u] /\ zone'[u] = zone[u]
  PROVE  TrimInv'
<1>1. ASSUME NEW z \in Zones, Long(z)
      PROVE  \E u \in Threads : HandsOn(u, z)'
  <2>1. PICK u \in Threads : HandsOn(u, z)
    BY <1>1 DEF TrimInv
  <2>2. u # t
    BY <2>1 DEF HandsOn
  <2>3. HandsOn(u, z)'
    BY <2>1, <2>2 DEF HandsOn
  <2>4. QED
    BY <2>3
<1>2. Zones' = Zones /\ \A z \in Zones : Long(z)' => Long(z)
  BY DEF Zones, Long, End
<1>3. QED
  BY <1>1, <1>2 DEF TrimInv

\* The new zone is the only one at the break, and about to be cut.
LEMMA TrimGrow ==
  ASSUME IInv, TrimInv, NEW t \in Threads, Grow(t)
  PROVE  TrimInv'
<1>1. step[t] = "grow" /\ step \in [Threads -> StepPc] /\ zone \in [Threads -> Zones \cup {NULL}]
  BY DEF Grow, Extend, At, IInv, HeapInv, TypeOK
<1>2. CASE At(t, "grow", "done") /\ UNCHANGED <<heapVars, zone>>
  <2>1. /\ UNCHANGED <<heap, zsize, used, lost>> /\ step[t] \notin Working
        /\ \A u \in Threads \ {t} : step'[u] = step[u] /\ zone'[u] = zone[u]
    BY <1>1, <1>2 DEF At, heapVars, Working
  <2>2. QED
    BY <2>1, TrimFrame
<1>3. ASSUME NEW by \in Nat \ {0}, Extend(t, by)
      PROVE  TrimInv'
  <2>1. /\ step'[t] = "carve" /\ zone'[t] = heap
        /\ zsize' = Put(zsize, heap, by) /\ heap' = heap + by
    BY <1>1, <1>3 DEF Extend, At
  <2>2. heap \in Nat /\ \A y \in Zones : End(y) <= heap /\ End(y) \in Nat
    BY MallocAssumption DEF IInv, HeapInv, TypeOK, Bounded, End
  <2>3. Zones' = Zones \cup {heap} /\ \A y \in Zones \ {heap} : End(y)' = End(y)
    BY <2>1 DEF Zones, Put, End
  <2>4. \A y \in Zones' : Long(y)' => y = zone'[t]
    BY <2>1, <2>2, <2>3 DEF Long
  <2>5. QED
    BY <2>1, <2>4, TrimInHands DEF Working
<1>4. req[t] \in Sizes /\ req[t] # 0
  BY <1>1 DEF IInv, HeapInv, LocalsInv, TypeOK
<1>5. QED
  BY <1>2, <1>3, <1>4, RequestFacts, GrowFacts DEF Grow

\* Cutting marks the zone used; what is cut off follows a zone that is used.
LEMMA TrimCarve ==
  ASSUME IInv, IInv', TrimInv, NEW t \in Threads, Carve(t)
  PROVE  TrimInv'
<1> DEFINE z == zone[t]
           s == Request(req[t])
           rest == Put(zsize, z + s, zsize[z] - s)
<1>1. /\ lpc[t] = "crit" /\ step[t] = "carve" /\ heap' = heap /\ lost' = lost
      /\ z \in Zones \ (used \cup lost) /\ s <= zsize[z] /\ req[t] # 0
  BY DEF Carve, At, IInv, HeapInv, LocalsInv
<1>2. req[t] \in Sizes /\ zsize[z] \in Nat /\ z \in Nat /\ lost \subseteq Zones
  BY <1>1 DEF IInv, HeapInv, TypeOK
<1>3. s \in Nat \ {0}
  BY <1>1, <1>2, RequestFacts
<1>4. used' = used \cup {z}
  BY <1>1, <1>2, <1>3 DEF Carve
<1>5. SUFFICES ASSUME NEW y \in Zones', Long(y)'
               PROVE  FALSE
  BY DEF TrimInv
<1>6. y # z /\ y \notin used
  BY <1>4, <1>5 DEF Long
<1>7. CASE zsize' = zsize
  BY <1>1, <1>5, <1>6, <1>7, LongKept, LongAlone DEF Zones, HandsOn
<1>8. CASE zsize' = Put(rest, z, s) /\ s + Slack < zsize[z]
  <2>1. z + s # z
    BY <1>2, <1>3
  <2>2. /\ Zones' = Zones \cup {z, z + s} /\ zsize'[z] = s
        /\ \A w \in Zones \ {z, z + s} : zsize'[w] = zsize[w]
    BY <1>8, <2>1 DEF Zones, Put
  <2>3. z + s \notin Zones
    <3>1. z < z + s /\ z + s < End(z)
      BY <1>2, <1>3, <1>8, MallocAssumption DEF End
    <3>2. QED
      BY <1>1, <1>2, <3>1 DEF IInv, HeapInv, Tiled, TypeOK
  <2>4. CASE y = z + s
    <3>1. PICK w \in lost : End(w)' = z + s
      BY <1>1, <1>2, <1>3, <1>5, <2>4 DEF Long
    <3>2. w + zsize'[w] = z + zsize'[z] /\ w \in Zones' /\ z \in Zones'
      BY <1>2, <2>2, <3>1 DEF End
    <3>3. w = z
      BY <3>2, OneEndNext DEF IInv
    <3>4. QED
      BY <1>1, <3>1, <3>3
  <2>5. CASE y # z + s
    <3>1. y \in Zones /\ zsize'[y] = zsize[y] /\ \A w \in lost : zsize'[w] = zsize[w]
      BY <1>1, <1>2, <1>6, <2>2, <2>3, <2>5
    <3>2. QED
      BY <1>1, <1>5, <1>6, <3>1, LongKept, LongAlone DEF HandsOn
  <2>6. QED
    BY <2>4, <2>5
<1>9. QED
  BY <1>7, <1>8 DEF Carve

\* A zone that becomes free is in the hands of its thread.
LEMMA TrimCheck ==
  ASSUME IInv, TrimInv, NEW t \in Threads, Check(t)
  PROVE  TrimInv'
<1>1. /\ lpc[t] = "crit" /\ step[t] = "check" /\ UNCHANGED <<heap, zsize, lost, zone>>
      /\ \A u \in Threads \ {t} : step'[u] = step[u]
  BY DEF Check, At, heapVars, IInv, HeapInv, TypeOK
<1>2. CASE zone[t] = NULL
  <2>1. used' = used /\ step[t] \notin Working
    BY <1>1, <1>2 DEF Check, heapVars, Working
  <2>2. QED
    BY <1>1, <2>1, TrimFrame
<1>3. CASE zone[t] # NULL
  <2>1. used' = used \ {zone[t]} /\ step'[t] = "mergePrev"
    BY <1>1, <1>3 DEF Check, At, IInv, HeapInv, LocalsInv, TypeOK
  <2>2. ASSUME NEW y \in Zones', Long(y)'
        PROVE  y = zone[t]
    <3>1. SUFFICES ASSUME y # zone[t] PROVE FALSE
      OBVIOUS
    <3>2. y \in Zones /\ y \notin used
      BY <1>1, <2>1, <2>2, <3>1 DEF Long, Zones
    <3>3. Long(y)
      BY <1>1, <2>2, <3>2, LongKept
    <3>4. QED
      BY <1>1, <3>2, <3>3, LongAlone DEF HandsOn, Working
  <2>3. QED
    BY <1>1, <2>1, <2>2, TrimInHands DEF Working
<1>4. QED
  BY <1>2, <1>3

\* The thread goes on with the zone that has absorbed the one before.
LEMMA TrimMergePrev ==
  ASSUME IInv, TrimInv, NEW t \in Threads, MergePrev(t)
  PROVE  TrimInv'
<1> DEFINE z == zone[t]
<1>1. /\ lpc[t] = "crit" /\ step[t] = "mergePrev" /\ UNCHANGED <<heap, used, lost>>
      /\ step'[t] = "mergeNext" /\ z \in Zones \ (used \cup lost)
  BY DEF MergePrev, At, IInv, HeapInv, TypeOK, LocalsInv
<1>2. CASE UNCHANGED <<zsize, zone>>
  <2>1. \A y \in Zones' : Long(y)' => y = z
    BY <1>1, <1>2, LongKept, LongAlone DEF Zones, HandsOn, Long
  <2>2. QED
    BY <1>1, <1>2, <2>1, TrimInHands DEF Working
<1>3. ASSUME NEW e \in endIdx, zsize' = Joined(e[2], z), zone' = [zone EXCEPT ![t] = e[2]]
      PROVE  TrimInv'
  <2> DEFINE a == e[2]
  <2>1. a \in Zones \ (used \cup lost) /\ zone'[t] = a
    BY <1>3 DEF IInv, HeapInv, IndexesAgree, Free, TypeOK
  <2> HIDE DEF a
  <2>2. zsize' = Joined(a, z)
    BY <1>3 DEF a
  <2>3. Zones' = (Zones \ {z}) \cup {a} /\ \A y \in Zones \ {a, z} : zsize'[y] = zsize[y]
    BY <2>2 DEF Zones, Joined, Put, Drop
  <2>4. ASSUME NEW y \in Zones', Long(y)'
        PROVE  y = a
    <3>1. SUFFICES ASSUME y # a PROVE FALSE
      OBVIOUS
    <3>2. y \in Zones /\ y # z /\ y \notin used /\ zsize'[y] = zsize[y]
      BY <1>1, <2>3, <2>4, <3>1 DEF Long
    <3>3. \A w \in lost : zsize'[w] = zsize[w]
      BY <1>1, <2>1, <2>3 DEF IInv, HeapInv, TypeOK
    <3>4. QED
      BY <1>1, <2>4, <3>2, <3>3, LongKept, LongAlone DEF HandsOn
  <2>5. QED
    BY <1>1, <2>1, <2>4, TrimInHands DEF Working
<1>4. QED
  BY <1>2, <1>3 DEF MergePrev

\* The thread goes on with the zone that has absorbed the one after.
LEMMA TrimMergeNext ==
  ASSUME IInv, TrimInv, NEW t \in Threads, MergeNext(t)
  PROVE  TrimInv'
<1> DEFINE z == zone[t]
<1>1. /\ lpc[t] = "crit" /\ step[t] = "mergeNext" /\ UNCHANGED <<heap, used, lost, zone>>
      /\ step'[t] = "trim" /\ z \in Zones \ (used \cup lost)
  BY DEF MergeNext, At, IInv, HeapInv, TypeOK, LocalsInv
<1>2. ASSUME NEW y \in Zones', Long(y)', y # z
      PROVE  FALSE
  <2>1. CASE zsize' = zsize
    BY <1>1, <1>2, <2>1, LongKept, LongAlone DEF Zones, HandsOn, Long
  <2>2. CASE End(z) \in startIdx /\ zsize' = Joined(z, End(z))
    <3>1. End(z) \in Zones \ (used \cup lost)
      BY <2>2 DEF IInv, HeapInv, IndexesAgree, Free
    <3>2. /\ Zones' = (Zones \ {End(z)}) \cup {z}
          /\ \A w \in Zones \ {z, End(z)} : zsize'[w] = zsize[w]
      BY <2>2 DEF Zones, Joined, Put, Drop
    <3>3. y \in Zones /\ y \notin used /\ zsize'[y] = zsize[y]
      BY <1>1, <1>2, <3>2 DEF Long
    <3>4. \A w \in lost : zsize'[w] = zsize[w]
      BY <1>1, <3>1, <3>2 DEF IInv, HeapInv, TypeOK
    <3>5. QED
      BY <1>1, <1>2, <3>3, <3>4, LongKept, LongAlone DEF HandsOn
  <2>3. QED
    BY <2>1, <2>2 DEF MergeNext
<1>3. QED
  BY <1>1, <1>2, TrimInHands DEF Working

\* After the look at the end of the heap a zone that is left alone is short or lost:
\* the one before a trimmed zone is not free, since the two would have been merged.
LEMMA TrimTrim ==
  ASSUME IInv, CoInv, TrimInv, NEW t \in Threads, Trim(t)
  PROVE  TrimInv'
<1> DEFINE z == zone[t]
<1>1. /\ lpc[t] = "crit" /\ step[t] = "trim" /\ used' = used /\ z \in Zones \ (used \cup lost)
      /\ heap \in Nat /\ Zones \subseteq Nat /\ \A y \in Zones : zsize[y] \in Nat \ {0}
  BY MallocAssumption DEF Trim, At, IInv, HeapInv, LocalsInv, TypeOK
<1>2. SUFFICES ASSUME NEW y \in Zones', Long(y)'
               PROVE  FALSE
  BY DEF TrimInv
<1>3. CASE End(z) = heap /\ heap' = heap - zsize[z] /\ zsize' = Drop(zsize, z) /\ lost' = lost
  <2>1. Zones' = Zones \ {z} /\ \A w \in Zones' : End(w)' = End(w)
    BY <1>3 DEF Zones, Drop, End
  <2>2. y \in Zones \ (used \cup lost) /\ End(y) = z
    <3>1. heap' = z
      <4>1. zsize[z] \in Nat /\ z \in Nat /\ heap = z + zsize[z]
        BY <1>1, <1>3 DEF End
      <4>2. QED
        BY <1>3, <4>1
    <3>2. QED
      BY <1>1, <1>2, <1>3, <2>1, <3>1 DEF Long
  <2>3. PICK u \in Threads : Mending(u, y)
    BY <1>1, <2>2 DEF CoInv
  <2>4. u = t
    BY <1>1, <2>3, CoAlone
  <2>5. QED
    BY <1>1, <2>3, <2>4 DEF Mending
<1>4. CASE End(z) = heap /\ lost' = lost \cup {z} /\ UNCHANGED <<heap, zsize>>
  <2>1. y \in Zones /\ End(y) = End(z) /\ y # z
    BY <1>2, <1>4 DEF Long, Zones, End
  <2>2. QED
    BY <1>1, <2>1, OneEnd DEF IInv
<1>5. CASE ~(End(z) = heap /\ zsize[z] >= TrimMin) /\ UNCHANGED <<heap, zsize, lost>>
  <2>1. y \in Zones /\ Long(y)
    BY <1>1, <1>2, <1>5 DEF Long, Zones, End
  <2>2. y = z
    BY <1>1, <2>1, LongAlone DEF HandsOn
  <2>3. QED
    BY <1>5, <2>1, <2>2 DEF Long
<1>6. QED
  BY <1>3, <1>4, <1>5 DEF Trim

\* Every step keeps a long zone at the end in somebody's hands.
LEMMA GivenStep == IInv /\ CoInv /\ TrimInv /\ [Next]_vars => TrimInv'
<1> SUFFICES ASSUME IInv, CoInv, TrimInv, [Next]_vars PROVE TrimInv'
  OBVIOUS
<1>1. IInv'
  BY IInvStep
<1>2. ASSUME NEW t \in Threads,
             \/ \E n \in Sizes : CallMalloc(t, n)
             \/ \E p \in DOMAIN live \cup {NULL} : CallFree(t, p)
             \/ Return(t) \/ Find(t) \/ Take(t)
      PROVE  TrimInv'
  <2>1. /\ UNCHANGED <<heap, zsize, used, lost>>
        /\ \A u \in Threads \ {t} : step'[u] = step[u] /\ zone'[u] = zone[u]
    BY <1>2 DEF CallMalloc, CallFree, Return, Find, Take, At, heapVars, IInv, HeapInv, TypeOK
  <2>2. step[t] \notin Working
    BY <1>2 DEF CallMalloc, CallFree, Return, Wake, Find, Take, At, IInv, HeapInv, StepsInv,
                Working
  <2>3. QED
    BY <2>1, <2>2, TrimFrame
<1>3. CASE UNCHANGED <<heap, zsize, used, lost, step, zone>>
  BY <1>3 DEF TrimInv, Long, HandsOn, Zones, End
<1>4. ASSUME NEW t \in Threads, Acquire(t) \/ Unlock(t)
      PROVE  TrimInv'
  BY <1>3, <1>4 DEF Acquire, Unlock, heapVars
<1>5. CASE UNCHANGED vars
  BY <1>3, <1>5 DEF vars, heapVars
<1>6. QED
  BY <1>1, <1>2, <1>4, <1>5, TrimGrow, TrimCarve, TrimCheck, TrimMergePrev, TrimMergeNext,
     TrimTrim DEF Next

\* When everything has been freed, by whichever threads in whichever order, the
\* zones have been merged and the heap given back, down to what brk did not take.
THEOREM GivenBackCorrect == Spec => []GivenBack
<1>1. Init => CoInv /\ TrimInv
  BY DEF Init, CoInv, TrimInv, Zones
<1>2. ASSUME IInv, CoInv, TrimInv, Holders = {}, used = {}, heap # 0
      PROVE  \E b \in {0} \cup {End(y) : y \in lost} : heap < b + TrimMin \/ heap = b
  <2>1. /\ heap \in Nat /\ heap > 0 /\ TrimMin \in Nat /\ lost \subseteq Zones
        /\ Zones \subseteq Nat /\ \A y \in Zones : zsize[y] \in Nat \ {0}
    BY <1>2, MallocAssumption DEF IInv, HeapInv, TypeOK
  <2>2. \A t \in Threads : step[t] \notin Working
    BY <1>2 DEF IInv, HeapInv, StepsInv, Holders, Working
  <2>3. PICK m \in Zones : End(m) = heap
    BY <1>2, <2>1, ZoneBefore DEF IInv
  <2>4. CASE m \in lost
    BY <2>3, <2>4
  <2>5. CASE m \notin lost
    <3>1. m = 0 \/ \E y \in lost : End(y) = m
      <4>1. SUFFICES ASSUME m # 0 PROVE \E y \in lost : End(y) = m
        OBVIOUS
      <4>2. PICK p \in Zones : End(p) = m
        BY <1>2, <2>1, <4>1, ZoneBefore DEF IInv
      <4>3. \A t \in Threads : ~Mending(t, p)
        BY <2>2 DEF Mending, Working
      <4>4. p \in lost
        BY <1>2, <2>5, <4>2, <4>3 DEF CoInv
      <4>5. QED
        BY <4>2, <4>4
    <3>2. ~Long(m)
      BY <1>2, <2>2 DEF TrimInv, HandsOn
    <3>3. zsize[m] < TrimMin
      BY <1>2, <2>1, <2>3, <2>5, <3>1, <3>2 DEF Long
    <3>4. m \in {0} \cup {End(y) : y \in lost}
      BY <3>1
    <3>5. heap < m + TrimMin
      BY <2>1, <2>3, <3>3 DEF End
    <3>6. QED
      BY <3>4, <3>5
  <2>6. QED
    BY <2>4, <2>5
<1>3. IInv /\ CoInv /\ TrimInv => GivenBack
  BY <1>2 DEF GivenBack
<1>4. QED
  BY <1>1, <1>3, CoStep, GivenStep, IInvCorrect, PTL DEF Spec
=============================================================================
