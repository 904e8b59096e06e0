----------------------------- MODULE BootProofs -----------------------------
(***************************************************************************)
(* Proofs about the boot chain, for partitions of any layout that is sound *)
(* (LoaderAssumption), memory maps of any length, any number of devices    *)
(* and any ids on them.                                                    *)
(***************************************************************************)
EXTENDS Boot, TLAPS

(***************************************************************************)
(* The shutdown.                                                           *)
(***************************************************************************)

\* What the handler that runs has done so far.  One that begins in the middle
\* of another takes its place, and does it all again.
Shutting ==
  /\ handlers # <<>> /\ hpc \in {"umount", "sync", "reboot"} => child = "none"
  /\ handlers # <<>> /\ hpc = "reboot" => ~dirty

ShutInv == Shutting /\ NothingLost

\* main stands still while a handler runs, and does not end the machine itself.
LEMMA MainKeeps ==
  ASSUME ShutInv, MainStep
  PROVE  ShutInv'
<1>1. handlers = <<>> /\ handlers' = <<>>
  BY DEF MainStep, Main, SetHandlers, OpenRootId, MountDev, Look, ReadId, NextPass, MountRoot,
         ChangeRoot, ForkRemove, WaitRemove, MountNext, Exec, ForkInstaller
<1>2. ipc' \notin {"off", "reboot"}
  BY DEF MainStep, Main, SetHandlers, OpenRootId, MountDev, Look, ReadId, NextPass, MountRoot,
         ChangeRoot, ForkRemove, WaitRemove, MountNext, Exec, ForkInstaller
<1>3. QED
  BY <1>1, <1>2 DEF ShutInv, Shutting, NothingLost

\* Each step of _shutdown adds what the next one relies on.
LEMMA ShutdownKeeps ==
  ASSUME ShutInv, ShutdownStep
  PROVE  ShutInv'
<1>1. /\ ipc \notin {"off", "reboot"} /\ handlers # <<>> /\ handlers' = handlers
  BY DEF ShutdownStep, Term, Kill, Umount, Sync, Reboot, Handler, Running
<1>2. CASE Term
  BY <1>1, <1>2 DEF Term, Handler, ShutInv, Shutting, NothingLost
<1>3. CASE Kill
  BY <1>1, <1>3 DEF Kill, Handler, ShutInv, Shutting, NothingLost
<1>4. CASE Umount
  BY <1>1, <1>4 DEF Umount, Handler, ShutInv, Shutting, NothingLost
<1>5. CASE Sync
  BY <1>1, <1>5 DEF Sync, Handler, ShutInv, Shutting, NothingLost
<1>6. CASE Reboot
  BY <1>1, <1>6 DEF Reboot, Handler, ShutInv, Shutting, NothingLost
<1>7. QED
  BY <1>2, <1>3, <1>4, <1>5, <1>6 DEF ShutdownStep

\* Every step of the machine keeps what the shutdown relies on.
LEMMA ShutStep == ShutInv /\ [BootNext]_allVars => ShutInv'
<1> SUFFICES ASSUME ShutInv, [BootNext]_allVars PROVE ShutInv'
  OBVIOUS
<1> USE DEF ShutInv, Shutting, NothingLost
<1>1. CASE UNCHANGED initVars
  BY <1>1 DEF initVars
<1>2. CASE Loading(LoaderNext)
  BY <1>1, <1>2 DEF Loading
<1>3. CASE KernelStarts
  BY <1>3 DEF KernelStarts, KernelRuns, Main
<1>4. CASE PowerOn
  BY <1>4 DEF PowerOn, Gone
<1>5. CASE ChildWrites \/ ChildEnds
  BY <1>5 DEF ChildWrites, ChildEnds
<1>6. ASSUME NEW s \in Signals, Signal(s)
      PROVE  ShutInv'
  BY <1>6 DEF Signal, Running
<1>7. ASSUME NEW n \in Names, Plug(n)
      PROVE  ShutInv'
  BY <1>7 DEF Plug
<1>8. CASE UNCHANGED allVars
  BY <1>1, <1>8 DEF allVars
<1>9. QED
  BY <1>2, <1>3, <1>4, <1>5, <1>6, <1>7, <1>8, MainKeeps, ShutdownKeeps DEF BootNext, InitNext

\* A shutdown that a signal began, between whatever steps of main and of other
\* shutdowns, ends with nobody writing and everything written (init and
\* install_init, _shutdown).
THEOREM NothingLostCorrect == BootSpec => []NothingLost
<1>1. BootInit => ShutInv
  BY DEF BootInit, InitInit, ShutInv, Shutting, NothingLost
<1>2. ShutInv => NothingLost
  BY DEF ShutInv
<1>3. QED
  BY <1>1, <1>2, ShutStep, PTL DEF BootSpec

(***************************************************************************)
(* Reading a block.                                                        *)
(***************************************************************************)

\* The partition a pointer of a block or of an inode can be followed on.
Readable ==
  /\ {disk.sector, disk.block} \subseteq Nat \ {0}
  /\ disk.size \in Nat /\ disk.blocks \in Nat
  /\ \A b \in DOMAIN disk.at : disk.at[b].ptr \in [1..Ptrs -> Nat]

\* The read-ahead buffer holds what its base says, or nothing.
RightBuffer(r) ==
  /\ r \in [base : Nat, size : Nat, from : Int]
  /\ IF r.from = Nowhere THEN r.size = 0 ELSE r.from = r.base * disk.sector

\* Each copy is that of the block it is noted for.
RightSlots(s) ==
  /\ s \in [Slots -> [tag : Nat, has : Nat]]
  /\ \A k \in Slots : s[k].has = s[k].tag

\* On the way to a block: the caches are right, and unless the firmware failed
\* the block is b.
Right(o, b) ==
  /\ o \in [ra : [base : Nat, size : Nat, from : Int],
            slot : [Slots -> [tag : Nat, has : Nat]], next : Int]
  /\ RightBuffer(o.ra) /\ RightSlots(o.slot) /\ o.next \in {Fail, b}

\* Division with remainder by any divisor.
LEMMA DivMod ==
  ASSUME NEW n \in Nat, NEW k \in Nat \ {0}
  PROVE  /\ n \div k \in Nat /\ n % k \in Nat /\ n % k < k
         /\ (n \div k) * k + (n % k) = n
<1>1. n \div k \in Nat /\ n % k \in Nat /\ n % k < k
  OBVIOUS
<1>2. n = k * (n \div k) + (n % k)
  OBVIOUS
<1>3. k * (n \div k) = (n \div k) * k
  BY <1>1
<1>4. QED
  BY <1>1, <1>2, <1>3

\* A product divides by its second factor.
LEMMA ProductDiv ==
  ASSUME NEW b \in Nat, NEW k \in Nat \ {0}
  PROVE  (b * k) \div k = b /\ (b * k) % k = 0
<1> DEFINE q == (b * k) \div k
           r == (b * k) % k
<1>1. b * k \in Nat
  OBVIOUS
<1>2. q \in Nat /\ r \in Nat /\ r < k /\ q * k + r = b * k
  BY <1>1, DivMod
<1> HIDE DEF q, r
<1>3. q <= b
  <2>1. SUFFICES ASSUME q >= b + 1 PROVE FALSE
    BY <1>2
  <2>2. q * k >= (b + 1) * k
    BY <1>2, <2>1
  <2>3. (b + 1) * k = b * k + k
    OBVIOUS
  <2>4. QED
    BY <1>1, <1>2, <2>2, <2>3
<1>4. q >= b
  <2>1. SUFFICES ASSUME q + 1 <= b PROVE FALSE
    BY <1>2
  <2>2. (q + 1) * k <= b * k
    BY <1>2, <2>1
  <2>3. (q + 1) * k = q * k + k
    BY <1>2
  <2>4. QED
    BY <1>1, <1>2, <2>2, <2>3
<1>5. q = b
  BY <1>2, <1>3, <1>4
<1>6. r = 0
  BY <1>1, <1>2, <1>5
<1>7. QED
  BY <1>5, <1>6 DEF q, r

\* Sectors times units, as the offsets into the buffer are counted.
LEMMA Distance ==
  ASSUME NEW a \in Nat, NEW c \in Nat, a <= c, NEW k \in Nat \ {0}
  PROVE  /\ (c - a) * k \in Nat /\ a * k \in Nat /\ c * k \in Nat
         /\ a * k + (c - a) * k = c * k
<1>1. PICK d \in Nat : c = a + d
  <2>1. c - a \in Nat /\ c = a + (c - a)
    OBVIOUS
  <2>2. QED
    BY <2>1
<1>2. d * k \in Nat /\ a * k \in Nat /\ (a + d) * k = a * k + d * k
  OBVIOUS
<1>3. c - a = d
  BY <1>1
<1>4. QED
  BY <1>1, <1>2, <1>3

\* A refill sets base and size whether the firmware succeeds or not.
LEMMA RefilledRight ==
  ASSUME Readable, NEW off \in Nat, NEW q \in Refilled(off)
  PROVE  RightBuffer(q) /\ q.base = off
<1>1. PICK n \in ReadSectors(off, Ahead) :
        q = [base |-> off, size |-> n, from |-> IF n = 0 THEN Nowhere ELSE off * disk.sector]
  BY DEF Refilled
<1>2. off * disk.sector \in Nat /\ Ahead \in Nat /\ disk.size \in Nat
  BY LoaderAssumption DEF Readable
<1>3. n \in Nat
  BY <1>1, <1>2 DEF ReadSectors, Cut, Least
<1>4. off * disk.sector # Nowhere /\ Nowhere \in Int
  BY <1>2 DEF Nowhere
<1>5. QED
  BY <1>1, <1>2, <1>3, <1>4 DEF RightBuffer

\* What is returned lies in the buffer, off - base sectors behind its begin.
LEMMA ReadBlocksRight ==
  ASSUME Readable, NEW r, RightBuffer(r), NEW off \in Nat, NEW o \in ReadBlocks(r, off, ReadSize)
  PROVE  /\ RightBuffer(o.ra) /\ o.got \in Nat
         /\ o.got > 0 => /\ o.ra.from = o.ra.base * disk.sector /\ o.ra.from # Nowhere
                         /\ o.ra.base <= off
                         /\ (off - o.ra.base) * disk.sector + o.got <= o.ra.size
<1> DEFINE s == disk.sector
<1>1. ReadSize \in Nat \ {0} /\ s \in Nat \ {0} /\ off * s \in Nat
  BY LoaderAssumption DEF Readable
<1>2. CASE Misses(r, off, ReadSize)
  <2>1. PICK q \in Refilled(off) : o = [ra |-> q, got |-> Least(q.size, ReadSize)]
    BY <1>2 DEF ReadBlocks
  <2>2. RightBuffer(q) /\ q.base = off
    BY <2>1, RefilledRight
  <2>3. q.size \in Nat /\ o.ra = q /\ o.got = Least(q.size, ReadSize)
    BY <2>1, <2>2 DEF RightBuffer
  <2>4. o.got \in Nat /\ o.got <= q.size
    BY <1>1, <2>3 DEF Least
  <2>5. ASSUME o.got > 0
        PROVE  /\ q.from = off * s /\ q.from # Nowhere
               /\ (off - off) * s + o.got <= q.size
    <3>1. q.size # 0 /\ (off - off) * s = 0
      BY <1>1, <2>3, <2>4, <2>5
    <3>2. QED
      BY <1>1, <2>2, <2>3, <2>4, <3>1 DEF RightBuffer, Nowhere
  <2>6. QED
    BY <2>2, <2>3, <2>4, <2>5
<1>3. CASE ~Misses(r, off, ReadSize)
  <2>1. o = [ra |-> r, got |-> ReadSize]
    BY <1>3 DEF ReadBlocks
  <2>2. r.base \in Nat /\ r.size \in Nat /\ r.from \in Int /\ r.base * s \in Nat
    BY <1>1 DEF RightBuffer
  <2>3. r.base <= off /\ off * s + ReadSize < r.base * s + r.size
    BY <1>1, <1>3, <2>2 DEF Misses
  <2>4. (off - r.base) * s \in Nat /\ r.base * s + (off - r.base) * s = off * s
    BY <1>1, <2>2, <2>3, Distance
  <2>5. (off - r.base) * s + ReadSize <= r.size /\ r.size # 0
    BY <1>1, <2>2, <2>3, <2>4
  <2>6. r.from = r.base * s /\ r.from # Nowhere
    BY <2>2, <2>5 DEF RightBuffer, Nowhere
  <2>7. QED
    BY <1>1, <2>1, <2>3, <2>5, <2>6
<1>4. QED
  BY <1>2, <1>3

\* Whatever the buffer holds, a block that arrives is the one that was asked for
\* (ext2_read_block).
LEMMA ReadBlockRight ==
  ASSUME Readable, NEW r, RightBuffer(r), NEW b \in Nat, NEW o \in ReadBlock(r, b)
  PROVE  RightBuffer(o.ra) /\ o.block \in {Fail, b}
<1> DEFINE s == disk.sector
           n == b * disk.block
           off == n \div s
           off2 == n % s
<1>1. s \in Nat \ {0} /\ disk.block \in Nat \ {0} /\ disk.blocks \in Nat /\ n \in Nat
  BY DEF Readable
<1>2. off \in Nat /\ off2 \in Nat /\ off * s + off2 = n /\ off * s \in Nat
  <2> HIDE DEF n
  <2>1. off \in Nat /\ off2 \in Nat /\ off * s + off2 = n
    BY <1>1, DivMod
  <2>2. off * s \in Nat
    BY <1>1, <2>1
  <2>3. QED
    BY <2>1, <2>2
<1>3. CASE b = 0 \/ b >= disk.blocks
  BY <1>3 DEF ReadBlock
<1>4. CASE ~(b = 0 \/ b >= disk.blocks)
  <2>1. PICK p \in ReadBlocks(r, off, ReadSize) :
          o = [ra |-> p.ra,
               block |-> IF p.got < off2 + disk.block THEN Fail
                         ELSE Held(p.ra, (off - p.ra.base) * s + off2)]
    BY <1>4 DEF ReadBlock
  <2> HIDE DEF off, off2
  <2>2. /\ RightBuffer(p.ra) /\ p.got \in Nat
        /\ p.got > 0 => /\ p.ra.from = p.ra.base * s /\ p.ra.from # Nowhere
                        /\ p.ra.base <= off
                        /\ (off - p.ra.base) * s + p.got <= p.ra.size
    BY <1>2, ReadBlocksRight
  <2>3. ASSUME ~(p.got < off2 + disk.block)
        PROVE  Held(p.ra, (off - p.ra.base) * s + off2) = b
    <3> DEFINE d == (off - p.ra.base) * s
    <3>1. p.got > 0
      BY <1>1, <1>2, <2>2, <2>3
    <3>2. p.ra.base \in Nat /\ p.ra.size \in Nat
      BY <2>2 DEF RightBuffer
    <3>3. d \in Nat /\ p.ra.base * s \in Nat /\ p.ra.base * s + d = off * s
      BY <1>1, <1>2, <2>2, <3>1, <3>2, Distance
    <3> HIDE DEF d
    <3>4. p.ra.from + (d + off2) = n
      BY <1>2, <2>2, <3>1, <3>3
    <3>5. 0 <= d + off2 /\ (d + off2) + disk.block <= p.ra.size
      <4>1. d + p.got <= p.ra.size
        BY <2>2, <3>1 DEF d
      <4>2. QED
        BY <1>1, <1>2, <2>2, <2>3, <3>2, <3>3, <4>1
    <3>6. n % disk.block = 0 /\ n \div disk.block = b
      BY <1>1, ProductDiv
    <3> HIDE DEF n
    <3>7. Held(p.ra, d + off2) = b
      BY <2>2, <3>1, <3>4, <3>5, <3>6 DEF Held
    <3>8. QED
      BY <3>7 DEF d
  <2>4. QED
    BY <2>1, <2>2, <2>3
<1>5. QED
  BY <1>3, <1>4

(***************************************************************************)
(* The way through the pointer blocks of a file.                           *)
(***************************************************************************)

\* A pointer of any block is a block number.
LEMMA PointerNat ==
  ASSUME Readable, NEW x, NEW i \in 0..Ptrs - 1
  PROVE  Pointer(x, i) \in Nat
<1>1. i + 1 \in 1..Ptrs
  BY LoaderAssumption
<1>2. CASE x \in DOMAIN disk.at
  BY <1>1, <1>2 DEF Readable, Pointer, Content
<1>3. CASE x \notin DOMAIN disk.at
  BY <1>1, <1>3 DEF Pointer, Content, Zeros
<1>4. QED
  BY <1>2, <1>3

\* Reading leaves the copies alone.
LEMMA ReadRight ==
  ASSUME Readable, NEW b \in Nat, NEW o, Right(o, b), o.next # Fail, NEW r \in Read(o)
  PROVE  Right(r, b) /\ r.slot = o.slot
<1>1. o.next = b /\ RightBuffer(o.ra)
  BY DEF Right
<1>2. PICK q \in ReadBlock(o.ra, b) : r = [o EXCEPT !.ra = q.ra, !.next = q.block]
  BY <1>1 DEF Read
<1>3. RightBuffer(q.ra) /\ q.block \in {Fail, b}
  BY <1>1, ReadBlockRight
<1>4. r = [ra |-> q.ra, slot |-> o.slot, next |-> q.block]
  BY <1>2 DEF Right
<1>5. q.ra \in [base : Nat, size : Nat, from : Int] /\ q.block \in Int
  BY <1>3 DEF RightBuffer, Fail
<1>6. QED
  BY <1>3, <1>4, <1>5 DEF Right

\* After ext2_cache_load copy k is that of the block that was asked for, or the
\* read has failed and no copy is noted for a block it does not hold.
LEMMA CopyRight ==
  ASSUME Readable, NEW b \in Nat, NEW o, Right(o, b), o.next # Fail, NEW k \in Slots, NEW r \in Copy(o, k)
  PROVE  Right(r, b) /\ (r.next # Fail => r.slot[k].has = b)
<1>1. o.next = b /\ RightSlots(o.slot)
  BY DEF Right
<1>2. CASE o.slot[k].tag = o.next /\ o.next # 0
  <2>1. r = o
    BY <1>2 DEF Copy
  <2>2. QED
    BY <1>1, <1>2, <2>1 DEF RightSlots
<1>3. CASE ~(o.slot[k].tag = o.next /\ o.next # 0)
  <2>1. PICK q \in Read(o) : r = IF q.next = Fail THEN q ELSE [q EXCEPT !.slot[k] = [tag |-> o.next, has |-> q.next]]
    BY <1>3 DEF Copy
  <2>2. Right(q, b)
    BY ReadRight
  <2>3. CASE q.next = Fail
    BY <2>1, <2>2, <2>3
  <2>4. CASE q.next # Fail
    <3>1. q.next = b /\ q = [ra |-> q.ra, slot |-> q.slot, next |-> q.next]
      BY <2>2, <2>4 DEF Right
    <3>2. r = [ra |-> q.ra, slot |-> [q.slot EXCEPT ![k] = [tag |-> b, has |-> b]], next |-> b]
      BY <1>1, <2>1, <2>4, <3>1
    <3>3. RightSlots([q.slot EXCEPT ![k] = [tag |-> b, has |-> b]])
      BY <2>2 DEF Right, RightSlots
    <3>4. QED
      BY <2>2, <3>2, <3>3 DEF Right, RightSlots
  <2>5. QED
    BY <2>3, <2>4
<1>4. QED
  BY <1>2, <1>3

\* Following a pointer of the copy is following that of the block itself.
LEMMA FollowRight ==
  ASSUME Readable, NEW b \in Nat, NEW S, \A o \in S : Right(o, b),
         NEW k \in Slots, NEW i \in 0..Ptrs - 1, NEW r \in Follow(S, k, i)
  PROVE  Right(r, Pointer(b, i))
<1>1. PICK p \in S : \E o \in (IF p.next = Fail THEN {p} ELSE Copy(p, k)) :
        r = IF o.next = Fail THEN o ELSE [o EXCEPT !.next = Content(o.slot[k].has).ptr[i + 1]]
  BY DEF Follow
<1>2. PICK o \in (IF p.next = Fail THEN {p} ELSE Copy(p, k)) :
        r = IF o.next = Fail THEN o ELSE [o EXCEPT !.next = Content(o.slot[k].has).ptr[i + 1]]
  BY <1>1
<1>3. Right(o, b) /\ (o.next # Fail => o.slot[k].has = b)
  BY <1>2, CopyRight
<1>4. CASE o.next = Fail
  BY <1>2, <1>3, <1>4 DEF Right
<1>5. CASE o.next # Fail
  <2>1. r = [o EXCEPT !.next = Pointer(b, i)]
    BY <1>2, <1>3, <1>5 DEF Pointer
  <2>2. Pointer(b, i) \in Nat
    BY PointerNat
  <2> HIDE DEF Pointer
  <2>3. QED
    BY <1>3, <2>1, <2>2 DEF Right
<1>6. QED
  BY <1>4, <1>5

\* And so the block at the end of the way.
LEMMA FetchRight ==
  ASSUME Readable, NEW b \in Nat, NEW S, \A o \in S : Right(o, b), NEW r \in Fetch(S)
  PROVE  Right(r, b)
<1>1. PICK o \in S : r \in (IF o.next = Fail THEN {o} ELSE Read(o))
  BY DEF Fetch
<1>2. QED
  BY <1>1, ReadRight

\* The index of a pointer in its block.
LEMMA IndexBelow ==
  ASSUME NEW n \in Nat, NEW k \in Nat \ {0}, NEW m \in Nat, n < m * k
  PROVE  n \div k \in 0..m - 1
<1> DEFINE q == n \div k
<1>1. q \in Nat /\ n % k \in Nat /\ q * k + (n % k) = n
  BY DivMod
<1> HIDE DEF q
<1>2. SUFFICES ASSUME q >= m PROVE FALSE
  BY <1>1 DEF q
<1>3. q * k >= m * k
  BY <1>1, <1>2
<1>4. q * k \in Nat /\ m * k \in Nat
  BY <1>1
<1>5. QED
  BY <1>1, <1>3, <1>4

\* A remainder is below its divisor.
LEMMA RemainderBelow ==
  ASSUME NEW n \in Nat, NEW k \in Nat \ {0}
  PROVE  n % k \in 0..k - 1
  OBVIOUS

\* Whichever of the four ways it takes, ext2_file_read_block ends at the block
\* that the pointers on the disk lead to.
LEMMA FileReadBlockRight ==
  ASSUME Readable, RightBuffer(ra), RightSlots(slot), cur.block \in [1..NDirect + 3 -> Nat],
         NEW i \in Nat, NEW o \in FileReadBlock(i)
  PROVE  Right(o, Mapped(i))
<1>1. NDirect \in Nat \ {0} /\ Ptrs \in Nat \ {0} /\ Ptrs * Ptrs \in Nat \ {0}
  BY LoaderAssumption
<1>2. ASSUME NEW b \in Nat, NEW r \in From(b)
      PROVE  Right(r, b)
  BY <1>2 DEF From, Right, RightBuffer, RightSlots
<1>3. \A n \in 1..NDirect + 3 : cur.block[n] \in Nat
  OBVIOUS
<1>4. CASE i < NDirect
  <2>1. o \in Fetch(From(cur.block[i + 1])) /\ Mapped(i) = cur.block[i + 1]
    BY <1>4 DEF FileReadBlock, Mapped
  <2>2. cur.block[i + 1] \in Nat
    BY <1>1, <1>3, <1>4
  <2>3. QED
    BY <1>2, <2>1, <2>2, FetchRight
<1>5. CASE ~(i < NDirect) /\ Single(i) < Ptrs
  <2> DEFINE b == cur.block[NDirect + 1]
  <2>1. o \in Fetch(Follow(From(b), 0, Single(i))) /\ Mapped(i) = Pointer(b, Single(i))
    BY <1>5 DEF FileReadBlock, Mapped
  <2>2. b \in Nat /\ Single(i) \in 0..Ptrs - 1 /\ 0 \in Slots
    BY <1>1, <1>3, <1>5 DEF Single, Slots
  <2> HIDE DEF b
  <2>3. \A r \in Follow(From(b), 0, Single(i)) : Right(r, Pointer(b, Single(i)))
    BY <1>2, <2>2, FollowRight
  <2>4. QED
    BY <2>1, <2>2, <2>3, PointerNat, FetchRight
<1>6. CASE ~(i < NDirect) /\ ~(Single(i) < Ptrs) /\ Double(i) < Ptrs * Ptrs
  <2> DEFINE b == cur.block[NDirect + 2]
             x == Double(i) \div Ptrs
             z == Double(i) % Ptrs
  <2>1. /\ o \in Fetch(Follow(Follow(From(b), 1, x), 2, z))
        /\ Mapped(i) = Pointer(Pointer(b, x), z)
    BY <1>6 DEF FileReadBlock, Mapped
  <2>2. b \in Nat /\ 1 \in Slots /\ 2 \in Slots /\ Double(i) \in Nat
    BY <1>1, <1>3, <1>6 DEF Double, Single, Slots
  <2>3. x \in 0..Ptrs - 1 /\ z \in 0..Ptrs - 1
    <3>1. x \in 0..Ptrs - 1
      BY <1>1, <1>6, <2>2, IndexBelow
    <3>2. z \in 0..Ptrs - 1
      BY <1>1, <2>2, RemainderBelow
    <3>3. QED
      BY <3>1, <3>2
  <2> HIDE DEF b, x, z
  <2>4. \A r \in Follow(From(b), 1, x) : Right(r, Pointer(b, x))
    BY <1>2, <2>2, <2>3, FollowRight
  <2>5. Pointer(b, x) \in Nat /\ Pointer(Pointer(b, x), z) \in Nat
    BY <2>3, PointerNat
  <2>6. \A r \in Follow(Follow(From(b), 1, x), 2, z) : Right(r, Pointer(Pointer(b, x), z))
    BY <2>2, <2>3, <2>4, <2>5, FollowRight
  <2>7. QED
    BY <2>1, <2>5, <2>6, FetchRight
<1>7. CASE /\ ~(i < NDirect) /\ ~(Single(i) < Ptrs) /\ ~(Double(i) < Ptrs * Ptrs)
           /\ Triple(i) < Ptrs * Ptrs * Ptrs
  <2> DEFINE b == cur.block[NDirect + 3]
             x == Triple(i) \div (Ptrs * Ptrs)
             y1 == (Triple(i) \div Ptrs) % Ptrs
             z == Triple(i) % Ptrs
  <2>1. /\ o \in Fetch(Follow(Follow(Follow(From(b), 3, x), 4, y1), 5, z))
        /\ Mapped(i) = Pointer(Pointer(Pointer(b, x), y1), z)
    BY <1>7 DEF FileReadBlock, Mapped
  <2>2. b \in Nat /\ 3 \in Slots /\ 4 \in Slots /\ 5 \in Slots /\ Triple(i) \in Nat
    BY <1>1, <1>3, <1>7 DEF Triple, Double, Single, Slots
  <2>3. x \in 0..Ptrs - 1
    <3>1. Ptrs * (Ptrs * Ptrs) = Ptrs * Ptrs * Ptrs
      BY <1>1
    <3>2. QED
      BY <1>1, <1>7, <2>2, <3>1, IndexBelow
  <2>4. y1 \in 0..Ptrs - 1 /\ z \in 0..Ptrs - 1
    <3>1. Triple(i) \div Ptrs \in Nat
      BY <1>1, <2>2, DivMod
    <3>2. QED
      BY <1>1, <2>2, <3>1, RemainderBelow
  <2> HIDE DEF b, x, y1, z
  <2>5. \A r \in Follow(From(b), 3, x) : Right(r, Pointer(b, x))
    BY <1>2, <2>2, <2>3, FollowRight
  <2>6. /\ Pointer(b, x) \in Nat /\ Pointer(Pointer(b, x), y1) \in Nat
        /\ Pointer(Pointer(Pointer(b, x), y1), z) \in Nat
    BY <2>3, <2>4, PointerNat
  <2>7. \A r \in Follow(Follow(From(b), 3, x), 4, y1) : Right(r, Pointer(Pointer(b, x), y1))
    BY <2>2, <2>4, <2>5, <2>6, FollowRight
  <2>8. \A r \in Follow(Follow(Follow(From(b), 3, x), 4, y1), 5, z) :
          Right(r, Pointer(Pointer(Pointer(b, x), y1), z))
    BY <2>2, <2>4, <2>6, <2>7, FollowRight
  <2>9. QED
    BY <2>1, <2>6, <2>8, FetchRight
<1>8. CASE /\ ~(i < NDirect) /\ ~(Single(i) < Ptrs) /\ ~(Double(i) < Ptrs * Ptrs)
           /\ ~(Triple(i) < Ptrs * Ptrs * Ptrs)
  <2>1. o = [ra |-> ra, slot |-> slot, next |-> Fail]
    BY <1>8 DEF FileReadBlock, From
  <2>2. QED
    BY <2>1 DEF Right, RightBuffer, RightSlots, Fail
<1>9. QED
  BY <1>4, <1>5, <1>6, <1>7, <1>8

(***************************************************************************)
(* The loader.                                                             *)
(***************************************************************************)

ReadInv ==
  /\ devices \in DevicesOf
  /\ pc \notin {"device", "off"} => SoundDisk(disk)
  /\ pc = "device" => ra = ClearedRA /\ slot = ClearedSlots
  /\ RightBuffer(ra) /\ RightSlots(slot)
  /\ gdt \in Seq(Int) /\ img \in Seq(Int)
  /\ cur.kind # "none" => cur.block \in [1..NDirect + 3 -> Nat]
  /\ pc = "image" => cur.kind # "none"
  /\ CachesTransparent

\* A sound disk can be read.
LEMMA SoundReadable == SoundDisk(disk) => Readable
  BY DEF SoundDisk, Readable

\* Nothing is in the caches of a loader that has just begun.
LEMMA ClearedRight == RightBuffer(ClearedRA) /\ RightSlots(ClearedSlots)
  BY DEF RightBuffer, RightSlots, ClearedRA, ClearedSlots, Nowhere

\* Whichever inode is loaded, the buffer stays right and the inode is one of the disk.
LEMMA LoadInodeRight ==
  ASSUME SoundDisk(disk), RightBuffer(ra), NEW ino \in Nat, NEW o \in LoadInode(ino)
  PROVE  /\ RightBuffer(o.ra)
         /\ o.inode.kind # "none" => o.inode.block \in [1..NDirect + 3 -> Nat]
<1> DEFINE group == (ino - 1) \div disk.inodesPerGroup
           index == (ino - 1) % disk.inodesPerGroup
           i == (index % disk.inodesPerBlock) + 1
           b == InodeTable(group) + (index \div disk.inodesPerBlock)
<1>1. NoInode.kind = "none"
  BY DEF NoInode
<1>2. CASE group >= Groups
  <2>1. o = [ra |-> ra, inode |-> NoInode]
    BY <1>2 DEF LoadInode
  <2>2. QED
    BY <1>1, <2>1
<1>3. CASE ~(group >= Groups)
  <2>1. PICK q \in ReadBlock(ra, b) :
          o = [ra |-> q.ra, inode |-> IF q.block = Fail THEN NoInode ELSE Nth(Content(q.block).inodes, i, NoInode)]
    BY <1>3 DEF LoadInode
  <2>2. b \in Nat
    <3>1. disk.inodesPerGroup \in Nat \ {0} /\ disk.inodesPerBlock \in Nat \ {0} /\ ino - 1 \in Int
      BY DEF SoundDisk
    <3>2. index \in Nat
      BY <3>1
    <3> HIDE DEF index
    <3>3. index \div disk.inodesPerBlock \in Nat
      BY <3>1, <3>2, DivMod
    <3>4. ASSUME NEW x, NEW n PROVE Nth(Content(x).desc, n, 0) \in Nat
      <4>1. Content(x).desc \in Seq(Nat)
        BY DEF Content, Zeros, SoundDisk
      <4>2. QED
        BY <4>1 DEF Nth
    <3>5. InodeTable(group) \in Nat
      BY <3>4 DEF InodeTable
    <3>6. QED
      BY <3>3, <3>5
  <2>3. RightBuffer(q.ra)
    BY <2>2, SoundReadable, ReadBlockRight
  <2>4. ASSUME NEW x, NEW n, Nth(Content(x).inodes, n, NoInode).kind # "none"
        PROVE  Nth(Content(x).inodes, n, NoInode).block \in [1..NDirect + 3 -> Nat]
    <3>1. n \in DOMAIN Content(x).inodes
      BY <1>1, <2>4 DEF Nth
    <3>2. x \in DOMAIN disk.at
      BY <3>1 DEF Content, Zeros
    <3>3. QED
      BY <3>1, <3>2 DEF Nth, Content, SoundDisk
  <2>5. QED
    BY <1>1, <2>1, <2>3, <2>4
<1>4. QED
  BY <1>2, <1>3

\* Steps that read nothing.
LEMMA ReadFrame ==
  ASSUME ReadInv, UNCHANGED <<readerVars, devices, gdt, img>>, pc' # "device",
         pc' # "off" => pc \notin {"device", "off"},
         pc' = "image" => pc = "image"
  PROVE  ReadInv'
  BY DEF ReadInv, readerVars, CachesTransparent, Mapped, Pointer, Content, RightBuffer

\* The partition is found, and its groups.
LEMMA FindKeeps ==
  ASSUME ReadInv, BlockInit \/ LoadSuper \/ LoadGroups
  PROVE  ReadInv'
<1>1. CASE BlockInit
  <2>1. pc = "device" /\ pc' \in {"off", "super"} /\ UNCHANGED <<ra, slot, cur, devices, gdt, img>>
    BY <1>1 DEF BlockInit, GoTo, bootVars
  <2>2. pc' = "super" => SoundDisk(disk')
    BY <1>1, LoaderAssumption DEF BlockInit, GoTo, ReadInv
  <2>3. RightBuffer(ra)' /\ RightSlots(slot)'
    BY <2>1 DEF ReadInv, RightBuffer, RightSlots, ClearedRA, ClearedSlots, Nowhere
  <2>4. QED
    BY <2>1, <2>2, <2>3 DEF ReadInv, SoundDisk, CachesTransparent
<1>2. CASE LoadSuper
  BY <1>2, ReadFrame DEF LoadSuper, GoTo, bootVars
<1>3. CASE LoadGroups
  <2>1. pc = "groups" /\ UNCHANGED <<disk, slot, cur, devices, img>> /\ pc' \in {"root", "off", "groups"}
    BY <1>3 DEF LoadGroups, StartPath
  <2>2. RightBuffer(ra') /\ gdt' \in Seq(Int)
    <3>1. CASE UNCHANGED <<ra, gdt>>
      BY <3>1 DEF ReadInv
    <3>2. ASSUME NEW o \in ReadBlock(ra, StartBlock + Len(gdt)), ra' = o.ra,
                 UNCHANGED gdt \/ gdt' = Append(gdt, o.block)
          PROVE  RightBuffer(ra') /\ gdt' \in Seq(Int)
      <4>1. StartBlock + Len(gdt) \in Nat
        BY DEF ReadInv, StartBlock
      <4>2. RightBuffer(o.ra) /\ o.block \in Int
        BY <2>1, <4>1, SoundReadable, ReadBlockRight DEF ReadInv, Fail
      <4>3. gdt \in Seq(Int) /\ Append(gdt, o.block) \in Seq(Int)
        BY <4>2 DEF ReadInv
      <4>4. QED
        BY <3>2, <4>2, <4>3
    <3>3. QED
      BY <1>3, <3>1, <3>2 DEF LoadGroups
  <2>3. QED
    BY <2>1, <2>2 DEF ReadInv, RightBuffer, CachesTransparent
<1>4. QED
  BY <1>1, <1>2, <1>3

\* ext2_load_path: the inodes of the path, and the blocks of what they are of.
LEMMA LoadKeeps ==
  ASSUME ReadInv, LoadRoot \/ StartImage \/ ImageBlock \/ SearchDir \/ Loaded
  PROVE  ReadInv'
<1>1. CASE LoadRoot
  <2>1. pc = "root" /\ UNCHANGED <<disk, slot, devices, gdt, img>> /\ pc' \in {"path", "off"}
    BY <1>1 DEF LoadRoot, bootVars
  <2>2. PICK o \in LoadInode(2) : ra' = o.ra /\ cur' = o.inode
    BY <1>1 DEF LoadRoot
  <2>3. /\ RightBuffer(o.ra)
        /\ o.inode.kind # "none" => o.inode.block \in [1..NDirect + 3 -> Nat]
    BY <2>1, LoadInodeRight DEF ReadInv
  <2>4. QED
    BY <2>1, <2>2, <2>3 DEF ReadInv, RightBuffer, CachesTransparent
<1>2. CASE StartImage
  <2>1. /\ pc = "path" /\ UNCHANGED <<readerVars, devices, gdt>> /\ img' = <<>>
        /\ pc' = "off" \/ (pc' = "image" /\ cur.kind \in {"file", "dir"})
    BY <1>2 DEF StartImage, GoTo
  <2>2. QED
    BY <2>1 DEF ReadInv, readerVars, RightBuffer, CachesTransparent
<1>3. CASE ImageBlock
  <2>1. pc = "image" /\ UNCHANGED <<disk, cur, devices, gdt>> /\ pc' \in {"image", "off"}
    BY <1>3 DEF ImageBlock
  <2>2. PICK o \in FileReadBlock(Len(img)) :
          /\ ra' = o.ra /\ slot' = o.slot
          /\ IF o.next = Fail THEN pc' = "off" /\ UNCHANGED img
                              ELSE UNCHANGED pc /\ img' = Append(img, o.next)
    BY <1>3 DEF ImageBlock
  <2>3. Right(o, Mapped(Len(img)))
    BY <2>1, SoundReadable, FileReadBlockRight DEF ReadInv
  <2>4. RightBuffer(o.ra) /\ RightSlots(o.slot) /\ o.next \in Int /\ o.next \in {Fail, Mapped(Len(img))}
    BY <2>3 DEF Right
  <2>5. \A i : Mapped(i)' = Mapped(i)
    BY <2>1 DEF Mapped, Pointer, Content
  <2>6. CASE o.next = Fail
    BY <2>1, <2>2, <2>4, <2>6 DEF ReadInv, RightBuffer, RightSlots, CachesTransparent
  <2>7. CASE o.next # Fail
    <3>1. img \in Seq(Int) /\ img' = Append(img, Mapped(Len(img))) /\ img' \in Seq(Int)
      <4>1. img \in Seq(Int) /\ Mapped(Len(img)) = o.next /\ o.next \in Int
        BY <2>4, <2>7 DEF ReadInv
      <4>2. Append(img, o.next) \in Seq(Int)
        BY <4>1
      <4>3. QED
        BY <2>2, <2>7, <4>1, <4>2
    <3>2. \A i \in DOMAIN img' : img'[i] = Mapped(i - 1)
      BY <2>1, <3>1 DEF ReadInv, CachesTransparent
    <3>3. CachesTransparent'
      BY <2>5, <3>2 DEF CachesTransparent
    <3>4. RightBuffer(ra)' /\ RightSlots(slot)'
      BY <2>1, <2>2, <2>4 DEF RightBuffer, RightSlots
    <3>5. QED
      BY <2>1, <3>1, <3>3, <3>4 DEF ReadInv, SoundDisk
  <2>8. QED
    BY <2>6, <2>7
<1>4. CASE SearchDir
  <2>1. pc = "image" /\ UNCHANGED <<disk, slot, devices, gdt, img>> /\ pc' \in {"path", "off"}
    BY <1>4 DEF SearchDir, ImageRead
  <2>2. CASE UNCHANGED <<ra, cur>>
    BY <2>1, <2>2 DEF ReadInv, RightBuffer, CachesTransparent
  <2>3. ASSUME NEW i \in DOMAIN img, NEW j \in DOMAIN Content(img[i]).entries,
               NEW o \in LoadInode(Content(img[i]).entries[j].inode), ra' = o.ra, cur' = o.inode
        PROVE  ReadInv'
    <3>1. Content(img[i]).entries[j].inode \in Nat
      BY <2>1 DEF ReadInv, Content, Zeros, SoundDisk
    <3>2. /\ RightBuffer(o.ra)
          /\ o.inode.kind # "none" => o.inode.block \in [1..NDirect + 3 -> Nat]
      BY <2>1, <3>1, LoadInodeRight DEF ReadInv
    <3>3. QED
      BY <2>1, <2>3, <3>2 DEF ReadInv, RightBuffer, CachesTransparent
  <2>4. ASSUME NEW p \in UNION {{i} \X DOMAIN Content(img[i]).entries : i \in DOMAIN img},
               \E o \in LoadInode(Content(img[p[1]]).entries[p[2]].inode) : ra' = o.ra /\ cur' = o.inode
        PROVE  ReadInv'
    <3>1. p[1] \in DOMAIN img /\ p[2] \in DOMAIN Content(img[p[1]]).entries
      OBVIOUS
    <3>2. QED
      BY <2>3, <2>4, <3>1
  <2>5. \/ UNCHANGED <<ra, cur>>
        \/ \E p \in UNION {{i} \X DOMAIN Content(img[i]).entries : i \in DOMAIN img} :
             \E o \in LoadInode(Content(img[p[1]]).entries[p[2]].inode) : ra' = o.ra /\ cur' = o.inode
    BY <1>4, Zenon DEF SearchDir
  <2>6. QED
    BY <2>2, <2>4, <2>5
<1>5. CASE Loaded
  <2>1. pc = "image" /\ pc' \in {"menu", "lines"} /\ UNCHANGED <<readerVars, devices, gdt, img>>
    BY <1>5 DEF Loaded, ImageRead
  <2>2. QED
    BY <2>1, ReadFrame
<1>6. QED
  BY <1>1, <1>2, <1>3, <1>4, <1>5

\* The menu, the lines of an entry, the parameters and the memory map read no block.
LEMMA MenuKeeps ==
  ASSUME ReadInv, Move \/ Enter \/ ReadLine \/ EndOfConfig \/ BootParams \/ GetMemMap \/ FillE820
  PROVE  ReadInv'
<1>1. /\ UNCHANGED <<readerVars, devices, gdt, img>>
      /\ pc \notin {"device", "off", "image"}
      /\ pc' \in {"menu", "off", "lines", "root", "params", "map", "e820", "kernel"}
  BY DEF Move, Enter, ReadLine, EndOfConfig, BootParams, GetMemMap, FillE820, GoTo, StartPath, bootVars
<1>2. QED
  BY <1>1, ReadFrame

\* Every step of the machine keeps the caches right.
LEMMA ReadStep == ReadInv /\ [BootNext]_allVars => ReadInv'
<1> SUFFICES ASSUME ReadInv, [BootNext]_allVars PROVE ReadInv'
  OBVIOUS
<1>1. CASE UNCHANGED loaderVars
  BY <1>1 DEF loaderVars, bootVars, readerVars, ReadInv, CachesTransparent, Mapped, Pointer, Content, RightBuffer
<1>2. CASE Loading(LoaderNext)
  BY <1>2, FindKeeps, LoadKeeps, MenuKeeps DEF Loading, LoaderNext, LoaderStep
<1>3. ASSUME Forget, pc' = "left", UNCHANGED disk, pc \notin {"device", "off"}
      PROVE  ReadInv'
  BY <1>3, ClearedRight DEF Forget, ReadInv, NoInode, RightBuffer, RightSlots, CachesTransparent
<1>4. CASE KernelStarts
  BY <1>3, <1>4 DEF KernelStarts, GoTo
<1>5. CASE PowerOn
  <2>1. Forget /\ pc' = "device"
    BY <1>5 DEF PowerOn, Restart
  <2>2. RightBuffer(ClearedRA)' /\ RightSlots(ClearedSlots)'
    BY ClearedRight DEF RightBuffer, RightSlots, ClearedRA, ClearedSlots, Nowhere
  <2>3. QED
    BY <2>1, <2>2 DEF Forget, ReadInv, NoInode, RightBuffer, RightSlots, CachesTransparent
<1>6. CASE UNCHANGED allVars
  BY <1>1, <1>6 DEF allVars
<1>7. QED
  BY <1>1, <1>2, <1>4, <1>5, <1>6 DEF BootNext

\* Through the read-ahead buffer and the six copies, whatever files were read
\* before and whichever reads failed, the blocks of a file arrive as the disk
\* has them (ext2_load.c: ext2_read_block, ext2_cache_load, ext2_file_read_block).
THEOREM CachesCorrect == BootSpec => []CachesTransparent
<1>1. BootInit => ReadInv
  <2> SUFFICES ASSUME BootInit PROVE ReadInv
    OBVIOUS
  <2>1. /\ pc = "device" /\ devices \in DevicesOf /\ ra = ClearedRA /\ slot = ClearedSlots
        /\ cur = NoInode /\ gdt = <<>> /\ img = <<>>
    BY DEF BootInit, LoaderInit, PowerOnAt
  <2>2. QED
    BY <2>1, ClearedRight DEF ReadInv, NoInode, CachesTransparent
<1>2. ReadInv => CachesTransparent
  BY DEF ReadInv
<1>3. QED
  BY <1>1, <1>2, ReadStep, PTL DEF BootSpec

(***************************************************************************)
(* The memory map.                                                         *)
(***************************************************************************)
MapEntries == [at : Nat, pages : Nat, type : Nat]

\* The table t says of the first n entries of the map m what MapRight asks for.
Says(t, m, n) ==
  /\ \A i \in 1..n : \A p \in Pages(m[i]) :
       \E j \in DOMAIN t : p \in Pages(t[j]) /\ t[j].type = E820Type(m[i].type)
  /\ \A j \in DOMAIN t : \A p \in Pages(t[j]) : \E i \in 1..n : p \in Pages(m[i])
  /\ \A j \in 1 .. Len(t) - 1 : t[j].at + t[j].pages = t[j + 1].at => t[j].type # t[j + 1].type

MapInv ==
  /\ memmap \in Seq(MapEntries) /\ table \in Seq(MapEntries)
  /\ pc = "e820" => x1 \in 0..Len(memmap) /\ Says(table, memmap, x1)
  /\ pc = "kernel" => Says(table, memmap, Len(memmap))

\* An entry that is made longer by the one behind it.
LEMMA Longer ==
  ASSUME NEW l \in MapEntries, NEW d \in MapEntries, l.at + l.pages = d.at
  PROVE  LET e == [l EXCEPT !.pages = @ + d.pages]
         IN  e \in MapEntries /\ e.at = l.at /\ e.type = l.type /\ Pages(e) = Pages(l) \cup Pages(d)
<1> DEFINE e == [l EXCEPT !.pages = @ + d.pages]
<1>1. l.at \in Nat /\ l.pages \in Nat /\ d.at \in Nat /\ d.pages \in Nat /\ l.type \in Nat
  BY DEF MapEntries
<1>2. e = [at |-> l.at, pages |-> l.pages + d.pages, type |-> l.type]
  BY DEF MapEntries
<1>3. e.at = l.at /\ e.type = l.type /\ e.pages = l.pages + d.pages
  BY <1>2
<1>4. e \in MapEntries
  BY <1>1, <1>2 DEF MapEntries
<1> HIDE DEF e
<1>5. l.at..l.at + (l.pages + d.pages) - 1 = (l.at..l.at + l.pages - 1) \cup (d.at..d.at + d.pages - 1)
  BY <1>1
<1>6. Pages(e) = Pages(l) \cup Pages(d)
  BY <1>3, <1>5 DEF Pages
<1>7. QED
  BY <1>3, <1>4, <1>6 DEF e

\* One turn of the loop: the pages of the next entry are added, to the last
\* entry of the table or behind it.
LEMMA AddEntrySays ==
  ASSUME NEW t \in Seq(MapEntries), NEW m \in Seq(MapEntries), NEW n \in 0..Len(m) - 1, Says(t, m, n)
  PROVE  /\ AddEntry(t, m[n + 1]) \in Seq(MapEntries)
         /\ Says(AddEntry(t, m[n + 1]), m, n + 1)
<1> DEFINE d == m[n + 1]
           u == AddEntry(t, d)
           k == Len(t)
           type == E820Type(d.type)
<1>1. /\ d \in MapEntries /\ n \in Nat /\ k \in Nat /\ Len(t) = k /\ DOMAIN t = 1..k
      /\ \A j \in 1..k : t[j] \in MapEntries
  OBVIOUS
<1>2. type \in Nat
  BY DEF E820Type
<1> HIDE DEF d, type, k
<1>3. CASE t # <<>> /\ t[k].at + t[k].pages = d.at /\ t[k].type = type
  <2>1. k \in 1..k
    BY <1>1, <1>3
  <2> DEFINE l == t[k]
             e == [l EXCEPT !.pages = @ + d.pages]
  <2>2. u = [t EXCEPT ![k] = e]
    BY <1>1, <1>3 DEF AddEntry, Last, type
  <2>3. l \in MapEntries /\ l.at + l.pages = d.at /\ l.type = type
    BY <1>1, <1>3, <2>1
  <2> HIDE DEF l
  <2>4. e \in MapEntries /\ e.at = l.at /\ e.type = l.type /\ Pages(e) = Pages(l) \cup Pages(d)
    BY <1>1, <2>3, Longer
  <2>5. e.at = l.at /\ e.type = l.type /\ e.type = type
    BY <2>3, <2>4
  <2> HIDE DEF e, u
  <2>6. u \in Seq(MapEntries) /\ Len(u) = k /\ DOMAIN u = 1..k /\ u[k] = e /\ \A j \in 1..k : j # k => u[j] = t[j]
    BY <1>1, <2>1, <2>2, <2>4
  <2>7. ASSUME NEW i \in 1..n + 1, NEW p \in Pages(m[i])
        PROVE  \E j \in DOMAIN u : p \in Pages(u[j]) /\ u[j].type = E820Type(m[i].type)
    <3>1. CASE i = n + 1
      BY <2>1, <2>4, <2>5, <2>6, <2>7, <3>1 DEF d, type
    <3>2. CASE i # n + 1
      <4>1. i \in 1..n
        BY <1>1, <3>2
      <4>2. PICK j \in 1..k : p \in Pages(t[j]) /\ t[j].type = E820Type(m[i].type)
        BY <1>1, <2>7, <4>1 DEF Says
      <4>3. p \in Pages(u[j]) /\ u[j].type = E820Type(m[i].type)
        BY <2>4, <2>5, <2>6, <4>2 DEF l
      <4>4. QED
        BY <2>6, <4>3
    <3>3. QED
      BY <3>1, <3>2
  <2>8. ASSUME NEW j \in DOMAIN u, NEW p \in Pages(u[j])
        PROVE  \E i \in 1..n + 1 : p \in Pages(m[i])
    <3>1. p \in Pages(t[j]) \/ p \in Pages(d)
      BY <2>4, <2>6, <2>8 DEF l
    <3>2. CASE p \in Pages(d)
      BY <1>1, <3>2 DEF d
    <3>3. CASE p \in Pages(t[j])
      <4>1. PICK i \in 1..n : p \in Pages(m[i])
        BY <1>1, <2>6, <3>3 DEF Says
      <4>2. QED
        BY <1>1, <4>1
    <3>4. QED
      BY <3>1, <3>2, <3>3
  <2>9. ASSUME NEW j \in 1..Len(u) - 1, u[j].at + u[j].pages = u[j + 1].at
        PROVE  u[j].type # u[j + 1].type
    <3>1. j \in 1..Len(t) - 1 /\ j \in 1..k /\ j # k /\ j + 1 \in 1..k
      <4>1. j \in 1..k - 1
        BY <2>6
      <4>2. QED
        BY <1>1, <4>1
    <3>2. u[j] = t[j] /\ u[j + 1].at = t[j + 1].at /\ u[j + 1].type = t[j + 1].type
      BY <2>5, <2>6, <3>1 DEF l
    <3>3. QED
      BY <2>9, <3>1, <3>2 DEF Says
  <2>10. QED
    BY <2>6, <2>7, <2>8, <2>9 DEF Says, u, d
<1>4. CASE ~(t # <<>> /\ t[k].at + t[k].pages = d.at /\ t[k].type = type)
  <2> DEFINE e == [at |-> d.at, pages |-> d.pages, type |-> type]
  <2>1. u = Append(t, e)
    BY <1>1, <1>4 DEF AddEntry, Last, type
  <2>2. e \in MapEntries /\ e.type = type /\ e.at = d.at
    BY <1>1, <1>2 DEF MapEntries
  <2>3. Pages(e) = Pages(d)
    BY DEF Pages
  <2> HIDE DEF e, u
  <2>4. u \in Seq(MapEntries) /\ Len(u) = k + 1 /\ DOMAIN u = 1..k + 1 /\ u[k + 1] = e /\ \A j \in 1..k : u[j] = t[j]
    BY <1>1, <2>1, <2>2
  <2>5. ASSUME NEW i \in 1..n + 1, NEW p \in Pages(m[i])
        PROVE  \E j \in DOMAIN u : p \in Pages(u[j]) /\ u[j].type = E820Type(m[i].type)
    <3>1. CASE i = n + 1
      <4>1. p \in Pages(u[k + 1]) /\ u[k + 1].type = E820Type(m[i].type)
        BY <2>2, <2>3, <2>4, <2>5, <3>1 DEF d, type
      <4>2. QED
        BY <1>1, <2>4, <4>1
    <3>2. CASE i # n + 1
      <4>1. i \in 1..n
        BY <1>1, <3>2
      <4>2. PICK j \in 1..k : p \in Pages(t[j]) /\ t[j].type = E820Type(m[i].type)
        BY <1>1, <2>5, <4>1 DEF Says
      <4>3. j \in 1..k + 1
        BY <1>1
      <4>4. QED
        BY <2>4, <4>2, <4>3
    <3>3. QED
      BY <3>1, <3>2
  <2>6. ASSUME NEW j \in DOMAIN u, NEW p \in Pages(u[j])
        PROVE  \E i \in 1..n + 1 : p \in Pages(m[i])
    <3>1. CASE j = k + 1
      BY <1>1, <2>3, <2>4, <2>6, <3>1 DEF d
    <3>2. CASE j # k + 1
      <4>1. j \in 1..k
        BY <1>1, <2>4, <3>2
      <4>2. PICK i \in 1..n : p \in Pages(m[i])
        BY <1>1, <2>4, <2>6, <4>1 DEF Says
      <4>3. QED
        BY <1>1, <4>2
    <3>3. QED
      BY <3>1, <3>2
  <2>7. ASSUME NEW j \in 1..Len(u) - 1, u[j].at + u[j].pages = u[j + 1].at
        PROVE  u[j].type # u[j + 1].type
    <3>1. CASE j = k
      <4>1. t # <<>> /\ u[j] = t[k] /\ u[j + 1] = e
        BY <1>1, <2>4, <3>1
      <4>2. QED
        BY <1>4, <2>2, <2>7, <4>1
    <3>2. CASE j # k
      <4>1. j \in 1..Len(t) - 1 /\ j \in 1..k /\ j + 1 \in 1..k
        <5>1. j \in 1..k
          BY <1>1, <2>4
        <5>2. QED
          BY <1>1, <3>2, <5>1
      <4>2. QED
        BY <2>4, <2>7, <4>1 DEF Says
    <3>3. QED
      BY <3>1, <3>2
  <2>8. QED
    BY <2>4, <2>5, <2>6, <2>7 DEF Says, u, d
<1>5. QED
  BY <1>3, <1>4

\* Only fill_e820 touches the memory map.
LEMMA MapStep == MapInv /\ [BootNext]_allVars => MapInv'
<1> SUFFICES ASSUME MapInv, [BootNext]_allVars PROVE MapInv'
  OBVIOUS
<1>1. ASSUME UNCHANGED <<memmap, x1, table>>, pc' = pc \/ pc' \notin {"e820", "kernel"}
      PROVE  MapInv'
  BY <1>1 DEF MapInv, Says
<1>2. CASE UNCHANGED loaderVars
  BY <1>1, <1>2 DEF loaderVars, bootVars
<1>3. CASE Loading(LoaderNext) /\ ~GetMemMap /\ ~FillE820
  <2>1. UNCHANGED <<memmap, x1, table>> /\ (pc' = pc \/ pc' \notin {"e820", "kernel"})
    BY <1>3 DEF Loading, LoaderNext, LoaderStep, BlockInit, LoadSuper, LoadGroups, LoadRoot, StartImage,
                ImageBlock, SearchDir, Loaded, Move, Enter, ReadLine, EndOfConfig, BootParams, GoTo,
                StartPath, bootVars
  <2>2. QED
    BY <1>1, <2>1
<1>4. CASE GetMemMap
  <2>1. CASE GoTo("map", "off") /\ UNCHANGED <<memmap, x1, table>>
    BY <1>1, <2>1 DEF GoTo
  <2>2. CASE GoTo("map", "e820") /\ memmap' \in MemMaps /\ x1' = 0 /\ table' = <<>>
    BY <2>2, LoaderAssumption DEF GoTo, MapInv, Says, MapEntries
  <2>3. QED
    BY <1>4, <2>1, <2>2 DEF GetMemMap
<1>5. CASE FillE820
  <2>1. CASE pc = "e820" /\ x1 < Len(memmap) /\ pc' = pc /\ memmap' = memmap
             /\ x1' = x1 + 1 /\ table' = AddEntry(table, memmap[x1 + 1])
    <3>1. /\ memmap \in Seq(MapEntries) /\ table \in Seq(MapEntries) /\ Len(memmap) \in Nat
          /\ x1 \in 0..Len(memmap) - 1 /\ Says(table, memmap, x1)
      BY <2>1 DEF MapInv
    <3>2. table' \in Seq(MapEntries) /\ Says(table', memmap, x1 + 1)
      BY <2>1, <3>1, AddEntrySays
    <3>3. x1 + 1 \in 0..Len(memmap)
      BY <3>1
    <3>4. QED
      BY <2>1, <3>1, <3>2, <3>3 DEF MapInv, Says
  <2>2. CASE pc = "e820" /\ x1 = Len(memmap) /\ pc' \in {"kernel", "off"} /\ UNCHANGED <<memmap, x1, table>>
    BY <2>2 DEF MapInv, Says
  <2>3. QED
    BY <1>5, <2>1, <2>2 DEF FillE820, GoTo
<1>6. CASE KernelStarts \/ PowerOn
  <2>1. pc' \in {"left", "device"} /\ memmap' = <<>> /\ table' = <<>>
    BY <1>6 DEF KernelStarts, PowerOn, Restart, GoTo, Forget
  <2>2. QED
    BY <2>1 DEF MapInv
<1>7. CASE UNCHANGED allVars
  BY <1>2, <1>7 DEF allVars
<1>8. QED
  BY <1>2, <1>3, <1>4, <1>5, <1>6, <1>7 DEF BootNext

\* However the firmware cuts memory into entries, the table that the kernel gets
\* says the same of every page, and none of its neighbours could be one entry
\* (do_boot.c: fill_e820).
THEOREM MapRightCorrect == BootSpec => []MapRight
<1>1. BootInit => MapInv
  BY DEF BootInit, LoaderInit, PowerOnAt, MapInv
<1>2. MapInv => MapRight
  <2> SUFFICES ASSUME MapInv, pc = "kernel" PROVE MapRight
    BY DEF MapRight
  <2>1. DOMAIN memmap = 1..Len(memmap) /\ Says(table, memmap, Len(memmap))
    BY DEF MapInv
  <2>2. QED
    BY <2>1 DEF Says, MapRight
<1>3. QED
  BY <1>1, <1>2, MapStep, PTL DEF BootSpec
=============================================================================
