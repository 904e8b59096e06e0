----------------------------- MODULE Ext2Reader -----------------------------
(***************************************************************************)
(* How the boot loader reads the blocks of an ext2 partition               *)
(* (boot/block.c, boot/ext2_load.c): through a read-ahead buffer of        *)
(* sectors, and for the blocks of a file through six copies of blocks of   *)
(* pointers, one for each place in the tree of a file.                     *)
(*                                                                         *)
(* A partition is a record: the units of a sector, of a block and of the   *)
(* whole (a unit is 512 bytes), the numbers of the superblock the loader   *)
(* uses, and what its blocks contain.  A block that was read is modelled   *)
(* by the number of the block whose bytes arrived.                         *)
(*                                                                         *)
(* Every call of the firmware may fail, so a function of the code is the   *)
(* set of its outcomes: records with the new ra (and slot) and the result. *)
(***************************************************************************)
EXTENDS Integers, Sequences

CONSTANTS
  NDirect,    \* the direct pointers of an inode [12]
  Ptrs,       \* the pointers in a block [1 << block_size+8]
  Ahead,      \* the units of the read-ahead buffer [512: 262144 bytes]
  ReadSize    \* the units of one read [8: 4096 bytes]

VARIABLES
  disk,       \* bio with its media and ext2_sb
  ra,         \* ext2_cache2: base (a sector), size, and the unit it was filled from
  slot,       \* ext2_cache and ext2_cache_block: tag, and the block that was copied
  cur         \* ext2_inode_current

readerVars == <<disk, ra, slot, cur>>

Fail == -1     \* a null pointer was returned
Torn == -2     \* bytes that are not a block of the disk
Nowhere == -1  \* the buffer was never filled, or a failed read left anything in it

Slots == 0..5
NoInode == [kind |-> "none", size |-> 0, block |-> <<>>]
ClearedRA == [base |-> 0, size |-> 0, from |-> Nowhere]
ClearedSlots == [k \in Slots |-> [tag |-> 0, has |-> 0]]

Nth(s, i, default) == IF i \in DOMAIN s THEN s[i] ELSE default
Least(a, b) == IF a < b THEN a ELSE b

\* The bytes of the blocks.  Block 0 of a file is a hole: ext2_read_block
\* makes it of zeros, as the copies are at first.
Zeros == [desc |-> <<>>, inodes |-> <<>>, ptr |-> [i \in 1..Ptrs |-> 0], entries |-> <<>>, lines |-> <<>>, setup |-> FALSE]
Content(b) == IF b \in DOMAIN disk.at THEN disk.at[b] ELSE Zeros

-----------------------------------------------------------------------------
(* boot/block.c                                                            *)

\* read_blocks: a read is cut at the end of the device; 0 if it fails.
Cut(start, size) == Least(size, disk.size - start * disk.sector)
ReadSectors(start, size) ==
  IF start * disk.sector >= disk.size THEN {0} ELSE {0, Cut(start, size)}

-----------------------------------------------------------------------------
(* ext2_read_blocks                                                        *)

\* The buffer r does not hold size units from sector off.
Misses(r, off, size) ==
  \/ off < r.base
  \/ off * disk.sector + size >= r.base * disk.sector + r.size

\* The buffer after a read from sector off: its base and its size are set even
\* if the read fails, and it holds anything then.
Refilled(off) ==
  {[base |-> off, size |-> n, from |-> IF n = 0 THEN Nowhere ELSE off * disk.sector] :
     n \in ReadSectors(off, Ahead)}

\* The buffer, and how many units were returned.
ReadBlocks(r, off, size) ==
  IF Misses(r, off, size)
  THEN {[ra |-> q, got |-> Least(q.size, size)] : q \in Refilled(off)}
  ELSE {[ra |-> r, got |-> size]}

-----------------------------------------------------------------------------
(* ext2_read_block                                                         *)

\* The block whose bytes are at unit pos of the buffer r.
Held(r, pos) ==
  IF /\ r.from # Nowhere
     /\ 0 <= pos /\ pos + disk.block <= r.size
     /\ (r.from + pos) % disk.block = 0
  THEN (r.from + pos) \div disk.block
  ELSE Torn

\* Block b begins off2 units behind the begin of sector off.
ReadBlock(r, b) ==
  LET off == (b * disk.block) \div disk.sector
      off2 == (b * disk.block) % disk.sector
  IN  IF b = 0 THEN {[ra |-> r, block |-> 0]}
      ELSE IF b >= disk.blocks THEN {[ra |-> r, block |-> Fail]}
      ELSE {[ra |-> o.ra,
             block |-> IF o.got < off2 + disk.block THEN Fail
                       ELSE Held(o.ra, (off - o.ra.base) * disk.sector + off2)] :
              o \in ReadBlocks(r, off, ReadSize)}

-----------------------------------------------------------------------------
(* ext2_cache_load, ext2_file_read_block.  On the way to a block of a file *)
(* a record holds the caches and the block to be read next.                *)

From(b) == {[ra |-> ra, slot |-> slot, next |-> b]}

Read(o) == {[o EXCEPT !.ra = r.ra, !.next = r.block] : r \in ReadBlock(o.ra, o.next)}

\* Slip: the copy is taken to be right whatever it is a copy of.
CopyOnce(o, k) ==
  IF o.slot[k].tag = 0
  THEN {IF r.next = Fail THEN r ELSE [r EXCEPT !.slot[k] = [tag |-> o.next, has |-> r.next]] : r \in Read(o)}
  ELSE {o}

\* Copy k is made to be that of block o.next, which the code notes only when
\* it has been read.
Copy(o, k) ==
  IF o.slot[k].tag # o.next \/ o.next = 0
  THEN {IF r.next = Fail THEN r ELSE [r EXCEPT !.slot[k] = [tag |-> o.next, has |-> r.next]] : r \in Read(o)}
  ELSE {o}

\* The pointer i of copy k is followed.
Follow(S, k, i) ==
  {IF o.next = Fail THEN o ELSE [o EXCEPT !.next = Content(o.slot[k].has).ptr[i + 1]] :
     o \in UNION {IF p.next = Fail THEN {p} ELSE Copy(p, k) : p \in S}}

Fetch(S) == UNION {IF o.next = Fail THEN {o} ELSE Read(o) : o \in S}

\* Where block i of a file is in its tree: past the direct blocks, and past
\* those below the first and the second pointer block of the inode.
Single(i) == i - NDirect
Double(i) == Single(i) - Ptrs
Triple(i) == Double(i) - Ptrs * Ptrs

FileReadBlock(i) ==
  IF i < NDirect THEN Fetch(From(cur.block[i + 1]))
  ELSE IF Single(i) < Ptrs
       THEN Fetch(Follow(From(cur.block[NDirect + 1]), 0, Single(i)))
  ELSE IF Double(i) < Ptrs * Ptrs
       THEN Fetch(Follow(Follow(From(cur.block[NDirect + 2]), 1, Double(i) \div Ptrs), 2, Double(i) % Ptrs))
  ELSE IF Triple(i) < Ptrs * Ptrs * Ptrs
       THEN Fetch(Follow(Follow(Follow(From(cur.block[NDirect + 3]),
                                       3, Triple(i) \div (Ptrs * Ptrs)),
                                4, (Triple(i) \div Ptrs) % Ptrs),
                         5, Triple(i) % Ptrs))
  ELSE From(Fail)

-----------------------------------------------------------------------------
(* What the reading promises                                               *)

\* The block that block i of the current inode is, on the disk itself.
Pointer(b, i) == Content(b).ptr[i + 1]
Mapped(i) ==
  IF i < NDirect THEN cur.block[i + 1]
  ELSE IF Single(i) < Ptrs THEN Pointer(cur.block[NDirect + 1], Single(i))
  ELSE IF Double(i) < Ptrs * Ptrs
       THEN Pointer(Pointer(cur.block[NDirect + 2], Double(i) \div Ptrs), Double(i) % Ptrs)
  ELSE Pointer(Pointer(Pointer(cur.block[NDirect + 3], Triple(i) \div (Ptrs * Ptrs)),
                       (Triple(i) \div Ptrs) % Ptrs), Triple(i) % Ptrs)

\* The buffer holds what its base and its size say, and each copy is that of
\* the block it is noted for.
CachesRight ==
  /\ ra.from = Nowhere => ra.size = 0
  /\ ra.from # Nowhere => ra.from = ra.base * disk.sector /\ ra.from + ra.size <= disk.size
  /\ \A k \in Slots : slot[k].has = slot[k].tag
=============================================================================
