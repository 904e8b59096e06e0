-------------------------------- MODULE Mkfs --------------------------------
(***************************************************************************)
(* mkfs.ext2 and mkfs.ext3 (app/mkfs.ext2/main.c, app/mkfs.ext3/main.c):   *)
(* the layout of a file system is computed, then the groups are written    *)
(* one after the other through a buffer.  The disk is a function from      *)
(* blocks to what was written there; block 0 stands for its bytes from     *)
(* 1024 on.                                                                *)
(***************************************************************************)
EXTENDS Integers, Sequences, SequencesExt, FiniteSets, FiniteSetsExt

CONSTANTS
  DiskSizes,     \* the disk has one of these many whole blocks
  Kinds,         \* subset of {"ext2", "ext3"}
  GroupLen,      \* blocks of a group, which are the bits of a block [32768]
  Table,         \* blocks of an inode table [512]
  PerBlock,      \* descriptors in a block [128]
  NDirect,       \* direct blocks of an inode [12]
  Ptrs,          \* block numbers in a block [1024]
  JournalMax,    \* [2048]
  Spare,         \* blocks a group needs besides a journal [12]
  MaxBlocks      \* [0xffffffff]

\* What the sizes must be.
SizesFit == /\ \A c \in {GroupLen, Table, PerBlock, NDirect, Ptrs} : c \in Nat \ {0}
            /\ JournalMax <= NDirect + 2 * Ptrs

VARIABLES
  kind, size,                       \* which program, and how large its disk is
  fpc, x,                           \* the next group to write
  groups, gt_blocks, blocks, last_group_size,
  gdt, sb,                          \* group -> descriptor, and the superblock
  journal_size, journal_blocks,
  disk

mkfsVars == <<kind, size, fpc, x, groups, gt_blocks, blocks, last_group_size, gdt, sb,
              journal_size, journal_blocks, disk>>

-----------------------------------------------------------------------------
(* The layout                                                              *)

\* nb[0], nb[1], nb[2]: a group is compared with one power of each of three
\* numbers, which goes on to the next when it is met.
Times == [i \in 1..3 |-> CASE i = 1 -> 3 [] i = 2 -> 5 [] i = 3 -> 7]
Nb0 == <<1, 5, 7>>
Meets(nb, g) == {i \in 1..3 : nb[i] = g}
NextNb(nb, g) ==
  IF Meets(nb, g) = {} THEN nb ELSE LET i == Min(Meets(nb, g)) IN [nb EXCEPT ![i] = @ * Times[i]]
NbAt(g) == LET nb[n \in 1 .. g] == IF n = 1 THEN Nb0 ELSE NextNb(nb[n - 1], n - 1) IN nb[g]

\* Slip: the powers do not go on.
FirstPowers(g) == g \in {0, 1, 5, 7}

HasSuper(g) == g = 0 \/ Meets(NbAt(g), g) # {}

Blocks128(n) == (n + PerBlock - 1) \div PerBlock

\* What a group needs before its data: bitmaps and inode table, with the copy of
\* the superblock and gt blocks of descriptors if it has them.
Needs(g, gt) == IF HasSuper(g) THEN 1 + gt + 1 + 1 + Table ELSE 1 + 1 + Table

\* Slip: all groups are kept.
FitsAlways(n, last) == TRUE

\* A last group that cannot hold its tables and one block is given up.
Fits(n, last) == Needs(n - 1, Blocks128(n)) + 1 <= last

\* How many blocks the journal has, with the blocks of block numbers.
WithIndirect(n) ==
  CASE n <= NDirect -> n
    [] n > NDirect /\ n <= NDirect + Ptrs -> n + 1
    [] OTHER -> n + 3

Least(a, b) == IF a < b THEN a ELSE b

\* Slip: in the last group, blocks past its end count as free.
LenAlways(g, n, last) == GroupLen

LenOf(g, n, last) == IF g = n - 1 THEN last ELSE GroupLen

Descriptor(g, n, gt, last, jb) ==
  LET start == g * GroupLen
      bitmap == IF HasSuper(g) THEN start + 1 + gt ELSE start
  IN  [block_bitmap |-> bitmap, inode_bitmap |-> bitmap + 1, inode_table |-> bitmap + 2,
       free_blocks |-> LenOf(g, n, last) - Needs(g, gt) - (IF g = 0 THEN 1 + jb ELSE 0),
       used_dirs |-> IF g = 0 THEN 1 ELSE 0]

Fail == fpc' = "failed" /\ UNCHANGED <<groups, gt_blocks, blocks, last_group_size, gdt, sb, journal_size, journal_blocks>>

\* init_fs_info
InitFsInfo ==
  /\ fpc = "init"
  /\ LET last0 == IF size % GroupLen = 0 THEN GroupLen ELSE size % GroupLen
         n0 == (size + GroupLen - 1) \div GroupLen
         keep == Fits(n0, last0)
         n == IF keep THEN n0 ELSE n0 - 1
         bl == IF keep THEN size ELSE size - last0
         last == IF keep THEN last0 ELSE GroupLen
         gt == Blocks128(n)
         free0 == LenOf(0, n, last) - Needs(0, gt) - 1
         js == IF kind = "ext3" THEN Least(free0 \div 4, JournalMax) ELSE 0
         jb == WithIndirect(js)
         d == [g \in 0 .. n - 1 |-> Descriptor(g, n, gt, last, jb)]
     IN  IF \/ size = 0 \/ n = 0 \/ bl > MaxBlocks
            \/ kind = "ext3" /\ (js = 0 \/ free0 <= jb + Spare)
         THEN Fail
         ELSE /\ fpc' = "first"
              /\ groups' = n /\ gt_blocks' = gt /\ blocks' = bl /\ last_group_size' = last
              /\ gdt' = d
              /\ journal_size' = js /\ journal_blocks' = jb
              /\ sb' = [blocks |-> bl, free_blocks |-> MapThenSumSet(LAMBDA g : d[g].free_blocks, 0 .. n - 1)]
  /\ UNCHANGED <<kind, size, x, disk>>

-----------------------------------------------------------------------------
(* Writing                                                                 *)

Zero == [is |-> "zero"]
Zeros(n) == [i \in 1..n |-> Zero]
Super == <<[is |-> "super", sb |-> sb]>>

\* The descriptors, PerBlock of them in a block.
Gdt == [b \in 1..gt_blocks |->
          [is |-> "gdt", of |-> [g \in {h \in DOMAIN gdt : h \div PerBlock = b - 1} |-> gdt[g]]]]

\* bitmap_set, bitmap_set2: the first n bits, the last n bits.
BitmapSet(n) == 0 .. n - 1
BitmapSet2(n) == GroupLen - n .. GroupLen - 1
Bits(s) == <<[is |-> "bits", set |-> s]>>

\* lseek, buf_write again and again, buf_flush.
Written(at, s) == [b \in DOMAIN disk \cup at .. at + Len(s) - 1 |-> IF b \in at .. at + Len(s) - 1 THEN s[b - at + 1] ELSE disk[b]]

\* The journal from block off on: its inode's blocks, and what is written there.
JournalInode(off) ==
  LET skip == journal_blocks - journal_size
  IN  [i \in 1 .. NDirect + 2 |->
         CASE i <= NDirect -> IF i <= journal_size THEN off + skip + i - 1 ELSE 0
           [] i = NDirect + 1 -> IF skip > 0 THEN off ELSE 0
           [] i = NDirect + 2 -> IF skip > 1 THEN off + 1 ELSE 0]

Pointers(from, n) == [is |-> "ptrs", to |-> [i \in 1..Ptrs |-> IF i <= n THEN from + i - 1 ELSE 0]]

\* Slip: the second block of numbers starts where the first one does.
SameAgain(off) == off + 3 + NDirect

SecondFrom(off) == off + 3 + NDirect + Ptrs

JournalBlocks(off) ==
  LET data == <<[is |-> "journal", len |-> journal_size]>> \o Zeros(journal_size - 1)
  IN  CASE journal_size <= NDirect -> data
        [] journal_size > NDirect /\ journal_size <= NDirect + Ptrs ->
             <<Pointers(off + 1 + NDirect, journal_size - NDirect)>> \o data
        [] OTHER ->
             <<Pointers(off + 3 + NDirect, Ptrs), Pointers(off + 2, 1),
               Pointers(SecondFrom(off), journal_size - NDirect - Ptrs)>> \o data

\* write_first_group
WriteFirstGroup ==
  LET root == 1 + gt_blocks + 1 + 1 + Table
      inodes == [is |-> "inodes", root |-> root,
                 journal |-> IF kind = "ext3" THEN JournalInode(root + 1) ELSE <<>>]
      end == IF groups = 1 THEN BitmapSet2(GroupLen - last_group_size) ELSE {}
  IN  /\ fpc = "first"
      /\ disk' = Written(0, Super \o Gdt \o Bits(BitmapSet(root + 1 + journal_blocks) \cup end)
                   \o <<[is |-> "inode bits", used |-> 10]>> \o <<inodes>> \o Zeros(Table - 1)
                   \o <<[is |-> "rootdir"]>>
                   \o (IF kind = "ext3" THEN JournalBlocks(root + 1) ELSE <<>>))
      /\ fpc' = "groups" /\ x' = 1
      /\ UNCHANGED <<kind, size, groups, gt_blocks, blocks, last_group_size, gdt, sb, journal_size, journal_blocks>>

\* write_group, and fsync
WriteGroup ==
  /\ fpc = "groups" /\ x < groups
  /\ LET len == LenOf(x, groups, last_group_size)
         used == BitmapSet(len - gdt[x].free_blocks)
         end == BitmapSet2(GroupLen - len)
     IN  disk' = Written(x * GroupLen,
                   (IF HasSuper(x) THEN Super \o Gdt ELSE <<>>) \o Bits(used \cup end)
                   \o <<[is |-> "inode bits", used |-> 0]>> \o Zeros(Table))
  /\ x' = x + 1
  /\ UNCHANGED <<kind, size, fpc, groups, gt_blocks, blocks, last_group_size, gdt, sb, journal_size, journal_blocks>>

MkfsDone ==
  /\ fpc = "groups" /\ x = groups
  /\ fpc' = "done"
  /\ UNCHANGED <<kind, size, x, groups, gt_blocks, blocks, last_group_size, gdt, sb, journal_size, journal_blocks, disk>>

NoSb == [blocks |-> 0, free_blocks |-> 0]
MkfsInit ==
  /\ kind \in Kinds /\ size \in DiskSizes /\ fpc = "init" /\ x = 0
  /\ groups = 0 /\ gt_blocks = 0 /\ blocks = 0 /\ last_group_size = 0
  /\ gdt = [g \in {} |-> 0] /\ sb = NoSb /\ journal_size = 0 /\ journal_blocks = 0
  /\ disk = [b \in {} |-> Zero]

MkfsNext == InitFsInfo \/ WriteFirstGroup \/ WriteGroup \/ MkfsDone
MkfsSpec == MkfsInit /\ [][MkfsNext]_mkfsVars /\ WF_mkfsVars(MkfsNext)

-----------------------------------------------------------------------------
(***************************************************************************)
(* What a reader of the disk finds.                                        *)
(***************************************************************************)
At0 == disk[0].sb
GroupsOf(b) == (b.blocks + GroupLen - 1) \div GroupLen

\* Copies are in the groups 0, 1 and the powers of 3, 5 and 7.
Powers(b, n) == LET p[i \in 0..n] == IF i = 0 THEN 1 ELSE b * p[i - 1] IN {p[i] : i \in 0..n}
Sparse(g) == g = 0 \/ \E b \in {3, 5, 7} : g \in Powers(b, 6)

\* The descriptor of a group, from the copy at block `at`.
DescAt(at, g) == disk[at + 1 + (g \div PerBlock)].of[g]

\* The journal's block n, through the inode's numbers.
JournalBlock(ino, n) ==
  CASE n < NDirect -> ino[n + 1]
    [] n >= NDirect /\ n < NDirect + Ptrs -> disk[ino[NDirect + 1]].to[n - NDirect + 1]
    [] OTHER -> LET m == n - NDirect - Ptrs
                IN  disk[disk[ino[NDirect + 2]].to[(m \div Ptrs) + 1]].to[(m % Ptrs) + 1]

\* The journal is all there: its blocks follow each other, the first one says how
\* many they are, and the others are zero.
JournalRight(ino, js) ==
  /\ js = journal_size
  /\ \A i \in 0 .. js - 1 : JournalBlock(ino, i) = JournalBlock(ino, 0) + i
  /\ \A i \in 1 .. js - 1 : disk[JournalBlock(ino, i)] = Zero

\* The groups lie inside the disk and hold what their descriptors say; each bitmap
\* has just the bits of the blocks that are in use and of those past the end;
\* the counts of free blocks are right, the copies are where they belong and
\* are all the same, and nothing else was written.  A disk of a group or more
\* is never refused.
LayoutRight ==
  /\ fpc = "failed" => size < GroupLen \/ size > MaxBlocks
  /\ fpc = "done" =>
      LET n == GroupsOf(At0)
          gt == Blocks128(n)
          D(g) == DescAt(0, g)
          end(g) == Min({(g + 1) * GroupLen, At0.blocks})
          copy(g) == IF Sparse(g) THEN g * GroupLen .. g * GroupLen + gt ELSE {}
          inodes == disk[D(0).inode_table]
          js == IF kind = "ext3" THEN disk[JournalBlock(inodes.journal, 0)].len ELSE 0
          journal == IF kind = "ext3"
                     THEN {JournalBlock(inodes.journal, i) : i \in 0 .. js - 1} \cup
                          {b \in DOMAIN disk : disk[b].is = "ptrs"}
                     ELSE {}
          tables(g) == D(g).inode_table .. D(g).inode_table + Table - 1
          used(g) == copy(g) \cup {D(g).block_bitmap, D(g).inode_bitmap} \cup tables(g)
                     \cup (IF g = 0 THEN {inodes.root} \cup journal ELSE {})
          bits(g) == {g * GroupLen + b : b \in disk[D(g).block_bitmap].set}
      IN  /\ At0.blocks <= size /\ n > 0
          /\ \A g \in 0 .. n - 1 :
               /\ used(g) \subseteq g * GroupLen .. end(g) - 1
               /\ Cardinality(used(g)) = Cardinality(copy(g)) + 2 + Table
                    + (IF g = 0 THEN 1 + Cardinality(journal) ELSE 0)
               /\ bits(g) = used(g) \cup (end(g) .. (g + 1) * GroupLen - 1)
               /\ D(g).free_blocks = end(g) - g * GroupLen - Cardinality(used(g))
               /\ disk[D(g).inode_bitmap] = [is |-> "inode bits", used |-> IF g = 0 THEN 10 ELSE 0]
               /\ Sparse(g) => /\ disk[g * GroupLen] = disk[0]
                               /\ \A h \in 0 .. n - 1 : DescAt(g * GroupLen, h) = D(h)
          /\ At0.free_blocks = MapThenSumSet(LAMBDA g : D(g).free_blocks, 0 .. n - 1)
          /\ DOMAIN disk = UNION {used(g) : g \in 0 .. n - 1}
          /\ disk[inodes.root].is = "rootdir"
          /\ kind = "ext3" => JournalRight(inodes.journal, js)
=============================================================================
