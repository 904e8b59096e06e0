------------------------------- MODULE MCTools ------------------------------
(***************************************************************************)
(* Model-checking instance of the programs that the installer runs: cpio,  *)
(* copy and remove, mkfs.ext2, mkfs.ext3 and mkfs.fat.  None sees another, *)
(* so a behaviour is one of one of them while the others stay as they      *)
(* began.                                                                  *)
(***************************************************************************)
EXTENDS Cpio, CopyTree, TLC

-----------------------------------------------------------------------------
(* Trees to pack: data that needs each padding and one chunk or several, a *)
(* fifo in between, a link, a directory in a directory, and an empty one.   *)
(* With heads of 2 bytes, a file of 4 whose name takes 4 fills a header and *)
(* its name.                                                               *)
Packed(p, k0, n) == [path |-> p, kind |-> k0, size |-> n]
MCTrees ==
  {<<Packed(".", "dir", 0), Packed("a", "file", n), Packed("x", "other", 0), Packed("b", "file", m)>> :
     n \in {5, 8}, m \in {0, 4}} \cup
  {<<Packed(".", "dir", 0), Packed("a", "link", 3), Packed("d", "dir", 0), Packed("d/e", "file", 5)>>,
   <<Packed(".", "dir", 0), Packed("d", "dir", 0), Packed("b", "file", 4)>>}
MCParent(p) == IF p = "d/e" THEN "d" ELSE "."
MCNameLen(p) == CASE p = "." -> 2 [] p \in {"a", "b", "x"} -> 4 [] p = "d" -> 3 [] p = "d/e" -> 5 [] OTHER -> 11

-----------------------------------------------------------------------------
(* File systems to copy and remove in.                                     *)
MCIds == 1..19
D(up, kids) == [kind |-> "dir", kids |-> kids, up |-> up, data |-> <<>>, mode |-> "0700"]
F(up, is) == [kind |-> "file", kids |-> Free.kids, up |-> up, data |-> <<is>>, mode |-> "0600"]
L(up, to) == [kind |-> "link", kids |-> Free.kids, up |-> up, data |-> to, mode |-> "-"]
O(up) == [kind |-> "other", kids |-> Free.kids, up |-> up, data |-> <<>>, mode |-> "-"]
Made(s) == [i \in MCIds |-> IF i \in DOMAIN s THEN s[i] ELSE Free]

\* A link to a directory, one inside a tree that leads out of it, and a fifo.
Linked == Made(<<D(1, "a" :> 2 @@ "b" :> 3 @@ "c" :> 4), D(1, "a" :> 5 @@ "b" :> 6), L(1, <<"a", "b">>),
                 D(1, "a" :> 7), F(2, "x"), D(2, "a" :> 8 @@ "b" :> 9 @@ "c" :> 10), F(4, "y"),
                 F(6, "z"), L(6, <<"/", "c">>), O(6)>>)
\* A directory with one of its own name in it, and two that can be merged.
Nested == Made(<<D(1, "a" :> 2 @@ "b" :> 3), D(1, "a" :> 4), D(1, "b" :> 6 @@ "c" :> 7), D(2, "a" :> 5),
                 F(4, "x"), D(3, "b" :> 8), D(3, "b" :> 10), D(6, "a" :> 9), F(8, "w"), D(7, "c" :> 11), F(10, "v")>>)
MCSystems == {Linked, Nested}

Olds == {<<"a">>, <<"b">>, <<"a", "..", "b", "b">>}
News == {<<"d">>, <<"a", "b", "d">>, <<".">>, <<"b", "c">>, <<"x", "y">>, <<"c", "d">>}
MCJobs ==
  [op : {"copy"}, old : Olds, new : News, cwd : {1}] \cup
  [op : {"remove"}, old : Olds \cup {<<"/", "a", "b">>}, new : {<<"d">>}, cwd : {1, 2, 4}]

-----------------------------------------------------------------------------
(* Disks to make file systems on.                                          *)
CONSTANTS DiskSizes, Kinds, GroupLen, Table, PerBlock, NDirect, Ptrs, JournalMax, Spare, MaxBlocks,
          FatDiskSizes, Reserved, BackupAt, PerSector, MaxSectors, MaxClusters

\* Up to ten groups of 40, the last one of any size at which its tables begin to fit.
MCDiskSizes == {40 * g + r : g \in 0..10, r \in 0..14 \cup {24, 28, 36, 39}}
MCFatDiskSizes == {7, 8} \cup (16..330) \cup {500, 600}

VARIABLES
  kind, devSize, fpc, x, groups, gt_blocks, blocks, last_group_size, gdt, sb,
  journal_size, journal_blocks, disk,                                          \* of Mkfs
  fatSize, lpc, sectors_per_cluster, clusters, fat_size, sectors, fatDisk      \* of MkfsFat

ExtFs == INSTANCE Mkfs WITH size <- devSize
DosFs == INSTANCE MkfsFat

ASSUME SizesAssumed == ExtFs!SizesFit /\ DosFs!NotTiny

extVars == <<kind, devSize, fpc, x, groups, gt_blocks, blocks, last_group_size, gdt, sb,
             journal_size, journal_blocks, disk>>
fatVars == <<fatSize, lpc, sectors_per_cluster, clusters, fat_size, sectors, fatDisk>>

VARIABLE tool

\* Of the programs that are not run, one initial state.
Asleep(t, state, v) == tool = t \/ state = v

ToolsInit ==
  /\ tool \in {"cpio", "copy", "mkfs", "mkfs.fat"}
  /\ CpioInit
  /\ Asleep("cpio", <<tree, room, space>>,
            <<CHOOSE t \in Trees : TRUE, CHOOSE r \in Disks : TRUE, CHOOSE r \in Targets : TRUE>>)
  /\ TreeInit /\ Asleep("copy", <<fs, job, full>>, <<Linked, CHOOSE j \in Jobs : TRUE, FALSE>>)
  /\ ExtFs!MkfsInit /\ Asleep("mkfs", <<kind, devSize>>, <<"ext2", 40>>)
  /\ DosFs!FatInit /\ Asleep("mkfs.fat", fatSize, 16)

CpioStep == tool = "cpio" /\ CpioNext /\ UNCHANGED <<tool, treeVars, extVars, fatVars>>
CopyStep == tool = "copy" /\ TreeNext /\ UNCHANGED <<tool, cpioVars, extVars, fatVars>>
MkfsStep == tool = "mkfs" /\ ExtFs!MkfsNext /\ UNCHANGED <<tool, cpioVars, treeVars, fatVars>>
FatStep == tool = "mkfs.fat" /\ DosFs!FatNext /\ UNCHANGED <<tool, cpioVars, treeVars, extVars>>

ToolsNext == CpioStep \/ CopyStep \/ MkfsStep \/ FatStep

ToolsSpec ==
  /\ ToolsInit
  /\ [][ToolsNext]_<<tool, cpioVars, treeVars, extVars, fatVars>>
  /\ CpioFairness

\* Whichever file system is made, it is found on the disk as a reader looks for it.
LayoutsRight == ExtFs!LayoutRight /\ DosFs!FatRight
=============================================================================
