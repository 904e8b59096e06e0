------------------------------- MODULE MkfsFat ------------------------------
(***************************************************************************)
(* mkfs.fat (app/mkfs.fat/main.c): how many sectors a cluster and a table  *)
(* get is computed from the size of the disk, then boot sectors, tables    *)
(* and root directory are written through a buffer.  The disk is a         *)
(* function from sectors to what was written there.                        *)
(***************************************************************************)
EXTENDS Naturals, Sequences

CONSTANTS
  FatDiskSizes,  \* the disk has one of these many sectors
  Reserved,      \* sectors before the tables [512]
  BackupAt,      \* [6]
  PerSector,     \* entries of a table in a sector [128]
  MaxSectors,    \* sectors_per_cluster that is one too many [64]
  MaxClusters    \* [0xffffff0]

\* The installer makes partitions of 1 MiB and more.
NotTiny == \A s \in FatDiskSizes : s <= Reserved \/ s >= 2 * Reserved

VARIABLES fatSize,       \* the size of the disk
          lpc,
          sectors_per_cluster, clusters, fat_size, sectors,
          fatDisk
fatVars == <<fatSize, lpc, sectors_per_cluster, clusters, fat_size, sectors, fatDisk>>

\* Clusters by the first reckoning, with one table; an entry has the length of a
\* sector divided by PerSector.
FirstClusters(spc) == ((fatSize - Reserved) * PerSector) \div (PerSector * spc + 1)

RoundUp(n, m) == n + m - 1 - ((n + m - 1) % m)

\* A table, in whole clusters.
FatSize(spc, c) == RoundUp((c + 2) \div PerSector, spc)

\* Slip: room for one table.
OneFat(spc, c, f) == c * spc + f + Reserved

Needed(spc, c, f) == c * spc + f * 2 + Reserved

\* Clusters are given up until all has room.
Room(spc, c, f) ==
  LET fits == {n \in 0..c : Needed(spc, n, f) <= fatSize}
  IN  IF fits = {} THEN 0 ELSE CHOOSE n \in fits : \A k \in fits : k <= n

\* init_fs_info, before its loop.
FatStart ==
  /\ lpc = "start"
  /\ lpc' = IF fatSize <= Reserved THEN "failed" ELSE "loop"
  /\ UNCHANGED <<fatSize, sectors_per_cluster, clusters, fat_size, sectors, fatDisk>>

\* One turn of it.
FatLoop ==
  LET spc == sectors_per_cluster
      c0 == FirstClusters(spc)
      f == FatSize(spc, c0)
      c == Room(spc, c0, f)
  IN  /\ lpc = "loop"
      /\ CASE spc = MaxSectors -> lpc' = "failed" /\ UNCHANGED <<sectors_per_cluster, clusters, fat_size, sectors>>
           [] spc # MaxSectors /\ c > 0 /\ c < MaxClusters ->
                /\ lpc' = "write" /\ UNCHANGED sectors_per_cluster
                /\ clusters' = c /\ fat_size' = f /\ sectors' = Needed(spc, c, f)
           [] OTHER -> sectors_per_cluster' = spc * 2 /\ UNCHANGED <<lpc, clusters, fat_size, sectors>>
      /\ UNCHANGED <<fatSize, fatDisk>>

Boot == [is |-> "boot", spc |-> sectors_per_cluster, fat |-> fat_size, sectors |-> sectors]
Empty == [is |-> "zero"]

\* A table: three entries in use, and the rest zero.
Fat == <<[is |-> "fat", used |-> 3]>> \o [i \in 1 .. fat_size - 1 |-> Empty]

Written(d, at, s) == [b \in DOMAIN d \cup at .. at + Len(s) - 1 |-> IF b \in at .. at + Len(s) - 1 THEN s[b - at + 1] ELSE d[b]]

\* main
FatWrite ==
  /\ lpc = "write"
  /\ LET info == <<[is |-> "fsinfo", free |-> clusters - 1]>>
         d0 == Written(fatDisk, 0, <<Boot>> \o info)
         d1 == Written(d0, BackupAt, <<Boot>>)
     IN  fatDisk' = Written(d1, Reserved, Fat \o Fat \o [i \in 1 .. sectors_per_cluster |-> Empty])
  /\ lpc' = "done"
  /\ UNCHANGED <<fatSize, sectors_per_cluster, clusters, fat_size, sectors>>

FatInit ==
  /\ fatSize \in FatDiskSizes /\ lpc = "start" /\ sectors_per_cluster = 1
  /\ clusters = 0 /\ fat_size = 0 /\ sectors = 0 /\ fatDisk = [b \in {} |-> Empty]

FatNext == FatStart \/ FatLoop \/ FatWrite
FatSpec == FatInit /\ [][FatNext]_fatVars /\ WF_fatVars(FatNext)

-----------------------------------------------------------------------------
(***************************************************************************)
(* Properties.                                                             *)
(***************************************************************************)

\* What a reader finds by the boot sector fits on the disk: the tables, of which
\* each starts with its own three entries and marks no other cluster, the root
\* directory in the first cluster after them, and all the clusters; and if they
\* are many enough (16384 for clusters of a sector, a disk of 9 MiB), the tables
\* have an entry for each.  (The size of a table is rounded down, and only the clusters given up
\* for the second table make up for it: on a smaller disk the last clusters have
\* no entry.)
FatRight ==
  lpc = "done" =>
    LET b == fatDisk[0]
        data == Reserved + 2 * b.fat
        n == (b.sectors - data) \div b.spc
    IN  /\ fatDisk[BackupAt] = b
        /\ b.sectors <= fatSize /\ n >= 1
        /\ fatDisk[1] = [is |-> "fsinfo", free |-> n - 1]
        /\ \A i \in 0 .. 2 * b.fat - 1 :
             fatDisk[Reserved + i].is = IF i % b.fat = 0 THEN "fat" ELSE "zero"
        /\ \A i \in 0 .. b.spc - 1 : fatDisk[data + i] = Empty
        /\ DOMAIN fatDisk \subseteq 0 .. fatSize - 1
        /\ n >= PerSector * PerSector * b.spc => n + 2 <= PerSector * b.fat
=============================================================================
