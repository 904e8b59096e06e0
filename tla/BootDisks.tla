----------------------------- MODULE BootDisks ------------------------------
(***************************************************************************)
(* Boot partitions for the model checking of Loader: small ext2 file       *)
(* systems, laid out by hand, with two direct pointers in an inode and two *)
(* pointers in a block.  "files" says block by block what a reader of the  *)
(* file system should find; the rest is what the loader sees.              *)
(***************************************************************************)
EXTENDS Integers, Sequences, TLC

Empty == [desc |-> <<>>, inodes |-> <<>>, ptr |-> <<0, 0>>, entries |-> <<>>, lines |-> <<>>, setup |-> FALSE]

\* The blocks of pointers, from block p, of a file whose blocks are s; a whole
\* tree of holes has no blocks.
Tree(s, p) ==
  LET S(i) == IF i <= Len(s) THEN s[i] ELSE 0
      Some(a, b) == \E i \in a..b : S(i) # 0
      To(b, from, to) == IF Some(from, to) THEN b ELSE 0
      Ptr(x, z) == [Empty EXCEPT !.ptr = <<x, z>>]
  IN  [block |-> <<S(1), S(2), To(p, 3, 4), To(p + 1, 5, 8), To(p + 4, 9, 16)>>,
       at |-> (p     :> Ptr(S(3), S(4)) @@
               p + 1 :> Ptr(To(p + 2, 5, 6), To(p + 3, 7, 8)) @@
               p + 2 :> Ptr(S(5), S(6)) @@ p + 3 :> Ptr(S(7), S(8)) @@
               p + 4 :> Ptr(To(p + 5, 9, 12), To(p + 6, 13, 16)) @@
               p + 5 :> Ptr(To(p + 7, 9, 10), To(p + 8, 11, 12)) @@
               p + 6 :> Ptr(To(p + 9, 13, 14), To(p + 10, 15, 16)) @@
               p + 7 :> Ptr(S(9), S(10)) @@ p + 8 :> Ptr(S(11), S(12)) @@
               p + 9 :> Ptr(S(13), S(14)) @@ p + 10 :> Ptr(S(15), S(16)))]

L(key, arg) == [key |-> key, arg |-> arg, cut |-> <<>>, nl |-> TRUE]
Entry == L("ENTRY", <<>>)
Other == L("other", <<>>)
Linux(path) == L("LINUX", path)
Initrd(path) == L("INITRD", path)
Cmdline(c) == L("CMDLINE", <<c>>)

Kernel == <<"vmlinuz">>
Kernel2 == <<"sub", "vmlinuz">>
Ramfs == <<"sub", "initramfs">>
Medium == <<"sub", "medium">>      \* the initramfs of the installation medium
Missing == <<"sub", "missing">>

\* Two entries, each with all that an entry may have; the second names its kernel twice.
Conf1 == <<<<Other, Entry, Linux(Kernel), Cmdline("a"), Initrd(Ramfs)>>,
           <<Entry, Initrd(Medium), Linux(Kernel), Other, Cmdline("b"), Linux(Kernel2)>>>>

\* Lines before the first entry, entries that cannot be booted, more entries than rows.
Conf2 == <<<<Linux(Kernel2), Cmdline("z"), Entry, Initrd(Ramfs), Cmdline("a"), Entry, Linux(Kernel)>>,
           <<Cmdline("b"), Entry, Cmdline("c"), Entry, Linux(Kernel2), Cmdline("d")>>>>

\* The last line ends without a newline, and with one character less it is
\* the path of another file.
Conf3 == <<<<Entry, Linux(Missing), Entry, Cmdline("a")>>, <<[Linux(Kernel2) EXCEPT !.cut = Kernel, !.nl = FALSE]>>>>

Ent(name, ino) == [name |-> name, inode |-> ino, ok |-> TRUE]

K1 == <<12, 13, 14, 15, 16, 17, 18, 19, 20, 0, 21, 22, 23, 24, 25, 26>>
K2 == <<12, 28, 0, 0, 29, 30, 0, 0, 0, 0, 31>>
R == <<32, 33, 35, 34, 36, 37>>
R2 == <<33, 38>>

\* Blocks of `unit` units, with the superblock's number bsize; the descriptors
\* in block gd.  The root directory has two blocks, of which the first ends
\* with an entry that was removed.
Ext2(sector, bsize, gd, blocks, size, conf) ==
  LET b == 2 * 2^bsize
      k1 == Tree(K1, 40)
      k2 == Tree(K2, 51)
      r == Tree(R, 62)
      File(n, map) == [kind |-> "file", size |-> n * b, block |-> map]
      Direct(kind, n, x, z) == [kind |-> kind, size |-> n * b, block |-> <<x, z, 0, 0, 0>>]
      None == [kind |-> "none", size |-> 0, block |-> <<0, 0, 0, 0, 0>>]
      \* Inodes 1 and 2; 3 and 4; 5 and 6 of the second group; 7 and 8.
      inodes == <<<<None, Direct("dir", 2, 7, 8)>>, <<Direct("file", 2, 10, 11), Direct("dir", 1, 9, 0)>>,
                  <<File(16, k1.block), File(11, k2.block)>>, <<File(6, r.block), Direct("file", 2, 33, 38)>>>>
      fixed == gd :> [Empty EXCEPT !.desc = <<3, 5>>] @@
               3 :> [Empty EXCEPT !.inodes = inodes[1]] @@ 4 :> [Empty EXCEPT !.inodes = inodes[2]] @@
               5 :> [Empty EXCEPT !.inodes = inodes[3]] @@ 6 :> [Empty EXCEPT !.inodes = inodes[4]] @@
               7 :> [Empty EXCEPT !.entries = <<Ent("sub", 4), Ent("vmlinuz", 0)>>] @@
               8 :> [Empty EXCEPT !.entries = <<Ent("vmlinuz", 5), Ent("boot.conf", 3)>>] @@
               9 :> [Empty EXCEPT !.entries = <<Ent("initramfs", 7), Ent("vmlinuz", 6), Ent("medium", 8)>>] @@
               10 :> [Empty EXCEPT !.lines = conf[1]] @@ 11 :> [Empty EXCEPT !.lines = conf[2]] @@
               12 :> [Empty EXCEPT !.setup = TRUE]
  IN  [logical |-> TRUE, ours |-> TRUE, ext2 |-> TRUE, sector |-> sector, block |-> b, bsize |-> bsize,
       size |-> size, blocks |-> blocks, perGroup |-> (blocks + 1) \div 2,
       inodesPerGroup |-> 4, inodesPerBlock |-> 2,
       at |-> fixed @@ k1.at @@ k2.at @@ r.at,
       files |-> <<"boot.conf">> :> <<10, 11>> @@ Kernel :> K1 @@ Kernel2 :> K2 @@ Ramfs :> R @@ Medium :> R2]

\* Blocks of 1 KiB in sectors of 512 bytes, on a device that ends with the file system.
Small == Ext2(1, 0, 2, 73, 2 * 73, Conf1)

\* Blocks of 1 KiB, four of them in a sector; the count of blocks is 63 modulo
\* 64, so that a second block of descriptors is read that is none.
Large == Ext2(8, 0, 2, 127, 8 * 32, Conf2)

\* Blocks of 4 KiB in sectors of 512 bytes.
Coarse == Ext2(1, 2, 1, 73, 8 * 73, Conf3)

\* Blocks of 2 KiB in sectors of 2 KiB.
Even == Ext2(4, 1, 1, 73, 4 * 74, Conf2)

\* What the initramfs are.
RamfsIn(blocks) ==
  IF blocks = R THEN [prog |-> "init", id |-> "A"]
  ELSE IF blocks = R2 THEN [prog |-> "install_init", id |-> "B"]
  ELSE [prog |-> "none", id |-> "none"]

Whole == [Small EXCEPT !.logical = FALSE]    \* the disk the partition is on
Foreign == [Small EXCEPT !.ours = FALSE]     \* somebody else's partition
Unknown == [Even EXCEPT !.ext2 = FALSE]      \* a file system the loader does not know

Lists == {<<Whole, Foreign, Small>>, <<Large, Small>>, <<Foreign, Coarse>>, <<Even>>, <<Unknown, Small>>}

D(at, pages, type) == [at |-> at, pages |-> pages, type |-> type]

\* Neighbours of one kind under several types, gaps, and all kinds the loader tells apart.
Maps == {<<D(0, 2, 7), D(2, 1, 3), D(3, 3, 1), D(6, 1, 9), D(7, 1, 10), D(9, 2, 7), D(11, 1, 4)>>,
         <<D(0, 1, 0), D(1, 1, 11), D(2, 2, 14), D(4, 1, 14), D(5, 2, 7), D(8, 1, 2), D(9, 1, 9), D(10, 1, 9)>>}
=============================================================================
