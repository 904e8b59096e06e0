------------------------------- MODULE Loader -------------------------------
(***************************************************************************)
(* The boot loader (boot/main.c, boot/block.c, boot/ext2_load.c,           *)
(* boot/do_boot.c): it finds the boot partition by its id, reads boot.conf *)
(* from it, shows the entries, loads what the chosen entry names, makes    *)
(* the memory map of the kernel out of that of the firmware, and jumps.    *)
(*                                                                         *)
(* Every call of the firmware may fail; all failures end in a message and  *)
(* the return to the firmware (pc is "off").  One turn of a loop that      *)
(* reads is a step.  A line of boot.conf is a record: its keyword, its     *)
(* argument, the argument without its last character, and whether a        *)
(* newline ends the line.  A path is the sequence of its names.            *)
(***************************************************************************)
EXTENDS Ext2Reader, FiniteSets, SequencesExt

CONSTANTS
  DevicesOf,  \* the lists of block devices the firmware may offer
  MemMaps,    \* the memory maps it may give: sequences of [at, pages, type]
  DescShift,  \* 2^(block_size+DescShift) descriptors fill a block [5]
  MaxRows,    \* fbheight/16
  Room        \* the blocks of the buffer for kernel and initramfs [0x8000 pages]

\* What a partition may say of itself: the sizes and the numbers that are divided
\* by are not zero, and a block number is a natural one, wherever it leads.
SoundDisk(d) ==
  /\ d.size \in Nat /\ d.blocks \in Nat
  /\ {d.sector, d.block, d.inodesPerGroup, d.inodesPerBlock} \subseteq Nat \ {0}
  /\ \A b \in DOMAIN d.at :
       /\ d.at[b].ptr \in [1..Ptrs -> Nat]
       /\ d.at[b].desc \in Seq(Nat)
       /\ \A i \in DOMAIN d.at[b].inodes : d.at[b].inodes[i].block \in [1..NDirect + 3 -> Nat]
       /\ \A i \in DOMAIN d.at[b].entries : d.at[b].entries[i].inode \in Nat

ASSUME LoaderAssumption ==
  /\ {NDirect, Ptrs, Ahead, ReadSize} \subseteq Nat \ {0}
  /\ \A list \in DevicesOf : \A i \in DOMAIN list : SoundDisk(list[i])
  /\ MemMaps \subseteq Seq([at : Nat, pages : Nat, type : Nat])

VARIABLES
  pc,         \* where main is
  devices,    \* what block_handles leads to
  gdt,        \* ext2_bgdt: the blocks that were read
  todo, goal, \* the rest of the path, and what is being loaded
  img,        \* the blocks read by ext2_image_load so far
  image,      \* config, kernel and initramfs
  row, rows,  \* config_y, max_configs
  line, y,    \* the variables i and y of boot_from_config
  ready,      \* boot_ready
  cmdline,    \* buf
  memmap,     \* what getmemmap gave
  x1,         \* how many of its entries have been looked at
  table       \* e820_table

bootVars == <<devices, gdt, todo, goal, img, image, row, rows, line, y, ready, cmdline, memmap, x1, table>>
loaderVars == <<pc, readerVars, bootVars>>

NoDisk == [at |-> <<>>, sector |-> 1, block |-> 1, size |-> 0, blocks |-> 0]

GoTo(from, to) == pc = from /\ pc' = to

-----------------------------------------------------------------------------
(* Finding the partition and its groups                                    *)

\* block_init: the first logical partition that can be read and has the id.
BlockInit ==
  \E readable \in SUBSET DOMAIN devices :
    LET found == {x \in readable : /\ devices[x].logical /\ devices[x].ours
                                   /\ devices[x].size >= ReadSize}
    IN  /\ \/ found = {} /\ GoTo("device", "off") /\ UNCHANGED disk
           \/ /\ GoTo("device", "super")
              /\ \E x \in found : (\A z \in found : x <= z) /\ disk' = devices[x]
        /\ UNCHANGED <<ra, slot, cur, bootVars>>

\* ext2_init, the superblock; also palloc may fail.
LoadSuper ==
  /\ GoTo("super", "off") \/ (GoTo("super", "groups") /\ disk.ext2)
  /\ UNCHANGED <<readerVars, bootVars>>

Groups == (disk.blocks + disk.perGroup - 1) \div disk.perGroup
StartBlock == IF disk.bsize = 0 THEN 2 ELSE 1

\* The machine takes the count of a shift modulo 64.
ShiftRight(n, k) == IF k % 64 > 30 THEN 0 ELSE n \div 2^(k % 64)

\* The shift is by sb.blocks+5, not by sb.block_size+5.
DescBlocks == ShiftRight(Groups - 1, disk.blocks + DescShift) + 1

\* ext2_load_path begins.
StartPath(path, what) == pc' = "root" /\ todo' = path /\ goal' = what

\* ext2_init, the descriptors.
LoadGroups ==
  /\ pc = "groups"
  /\ \/ /\ Len(gdt) = DescBlocks
        /\ StartPath(<<"boot.conf">>, "config")
        /\ UNCHANGED <<ra, gdt>>
     \/ /\ Len(gdt) # DescBlocks
        /\ \E o \in ReadBlock(ra, StartBlock + Len(gdt)) :
             /\ ra' = o.ra
             /\ IF o.block = Fail
                THEN pc' = "off" /\ UNCHANGED gdt
                ELSE UNCHANGED pc /\ gdt' = Append(gdt, o.block)
        /\ UNCHANGED <<todo, goal>>
  /\ UNCHANGED <<disk, slot, cur, devices, img, image, row, rows, line, y, ready, cmdline, memmap, x1, table>>

-----------------------------------------------------------------------------
(* ext2_load_inode, ext2_load_path, ext2_load_dir, ext2_image_load         *)

\* A descriptor that was not loaded is whatever follows the buffer; none is asked
\* for as long as one block holds those of all groups.
PerDesc == 2^(disk.bsize + DescShift)
InodeTable(g) == Nth(Content(Nth(gdt, (g \div PerDesc) + 1, 0)).desc, (g % PerDesc) + 1, 0)

\* ext2_load_inode; NoInode stands for its failure.
LoadInode(ino) ==
  LET group == (ino - 1) \div disk.inodesPerGroup
      index == (ino - 1) % disk.inodesPerGroup
      i == (index % disk.inodesPerBlock) + 1
  IN  IF group >= Groups THEN {[ra |-> ra, inode |-> NoInode]}
      ELSE {[ra |-> o.ra, inode |-> IF o.block = Fail THEN NoInode ELSE Nth(Content(o.block).inodes, i, NoInode)] :
              o \in ReadBlock(ra, InodeTable(group) + (index \div disk.inodesPerBlock))}

LoadRoot ==
  /\ pc = "root"
  /\ \E o \in LoadInode(2) :
       /\ ra' = o.ra /\ cur' = o.inode
       /\ pc' = IF o.inode.kind = "dir" THEN "path" ELSE "off"
  /\ UNCHANGED <<disk, slot, bootVars>>

\* The next name needs a directory, the end of the path a file.  palloc may fail.
StartImage ==
  /\ \/ GoTo("path", "off")
     \/ GoTo("path", "image") /\ cur.kind = (IF todo = <<>> THEN "file" ELSE "dir")
  /\ img' = <<>>
  /\ UNCHANGED <<readerVars, devices, gdt, todo, goal, image, row, rows, line, y, ready, cmdline, memmap, x1, table>>

\* One turn of the loop of ext2_image_load.
ImageBlock ==
  /\ pc = "image" /\ Len(img) * disk.block < cur.size
  /\ \E o \in FileReadBlock(Len(img)) :
       /\ ra' = o.ra /\ slot' = o.slot
       /\ IF o.next = Fail
          THEN pc' = "off" /\ UNCHANGED img
          ELSE UNCHANGED pc /\ img' = Append(img, o.next)
  /\ UNCHANGED <<disk, cur, devices, gdt, todo, goal, image, row, rows, line, y, ready, cmdline, memmap, x1, table>>

ImageRead == pc = "image" /\ Len(img) * disk.block >= cur.size

\* ext2_load_dir: the first entry of the name; an entry without length ends
\* the search.
SearchDir ==
  LET places == UNION {{i} \X DOMAIN Content(img[i]).entries : i \in DOMAIN img}
      At(p) == Content(img[p[1]]).entries[p[2]]
      Fits(p) == At(p).ok /\ At(p).name = todo[1] /\ At(p).inode # 0
      Before(p) == {q \in places : q[1] < p[1] \/ (q[1] = p[1] /\ q[2] < p[2])}
      found == {p \in places : Fits(p) /\ \A q \in Before(p) : At(q).ok /\ ~Fits(q)}
  IN  /\ ImageRead /\ todo # <<>>
      /\ \/ \E p \in found : \E o \in LoadInode(At(p).inode) :
              /\ ra' = o.ra /\ cur' = o.inode
              /\ pc' = IF o.inode = NoInode THEN "off" ELSE "path"
              /\ todo' = Tail(todo)
         \/ found = {} /\ pc' = "off" /\ UNCHANGED <<ra, cur, todo>>
      /\ UNCHANGED <<disk, slot, devices, gdt, goal, img, image, row, rows, line, y, ready, cmdline, memmap, x1, table>>

-----------------------------------------------------------------------------
(* The menu                                                                *)

LinesOf(config) == FlattenSeq([i \in DOMAIN config |-> Content(config[i]).lines])
Lines == LinesOf(image.config)
Entries(lines) == SelectSeq(lines, LAMBDA l : l.key = "ENTRY")

\* Slip: the rows of the screen bound only what is drawn.
PEntriesAll(max, config) == Len(Entries(LinesOf(config)))

\* p_entries: max_configs becomes the number of rows that are drawn.
PEntries(max, config) == Least(max, Len(Entries(LinesOf(config))))

\* Slip: the line is read again.
SameLine == line

\* config_next_line
NextLine == line + 1

\* What is to be loaded is there.
Loaded ==
  /\ ImageRead /\ todo = <<>>
  /\ image' = [image EXCEPT ![goal] = img]
  /\ IF goal = "config"
     THEN pc' = "menu" /\ rows' = PEntries(MaxRows, img) /\ UNCHANGED <<line, ready>>
     ELSE /\ pc' = "lines" /\ line' = NextLine /\ UNCHANGED rows
          /\ ready' = IF goal = "kernel" THEN ready \cup {"kernel"} ELSE ready
  /\ UNCHANGED <<readerVars, devices, gdt, todo, goal, img, row, y, cmdline, memmap, x1, table>>

Move ==
  /\ pc = "menu"
  /\ \/ row # 0 /\ row' = row - 1
     \/ row < rows /\ row' = row + 1
  /\ rows' = PEntries(rows, image.config)
  /\ UNCHANGED <<pc, readerVars, devices, gdt, todo, goal, img, image, line, y, ready, cmdline, memmap, x1, table>>

\* Enter: the last row is Exit.
Enter ==
  /\ GoTo("menu", IF row = rows THEN "off" ELSE "lines")
  /\ image' = [image EXCEPT !.initramfs = <<>>]
  /\ line' = 1 /\ y' = -1 /\ ready' = {}
  /\ UNCHANGED <<readerVars, devices, gdt, todo, goal, img, row, rows, cmdline, memmap, x1, table>>

-----------------------------------------------------------------------------
(* boot_from_config                                                        *)

\* The byte before the next line is overwritten to end a path, and left out
\* of a command line: without a newline that is the last one of the argument.
Arg(l) == IF l.nl THEN l.arg ELSE l.cut

\* Slip: the lines of the entries before count as well.
OfEntryOrBefore == y <= row

\* y==config_y
OfEntry == y = row

ReadLine ==
  /\ pc = "lines" /\ line <= Len(Lines)
  /\ LET l == Lines[line]
         skip == ~OfEntry \/ l.key = "other"
     IN  \/ /\ l.key = "ENTRY"
            /\ y' = y + 1 /\ line' = NextLine
            /\ UNCHANGED <<pc, todo, goal, ready, cmdline>>
         \/ /\ l.key # "ENTRY" /\ skip
            /\ line' = NextLine
            /\ UNCHANGED <<pc, todo, goal, y, ready, cmdline>>
         \/ /\ l.key \in {"LINUX", "INITRD"} /\ ~skip
            /\ StartPath(Arg(l), IF l.key = "LINUX" THEN "kernel" ELSE "initramfs")
            /\ UNCHANGED <<line, y, ready, cmdline>>
         \/ /\ l.key = "CMDLINE" /\ ~skip
            /\ cmdline' = Arg(l) /\ ready' = ready \cup {"cmdline"} /\ line' = NextLine
            /\ UNCHANGED <<pc, todo, goal, y>>
  /\ UNCHANGED <<readerVars, devices, gdt, img, image, row, rows, memmap, x1, table>>

EndOfConfig ==
  /\ line > Len(Lines)
  /\ GoTo("lines", IF ready = {"kernel", "cmdline"} THEN "params" ELSE "off")
  /\ UNCHANGED <<readerVars, bootVars>>

-----------------------------------------------------------------------------
(* boot_init, fill_e820                                                    *)

\* The setup header decides; that of an empty kernel is whatever is in memory.
BootParams ==
  /\ \/ GoTo("params", "off")
     \/ /\ GoTo("params", "map")
        /\ image.kernel # <<>> => Content(image.kernel[1]).setup
  /\ UNCHANGED <<readerVars, bootVars>>

E820Type(t) ==
  IF t \in {1, 2, 3, 4, 7} THEN 1 ELSE IF t = 9 THEN 3 ELSE IF t = 10 THEN 4 ELSE IF t = 14 THEN 7 ELSE 2

\* Slip: neighbours are merged whatever their types.
AddMerges(t, d) ==
  IF t # <<>> /\ Last(t).at + Last(t).pages = d.at
  THEN [t EXCEPT ![Len(t)].pages = @ + d.pages]
  ELSE Append(t, [at |-> d.at, pages |-> d.pages, type |-> E820Type(d.type)])

\* An entry is written behind the last one, and merged with it if they are
\* neighbours of one type.
AddEntry(t, d) ==
  IF t # <<>> /\ Last(t).at + Last(t).pages = d.at /\ Last(t).type = E820Type(d.type)
  THEN [t EXCEPT ![Len(t)].pages = @ + d.pages]
  ELSE Append(t, [at |-> d.at, pages |-> d.pages, type |-> E820Type(d.type)])

\* The map may have grown too large for the room asked for before.
GetMemMap ==
  /\ \/ GoTo("map", "off") /\ UNCHANGED <<memmap, x1, table>>
     \/ /\ GoTo("map", "e820")
        /\ memmap' \in MemMaps
        /\ x1' = 0 /\ table' = <<>>
  /\ UNCHANGED <<readerVars, devices, gdt, todo, goal, img, image, row, rows, line, y, ready, cmdline>>

\* One turn of the loop of fill_e820.  The key of the map may be an old one
\* when the firmware is left.
FillE820 ==
  /\ \/ /\ pc = "e820" /\ x1 < Len(memmap)
        /\ x1' = x1 + 1 /\ table' = AddEntry(table, memmap[x1 + 1])
        /\ UNCHANGED pc
     \/ /\ GoTo("e820", "kernel") \/ GoTo("e820", "off")
        /\ x1 = Len(memmap)
        /\ UNCHANGED <<x1, table>>
  /\ UNCHANGED <<readerVars, devices, gdt, todo, goal, img, image, row, rows, line, y, ready, cmdline, memmap>>

\* The blocks of the buffer when the kernel is entered: the initramfs is
\* copied to its end, and then the kernel to its begin.
Buffer(i) ==
  IF i < Len(image.kernel) THEN image.kernel[i + 1]
  ELSE IF i >= Room - Len(image.initramfs) THEN image.initramfs[i - (Room - Len(image.initramfs)) + 1]
  ELSE Fail

-----------------------------------------------------------------------------
PowerOnAt(list) ==
  /\ pc = "device"
  /\ devices = list
  /\ disk = NoDisk /\ ra = ClearedRA /\ slot = ClearedSlots /\ cur = NoInode
  /\ gdt = <<>> /\ todo = <<>> /\ goal = "config" /\ img = <<>>
  /\ image = [config |-> <<>>, kernel |-> <<>>, initramfs |-> <<>>]
  /\ row = 0 /\ rows = 0 /\ line = 0 /\ y = 0 /\ ready = {} /\ cmdline = <<>>
  /\ memmap = <<>> /\ x1 = 0 /\ table = <<>>

LoaderInit == \E list \in DevicesOf : PowerOnAt(list)

\* All but the keys.
LoaderStep ==
  \/ BlockInit \/ LoadSuper \/ LoadGroups
  \/ LoadRoot \/ StartImage \/ ImageBlock \/ SearchDir \/ Loaded
  \/ ReadLine \/ EndOfConfig \/ BootParams \/ GetMemMap \/ FillE820

LoaderNext == LoaderStep \/ Move \/ Enter

\* The memory of the loader is used again.
Forget ==
  /\ ra' = ClearedRA /\ slot' = ClearedSlots /\ cur' = NoInode
  /\ gdt' = <<>> /\ todo' = <<>> /\ goal' = "config" /\ img' = <<>>
  /\ image' = [config |-> <<>>, kernel |-> <<>>, initramfs |-> <<>>]
  /\ rows' = 0 /\ line' = 0 /\ y' = 0 /\ ready' = {} /\ cmdline' = <<>>
  /\ memmap' = <<>> /\ x1' = 0 /\ table' = <<>>
  /\ UNCHANGED devices

\* main begins again.
Restart == pc' = "device" /\ disk' = NoDisk /\ row' = 0 /\ Forget

LoaderSpec == LoaderInit /\ [][LoaderNext]_loaderVars /\ WF_loaderVars(LoaderStep)

-----------------------------------------------------------------------------
(***************************************************************************)
(* Properties.                                                             *)
(***************************************************************************)

\* Whatever was in the read-ahead buffer and in the six copies, of this file
\* or of those before, the blocks that arrive are those the pointers on the
\* disk lead to.
CachesTransparent ==
  pc = "image" => \A i \in DOMAIN img : img[i] = Mapped(i - 1)

\* The lines of an entry of the file, and the last one of them with a key.
Section(lines, n) ==
  LET heads == {i \in DOMAIN lines : lines[i].key = "ENTRY"}
      Before(i) == {h \in heads : h <= i}
  IN  SelectSeq([i \in DOMAIN lines |-> [n |-> IF i \in heads THEN -1 ELSE Cardinality(Before(i)), l |-> lines[i]]],
                LAMBDA p : p.n = n)
Named(section, key) ==
  LET i == SelectLastInSeq(section, LAMBDA p : p.l.key = key)
  IN  IF i = 0 THEN <<>> ELSE section[i].l.arg

\* What the kernel is given is what the highlighted entry names: its files
\* block by block, as the disk has them, in the buffer; its command line; and
\* the entry is one of those on the screen.  (For a boot.conf that ends with
\* a newline, and files that fit in the buffer together.)
BootsHighlighted ==
  pc = "kernel" =>
    LET lines   == LinesOf(disk.files[<<"boot.conf">>])
        section == Section(lines, row + 1)
        linux   == Named(section, "LINUX")
        initrd  == Named(section, "INITRD")
        k == disk.files[linux]
        r == IF initrd = <<>> THEN <<>> ELSE disk.files[initrd]
    IN  Last(lines).nl =>
          /\ row < MaxRows
          /\ linux \in DOMAIN disk.files
          /\ initrd \in DOMAIN disk.files \cup {<<>>}
          /\ Len(image.initramfs) = Len(r)
          /\ Len(k) + Len(r) <= Room =>
               /\ \A i \in 0 .. Len(k) - 1 : Buffer(i) = k[i + 1]
               /\ \A i \in 1 .. Len(r) : Buffer(Room - Len(r) + i - 1) = r[i]
          /\ cmdline = Named(section, "CMDLINE")

\* The kernel's memory map says of every page what the firmware's says, and
\* has no two neighbouring entries of one type.
Pages(e) == e.at .. e.at + e.pages - 1
MapRight ==
  pc = "kernel" =>
    /\ \A i \in DOMAIN memmap : \A p \in Pages(memmap[i]) :
         \E j \in DOMAIN table : p \in Pages(table[j]) /\ table[j].type = E820Type(memmap[i].type)
    /\ \A j \in DOMAIN table : \A p \in Pages(table[j]) : \E i \in DOMAIN memmap : p \in Pages(memmap[i])
    /\ \A j \in 1 .. Len(table) - 1 :
         table[j].at + table[j].pages = table[j + 1].at => table[j].type # table[j + 1].type

\* Whatever is on the disk and whatever fails, the loader comes to the menu,
\* enters a kernel or returns to the firmware.
Answers == pc \notin {"kernel", "left"} ~> pc \in {"menu", "kernel", "off"}
=============================================================================
