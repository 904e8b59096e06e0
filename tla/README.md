# LFS_files: models, checks and proofs

LFS_files builds a Linux From Scratch system (`src/lfs_build`, shell scripts)
and, in `src/lfs_install`, a freestanding C world of its own that installs and
boots that system: an EFI boot loader, init programs, an installer, cpio, mkfs,
a small C library with a multi-threaded allocator, and a C compiler (`scpp`,
`scc`, `bcode`, `asm`) that can build all of it. This directory models the
parts of `src/lfs_install` that have state of their own, checks the models with
TLC and proves the most important invariants with TLAPS.

`PROJECT.json` holds the exact correspondence (each definition with the lines
it stands for), the runs, one mutant per property, the hazards of the code at
their lines, and the theorems.

## 1. The system and its parts

| Part | State it keeps | Operations | Where |
|---|---|---|---|
| Futex mutex | one 32-bit word per mutex | `mutex_lock`, `mutex_unlock` | `include/lock.c` |
| Zone allocator | a heap from `brk` cut into zones with headers, three red-black-tree indexes of free zones, `__malloc_mutex` | `malloc`, `free` | `include/malloc.c`, `include/templates/*` |
| Red-black trees | nodes with parent, two children, colour | insert, find, delete, next, prev | `include/templates/rbtree*.c` |
| Partition editor | the tables of each disk (GPT or MBR), the list on the screen, the highlighted row, the three roles (efi, boot, root) and what is configured | the keys of four modes | `app/installer/main.c`, `mode0.c` .. `mode3.c` |
| Installation | partition tables, file systems, mounts, two children and a pipe | `do_install` | `app/installer/do_install.c` |
| scpp | macro list, stack of files, line number, conditional counters | every directive, in two passes | `scc/scpp/*` |
| scc | token list, syntax tree, scopes, types | parse, translate to bcode | `scc/scc/*` |
| bcode | functions as flow graphs, variables, registers, stack places | allocate registers, generate x86-64 | `scc/bcode/*` |
| asm | label table, position, pass number | passes over the source until addresses are stable, then the ELF or PE file | `scc/asm*` |
| Allocator of the compiler | the zone allocator without lock plus blocks for small objects | `malloc`, `free` | `scc/include/malloc.c` |
| Boot loader | configuration, read-ahead buffer, six copies of blocks of pointers, memory map | menu, ext2 reading, jump to the kernel | `boot/*` |
| init, install_init | mounts, signals | find the root by its id, switch to it, shut down | `app/init`, `app/install_init` |
| cpio, copy, remove | trees on disk, a stream | pack, unpack, copy, remove | `app/cpio`, `app/copy`, `app/remove`, `include/path.c` |
| mkfs | layout and bitmaps of a new ext2, ext3, FAT | one run each | `app/mkfs.*`, `include/ext2.c`, `include/fat32.c` |
| Image builder | an image file | compile, copy, append | `build.c`, `include/build.c` |
| Build scripts | a directory under construction | download, configure, make | `src/lfs_build` |

How they interact. The kernel starts `install_init`, which forks the
installer. In the installer the editor (modes 0 to 3) writes partition tables
in memory and, with all roles given, hands over to `do_install`, which writes
the tables to disk, runs mkfs, mounts, and fills the root partition with `xz -d`
writing into a pipe that `cpio -U` reads. After the reboot the boot loader
reads a configuration and a kernel from ext2 or FAT, and `init` mounts the root
whose first 16 bytes of `/dev/*` carry its id. Every program uses the
allocator, the allocator uses the mutex and the trees. The compiler programs
run one after the other over files: scpp, scc, bcode, asm.

The hard behaviours are of four sorts. *Interleaving:* the mutex and allocator
under threads, and the pipeline of two children. *Partial failure:* `brk`
refusing, and any of the thirty-odd system calls of an installation failing,
most of which are not looked at. *Long histories:* the editor, where a
destructive act rests on what dozens of keys made of the tables before; the
allocators; the trees; the nesting of files and conditionals in scpp.
*Fixpoints:* the data flow of bcode and the passes of asm, which have to end and
be right for every program, not for those in the test directory.

What makes each part correct, and where it is stated:

- mutex: one holder, no wake-up lost, no thread left waiting: `Mutex`;
- allocator: areas of live pointers are long enough and disjoint, whatever the
  interleaving and whenever memory is refused: `Allocator`, which `Malloc` and
  `BlockMalloc` are shown to implement;
- trees: answers of an ordered set; balance: `OrderedSet`, `RBTree`;
- editor: nothing is formatted that was not created in this session, partitions
  never overlap, nothing of a partition is lost that was not deleted: `Installer`;
- installation: whatever fails, nothing is written in the wrong place; if
  nothing fails, the machine boots: `DoInstall`;
- scpp: a line is skipped exactly when C skips it, and messages name the right
  line: `Scpp`;
- bcode: a function reads from every variable what it last stored there:
  `RegAlloc`; and each line leaves in its variable what the line says, in the
  variable's class, and nothing else changes: `Bcode`, which `CodeGen` is
  shown to implement;
- scc, translation: a wrong file is refused, and the lines of any other do
  what the file means: `Translate` against `CMeaning`, in `Compiled`;
- asm: every branch arrives at its label and the passes end: `Assembler`;
- boot loader: the caches show what is on the disk, the entry on the screen is
  the entry that is booted, the kernel gets its memory map: `Ext2Reader`, `Loader`;
- init: the root that is mounted has the id it looks for, a shutdown loses
  nothing and ends: `InitProcess`; from the firmware to that root and back: `Boot`;
- cpio, copy, remove: what arrives is what was there, or it is noticed: `Cpio`,
  `CopyTree`;
- mkfs: what was written is where a reader of that file system looks for it:
  `Mkfs`, `MkfsFat`.

## 2. Modules

Specifications hold the state, one action per operation, and the properties,
each under a comment. `MC*` modules give TLC its instance. `*Proofs` modules
hold the theorems.

### Mutex (`include/lock.c`)

`word` is the futex word, 0 or 1, `lpc` the place of each thread. The actions are the
memory accesses and system calls of the two functions: the exchange that takes
the lock (`Xchg`), the futex wait, which compares the word and sleeps in one
step of the kernel (`FutexWait`), the store of `mutex_unlock` (`Release`) and the
wake (`Wake`), which comes after the lock is already free. The word says taken or
free and never that somebody waits, so every unlock makes the call, mostly for
nobody; `NoLostWakeup` says that the opposite, a sleeper whom nobody will wake,
never happens. `LockRight` is this, exclusion, and that the word tells the holder. `spin_lock` has no
caller and is left out.

### Allocator, Malloc (`include/malloc.c`)

`Allocator` is what clients rely on: a set of live areas that do not overlap.
`Malloc` is the code: `malloc` and `free` under `__malloc_mutex` (an instance of
`Mutex`, so the interleavings are those of the real lock), with the zones by
address and header, the indexes by (size, address), the search for the best
fit, the splitting, the growing of the heap in the three granularities of the
code, the merging with both neighbours, and the giving back of a long last zone
with `brk`. Nobody looks whether `brk` has taken it. If not, its memory is in no index
and below the break for ever; `lost` has these zones (Linux hardly ever refuses).
`GivenBack` counts from there: with nothing in use, less than the trim threshold is
left above a lost zone, or above 0. Each index is a set of keys; that the trees behave like one is
`RBTree`'s subject. Sizes are counted in a unit of the model; the constants
(`Align`, `Overhead`, `SmallReq`, ...) carry the code's numbers, scaled.
The wrap of a size within 16 bytes of 2^64 is not modelled (it is listed
as a hazard).

### OrderedSet, RBTree (`include/templates`)

Nodes with parent, children and colour as fields, `find`, `insert`, `delete`,
`next` and `prev`. One turn of a loop is one step: of the walks down a search, an
insertion or a deletion makes, of the walks to the next node, and of the loops that
restore the balance. The two mirrored halves of each of these are one action with
the side as its parameter. `phase` says which loop is running; while one runs there
is no answer. Fields of a node that is not in a tree are reset in the model, since
nothing reads them. `OrderedSet` is a set and what a call (`Call`) of it does and
answers; `Refines` is that the tree shows no more than that, `RedBlack` that it is
balanced. `RBTreeProofs` proves both for any number of nodes.

### BlockMalloc (`scc/include/malloc.c`)

Small objects are cut one after the other out of a block of 64 KiB; the head of an
object says how far it is from the head of its block, and the head of the block
counts its objects. The last object that is freed puts its block on the list of kept
blocks (`freeBlocks`, linked through the same word that counted) or, with `MaxFree`
of them there, gives it back. Large objects, and small ones when no block can be had, are
zones of their own. The zone allocator below is used by its promise (`Places`: any
area that touches no zone, or none), because its code is that of `Malloc` without
the lock. `CountsRight`, `KeptRight` and `NoLeak` relate the words to the objects
the client holds (`objs`); `ClientSpec` is the view from outside.

### Installer (`app/installer`)

`table` is `gentries`, the entries of the disk that is open, in slot order; `mbr`
is the static array in which `load_pt_mbr` makes them and which nobody clears;
`path` has the rows of the list on the screen, partitions and free spaces in
sector order; `mode`, `submode`, `selected`, `dev`, `role` (`efi_p`, `boot_p`,
`root_p`), `config` and the fields of mode 2 are the globals of the program. Every key that changes state is an action,
with the refresh of the list that ends its handler. `pt_next_pos` is modelled as
the code walks: the least start not below the position. A MiB is `Mib`
sectors and rounding is that of the shifts, so alignment matters as in the
code. What is drawn, names and GUIDs are left out. Two modes of a disk, GPT with
`NSlots` entries and MBR with `MbrSlots`, differ as in the code.

### DoInstall (`app/installer/do_install.c`)

One action for each step of `do_install` in its order, with two outcomes where
the call may fail, and the two children as processes of their own: xz writes
what the pipe has room for (`Capacity`), cpio reads what is there and unpacks,
and the parent closes its ends and waits. Loops like `while(umount(...))` are loops
in the model: they spin. What goes to disk is kept per partition: which file
system, which files, and through which mount a file was written, because
`do_install` writes to a directory whether or not something is mounted there.
`sync` is left out: what is in the page cache counts as written.

### Scpp (`scc/scpp`)

A program is a set of files, each a sequence of lines; a line is a directive
with its macro, or text. The first pass is `load_file` with its recursion as a
stack: the four numbers `condc_levels`, `condc_ignore`, `condc_else` and the
depth of includes, the table of macros, joined lines and the line number of
messages. The second pass goes over the output and defines and undefines the
macros again. The history variable `cond` is what C says of the open
conditionals; nothing the program does depends on it. Macro expansion is left
for a later module.

### RegAlloc (`scc/bcode/fg.c`, `reg.c`)

A function is a sequence of lines with reads, writes, address-taking, calls and
branches. `Compile` goes through the code's own steps: branches and labels,
`reg_init` (the three passes that choose candidates, batch by batch), def and
use per line, the iteration of `calculate_df` to its fixpoint, and `get_reg`,
which gives each variable of the batch a register whose other owners are not
live with it. Then the compiled function runs on a machine with one value per
place, next to an ideal one with one value per variable: `ReadsRight` compares
every read. What `Compile` iterates over is a bit vector of `Batch` variables.

### Words, Machine, Bcode, CodeGen (`scc/bcode/gencode.c` and what it includes)

`Words` has the ten classes of bcode and numbers in words of 1, 2, 4 and 8 bytes;
a byte has `Byte` bits. `Bcode` is the abstract specification: what a line
means for numbers in variables, without places. `Machine` is the processor,
modelled from the instructions that the source prints: registers written in
part (4 bytes clear what is above, 1 and 2 do not), memory by bytes, the stack, the
flags as the comparisons that jumps read. `CodeGen` is the source: each
generator (`gen_mov`, `gen_basic_op` with its `lea`, `gen_mul`, `gen_div`,
`gen_mod`, the shifts, `gen_branch`, `gen_ld`, `gen_st`, `gen_push`, `gen_call`,
`gen_retval`, `gen_neg`, `gen_not`, `gen_adr`, and prologue and epilogue) is an
operator that gives the instructions it prints, with the choices it makes by
class, by place and by constant, and an action of the same name runs them on
the machine. A variable is the low bytes of its register or memory; what is above
them is arbitrary, so that a missing extension shows. The refinement mapping
reads the variables from their places. A branch is recorded (taken or not) rather than
followed, since one line at a time is compared. `ret`, labels, `bal` and
`asm` lines print one fixed text each and are left out, as are strings.

### Assembler (`scc/asm.c` and `scc/asm/*`)

A program is a sequence of lines: labels, jumps and conditional jumps, calls,
immediates and constants that name labels, data, `.align`, `.offset`, `.addr` and
`.entry`. One step is one line of one pass: position, label values and the
lengths chosen with the values of the previous pass, and `changed`. The last
pass writes. Encodings are their lengths and, for a branch, the distance
that is written.

### Translate, CMeaning, Compiled (`scc/scc/translate`)

`Translate` is the translator: one operator for each function of the source, of
the same name, from a node of the syntax tree and the state `t_env` (as a record
`e`) to the next state, with the lines written so far in `e.out`. An lvalue is what
it is in the code: a name, an offset that nobody has added yet, and a flag that
it still has to be loaded; every operator uses these up in its own way. Nodes,
types and lines are records; strings are never taken apart. The operators for
numbers share `Numbers`, whose files differ only in the name of the instruction;
`+=`, `-=` and `++` share `Update`.

`CMeaning` says what a file means without any of that: a place in the tree is
executed with a memory from objects and ways into them to values; there are no
labels, offsets, temporary variables or scope numbers. It also says which files
are wrong (`WellFormed`: names, redefinitions, breaks, labels). `Compiled` puts the
two together: the lines of a translated file are run, one a step, on a machine with
bytes, and at the end must have called the same functions of the environment
with the same arguments in the same order, returned the same, and left nothing
pushed. What a line does is what `Bcode` says of it, for the two classes used here.

### Ext2Reader, Loader (`boot/*.c`)

`Ext2Reader` is how a block comes off the disk: `ext2_read_block` fills the
read-ahead buffer and answers out of it, `ext2_file_read_block` walks from an inode
to a block of the file, and `ext2_cache_load` keeps a copy of the last block of pointers
for each of the six places in the tree. A block in memory is the number of the block whose
bytes arrived, so a stale copy shows; `CachesTransparent` says that every copy whose
tag could be used holds the block of its tag. `Loader` is the rest of
`boot/main.c`, `ext2_load.c` and `do_boot.c`: the search for the partition whose
id the loader carries, the superblock and the group descriptors, paths, the menu
(which counts entries on its own) and `boot_from_config` (which counts them
again), the one buffer that the kernel fills from below and the initramfs from above,
and the memory map with its merging in place, one entry a step. Every call of the firmware may fail. The
properties compare what was loaded with the file system as it was laid out by hand
(`files` in `BootDisks`), not with another reading.

### InitProcess, Boot (`app/init`, `app/install_init`)

`InitProcess` has both first processes: `main` step by step, and the handlers as
a stack, since a signal may interrupt `main`, the kernel starting it, or another
handler. Devices come and go during the search for the root. `Boot` composes
loader, kernel and first process. `KernelStarts` gives the process the
initramfs that lies where the loader put it; `Restart` leads back to the
firmware. `RootOfEntry` is a property of the whole: the partition that becomes
the root carries the id of the initramfs of the highlighted entry.

### Cpio (`app/cpio/main.c`, `include/sock_read.c`)

Bytes are records that say which byte they are, of which header, name or
file, so whatever is lost or shifted shows. `do_cpio_pack` goes over the entries of a
tree in the order of its recursion while somebody else appends to a file, cuts one
short or removes one. The archive then goes through a pipe that `xz` may leave
at any time, and `cpio_unpack2` reads what it can get at a time. Write results are not
looked at in the code, nor here: on a full disk the archive just ends (`room`), and on
a full target the reader goes on with files that have only their beginning and
without directories that could not be made (`space`). Only a link or a file that cannot be made
ends it. `Faithful` says what success then still means: `CutShort` is all that a full target may
do, and only a full one. The room of the target does not grow while it unpacks.

### CopyTree (`app/copy`, `app/remove`, `include/path.c`, `include/dirent.c`)

A file system is a function from inodes to directories, files, links and others.
`stack` has the open directories of the recursions of `copy_dir` and
`do_remove`, and each remembers the names that the last `getdents64` gave. Walks
go name by name, with `..` and links as the kernel takes them.

### Mkfs, MkfsFat (`app/mkfs.ext2`, `app/mkfs.ext3`, `app/mkfs.fat`)

The layout is computed as the code does, in integers, then the groups, the
journal and the tables are written in the code's order; the disk is a
function from blocks to what was written last. `LayoutRight` reads that disk the way
`ext2_load.c` and a kernel do: every descriptor and table is where it is looked
for, every bitmap marks what is in use and no more, counts are those of the bitmaps, the
journal's blocks are its own. `FatRight` does the same for a FAT.

### MCMemory, MCCompiler, MCTools

These put small programs side by side that do not see each other: a variable
says which of them runs, the others stay in their initial state. What a run of one of
them would show, the run shows of each.

## 3. Runs

| Run | Instance | What it shows |
|---|---|---|
| `MCMemory` | 4 threads at a mutex; trees of 7 nodes; a block of 8 units, sizes 1, 2, 4, large from 3 | mutex: exclusion, the word tells the holder, no lost wake-up (`LockRight`), progress; trees: red-black, answers of an ordered set (`RedBlack`, `Refines`), fix-ups end (`MemoryGoesOn`, with `Progress`); blocks: counts, kept blocks, no block lost (`BookKept`), allocator implemented (`ClientSpec`) |
| `MCMalloc` | 2 threads, sizes 0, 1, 7, heap up to 20 units | zones tile the heap, indexes, headers and owners agree, no leak but what `brk` does not take back (`ZonesRight`), free neighbours merged, end trimmed, the abstract allocator implemented |
| `MCInstaller` | 3 disks of different kinds, 3 slots, a MiB of 2 sectors | the highlight, the roles and the condition for installing (`RolesRight`), soundness of the tables |
| `MCInstallerUneven` | a disk another tool partitioned | **violation**: see section 6 |
| `MCScpp` | two macros, includes two deep, eight lines, joined lines of one or two | skipping, line numbers, second pass |
| `MCScppElse` | the same | **violation**: see section 6 |
| `MCDoInstall` | archive 5, padding 2, pipe 2 | placement of files and children (`KeepsApart`), mounts, booting and ending unless something failed |
| `MCRegAlloc` | 864 functions of six variables, batches of 2, one register | live sets are the least solution, reads are right, compilation ends |
| `MCCodeGen` | bytes of two bits, three variables in registers or memory and an object, numbers at the ends of their classes | the instructions of each line do what the line means and touch nothing else (`Implements`); a function gives registers and stack back (`CalleeSaves`) |
| `MCCompiler` | asm: all programs of five lines with both labels once, and of three lines whatever they are; scc: 589 files (350 of a condition in a statement, 85 of operators on places, 128 of names in scopes, 26 odd ones), with all sequences of three answers of the function they ask | asm: branches arrive (`BranchesArrive`), the passes end; scc: wrong files are refused, lines mean what the file means (`CompiledRight`), and end (`AllEnds` is both ends) |
| `MCBoot` | five machines: ext2 partitions of four layouts (blocks of one, two and eight sectors and of a quarter of one, two groups, holes, a file up to the third level of pointers), two memory maps, two devices that come and go | caches (`CachesTransparent`), menu against boot (`BootsHighlighted`), `MapRight`, the root of the entry (`RootOfEntry`), nothing lost at a shutdown (`NothingLost`), the loader ends (`Answers`), a shutdown ends (`ShutsDown`), a root that stays is found (`RootFound`) |
| `MCTools` | cpio: trees with every padding, disks that are full at three places of the archive and three of the data, or not, a pipe of 2 bytes; copy and remove: two file systems with links out of the tree, a fifo and mergers, 18 copies and 12 removals; ext2/3: all sizes up to ten groups of 40 blocks at which tables begin to fit; FAT: 7 to 600 sectors | `Faithful`, `BothEnd` (cpio), `TreesRight` (copy, remove), `LayoutsRight` (mkfs) |

Why the bounds are enough.

- *MCMemory:* a lost wake-up needs a holder, a sleeper, one between its exchange
  and its wait, and one that takes the lock meanwhile: four.
  Seven nodes make a tree in which one insertion climbs two levels, and in which
  each case of the deletion loop fires. A block holds two or more objects of each class,
  and one more empty block than is kept can come to be.
- *MCMalloc:* the thresholds are small enough that every path of the code fires
  within 20 units: exact fit, split, growing with and without a free last zone,
  refusal to grow and to shrink, merging with either and both neighbours, trimming. The lock allows
  one thread inside at a time, so a third thread would add only orders.
- *MCInstaller:* three slots are what it takes for a space between two
  partitions and for three roles at once; the disks are empty, partitioned, and MBR.
- *MCScpp:* two macros give a branch taken and one not; depth two is an include
  inside an include; eight lines hold a conditional with an else inside each
  branch of another.
- *MCDoInstall:* the archive exceeds the pipe, so xz blocks, and the padding
  after it makes cpio stop before the end of the stream.
- *MCRegAlloc:* one register makes every pair of live variables compete, two in a
  batch and six variables make several batches, the data flow goes round loops.
- *MCCodeGen:* two bits to a byte keep sign and zero extension, truncation and
  carry into the upper half apart. A line has at most three operands, so three
  variables in every mixture of register and memory, with the aliases `a, a, b`,
  `a, b, a` and `a, b, b`, are all the places there are. Lines of two
  operands take all ten classes; lines of three take s8, u16, s32, u32 and s64,
  and the two floats among themselves, which has every order of widths and
  both signs at one width. The words above a variable are all ones
  or all zeros: wrong extensions show in one of the two. Two function bodies
  make arguments, calls and saved registers meet.
- *MCCompiler, asm:* `Reach` 8 puts the choice between short and long forms among
  five lines; two labels are needed for two branches that depend on each other. The
  five lines are of the kinds with a length of their own, the three are of every kind.
- *MCCompiler, scc:* 35 conditions (every comparison, constants, `!`, `&&`, `||`
  two and three deep on either side) stand in each of ten statements, with
  breaks behind an inner loop and jumps both ways; `ask` gives each sequence of three
  answers and then 1 and 0, after which, or after 15 calls, both sides stop at the
  same call, so a loop that never ends is only let be where the file has one that
  goes on asking; of answers that differ where the file does not ask for them one
  is tried. Every operator is applied to each of
  34 ways to write a place (variable, static, argument, element, member, through pointers, combined),
  every other place holds a number of its own, and all of them are looked at
  afterwards. `n` is declared, or not, outside, in three blocks and as
  the argument, each as a local, a static and a byte. A byte of 32 values and a
  word of two bytes hold the addresses of all these and keep widths apart.
- *MCBoot:* with two direct pointers and two pointers in a block, sixteen blocks
  are three levels of pointers; the partitions have files that end in each. The
  read-ahead buffer holds 16 units and partitions end inside it. Two rows
  and three entries make the menu stop before the file does.
- *MCTools, the target disk:* with room for 0, 2 or 6 bytes it gets full in the first file at once,
  in its first chunk and in its second (or in the second file), before a directory is made, before a file
  in a directory that is not there, and before an empty directory that a file follows.
- *MCTools:* headers of 2 bytes and chunks of 4 put name, data and end at every
  position against the multiples that the code pads to; ten groups pass
  through 0, 1, the powers of 3, 5 and 7 that hold copies of the superblock, and two blocks of
  descriptors; the journal reaches the doubly indirect blocks; for FAT,
  sectors per cluster go from 1 to where the code stops.

`VIEW` in `MCInstaller` leaves out the variables of mode 2 outside mode 2
and the place of entries that are empty: the code writes both before it reads
them. `SYMMETRY` permutes threads (no action names one) and, in `MCScpp`, macros
(the initial state has none of them defined or all alike).
`CHECK_DEADLOCK FALSE` stands where the program ends (`MCCodeGen`: after its last line) or waits for a key that
the bounds no longer allow; `MCMalloc`, `MCMemory` and `MCBoot` check for deadlock.

## 4. Fairness

- `Mutex`: weak fairness of each thread's steps inside lock and unlock, and of
  leaving the critical section: the scheduler runs what can run, and no caller
  in the repository keeps a mutex. Nobody is made to ask for the lock. Under it
  `Progress` says that if somebody wants the lock somebody gets it; that *this*
  thread gets it is not promised by the code (exchange is not a queue).
- `DoInstall`: weak fairness of the installer's own steps and those of the two children,
  one process each, so they run when they can. A step that fails for ever is
  not excluded: the property is conditional on nothing failing.
- `RegAlloc`, `Assembler`, `Compiled`: one sequential program that runs until done:
  weak fairness of its steps.
- `RBTree`: weak fairness of the turns of a call that has begun (`Proceed`); nobody is
  made to call.

- `Boot`: weak fairness of the loader's steps but not of the keys (`Answers` leads
  to the menu, the kernel, or back to the firmware), of the kernel starting, and of
  the first process's steps, `main` and handlers. Signals and devices need not
  come. A child of `main` ends only by itself; `RootFound` is conditional on a
  device with the id being there and staying.
- `Cpio`: weak fairness of packing and unpacking, and of `xz`, which goes on or ends.
- `CopyTree`, `Mkfs`, `MkfsFat`: none; only what they leave behind is promised.

## 5. Proofs

Every theorem holds for all values of the constants that the named assumption
of its module allows; TLC evaluates each assumption in the runs.

| Module | Assumption | Inductive invariant, and why the property alone is not inductive |
|---|---|---|
| `MallocProofs` | for the mutex none; `MallocAssumption` (the header lies inside the overhead, the heap grows by no less than the request, nothing is negative) | `LockInv`: `WordTellsHolder` with the place of every thread, since exclusion alone says nothing of the word that the next exchange reads. `IInv`: that, what each place inside `malloc` and `free` knows of the zone it works on (`StepsInv`, `LocalsInv`), and the structure of the heap outside that zone. `CoInv` for merged neighbours; `TrimInv` for `GivenBack`: a last zone over the limit, with nothing before it but what `brk` refused, is in the hands of a thread that will cut or trim it; the zone before any other is found as the greatest below it |
| `RBTreeProofs` | `NodesAssumption` (nodes are positive numbers, the null pointer is 0) | `Inv`. *Order* (`Grown`): every node has two bounds, the nearest nodes above it on either side; a kid inherits them, its parent being the new one, and where a kid is missing there is no node between a node and its bound. The order of parent and kid alone is lost by a rotation, which moves a whole subtree under another parent. *Balance* (`Level`): every node has one height in black nodes, with one black less on the side where a deletion has not made up for it yet. `RedBlack` counts the black nodes of each path, a sum that no step changes locally; that it is the height of the root is shown over any set of nodes. *Loops*: the node looked for lies between the bounds of the place the walk has come to (`Walks`); only the two loops that restore the balance have red below red, and at one place (`Colors`). `Refines` follows from the same invariant: a walk that ends at a missing kid has the answer `Null` since no node of the set lies between the bounds |
| `CompilerProofs` | `BlockMalloc`: `SizesAssumption` (addresses are positive, the smallest block holds a small object and its heads, one block may be kept) | `Inv`: every object lies in the zone its head leads to, objects follow each other with their heads between them, a block in use counts its objects, what lies behind `off` is free, and the kept blocks are the elements of a sequence without repetition that the links follow. `BookKept` alone does not say that the first word of a kept block is the link of *this* list, nor that objects of one block leave room for each other's heads |
| `CompilerProofs` | `Assembler`: `ProgramAssumption`, `BaseAssumption`, `ReachAssumption` | `AsmInv`: the lines lie where the last pass put them (`LinesPlaced`) and, if it changed nothing, where the labels say |
| `InstallerProofs` | `InstallerAssumption` | `MenuInv` for highlight and roles: the role keys in mode 1 rest on what modes 0 and 3 left; `GapInv` for `SoundKept`: the space that mode 2 offers was found before the numbers were typed and still touches no partition. `LeastNat`, that a set of naturals has a least element, is what the walk over the entries rests on; it stands in each module that needs it |
| `ScppProofs` | `ScppAssumption` | the four numbers against the history `cond` on every level of nesting, across includes |
| `DoInstallProofs` | `DoInstallAssumption` | `InstallInv`: which partition is mounted where at each step (`Place`), which child is alive (`Children`), what has been made so far (`Made`) |
| `RegAllocProofs` | `BatchAssumption`, `VarsAssumption`, `FunctionsAssumption` | `AllocInv`: the data flow is closed under the equations (`Solved`), places of variables that are live together differ (`Apart`), also between batches (`MapsApart`), and the running machine agrees with the ideal one on what is live. For `LiveRight`: every bit of the data flow is below every solution of the equations, at every turn of the rounds, and at the end it is one |
| `BootProofs` | `LoaderAssumption` (a partition's block, group and inode sizes, which the loader divides by, are not 0, its numbers are natural, a memory map is a sequence of entries) | `ShutInv` for `NothingLost`: what is still mounted or alive at each step of a shutdown, whichever handler is on top. `ReadInv` for `CachesTransparent`: the read-ahead buffer holds the sectors after its tag as they are on the disk, and each of the six copies the block of its tag. `MapInv` for `MapRight`: after every entry the table says of each page what the entries so far say |

Type correctness of the modules with proofs is `TypeCorrect` (in `CompilerProofs`
`BlockTypeCorrect` and `AsmTypeCorrect`; in `MallocProofs` also `LockTypeCorrect`),
for all values of the constants; in `CodeGen` a machine of the wrong type would not match `Bcode`.
`LockRight`, `ZonesRight`, `RolesRight` and `KeepsApart` are conjunctions of
older properties, which have theorems of their own.

Proved: all safety invariants of the runs of `Mutex`, `Malloc`, `RBTree`, `BlockMalloc`,
`Installer`, `Scpp`, `DoInstall`, `RegAlloc` and `Assembler`; `NothingLost` of
`InitProcess`, `CachesTransparent` of `Ext2Reader` and `MapRight` of `Loader`; the
action properties `SoundKept` and `MountedUntouched`; that `Malloc` and
`BlockMalloc` implement `Allocator`; and that `RBTree` implements `OrderedSet`. The theorems of `BootProofs` are about
`BootSpec`, the composition, so they hold through every restart.

Only model-checked: everything under fairness (liveness is out of the prover's
reach), the end of the loops of `RBTree` among it; `CodeGen` and its
refinement of `Bcode` (both need `Bitwise`, which the prover cannot use); the
translator (trees need recursive operators); `BootsHighlighted` and `RootOfEntry`
(what the menu counts and what booting counts again are both `SelectSeq` over the lines
of a file: an induction over data); `Faithful`, `TreesRight` and `LayoutsRight` of the
tools; the two violations.

## 6. Where the code and its own words differ

- **`MCInstallerUneven`.** Free space starts at the sector after a partition,
  rounded *down* to a MiB (`pos>>11`). If the partition before does not end on a
  MiB boundary, the new one starts inside it. Mode 3 tells the user that the data
  of the partition to be deleted is lost; here the data of one is lost that nobody deleted.
- **`MCScppElse`.** A conditional with an `#else` inside a skipped `#else` branch
  stops scpp with "#else without #ifdef or #ifndef.".

Met while modelling and not run: most results of system calls are not looked
at, so after a failed step of `do_install` the installer may say "Complete!". The editor's walk starts at sector 2048, so a
partition that starts below it (sector 63 was usual) is not listed and its sectors are
offered, which breaks `OnlyDeletedLost` in the same way. No line of the repository
promises otherwise of what follows: the assembler's passes need not end for programs with
`.align` between a branch and its label (`jmp a; jmp a; jcond b; label a; align;
label b`) or with a label immediate that was short in the first pass (`jmp 2; jmp 1;
jcc 1; label 2; data 1; imm 2; label 1`); the compiler emits neither. For the same
reason `Ends` of `Assembler` is stated for the programs it is stated for. In
bcode a `local mem` of size 0 declared before a variable whose address is taken
leaves the size of the one before in use; `VarsAssumption` has sizes positive,
and scc emits no other.

Some lines of bcode get code that does not compute what the line says. No text of
the repository promises otherwise line by line, so they are no run; `Implements`
is checked for all lines of the instance but these, which `MCCodeGen` excludes by
name (`Kept`). Each of them does fail when it is let in.

- `AddsNarrowRegister`: the destination in memory, another variable as first
  operand, the second one in a narrower register. The register is added in its own
  width and the sum extended afterwards.
- `AddsWithLea`: an addition of three registers into 64 bits with a signed
  operand of 32 bits or fewer, which is extended to 32 bits only.
- `MultipliesByHighBit`: a product with 2^32 or a higher power of two in a
  register narrower than 64 bits becomes a shift whose count is masked.
- `DividesBytes`: the division of 8-bit values prints its instructions without
  a newline between them.
- `ModLooksElsewhere`: `gen_mod` tests the class of the first operand where it
  divides by the second one in memory (`mod.c`): the wrong sign, or a null
  pointer if the first operand is a constant.
- `UnaryReadsTooMuch`: `neg` and `not` to a register from a narrower variable in
  memory read all the bytes of the register.
- `StoresByNarrowPointer`: a constant stored through a register narrower than
  64 bits; the pointer is not extended.
- `FloatsGoWrong`: mixtures of integers and floats. `reg_extend` converts a
  register in place, also when it holds a live variable; `acd_extend` from integer to
  float lacks a newline; an hfloat constant prints 0; a float operation with a
  constant operand takes integer bits; pushing a small constant as a float pushes
  its integer bits; u64 from 2^63 on converts as signed.

The translator takes a language that is close to C and not C. Where the two
differ no text of the repository says which is meant; the files of `MCCompiler`
leave these programs out:

- `p[i]` with a pointer `p` calculates both operands twice (`calculate_index`,
  then `calculate_index_ptr`): calls and assignments in them happen twice.
- `scale_result` keeps the type of the index, so an index of 8 bits into an array
  of words wraps from 32 on.
- The result of an operation has the type of its left operand; the value of
  `c = 300` is 300 also if `c` is a byte; the result of `++` and `+=` on a variable is
  the variable itself, which later operands may change. There is no postfix `++`.
- Constants are unsigned, also when the compiler compares them.
- `*a = 5` with an array `a` is refused, like initializers and `extern`.
- Of a label defined twice nothing is said. A declarator behind a prototype in
  one declaration is not counted as a definition (`nodefine` stays 1).
- `type_cmp` looks neither at the names of structures nor at lengths of arrays.
- `calculate_relop`, `calculate_lnot`, `calculate_land` and `calculate_lor` are
  never called.

What the boot chain rests on, and no text of the repository promises or denies:

- The loader reads as many blocks of descriptors as a shift by blocks+5 gives,
  which is right only up to 2^(block_size+5) groups (16 GiB with blocks of 4 KiB);
  the model's partitions are below that.
- The last line of a `boot.conf` without a final newline loses its last character.
  `BootsHighlighted` and `RootOfEntry` are stated for files that end with one.
- Kernel and initramfs of more than 128 MiB together overlap; the rows of the e820 table
  are counted in an unsigned char and written to one page. Neither is checked by
  the code; the instance stays below both.
- A kernel file without blocks is jumped to with whatever setup header is in memory.
- After `chroot` the shutdown's `umount` of `/root/...` goes nowhere; the `sync`
  after it is what keeps data, and `NothingLost` is about that.
- A name is taken not to be given to another disk between the look at its id and the mount.

And of the tools:

- cpio ignores what its writes return. A full disk leaves an archive that just
  ends, and the reader notices that the last entry is missing. `Faithful` says
  that what differs is noticed by one of the two, except for two cases.
  A file that is *cut short* while it is packed has a header with the old
  size, and the reader takes the following entries for its data. Nobody notices
  unless the positions happen not to fit. `Faithful` exempts that file and what
  follows it. And the reader's own writes (`main.c:458`, `:467`) and `mkdiratl` (`:412`)
  may fail on a *full target*: `cpio -U` then returns 0 though files end early and
  directories without a link or a file in them are missing. `Faithful` lets a full target do this and
  nothing else.
- `sock_read` never ends on a regular file that is too short; the installer gives it pipes.
- `copy` into itself leaves an empty directory and fails; a target that exists and
  is no directory fails it; an existing link to a directory is followed; what is neither
  file, directory nor link is skipped with success. `remove` follows its argument
  for the look at the working directory, so a dangling link and a link to a directory
  that contains it are refused.
- `mkfs.fat` rounds the sectors of a table down, so that on disks below 17022
  sectors (8.3 MiB) the last clusters may have no entry. `FatRight` asks for entries from
  as many clusters on as make that loss impossible. The installer's EFI
  partition is larger by far. On disks below some 640 sectors the table has no sector at all;
  the installer makes none below 1 MiB.

## 7. What is not modelled, and why

- *asm, instruction encoding; scc, parser:* functions from text to bytes or
  trees without state that lives on (below).
- *scc, translation:* floats, strings, `asm`, namespaces, several names in a
  declaration, the classes between u8 and u64, and the checks of which types may be
  declared (`decl_check`, `struct_check`). Of bcode: the text of lines
  that are copied (`asm`), strings and labels.
- *image builder:* a straight line that stops at the first failure.
- *partition tables:* structures and a CRC; what is done with them is in
  `Installer` and `DoInstall`.
- *libraries:* stubs and byte loops; their use is in the modules of the callers.
- *build scripts:* one command after the other under `bash -e`; the state they
  change is that of other projects' build systems.

`PROJECT.json` lists hazards of the parts that are modelled, each with the
properties that would show it.

## 8. Plan

In order of what matters most to the system; done so far is 1 to 12.

1. `Mutex`, `Allocator`, `Malloc` and their proofs.
2. `Installer` and its proofs, the run on a disk partitioned elsewhere.
3. `Scpp` and its proofs.
4. `DoInstall` and its proofs.
5. `RegAlloc` and its proofs.
6. `Assembler` and its proofs.
7. `RBTree` implementing `OrderedSet`, and its proofs.
8. `BlockMalloc` implementing `Allocator`.
9. `CodeGen` on `Machine` implementing `Bcode`.
10. `Ext2Reader`, `Loader`, `InitProcess`, and `Boot`, which composes them.
11. `Cpio`, `CopyTree`, `Mkfs`, `MkfsFat`.
12. `Translate` against `CMeaning`, in `Compiled`.
13. Macro expansion of scpp, instruction encoding of asm, the parser.
14. The two build scripts with logic of their own (`chroot_run.sh`, `best_mirror.sh`).

Proofs to come: what a function of `CodeGen` gives back, which needs a model of its
bit operations that the prover can use, and `Cpio`'s positions.
