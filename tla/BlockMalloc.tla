----------------------------- MODULE BlockMalloc -----------------------------
(***************************************************************************)
(* The allocator of the compiler's programs (scc/include/malloc.c).  Small *)
(* objects are cut one after the other out of a block of 64 KiB that comes *)
(* from the zone allocator; a block counts its objects and is kept for the *)
(* next time, or given back, when the last one is freed.  Large objects    *)
(* are zones of their own.                                                 *)
(*                                                                         *)
(* The zone allocator (__malloc, __free) is that of module Malloc, whose   *)
(* promise, Allocator, is used here: any area that touches no live one, or *)
(* none.  Addresses and lengths count units of 16 bytes; a head, of an     *)
(* object or of a block, has one unit, of which the first word is used.    *)
(* There are no threads here, so a call is one step.                       *)
(***************************************************************************)
EXTENDS Naturals, Sequences, FiniteSets, Functions

CONSTANTS
    Addresses,      \* where the zone allocator may place an area
    Sizes,          \* what a client asks for (xmalloc asks for 16 bytes at least)
    Large,          \* larger objects get a zone of their own [0x800]
    BlockSize,      \* the length of a block [0x10000]
    MaxFree         \* how many free blocks are kept, FREE_BLOCKS_MAX [64]

SizesAssumption ==
    /\ Addresses \subseteq Nat \ {0}
    /\ Sizes \subseteq Nat \ {0}
    /\ Large \in Nat /\ BlockSize \in Nat /\ Large + 3 <= BlockSize
    /\ MaxFree \in Nat \ {0}

VARIABLES
    zones,          \* what __malloc handed out: address -> length
    mem,            \* the first word of every head: address -> word
    freeBlocks,     \* __free_blocks
    freeCount,      \* __free_blocks_count
    block,          \* __malloc_block
    blockSize,      \* __malloc_block_size
    off,            \* __malloc_block_off
    objs            \* the pointers the client holds, with the size it asked for

blockVars == <<zones, mem, freeBlocks, freeCount, block, blockSize, off, objs>>

NULL == 0

Put(f, x, v) == [y \in DOMAIN f \union {x} |-> IF y = x THEN v ELSE f[y]]
Drop(f, x) == Restrict(f, DOMAIN f \ {x})
Apart(a, m, b, k) == a + m <= b \/ b + k <= a

\* __malloc: the places of an area of length m.
Places(m) == {a \in Addresses : \A z \in DOMAIN zones : Apart(a, m, z, zones[z])}

\* size+47>>4: the head and a unit to spare.
ObjLen(s) == s + 2

\* The same of an object that is a zone: size+16.
ZoneLen(s) == s + 1

------------------------------------------------------------------------------

BlockInit ==
    /\ zones = << >> /\ mem = << >> /\ objs = << >>
    /\ freeBlocks = NULL /\ freeCount = 0
    /\ block = NULL /\ blockSize = 0 /\ off = 0

\* ptr=__malloc(size+16); *ptr=0; return ptr+2;
Alone(s) ==
    \/ \E a \in Places(ZoneLen(s)) :
           /\ zones' = Put(zones, a, ZoneLen(s))
           /\ mem' = Put(mem, a, 0)
           /\ objs' = Put(objs, a + 1, s)
    \/ UNCHANGED <<zones, mem, objs>>                   \* no memory

MallocLarge(s) ==
    /\ s > Large
    /\ Alone(s)
    /\ UNCHANGED <<freeBlocks, freeCount, block, blockSize, off>>

\* The object at place o of block b, whose head so far is in m.
Cut(m, b, o, s) ==
    /\ mem' = Put(Put(m, b + o, o), b, m[b] + 1)
    /\ objs' = Put(objs, b + o + 1, s)
    /\ IF o + ObjLen(s) = BlockSize
       THEN blockSize' = 0 /\ off' = 0
       ELSE blockSize' = BlockSize /\ off' = o + ObjLen(s)

Room(s) == blockSize # 0 /\ off + ObjLen(s) <= blockSize

MallocHere(s) ==
    /\ s <= Large
    /\ Room(s)
    /\ Cut(mem, block, off, s)
    /\ UNCHANGED <<zones, freeBlocks, freeCount, block>>

\* Two mutants: a reused block keeps the word of its list; its link is read
\* when the word is already overwritten.
NewHeadKept(b) == IF b \in DOMAIN mem THEN mem ELSE Put(mem, b, 0)
LinkOverwritten(b) == 0

\* *__malloc_block=0;
NewHead(b) == Put(mem, b, 0)
Link(b) == mem[b]

\* The next block is one that was kept.
MallocReuse(s) ==
    /\ s <= Large /\ ~Room(s)
    /\ freeBlocks # NULL
    /\ block' = freeBlocks
    /\ freeBlocks' = Link(freeBlocks)
    /\ freeCount' = freeCount - 1
    /\ Cut(NewHead(block'), block', 1, s)
    /\ UNCHANGED zones

\* Or a new one.
MallocNew(s) ==
    /\ s <= Large /\ ~Room(s)
    /\ freeBlocks = NULL
    /\ \E a \in Places(BlockSize) :
           /\ zones' = Put(zones, a, BlockSize)
           /\ block' = a
           /\ Cut(NewHead(a), a, 1, s)
    /\ UNCHANGED <<freeBlocks, freeCount>>

\* There is none: a zone for this object may still be had.
MallocNoBlock(s) ==
    /\ s <= Large /\ ~Room(s)
    /\ freeBlocks = NULL
    /\ block' = NULL /\ blockSize' = 0 /\ off' = 0
    /\ Alone(s)
    /\ UNCHANGED <<freeBlocks, freeCount>>

Malloc(s) == MallocLarge(s) \/ MallocHere(s) \/ MallocReuse(s) \/ MallocNew(s) \/ MallocNoBlock(s)

\* free of an object that is a zone.
FreeAlone(p) ==
    /\ mem[p - 1] = 0
    /\ zones' = Drop(zones, p - 1)
    /\ mem' = Drop(mem, p - 1)
    /\ UNCHANGED <<freeBlocks, freeCount, block, blockSize, off>>

BlockOf(p) == p - 1 - mem[p - 1]

\* One of several objects of a block.
FreeOne(p) ==
    /\ mem[p - 1] # 0
    /\ mem[BlockOf(p)] # 1
    /\ mem' = Drop([mem EXCEPT ![BlockOf(p)] = @ - 1], p - 1)
    /\ UNCHANGED <<zones, freeBlocks, freeCount, block, blockSize, off>>

\* A mutant: any number of blocks is kept.
NeverFull == FALSE

\* __free_blocks_count==FREE_BLOCKS_MAX
Full == freeCount = MaxFree

\* A mutant: a block that was emptied is still cut.
GoOn(b) == UNCHANGED <<block, blockSize, off>>

\* if(p==__malloc_block)
Leave(b) ==
    IF b = block
    THEN block' = NULL /\ blockSize' = 0 /\ off' = 0
    ELSE UNCHANGED <<block, blockSize, off>>

\* The last object of a block.
FreeLast(p) ==
    LET b == BlockOf(p)
    IN  /\ mem[p - 1] # 0
        /\ mem[b] = 1
        /\ IF Full
           THEN /\ zones' = Drop(zones, b)
                /\ mem' = Drop(Drop(mem, p - 1), b)
                /\ UNCHANGED <<freeBlocks, freeCount>>
           ELSE /\ mem' = Drop([mem EXCEPT ![b] = freeBlocks], p - 1)
                /\ freeBlocks' = b
                /\ freeCount' = freeCount + 1
                /\ UNCHANGED zones
        /\ Leave(b)

Free(p) ==
    /\ FreeAlone(p) \/ FreeOne(p) \/ FreeLast(p)
    /\ objs' = Drop(objs, p)

BlockNext == (\E s \in Sizes : Malloc(s)) \/ (\E p \in DOMAIN objs : Free(p))

BlockSpec == BlockInit /\ [][BlockNext]_blockVars

------------------------------------------------------------------------------
(* Properties                                                              *)

BlockTypeOK ==
    /\ DOMAIN zones \subseteq Addresses
    /\ freeCount \in 0..MaxFree
    /\ freeBlocks \in {NULL} \union DOMAIN zones
    /\ block \in {NULL} \union DOMAIN zones
    /\ blockSize \in {0, BlockSize}
    /\ off \in 0..BlockSize
    /\ \A p \in DOMAIN objs : objs[p] \in Sizes /\ p - 1 \in DOMAIN mem

\* The client sees an allocator: what it holds, small or large, does not
\* overlap, through every reuse of a block.
Client == INSTANCE Allocator WITH
              Addresses <- {a + k : a \in Addresses, k \in 1..BlockSize},
              Lengths <- Sizes,
              live <- objs
ClientSpec == Client!ASpec

\* The blocks that are kept, in the order of their links.
Kept == LET chain[k \in 1..freeCount] == IF k = 1 THEN freeBlocks ELSE mem[chain[k - 1]]
        IN  {chain[k] : k \in 1..freeCount}

\* The objects of the zone at b, by their addresses.
ObjectsIn(b) == {p \in DOMAIN objs : b < p /\ p < b + zones[b]}

\* No object has a head in it, the head of an object leads to the head of
\* its zone, and the head of a block in use counts the objects that are in it:
\* the first word of a block is a count or a link, depending on where it is.
CountsRight ==
    /\ \A p \in DOMAIN objs : p..p + objs[p] - 1 \intersect DOMAIN mem = {}
    /\ \A p \in DOMAIN objs : mem[p - 1] # 0 => p \in ObjectsIn(BlockOf(p))
    /\ \A b \in DOMAIN zones \ Kept :
           b + 1 \notin DOMAIN objs => mem[b] = Cardinality(ObjectsIn(b))

\* As many blocks are kept as are counted, none of them twice or with an
\* object in it, and the block that is being cut is none of them.
KeptRight ==
    /\ Cardinality(Kept) = freeCount
    /\ freeCount = 0 <=> freeBlocks = NULL
    /\ \A b \in Kept : b \in DOMAIN zones /\ ObjectsIn(b) = {}
    /\ block \notin Kept

\* No zone is lost: it is kept, or an object in it will give it back.
NoLeak == \A b \in DOMAIN zones : b \in Kept \/ ObjectsIn(b) # {}

\* All of this, with no more blocks kept than __free_blocks may hold.
BookKept == CountsRight /\ KeptRight /\ NoLeak /\ freeCount <= MaxFree
==============================================================================
