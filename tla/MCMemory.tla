------------------------------ MODULE MCMemory ------------------------------
(***************************************************************************)
(* Model-checking instance of the parts that memory management is made of: *)
(* the mutex (Mutex), the red-black trees (RBTree) and the blocks of small *)
(* objects (BlockMalloc).  None sees another, so a behaviour is one of one *)
(* of them while the others stay as they began.                            *)
(***************************************************************************)
EXTENDS Mutex, RBTree, BlockMalloc

MCNodes == 1..7

\* Places of three blocks, and two that overlap two of them.
MCAddresses == {1, 9, 13, 17, 21}

VARIABLE part   \* "mutex", "trees" or "blocks"

ASSUME BlocksAssumption == SizesAssumption

MemoryInit ==
    /\ part \in {"mutex", "trees", "blocks"}
    /\ LockInit /\ Init /\ BlockInit

MutexStep == part = "mutex" /\ LockNext /\ UNCHANGED <<part, vars, blockVars>>
TreeStep == part = "trees" /\ Next /\ UNCHANGED <<part, lockVars, blockVars>>
BlockStep == part = "blocks" /\ BlockNext /\ UNCHANGED <<part, lockVars, vars>>

MemoryNext == MutexStep \/ TreeStep \/ BlockStep

\* Threads that can run do, and a call on a tree runs to its end.
MemorySpec ==
    /\ MemoryInit
    /\ [][MemoryNext]_<<part, lockVars, vars, blockVars>>
    /\ LockFairness
    /\ WF_vars(Proceed)

\* If a thread wants the mutex, one gets it, and every fix-up loop of a tree ends
\* (lock.c: mutex_lock, mutex_unlock; templates/rbtree.c: the loops of insertion
\* and deletion).
MemoryGoesOn == Progress /\ Ends
=============================================================================
