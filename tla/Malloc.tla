------------------------------- MODULE Malloc -------------------------------
(***************************************************************************)
(* The zone allocator of lfs_install/include/malloc.c.                     *)
(*                                                                         *)
(* The heap, obtained with brk, is tiled by zones.  A zone starts with a   *)
(* header; the free zones are kept in three indexes: a tree ordered by     *)
(* (size, address), a hash table of trees by start address and one by end  *)
(* address.  The trees compare keys computed from the header at the time   *)
(* of the comparison, so an entry is modelled with the key it was filed    *)
(* under: removing a zone whose size has changed in between removes        *)
(* nothing, as in the code.                                                *)
(*                                                                         *)
(* malloc and free take __malloc_mutex (module Mutex).  The body of        *)
(* malloc_nolock and of _free is cut into the steps named in StepPc; the   *)
(* locals size1, zone and ret of a thread survive from step to step.       *)
(*                                                                         *)
(* Addresses count from the start of the heap.  The constants stand for    *)
(* the numbers in the code (in brackets), so that TLC can use small ones.  *)
(***************************************************************************)
EXTENDS Mutex, Integers

CONSTANTS
  Sizes,       \* the sizes clients ask for
  Limit,       \* the largest heap the kernel grants
  Align,       \* sizes are rounded up to this [16]
  HdrOff,      \* offset of the client's area in a zone [32]
  Overhead,    \* added to the rounded size [128]
  Slack,       \* a zone is split when it is larger by this [384]
  Page,        \* heap growth is rounded up to this [4096]
  SmallReq,    \* requests below this grow the heap by GrowSmall [0x8000]
  GrowSmall,   \* [0x200000]
  MidReq,      \* requests below this grow the heap by GrowMid [0x40000]
  GrowMid,     \* [0x1000000]
  TrimMin      \* a free zone of this size at the end is given back [16384]

ASSUME MallocAssumption ==
  /\ Sizes \subseteq Nat
  /\ Limit \in Nat
  /\ Align \in Nat \ {0}
  /\ HdrOff \in Nat
  /\ Overhead \in Nat \ {0}
  /\ HdrOff <= Overhead
  /\ Slack \in Nat
  /\ Page \in Nat \ {0}
  /\ SmallReq \in Nat
  /\ MidReq \in Nat
  /\ SmallReq <= GrowSmall
  /\ MidReq <= GrowMid
  /\ GrowSmall \in Nat
  /\ GrowMid \in Nat
  /\ TrimMin \in Nat

NULL == -1     \* no pointer, no zone

VARIABLES
  heap,        \* __heap_size
  zsize,       \* the size field of every zone's header, by zone address
  used,        \* the zones whose header says used = 1
  sizeIdx,     \* __malloc_zone_root: pairs <<size, zone>>
  startIdx,    \* __malloc_start_tab: zones
  endIdx,      \* __malloc_end_tab: pairs <<end, zone>>
  step,        \* where a thread is inside malloc_nolock or free_nolock
  req,         \* the size argument of a malloc
  zone,        \* the local variable zone
  lost,        \* the zones that have left the indexes and, brk refusing, not the heap
  live         \* the pointers the clients hold, with the size asked for

heapVars == <<heap, zsize, used, sizeIdx, startIdx, endIdx, lost>>
idxVars  == <<sizeIdx, startIdx, endIdx>>
vars     == <<word, lpc, heapVars, step, req, zone, live>>

StepPc == {"idle", "find", "take", "grow", "carve", "check",
           "mergePrev", "mergeNext", "trim", "done", "error"}

Zones      == DOMAIN zsize
End(z)     == z + zsize[z]
RoundUp(n, a) == ((n - 1) \div a + 1) * a

\* size1 of malloc_nolock.
Request(n) == RoundUp(n, Align) + Overhead

\* Slip: every request grows the heap by the same amount.
GrowByFixed(s) == RoundUp(GrowSmall, Page)

\* size2 of malloc_nolock.
GrowBy(s) == RoundUp(IF s < SmallReq THEN GrowSmall
                     ELSE IF s < MidReq THEN GrowMid ELSE 8 * s, Page)

Put(f, x, v) == [y \in DOMAIN f \cup {x} |-> IF y = x THEN v ELSE f[y]]
Drop(f, x)   == [y \in DOMAIN f \ {x} |-> f[y]]

-----------------------------------------------------------------------------
(***************************************************************************)
(* The three indexes.                                                      *)
(***************************************************************************)

\* The entries of the size tree __malloc_zone_size_find chooses from.
Fitting(s) == {e \in sizeIdx : e[1] >= s}

\* It walks left whenever a node fits: smallest size, then lowest address.
Best(e, s) ==
  /\ e \in Fitting(s)
  /\ \A f \in Fitting(s) : e[1] < f[1] \/ (e[1] = f[1] /\ e[2] <= f[2])

\* What the three trees hold after the zones D leave and, with the sizes of
\* the function f, the zones A enter.
Reindex(D, A, f) ==
  /\ sizeIdx'  = (sizeIdx \ {<<zsize[z], z>> : z \in D}) \cup {<<f[z], z>> : z \in A}
  /\ startIdx' = (startIdx \ D) \cup A
  /\ endIdx'   = (endIdx \ {<<End(z), z>> : z \in D}) \cup {<<z + f[z], z>> : z \in A}

-----------------------------------------------------------------------------
(***************************************************************************)
(* Calls and returns.                                                      *)
(***************************************************************************)

\* malloc(n) up to the first instruction of mutex_lock.
CallMalloc(t, n) ==
  /\ step[t] = "idle"
  /\ Want(t)
  /\ step' = [step EXCEPT ![t] = "find"]
  /\ req' = [req EXCEPT ![t] = n]
  /\ zone' = [zone EXCEPT ![t] = NULL]
  /\ UNCHANGED <<heapVars, live>>

\* free(p): the caller gives the pointer up, whoever allocated it.
CallFree(t, p) ==
  /\ step[t] = "idle"
  /\ Want(t)
  /\ step' = [step EXCEPT ![t] = "check"]
  /\ zone' = [zone EXCEPT ![t] = IF p = NULL THEN NULL ELSE p - HdrOff]
  /\ live' = Drop(live, p)
  /\ UNCHANGED <<heapVars, req>>

\* The waiting steps of mutex_lock.
Acquire(t) ==
  /\ Xchg(t) \/ FutexWait(t) \/ Interrupted(t)
  /\ UNCHANGED <<heapVars, step, req, zone, live>>

\* mutex_unlock, first statement.
Unlock(t) ==
  /\ step[t] = "done"
  /\ Release(t)
  /\ UNCHANGED <<heapVars, step, req, zone, live>>

\* mutex_unlock, second statement, and the return to the client.
Return(t) ==
  /\ Wake(t)
  /\ step' = [step EXCEPT ![t] = "idle"]
  /\ zone' = [zone EXCEPT ![t] = NULL]
  /\ req' = [req EXCEPT ![t] = 0]
  /\ live' = IF zone[t] = NULL THEN live ELSE Put(live, zone[t] + HdrOff, req[t])
  /\ UNCHANGED heapVars

\* A statement of malloc_nolock or free_nolock: under the mutex.
At(t, from, to) ==
  /\ lpc[t] = "crit"
  /\ step[t] = from
  /\ step' = [step EXCEPT ![t] = to]
  /\ UNCHANGED <<word, lpc, req, live>>

-----------------------------------------------------------------------------
(***************************************************************************)
(* malloc_nolock.                                                          *)
(***************************************************************************)

\* A size of 0 returns 0; otherwise look for the best fitting free zone.
Find(t) ==
  \/ /\ req[t] = 0
     /\ At(t, "find", "done")
     /\ UNCHANGED <<heapVars, zone>>
  \/ /\ req[t] # 0
     /\ \E e \in Fitting(Request(req[t])) :
          /\ Best(e, Request(req[t]))
          /\ zone' = [zone EXCEPT ![t] = e[2]]
     /\ At(t, "find", "take")
     /\ UNCHANGED heapVars
  \/ /\ req[t] # 0
     /\ Fitting(Request(req[t])) = {}
     /\ At(t, "find", "grow")
     /\ UNCHANGED <<heapVars, zone>>

\* Slip: the size tree is forgotten.
TakeStaysInTree(t) ==
  /\ At(t, "take", "carve")
  /\ startIdx' = startIdx \ {zone[t]}
  /\ endIdx' = endIdx \ {<<End(zone[t]), zone[t]>>}
  /\ UNCHANGED <<heap, zsize, used, sizeIdx, zone, lost>>

\* The zone found leaves the indexes.
Take(t) ==
  /\ At(t, "take", "carve")
  /\ Reindex({zone[t]}, {}, zsize)
  /\ UNCHANGED <<heap, zsize, used, zone, lost>>

\* __set_heap_size(__heap_size + by) succeeds; a zone is made of the gain.
Extend(t, by) ==
  /\ At(t, "grow", "carve")
  /\ heap + by <= Limit
  /\ heap' = heap + by
  /\ zsize' = Put(zsize, heap, by)
  /\ zone' = [zone EXCEPT ![t] = heap]
  /\ UNCHANGED <<idxVars, used, lost>>

\* brk may refuse the generous size and grant the exact one, or refuse both.
Grow(t) ==
  LET s == Request(req[t]) IN
  \/ Extend(t, GrowBy(s))
  \/ Extend(t, RoundUp(s, Page))
  \/ At(t, "grow", "done") /\ UNCHANGED <<heapVars, zone>>

\* Slip: zone->size = size1 is missing after the rest was cut off.
CarveKeepsSize(t) ==
  LET z == zone[t]
      s == Request(req[t])
      rest == Put(zsize, z + s, zsize[z] - s)
  IN
  /\ At(t, "carve", "done")
  /\ used' = used \cup {z}
  /\ IF s + Slack < zsize[z]
     THEN Reindex({}, {z + s}, rest) /\ zsize' = rest
     ELSE UNCHANGED <<idxVars, zsize>>
  /\ UNCHANGED <<heap, zone, lost>>

\* Cut off what is not needed, file the rest as free, mark the zone used.  A
\* zone smaller than the request is taken for corruption: __malloc_error.
Carve(t) ==
  LET z == zone[t]
      s == Request(req[t])
      rest == Put(zsize, z + s, zsize[z] - s)
  IN
  /\ At(t, "carve", IF s > zsize[z] THEN "error" ELSE "done")
  /\ used' = IF s > zsize[z] THEN used ELSE used \cup {z}
  /\ \/ /\ s + Slack < zsize[z]
        /\ Reindex({}, {z + s}, rest)
        /\ zsize' = Put(rest, z, s)
     \/ /\ s + Slack >= zsize[z]
        /\ UNCHANGED <<idxVars, zsize>>
  /\ UNCHANGED <<heap, zone, lost>>

-----------------------------------------------------------------------------
(***************************************************************************)
(* free_nolock and _free.                                                  *)
(***************************************************************************)

\* Slip: filing the zone does not clear its used mark.
CheckStaysUsed(t) ==
  LET z == zone[t] IN
  /\ IF z = NULL
     THEN At(t, "check", "done") /\ UNCHANGED idxVars
     ELSE /\ At(t, "check", IF z \in used THEN "mergePrev" ELSE "error")
          /\ Reindex({}, {z} \cap used, zsize)
  /\ UNCHANGED <<heap, zsize, used, zone, lost>>

\* free(0) does nothing.  Otherwise the zone must be in use (else
\* __malloc_error), and is filed as free.
Check(t) ==
  LET z == zone[t] IN
  \/ /\ z = NULL
     /\ At(t, "check", "done")
     /\ UNCHANGED <<heapVars, zone>>
  \/ /\ z # NULL
     /\ At(t, "check", IF z \in used THEN "mergePrev" ELSE "error")
     /\ used' = used \ {z}
     /\ Reindex({}, {z} \cap used, zsize)
     /\ UNCHANGED <<heap, zsize, zone, lost>>

\* The headers after zone b is appended to zone a.
Joined(a, b) == Put(Drop(zsize, b), a, zsize[a] + zsize[b])

\* Slip: start->size is written before start leaves the indexes.
MergePrevLateDelete(t) ==
  LET z == zone[t] IN
  /\ At(t, "mergePrev", "mergeNext")
  /\ IF \E e \in endIdx : e[1] = z
     THEN \E e \in endIdx :
            LET s == e[2]
                new == zsize[s] + zsize[z]
            IN
            /\ e[1] = z
            /\ sizeIdx' = (sizeIdx \ {<<zsize[z], z>>, <<new, s>>}) \cup {<<new, s>>}
            /\ startIdx' = startIdx \ {z}
            /\ endIdx' = (endIdx \ {<<End(z), z>>, <<s + new, s>>}) \cup {<<s + new, s>>}
            /\ zsize' = Joined(s, z)
            /\ zone' = [zone EXCEPT ![t] = s]
     ELSE UNCHANGED <<idxVars, zsize, zone>>
  /\ UNCHANGED <<heap, used, lost>>

\* A free zone that ends where this one starts absorbs it.
MergePrev(t) ==
  LET z == zone[t] IN
  /\ At(t, "mergePrev", "mergeNext")
  /\ \/ \E e \in endIdx :
          /\ e[1] = z
          /\ Reindex({z, e[2]}, {e[2]}, Joined(e[2], z))
          /\ zsize' = Joined(e[2], z)
          /\ zone' = [zone EXCEPT ![t] = e[2]]
     \/ /\ \A e \in endIdx : e[1] # z
        /\ UNCHANGED <<idxVars, zsize, zone>>
  /\ UNCHANGED <<heap, used, lost>>

\* Slip: the zone after the freed one is never looked up.
MergeNextNever(t) ==
  /\ At(t, "mergeNext", "trim")
  /\ UNCHANGED <<heapVars, zone>>

\* A free zone that starts where this one ends is absorbed by it.
MergeNext(t) ==
  LET z == zone[t] IN
  /\ At(t, "mergeNext", "trim")
  /\ \/ /\ End(z) \in startIdx
        /\ Reindex({z, End(z)}, {z}, Joined(z, End(z)))
        /\ zsize' = Joined(z, End(z))
     \/ /\ End(z) \notin startIdx
        /\ UNCHANGED <<idxVars, zsize>>
  /\ UNCHANGED <<heap, used, zone, lost>>

\* Slip: > for >= in the test of the size.
TrimGreater(t) ==
  LET z == zone[t]
      trim == End(z) = heap /\ zsize[z] > TrimMin
  IN
  /\ At(t, "trim", "done")
  /\ zone' = [zone EXCEPT ![t] = NULL]
  /\ Reindex(IF trim THEN {z} ELSE {}, {}, zsize)
  /\ heap' = IF trim THEN heap - zsize[z] ELSE heap
  /\ zsize' = IF trim THEN Drop(zsize, z) ELSE zsize
  /\ UNCHANGED <<used, lost>>

\* A large free zone at the end of the heap goes back to the kernel.  Nobody looks
\* whether brk has taken it: if not, its memory is in no index and stays.
Trim(t) ==
  LET z == zone[t] IN
  /\ At(t, "trim", "done")
  /\ zone' = [zone EXCEPT ![t] = NULL]
  /\ \/ /\ End(z) = heap /\ zsize[z] >= TrimMin
        /\ Reindex({z}, {}, zsize)
        /\ \/ /\ heap' = heap - zsize[z]
              /\ zsize' = Drop(zsize, z)
              /\ UNCHANGED lost
           \/ /\ lost' = lost \cup {z}
              /\ UNCHANGED <<heap, zsize>>
     \/ /\ ~(End(z) = heap /\ zsize[z] >= TrimMin)
        /\ UNCHANGED <<heap, idxVars, zsize, lost>>
  /\ UNCHANGED used

-----------------------------------------------------------------------------
Init ==
  /\ LockInit
  /\ heap = 0
  /\ zsize = << >>
  /\ used = {}
  /\ sizeIdx = {}
  /\ startIdx = {}
  /\ endIdx = {}
  /\ step = [t \in Threads |-> "idle"]
  /\ req = [t \in Threads |-> 0]
  /\ zone = [t \in Threads |-> NULL]
  /\ live = << >>
  /\ lost = {}

Next ==
  \E t \in Threads :
    \/ \E n \in Sizes : CallMalloc(t, n)
    \/ \E p \in DOMAIN live \cup {NULL} : CallFree(t, p)
    \/ Acquire(t) \/ Unlock(t) \/ Return(t)
    \/ Find(t) \/ Take(t) \/ Grow(t) \/ Carve(t)
    \/ Check(t) \/ MergePrev(t) \/ MergeNext(t) \/ Trim(t)

Spec == Init /\ [][Next]_vars

-----------------------------------------------------------------------------
(***************************************************************************)
(* Properties.                                                             *)
(***************************************************************************)
TypeOK ==
  /\ LockTypeOK
  /\ heap \in 0 .. Limit
  /\ Zones \subseteq Nat
  /\ zsize \in [Zones -> Nat \ {0}]
  /\ used \subseteq Zones
  /\ lost \subseteq Zones
  /\ sizeIdx \subseteq Nat \X Zones
  /\ startIdx \subseteq Zones
  /\ endIdx \subseteq Nat \X Zones
  /\ step \in [Threads -> StepPc]
  /\ req \in [Threads -> Sizes \cup {0}]
  /\ zone \in [Threads -> Zones \cup {NULL}]
  /\ DOMAIN live \subseteq Nat
  /\ live \in [DOMAIN live -> Sizes \ {0}]

\* The zones tile the heap: they start at 0, follow each other without gap and
\* overlap, and the last one ends at the break.
Tiled ==
  /\ heap > 0 => 0 \in Zones
  /\ \A z \in Zones : End(z) = heap \/ End(z) \in Zones
  /\ \A y, z \in Zones : y < z => End(y) <= z

\* The zone a malloc has taken out of the indexes and not yet marked used.
Carving == {zone[t] : t \in {u \in Threads : step[u] = "carve"}}

\* The zones a search may find: free, not on their way to a client, not given up.
Free == (Zones \ (used \cup lost)) \ Carving

\* Each index holds the free zones, each under the key its header gives now.
\* A size written while the zone is filed would leave a stale entry behind.
IndexesAgree ==
  /\ sizeIdx  = {<<zsize[z], z>> : z \in Free}
  /\ startIdx = Free
  /\ endIdx   = {<<End(z), z>> : z \in Free}

\* The threads that hold a used zone: to return it, or given to free.
Carrying == {t \in Threads : step[t] \in {"check", "done"} /\ zone[t] # NULL}

\* Nothing leaks and nothing is handed out twice: every used zone belongs to
\* exactly one live pointer or to exactly one call in progress.  What brk did not
\* take back is nobody's.
Accounted ==
  /\ used = {p - HdrOff : p \in DOMAIN live} \cup {zone[t] : t \in Carrying}
  /\ \A t \in Carrying : zone[t] + HdrOff \notin DOMAIN live
  /\ \A s, t \in Carrying : zone[s] = zone[t] => s = t
  /\ lost \cap (used \cup Carving) = {}

\* The zones are whole, by address, in the three indexes and in the hands of the
\* clients: each is free and filed, or used and owned.
ZonesRight == Tiled /\ IndexesAgree /\ Accounted

\* The area of a live pointer ends before the header of the next zone.
LiveInZone ==
  \A p \in DOMAIN live : /\ p - HdrOff \in Zones
                         /\ p + live[p] <= End(p - HdrOff)

\* The check in free_nolock and the one in malloc_nolock never fire for
\* clients that free what they were given.
NoMallocError == \A t \in Threads : step[t] # "error"

\* Between two calls no two free zones are neighbours: _free has merged them.
Coalesced ==
  Holders = {} => \A z \in Free : End(z) \notin Free

\* When everything has been freed the heap has been given back, but for a
\* piece too small to be trimmed, down to what brk would not take.
GivenBack ==
  (Holders = {} /\ used = {}) =>
    \E b \in {0} \cup {End(y) : y \in lost} : heap < b + TrimMin \/ heap = b

\* Clients see the allocator of module Allocator.
Abstract == INSTANCE Allocator WITH Addresses <- 0 .. Limit + HdrOff, Lengths <- Sizes
AllocatorSpec == Abstract!ASpec
=============================================================================
