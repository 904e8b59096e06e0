------------------------------- MODULE Mutex --------------------------------
(***************************************************************************)
(* The futex mutex of lfs_install/include/lock.c.                          *)
(*                                                                         *)
(*   lock:    while (xchg(ptr, 1)) futex(ptr, FUTEX_WAIT, 1);              *)
(*   unlock:  *ptr = 0; futex(ptr, FUTEX_WAKE, 1);                         *)
(*                                                                         *)
(* Every memory access and every system call is a step of its own, so      *)
(* that the release of the word and the wake-up that follows it may be     *)
(* separated by anything the other threads do.  The names start with Lock  *)
(* because Malloc.tla extends this module.                                 *)
(***************************************************************************)
EXTENDS Naturals

CONSTANT Threads    \* the threads that share the mutex

VARIABLES
  word,   \* the unsigned int the callers pass: 0 free, 1 taken
  lpc     \* where each thread is with respect to the mutex

lockVars == <<word, lpc>>

LockPc == {"out", "xchg", "wait", "asleep", "crit", "wake"}

Asleep  == {t \in Threads : lpc[t] = "asleep"}
Trying  == {t \in Threads : lpc[t] \in {"xchg", "wait", "asleep"}}
Holders == {t \in Threads : lpc[t] = "crit"}

Goto(t, from, to) ==
  /\ lpc[t] = from
  /\ lpc' = [lpc EXCEPT ![t] = to]

LockInit ==
  /\ word = 0
  /\ lpc = [t \in Threads |-> "out"]

(***************************************************************************)
(* Slips of the code below: each would break one of the properties, and    *)
(* the configurations are re-run with it to show that they notice.         *)
(***************************************************************************)

\* A plain load and store instead of xchg loses the previous value.
XchgIgnoresOld(t) ==
  /\ Goto(t, "xchg", "crit")
  /\ word' = 1

\* A thread that loses the race puts the word back to 0.
XchgResets(t) ==
  /\ Goto(t, "xchg", IF word = 0 THEN "crit" ELSE "wait")
  /\ word' = IF word = 0 THEN 1 ELSE 0

\* Sleeping without the comparison with the expected value.
FutexWaitBlind(t) ==
  /\ Goto(t, "wait", "asleep")
  /\ UNCHANGED word

\* Unlocking without the wake-up call.
WakeNobody(t) ==
  /\ Goto(t, "wake", "out")
  /\ UNCHANGED word

-----------------------------------------------------------------------------
\* mutex_lock is called.
Want(t) ==
  /\ Goto(t, "out", "xchg")
  /\ UNCHANGED word

\* lock_set32: one xchg stores 1 and returns the previous value.
Xchg(t) ==
  /\ Goto(t, "xchg", IF word = 0 THEN "crit" ELSE "wait")
  /\ word' = 1

\* FUTEX_WAIT: the kernel compares the word with 1 and sleeps in one step.
FutexWait(t) ==
  /\ Goto(t, "wait", IF word = 1 THEN "asleep" ELSE "xchg")
  /\ UNCHANGED word

\* FUTEX_WAIT may also return early (a signal); the loop tries again.
Interrupted(t) ==
  /\ Goto(t, "asleep", "xchg")
  /\ UNCHANGED word

\* mutex_unlock, first statement.
Release(t) ==
  /\ Goto(t, "crit", "wake")
  /\ word' = 0

\* mutex_unlock, second statement: FUTEX_WAKE of one waiter, if there is one.
Wake(t) ==
  /\ lpc[t] = "wake"
  /\ \/ /\ Asleep = {}
        /\ lpc' = [lpc EXCEPT ![t] = "out"]
     \/ \E s \in Asleep : lpc' = [lpc EXCEPT ![t] = "out", ![s] = "xchg"]
  /\ UNCHANGED word

LockNext ==
  \E t \in Threads :
    Want(t) \/ Xchg(t) \/ FutexWait(t) \/ Interrupted(t) \/ Release(t) \/ Wake(t)

(***************************************************************************)
(* The scheduler runs every thread that can run, and a critical section    *)
(* ends.  Nothing forces a thread to ask for the mutex, nor a signal.      *)
(***************************************************************************)
LockFairness ==
  \A t \in Threads : /\ WF_lockVars(Xchg(t))
                     /\ WF_lockVars(FutexWait(t))
                     /\ WF_lockVars(Release(t))
                     /\ WF_lockVars(Wake(t))

LockSafeSpec == LockInit /\ [][LockNext]_lockVars
LockSpec     == LockSafeSpec /\ LockFairness

-----------------------------------------------------------------------------
LockTypeOK ==
  /\ word \in {0, 1}
  /\ lpc \in [Threads -> LockPc]

\* Two threads are never between mutex_lock and the store of 0 in mutex_unlock.
MutualExclusion == \A s, t \in Holders : s = t

(***************************************************************************)
(* The word says whether somebody holds the mutex; a thread that loses the *)
(* xchg rewrites the word and must not change that.                        *)
(***************************************************************************)
WordTellsHolder == word = 1 <=> Holders # {}

(***************************************************************************)
(* No lost wake-up: when the mutex is free and threads sleep in the        *)
(* kernel, some thread is still on its way that will take or wake.         *)
(***************************************************************************)
NoLostWakeup ==
  word = 0 /\ Asleep # {} => \E t \in Threads : lpc[t] \in {"xchg", "wait", "wake"}

\* Both: a thread that finds the word 0 finds the mutex free, and none sleeps on
\* a free mutex for good.
LockRight == WordTellsHolder /\ NoLostWakeup

\* A thread that wants the mutex is followed by a thread that gets it.
Progress == (Trying # {}) ~> (Holders # {})
=============================================================================
