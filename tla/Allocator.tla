----------------------------- MODULE Allocator ------------------------------
(***************************************************************************)
(* What malloc and free of lfs_install/include/malloc.c promise a client:  *)
(* a pointer that is handed out heads an area of the requested length that *)
(* no other live pointer's area touches, and stays so until it is freed.   *)
(***************************************************************************)
EXTENDS Integers

CONSTANTS
  Addresses,   \* what a pointer may be
  Lengths      \* what a client may ask for

VARIABLE live  \* the live pointers, each with the length it was asked for

\* The areas of lengths m and n at p and q have no byte in common.
Apart(p, m, q, n) == p + m <= q \/ q + n <= p

AInit == live = << >>

AAlloc(p, n) ==
  /\ n > 0
  /\ p \notin DOMAIN live
  /\ \A q \in DOMAIN live : Apart(p, n, q, live[q])
  /\ live' = [q \in DOMAIN live \cup {p} |-> IF q = p THEN n ELSE live[q]]

AFree(p) ==
  /\ p \in DOMAIN live
  /\ live' = [q \in DOMAIN live \ {p} |-> live[q]]

ANext == \E p \in Addresses : AFree(p) \/ \E n \in Lengths : AAlloc(p, n)

ASpec == AInit /\ [][ANext]_live
=============================================================================
