------------------------------ MODULE MCMalloc ------------------------------
\* Model-checking instance of Malloc.
EXTENDS Malloc, TLC

Symmetry == Permutations(Threads)
=============================================================================
