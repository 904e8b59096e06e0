------------------------------- MODULE MCScpp -------------------------------
\* Model-checking instance of Scpp.
EXTENDS Scpp, TLC

Symmetry == Permutations(Macros)
=============================================================================
