SPECIFICATION Spec
CONSTANTS
  Macros = {m1, m2}
  MaxDepth = 2
  Joined = {1, 2}
  MaxLine = 8
SYMMETRY Symmetry
INVARIANTS SkipsWhatCSkips LineNumbersRight SecondPassSafe
CHECK_DEADLOCK FALSE
