SPECIFICATION Spec
CONSTANTS
    a = a
    b = b
    x = x
    y = y
    m = m
    q = q
    None = None
    Vars = {a, b, x, y, m, q}
    Args = {a, b}
    Mem = {m}
    Void = {q}
    Size <- MCSize
    Functions <- MCFunctions
    Batch = 2
    Regs = 1
INVARIANTS
    LiveRight
    ReadsRight
PROPERTIES
    Ends
CHECK_DEADLOCK FALSE
