SPECIFICATION Spec
CONSTANTS
    Byte = 2
    MemSize = 36
    Junk = 43690
    Answer = 51966
    Vars = {"a", "b", "c", "o"}
    Object <- MCObject
    Saved <- MCSaved
    Declarations <- MCDeclarations
    Functions <- MCFunctions
    Machines <- MCMachines
INVARIANT CalleeSaves
PROPERTY Implements
CHECK_DEADLOCK FALSE
