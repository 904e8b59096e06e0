SPECIFICATION CompilerSpec
CONSTANTS
    la = la
    lb = lb
    MaxLines = 5
    Names = {la, lb}
    Programs <- MCPrograms
    Base = 20
    Reach = 8
    Byte = 32
    WordLen = 2
    Members <- MCMembers
    NFiles <- MCNFiles
    Compilation <- MCCompilation
    Given <- MCGiven
INVARIANTS BranchesArrive CompiledRight
PROPERTIES AllEnds
CHECK_DEADLOCK FALSE
