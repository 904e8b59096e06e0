SPECIFICATION MemorySpec
CONSTANTS
    Threads = {t1, t2, t3, t4}
    Nodes <- MCNodes
    Null = 0
    Addresses <- MCAddresses
    Sizes = {1, 2, 4}
    Large = 3
    BlockSize = 8
    MaxFree = 2
INVARIANTS LockRight RedBlack BookKept
PROPERTIES MemoryGoesOn Refines ClientSpec
