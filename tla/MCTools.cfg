SPECIFICATION ToolsSpec
CONSTANTS
    Trees <- MCTrees
    Disks = {13, 20, 34, 1000}
    Targets = {0, 2, 6, 1000}
    Parent <- MCParent
    HeaderLen = 2
    NameLen <- MCNameLen
    Chunk = 4
    Sizes = 8
    EndLen = 8
    PipeLen = 2
    Growth = {1, 3}
    Ids <- MCIds
    Systems <- MCSystems
    Jobs <- MCJobs
    Depth = 3
    Batch = 2
    DiskSizes <- MCDiskSizes
    Kinds = {"ext2", "ext3"}
    GroupLen = 40
    Table = 3
    PerBlock = 4
    NDirect = 2
    Ptrs = 2
    JournalMax = 6
    Spare = 2
    MaxBlocks = 420
    FatDiskSizes <- MCFatDiskSizes
    Reserved = 8
    BackupAt = 6
    PerSector = 4
    MaxSectors = 16
    MaxClusters = 60
INVARIANTS Faithful TreesRight LayoutsRight
PROPERTIES BothEnd
CHECK_DEADLOCK FALSE
