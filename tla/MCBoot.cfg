SPECIFICATION BootSpec
CONSTANTS
  NDirect = 2
  Ptrs = 2
  Ahead = 16
  ReadSize = 8
  DescShift = 1
  MaxRows = 2
  Room = 40
  DevicesOf <- MCDevicesOf
  MemMaps <- MCMemMaps
  RamfsOf <- MCRamfsOf
  Names = {"sda1", "sdb1"}
  DevIds = {"A", "B"}
INVARIANTS CachesTransparent BootsHighlighted MapRight RootOfEntry NothingLost
PROPERTIES Answers ShutsDown RootFound
