SPECIFICATION Spec
CONSTANTS
  NSlots = 4
  MbrSlots = 2
  Mib = 2
  First = 2
  Reserved = 3
  SizeMin = 1
  RootMin = 2
  Typed = {0, 1, 2}
  Devices <- UnevenDevices
INVARIANT OnlyDeletedLost
CHECK_DEADLOCK FALSE
