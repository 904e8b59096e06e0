SPECIFICATION Spec
CONSTANTS
  NSlots = 3
  MbrSlots = 2
  Mib = 2
  First = 2
  Reserved = 3
  SizeMin = 1
  RootMin = 2
  Typed = {0, 1, 2, 3}
  Devices <- MCDevices
INVARIANTS SelectedListed RolesRight
PROPERTIES SoundKept
VIEW View
CHECK_DEADLOCK FALSE
