SPECIFICATION Spec
CONSTANTS
  Threads = {t1, t2}
  Sizes = {0, 1, 7}
  Limit = 20
  Align = 2
  HdrOff = 2
  Overhead = 2
  Slack = 1
  Page = 4
  SmallReq = 5
  GrowSmall = 8
  MidReq = 9
  GrowMid = 12
  TrimMin = 8
SYMMETRY Symmetry
INVARIANTS
  ZonesRight
  Coalesced
  GivenBack
PROPERTY AllocatorSpec
CHECK_DEADLOCK TRUE
