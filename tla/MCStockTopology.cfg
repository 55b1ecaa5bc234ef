SPECIFICATION Spec
INVARIANTS
  BlocksTile
  RoutesOnce
CONSTANTS
  Other = Other
  S16 = S16
  S32 = S32
  HwMax = 2
  MaxLength = 6
  Headers <- MCHeaders
  Pcms <- MCPcms
  Links <- MCLinks
CHECK_DEADLOCK FALSE
