SPECIFICATION FairSpec
CONSTANTS
  Account = {a}
  Warmer = {p}
  Short = 1
  Long = 2
  Retry = 1
  MaxFaults = 1
  MaxCommands = 2
INVARIANTS
  WarmupInv
  WarmthIsItsOwn
PROPERTIES
  WarmedOncePerWindow
  IdleWindowsStart
