SPECIFICATION FairSpec
CONSTANTS
  Sockets <- MCSockets
  Timers <- MCTimers
  Delay <- MCDelay
  Period <- MCPeriod
  MaxPending = 2
  MaxWakes = 1
  MaxLate = 0
  MaxListeners = 3
INVARIANTS
  TypeOK
  ReadsNeverBlock
  WaitMissesNothing
  BreakIsPrompt
  ReturnsOnlyWhenAsked
PROPERTIES
  BreakEndsRun
  NobodyStarves
