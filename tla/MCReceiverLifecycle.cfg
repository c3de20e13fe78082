SPECIFICATION FairSpec
CONSTANTS
  Ports <- MCPorts
  MaxStarts = 2
  MaxDatagrams = 1
  MaxMessages = 1
INVARIANTS
  TypeOK
  RunsOnItsPort
  SafeUntilStopped
  DrainedBeforeSwap
PROPERTIES
  KeepsListening
CHECK_DEADLOCK FALSE
