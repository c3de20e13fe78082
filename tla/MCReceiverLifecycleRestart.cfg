SPECIFICATION Spec
CONSTANTS
  Ports <- OnePort
  MaxStarts = 2
  MaxDatagrams = 1
  MaxMessages = 1
INVARIANTS
  PendingIsReadable
CHECK_DEADLOCK FALSE
