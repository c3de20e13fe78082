SPECIFICATION FairSpec
CONSTANTS
  Ports <- OnePort
  MaxStarts = 2
  MaxDatagrams = 1
  MaxMessages = 1
PROPERTIES
  StoppedThreadQuits
CHECK_DEADLOCK FALSE
