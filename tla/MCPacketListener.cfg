SPECIFICATION FairSpec
CONSTANTS
  Datagrams <- MCDatagrams
  Radix = 128
  BufferSize = 78
  Garbage <- MCGarbage
  MaxDatagrams = 3
INVARIANTS
  TypeOK
  IteratorsStayOnSlots
  ValuesAreInside
  OnlyStrayBlobsAreReadOutside
  ArgumentsAreChecked
  DeliversUpToTheFault
PROPERTIES
  PacketEnds
CHECK_DEADLOCK FALSE
