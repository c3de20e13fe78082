SPECIFICATION Spec
CONSTANTS
  Capacity = 62
  AddressLengths <- MCAddressLengths
INVARIANTS
  TypeOK
  ClosedWhenReady
  SentFitsTheBuffer
PROPERTIES
  SentIsReadable
CHECK_DEADLOCK FALSE
