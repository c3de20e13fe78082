SPECIFICATION Spec
CONSTANTS
  BufferSizes <- MCBufferSizes
  InitialSize = 54
  AddressLengths <- MCAddressLengths
  StringLengths <- MCStringLengths
INVARIANTS
  TypeOK
  ClosedIsReadable
  OpenUntilClosed
  NothingIsDropped
CHECK_DEADLOCK FALSE
