SPECIFICATION Spec
CONSTANTS
  Capacity = 62
  AddressLengths <- MCAddressLengths
INVARIANTS
  RunningHasSocket
CHECK_DEADLOCK FALSE
