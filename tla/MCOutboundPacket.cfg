SPECIFICATION Spec
CONSTANTS
  Capacity = 50
  AddressLengths <- MCAddressLengths
  StringLengths <- MCStringLengths
  BlobSizes <- MCBlobSizes
INVARIANTS
  TypeOK
  FitsTheBuffer
  OpenElementsNest
  ReadyIsReadable
PROPERTIES
  SizeIsValid
