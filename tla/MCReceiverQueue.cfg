SPECIFICATION FairSpec
CONSTANTS
  Addresses <- MCAddresses
  Limits <- MCLimits
  DefaultMax = 2
  MaxArrivals = 3
INVARIANTS
  TypeOK
  NoDataRace
  QueueBound
  CursorInBatch
  InOrder
PROPERTIES
  NoSilentLoss
  ImplementsMailbox
  KeptIsDelivered
