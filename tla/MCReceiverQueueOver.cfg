SPECIFICATION Spec
CONSTANTS
  Addresses <- MCAddresses
  Limits = {}
  DefaultMax = 2
  MaxArrivals = 3
INVARIANTS
  BatchWithinMax
