SPECIFICATION FairSpec
CONSTANTS
  Addresses <- MCAddresses
  Limits = {}
  DefaultMax = 2
  MaxArrivals = 3
PROPERTIES
  LatestKept
