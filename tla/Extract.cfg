CONSTANTS
  Length = 5
  Options <- Calls
  MaxFaults = 1
  MaxStops = 1
  MaxRewrites = 1
  MaxForeign = 1

SPECIFICATION FairSpec
INVARIANT TypeOK
INVARIANT NothingLostInFlight
INVARIANT HashIsOfImage
PROPERTY ImplementsAtomicImage
PROPERTY CallEnds
