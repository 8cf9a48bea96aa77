CONSTANTS
  Disk = 3
  ImageSize = 1
  TornWrites = FALSE
  ImagedAt = {"none"}
  MaxImagings = 2
  MaxFaults = 3

SPECIFICATION FairSpec
INVARIANT TypeOK
INVARIANT RemovedOnlyWhenGrown
PROPERTY ExpandsAtLast
