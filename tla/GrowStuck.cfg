CONSTANTS
  Disk = 3
  ImageSize = 1
  TornWrites = TRUE
  ImagedAt = {"filesystem"}
  MaxImagings = 1
  MaxFaults = 1

SPECIFICATION FairSpec
PROPERTY RestoredImageExpands
