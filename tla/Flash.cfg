CONSTANTS
  Slots = {1, 2}
  FixedMargin = 1
  Kib = 1
  MaxU64 = 100
  Disks <- Spares
  Images <- Contents
  Sidecars <- Metadata
  Options <- Choices
  TableIn <- Tables
  Signed = {"t1", "t2", "t3"}
  EfiHeader = "efi"
  Damaged = "damaged"
  SwapsAt = {"start", "hash", "decode", "discover", "revalidate"}
  MaxFaults = 1
  MaxSwaps = 1
  MaxReplacements = 1
  MaxDamages = 1
  NoSidecar = NoSidecar
  NoHash = NoHash
  NoDisk = NoDisk

SPECIFICATION Spec
INVARIANT TypeOK
INVARIANT OnlySelectedDiskWritten
INVARIANT SuccessIsInspected
INVARIANT TargetIsDescribed
PROPERTY RootAndSwapKept
