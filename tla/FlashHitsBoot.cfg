CONSTANTS
  Slots = {1, 2}
  FixedMargin = 1
  Kib = 1
  MaxU64 = 100
  Disks <- WithBoot
  Images <- Contents
  Sidecars <- Metadata
  Options <- Choices
  TableIn <- Tables
  Signed = {"t1", "t2", "t3"}
  EfiHeader = "efi"
  Damaged = "damaged"
  SwapsAt = {}
  MaxFaults = 0
  MaxSwaps = 0
  MaxReplacements = 0
  MaxDamages = 0
  NoSidecar = NoSidecar
  NoHash = NoHash
  NoDisk = NoDisk

SPECIFICATION Spec
INVARIANT HostDisksKept
