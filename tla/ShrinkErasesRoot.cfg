CONSTANTS
  Slots = {1, 2, 3}
  FixedMargin = 24
  Kib = 4
  MaxU64 = 100000
  SectorSize = 2
  Alignment = 16
  InstallGrowth = 8
  Available = {0, 100000}
  Disks <- Shrinkable
  FaultyStages = {"UnmountAfterInstall"}
  LeavesMounted = {"umount"}
  MaxFaults = 1
  MaxAttempts = 1
  MaxEdits = 0
  AutomountAt = {}
  Crashes = {}

SPECIFICATION Spec
INVARIANT FilesSurvive
