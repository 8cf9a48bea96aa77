CONSTANTS
  Slots = {1, 2, 3}
  FixedMargin = 24
  Kib = 4
  MaxU64 = 100000
  SectorSize = 2
  Alignment = 16
  InstallGrowth = 8
  Available = {100000}
  Disks <- Shrinkable
  FaultyStages = {"Unmount", "PreflightFsck", "InstallFirstBoot", "UnmountAfterInstall", "PreResizeFsck", "ResizeFilesystem", "PostResizeFsck", "ResizePartition", "RereadPartitionTable", "Revalidate"}
  LeavesMounted = {}
  MaxFaults = 2
  MaxAttempts = 3
  MaxEdits = 0
  AutomountAt = {"planned"}
  Crashes = {"kill", "power"}

SPECIFICATION FairSpec
INVARIANT FilesSurvive
INVARIANT ResizeIsPossible
PROPERTY RetriesConverge
