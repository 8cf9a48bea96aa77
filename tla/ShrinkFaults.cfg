CONSTANTS
  Slots = {1, 2, 3}
  FixedMargin = 24
  Kib = 4
  MaxU64 = 100000
  SectorSize = 2
  Alignment = 16
  InstallGrowth = 8
  Available = {0, 100000}
  Disks <- AllDisks
  FaultyStages = {"Unmount", "PreflightFsck", "InstallFirstBoot", "UnmountAfterInstall", "PreResizeFsck", "ResizeFilesystem", "PostResizeFsck", "ResizePartition", "RereadPartitionTable", "Revalidate"}
  LeavesMounted = {"mount", "umount"}
  MaxFaults = 2
  MaxAttempts = 2
  MaxEdits = 1
  AutomountAt = {"Unmount", "PreflightFsck", "InstallFirstBoot", "UnmountAfterInstall", "PreResizeFsck", "ResizeFilesystem", "PostResizeFsck", "ResizePartition", "RereadPartitionTable", "Revalidate", "idle", "planned", "failed"}
  Crashes = {"kill", "power"}

SPECIFICATION Spec
INVARIANT TypeOK
INVARIANT RootHoldsFilesystem
INVARIANT RequestFitsDisk
INVARIANT SuccessIsAsPlanned
PROPERTY FilesystemNeverGrows
