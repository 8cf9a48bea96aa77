---------------------- MODULE ShrinkTransactionProofs ----------------------
(***************************************************************************)
(* The disk stays consistent through every run: for every set of disks,    *)
(* every bound and every sector size, alignment and margin, the root entry *)
(* holds the root filesystem in every reachable state and that filesystem  *)
(* never grows.                                                            *)
(*                                                                         *)
(* RootHoldsFilesystem alone is not inductive: that ResizePartition keeps  *)
(* it depends on the numbers of the request, computed many steps before.   *)
(* RequestFitsDisk carries them from Prepare to ResizePartition.           *)
(*                                                                         *)
(* Behind these proofs come three with invariants of their own: where the  *)
(* tree is mounted when an error removes the mount directory (MountInv),   *)
(* that table and layout are still those of the plan (SuccessInv), and that *)
(* the target has room for what was installed (RoomInv).                   *)
(***************************************************************************)
EXTENDS ShrinkTransaction, AnalysisProofs

IInv == TypeOK /\ RootHoldsFilesystem /\ RequestFitsDisk

Steps == Stages \cup {"planned"}

\* Initially no run is under way and the disk is one of Disks.
LEMMA InitEstablishes == Init => IInv
  <1> SUFFICES ASSUME Init PROVE IInv
    OBVIOUS
  <1>1. PICK d \in Disks :
          size = d.sectors /\ table = d.table /\ kernel = d.table /\ fs = d.fs
    BY DEF Init
  <1>2. TypeOK
    BY <1>1, DiskAssumption
    DEF Init, TypeOK, MountPoints, Desktop, Resting
  <1>3. RootHoldsFilesystem
    BY <1>1, DiskAssumption DEF RootHoldsFilesystem
  <1>4. RequestFitsDisk
    BY DEF Init, RequestFitsDisk, Stages
  <1> QED BY <1>2, <1>3, <1>4 DEF IInv

\* Planning does not touch the disk, and the request it makes fits it.
LEMMA PrepareKeeps ==
  ASSUME IInv, NEW available \in Available, Prepare(available)
  PROVE  IInv'
  <1> DEFINE parts == Partitions(table)
             root == LastPartition(parts)
             in == PlanInput(root, available)
             plan == Plan(in)
             refused == \/ ~ParseAccepts(TRUE, FALSE, table, size)
                        \/ InspectionFails
                        \/ Classify(parts, Evidence(parts)) = "unsupported"
                        \/ ~PlanAccepted(in)
  <1>1. /\ UNCHANGED <<disk, faults, edits>>
        /\ attempt < MaxAttempts
        /\ attempt' \in {attempt, attempt + 1}
    BY DEF Prepare
  <1>2. attempt' \in 0..MaxAttempts
    BY <1>1, DiskAssumption DEF IInv, TypeOK
  <1>3. RootHoldsFilesystem'
    BY <1>1 DEF IInv, RootHoldsFilesystem, Holds, disk
  <1>4. CASE refused
    <2>1. pc' = "failed" /\ request' = NoRequest
      BY <1>4 DEF Prepare
    <2>2. TypeOK'
      BY <1>1, <1>2, <2>1 DEF IInv, TypeOK, disk, Resting
    <2>3. RequestFitsDisk'
      BY <2>1 DEF RequestFitsDisk, Stages
    <2> QED BY <1>3, <2>2, <2>3 DEF IInv
  <1>5. CASE ~refused
    <2>1. /\ pc' = "planned"
          /\ request' = [number |-> root.number,
                         rootStart |-> plan.rootStart,
                         rootEnd |-> plan.rootEnd,
                         targetKib |-> TargetKib(plan),
                         sectorSize |-> SectorSize,
                         original |-> parts]
      BY <1>5 DEF Prepare
    <2>2. /\ table \in [Slots -> Entry]
          /\ fs \in Filesystem
          /\ size \in Nat
      BY DEF IInv, TypeOK
    <2>3. parts \subseteq Partition
      BY <2>2, PartitionsTyped
    <2>4. /\ root \in parts
          /\ Evidence(parts)[root.number].filesystem = "ext4"
          /\ root.number \in DOMAIN Evidence(parts)
      BY <1>5, SupportedRoot, LastPartitionIsLast
    <2>5. root.number = fs.number
      BY <2>4 DEF Evidence
    <2>6. root.number \in Slots /\ root = PartitionOf(table, root.number)
      BY <2>2, <2>4, PartitionsTyped
    <2>7. root.start = fs.start
      BY <2>5, <2>6 DEF PartitionOf, IInv, RootHoldsFilesystem, Holds
    <2>8. fs.start \in Nat /\ fs.minimum \in Nat /\ fs.bytes \in Nat
      BY <2>2 DEF Filesystem
    <2>9. /\ TypedInput(in)
          /\ in.rootStart = fs.start
          /\ in.current = fs.bytes
          /\ in.sectorSize = SectorSize
      BY <2>7, <2>8, DiskAssumption DEF TypedInput, PlanInput
    <2>10. /\ plan.rootStart = fs.start
           /\ plan.target \in Nat
           /\ plan.target <= fs.bytes
           /\ plan.rootEnd \in Nat
           /\ plan.target <= (plan.rootEnd - fs.start + 1) * SectorSize
      BY <1>5, <2>9, PlanBounds
    <2>11. /\ TargetKib(plan) \in Nat
           /\ TargetKib(plan) * Kib <= plan.target
      BY <2>10, TargetKibBounds
    <2>12. request' \in Request
      BY <2>1, <2>3, <2>6, <2>8, <2>10, <2>11 DEF Request
    <2>13. TypeOK'
      BY <1>1, <1>2, <2>1, <2>12 DEF IInv, TypeOK, disk, Resting
    <2>14. RequestFitsDisk'
      <3> DEFINE bytes == (plan.rootEnd - fs.start + 1) * SectorSize
                 target == TargetKib(plan) * Kib
      <3>1. /\ target \in Int /\ bytes \in Int
            /\ target <= bytes /\ target <= fs.bytes
        BY <2>8, <2>10, <2>11, GeometryAssumption, DiskAssumption
      <3> HIDE DEF plan
      <3>2. /\ request'.number = fs.number
            /\ request'.rootStart = fs.start
            /\ request'.targetKib * Kib = target
            /\ (request'.rootEnd - request'.rootStart + 1) * SectorSize = bytes
        BY <2>1, <2>5, <2>10
      <3>3. fs' = fs
        BY <1>1 DEF disk
      <3> QED
        BY <2>1, <2>12, <3>1, <3>2, <3>3 DEF RequestFitsDisk, BeforeResize
    <2> QED BY <1>3, <2>13, <2>14 DEF IInv
  <1> QED BY <1>4, <1>5

-----------------------------------------------------------------------------
(* Steps that leave the table and the place and size of the filesystem. *)

\* Such a step keeps the invariant when it keeps the types and does not pass
\* the resize.
LEMMA QuietStep ==
  ASSUME IInv, TypeOK',
         table' = table,
         fs'.number = fs.number, fs'.start = fs.start, fs'.bytes = fs.bytes,
         \/ pc' \notin Steps
         \/ /\ pc \in Steps
            /\ (pc' \in BeforeResize) = (pc \in BeforeResize)
            /\ request' = request
  PROVE  IInv'
  <1>1. RootHoldsFilesystem'
    BY DEF IInv, RootHoldsFilesystem, Holds
  <1>2. RequestFitsDisk'
    BY DEF IInv, RequestFitsDisk, Steps
  <1> QED BY <1>1, <1>2 DEF IInv

\* A fault is counted up to its bound.
LEMMA FaultsBounded ==
  ASSUME TypeOK, Fault \/ NoFault
  PROVE  faults' \in 0..MaxFaults
  BY DiskAssumption DEF TypeOK, Fault, NoFault

\* The types of what Abort assigns.
LEMMA AbortTyped ==
  ASSUME TypeOK, NEW left \in SUBSET MountPoints, Abort(left)
  PROVE  /\ pc' = "failed"
         /\ mounts' \in SUBSET MountPoints
         /\ files' \in {"intact", "erased"}
         /\ UNCHANGED <<request, attempt, edits>>
  BY DEF TypeOK, Abort

\* The run of the program itself is one of the mount points.
LEMMA AttemptMounts == TypeOK => attempt \in MountPoints
  BY DiskAssumption DEF TypeOK, MountPoints

\* quiesce_disk only touches mounts.
LEMMA UnmountKeeps == IInv /\ Unmount => IInv'
  <1> SUFFICES ASSUME IInv, Unmount PROVE IInv'
    OBVIOUS
  <1>1. /\ UNCHANGED <<size, table, kernel, fs>>
        /\ pc = "Unmount"
        /\ faults' \in 0..MaxFaults
    BY FaultsBounded DEF IInv, Unmount
  <1>2. CASE Proceed /\ mounts' \in {mounts, {}}
    <2>1. pc' = "PreflightFsck" /\ UNCHANGED <<files, request, attempt, edits>>
      BY <1>1, <1>2 DEF Proceed, StageAfter
    <2>2. TypeOK'
      BY <1>1, <1>2, <2>1 DEF IInv, TypeOK, Stages
    <2> QED BY <1>1, <2>1, <2>2, QuietStep DEF Steps, Stages, BeforeResize
  <1>3. ASSUME NEW left \in SUBSET MountPoints, Abort(left)
        PROVE  IInv'
    <2>1. TypeOK'
      BY <1>1, <1>3, AbortTyped DEF IInv, TypeOK, Resting
    <2> QED BY <1>1, <1>3, <2>1, QuietStep DEF Abort, Steps, Stages
  <1>4. mounts \subseteq MountPoints /\ Remounts \subseteq SUBSET MountPoints
    BY DiskAssumption DEF IInv, TypeOK, Remounts, MountPoints, Desktop
  <1> QED BY <1>2, <1>3, <1>4 DEF Unmount

\* A check only records that it passed.
LEMMA FsckKeeps ==
  ASSUME IInv,
         NEW stage \in {"PreflightFsck", "PreResizeFsck", "PostResizeFsck"},
         Fsck(stage)
  PROVE  IInv'
  <1>1. /\ UNCHANGED <<size, table, kernel>>
        /\ pc = stage
        /\ faults' \in 0..MaxFaults
    BY FaultsBounded DEF IInv, Fsck
  <1>2. fs' \in Filesystem /\ fs'.bytes = fs.bytes
        /\ fs'.number = fs.number /\ fs'.start = fs.start
    BY DEF IInv, TypeOK, Fsck, Filesystem
  <1>3. CASE Proceed /\ UNCHANGED mounts
    <2>1. /\ pc' = StageAfter[stage]
          /\ UNCHANGED <<files, request, attempt, edits>>
      BY <1>1, <1>3 DEF Proceed
    <2>2. /\ pc' \in Stages
          /\ (pc' \in BeforeResize) = (pc \in BeforeResize)
          /\ pc \in Steps
      BY <1>1, <2>1 DEF StageAfter, Stages, BeforeResize, Steps
    <2>3. TypeOK'
      BY <1>1, <1>2, <1>3, <2>1, <2>2 DEF IInv, TypeOK
    <2> QED BY <1>1, <1>2, <2>1, <2>2, <2>3, QuietStep
  <1>4. CASE Abort(mounts)
    <2>1. mounts \in SUBSET MountPoints
      BY DEF IInv, TypeOK
    <2>2. TypeOK'
      BY <1>1, <1>2, <1>4, <2>1, AbortTyped DEF IInv, TypeOK, Resting
    <2> QED BY <1>1, <1>2, <1>4, <2>2, QuietStep DEF Abort, Steps, Stages
  <1> QED BY <1>3, <1>4 DEF Fsck

\* The first-boot assets raise the minimum, never the size.
LEMMA InstallKeeps == IInv /\ InstallFirstBoot => IInv'
  <1> SUFFICES ASSUME IInv, InstallFirstBoot PROVE IInv'
    OBVIOUS
  <1>1. /\ UNCHANGED <<size, table, kernel>>
        /\ pc = "InstallFirstBoot"
        /\ faults' \in 0..MaxFaults
    BY FaultsBounded DEF IInv, InstallFirstBoot
  <1>2. fs' \in {Installed, PartlyInstalled, fs, [fs EXCEPT !.checked = FALSE]}
    BY DEF InstallFirstBoot, LeftAfterFailedInstall
  <1>3. fs' \in Filesystem /\ fs'.bytes = fs.bytes
        /\ fs'.number = fs.number /\ fs'.start = fs.start
    <2>1. fs \in Filesystem /\ InstallGrowth \in Nat
      BY DiskAssumption DEF IInv, TypeOK
    <2>2. CASE fs' = Installed
      <3>1. CASE fs.service = "installed"
        BY <2>1, <2>2, <3>1 DEF Installed, Filesystem
      <3>2. CASE fs.service # "installed"
        <4>1. fs' = [fs EXCEPT !.checked = FALSE, !.service = "installed",
                               !.minimum = fs.minimum + InstallGrowth]
          BY <2>2, <3>2 DEF Installed
        <4>2. fs.minimum + InstallGrowth \in Nat
          BY <2>1 DEF Filesystem
        <4> QED BY <2>1, <4>1, <4>2 DEF Filesystem
      <3> QED BY <3>1, <3>2
    <2>3. CASE fs' = PartlyInstalled
      <3>1. PICK service \in {"absent", "partial", "installed"} :
              fs' = [fs EXCEPT !.checked = FALSE, !.service = service]
        BY <2>1, <2>3 DEF PartlyInstalled, Filesystem
      <3> QED BY <2>1, <3>1 DEF Filesystem
    <2>4. CASE fs' = [fs EXCEPT !.checked = FALSE]
      BY <2>1, <2>4 DEF Filesystem
    <2> QED BY <1>2, <2>1, <2>2, <2>3, <2>4
  <1>4. /\ mounts \in SUBSET MountPoints
        /\ mounts \cup {attempt} \in SUBSET MountPoints
        /\ {} \in SUBSET MountPoints
    BY AttemptMounts DEF IInv, TypeOK
  <1>5. CASE Proceed /\ mounts' = mounts \cup {attempt}
    <2>1. /\ pc' = "UnmountAfterInstall"
          /\ UNCHANGED <<files, request, attempt, edits>>
      BY <1>1, <1>5 DEF Proceed, StageAfter
    <2>2. TypeOK'
      BY <1>1, <1>3, <1>4, <1>5, <2>1 DEF IInv, TypeOK, Stages
    <2> QED
      BY <1>1, <1>3, <2>1, <2>2, QuietStep DEF Steps, Stages, BeforeResize
  <1>6. ASSUME NEW left \in SUBSET MountPoints, Abort(left)
        PROVE  IInv'
    <2>1. TypeOK'
      BY <1>1, <1>3, <1>6, AbortTyped DEF IInv, TypeOK, Resting
    <2> QED BY <1>1, <1>3, <1>6, <2>1, QuietStep DEF Abort, Steps, Stages
  <1> QED BY <1>4, <1>5, <1>6 DEF InstallFirstBoot, LeftAfterFailedInstall

\* Unmounting again only touches mounts.
LEMMA UnmountAfterInstallKeeps == IInv /\ UnmountAfterInstall => IInv'
  <1> SUFFICES ASSUME IInv, UnmountAfterInstall PROVE IInv'
    OBVIOUS
  <1>1. /\ UNCHANGED <<size, table, kernel, fs>>
        /\ pc = "UnmountAfterInstall"
        /\ faults' \in 0..MaxFaults
    BY FaultsBounded DEF IInv, UnmountAfterInstall
  <1>2. CASE Proceed /\ mounts' = {}
    <2>1. /\ pc' = "PreResizeFsck"
          /\ UNCHANGED <<files, request, attempt, edits>>
      BY <1>1, <1>2 DEF Proceed, StageAfter
    <2>2. TypeOK'
      BY <1>1, <1>2, <2>1 DEF IInv, TypeOK, Stages
    <2> QED BY <1>1, <2>1, <2>2, QuietStep DEF Steps, Stages, BeforeResize
  <1>3. ASSUME NEW left \in SUBSET MountPoints, Abort(left)
        PROVE  IInv'
    <2>1. TypeOK'
      BY <1>1, <1>3, AbortTyped DEF IInv, TypeOK, Resting
    <2> QED BY <1>1, <1>3, <2>1, QuietStep DEF Abort, Steps, Stages
  <1> QED BY <1>2, <1>3 DEF UnmountAfterInstall, IInv, TypeOK

\* Rereading the table changes what the kernel knows, not the disk.
LEMMA RereadKeeps == IInv /\ RereadPartitionTable => IInv'
  <1> SUFFICES ASSUME IInv, RereadPartitionTable PROVE IInv'
    OBVIOUS
  <1>1. /\ UNCHANGED <<size, table, fs>>
        /\ pc = "RereadPartitionTable"
        /\ faults' \in 0..MaxFaults
        /\ kernel' \in {kernel, table}
    BY FaultsBounded DEF IInv, RereadPartitionTable
  <1>2. CASE Proceed /\ UNCHANGED mounts
    <2>1. pc' = "Revalidate" /\ UNCHANGED <<files, request, attempt, edits>>
      BY <1>1, <1>2 DEF Proceed, StageAfter
    <2>2. TypeOK'
      BY <1>1, <1>2, <2>1 DEF IInv, TypeOK, Stages
    <2> QED BY <1>1, <2>1, <2>2, QuietStep DEF Steps, Stages, BeforeResize
  <1>3. CASE Abort(mounts)
    <2>1. TypeOK'
      BY <1>1, <1>3, AbortTyped DEF IInv, TypeOK, Resting
    <2> QED BY <1>1, <1>3, <2>1, QuietStep DEF Abort, Steps, Stages
  <1> QED BY <1>2, <1>3 DEF RereadPartitionTable

\* The last stage only reads.
LEMMA RevalidateKeeps == IInv /\ Revalidate => IInv'
  <1> SUFFICES ASSUME IInv, Revalidate PROVE IInv'
    OBVIOUS
  <1>1. /\ UNCHANGED <<size, table, kernel, fs>>
        /\ pc = "Revalidate"
        /\ faults' \in 0..MaxFaults
    BY FaultsBounded DEF IInv, Revalidate
  <1>2. CASE Proceed /\ UNCHANGED mounts
    <2>1. pc' = "succeeded" /\ UNCHANGED <<files, request, attempt, edits>>
      BY <1>1, <1>2 DEF Proceed, StageAfter
    <2>2. TypeOK'
      BY <1>1, <1>2, <2>1 DEF IInv, TypeOK, Resting
    <2> QED BY <1>1, <2>1, <2>2, QuietStep DEF Steps, Stages
  <1>3. CASE Abort(mounts)
    <2>1. TypeOK'
      BY <1>1, <1>3, AbortTyped DEF IInv, TypeOK, Resting
    <2> QED BY <1>1, <1>3, <2>1, QuietStep DEF Abort, Steps, Stages
  <1> QED BY <1>2, <1>3 DEF Revalidate
-----------------------------------------------------------------------------
(* The two steps that rewrite the disk. *)

\* Rounding down to blocks gives at most the value.
LEMMA RoundDownBounds ==
  ASSUME NEW value \in Nat, NEW unit \in Nat \ {0}
  PROVE  RoundDown(value, unit) \in Nat /\ RoundDown(value, unit) <= value
  <1>1. value \div unit \in Nat /\ (value \div unit) * unit <= value
    BY DivisionBounds
  <1> QED BY <1>1 DEF RoundDown

\* What resize2fs may leave: a size no larger than before, and no larger than
\* the target when it succeeded.
LEMMA ResizeShrinks ==
  ASSUME IInv, ResizeFilesystem
  PROVE  /\ fs' \in Filesystem
         /\ fs'.number = fs.number /\ fs'.start = fs.start
         /\ fs'.bytes <= fs.bytes
         /\ Proceed => fs'.bytes <= request.targetKib * Kib
  <1> DEFINE target == request.targetKib * Kib
  <1>1. /\ fs \in Filesystem
        /\ fs.bytes \in Nat /\ fs.block \in Nat \ {0} /\ fs.minimum \in Nat
    BY DEF IInv, TypeOK, Filesystem
  <1>2. target \in Nat /\ target <= fs.bytes
    <2>1. pc \in Stages /\ pc \in BeforeResize
      BY DEF ResizeFilesystem, Stages, BeforeResize
    <2>2. request.targetKib \in Nat
      BY <2>1 DEF IInv, RequestFitsDisk, Request
    <2> QED BY <2>1, <2>2, GeometryAssumption DEF IInv, RequestFitsDisk
  <1>3. TargetOnDisk \in Nat /\ TargetOnDisk <= target
    BY <1>1, <1>2, RoundDownBounds DEF TargetOnDisk
  <1>4. pc # "failed"
    BY DEF ResizeFilesystem
  <1>5. CASE fs' = [fs EXCEPT !.bytes = TargetOnDisk]
    BY <1>1, <1>2, <1>3, <1>5 DEF Filesystem
  <1>6. CASE /\ TargetOnDisk - fs.block >= fs.minimum
             /\ fs' = [fs EXCEPT !.bytes = TargetOnDisk - fs.block]
    <2>1. /\ TargetOnDisk - fs.block \in Nat
          /\ TargetOnDisk - fs.block <= target
          /\ TargetOnDisk - fs.block <= fs.bytes
      BY <1>1, <1>2, <1>3, <1>6
    <2> QED BY <1>1, <1>6, <2>1 DEF Filesystem
  <1>7. CASE Abort(mounts) /\ UNCHANGED fs
    <2>1. ~Proceed
      BY <1>7 DEF Abort, Proceed, ResizeFilesystem, StageAfter
    <2> QED BY <1>1, <1>7, <2>1
  <1>8. ASSUME Abort(mounts), NEW bytes \in {fs.bytes, TargetOnDisk},
               fs' = [fs EXCEPT !.bytes = bytes, !.checked = FALSE]
        PROVE  /\ fs' \in Filesystem
               /\ fs'.number = fs.number /\ fs'.start = fs.start
               /\ fs'.bytes <= fs.bytes
               /\ ~Proceed
    <2>1. ~Proceed
      BY <1>8 DEF Abort, Proceed, ResizeFilesystem, StageAfter
    <2>2. bytes \in Nat /\ bytes <= fs.bytes
      BY <1>1, <1>2, <1>3
    <2> QED BY <1>1, <1>8, <2>1, <2>2 DEF Filesystem
  <1> QED BY <1>5, <1>6, <1>7, <1>8 DEF ResizeFilesystem

\* The place of the filesystem does not change when it is made smaller.
LEMMA ResizeFilesystemKeeps == IInv /\ ResizeFilesystem => IInv'
  <1> SUFFICES ASSUME IInv, ResizeFilesystem PROVE IInv'
    OBVIOUS
  <1>1. /\ UNCHANGED <<size, table, kernel>>
        /\ pc = "ResizeFilesystem"
        /\ faults' \in 0..MaxFaults
    BY FaultsBounded DEF IInv, ResizeFilesystem
  <1>2. /\ fs' \in Filesystem
        /\ fs'.number = fs.number /\ fs'.start = fs.start
        /\ fs'.bytes <= fs.bytes
        /\ Proceed => fs'.bytes <= request.targetKib * Kib
    BY ResizeShrinks
  <1>3. RootHoldsFilesystem'
    <2>1. /\ fs.bytes \in Nat /\ fs'.bytes \in Nat /\ fs.number \in Slots
          /\ table[fs.number].sectors \in Nat
      BY <1>2 DEF IInv, TypeOK, Filesystem, Entry
    <2>2. /\ table[fs.number].start = fs.start
          /\ fs.bytes <= table[fs.number].sectors * SectorSize
      BY DEF IInv, RootHoldsFilesystem, Holds
    <2> DEFINE room == table[fs.number].sectors * SectorSize
    <2>3. room \in Nat
      BY <2>1, DiskAssumption
    <2> HIDE DEF room
    <2>4. fs'.bytes <= room
      BY <1>2, <2>1, <2>2, <2>3 DEF room
    <2> QED BY <1>1, <1>2, <2>2, <2>4 DEF RootHoldsFilesystem, Holds, room
  <1>4. CASE Proceed /\ UNCHANGED mounts
    <2>1. /\ pc' = "PostResizeFsck"
          /\ UNCHANGED <<files, request, attempt, edits>>
      BY <1>1, <1>4 DEF Proceed, StageAfter
    <2>2. TypeOK'
      BY <1>1, <1>2, <1>4, <2>1 DEF IInv, TypeOK, Stages
    <2>3. RequestFitsDisk'
      BY <1>1, <1>2, <1>4, <2>1
      DEF IInv, RequestFitsDisk, BeforeResize, Stages
    <2> QED BY <1>3, <2>2, <2>3 DEF IInv
  <1>5. CASE Abort(mounts)
    <2>1. TypeOK'
      BY <1>1, <1>2, <1>5, AbortTyped DEF IInv, TypeOK, Resting
    <2>2. RequestFitsDisk'
      BY <1>5 DEF Abort, RequestFitsDisk, Stages
    <2> QED BY <1>3, <2>1, <2>2 DEF IInv
  <1> QED BY <1>4, <1>5 DEF ResizeFilesystem

\* The rewritten entry starts at the filesystem and holds the target, which
\* the filesystem has been reduced to.
LEMMA ResizePartitionKeeps == IInv /\ ResizePartition => IInv'
  <1> SUFFICES ASSUME IInv, ResizePartition PROVE IInv'
    OBVIOUS
  <1> DEFINE n == request.number
             sectors == request.rootEnd - request.rootStart + 1
             rewritten == [table EXCEPT ![n].start = request.rootStart,
                                        ![n].sectors = sectors]
  <1>1. /\ UNCHANGED <<size, kernel, fs>>
        /\ pc = "ResizePartition"
        /\ faults' \in 0..MaxFaults
    BY FaultsBounded DEF IInv, ResizePartition
  <1>2. /\ request \in Request
        /\ n = fs.number
        /\ request.rootStart = fs.start
        /\ request.targetKib * Kib <= sectors * SectorSize
        /\ fs.bytes <= request.targetKib * Kib
    BY <1>1 DEF IInv, RequestFitsDisk, Stages, BeforeResize
  <1>3. /\ table \in [Slots -> Entry] /\ n \in Slots
        /\ request.rootStart \in Nat /\ request.rootEnd \in Int
        /\ request.targetKib \in Nat /\ fs.bytes \in Nat
    BY <1>2 DEF IInv, TypeOK, Request, Filesystem
  <1>4. ASSUME request.rootEnd >= request.rootStart
        PROVE  /\ rewritten \in [Slots -> Entry]
               /\ Holds(rewritten[fs.number], fs)
    <2>1. sectors \in Nat
      BY <1>3, <1>4
    <2>2. /\ table[n] \in Entry
          /\ rewritten = [table EXCEPT ![n] =
                            [table[n] EXCEPT !.start = request.rootStart,
                                             !.sectors = sectors]]
      BY <1>3
    <2> HIDE DEF sectors
    <2> DEFINE entry == [table[n] EXCEPT !.start = request.rootStart,
                                         !.sectors = sectors]
    <2>3. /\ entry \in Entry
          /\ entry.start = request.rootStart /\ entry.sectors = sectors
      BY <1>3, <2>1, <2>2 DEF Entry
    <2>4. rewritten[n] = entry /\ rewritten \in [Slots -> Entry]
      BY <1>3, <2>2, <2>3
    <2> DEFINE room == sectors * SectorSize
               target == request.targetKib * Kib
    <2>5. room \in Int /\ target \in Int
      BY <1>3, <2>1, GeometryAssumption, DiskAssumption
    <2>6. target <= room /\ fs.bytes <= target
      BY <1>2
    <2>7. fs.bytes <= room
      <3> HIDE DEF room, target
      <3> QED BY <1>3, <2>5, <2>6
    <2> QED BY <1>2, <2>3, <2>4, <2>7 DEF Holds
  <1>5. table' \in [Slots -> Entry] /\ RootHoldsFilesystem'
    <2>1. table' = table \/ (request.rootEnd >= request.rootStart /\ table' = rewritten)
      BY DEF ResizePartition
    <2>2. CASE table' = table
      BY <1>1, <1>3, <2>2 DEF IInv, RootHoldsFilesystem
    <2>3. CASE request.rootEnd >= request.rootStart /\ table' = rewritten
      BY <1>1, <1>4, <2>3 DEF RootHoldsFilesystem
    <2> QED BY <2>1, <2>2, <2>3
  <1>6. CASE Proceed /\ UNCHANGED mounts
    <2>1. /\ pc' = "RereadPartitionTable"
          /\ UNCHANGED <<files, request, attempt, edits>>
      BY <1>1, <1>6 DEF Proceed, StageAfter
    <2>2. TypeOK'
      BY <1>1, <1>5, <1>6, <2>1 DEF IInv, TypeOK, Stages
    <2>3. RequestFitsDisk'
      BY <1>1, <2>1 DEF IInv, RequestFitsDisk, BeforeResize, Stages
    <2> QED BY <1>5, <2>2, <2>3 DEF IInv
  <1>7. CASE Abort(mounts)
    <2>1. TypeOK'
      BY <1>1, <1>5, <1>7, AbortTyped DEF IInv, TypeOK, Resting
    <2>2. RequestFitsDisk'
      BY <1>7 DEF Abort, RequestFitsDisk, Stages
    <2> QED BY <1>5, <2>1, <2>2 DEF IInv
  <1> QED BY <1>6, <1>7 DEF ResizePartition
-----------------------------------------------------------------------------
(* The other steps. *)

\* Starting to mutate takes the request over as it is.
LEMMA BeginMutationKeeps == IInv /\ BeginMutation => IInv'
  <1> SUFFICES ASSUME IInv, BeginMutation PROVE IInv'
    OBVIOUS
  <1>1. /\ pc = "planned" /\ pc' = "Unmount"
        /\ UNCHANGED <<size, table, kernel, fs, mounts, files, request, attempt,
                       faults, edits>>
    BY DEF BeginMutation, disk
  <1>2. TypeOK'
    BY <1>1 DEF IInv, TypeOK, Stages
  <1> QED BY <1>1, <1>2, QuietStep DEF Steps, Stages, BeforeResize

\* Nor do the desktop, the operator, other tools and crashes.
LEMMA EnvironmentKeeps == IInv /\ Environment => IInv'
  <1> SUFFICES ASSUME IInv, Environment PROVE IInv'
    OBVIOUS
  <1>1. CASE Automount
    <2>1. /\ table' = table
          /\ fs' = [fs EXCEPT !.checked = FALSE]
          /\ mounts' = mounts \cup {Desktop}
          /\ UNCHANGED <<size, kernel, files, pc, request, attempt, faults,
                         edits>>
      BY <1>1 DEF Automount
    <2>2. /\ fs' \in Filesystem /\ fs'.bytes = fs.bytes
          /\ fs'.number = fs.number /\ fs'.start = fs.start
      BY <2>1 DEF IInv, TypeOK, Filesystem
    <2>3. Desktop \in MountPoints
      BY DiskAssumption DEF Desktop, MountPoints
    <2>4. TypeOK'
      BY <2>1, <2>2, <2>3 DEF IInv, TypeOK
    <2> QED BY <2>1, <2>2, <2>4, QuietStep
  <1>2. CASE OperatorUnmount
    <2>1. TypeOK'
      BY <1>2 DEF OperatorUnmount, IInv, TypeOK
    <2> QED BY <1>2, <2>1, QuietStep DEF OperatorUnmount, Steps, Stages
  <1>3. CASE ForeignEdit
    <2>1. /\ UNCHANGED <<size, fs, mounts, files, pc, request, attempt, faults>>
          /\ kernel' = table'
          /\ edits < MaxEdits /\ edits' = edits + 1
          /\ Holds(table'[fs.number], fs)
      BY <1>3 DEF ForeignEdit
    <2>2. PICK n \in Slots, d \in Disks :
            table' = [table EXCEPT ![n] = d.table[n]]
      BY <1>3 DEF ForeignEdit
    <2>3. d.table[n] \in Entry
      BY DiskAssumption
    <2>4. table' \in [Slots -> Entry]
      BY <2>2, <2>3 DEF IInv, TypeOK
    <2>5. TypeOK'
      BY <2>1, <2>4, DiskAssumption DEF IInv, TypeOK
    <2>6. RootHoldsFilesystem'
      BY <2>1 DEF RootHoldsFilesystem
    <2>7. RequestFitsDisk'
      BY <2>1 DEF IInv, RequestFitsDisk
    <2> QED BY <2>5, <2>6, <2>7 DEF IInv
  <1>4. CASE Killed
    <2>1. TypeOK'
      BY <1>4, DiskAssumption DEF Killed, IInv, TypeOK, disk, Resting
    <2> QED BY <1>4, <2>1, QuietStep DEF Killed, disk, Steps, Stages
  <1>5. CASE PowerLoss
    <2>1. /\ fs' \in Filesystem /\ fs'.bytes = fs.bytes
          /\ fs'.number = fs.number /\ fs'.start = fs.start
      BY <1>5 DEF PowerLoss, IInv, TypeOK, Filesystem
    <2>2. TypeOK'
      BY <1>5, <2>1, DiskAssumption DEF PowerLoss, IInv, TypeOK, Resting
    <2> QED BY <1>5, <2>1, <2>2, QuietStep DEF PowerLoss, Steps, Stages
  <1> QED BY <1>1, <1>2, <1>3, <1>4, <1>5 DEF Environment

\* Every step, stuttering included, keeps the invariant.
LEMMA NextKeeps == IInv /\ [Next]_vars => IInv'
  <1> SUFFICES ASSUME IInv, [Next]_vars PROVE IInv'
    OBVIOUS
  <1>1. CASE Program
    <2>1. CASE \E available \in Available : Prepare(available)
      BY <2>1, PrepareKeeps
    <2>2. CASE BeginMutation
      BY <2>2, BeginMutationKeeps
    <2>3. CASE Perform
      <3>1. CASE \E stage \in {"PreflightFsck", "PreResizeFsck", "PostResizeFsck"} :
                   Fsck(stage)
        BY <3>1, FsckKeeps
      <3> QED
        BY <2>3, <3>1, UnmountKeeps, InstallKeeps, UnmountAfterInstallKeeps,
           ResizeFilesystemKeeps, ResizePartitionKeeps, RereadKeeps,
           RevalidateKeeps
        DEF Perform
    <2> QED BY <1>1, <2>1, <2>2, <2>3 DEF Program
  <1>2. CASE Environment
    BY <1>2, EnvironmentKeeps
  <1>3. CASE UNCHANGED vars
    BY <1>3 DEF vars, disk, IInv, TypeOK, RootHoldsFilesystem, RequestFitsDisk
  <1> QED BY <1>1, <1>2, <1>3 DEF Next, Finished

\* The inductive invariant holds in every reachable state.
THEOREM InvariantHolds == Spec => []IInv
  <1> QED BY InitEstablishes, NextKeeps, PTL DEF Spec

\* Every variable keeps its type, whatever the disks and the bounds.
THEOREM TypesHold == Spec => []TypeOK
  <1>1. IInv => TypeOK
    BY DEF IInv
  <1> QED BY <1>1, InvariantHolds, PTL

\* In every reachable state, so after every failure, kill and power loss, the
\* root entry on the disk holds the root filesystem.
THEOREM RootAlwaysHeld == Spec => []RootHoldsFilesystem
  <1>1. IInv => RootHoldsFilesystem
    BY DEF IInv
  <1> QED BY <1>1, InvariantHolds, PTL

\* Through the whole run the request fits the disk it was planned for.
THEOREM RequestAlwaysFits == Spec => []RequestFitsDisk
  <1>1. IInv => RequestFitsDisk
    BY DEF IInv
  <1> QED BY <1>1, InvariantHolds, PTL

\* No step makes the filesystem larger.
LEMMA NextShrinks == IInv /\ [Next]_vars => fs'.bytes <= fs.bytes
  <1> SUFFICES ASSUME IInv, [Next]_vars PROVE fs'.bytes <= fs.bytes
    OBVIOUS
  <1>1. fs \in Filesystem /\ fs.bytes \in Nat
    BY DEF IInv, TypeOK, Filesystem
  <1>2. CASE ResizeFilesystem
    BY <1>2, ResizeShrinks
  <1>3. CASE fs' = fs
    BY <1>1, <1>3
  <1>4. CASE InstallFirstBoot
    <2>1. fs' \in {Installed, PartlyInstalled, fs, [fs EXCEPT !.checked = FALSE]}
      BY <1>4 DEF InstallFirstBoot, LeftAfterFailedInstall
    <2>2. fs'.bytes = fs.bytes
      BY <1>1, <2>1 DEF Installed, PartlyInstalled, Filesystem
    <2> QED BY <1>1, <2>2
  <1>5. CASE fs' \in {[fs EXCEPT !.checked = TRUE], [fs EXCEPT !.checked = FALSE]}
    BY <1>1, <1>5 DEF Filesystem
  <1>6. \/ fs' = fs
        \/ ResizeFilesystem
        \/ InstallFirstBoot
        \/ fs' \in {[fs EXCEPT !.checked = TRUE], [fs EXCEPT !.checked = FALSE]}
    <2>1. CASE Program
      BY <2>1 DEF Program, Prepare, BeginMutation, Perform, Unmount, Fsck,
                  UnmountAfterInstall, ResizePartition, RereadPartitionTable,
                  Revalidate, disk
    <2>2. CASE Environment
      BY <2>2 DEF Environment, Automount, OperatorUnmount, ForeignEdit, Killed,
                  PowerLoss, disk
    <2>3. CASE UNCHANGED vars
      BY <2>3 DEF vars, disk
    <2> QED BY <2>1, <2>2, <2>3 DEF Next, Finished
  <1> QED BY <1>2, <1>3, <1>4, <1>5, <1>6

\* No step of any run makes the filesystem larger, for every disk, unit and
\* number of faults.
THEOREM NeverGrows == Spec => FilesystemNeverGrows
  <1>1. IInv /\ [Next]_vars => [fs'.bytes <= fs.bytes]_vars
    BY NextShrinks
  <1> QED BY <1>1, InvariantHolds, PTL DEF Spec, FilesystemNeverGrows
-----------------------------------------------------------------------------
(* The root tree.  An error drops the mutation mount directory with what is *)
(* below it; the run's own mount is there from the install to the unmount   *)
(* that follows it, and mounts of earlier runs are at other directories.    *)

MountInv ==
  /\ mounts \subseteq 0..attempt
  /\ pc \in Steps => attempt > 0
  /\ attempt > 0 /\ attempt \in mounts => pc \in {"UnmountAfterInstall", "failed"}

\* A stage that is not the install and leaves no mount of its own behind.
LEMMA MountsShrink ==
  ASSUME TypeOK, MountInv, mounts' \subseteq mounts \cup {Desktop},
         attempt' = attempt,
         pc' \in Steps => pc \in Steps,
         \/ mounts' = {}
         \/ pc' = "failed"
         \/ pc # "UnmountAfterInstall" /\ pc # "failed"
         \/ pc' = pc
  PROVE  MountInv'
  BY DiskAssumption DEF TypeOK, MountInv, Desktop

\* Every step keeps the mounts in their places.
LEMMA MountsKept == TypeOK /\ MountInv /\ [Next]_vars => MountInv'
  <1> SUFFICES ASSUME TypeOK, MountInv, [Next]_vars PROVE MountInv'
    OBVIOUS
  <1>1. attempt \in Nat
    BY DiskAssumption DEF TypeOK
  <1> USE DEF Steps, Stages, StageAfter, Proceed, Abort
  <1>2. ASSUME NEW available \in Available, Prepare(available) PROVE MountInv'
    <2>1. mounts' = mounts
      BY <1>2 DEF Prepare, disk
    <2>2. CASE pc' = "failed" /\ attempt' = attempt
      BY <2>1, <2>2, MountsShrink
    <2>3. CASE attempt' = attempt + 1
      <3>1. attempt' \notin mounts
        BY <1>1, <2>3 DEF MountInv
      <3> QED BY <1>1, <2>1, <2>3, <3>1 DEF MountInv
    <2> QED BY <1>2, <2>2, <2>3 DEF Prepare
  <1>3. CASE BeginMutation
    BY <1>3, MountsShrink DEF BeginMutation, disk
  <1>4. CASE Unmount
    BY <1>4, MountsShrink DEF Unmount, Remounts
  <1>5. ASSUME NEW stage \in {"PreflightFsck", "PreResizeFsck",
                              "PostResizeFsck"},
               Fsck(stage)
        PROVE  MountInv'
    BY <1>5, MountsShrink DEF Fsck
  <1>6. CASE InstallFirstBoot
    <2>1. attempt > 0 /\ attempt' = attempt
      BY <1>6 DEF InstallFirstBoot, MountInv
    <2>2. mounts' \subseteq mounts \cup {attempt}
      BY <1>6 DEF InstallFirstBoot, LeftAfterFailedInstall
    <2>3. pc' \in {"UnmountAfterInstall", "failed"}
      BY <1>6 DEF InstallFirstBoot
    <2> QED BY <1>1, <2>1, <2>2, <2>3 DEF MountInv
  <1>7. CASE UnmountAfterInstall
    <2>1. mounts' \subseteq mounts
      BY <1>7 DEF UnmountAfterInstall
    <2> QED BY <1>7, <2>1, MountsShrink DEF UnmountAfterInstall
  <1>8. CASE ResizeFilesystem
    BY <1>8, MountsShrink DEF ResizeFilesystem
  <1>9. CASE ResizePartition \/ RereadPartitionTable
    BY <1>9, MountsShrink DEF ResizePartition, RereadPartitionTable
  <1>10. CASE Revalidate
    BY <1>10, MountsShrink DEF Revalidate
  <1>11. CASE Automount
    <2>1. mounts' = mounts \cup {0} /\ pc' = pc /\ attempt' = attempt
      BY <1>11 DEF Automount, Desktop
    <2> QED BY <1>1, <2>1 DEF MountInv
  <1>12. CASE OperatorUnmount \/ ForeignEdit
    BY <1>12, MountsShrink DEF OperatorUnmount, ForeignEdit
  <1>13. CASE Killed \/ PowerLoss
    BY <1>13, MountsShrink DEF Killed, PowerLoss, disk
  <1>14. CASE UNCHANGED vars
    BY <1>14, MountsShrink DEF vars, disk
  <1> QED
    BY <1>2, <1>3, <1>4, <1>5, <1>6, <1>7, <1>8, <1>9, <1>10, <1>11, <1>12,
       <1>13, <1>14 DEF Next, Program, Perform, Environment, Finished

\* Files are lost only with a mount or an unmount of the root that failed and
\* left it mounted: either of them in the install, the unmount alone after it.
ErasedByStuckMount ==
  \/ pc = "InstallFirstBoot" /\ LeavesMounted # {}
  \/ pc = "UnmountAfterInstall" /\ "umount" \in LeavesMounted

LEMMA LostWithStuckMount ==
  ASSUME TypeOK, MountInv, [Next]_vars, files' # files
  PROVE  ErasedByStuckMount
  <1>1. attempt \in Nat
    BY DiskAssumption DEF TypeOK
  <1> USE DEF Proceed
  <1>2. ASSUME NEW left, Abort(left), left \subseteq mounts \cup {Desktop},
               pc \in Stages, pc # "UnmountAfterInstall"
        PROVE  FALSE
    <2>1. attempt > 0 /\ attempt \notin mounts
      BY <1>1, <1>2 DEF MountInv, Steps, Stages
    <2> QED BY <1>2, <2>1 DEF Abort, Desktop
  <1>3. CASE Unmount
    BY <1>2, <1>3 DEF Unmount, Remounts, Stages
  <1>4. ASSUME NEW stage \in {"PreflightFsck", "PreResizeFsck",
                              "PostResizeFsck"},
               Fsck(stage)
        PROVE  FALSE
    BY <1>2, <1>4 DEF Fsck, Stages
  <1>5. CASE InstallFirstBoot
    <2>1. ~Abort(LeftAfterFailedInstall)
      BY <1>2, <1>5 DEF InstallFirstBoot, LeftAfterFailedInstall, Stages
    <2>2. ~Abort(mounts)
      BY <1>2, <1>5 DEF InstallFirstBoot, Stages
    <2> QED BY <1>5, <2>1, <2>2 DEF InstallFirstBoot, ErasedByStuckMount
  <1>6. CASE UnmountAfterInstall
    BY <1>6 DEF UnmountAfterInstall, Abort, ErasedByStuckMount
  <1>7. CASE ResizeFilesystem
    BY <1>2, <1>7 DEF ResizeFilesystem, Stages
  <1>8. CASE ResizePartition \/ RereadPartitionTable
    BY <1>2, <1>8 DEF ResizePartition, RereadPartitionTable, Stages
  <1>9. CASE Revalidate
    BY <1>2, <1>9 DEF Revalidate, Stages
  <1>10. CASE Environment
    BY <1>10 DEF Environment, Automount, OperatorUnmount, ForeignEdit, Killed,
                 PowerLoss, disk
  <1>11. CASE BeginMutation \/ (\E available \in Available : Prepare(available))
    BY <1>11 DEF BeginMutation, Prepare, disk
  <1>12. CASE UNCHANGED vars
    BY <1>12 DEF vars, disk
  <1> QED
    BY <1>3, <1>4, <1>5, <1>6, <1>7, <1>8, <1>9, <1>10, <1>11, <1>12
    DEF Next, Program, Perform, Finished

\* The mounts stay in their places in every behaviour.
LEMMA MountsHold == Spec => [](TypeOK /\ MountInv)
  <1>1. Init => MountInv
    BY DEF Init, MountInv, Steps, Stages, Desktop
  <1> QED BY <1>1, MountsKept, TypesHold, PTL DEF Spec

\* In every run, with every failure, kill and crash: the root tree is erased
\* by no step but an error return of the install, after a mount or an unmount
\* that failed and left it mounted, or of the unmount that follows, after it
\* left it mounted.
THEOREM OnlyStuckMountErases == Spec => [][files' # files => ErasedByStuckMount]_vars
  <1>1. TypeOK /\ MountInv /\ [Next]_vars =>
          [files' # files => ErasedByStuckMount]_vars
    BY LostWithStuckMount
  <1> QED BY <1>1, MountsHold, PTL DEF Spec

\* So it survives every failure, kill and crash wherever a mount or unmount of
\* it that fails does not leave it mounted at the run's directory.
THEOREM FilesKept ==
  ASSUME LeavesMounted = {}
  PROVE  Spec => []FilesSurvive
  <1>1. Init => FilesSurvive
    BY DEF Init, FilesSurvive
  <1>2. TypeOK /\ MountInv /\ FilesSurvive /\ [Next]_vars => FilesSurvive'
    <2> SUFFICES ASSUME TypeOK, MountInv, FilesSurvive, [Next]_vars
                 PROVE  files' = files
      BY DEF FilesSurvive
    <2> QED BY LostWithStuckMount DEF ErasedByStuckMount
  <1> QED BY <1>1, <1>2, MountsHold, PTL DEF Spec
-----------------------------------------------------------------------------
(* Success.  The validation compares the table it reads back with the one   *)
(* that was analysed; that the result is the planned one needs what Prepare *)
(* knew of that table, and what the stages before did.                      *)

\* Stages that follow a complete install.
AfterInstall ==
  {"UnmountAfterInstall", "PreResizeFsck", "ResizeFilesystem",
   "PostResizeFsck", "ResizePartition", "RereadPartitionTable", "Revalidate"}

\* What was analysed: partitions that lie before the root, and the root.
OriginalInv ==
  pc \in Steps =>
    /\ Layout(request.original)
    /\ \A p \in request.original :
         p.number # request.number => p.end < request.rootStart

StageInv ==
  /\ pc \in AfterInstall => fs.service = "installed"
  /\ pc = "Revalidate" => kernel = table

SuccessInv == IInv /\ OriginalInv /\ StageInv /\ SuccessIsAsPlanned

\* The table the plan was made for.
LEMMA PrepareOriginal ==
  ASSUME IInv, NEW available \in Available, Prepare(available)
  PROVE  OriginalInv'
  <1> DEFINE parts == Partitions(table)
             root == LastPartition(parts)
             in == PlanInput(root, available)
  <1>1. CASE pc' # "planned"
    BY <1>1 DEF Prepare, OriginalInv, Steps, Stages
  <1>2. CASE pc' = "planned"
    <2>1. /\ ParseAccepts(TRUE, FALSE, table, size)
          /\ Classify(parts, Evidence(parts)) # "unsupported"
          /\ request'.number = root.number
          /\ request'.rootStart = root.start
          /\ request'.original = parts
      <3> DEFINE refused == \/ ~ParseAccepts(TRUE, FALSE, table, size)
            \/ InspectionFails
                            \/ Classify(parts, Evidence(parts)) = "unsupported"
                            \/ ~PlanAccepted(in)
      <3>1. ~refused
        BY <1>2 DEF Prepare
      <3>2. request' = [number |-> root.number,
                        rootStart |-> Plan(in).rootStart,
                        rootEnd |-> Plan(in).rootEnd,
                        targetKib |-> TargetKib(Plan(in)),
                        sectorSize |-> SectorSize,
                        original |-> parts]
        BY <3>1 DEF Prepare
      <3>3. Plan(in).rootStart = root.start
        BY DEF Plan, PlanInput
      <3> HIDE DEF parts, root, in
      <3> QED BY <3>1, <3>2, <3>3
    <2>2. table \in [Slots -> Entry] /\ size \in Int
      BY DEF IInv, TypeOK
    <2>3. /\ Layout(parts)
          /\ \A p, q \in parts : p # q => ~Overlap(p, q)
      BY <2>1, <2>2, AcceptedTable
    <2>4. root \in parts /\ EndsLast(root, parts)
      BY <2>1, SupportedRoot, LastPartitionIsLast
    <2>5. ASSUME NEW p \in parts, p.number # root.number
          PROVE  p.end < root.start
      <3>1. ~Overlap(p, root) /\ p.end <= root.end
        BY <2>3, <2>4, <2>5 DEF EndsLast
      <3>2. /\ p.start \in Int /\ p.end \in Int /\ p.start <= p.end
            /\ root.start \in Int /\ root.end \in Int
        BY <2>3, <2>4 DEF Layout, Partition
      <3> HIDE DEF root, parts
      <3> QED BY <3>1, <3>2 DEF Overlap
    <2> HIDE DEF root, parts
    <2> QED BY <1>2, <2>1, <2>3, <2>5 DEF OriginalInv
  <1> QED BY <1>1, <1>2

\* No other step changes what was analysed, while the run is under way.
LEMMA OriginalKept == IInv /\ OriginalInv /\ [Next]_vars => OriginalInv'
  <1> SUFFICES ASSUME IInv, OriginalInv, [Next]_vars PROVE OriginalInv'
    OBVIOUS
  <1>1. CASE \E available \in Available : Prepare(available)
    BY <1>1, PrepareOriginal
  <1>2. ASSUME request' = request, pc' \in Steps => pc \in Steps
        PROVE  OriginalInv'
    BY <1>2 DEF OriginalInv
  <1>3. ASSUME pc \in Steps, Proceed \/ (\E left : Abort(left))
        PROVE  OriginalInv'
    BY <1>2, <1>3 DEF Proceed, Abort
  <1>4. CASE Perform
    <2>1. pc \in Steps
      BY <1>4 DEF Perform, Unmount, Fsck, InstallFirstBoot, UnmountAfterInstall,
                  ResizeFilesystem, ResizePartition, RereadPartitionTable,
                  Revalidate, Steps, Stages
    <2>2. Proceed \/ (\E left : Abort(left))
      BY <1>4 DEF Perform, Unmount, Fsck, InstallFirstBoot, UnmountAfterInstall,
                  ResizeFilesystem, ResizePartition, RereadPartitionTable,
                  Revalidate
    <2> QED BY <1>3, <2>1, <2>2
  <1>5. CASE BeginMutation
    BY <1>2, <1>5 DEF BeginMutation, Steps
  <1>6. CASE Environment
    BY <1>2, <1>6 DEF Environment, Automount, OperatorUnmount, ForeignEdit,
                      Killed, PowerLoss, Steps, Stages
  <1>7. CASE UNCHANGED vars
    BY <1>2, <1>7 DEF vars
  <1> QED
    BY <1>1, <1>4, <1>5, <1>6, <1>7 DEF Next, Program, Finished

\* An install that was complete stays, and the kernel learns the table.
LEMMA StageKept == IInv /\ StageInv /\ [Next]_vars => StageInv'
  <1> SUFFICES ASSUME IInv, StageInv, [Next]_vars PROVE StageInv'
    OBVIOUS
  <1> USE DEF StageInv, AfterInstall, Proceed, Abort, StageAfter, Stages
  <1>1. fs \in Filesystem
    BY DEF IInv, TypeOK
  <1>2. CASE \E available \in Available : Prepare(available)
    BY <1>2 DEF Prepare
  <1>3. CASE BeginMutation \/ Unmount
    BY <1>3 DEF BeginMutation, Unmount
  <1>4. ASSUME NEW stage \in {"PreflightFsck", "PreResizeFsck",
                              "PostResizeFsck"},
               Fsck(stage)
        PROVE  StageInv'
    <2>1. fs'.service = fs.service
      BY <1>1, <1>4 DEF Fsck, Filesystem
    <2> QED BY <1>4, <2>1 DEF Fsck
  <1>5. CASE InstallFirstBoot
    <2>1. CASE Proceed /\ fs' = Installed
      <3>1. fs'.service = "installed"
        BY <1>1, <2>1 DEF Installed, Filesystem
      <3> QED BY <1>5, <2>1, <3>1 DEF InstallFirstBoot
    <2>2. CASE \E left : Abort(left)
      BY <2>2
    <2> QED BY <1>5, <2>1, <2>2 DEF InstallFirstBoot
  <1>6. CASE UnmountAfterInstall
    BY <1>6 DEF UnmountAfterInstall
  <1>7. CASE ResizeFilesystem
    <2>1. fs'.service = fs.service
      BY <1>1, <1>7 DEF ResizeFilesystem, Filesystem
    <2> QED BY <1>7, <2>1 DEF ResizeFilesystem
  <1>8. CASE ResizePartition \/ RereadPartitionTable \/ Revalidate
    <2>1. fs' = fs
      BY <1>8 DEF ResizePartition, RereadPartitionTable, Revalidate
    <2>2. CASE ResizePartition
      BY <2>1, <2>2 DEF ResizePartition
    <2>3. CASE RereadPartitionTable
      <3>1. pc = "RereadPartitionTable" /\ table' = table
        BY <2>3 DEF RereadPartitionTable
      <3>2. Abort(mounts) \/ (Proceed /\ kernel' = table)
        BY <2>3 DEF RereadPartitionTable
      <3> QED BY <2>1, <3>1, <3>2
    <2>4. CASE Revalidate
      <3>1. pc = "Revalidate"
        BY <2>4 DEF Revalidate
      <3>2. Abort(mounts) \/ Proceed
        BY <2>4 DEF Revalidate
      <3> QED BY <2>1, <3>1, <3>2
    <2> QED BY <1>8, <2>2, <2>3, <2>4
  <1>9. CASE Automount
    <2>1. fs'.service = fs.service
      BY <1>1, <1>9 DEF Automount, Filesystem
    <2> QED BY <1>9, <2>1 DEF Automount
  <1>10. CASE OperatorUnmount \/ ForeignEdit \/ Killed \/ PowerLoss
    BY <1>10 DEF OperatorUnmount, ForeignEdit, Killed, PowerLoss
  <1>11. CASE UNCHANGED vars
    BY <1>11 DEF vars, disk
  <1> QED
    BY <1>2, <1>3, <1>4, <1>5, <1>6, <1>7, <1>8, <1>9, <1>10, <1>11
    DEF Next, Program, Perform, Environment, Finished

\* Of the partitions read back, all but the root are those analysed.
LEMMA OthersAsAnalysed ==
  ASSUME NEW req, NEW parts, Layout(parts), Layout(req.original),
         OthersUnchanged(req, parts), NEW root \in parts,
         root.number = req.number, Named(req, req.original) # {}
  PROVE  parts \ {root} = {p \in req.original : p.number # req.number}
  <1> DEFINE original == req.original
             others == {p \in original : p.number # req.number}
  <1>1. PICK was \in original : was.number = req.number
    BY DEF Named
  <1>2. others = original \ {was} /\ Named(req, original) = {was}
    BY <1>1 DEF Layout, Named
  <1>3. /\ IsFiniteSet(others)
        /\ Cardinality(others) = Cardinality(original) - 1
    <2>1. IsFiniteSet(original) /\ was \in original
      BY <1>1 DEF Layout
    <2>2. /\ IsFiniteSet(original \ {was})
          /\ Cardinality(original \ {was}) = Cardinality(original) - 1
      BY ONLY <2>1, FS_RemoveElement
    <2> QED BY <1>2, <2>2
  <1>4. /\ IsFiniteSet(parts \ {root})
        /\ Cardinality(parts \ {root}) = Cardinality(parts) - 1
    BY FS_RemoveElement DEF Layout
  <1>5. others \in SUBSET (parts \ {root})
    BY <1>2 DEF OthersUnchanged
  <1>6. Cardinality(parts) = Cardinality(original)
    BY DEF OthersUnchanged
  <1> HIDE DEF others
  <1> QED BY <1>3, <1>4, <1>5, <1>6, FS_Subset DEF others

\* What the validation accepts is the planned disk.
LEMMA ValidIsAsPlanned ==
  ASSUME IInv, OriginalInv, pc = "Revalidate",
         ParseAccepts(TRUE, FALSE, table, size),
         PostShrinkAccepted(request, Partitions(table),
                            [bytes |-> fs.bytes, block |-> fs.block])
  PROVE  LET root == PartitionOf(table, request.number)
         IN  /\ {p \in Partitions(table) : p # root}
                  = {p \in request.original : p.number # request.number}
             /\ \E was \in request.original :
                  root = [was EXCEPT !.end = request.rootEnd,
                            !.sectors = request.rootEnd - was.start + 1]
             /\ ParseAccepts(TRUE, FALSE, table, request.rootEnd + 1)
  <1> DEFINE parts == Partitions(table)
             root == PartitionOf(table, request.number)
  <1>1. table \in [Slots -> Entry] /\ size \in Int
    BY DEF IInv, TypeOK
  <1>2. Layout(parts) /\ Layout(request.original)
    BY <1>1, AcceptedTable DEF OriginalInv, Steps, Stages
  <1>3. \A p \in parts : p.number \in Slots /\ p = PartitionOf(table, p.number)
    BY <1>1, PartitionsTyped
  <1>4. PICK is \in parts : is.number = request.number
    BY DEF PostShrinkAccepted, Named
  <1>5. root \in parts /\ root.number = request.number
    BY <1>3, <1>4
  <1>6. PICK was \in request.original : was.number = request.number
    BY DEF PostShrinkAccepted, Named
  <1>7. /\ OthersUnchanged(request, parts)
        /\ Named(request, request.original) # {}
        /\ root.start = was.start /\ root.start = request.rootStart
        /\ root.type = was.type /\ root.boot = was.boot
        /\ root.end = request.rootEnd
    BY <1>5, <1>6 DEF PostShrinkAccepted, Named
  <1>8. parts \ {root} = {p \in request.original : p.number # request.number}
    <2> HIDE DEF parts, root
    <2> QED BY <1>2, <1>5, <1>7, OthersAsAnalysed
  <1>9. request.number \in Slots /\ request.rootEnd \in Int
    BY DEF IInv, RequestFitsDisk, Request, Stages
  <1>10. root.sectors = request.rootEnd - was.start + 1
    <2>1. root.end = root.start + root.sectors - 1
      BY DEF PartitionOf, EndOf
    <2>2. root.start \in Int /\ root.sectors \in Int
      BY <1>2, <1>5 DEF Layout, Partition
    <2> HIDE DEF root
    <2> QED BY <1>7, <1>9, <2>1, <2>2
  <1>11. root = [was EXCEPT !.end = request.rootEnd,
                            !.sectors = request.rootEnd - was.start + 1]
    <2>1. was \in Partition /\ root \in Partition
      BY <1>2, <1>5, <1>6 DEF Layout
    <2> HIDE DEF root
    <2> QED BY <1>5, <1>6, <1>7, <1>10, <2>1 DEF Partition
  <1>12. ParseAccepts(TRUE, FALSE, table, request.rootEnd + 1)
    <2>1. \A p \in parts : p.end <= request.rootEnd
      <3> TAKE p \in parts
      <3>1. CASE p = root
        BY <1>7, <1>9, <3>1
      <3>2. CASE p # root
        <4>1. p.end < request.rootStart
          BY <1>8, <3>2 DEF OriginalInv, Steps, Stages
        <4>2. root.start <= root.end /\ p.end \in Int /\ root.start \in Int
          BY <1>2, <1>5 DEF Layout, Partition
        <4> HIDE DEF root, parts
        <4> QED BY <1>7, <1>9, <4>1, <4>2
      <3> QED BY <3>1, <3>2
    <2>2. ASSUME NEW n \in Slots, ~UnusedEntry(table[n])
          PROVE  EntryAccepted(table[n], request.rootEnd + 1)
      <3>1. PartitionOf(table, n) \in parts
        BY <2>2 DEF Partitions
      <3>2. EndOf(table[n]) <= request.rootEnd
        BY <2>1, <3>1 DEF PartitionOf
      <3>3. EndOf(table[n]) \in Int
        BY <1>1 DEF EndOf, Entry
      <3>4. EntryAccepted(table[n], size)
        BY <2>2 DEF ParseAccepts
      <3> QED BY <1>9, <3>2, <3>3, <3>4 DEF EntryAccepted
    <2> QED BY <2>2 DEF ParseAccepts
  <1> QED BY <1>8, <1>11, <1>12

\* Success is reported by the validation alone, and nothing follows it.
LEMMA SuccessKept == SuccessInv /\ [Next]_vars => SuccessIsAsPlanned'
  <1> SUFFICES ASSUME SuccessInv, [Next]_vars, pc' = "succeeded"
               PROVE  SuccessIsAsPlanned'
    BY DEF SuccessIsAsPlanned
  <1>1. CASE Revalidate
    <2>1. /\ pc = "Revalidate"
          /\ UNCHANGED <<size, table, kernel, fs, request>>
          /\ ParseAccepts(TRUE, FALSE, table, size)
          /\ PostShrinkAccepted(request, Partitions(table),
                                [bytes |-> fs.bytes, block |-> fs.block])
      BY <1>1 DEF Revalidate, Abort, Proceed
    <2>2. /\ request.number = fs.number
          /\ fs.bytes <= request.targetKib * Kib
      BY <2>1 DEF SuccessInv, IInv, RequestFitsDisk, Stages, BeforeResize
    <2>3. kernel = table /\ fs.service = "installed"
      BY <2>1 DEF SuccessInv, StageInv, AfterInstall
    <2> DEFINE root == PartitionOf(table, request.number)
    <2>4. /\ {p \in Partitions(table) : p # root}
               = {p \in request.original : p.number # request.number}
          /\ \E was \in request.original :
               root = [was EXCEPT !.end = request.rootEnd,
                         !.sectors = request.rootEnd - was.start + 1]
          /\ ParseAccepts(TRUE, FALSE, table, request.rootEnd + 1)
      BY <2>1, ValidIsAsPlanned DEF SuccessInv
    <2>5. table' = table /\ kernel' = kernel /\ fs' = fs /\ request' = request
      BY <2>1
    <2> HIDE DEF root
    <2> QED BY <2>2, <2>3, <2>4, <2>5 DEF SuccessIsAsPlanned, root
  <1>2. CASE pc = "succeeded"
    <2>1. fs \in Filesystem
      BY DEF SuccessInv, IInv, TypeOK
    <2>2. /\ UNCHANGED <<table, kernel, request>>
          /\ fs' = fs \/ fs' = [fs EXCEPT !.checked = FALSE]
      BY <1>2
      DEF Next, Program, Prepare, BeginMutation, Perform, Unmount, Fsck,
          InstallFirstBoot, UnmountAfterInstall, ResizeFilesystem,
          ResizePartition, RereadPartitionTable, Revalidate, Environment,
          Automount, OperatorUnmount, ForeignEdit, Killed, PowerLoss, Finished,
          vars, disk, Stages
    <2>3. /\ fs'.number = fs.number /\ fs'.bytes = fs.bytes
          /\ fs'.service = fs.service
      BY <2>1, <2>2 DEF Filesystem
    <2>4. table' = table /\ kernel' = kernel /\ request' = request
      BY <2>2
    <2> QED BY <1>2, <2>3, <2>4 DEF SuccessInv, SuccessIsAsPlanned
  <1>3. CASE pc # "succeeded" /\ ~Revalidate
    <2>1. CASE Perform
      <3>1. /\ pc \in Stages \ {"Revalidate"}
            /\ Proceed \/ (\E left : Abort(left))
        BY <1>3, <2>1
        DEF Perform, Unmount, Fsck, InstallFirstBoot, UnmountAfterInstall,
            ResizeFilesystem, ResizePartition, RereadPartitionTable, Stages
      <3>2. pc' # "succeeded"
        BY <3>1 DEF Proceed, Abort, StageAfter, Stages
      <3> QED BY <3>2
    <2>2. CASE BeginMutation \/ (\E available \in Available : Prepare(available))
      BY <2>2 DEF BeginMutation, Prepare
    <2>3. CASE Environment
      BY <1>3, <2>3 DEF Environment, Automount, OperatorUnmount, ForeignEdit,
                        Killed, PowerLoss
    <2>4. CASE UNCHANGED vars
      BY <1>3, <2>4 DEF vars
    <2> QED BY <2>1, <2>2, <2>3, <2>4 DEF Next, Program, Finished
  <1> QED BY <1>1, <1>2, <1>3

\* For every disk, and whatever other tools did to the table meanwhile: a run
\* that reports success has left the table it planned, a filesystem inside
\* its target that can expand itself, and an image the flash will accept.
THEOREM SuccessIsPlanned == Spec => []SuccessIsAsPlanned
  <1>1. Init => SuccessInv
    BY InitEstablishes
    DEF Init, SuccessInv, OriginalInv, StageInv, SuccessIsAsPlanned, Steps,
        Stages, AfterInstall
  <1>2. SuccessInv /\ [Next]_vars => SuccessInv'
    BY NextKeeps, OriginalKept, StageKept, SuccessKept DEF SuccessInv
  <1>3. SuccessInv => SuccessIsAsPlanned
    BY DEF SuccessInv
  <1> QED BY <1>1, <1>2, <1>3, PTL DEF Spec
-----------------------------------------------------------------------------
(* Room.  The target was planned before the first-boot assets were written;  *)
(* sizes in whole blocks, and a margin wider than the assets, make sure that *)
(* it still holds the contents when resize2fs is started.                    *)

\* Sizes of the filesystem are whole blocks of whole KiB.
UnitInv ==
  /\ fs.block % Kib = 0
  /\ fs.bytes % fs.block = 0
  /\ fs.minimum % fs.block = 0
  /\ InstallGrowth % fs.block = 0

\* Steps from the plan to the install.
BeforeInstall == {"planned", "Unmount", "PreflightFsck", "InstallFirstBoot"}

\* The target holds the contents, and where the assets fit their room too.
TargetInv ==
  /\ pc \in BeforeResize => fs.minimum <= TargetOnDisk
  /\ pc \in BeforeInstall /\ fs.service # "installed" /\ InstallFits =>
       fs.minimum + InstallGrowth <= TargetOnDisk

\* What the check just before the resize has left.
ReadyInv == pc = "ResizeFilesystem" => mounts = {} /\ fs.checked

RoomInv == IInv /\ UnitInv /\ TargetInv /\ ReadyInv

\* Whole blocks add up to, and differ by, whole blocks.
LEMMA WholeBlocks ==
  ASSUME NEW block \in Nat \ {0}
  PROVE  /\ \A n \in Nat : (n * block) % block = 0
         /\ \A a, b \in Nat : a % block = 0 /\ b % block = 0 =>
              (a + b) % block = 0
         /\ \A a \in Nat : a % block = 0 /\ a - block >= 0 =>
              (a - block) % block = 0
  <1>1. ASSUME NEW n \in Nat PROVE (n * block) % block = 0
    OBVIOUS
  <1>2. ASSUME NEW a \in Nat, NEW b \in Nat, a % block = 0, b % block = 0
        PROVE  (a + b) % block = 0
    <2>1. /\ a \div block \in Nat /\ a = (a \div block) * block
          /\ b \div block \in Nat /\ b = (b \div block) * block
      BY <1>2, ExactDivision
    <2>2. PICK m \in Nat, n \in Nat : a = m * block /\ b = n * block
      BY <2>1
    <2>3. a + b = (m + n) * block /\ m + n \in Nat
      BY <2>2
    <2> QED BY <1>1, <2>3
  <1>3. ASSUME NEW a \in Nat, a % block = 0, a - block >= 0
        PROVE  (a - block) % block = 0
    <2>1. a \div block \in Nat /\ a = (a \div block) * block
      BY <1>3, ExactDivision
    <2>2. PICK m \in Nat : a = m * block
      BY <2>1
    <2>3. m # 0
      BY <1>3, <2>2
    <2>4. a - block = (m - 1) * block /\ m - 1 \in Nat
      BY <2>2, <2>3
    <2> QED BY <1>1, <2>4
  <1> QED BY <1>1, <1>2, <1>3

\* What an accepted plan reserves: the minimum, and room for the assets where
\* the filesystem has it.
LEMMA PlanReserves ==
  ASSUME NEW in, TypedInput(in), PlanAccepted(in), NEW block \in Nat \ {0},
         block % Kib = 0, in.minimum % block = 0, InstallGrowth % block = 0
  PROVE  LET target == RoundDown(TargetKib(Plan(in)) * Kib, block)
         IN  /\ in.minimum <= target
             /\ in.minimum + InstallGrowth <= in.current =>
                  in.minimum + InstallGrowth <= target
  <1> DEFINE target == Plan(in).target
  <1>1. target \in Nat /\ in.minimum <= target
    BY PlanBounds
  <1>2. /\ in.minimum \in Nat /\ in.current \in Nat
        /\ InstallGrowth \in Nat /\ FixedMargin \in Nat
        /\ InstallGrowth <= FixedMargin
    BY DiskAssumption, UnitAssumption, GeometryAssumption DEF TypedInput
  <1>3. FixedMargin <= SafetyMargin(in) /\ SafetyMargin(in) \in Nat
    <2>1. in.minimum * 5 \in Nat
      BY <1>2
    <2>2. (in.minimum * 5) \div 100 \in Nat
      BY <2>1, DivisionBounds
    <2> QED BY <1>2, <2>2 DEF SafetyMargin, Larger
  <1>4. ASSUME in.minimum + InstallGrowth <= in.current
        PROVE  in.minimum + InstallGrowth <= target
    BY <1>2, <1>3, <1>4 DEF Plan, TargetBytes, Smaller
  <1>5. (in.minimum + InstallGrowth) % block = 0
    BY <1>2, WholeBlocks
  <1>6. in.minimum + InstallGrowth \in Nat
    BY <1>2
  <1> HIDE DEF target
  <1>7. \A floor \in Nat : floor % block = 0 /\ floor <= target =>
          floor <= ((((target \div Kib) * Kib) \div block) * block)
    BY <1>1, RoundingKeepsBlocks
  <1>8. RoundDown(TargetKib(Plan(in)) * Kib, block)
          = ((((target \div Kib) * Kib) \div block) * block)
    BY DEF RoundDown, TargetKib, target
  <1> QED BY <1>1, <1>2, <1>4, <1>5, <1>6, <1>7, <1>8

\* A plan leaves room.
LEMMA PrepareRoom ==
  ASSUME IInv, UnitInv, NEW available \in Available, Prepare(available)
  PROVE  TargetInv'
  <1> DEFINE parts == Partitions(table)
             root == LastPartition(parts)
             in == PlanInput(root, available)
             refused == \/ ~ParseAccepts(TRUE, FALSE, table, size)
                        \/ InspectionFails
                        \/ Classify(parts, Evidence(parts)) = "unsupported"
                        \/ ~PlanAccepted(in)
  <1>1. fs' = fs /\ pc' \in {"planned", "failed"}
    BY DEF Prepare, disk
  <1>2. CASE refused
    BY <1>2 DEF Prepare, TargetInv, BeforeResize, BeforeInstall
  <1>3. CASE ~refused
    <2>1. /\ fs.minimum \in Nat /\ fs.bytes \in Nat
          /\ fs.block \in Nat \ {0} /\ table \in [Slots -> Entry]
      BY DEF IInv, TypeOK, Filesystem
    <2>2. root \in parts
      BY <1>3, SupportedRoot, LastPartitionIsLast
    <2>3. root.start \in Nat
      BY <2>1, <2>2, PartitionsTyped DEF Partition
    <2>4. TypedInput(in) /\ in.minimum = fs.minimum /\ in.current = fs.bytes
      BY <2>1, <2>3, DiskAssumption DEF TypedInput, PlanInput
    <2>5. request'.targetKib = TargetKib(Plan(in))
      BY <1>3 DEF Prepare
    <2> HIDE DEF in, root, parts
    <2>6. /\ fs.minimum <= TargetOnDisk'
          /\ fs.minimum + InstallGrowth <= fs.bytes =>
               fs.minimum + InstallGrowth <= TargetOnDisk'
      BY <1>1, <1>3, <2>1, <2>4, <2>5, PlanReserves
      DEF UnitInv, TargetOnDisk
    <2> QED BY <1>1, <2>6 DEF TargetInv, InstallFits
  <1> QED BY <1>2, <1>3

\* Steps that leave the sizes and the request as they are.
LEMMA RoomUntouched ==
  ASSUME TypeOK, UnitInv, TargetInv,
         fs'.block = fs.block, fs'.bytes = fs.bytes,
         fs'.minimum = fs.minimum,
         fs.service = "installed" => fs'.service = "installed",
         request' = request,
         pc' \in BeforeResize => pc \in BeforeResize,
         pc' \in BeforeInstall => pc \in BeforeInstall
  PROVE  UnitInv' /\ TargetInv'
  <1>1. UnitInv'
    BY DEF UnitInv
  <1>2. TargetOnDisk' = TargetOnDisk
    BY DEF TargetOnDisk
  <1>3. InstallFits' /\ fs'.service # "installed" => InstallFits
    BY DEF InstallFits
  <1> QED BY <1>1, <1>2, <1>3 DEF TargetInv

\* The install takes the room that was reserved for it.
LEMMA InstallRoom ==
  ASSUME IInv, UnitInv, TargetInv, InstallFirstBoot
  PROVE  UnitInv' /\ TargetInv'
  <1>1. /\ fs \in Filesystem /\ fs.minimum \in Nat
        /\ fs.block \in Nat \ {0} /\ InstallGrowth \in Nat
    BY DiskAssumption DEF IInv, TypeOK, Filesystem
  <1>2. pc = "InstallFirstBoot" /\ request' = request
    BY DEF InstallFirstBoot, Proceed, Abort
  <1>3. CASE Proceed /\ fs' = Installed /\ InstallFits /\ fs.service # "installed"
    <2>1. fs' = [fs EXCEPT !.checked = FALSE, !.service = "installed",
                           !.minimum = fs.minimum + InstallGrowth]
      BY <1>3 DEF Installed
    <2>2. /\ fs'.minimum = fs.minimum + InstallGrowth
          /\ fs'.block = fs.block /\ fs'.bytes = fs.bytes
          /\ fs'.service = "installed"
      BY <1>1, <2>1 DEF Filesystem
    <2>3. fs.minimum + InstallGrowth <= TargetOnDisk
      BY <1>2, <1>3 DEF TargetInv, BeforeInstall
    <2>4. TargetOnDisk' = TargetOnDisk
      BY <1>2, <2>2 DEF TargetOnDisk
    <2>5. (fs.minimum + InstallGrowth) % fs.block = 0
      BY <1>1, WholeBlocks DEF UnitInv
    <2>6. UnitInv'
      BY <2>2, <2>5 DEF UnitInv
    <2>7. TargetInv'
      BY <2>2, <2>3, <2>4 DEF TargetInv
    <2> QED BY <2>6, <2>7
  <1>4. CASE fs' = Installed /\ fs.service = "installed" /\ Proceed
    <2>1. /\ fs'.minimum = fs.minimum /\ fs'.block = fs.block
          /\ fs'.bytes = fs.bytes /\ fs'.service = fs.service
      BY <1>1, <1>4 DEF Installed, Filesystem
    <2>2. pc' = "UnmountAfterInstall"
      BY <1>2, <1>4 DEF Proceed, StageAfter
    <2> QED BY <1>2, <2>1, <2>2, RoomUntouched
            DEF IInv, BeforeResize, BeforeInstall
  <1>5. CASE /\ pc' = "failed"
             /\ fs' \in {fs, PartlyInstalled, [fs EXCEPT !.checked = FALSE]}
    <2>1. /\ fs'.minimum = fs.minimum /\ fs'.block = fs.block
          /\ fs'.bytes = fs.bytes
          /\ fs.service = "installed" => fs'.service = "installed"
      BY <1>1, <1>5 DEF PartlyInstalled, Filesystem
    <2> QED BY <1>2, <1>5, <2>1, RoomUntouched
            DEF IInv, BeforeResize, BeforeInstall
  <1> QED BY <1>3, <1>4, <1>5 DEF InstallFirstBoot, Abort

\* The resize leaves whole blocks.
LEMMA ResizeRoom ==
  ASSUME IInv, UnitInv, TargetInv, ResizeFilesystem
  PROVE  UnitInv' /\ TargetInv'
  <1>1. /\ fs \in Filesystem /\ fs.minimum \in Nat
        /\ fs.block \in Nat \ {0} /\ fs.bytes \in Nat
    BY DEF IInv, TypeOK, Filesystem
  <1>2. request.targetKib * Kib \in Nat
    <2>1. request.targetKib \in Nat
      BY DEF IInv, RequestFitsDisk, ResizeFilesystem, Stages, Request
    <2> QED BY <2>1, GeometryAssumption
  <1>3. TargetOnDisk \in Nat /\ TargetOnDisk % fs.block = 0
    <2>1. (request.targetKib * Kib) \div fs.block \in Nat
      BY <1>1, <1>2, DivisionBounds
    <2> HIDE DEF TargetOnDisk
    <2>2. TargetOnDisk = ((request.targetKib * Kib) \div fs.block) * fs.block
      BY DEF TargetOnDisk, RoundDown
    <2> QED BY <1>1, <2>1, <2>2, WholeBlocks
  <1>4. /\ fs'.minimum = fs.minimum /\ fs'.block = fs.block
        /\ fs'.service = fs.service
        /\ fs'.bytes \in {fs.bytes, TargetOnDisk}
           \/ (fs'.bytes = TargetOnDisk - fs.block /\ fs'.bytes >= fs.minimum)
    <2> HIDE DEF TargetOnDisk
    <2> QED BY <1>1 DEF ResizeFilesystem, Filesystem
  <1>5. fs'.bytes % fs.block = 0
    <2>1. CASE fs'.bytes \in {fs.bytes, TargetOnDisk}
      BY <1>3, <2>1 DEF UnitInv
    <2>2. CASE fs'.bytes = TargetOnDisk - fs.block /\ fs'.bytes >= fs.minimum
      <3>1. TargetOnDisk - fs.block >= 0
        BY <1>1, <1>3, <2>2
      <3> QED BY <1>1, <1>3, <2>2, <3>1, WholeBlocks
    <2> QED BY <1>4, <2>1, <2>2
  <1>6. UnitInv'
    BY <1>4, <1>5 DEF UnitInv
  <1>7. pc' \in {"PostResizeFsck", "failed"}
    BY DEF ResizeFilesystem, Proceed, Abort, StageAfter
  <1> QED BY <1>6, <1>7 DEF TargetInv, BeforeResize, BeforeInstall

\* Every step keeps the room.
LEMMA RoomKept == IInv /\ UnitInv /\ TargetInv /\ [Next]_vars => UnitInv' /\ TargetInv'
  <1> SUFFICES ASSUME IInv, UnitInv, TargetInv, [Next]_vars
               PROVE  UnitInv' /\ TargetInv'
    OBVIOUS
  <1>1. TypeOK /\ fs \in Filesystem
    BY DEF IInv, TypeOK
  <1>2. CASE \E available \in Available : Prepare(available)
    <2>1. UnitInv'
      BY <1>2 DEF Prepare, disk, UnitInv
    <2> QED BY <1>2, <2>1, PrepareRoom
  <1>3. ASSUME \/ fs' = fs
               \/ fs' \in {[fs EXCEPT !.checked = TRUE],
                           [fs EXCEPT !.checked = FALSE]},
               request' = request,
               pc' \in BeforeResize => pc \in BeforeResize,
               pc' \in BeforeInstall => pc \in BeforeInstall
        PROVE  UnitInv' /\ TargetInv'
    <2>1. /\ fs'.block = fs.block /\ fs'.bytes = fs.bytes
          /\ fs'.minimum = fs.minimum /\ fs'.service = fs.service
      BY <1>1, <1>3 DEF Filesystem
    <2> QED BY <1>1, <1>3, <2>1, RoomUntouched
  <1> DEFINE Onward == /\ pc' \in BeforeResize => pc \in BeforeResize
                       /\ pc' \in BeforeInstall => pc \in BeforeInstall
  <1> USE DEF BeforeResize, BeforeInstall, Proceed, Abort, StageAfter
  <1>4. CASE BeginMutation
    BY <1>3, <1>4 DEF BeginMutation, disk
  <1>5. CASE Unmount \/ UnmountAfterInstall
    <2>1. Onward /\ fs' = fs /\ request' = request
      BY <1>5 DEF Unmount, UnmountAfterInstall
    <2> QED BY <1>3, <2>1
  <1>6. ASSUME NEW stage \in {"PreflightFsck", "PreResizeFsck",
                              "PostResizeFsck"},
               Fsck(stage)
        PROVE  UnitInv' /\ TargetInv'
    <2>1. Onward /\ request' = request
      BY <1>6 DEF Fsck
    <2>2. fs' = fs \/ fs' = [fs EXCEPT !.checked = TRUE]
      BY <1>6 DEF Fsck
    <2> QED BY <1>3, <2>1, <2>2
  <1>7. CASE ResizePartition \/ RereadPartitionTable \/ Revalidate
    <2>1. fs' = fs
      BY <1>7 DEF ResizePartition, RereadPartitionTable, Revalidate
    <2>2. /\ pc \in {"ResizePartition", "RereadPartitionTable", "Revalidate"}
          /\ Proceed \/ Abort(mounts)
      BY <1>7 DEF ResizePartition, RereadPartitionTable, Revalidate
    <2>3. Onward /\ request' = request
      BY <2>2
    <2> QED BY <1>3, <2>1, <2>3
  <1>8. CASE Environment
    <2>1. Onward /\ request' = request
      BY <1>8 DEF Environment, Automount, OperatorUnmount, ForeignEdit, Killed,
                  PowerLoss
    <2>2. fs' = fs \/ fs' = [fs EXCEPT !.checked = FALSE]
      BY <1>8 DEF Environment, Automount, OperatorUnmount, ForeignEdit, Killed,
                  PowerLoss, disk
    <2> QED BY <1>3, <2>1, <2>2
  <1>9. CASE UNCHANGED vars
    BY <1>3, <1>9 DEF vars, disk
  <1> QED
    BY <1>2, <1>4, <1>5, <1>6, <1>7, <1>8, <1>9, InstallRoom, ResizeRoom
    DEF Next, Program, Perform, Finished

\* The check before the resize passes on an unmounted filesystem only; what
\* it found still holds when resize2fs starts, unless a desktop mounts the
\* partition in between.
LEMMA ReadyKept ==
  ASSUME "ResizeFilesystem" \notin AutomountAt, TypeOK, ReadyInv, [Next]_vars
  PROVE  ReadyInv'
  <1> SUFFICES ASSUME pc' = "ResizeFilesystem" PROVE mounts' = {} /\ fs'.checked
    BY DEF ReadyInv
  <1>1. fs \in Filesystem
    BY DEF TypeOK
  <1>2. CASE Perform
    <2>1. pc \in Stages /\ pc' = StageAfter[pc]
      BY <1>2
      DEF Perform, Unmount, Fsck, InstallFirstBoot, UnmountAfterInstall,
          ResizeFilesystem, ResizePartition, RereadPartitionTable, Revalidate,
          Proceed, Abort, Stages
    <2>2. pc = "PreResizeFsck"
      BY <2>1 DEF StageAfter, Stages
    <2>3. Fsck("PreResizeFsck")
      BY <1>2, <2>2
      DEF Perform, Unmount, Fsck, InstallFirstBoot, UnmountAfterInstall,
          ResizeFilesystem, ResizePartition, RereadPartitionTable, Revalidate
    <2>4. FsckPasses /\ fs' = [fs EXCEPT !.checked = TRUE] /\ mounts' = mounts
      BY <2>3 DEF Fsck, Abort
    <2> QED BY <1>1, <2>4 DEF FsckPasses, Filesystem
  <1>3. CASE BeginMutation \/ (\E available \in Available : Prepare(available))
    BY <1>3 DEF BeginMutation, Prepare
  <1>4. CASE Environment
    <2>1. mounts' = mounts /\ fs' = fs /\ pc' = pc
      BY <1>4 DEF Environment, Automount, OperatorUnmount, ForeignEdit, Killed,
                  PowerLoss
    <2> QED BY <2>1 DEF ReadyInv
  <1>5. CASE UNCHANGED vars
    BY <1>5 DEF vars, disk, ReadyInv
  <1> QED BY <1>2, <1>3, <1>4, <1>5 DEF Next, Program, Finished

\* For every disk of whole blocks: in every run, also one that repeats a
\* failed one, the target still holds the contents after the assets were
\* installed, and resize2fs starts on a checked and unmounted filesystem
\* unless a desktop mounts it at that very stage.
THEOREM ResizeAlwaysPossible ==
  ASSUME "ResizeFilesystem" \notin AutomountAt
  PROVE  Spec => []ResizeIsPossible
  <1>1. Init => RoomInv
    <2> SUFFICES ASSUME Init PROVE RoomInv
      OBVIOUS
    <2>1. UnitInv
      BY UnitAssumption DEF Init, UnitInv
    <2> QED BY <2>1, InitEstablishes
            DEF Init, RoomInv, TargetInv, ReadyInv, BeforeResize, BeforeInstall
  <1>2. RoomInv /\ [Next]_vars => RoomInv'
    BY NextKeeps, RoomKept, ReadyKept DEF RoomInv, IInv
  <1>3. RoomInv => ResizeIsPossible
    <2> SUFFICES ASSUME RoomInv, pc = "ResizeFilesystem"
                 PROVE  mounts = {} /\ fs.checked /\ TargetOnDisk >= fs.minimum
      BY DEF ResizeIsPossible
    <2>1. fs.minimum <= TargetOnDisk
      BY DEF RoomInv, TargetInv, BeforeResize
    <2> QED BY <2>1 DEF RoomInv, ReadyInv
  <1> QED BY <1>1, <1>2, <1>3, PTL DEF Spec
=============================================================================
