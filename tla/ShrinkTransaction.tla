------------------------- MODULE ShrinkTransaction -------------------------
(***************************************************************************)
(* The destructive part of an imaging run: LinuxShrinkBackend::perform     *)
(* driven by execute_shrink through its ten stages, on one disk, with the  *)
(* planning that precedes it and with runs that are repeated after a       *)
(* failure.  A stage is one action with its successful and its failed      *)
(* outcomes; a failed command may have had its effect or not.              *)
(*                                                                         *)
(* Around the program act: a desktop that mounts the root partition, an    *)
(* operator who unmounts it, another tool that edits the partition table,  *)
(* a SIGKILL (nothing is cleaned up) and a power loss.                     *)
(*                                                                         *)
(* The whole disk under the program is the state: the primary table, what  *)
(* the kernel knows of it, the ext4 filesystem and where it is mounted.    *)
(***************************************************************************)
EXTENDS StorageGeometry

CONSTANTS
  Disks,          \* the disks a run may start from (see DiskAssumption)
  SectorSize,     \* logical sector size of the disk
  Alignment,      \* alignment of the image end
  Available,      \* what df may report of the output filesystem, in bytes
  InstallGrowth,  \* bytes the first-boot assets add to the minimum ext4 size
  FaultyStages,   \* stages whose commands may fail without a reason
  MaxFaults,      \* bound on such failures, kills and power losses
  LeavesMounted,  \* of "mount" and "umount" of the root, those that may fail
                  \* and yet leave it mounted where the run mounts it
  MaxAttempts,    \* bound on the number of runs that get past their plan
  MaxEdits,       \* bound on table edits by another tool
  AutomountAt,    \* program counters at which the desktop may mount the root
  Crashes         \* subset of {"kill", "power"}: the crashes considered

\* STAGES, in the order execute_shrink performs them.
Stages ==
  {"Unmount", "PreflightFsck", "InstallFirstBoot", "UnmountAfterInstall",
   "PreResizeFsck", "ResizeFilesystem", "PostResizeFsck", "ResizePartition",
   "RereadPartitionTable", "Revalidate"}

\* Mutant: the partition is cut before the filesystem.
PartitionFirst ==
  [Unmount              |-> "PreflightFsck",
   PreflightFsck        |-> "InstallFirstBoot",
   InstallFirstBoot     |-> "UnmountAfterInstall",
   UnmountAfterInstall  |-> "PreResizeFsck",
   PreResizeFsck        |-> "ResizePartition",
   ResizePartition      |-> "ResizeFilesystem",
   ResizeFilesystem     |-> "PostResizeFsck",
   PostResizeFsck       |-> "RereadPartitionTable",
   RereadPartitionTable |-> "Revalidate",
   Revalidate           |-> "succeeded"]

StageAfter ==
  [Unmount              |-> "PreflightFsck",
   PreflightFsck        |-> "InstallFirstBoot",
   InstallFirstBoot     |-> "UnmountAfterInstall",
   UnmountAfterInstall  |-> "PreResizeFsck",
   PreResizeFsck        |-> "ResizeFilesystem",
   ResizeFilesystem     |-> "PostResizeFsck",
   PostResizeFsck       |-> "ResizePartition",
   ResizePartition      |-> "RereadPartitionTable",
   RereadPartitionTable |-> "Revalidate",
   Revalidate           |-> "succeeded"]

Resting == {"idle", "planned", "succeeded", "failed"}

Filesystem ==
  [number  : Slots,    \* entry that holds it
   start   : Nat,      \* its first sector, which never moves
   bytes   : Nat,      \* its size
   minimum : Nat,      \* the size resize2fs -P reports
   block   : Nat \ {0},
   checked : BOOLEAN,  \* e2fsck has passed since it was last written to
   service : {"absent", "partial", "installed"}]  \* first-boot assets

\* A partition entry that can hold a filesystem.
Holds(e, f) == e.start = f.start /\ f.bytes <= e.sectors * SectorSize

ASSUME DiskAssumption ==
  /\ SectorSize \in Nat \ {0}
  /\ Alignment \in Nat \ {0}
  /\ Available \subseteq Nat
  /\ InstallGrowth \in Nat
  /\ MaxFaults \in Nat /\ MaxAttempts \in Nat /\ MaxEdits \in Nat
  /\ FaultyStages \subseteq Stages
  /\ LeavesMounted \subseteq {"mount", "umount"}
  /\ \A d \in Disks :
       /\ d.sectors \in Nat
       /\ d.table \in [Slots -> Entry]
       /\ d.fs \in Filesystem
       /\ Holds(d.table[d.fs.number], d.fs)
       /\ d.fs.minimum <= d.fs.bytes

\* parse_ext4_geometry multiplies both sizes from whole blocks, ext4 blocks
\* are whole KiB, and the margin (256 MiB) is wider than a few small files.
ASSUME UnitAssumption ==
  /\ InstallGrowth <= FixedMargin
  /\ \A d \in Disks :
       /\ d.fs.block % Kib = 0
       /\ d.fs.bytes % d.fs.block = 0
       /\ d.fs.minimum % d.fs.block = 0
       /\ InstallGrowth % d.fs.block = 0

NoRequest == [number |-> 0]

Desktop == 0            \* mount point of the desktop; run a mounts at a
MountPoints == 0..MaxAttempts

VARIABLES
  size,      \* sectors of the disk
  table,     \* primary entries stored in sector zero
  kernel,    \* the entries as the kernel last read them
  fs,        \* the ext4 root filesystem
  mounts,    \* where the root partition is mounted
  files,     \* "intact", or "erased" once the root tree was deleted
  pc,        \* stage about to be performed, or where the program rests
  request,   \* ShrinkRequest of the current run
  attempt,   \* number of the last run that got past its plan
  faults, edits

disk == <<size, table, kernel, fs, mounts, files>>
vars == <<disk, pc, request, attempt, faults, edits>>

Init ==
  /\ \E d \in Disks :
       size = d.sectors /\ table = d.table /\ kernel = d.table /\ fs = d.fs
  /\ mounts \in {{}, {Desktop}}
  /\ files = "intact"
  /\ pc = "idle"
  /\ request = NoRequest
  /\ attempt = 0
  /\ faults = 0
  /\ edits = 0
-----------------------------------------------------------------------------
(* Planning: prepare() up to the ShrinkRequest built by execute().         *)

\* Contents of the partitions as mounting them shows them.
RootEvidence == [filesystem |-> "ext4",
                 names |-> IF files = "intact" THEN {"etc", "usr", "var"}
                                               ELSE {}]
Evidence(parts) ==
  [n \in {p.number : p \in parts} |->
     IF n = fs.number THEN RootEvidence
     ELSE [filesystem |-> "fat", names |-> {"boot.ini"}]]

PlanInput(root, available) ==
  [local |-> TRUE, deviceBytes |-> size * SectorSize,
   sectorSize |-> SectorSize, rootStart |-> root.start,
   minimum |-> fs.minimum, current |-> fs.bytes,
   available |-> available, alignment |-> Alignment]

\* inspect_filesystems mounts each partition read-only, which Linux refuses
\* for one that is mounted read-write elsewhere.
InspectionFails == mounts # {}

\* The run gives up before any mutation when the inspection fails, the layout
\* is refused or the plan is; the device is then as it was, and the operator
\* may try again as often as he likes.
Prepare(available) ==
  LET parts == Partitions(table)
      root == LastPartition(parts)
      in == PlanInput(root, available)
      refused == \/ ~ParseAccepts(TRUE, FALSE, table, size)
                 \/ InspectionFails
                 \/ Classify(parts, Evidence(parts)) = "unsupported"
                 \/ ~PlanAccepted(in)
  IN  /\ pc \in {"idle", "failed"}
      /\ attempt < MaxAttempts
      /\ IF refused
         THEN pc' = "failed" /\ request' = NoRequest /\ UNCHANGED attempt
         ELSE /\ pc' = "planned"
              /\ attempt' = attempt + 1
              /\ request' = [number |-> root.number,
                             rootStart |-> Plan(in).rootStart,
                             rootEnd |-> Plan(in).rootEnd,
                             targetKib |-> TargetKib(Plan(in)),
                             sectorSize |-> SectorSize,
                             original |-> parts]
      /\ UNCHANGED <<disk, faults, edits>>

\* execute() has revalidated the device identity and made the mutation
\* mount directory.
BeginMutation ==
  /\ pc = "planned"
  /\ pc' = "Unmount"
  /\ UNCHANGED <<disk, request, attempt, faults, edits>>
-----------------------------------------------------------------------------
(* How a stage ends.                                                       *)

Proceed ==
  /\ pc' = StageAfter[pc]
  /\ UNCHANGED <<files, request, attempt, edits>>

\* An error return, with the root still mounted at the mount points left.
\* It drops the mutation mount directory, which deletes the tree below it:
\* the root filesystem when that is still mounted there.
Abort(left) ==
  /\ pc' = "failed"
  /\ mounts' = left
  /\ files' = IF attempt \in left THEN "erased" ELSE files
  /\ UNCHANGED <<request, attempt, edits>>

\* A command may fail for no reason the model knows of.
Fault == pc \in FaultyStages /\ faults < MaxFaults /\ faults' = faults + 1
NoFault == UNCHANGED faults
-----------------------------------------------------------------------------
(* External commands, as the stages rely on them.                          *)

\* e2fsck refuses a filesystem larger than its device, and with repairs
\* enabled a mounted one.
FitsDevice == fs.bytes <= kernel[fs.number].sectors * SectorSize

FsckPasses == mounts = {} /\ FitsDevice

RoundDown(value, unit) == (value \div unit) * unit
-----------------------------------------------------------------------------
(* The stages.                                                             *)

\* What the desktop may have mounted again when quiesce_disk looks once more.
Remounts == IF "Unmount" \in AutomountAt THEN {{}, {Desktop}} ELSE {{}}

\* quiesce_disk: lsblk shows one mount point of the partition; that one is
\* unmounted and any mount seen afterwards is an error.
Unmount ==
  /\ pc = "Unmount"
  /\ UNCHANGED <<size, table, kernel, fs>>
  /\ \/ mounts = {} /\ Proceed /\ NoFault /\ UNCHANGED mounts
     \/ \E m \in mounts : mounts = {m} /\ mounts' = {} /\ Proceed /\ NoFault
     \/ \E m \in mounts, again \in Remounts :
          LET left == (mounts \ {m}) \cup again
          IN  left # {} /\ Abort(left) /\ NoFault
     \/ Fault /\ Abort(mounts)

Fsck(stage) ==
  /\ pc = stage
  /\ UNCHANGED <<size, table, kernel>>
  /\ \/ /\ FsckPasses
        /\ fs' = [fs EXCEPT !.checked = TRUE]
        /\ Proceed /\ NoFault /\ UNCHANGED mounts
     \/ ~FsckPasses /\ Abort(mounts) /\ NoFault /\ UNCHANGED fs
     \/ Fault /\ Abort(mounts) /\ UNCHANGED fs

\* The assets fit only in free space of the filesystem.
InstallFits == \/ fs.service = "installed"
               \/ fs.minimum + InstallGrowth <= fs.bytes

\* Mutant: each install adds its files again.
InstalledAgain ==
  [fs EXCEPT !.checked = FALSE, !.service = "installed",
             !.minimum = @ + InstallGrowth]

\* install() writes only what is missing, so a second install adds nothing.
Installed ==
  IF fs.service = "installed" THEN [fs EXCEPT !.checked = FALSE]
  ELSE [fs EXCEPT !.checked = FALSE, !.service = "installed",
                  !.minimum = @ + InstallGrowth]

PartlyInstalled ==
  [fs EXCEPT !.checked = FALSE,
             !.service = IF @ = "installed" THEN @ ELSE "partial"]

\* Mutant: the root stays mounted when install() failed.
KeptAfterFailedInstall == mounts \cup {attempt}

\* Mounts left when install() failed: it is unmounted, then the error returned.
LeftAfterFailedInstall == {}

InstallFirstBoot ==
  /\ pc = "InstallFirstBoot"
  /\ UNCHANGED <<size, table, kernel>>
  /\ \/ \* mounted and installed; the mount is kept for the next stage
        /\ InstallFits
        /\ fs' = Installed
        /\ mounts' = mounts \cup {attempt}
        /\ Proceed /\ NoFault
     \/ \* mounted, install failed part way, unmounted again
        /\ fs' = PartlyInstalled
        /\ Abort(LeftAfterFailedInstall)
        /\ \/ ~InstallFits /\ NoFault
           \/ Fault
     \/ \* the same, but that unmount failed too, which is ignored
        /\ "umount" \in LeavesMounted
        /\ Fault
        /\ fs' = PartlyInstalled
        /\ Abort(mounts \cup {attempt})
     \/ \* mount failed
        /\ Fault
        /\ UNCHANGED fs
        /\ Abort(mounts)
     \/ \* mount failed, or timed out, after it had mounted the root
        /\ "mount" \in LeavesMounted
        /\ Fault
        /\ fs' = [fs EXCEPT !.checked = FALSE]
        /\ Abort(mounts \cup {attempt})

\* findmnt lists every mount of the partition and each is unmounted in turn.
UnmountAfterInstall ==
  /\ pc = "UnmountAfterInstall"
  /\ UNCHANGED <<size, table, kernel, fs>>
  /\ \/ mounts' = {} /\ Proceed /\ NoFault
     \/ /\ Fault
        /\ \E left \in SUBSET mounts :
             /\ attempt \in left => "umount" \in LeavesMounted
             /\ Abort(left)

TargetOnDisk == RoundDown(request.targetKib * Kib, fs.block)

\* resize2fs wants an unmounted, freshly checked filesystem, and a size that
\* holds its contents and fits its device.  One block group too small for
\* its metadata is left out (trimmed), one block in this model.  A resize
\* that failed left the old size or the new one, and must be checked.
ResizeFilesystem ==
  LET possible == /\ FsckPasses
                  /\ fs.checked
                  /\ TargetOnDisk >= fs.minimum
                  /\ TargetOnDisk <= kernel[fs.number].sectors * SectorSize
      trimmed == TargetOnDisk - fs.block
  IN  /\ pc = "ResizeFilesystem"
      /\ UNCHANGED <<size, table, kernel>>
      /\ \/ /\ possible
            /\ fs' = [fs EXCEPT !.bytes = TargetOnDisk]
            /\ Proceed /\ NoFault /\ UNCHANGED mounts
         \/ /\ possible /\ trimmed >= fs.minimum /\ Fault
            /\ fs' = [fs EXCEPT !.bytes = trimmed]
            /\ Proceed /\ UNCHANGED mounts
         \/ ~possible /\ Abort(mounts) /\ NoFault /\ UNCHANGED fs
         \/ /\ possible /\ Fault /\ Abort(mounts)
            /\ \E bytes \in {fs.bytes, TargetOnDisk} :
                 fs' = [fs EXCEPT !.bytes = bytes, !.checked = FALSE]

\* resize_primary refuses an end before the start; sfdisk rewrites the one
\* entry and keeps its type and boot flag.
ResizePartition ==
  LET rewritten == [table EXCEPT ![request.number].start = request.rootStart,
                                 ![request.number].sectors =
                                    request.rootEnd - request.rootStart + 1]
      valid == request.rootEnd >= request.rootStart
  IN  /\ pc = "ResizePartition"
      /\ UNCHANGED <<size, kernel, fs>>
      /\ \/ /\ valid /\ table' = rewritten
            /\ Proceed /\ NoFault /\ UNCHANGED mounts
         \/ ~valid /\ Abort(mounts) /\ NoFault /\ UNCHANGED table
         \/ valid /\ Fault /\ Abort(mounts) /\ table' \in {table, rewritten}

\* partprobe cannot change the size of a partition that is mounted.
RereadPartitionTable ==
  /\ pc = "RereadPartitionTable"
  /\ UNCHANGED <<size, table, fs>>
  /\ \/ /\ mounts = {} /\ kernel' = table
        /\ Proceed /\ NoFault /\ UNCHANGED mounts
     \/ mounts # {} /\ Abort(mounts) /\ NoFault /\ UNCHANGED kernel
     \/ Fault /\ Abort(mounts) /\ kernel' \in {kernel, table}

\* e2fsck -n also runs on a mounted filesystem, and may then pass or not.
Revalidate ==
  LET valid == /\ ParseAccepts(TRUE, FALSE, table, size)
               /\ PostShrinkAccepted(request, Partitions(table),
                                     [bytes |-> fs.bytes, block |-> fs.block])
               /\ FitsDevice
  IN  /\ pc = "Revalidate"
      /\ UNCHANGED <<size, table, kernel, fs>>
      /\ \/ valid /\ Proceed /\ NoFault /\ UNCHANGED mounts
         \/ (~valid \/ mounts # {}) /\ Abort(mounts) /\ NoFault
         \/ Fault /\ Abort(mounts)
-----------------------------------------------------------------------------
(* The environment.                                                        *)

Automount ==
  /\ pc \in AutomountAt
  /\ Desktop \notin mounts
  /\ mounts' = mounts \cup {Desktop}
  /\ fs' = [fs EXCEPT !.checked = FALSE]
  /\ UNCHANGED <<size, table, kernel, files, pc, request, attempt, faults,
                 edits>>

\* docs/safety.md, Recovery: after a failure the operator unmounts the disk.
OperatorUnmount ==
  /\ pc = "failed"
  /\ mounts # {}
  /\ mounts' = {}
  /\ UNCHANGED <<size, table, kernel, fs, files, pc, request, attempt, faults,
                 edits>>

\* Another tool changes an entry, or adds or deletes one, while this run is
\* between its plan and its end.  It leaves the filesystem where it is and
\* keeps the table one the parser accepts.
ForeignEdit ==
  /\ pc \in Stages \cup {"planned"}
  /\ edits < MaxEdits
  /\ edits' = edits + 1
  /\ \E n \in Slots, d \in Disks :
       /\ table' = [table EXCEPT ![n] = d.table[n]]
       /\ table' # table
       /\ kernel' = table'
  /\ Holds(table'[fs.number], fs)
  /\ table'[fs.number].type = table[fs.number].type
  /\ ParseAccepts(TRUE, FALSE, table', size)
  /\ UNCHANGED <<size, fs, mounts, files, pc, request, attempt, faults>>

\* SIGKILL: the process is gone, its mount stays, nothing is dropped.
Killed ==
  /\ "kill" \in Crashes
  /\ pc \in Stages
  /\ faults < MaxFaults /\ faults' = faults + 1
  /\ pc' = "failed"
  /\ UNCHANGED <<disk, request, attempt, edits>>

\* Power loss: every mount is gone and the kernel reads the table afresh.
PowerLoss ==
  /\ "power" \in Crashes
  /\ pc \in Stages
  /\ faults < MaxFaults /\ faults' = faults + 1
  /\ pc' = "failed"
  /\ mounts' = {}
  /\ kernel' = table
  /\ fs' = [fs EXCEPT !.checked = FALSE]
  /\ UNCHANGED <<size, table, files, request, attempt, edits>>
-----------------------------------------------------------------------------
Perform ==
  \/ Unmount
  \/ Fsck("PreflightFsck")
  \/ InstallFirstBoot
  \/ UnmountAfterInstall
  \/ Fsck("PreResizeFsck")
  \/ ResizeFilesystem
  \/ Fsck("PostResizeFsck")
  \/ ResizePartition
  \/ RereadPartitionTable
  \/ Revalidate

Program == (\E available \in Available : Prepare(available))
           \/ BeginMutation \/ Perform

Environment == Automount \/ OperatorUnmount \/ ForeignEdit \/ Killed \/ PowerLoss

\* The runs are over: succeeded, or failed with no attempt left.
Finished ==
  /\ pc = "succeeded" \/ (pc = "failed" /\ attempt = MaxAttempts)
  /\ UNCHANGED vars

Next == Program \/ Environment \/ Finished

Spec == Init /\ [][Next]_vars

\* Every command ends: it is run under timeout(1).  A run that ended in
\* failure is repeated by the operator, who first unmounts the disk.
FairSpec == Spec /\ WF_vars(Program) /\ WF_vars(OperatorUnmount)
-----------------------------------------------------------------------------
(* Properties.                                                             *)

Request ==
  [number : Slots, rootStart : Nat, rootEnd : Int, targetKib : Nat,
   sectorSize : {SectorSize}, original : SUBSET Partition]

\* Every variable of the transaction has its type.
TypeOK ==
  /\ size \in Nat
  /\ table \in [Slots -> Entry]
  /\ kernel \in [Slots -> Entry]
  /\ fs \in Filesystem
  /\ mounts \subseteq MountPoints
  /\ files \in {"intact", "erased"}
  /\ pc \in Stages \cup Resting
  /\ request \in Request \cup {NoRequest}
  /\ attempt \in 0..MaxAttempts
  /\ faults \in 0..MaxFaults
  /\ edits \in 0..MaxEdits

\* At every moment, so at whatever moment a command fails, the process is
\* killed or the power goes, the partition entry on the disk starts at the
\* filesystem and is large enough for it (the order ResizeFilesystem before
\* ResizePartition, and the planned end against the planned target).
RootHoldsFilesystem == Holds(table[fs.number], fs)

BeforeResize ==
  {"planned", "Unmount", "PreflightFsck", "InstallFirstBoot",
   "UnmountAfterInstall", "PreResizeFsck", "ResizeFilesystem"}

\* From the plan to the end of the run the request stays one that can be
\* carried out on the disk, whatever the other tools do: it names the entry
\* of the filesystem and its start, the planned entry holds the target as
\* rounded to KiB, and the filesystem is no smaller than that target until
\* it is resized and no larger from then on.
RequestFitsDisk ==
  pc \in Stages \cup {"planned"} =>
    /\ request \in Request
    /\ request.number = fs.number
    /\ request.rootStart = fs.start
    /\ request.targetKib * Kib
         <= (request.rootEnd - request.rootStart + 1) * SectorSize
    /\ pc \in BeforeResize => request.targetKib * Kib <= fs.bytes
    /\ pc \notin BeforeResize => fs.bytes <= request.targetKib * Kib

\* No step of any run makes the ext4 filesystem larger (the plan caps its
\* target at the current size), so resize2fs never needs more device than
\* there is.
FilesystemNeverGrows == [][fs'.bytes <= fs.bytes]_vars

\* When resize2fs is started, nothing is mounted, the filesystem was checked
\* after the first-boot assets were written to it, and the target, planned
\* before those assets took their room, still holds its contents.
ResizeIsPossible ==
  pc = "ResizeFilesystem" =>
    /\ mounts = {}
    /\ fs.checked
    /\ TargetOnDisk >= fs.minimum

\* A run that reports success has left the table it planned: each other
\* entry as it was analysed, the root entry changed in its end alone; the
\* kernel knows it, the filesystem is inside its target and can expand
\* itself on the next boot.  The image, the disk up to the planned end, then
\* holds a table which the inspection before flashing accepts, although
\* another tool may have edited the table meanwhile.
SuccessIsAsPlanned ==
  pc = "succeeded" =>
    LET root == PartitionOf(table, request.number)
    IN  /\ {p \in Partitions(table) : p # root}
             = {p \in request.original : p.number # request.number}
        /\ \E was \in request.original :
             root = [was EXCEPT !.end = request.rootEnd,
                       !.sectors = request.rootEnd - was.start + 1]
        /\ kernel = table
        /\ fs.number = request.number
        /\ fs.bytes <= request.targetKib * Kib
        /\ fs.service = "installed"
        /\ ParseAccepts(TRUE, FALSE, table, request.rootEnd + 1)

\* The root tree is only lost with a mutation mount that is still there when
\* its directory is dropped, after a mount or an unmount of the root that
\* failed and left it mounted (LeavesMounted): no crash, no retry and no
\* other failure, also of the install itself, erases it.
FilesSurvive == files = "intact"

\* The run is repeated after each failure, and after as many faults as the
\* bound allows one of the repetitions succeeds: no failure leaves the disk
\* in a state the program cannot take up again, once the operator has
\* unmounted what it left mounted; until then every run is refused.
RetriesConverge == <>(pc = "succeeded")
=============================================================================
