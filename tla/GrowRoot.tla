------------------------------ MODULE GrowRoot ------------------------------
(***************************************************************************)
(* The first-boot service that expands a restored image: the shell script  *)
(* rust-imager-grow-root.sh on a card that is booted, rebooted, loses      *)
(* power and is imaged again.  The script keeps its phase in a file that   *)
(* its shell truncates and then writes, and that reaches the disk at the   *)
(* next clean restart at the latest.                                       *)
(*                                                                         *)
(* Sizes are measured from the start of the root partition, which none of  *)
(* the steps moves.                                                        *)
(***************************************************************************)
EXTENDS Integers

CONSTANTS
  Disk,          \* size up to the end of the disk
  ImageSize,     \* size of the root in a restored image
  TornWrites,    \* whether an interruption may leave the state file empty
  ImagedAt,      \* contents of the state file a card may be imaged with
  MaxImagings,   \* bound on how often the card is imaged
  MaxFaults      \* bound on failing commands, restarts and power losses

ASSUME GrowAssumption ==
  /\ Disk \in Nat \ {0} /\ ImageSize \in 1..Disk
  /\ TornWrites \in BOOLEAN
  /\ ImagedAt \subseteq {"none", "torn", "filesystem", "cleanup"}
  /\ MaxImagings \in Nat /\ MaxFaults \in Nat

VARIABLES
  part,      \* size of the root partition in the table on the disk
  kernel,    \* the size the running kernel knows
  fs,        \* size of the filesystem
  state,     \* STATE_FILE: "none", "torn" (empty), "filesystem", "cleanup"
  durable,   \* what STATE_FILE holds after a power loss at the latest
  files,     \* which of WANTS, UNIT and SCRIPT exist
  pc,        \* what the script does next
  imagings, faults

vars == <<part, kernel, fs, state, durable, files, pc, imagings, faults>>

Assets == {"wants", "unit", "script"}

\* The card has just been restored from an image with install()'s assets.
Init ==
  /\ part = ImageSize /\ kernel = ImageSize /\ fs = ImageSize
  /\ state = "none" /\ durable = "none"
  /\ files = Assets
  /\ pc = "off"
  /\ imagings = 0 /\ faults = 0

Fault == faults < MaxFaults /\ faults' = faults + 1
NoFault == UNCHANGED faults

\* set -e: the script ends at the first command that fails.
Exit == pc' = "exited" /\ Fault

Resting == {"off", "exited", "idle"}
-----------------------------------------------------------------------------
(* The machine *)

\* systemd starts the unit when it is wanted, there, and its script exists.
Boot ==
  /\ pc \in {"off", "exited"}
  /\ kernel' = part
  /\ durable' = state
  /\ pc' = IF files = Assets THEN "start" ELSE "idle"
  /\ UNCHANGED <<part, fs, state, files, imagings, faults>>

\* A clean restart, which ends the script wherever it is.
Restart ==
  /\ pc \notin {"off", "idle"}
  /\ pc \in {"writeFilesystem", "writeCleanup"} => TornWrites
  /\ Fault
  /\ pc' = "off"
  /\ durable' = state
  /\ UNCHANGED <<part, kernel, fs, state, files, imagings>>

\* What was written to the state file may be on the disk, or not, or the
\* file has been truncated but not written.
PowerLoss ==
  /\ pc # "off"
  /\ Fault
  /\ pc' = "off"
  /\ state' \in {state, durable} \cup
       (IF TornWrites /\ state # durable THEN {"torn"} ELSE {})
  /\ state' = "torn" => TornWrites
  /\ durable' = state'
  /\ UNCHANGED <<part, kernel, fs, files, imagings>>

\* The card is imaged, as ShrinkTransaction and ExtractPipeline do it, and
\* the image restored to a disk: install() writes the assets and leaves the
\* state file, then filesystem and partition are shrunk.
Image ==
  /\ pc \in {"off", "idle"} /\ pc' = "off"
  /\ imagings < MaxImagings /\ imagings' = imagings + 1
  /\ state \in ImagedAt
  /\ files' = Assets
  /\ part' = ImageSize /\ fs' = ImageSize
  /\ UNCHANGED <<kernel, state, durable, faults>>
-----------------------------------------------------------------------------
(* The script *)

PhaseFor(phase) ==
  CASE phase = "none"       -> "growPartition"
    [] phase = "filesystem" -> "resizeFilesystem"
    [] phase = "cleanup"    -> "cleanup"
    [] phase = "torn"       -> "exited"

\* The phase, and the checks that the root is the last partition.
Start ==
  /\ pc = "start"
  /\ \/ pc' = PhaseFor(state) /\ NoFault
     \/ Exit
  /\ UNCHANGED <<part, kernel, fs, state, durable, files, imagings>>

\* Mutant: the end is taken for the last sector plus one.
GrowPartitionPast ==
  /\ pc = "growPartition"
  /\ \/ part' = Disk + 1 /\ pc' = "truncateAfterPartition" /\ NoFault
     \/ part' \in {part, Disk + 1} /\ Exit
  /\ UNCHANGED <<kernel, fs, state, durable, files, imagings>>

\* sfdisk -N extends the entry to the end of the disk; sync.
GrowPartition ==
  /\ pc = "growPartition"
  /\ \/ part' = Disk /\ pc' = "truncateAfterPartition" /\ NoFault
     \/ part' \in {part, Disk} /\ Exit
  /\ UNCHANGED <<kernel, fs, state, durable, files, imagings>>

\* printf phase > STATE_FILE
Truncate ==
  /\ pc \in {"truncateAfterPartition", "truncateAfterResize"}
  /\ \/ /\ state' = "torn"
        /\ pc' = IF pc = "truncateAfterPartition" THEN "writeFilesystem"
                                                  ELSE "writeCleanup"
        /\ NoFault
     \/ Exit /\ UNCHANGED state
  /\ UNCHANGED <<part, kernel, fs, durable, files, imagings>>

\* Mutant: the filesystem is resized without a reboot.
WriteStateNoReboot ==
  /\ \/ pc = "writeFilesystem" /\ state' = "filesystem" /\ pc' = "start"
     \/ pc = "writeCleanup" /\ state' = "cleanup" /\ pc' = "start"
  /\ UNCHANGED <<part, kernel, fs, durable, files, imagings, faults>>

WriteState ==
  /\ \/ pc = "writeFilesystem" /\ state' = "filesystem" /\ pc' = "reboot"
     \/ pc = "writeCleanup" /\ state' = "cleanup" /\ pc' = "start"
  /\ UNCHANGED <<part, kernel, fs, durable, files, imagings, faults>>

\* partprobe may fail to tell the kernel, and the reboot may not be started.
Reboot ==
  /\ pc = "reboot"
  /\ kernel' \in {kernel, part}
  /\ \/ /\ pc' = "off" /\ NoFault
        /\ durable' = state
     \/ Exit /\ UNCHANGED durable
  /\ UNCHANGED <<part, fs, state, files, imagings>>

\* resize2fs grows the mounted root to what the kernel knows of its device,
\* or part of the way when it is interrupted.
ResizeFilesystem ==
  /\ pc = "resizeFilesystem"
  /\ \/ fs' = kernel /\ pc' = "truncateAfterResize" /\ NoFault
     \/ fs' \in fs..kernel /\ Exit
  /\ UNCHANGED <<part, kernel, state, durable, files, imagings>>

\* Mutant: the unit is removed before the link that wants it.
UnitFirst == <<"unit", "wants", "state", "script">>

RemovalOrder == <<"wants", "unit", "state", "script">>

Present == files \cup (IF state = "none" THEN {} ELSE {"state"})

\* rm -f WANTS UNIT STATE_FILE SCRIPT, one unlink after the other.
Cleanup ==
  /\ pc = "cleanup"
  /\ \E i \in DOMAIN RemovalOrder :
       /\ RemovalOrder[i] \in Present
       /\ \A j \in 1..(i - 1) : RemovalOrder[j] \notin Present
       /\ files' = files \ {RemovalOrder[i]}
       /\ state' = IF RemovalOrder[i] = "state" THEN "none" ELSE state
       /\ pc' = IF Present = {RemovalOrder[i]} THEN "idle" ELSE pc
  /\ durable' = IF state' = "none" THEN "none" ELSE durable
  /\ UNCHANGED <<part, kernel, fs, imagings, faults>>
-----------------------------------------------------------------------------
Script ==
  \/ Start \/ GrowPartition \/ Truncate \/ WriteState \/ Reboot
  \/ ResizeFilesystem \/ Cleanup

Machine == Boot \/ Restart \/ PowerLoss \/ Image

\* Nothing is left to do on a card without the service.
Idle == pc = "idle" /\ UNCHANGED vars

Next == Script \/ Machine \/ Idle

Spec == Init /\ [][Next]_vars

\* A started script goes on, and a card that is off, or whose service failed,
\* is started again some day.
FairSpec == Spec /\ WF_vars(Script) /\ WF_vars(Boot)
-----------------------------------------------------------------------------
(* Properties. *)

\* Every variable of the service has its type.
TypeOK ==
  /\ part \in 1..Disk /\ kernel \in 1..Disk /\ fs \in 1..Disk
  /\ state \in {"none", "torn", "filesystem", "cleanup"}
  /\ durable \in {"none", "torn", "filesystem", "cleanup"}
  /\ files \subseteq Assets
  /\ pc \in Resting \cup {"start", "growPartition", "truncateAfterPartition",
                          "writeFilesystem", "reboot", "resizeFilesystem",
                          "truncateAfterResize", "writeCleanup", "cleanup"}
  /\ imagings \in 0..MaxImagings /\ faults \in 0..MaxFaults

\* Whatever interrupts it, however often the card is imaged: the filesystem
\* never reaches behind its partition, on the disk or as the kernel sees it.
FilesystemInPartition ==
  fs <= part /\ (pc \notin {"off", "exited", "idle"} => fs <= kernel)

\* The service removes itself only from a card whose filesystem fills the
\* disk (when it was not imaged in the middle of an earlier expansion).
RemovedOnlyWhenGrown == files # Assets => fs = Disk

\* However the script is interrupted, in the end the filesystem fills the
\* disk and the service runs no more.
ExpandsAtLast == <>[](fs = Disk /\ "wants" \notin files /\ pc = "idle")

\* docs/safety.md: a restored image expands on first boot through the
\* service, whatever the imaged card had been doing.
RestoredImageExpands == <>[](fs = Disk)
=============================================================================
