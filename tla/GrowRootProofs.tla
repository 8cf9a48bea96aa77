--------------------------- MODULE GrowRootProofs ---------------------------
(***************************************************************************)
(* The first-boot service, for every size of disk and image and however    *)
(* often it is interrupted or the card is imaged again.                    *)
(***************************************************************************)
EXTENDS GrowRoot, TLAPS

Running == {"start", "growPartition", "truncateAfterPartition",
            "writeFilesystem", "reboot", "resizeFilesystem",
            "truncateAfterResize", "writeCleanup", "cleanup"}

\* While the script runs, the kernel's view lies between the filesystem and
\* the partition; at rest only the disk itself matters.
FitInv ==
  /\ TypeOK
  /\ fs <= part
  /\ pc \in Running => fs <= kernel /\ kernel <= part

\* A restored image is consistent.
LEMMA InitFits == Init => FitInv
  BY GrowAssumption DEF Init, FitInv, TypeOK, Running, Resting, Assets

\* Faults are counted up to their bound.
LEMMA FaultCounts ==
  ASSUME FitInv, Fault \/ NoFault
  PROVE  faults' \in 0..MaxFaults
  BY GrowAssumption DEF FitInv, TypeOK, Fault, NoFault

\* No step of the script lets the filesystem out of its partition.
LEMMA ScriptFits == FitInv /\ Script => FitInv'
  <1> SUFFICES ASSUME FitInv, Script PROVE FitInv'
    OBVIOUS
  <1> USE GrowAssumption DEF FitInv, TypeOK, Running, Resting, Exit
  <1>1. CASE Start
    <2>1. /\ UNCHANGED <<part, kernel, fs, state, durable, files, imagings>>
          /\ pc = "start" /\ faults' \in 0..MaxFaults
      BY <1>1, FaultCounts DEF Start
    <2>2. pc' \in {"growPartition", "resizeFilesystem", "cleanup", "exited"}
      <3>1. state \in {"none", "torn", "filesystem", "cleanup"}
        OBVIOUS
      <3> QED BY <1>1, <3>1 DEF Start, PhaseFor
    <2> QED BY <2>1, <2>2
  <1>2. CASE GrowPartition
    BY <1>2, FaultCounts DEF GrowPartition
  <1>3. CASE Truncate
    BY <1>3, FaultCounts DEF Truncate
  <1>4. CASE WriteState
    BY <1>4 DEF WriteState
  <1>5. CASE Reboot
    BY <1>5, FaultCounts DEF Reboot
  <1>6. CASE ResizeFilesystem
    BY <1>6, FaultCounts DEF ResizeFilesystem
  <1>7. CASE Cleanup
    BY <1>7 DEF Cleanup
  <1> QED BY <1>1, <1>2, <1>3, <1>4, <1>5, <1>6, <1>7 DEF Script

\* Nor does booting, stopping or imaging the card.
LEMMA MachineFits == FitInv /\ Machine => FitInv'
  <1> SUFFICES ASSUME FitInv, Machine PROVE FitInv'
    OBVIOUS
  <1> USE GrowAssumption DEF FitInv, TypeOK, Running, Resting
  <1>1. CASE Boot
    BY <1>1 DEF Boot
  <1>2. CASE Restart
    BY <1>2, FaultCounts DEF Restart
  <1>3. CASE PowerLoss
    <2>1. state' \in {"none", "torn", "filesystem", "cleanup"}
      BY <1>3 DEF PowerLoss
    <2> QED BY <1>3, <2>1, FaultCounts DEF PowerLoss
  <1>4. CASE Image
    BY <1>4 DEF Image
  <1> QED BY <1>1, <1>2, <1>3, <1>4 DEF Machine

\* Every step, stuttering included, keeps the filesystem in its partition.
LEMMA NextFits == FitInv /\ [Next]_vars => FitInv'
  <1>1. FitInv /\ UNCHANGED vars => FitInv'
    BY DEF FitInv, TypeOK, vars, Running
  <1> QED BY <1>1, ScriptFits, MachineFits DEF Next, Idle

\* The invariant that keeps filesystem, kernel and partition in order.
THEOREM FitsAlways == Spec => []FitInv
  <1> QED BY InitFits, NextFits, PTL DEF Spec

\* Every variable keeps its type.
THEOREM GrowTypes == Spec => []TypeOK
  <1>1. FitInv => TypeOK
    BY DEF FitInv
  <1> QED BY <1>1, FitsAlways, PTL

\* The filesystem never reaches behind its partition, on the disk or as the
\* running kernel sees it, whatever interrupts the script.
THEOREM NeverOutgrows == Spec => []FilesystemInPartition
  <1>1. FitInv => FilesystemInPartition
    BY DEF FitInv, TypeOK, FilesystemInPartition, Running, Resting
  <1> QED BY <1>1, FitsAlways, PTL
-----------------------------------------------------------------------------
\* What each phase, in the file or in the hands of the script, guarantees of
\* the sizes.  It needs the two copies of the state file to agree whenever
\* the card can be imaged, and the kernel to have read the partition of the
\* boot the script runs in.
GrownInv ==
  /\ FitInv
  /\ pc \in {"off", "idle"} => durable = state
  /\ "filesystem" \in {state, durable} => part = Disk
  /\ "cleanup" \in {state, durable} => fs = Disk
  /\ pc \in {"truncateAfterPartition", "writeFilesystem", "reboot"} => part = Disk
  /\ pc = "start" => kernel = part
  /\ pc = "resizeFilesystem" => kernel = Disk /\ part = Disk
  /\ pc \in {"truncateAfterResize", "writeCleanup", "cleanup"} => fs = Disk
  /\ RemovedOnlyWhenGrown

\* A restored image has not been expanded, and its service is complete.
LEMMA InitGrown == Init => GrownInv
  BY InitFits DEF GrownInv, Init, RemovedOnlyWhenGrown

\* Every step keeps what the phases guarantee, when no card is imaged in
\* the middle of an expansion.
LEMMA NextGrown ==
  ASSUME ImagedAt \subseteq {"none"}
  PROVE  GrownInv /\ [Next]_vars => GrownInv'
  <1> SUFFICES ASSUME GrownInv, [Next]_vars PROVE GrownInv'
    OBVIOUS
  <1>1. FitInv'
    BY NextFits DEF GrownInv
  <1> USE GrowAssumption, <1>1
      DEF GrownInv, FitInv, TypeOK, RemovedOnlyWhenGrown, Running, Resting
  <1>2. CASE Start
    <2>1. UNCHANGED <<part, kernel, fs, state, durable, files>>
      BY <1>2 DEF Start
    <2>2. \/ pc' = "growPartition" \/ pc' = "exited"
          \/ pc' = "resizeFilesystem" /\ state = "filesystem"
          \/ pc' = "cleanup" /\ state = "cleanup"
      <3>1. state \in {"none", "torn", "filesystem", "cleanup"}
        OBVIOUS
      <3> QED BY <1>2, <3>1 DEF Start, Exit, PhaseFor
    <2> QED BY <1>2, <2>1, <2>2 DEF Start
  <1>3. CASE GrowPartition
    BY <1>3 DEF GrowPartition, Exit
  <1>4. CASE Truncate
    BY <1>4 DEF Truncate, Exit
  <1>5. CASE WriteState
    BY <1>5 DEF WriteState
  <1>6. CASE Reboot
    BY <1>6 DEF Reboot, Exit
  <1>7. CASE ResizeFilesystem
    BY <1>7 DEF ResizeFilesystem, Exit
  <1>8. CASE Cleanup
    <2>1. PICK name \in {"wants", "unit", "state", "script"} :
            /\ files' = files \ {name}
            /\ state' = IF name = "state" THEN "none" ELSE state
            /\ pc' = IF Present = {name} THEN "idle" ELSE pc
      BY <1>8 DEF Cleanup, RemovalOrder
    <2>2. /\ pc = "cleanup" /\ fs = Disk
          /\ UNCHANGED <<part, kernel, fs>>
          /\ durable' = IF state' = "none" THEN "none" ELSE durable
      BY <1>8 DEF Cleanup
    <2>3. Present = {name} => state' = "none"
      BY <2>1 DEF Present
    <2> QED BY <2>1, <2>2, <2>3
  <1>9. CASE Boot
    BY <1>9 DEF Boot
  <1>10. CASE Restart
    BY <1>10 DEF Restart
  <1>11. CASE PowerLoss
    BY <1>11 DEF PowerLoss
  <1>12. CASE Image
    BY <1>12 DEF Image
  <1>13. CASE UNCHANGED vars
    BY <1>13 DEF vars
  <1> QED
    BY <1>2, <1>3, <1>4, <1>5, <1>6, <1>7, <1>8, <1>9, <1>10, <1>11, <1>12,
       <1>13
    DEF Next, Script, Machine, Idle

\* When no card is imaged in the middle of an expansion, the service removes
\* itself only from a card whose filesystem fills the disk.
THEOREM RemovesItselfOnlyWhenGrown ==
  ASSUME ImagedAt \subseteq {"none"}
  PROVE  Spec => []RemovedOnlyWhenGrown
  <1>1. GrownInv /\ [Next]_vars => GrownInv'
    BY NextGrown
  <1>2. GrownInv => RemovedOnlyWhenGrown
    BY DEF GrownInv
  <1> QED BY InitGrown, <1>1, <1>2, PTL DEF Spec
=============================================================================
