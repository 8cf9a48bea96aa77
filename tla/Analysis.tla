------------------------------ MODULE Analysis ------------------------------
(***************************************************************************)
(* The analysis that precedes every mutation, on every input of a small    *)
(* range.  A table is parsed, its partitions are mounted and classified;   *)
(* a plan is built from what was measured on the root that was found.  The *)
(* decisions of StorageGeometry are compared with what a layout and a plan *)
(* are meant to be, and a plan with what the shrink will make of it.       *)
(*                                                                         *)
(* The two halves meet in the root start alone, so each is given inputs of *)
(* its own: a behaviour begins with a table or with a plan input.          *)
(***************************************************************************)
EXTENDS StorageGeometry

CONSTANTS
  TotalSectors, MaxStart, MaxSectors,  \* of the disk and of its entries
  SectorSizes, Alignments, Starts, Minimums, Currents, Devices, Availables,
  Blocks  \* ext4 block sizes, of which current and minimum size are multiples

ASSUME AnalysisAssumption ==
  /\ UNION {SectorSizes, Alignments, Starts, Minimums, Currents, Devices,
            Availables} \subseteq Nat
  /\ Blocks \subseteq Nat \ {0}
  /\ MaxStart \in Nat /\ MaxSectors \in Nat
  /\ TotalSectors \in 0..MaxU64

VARIABLES
  mbr,       \* the table read, none when a plan is built
  evidence,  \* what its partitions showed when they were mounted
  input,     \* PlanInput, none when a table is read
  verdict    \* what the analysis has come to

analysisVars == <<mbr, evidence, input, verdict>>

None == << >>

SmallTypes == {"empty", "linux", "gpt"}

Tables ==
  [Slots -> [type : SmallTypes, start : 0..MaxStart, sectors : 0..MaxSectors,
             boot : {FALSE}]]

LinuxRoot == [filesystem |-> "ext4", names |-> {"etc", "usr", "var"}]
DataDisk  == [filesystem |-> "ext4", names |-> {"etc", "usr"}]
FatBoot   == [filesystem |-> "fat", names |-> {"config.txt", "start*"}]
OtherBoot == [filesystem |-> "fat", names |-> {"boot.ini"}]
Found == {LinuxRoot, DataDisk, FatBoot, OtherBoot}

Inputs ==
  [local : BOOLEAN, sectorSize : SectorSizes, alignment : Alignments,
   rootStart : Starts, minimum : Minimums, current : Currents,
   deviceBytes : Devices, available : Availables]

AnalysisInit ==
  /\ \/ mbr \in Tables /\ input = None /\ verdict = "unread"
     \/ mbr = None /\ input \in Inputs /\ verdict = "unplanned"
  /\ evidence = None

\* read_mbr_from_disk
Parse ==
  /\ verdict = "unread"
  /\ verdict' = IF ParseAccepts(TRUE, FALSE, mbr, TotalSectors)
                THEN "accepted" ELSE "rejected"
  /\ UNCHANGED <<mbr, evidence, input>>

\* inspect_filesystems and classify_layout
Inspect ==
  /\ verdict = "accepted"
  /\ \E found \in [{p.number : p \in Partitions(mbr)} -> Found] :
       /\ evidence' = found
       /\ verdict' = Classify(Partitions(mbr), found)
  /\ UNCHANGED <<mbr, input>>

\* build_plan
Decide ==
  /\ verdict = "unplanned"
  /\ verdict' = IF PlanAccepted(input) THEN "planned" ELSE "refused"
  /\ UNCHANGED <<mbr, evidence, input>>

AnalysisNext == Parse \/ Inspect \/ Decide

AnalysisSpec == AnalysisInit /\ [][AnalysisNext]_analysisVars
-----------------------------------------------------------------------------
(* Properties of layouts *)

Sectors(p) == p.start..p.end

\* What the parser is meant to accept: every entry in use lies on the disk,
\* behind sector zero, and no two share a sector.
WellFormed(t) ==
  /\ \A n \in Slots :
       UnusedEntry(t[n]) \/
         /\ t[n].type # "gpt"
         /\ t[n].sectors > 0
         /\ t[n].start..EndOf(t[n]) \subseteq 1..(TotalSectors - 1)
  /\ \A p, q \in Partitions(t) : p # q => Sectors(p) \cap Sectors(q) = {}

\* parse_mbr refuses exactly the tables with an entry outside the disk, on
\* sector zero or of an unsupported scheme, and those with two partitions
\* that share a sector, though it only compares neighbours in start order.
AcceptsWellFormed ==
  mbr # None /\ verdict # "unread" =>
    (verdict # "rejected") = WellFormed(mbr)

\* Whatever mounting showed, a layout that may be shrunk has an ext4 Linux
\* root in a Linux partition and no sector of another partition behind the
\* first of the root: what is cut off belongs to the root alone.
ShrinkableRootIsLast ==
  verdict \in {"raspberry_pi", "odroid", "unknown"} =>
    \E root \in Partitions(mbr) :
      /\ root.type = "linux"
      /\ evidence[root.number] = LinuxRoot
      /\ \A p \in Partitions(mbr) \ {root} : p.end < root.start
-----------------------------------------------------------------------------
(* Properties of plans *)

PartitionBytes == (Plan(input).rootEnd - input.rootStart + 1) * input.sectorSize

\* A plan keeps to the device and to the space of the output, and its image
\* ends less than one alignment behind the filesystem.  The planned partition
\* holds the planned filesystem, and the image ends less than a sector before
\* the end of that partition.
PlanFits ==
  verdict = "planned" =>
    /\ Plan(input).image <= input.deviceBytes
    /\ Plan(input).image <= input.available
    /\ Plan(input).image - input.alignment
         < input.rootStart * input.sectorSize + Plan(input).target
    /\ input.deviceBytes % input.sectorSize = 0 =>
         Plan(input).rootEnd < input.deviceBytes \div input.sectorSize
    /\ PartitionBytes >= Plan(input).target
    /\ (Plan(input).rootEnd + 1) * input.sectorSize - Plan(input).image
         \in 0..(input.sectorSize - 1)

\* Tools that do exactly what the plan says pass the validation after the
\* shrink, and resize2fs is never asked to go below the minimum: rounding
\* the target to KiB and then to blocks loses neither.
PlanIsAchievable ==
  verdict = "planned" =>
    \A block \in {b \in Blocks : /\ b % Kib = 0
                                 /\ input.minimum % b = 0
                                 /\ input.current % b = 0} :
      LET root == [number |-> 1, type |-> "linux", start |-> input.rootStart,
                   sectors |-> input.deviceBytes,
                   end |-> input.rootStart + input.deviceBytes - 1,
                   boot |-> FALSE]
          kib == TargetKib(Plan(input))
          bytes == ((kib * Kib) \div block) * block
          request == [number |-> 1, rootStart |-> input.rootStart,
                      rootEnd |-> Plan(input).rootEnd, targetKib |-> kib,
                      sectorSize |-> input.sectorSize, original |-> {root}]
          after == [root EXCEPT
                      !.end = request.rootEnd,
                      !.sectors = request.rootEnd - input.rootStart + 1]
      IN  /\ bytes >= input.minimum
          /\ PostShrinkAccepted(request, {after},
                                [bytes |-> bytes, block |-> block])
=============================================================================
