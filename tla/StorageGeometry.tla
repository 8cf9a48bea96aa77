-------------------------- MODULE StorageGeometry --------------------------
(***************************************************************************)
(* The pure decisions of rust-imager-core and of the shrink validator:     *)
(* which MBR tables are accepted, which partition is taken for the root,   *)
(* how large the shrunken filesystem, partition and image are planned, and *)
(* which geometry is accepted after the shrink.                            *)
(*                                                                         *)
(* A raw table is a function from entry number to                          *)
(*   [type, start, sectors, boot]                                          *)
(* and a parsed layout is a set of partitions, each an entry with its      *)
(* number and its inclusive last sector added.  Type codes are abstracted  *)
(* to the classes the code tells apart.  Arithmetic is that of u64: a sum  *)
(* or product above MaxU64 is what checked_add and checked_mul refuse.     *)
(***************************************************************************)
EXTENDS Integers, FiniteSets

CONSTANTS
  Slots,        \* numbers of the primary table entries (1..4 on a real disk)
  FixedMargin,  \* bytes always added to the minimum ext4 size
  Kib,          \* bytes of the unit in which resize2fs is given its target
  MaxU64        \* largest value of the unsigned integers the code computes in

ASSUME GeometryAssumption ==
  /\ Slots \subseteq Nat /\ IsFiniteSet(Slots)
  /\ FixedMargin \in Nat
  /\ Kib \in Nat \ {0}
  /\ MaxU64 \in Nat

Types == {"empty", "fat", "linux", "other", "extended", "gpt"}

Entry == [type : Types, start : Nat, sectors : Nat, boot : BOOLEAN]

Partition == [number : Slots, type : Types, start : Nat, sectors : Nat,
              end : Int, boot : BOOLEAN]
-----------------------------------------------------------------------------
(* MBR parsing *)

UnusedEntry(e) == e.type = "empty" /\ e.sectors = 0

EndOf(e) == e.start + e.sectors - 1

EntryAccepted(e, totalSectors) ==
  /\ e.type \notin {"gpt", "extended"}
  /\ e.start # 0
  /\ e.start + e.sectors <= MaxU64
  /\ e.sectors # 0
  /\ EndOf(e) < totalSectors

PartitionOf(table, n) ==
  [number |-> n, type |-> table[n].type, start |-> table[n].start,
   sectors |-> table[n].sectors, end |-> EndOf(table[n]),
   boot |-> table[n].boot]

Partitions(table) ==
  {PartitionOf(table, n) : n \in {m \in Slots : ~UnusedEntry(table[m])}}

\* The order sort_unstable_by_key leaves the partitions in.
ByStart(parts) ==
  CHOOSE order \in [1..Cardinality(parts) -> parts] :
    \A i, j \in DOMAIN order :
      i < j => order[i] # order[j] /\ order[i].start <= order[j].start

\* Mutant: neighbours may share a sector.
NeighboursOverlapMore(parts) ==
  LET order == ByStart(parts)
  IN  \E i \in 1..(Cardinality(parts) - 1) :
        order[i].end > order[i + 1].start

\* Only neighbours of that order are compared.
NeighboursOverlap(parts) ==
  LET order == ByStart(parts)
  IN  \E i \in 1..(Cardinality(parts) - 1) :
        order[i].end >= order[i + 1].start

ParseAccepts(signature, gptHeader, table, totalSectors) ==
  /\ signature
  /\ ~gptHeader
  /\ \A n \in Slots : \/ UnusedEntry(table[n])
                      \/ EntryAccepted(table[n], totalSectors)
  /\ ~NeighboursOverlap(Partitions(table))
-----------------------------------------------------------------------------
(* Layout classification *)

\* Mutant: the largest partition.
LargestOf(p, parts) == \A q \in parts : q.sectors <= p.sectors

\* max_by_key on the last sector: None without partitions.  The partitions
\* of an accepted table end on different sectors.
EndsLast(p, parts) == \A q \in parts : q.end <= p.end

HasLast(parts) == \E p \in parts : EndsLast(p, parts)

LastPartition(parts) == CHOOSE p \in parts : EndsLast(p, parts)

\* evidence[n] is what mounting partition n showed: its filesystem and the
\* directories or boot files found in its root.
LooksLikeLinuxRoot(found) == {"etc", "usr", "var"} \subseteq found.names

\* find() takes the first FAT partition in table order.
FirstOf(slots) == CHOOSE n \in slots : \A m \in slots : n <= m

Classify(parts, evidence) ==
  LET root == LastPartition(parts)
      FatSlots == {n \in DOMAIN evidence : evidence[n].filesystem = "fat"}
      boot == evidence[FirstOf(FatSlots)].names
  IN  IF \/ ~HasLast(parts)
         \/ root.number \notin DOMAIN evidence
         \/ root.type # "linux"
         \/ evidence[root.number].filesystem # "ext4"
         \/ ~LooksLikeLinuxRoot(evidence[root.number])
      THEN "unsupported"
      ELSE IF FatSlots = {}
      THEN "unknown"
      ELSE IF {"config.txt", "start*"} \subseteq boot
      THEN "raspberry_pi"
      ELSE IF "boot.ini" \in boot THEN "odroid" ELSE "unknown"
-----------------------------------------------------------------------------
(* Planning *)

Larger(a, b)  == IF a >= b THEN a ELSE b
Smaller(a, b) == IF a <= b THEN a ELSE b

\* Mutant: an aligned value is moved up as well.
AlignPast(value, alignment) == value + (alignment - (value % alignment))

AlignUp(value, alignment) ==
  IF value % alignment = 0 THEN value
  ELSE value + (alignment - (value % alignment))

\* Mutant: no margin for small filesystems.
ProportionalMargin(in) == (in.minimum * 5) \div 100

SafetyMargin(in) == Larger(FixedMargin, (in.minimum * 5) \div 100)

\* Mutant: not capped by the current size.
UncappedTarget(in) == in.minimum + SafetyMargin(in)

TargetBytes(in) == Smaller(in.minimum + SafetyMargin(in), in.current)

\* Mutant: the sectors before the root are forgotten.
BytesOfRoot(in) == TargetBytes(in)

UnalignedBytes(in) == in.rootStart * in.sectorSize + TargetBytes(in)

ImageBytes(in) == AlignUp(UnalignedBytes(in), in.alignment)

ImageSectors(in) == (ImageBytes(in) + (in.sectorSize - 1)) \div in.sectorSize

PlanAccepted(in) ==
  /\ in.local
  /\ in.minimum <= in.current
  /\ in.sectorSize # 0
  /\ in.alignment # 0
  /\ in.minimum * 5 <= MaxU64
  /\ in.minimum + SafetyMargin(in) <= MaxU64
  /\ in.rootStart * in.sectorSize <= MaxU64
  /\ UnalignedBytes(in) <= MaxU64
  /\ ImageBytes(in) <= MaxU64
  /\ ImageBytes(in) <= in.deviceBytes
  /\ in.available >= ImageBytes(in)
  /\ ImageBytes(in) + (in.sectorSize - 1) <= MaxU64
  /\ ImageSectors(in) >= 1

\* The plan of an accepted input.
Plan(in) ==
  [rootStart |-> in.rootStart,
   target    |-> TargetBytes(in),
   rootEnd   |-> ImageSectors(in) - 1,
   image     |-> ImageBytes(in)]
-----------------------------------------------------------------------------
(* Validation after the shrink *)

\* Mutant: a margin is taken off the target, in bytes.
ReducedKib(plan) == plan.target \div Kib - FixedMargin

\* What resize2fs is asked for: the target in whole KiB.
TargetKib(plan) == plan.target \div Kib

Named(request, parts) == {p \in parts : p.number = request.number}

\* Mutant: the other partitions are only counted.
OthersCounted(request, changed) ==
  Cardinality(changed) = Cardinality(request.original)

\* Every other partition is as it was, and there are no new ones.
OthersUnchanged(request, changed) ==
  /\ request.original \ Named(request, request.original) \subseteq changed
  /\ Cardinality(changed) = Cardinality(request.original)

\* request is a shrink request (ShrinkRequest), changed the partitions read
\* back from the disk and geometry the ext4 size and block size read back.
PostShrinkAccepted(request, changed, geometry) ==
  LET targetBytes == request.targetKib * Kib
  IN  /\ request.sectorSize # 0
      /\ Named(request, request.original) # {}
      /\ Named(request, changed) # {}
      /\ OthersUnchanged(request, changed)
      /\ \A was \in Named(request, request.original),
            is \in Named(request, changed) :
           /\ is.start = was.start
           /\ is.start = request.rootStart
           /\ is.type = was.type
           /\ is.boot = was.boot
           /\ is.end = request.rootEnd
           /\ is.sectors * request.sectorSize <= MaxU64
           /\ geometry.bytes <= is.sectors * request.sectorSize
      /\ targetBytes <= MaxU64
      /\ geometry.bytes <= targetBytes
      /\ targetBytes - geometry.bytes < geometry.block
=============================================================================
