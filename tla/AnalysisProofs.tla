--------------------------- MODULE AnalysisProofs ---------------------------
(***************************************************************************)
(* Lemmas about the planner and the layouts of StorageGeometry, which the  *)
(* proofs of the shrink use as well, and proofs about Analysis, for all    *)
(* tables and ranges of inputs: parse_mbr accepts exactly the well-formed  *)
(* tables, a root that may be shrunk is the last partition, and a plan that *)
(* build_plan accepts fits and can be carried out.                         *)
(*                                                                         *)
(* parse_mbr sorts the partitions by their start and compares neighbours.  *)
(* ByStartSorts shows that there is such an order, NeighboursSuffice that  *)
(* no overlap is missed by it.                                             *)
(***************************************************************************)
EXTENDS Analysis, FiniteSetTheorems, TLAPS

\* Division rounds down, by less than the divisor.
LEMMA DivisionBounds ==
  ASSUME NEW v \in Nat, NEW d \in Nat \ {0}
  PROVE  /\ v \div d \in Nat
         /\ (v \div d) * d <= v
         /\ v < (v \div d) * d + d
  OBVIOUS

\* align_up reaches the next multiple and no further.
LEMMA AlignUpBounds ==
  ASSUME NEW value \in Nat, NEW alignment \in Nat \ {0}
  PROVE  /\ AlignUp(value, alignment) \in Nat
         /\ value <= AlignUp(value, alignment)
         /\ AlignUp(value, alignment) < value + alignment
  BY DEF AlignUp

\* Counting sectors rounds up: the counted sectors hold the bytes, and would
\* not with one sector less.
LEMMA SectorsHoldBytes ==
  ASSUME NEW bytes \in Nat, NEW sector \in Nat \ {0}
  PROVE  LET sectors == (bytes + (sector - 1)) \div sector
         IN  /\ sectors \in Nat
             /\ bytes <= sectors * sector
             /\ sectors * sector < bytes + sector
  <1>1. bytes + (sector - 1) \in Nat
    OBVIOUS
  <1> QED BY <1>1, DivisionBounds

\* The input of the planner, typed.
TypedInput(in) ==
  /\ in.rootStart \in Nat
  /\ in.minimum \in Nat
  /\ in.current \in Nat
  /\ in.sectorSize \in Nat
  /\ in.alignment \in Nat

\* What a plan promises of its numbers.
LEMMA PlanBounds ==
  ASSUME NEW in, TypedInput(in), PlanAccepted(in)
  PROVE  /\ Plan(in).rootStart = in.rootStart
         /\ Plan(in).target \in Nat
         /\ in.minimum <= Plan(in).target
         /\ Plan(in).target <= in.current
         /\ Plan(in).rootEnd \in Nat
         /\ Plan(in).image \in Nat
         /\ Plan(in).target
              <= (Plan(in).rootEnd - in.rootStart + 1) * in.sectorSize
         /\ Plan(in).image <= (Plan(in).rootEnd + 1) * in.sectorSize
         /\ (Plan(in).rootEnd + 1) * in.sectorSize
              < Plan(in).image + in.sectorSize
         /\ Plan(in).image < UnalignedBytes(in) + in.alignment
  <1>1. in.sectorSize \in Nat \ {0} /\ in.alignment \in Nat \ {0}
    BY DEF TypedInput, PlanAccepted
  <1>2. SafetyMargin(in) \in Nat
    <2>1. in.minimum * 5 \in Nat
      BY DEF TypedInput
    <2>2. (in.minimum * 5) \div 100 \in Nat
      BY <2>1, DivisionBounds
    <2> QED BY <2>2, GeometryAssumption DEF SafetyMargin, Larger
  <1>3. /\ TargetBytes(in) \in Nat
        /\ in.minimum <= TargetBytes(in)
        /\ TargetBytes(in) <= in.current
    BY <1>2 DEF TargetBytes, Smaller, TypedInput, PlanAccepted
  <1>4. in.rootStart * in.sectorSize \in Nat
    BY DEF TypedInput
  <1>5. UnalignedBytes(in) \in Nat
    BY <1>3, <1>4 DEF UnalignedBytes
  <1>6. /\ ImageBytes(in) \in Nat
        /\ UnalignedBytes(in) <= ImageBytes(in)
        /\ ImageBytes(in) < UnalignedBytes(in) + in.alignment
    BY <1>1, <1>5, AlignUpBounds DEF ImageBytes
  <1>7. /\ ImageSectors(in) \in Nat
        /\ ImageBytes(in) <= ImageSectors(in) * in.sectorSize
        /\ ImageSectors(in) * in.sectorSize < ImageBytes(in) + in.sectorSize
    BY <1>1, <1>6, SectorsHoldBytes DEF ImageSectors
  <1>8. ImageSectors(in) >= 1
    BY DEF PlanAccepted
  <1> DEFINE S == in.sectorSize
             sectors == ImageSectors(in)
             start == in.rootStart
  <1>9. (sectors - start) * S = sectors * S - start * S
    BY <1>1, <1>7 DEF TypedInput
  <1>10. TargetBytes(in) <= (sectors - start) * S
    <2>1. start * S + TargetBytes(in) <= sectors * S
      BY <1>3, <1>4, <1>5, <1>6, <1>7, <1>1 DEF UnalignedBytes
    <2> HIDE DEF sectors, S, start
    <2> QED BY <2>1, <1>9, <1>4, <1>3, <1>7, <1>1
            DEF TypedInput, sectors, S, start
  <1>11. Plan(in).rootEnd + 1 = sectors
    BY <1>7 DEF Plan
  <1>12. Plan(in).rootEnd - start + 1 = sectors - start
    BY <1>7 DEF Plan, TypedInput
  <1> QED
    BY <1>3, <1>6, <1>7, <1>8, <1>10, <1>11, <1>12 DEF Plan

\* The target handed to resize2fs is rounded down to whole KiB.
LEMMA TargetKibBounds ==
  ASSUME NEW plan, plan.target \in Nat
  PROVE  /\ TargetKib(plan) \in Nat
         /\ TargetKib(plan) * Kib <= plan.target
         /\ plan.target < TargetKib(plan) * Kib + Kib
  BY DivisionBounds, GeometryAssumption DEF TargetKib

\* The last partition, when there is one, is one of the partitions.
LEMMA LastPartitionIsLast ==
  ASSUME NEW parts, HasLast(parts)
  PROVE  LastPartition(parts) \in parts /\ EndsLast(LastPartition(parts), parts)
  BY DEF HasLast, LastPartition

\* A typed table yields typed partitions, each with the fields of its entry.
LEMMA PartitionsTyped ==
  ASSUME NEW table \in [Slots -> Entry]
  PROVE  /\ Partitions(table) \subseteq Partition
         /\ \A p \in Partitions(table) :
              p.number \in Slots /\ p = PartitionOf(table, p.number)
  <1>1. ASSUME NEW n \in Slots
        PROVE  PartitionOf(table, n) \in Partition /\ PartitionOf(table, n).number = n
    <2>1. table[n] \in Entry
      OBVIOUS
    <2>2. EndOf(table[n]) \in Int
      BY <2>1 DEF EndOf, Entry
    <2> QED BY <2>1, <2>2 DEF PartitionOf, Partition, Entry
  <1> QED BY <1>1 DEF Partitions

\* A layout that may be shrunk has a last partition with a Linux type and an
\* ext4 filesystem with the directories of a Linux root.
LEMMA SupportedRoot ==
  ASSUME NEW parts, NEW shown, Classify(parts, shown) # "unsupported"
  PROVE  /\ HasLast(parts)
         /\ LastPartition(parts).number \in DOMAIN shown
         /\ LastPartition(parts).type = "linux"
         /\ shown[LastPartition(parts).number].filesystem = "ext4"
         /\ LooksLikeLinuxRoot(shown[LastPartition(parts).number])
  BY DEF Classify
-----------------------------------------------------------------------------
(* Layouts *)

\* Partitions as a table yields them: finitely many, with numbers of their
\* own, none of them empty.
Layout(parts) ==
  /\ IsFiniteSet(parts)
  /\ parts \subseteq Partition
  /\ \A p \in parts : p.start <= p.end
  /\ \A p, q \in parts : p.number = q.number => p = q

\* The order ByStart is after, with the number to tell ties apart.
Before(p, q) ==
  p.start < q.start \/ (p.start = q.start /\ p.number < q.number)

\* Sorting a finite set of partitions is possible: a partition's place is the
\* number of those before it.
LEMMA ByStartSorts ==
  ASSUME NEW parts, Layout(parts)
  PROVE  /\ ByStart(parts) \in [1..Cardinality(parts) -> parts]
         /\ \A i, j \in 1..Cardinality(parts) :
              i < j => /\ ByStart(parts)[i] # ByStart(parts)[j]
                       /\ ByStart(parts)[i].start <= ByStart(parts)[j].start
         /\ \A p \in parts : \E i \in 1..Cardinality(parts) :
              ByStart(parts)[i] = p
  <1> DEFINE N == Cardinality(parts)
             Below(p) == {q \in parts : Before(q, p)}
             rank == [p \in parts |-> Cardinality(Below(p)) + 1]
             Sorted(order) ==
               \A i, j \in DOMAIN order :
                 i < j => /\ order[i] # order[j]
                          /\ order[i].start <= order[j].start
  <1>1. N \in Nat
    BY FS_CardinalityType DEF Layout
  <1>2. \A p \in parts : p.start \in Nat /\ p.number \in Nat
    BY GeometryAssumption DEF Layout, Partition
  <1>3. \A p, q \in parts : p # q => Before(p, q) \/ Before(q, p)
    BY <1>2 DEF Before, Layout
  <1>4. ASSUME NEW p \in parts
        PROVE  /\ IsFiniteSet(Below(p)) /\ Cardinality(Below(p)) \in Nat
               /\ Cardinality(Below(p)) + 1 <= N
    <2>1. Below(p) \in SUBSET (parts \ {p})
      BY <1>2 DEF Before
    <2>2. IsFiniteSet(parts \ {p}) /\ Cardinality(parts \ {p}) = N - 1
      BY FS_RemoveElement DEF Layout
    <2>3. IsFiniteSet(Below(p)) /\ Cardinality(Below(p)) <= N - 1
      BY <2>1, <2>2, FS_Subset
    <2>4. Cardinality(Below(p)) \in Nat
      BY <2>3, FS_CardinalityType
    <2> HIDE DEF Below, N
    <2> QED BY <1>1, <2>3, <2>4
  <1>5. ASSUME NEW p \in parts, NEW q \in parts, Before(p, q)
        PROVE  rank[p] < rank[q]
    <2>1. IsFiniteSet(Below(p)) /\ IsFiniteSet(Below(q))
      BY <1>4
    <2>2. /\ Below(p) \cup {p} \in SUBSET Below(q)
          /\ p \notin Below(p)
      BY <1>2, <1>5 DEF Before
    <2>3. Cardinality(Below(p) \cup {p}) = Cardinality(Below(p)) + 1
      BY <2>1, <2>2, FS_AddElement
    <2>4. Cardinality(Below(p) \cup {p}) <= Cardinality(Below(q))
      BY <2>1, <2>2, FS_Subset
    <2>5. Cardinality(Below(p)) \in Nat /\ Cardinality(Below(q)) \in Nat
      BY <1>4
    <2> HIDE DEF Below
    <2> QED BY <2>3, <2>4, <2>5
  <1>6. \A p \in parts : rank[p] \in 1..N
    <2> TAKE p \in parts
    <2>1. Cardinality(Below(p)) \in Nat /\ Cardinality(Below(p)) + 1 <= N
      BY <1>4
    <2> HIDE DEF Below, N
    <2> QED BY <1>1, <2>1
  <1>7. \A p, q \in parts : rank[p] = rank[q] => p = q
    <2> HIDE DEF rank
    <2> QED BY <1>3, <1>5, <1>6, <1>1
  <1>8. rank \in Injection(parts, 1..N)
    BY <1>6, <1>7 DEF Injection, IsInjective
  <1>9. \A i \in 1..N : \E p \in parts : rank[p] = i
    <2>1. IsFiniteSet(1..N) /\ Cardinality(1..N) = N
      BY <1>1, FS_Interval
    <2>2. rank \in Surjection(parts, 1..N)
      BY <1>8, <2>1, FS_Injection
    <2> QED BY <2>2 DEF Surjection
  <1> HIDE DEF rank
  <1> DEFINE sorted == [i \in 1..N |-> CHOOSE p \in parts : rank[p] = i]
  <1>10. \A i \in 1..N : sorted[i] \in parts /\ rank[sorted[i]] = i
    BY <1>9
  <1>11. sorted \in [1..N -> parts] /\ Sorted(sorted)
    <2>1. sorted \in [1..N -> parts]
      BY <1>10
    <2>2. ASSUME NEW i \in 1..N, NEW j \in 1..N, i < j
          PROVE  sorted[i] # sorted[j] /\ sorted[i].start <= sorted[j].start
      <3>1. sorted[i] # sorted[j]
        BY <1>10, <2>2
      <3>2. sorted[i] \in parts /\ sorted[j] \in parts
        BY <1>10
      <3>3. ~Before(sorted[j], sorted[i])
        <4>1. rank[sorted[i]] = i /\ rank[sorted[j]] = j
          BY <1>10
        <4> HIDE DEF sorted, N
        <4> QED BY <1>5, <2>2, <3>2, <4>1, <1>1
      <3> HIDE DEF sorted
      <3> QED BY <1>2, <1>3, <3>1, <3>2, <3>3 DEF Before
    <2> QED BY <2>1, <2>2
  <1> DEFINE order == ByStart(parts)
  <1>12. order \in [1..N -> parts] /\ Sorted(order)
    <2>1. \E o \in [1..N -> parts] : Sorted(o)
      <3> HIDE DEF sorted, Sorted
      <3> QED BY <1>11
    <2>2. order = CHOOSE o \in [1..N -> parts] : Sorted(o)
      BY DEF ByStart
    <2> HIDE DEF Sorted, order, N
    <2> QED BY <2>1, <2>2
  <1>13. order \in Injection(1..N, parts)
    <2>1. \A i, j \in 1..N : order[i] = order[j] => i = j
      <3> HIDE DEF order, N
      <3> QED BY <1>1, <1>12
    <2> QED BY <1>12, <2>1 DEF Injection, IsInjective
  <1>14. \A p \in parts : \E i \in 1..N : order[i] = p
    <2>1. IsFiniteSet(1..N) /\ Cardinality(1..N) = N
      BY <1>1, FS_Interval
    <2>2. order \in Surjection(1..N, parts)
      BY <1>13, <2>1, FS_Injection DEF Layout
    <2> QED BY <2>2 DEF Surjection
  <1> QED BY <1>12, <1>14

\* That two partitions share a sector.
Overlap(p, q) == p.start <= q.end /\ q.start <= p.end

\* Comparing neighbours in start order finds an overlap when there is one.
LEMMA NeighboursSuffice ==
  ASSUME NEW parts, Layout(parts)
  PROVE  NeighboursOverlap(parts)
           <=> \E p, q \in parts : p # q /\ Overlap(p, q)
  <1> DEFINE N == Cardinality(parts)
             order == ByStart(parts)
  <1>1. N \in Nat
    BY FS_CardinalityType DEF Layout
  <1>2. /\ order \in [1..N -> parts]
        /\ \A i, j \in 1..N :
             i < j => order[i] # order[j] /\ order[i].start <= order[j].start
        /\ \A p \in parts : \E i \in 1..N : order[i] = p
    BY ByStartSorts
  <1>3. \A p \in parts : /\ p.start \in Nat /\ p.end \in Int
                         /\ p.start <= p.end
    BY DEF Layout, Partition
  <1>4. NeighboursOverlap(parts)
          <=> \E i \in 1..(N - 1) : order[i].end >= order[i + 1].start
    BY DEF NeighboursOverlap
  <1> HIDE DEF N, order
  <1>5. ASSUME NEW i \in 1..(N - 1), order[i].end >= order[i + 1].start
        PROVE  \E p, q \in parts : p # q /\ Overlap(p, q)
    <2> DEFINE p == order[i]
               q == order[i + 1]
    <2>1. i \in 1..N /\ i + 1 \in 1..N /\ i < i + 1
      BY <1>1
    <2>2. p \in parts /\ q \in parts /\ p # q /\ p.start <= q.start
      BY <1>2, <2>1
    <2>3. p.end >= q.start
      BY <1>5
    <2> HIDE DEF p, q
    <2>4. Overlap(p, q)
      BY <1>3, <2>2, <2>3 DEF Overlap
    <2> QED BY <2>2, <2>4
  <1>6. ASSUME NEW i \in 1..N, NEW j \in 1..N, i < j,
               \A k \in 1..(N - 1) : order[k].end < order[k + 1].start
        PROVE  order[i].end < order[j].start
    <2>1. i \in 1..(N - 1) /\ i + 1 \in 1..N /\ (i + 1 = j \/ i + 1 < j)
      BY <1>1, <1>6
    <2>2. order[i].end < order[i + 1].start
      BY <1>6, <2>1
    <2>3. order[i + 1].start <= order[j].start
      BY <1>2, <1>3, <2>1
    <2>4. order[i] \in parts /\ order[j] \in parts /\ order[i + 1] \in parts
      BY <1>2, <2>1
    <2> QED BY <1>3, <2>2, <2>3, <2>4
  <1>7. ASSUME ~ \E i \in 1..(N - 1) : order[i].end >= order[i + 1].start,
               NEW p \in parts, NEW q \in parts, p # q
        PROVE  ~Overlap(p, q)
    <2>1. \A k \in 1..(N - 1) : order[k].end < order[k + 1].start
      <3> TAKE k \in 1..(N - 1)
      <3>1. k \in 1..N /\ k + 1 \in 1..N
        BY <1>1
      <3>2. order[k] \in parts /\ order[k + 1] \in parts
        BY <1>2, <3>1
      <3>3. ~(order[k].end >= order[k + 1].start)
        BY <1>7
      <3> QED BY <1>3, <3>2, <3>3
    <2>2. PICK i \in 1..N, j \in 1..N : order[i] = p /\ order[j] = q
      BY <1>2
    <2>3. i < j \/ j < i
      BY <1>1, <1>7, <2>2
    <2>4. p.end < q.start \/ q.end < p.start
      BY <1>6, <2>1, <2>2, <2>3
    <2> QED BY <1>3, <2>4 DEF Overlap
  <1> QED BY <1>4, <1>5, <1>7
-----------------------------------------------------------------------------
(* Plans *)

\* A plan stands for an input of the ranges that was accepted.
PlannedInv ==
  /\ verdict \in {"unplanned", "planned"} => input \in Inputs
  /\ verdict = "planned" => PlanAccepted(input)

\* Multiples of a sector are ordered as the numbers of sectors.
LEMMA FewerSectors ==
  ASSUME NEW s \in Nat \ {0}, NEW a \in Nat, NEW b \in Nat, a * s < b * s
  PROVE  a < b
  <1> SUFFICES ASSUME b <= a PROVE FALSE
    OBVIOUS
  <1>1. PICK d \in Nat : a = b + d
    <2>1. a - b \in Nat /\ a = b + (a - b)
      OBVIOUS
    <2> QED BY <2>1
  <1>2. a * s = b * s + d * s
    BY <1>1
  <1>3. d * s \in Nat /\ b * s \in Nat
    OBVIOUS
  <1> QED BY <1>2, <1>3

\* A number without remainder is a multiple of the quotient.
LEMMA ExactDivision ==
  ASSUME NEW n \in Nat, NEW d \in Nat \ {0}, n % d = 0
  PROVE  n \div d \in Nat /\ n = (n \div d) * d
  OBVIOUS

\* Inputs of the ranges are typed.
LEMMA InputsTyped ==
  ASSUME NEW in \in Inputs
  PROVE  TypedInput(in) /\ in.deviceBytes \in Nat /\ in.available \in Nat
  BY AnalysisAssumption DEF Inputs, TypedInput

\* classify_layout does not answer as build_plan does.
LEMMA ClassifyAnswers ==
  ASSUME NEW parts, NEW found
  PROVE  Classify(parts, found)
           \in {"unsupported", "unknown", "raspberry_pi", "odroid"}
  BY DEF Classify

\* A plan is made of an accepted input of the ranges, in each state.
LEMMA PlannedInvariant == AnalysisSpec => []PlannedInv
  <1>1. AnalysisInit => PlannedInv
    BY DEF AnalysisInit, PlannedInv
  <1>2. PlannedInv /\ [AnalysisNext]_analysisVars => PlannedInv'
    <2> SUFFICES ASSUME PlannedInv, [AnalysisNext]_analysisVars PROVE PlannedInv'
      OBVIOUS
    <2>1. CASE Parse
      BY <2>1 DEF PlannedInv, Parse
    <2>2. CASE Inspect
      BY <2>2, ClassifyAnswers DEF PlannedInv, Inspect
    <2>3. CASE Decide
      BY <2>3 DEF PlannedInv, Decide
    <2>4. CASE UNCHANGED analysisVars
      BY <2>4 DEF PlannedInv, analysisVars
    <2> QED BY <2>1, <2>2, <2>3, <2>4 DEF AnalysisNext
  <1> QED BY <1>1, <1>2, PTL DEF AnalysisSpec

\* For all ranges of inputs, every plan that is accepted keeps to the device
\* and the free space of the output, its image ends less than one alignment
\* behind the filesystem, and its partition holds the filesystem and ends less
\* than a sector behind the image.
THEOREM PlansFit == AnalysisSpec => []PlanFits
  <1>1. PlannedInv => PlanFits
    <2> SUFFICES ASSUME PlannedInv, verdict = "planned"
                 PROVE  PlanFits
      BY DEF PlanFits
    <2> DEFINE plan == Plan(input)
               S == input.sectorSize
               B == input.rootStart * S
    <2>1. input \in Inputs /\ PlanAccepted(input)
      BY DEF PlannedInv
    <2>2. /\ TypedInput(input)
          /\ input.deviceBytes \in Nat
          /\ input.available \in Nat
      BY <2>1, InputsTyped
    <2>3. S \in Nat \ {0} /\ input.rootStart \in Nat /\ B \in Nat
      BY <2>1, <2>2 DEF TypedInput, PlanAccepted
    <2>4. /\ plan.target \in Nat
          /\ plan.rootEnd \in Nat
          /\ plan.image \in Nat
          /\ plan.target <= (plan.rootEnd - input.rootStart + 1) * S
          /\ plan.image <= (plan.rootEnd + 1) * S
          /\ (plan.rootEnd + 1) * S < plan.image + S
          /\ plan.image < UnalignedBytes(input) + input.alignment
      BY <2>1, <2>2, PlanBounds
    <2>5. plan.image <= input.deviceBytes /\ plan.image <= input.available
      BY <2>1 DEF PlanAccepted, Plan
    <2>6. UnalignedBytes(input) = B + plan.target
      BY DEF UnalignedBytes, Plan
    <2>7. plan.image - input.alignment < B + plan.target
      <3>1. input.alignment \in Nat
        BY <2>2 DEF TypedInput
      <3> HIDE DEF plan, B
      <3> QED BY <2>3, <2>4, <2>6, <3>1
    <2>8. ASSUME input.deviceBytes % S = 0
          PROVE  plan.rootEnd < input.deviceBytes \div S
      <3> DEFINE count == input.deviceBytes \div S
      <3>1. count \in Nat /\ input.deviceBytes = count * S
        <4> HIDE DEF S
        <4> QED BY <2>2, <2>3, <2>8, ExactDivision
      <3>2. (plan.rootEnd + 1) * S < (count + 1) * S
        <4>1. (count + 1) * S = input.deviceBytes + S
          <5> HIDE DEF S, count
          <5> QED BY <3>1, <2>3
        <4>2. (plan.rootEnd + 1) * S \in Nat
          <5> HIDE DEF S, plan
          <5> QED BY <2>3, <2>4
        <4> HIDE DEF S, plan, count
        <4> QED BY <4>1, <4>2, <2>2, <2>3, <2>4, <2>5
      <3>3. plan.rootEnd + 1 < count + 1
        <4> HIDE DEF S, plan, count
        <4> QED BY <3>1, <3>2, <2>3, <2>4, FewerSectors
      <3> HIDE DEF plan, count
      <3> QED BY <3>1, <3>3, <2>4 DEF count
    <2>9. (plan.rootEnd + 1) * S - plan.image \in 0..(S - 1)
      <3>1. (plan.rootEnd + 1) * S \in Nat
        <4> HIDE DEF S, plan
        <4> QED BY <2>3, <2>4
      <3> HIDE DEF S, plan
      <3> QED BY <3>1, <2>3, <2>4
    <2>10. PartitionBytes >= plan.target
      BY <2>4 DEF PartitionBytes
    <2> QED BY <2>5, <2>7, <2>8, <2>9, <2>10 DEF PlanFits
  <1> QED BY <1>1, PlannedInvariant, PTL
-----------------------------------------------------------------------------
(* What is read from a disk *)

\* The partitions of a table whose used entries have sectors.
LEMMA LayoutOfTable ==
  ASSUME NEW table \in [Slots -> Entry],
         \A n \in Slots : UnusedEntry(table[n]) \/ table[n].sectors # 0
  PROVE  Layout(Partitions(table))
  <1> DEFINE parts == Partitions(table)
             numbers == [p \in parts |-> p.number]
  <1>1. /\ parts \subseteq Partition
        /\ \A p \in parts : p.number \in Slots /\ p = PartitionOf(table, p.number)
    BY PartitionsTyped
  <1>2. \A p, q \in parts : p.number = q.number => p = q
    <2> HIDE DEF parts
    <2> QED BY <1>1
  <1>3. numbers \in Injection(parts, Slots)
    <2> HIDE DEF parts
    <2> QED BY <1>1, <1>2 DEF Injection, IsInjective
  <1>4. IsFiniteSet(parts)
    <2> HIDE DEF parts, numbers
    <2> QED BY <1>3, GeometryAssumption, FS_Injection
  <1>5. ASSUME NEW p \in parts PROVE p.start <= p.end
    <2>1. PICK n \in Slots : p = PartitionOf(table, n) /\ ~UnusedEntry(table[n])
      BY DEF Partitions
    <2>2. /\ table[n].start \in Nat /\ table[n].sectors \in Nat
          /\ table[n].sectors # 0
      BY <2>1 DEF Entry
    <2>3. p.start = table[n].start /\ p.end = EndOf(table[n])
      BY <2>1 DEF PartitionOf
    <2> HIDE DEF parts
    <2> QED BY <2>2, <2>3 DEF EndOf
  <1> QED BY <1>1, <1>2, <1>4, <1>5 DEF Layout

\* What the parser accepts: entries on the disk, one behind the other.
LEMMA AcceptedTable ==
  ASSUME NEW table \in [Slots -> Entry], NEW total \in Int,
         ParseAccepts(TRUE, FALSE, table, total)
  PROVE  /\ Layout(Partitions(table))
         /\ \A p \in Partitions(table) : p.end < total
         /\ \A p, q \in Partitions(table) : p # q => ~Overlap(p, q)
  <1>1. \A n \in Slots : \/ UnusedEntry(table[n])
                         \/ table[n].sectors # 0 /\ EndOf(table[n]) < total
    BY DEF ParseAccepts, EntryAccepted
  <1>2. Layout(Partitions(table))
    BY <1>1, LayoutOfTable
  <1>3. \A p, q \in Partitions(table) : p # q => ~Overlap(p, q)
    BY <1>2, NeighboursSuffice DEF ParseAccepts
  <1>4. ASSUME NEW p \in Partitions(table) PROVE p.end < total
    BY <1>1 DEF Partitions, PartitionOf
  <1> QED BY <1>2, <1>3, <1>4

\* Partitions that are not empty share a sector when they overlap.
LEMMA SharedSector ==
  ASSUME NEW p \in Partition, NEW q \in Partition,
         p.start <= p.end, q.start <= q.end
  PROVE  Sectors(p) \cap Sectors(q) = {} <=> ~Overlap(p, q)
  <1>1. /\ p.start \in Int /\ p.end \in Int
        /\ q.start \in Int /\ q.end \in Int
    BY DEF Partition
  <1>2. CASE p.start <= q.start
    <2>1. Overlap(p, q) => q.start \in Sectors(p) \cap Sectors(q)
      BY <1>1, <1>2 DEF Overlap, Sectors
    <2>2. \A s \in Sectors(p) \cap Sectors(q) : Overlap(p, q)
      BY <1>1 DEF Overlap, Sectors
    <2> QED BY <2>1, <2>2
  <1>3. CASE q.start <= p.start
    <2>1. Overlap(p, q) => p.start \in Sectors(p) \cap Sectors(q)
      BY <1>1, <1>3 DEF Overlap, Sectors
    <2>2. \A s \in Sectors(p) \cap Sectors(q) : Overlap(p, q)
      BY <1>1 DEF Overlap, Sectors
    <2> QED BY <2>1, <2>2
  <1> QED BY <1>1, <1>2, <1>3

\* The tables of the analysis are typed.
LEMMA TablesTyped ==
  ASSUME NEW t \in Tables
  PROVE  t \in [Slots -> Entry] /\ \A n \in Slots : t[n].type \in SmallTypes
  <1>1. \A n \in Slots : t[n] \in [type : SmallTypes, start : 0..MaxStart,
                                   sectors : 0..MaxSectors, boot : {FALSE}]
    BY DEF Tables
  <1>2. 0..MaxStart \subseteq Nat /\ 0..MaxSectors \subseteq Nat
    BY AnalysisAssumption
  <1>3. SmallTypes \subseteq Types /\ {FALSE} \subseteq BOOLEAN
    BY DEF SmallTypes, Types
  <1>4. \A n \in Slots : t[n] \in Entry /\ t[n].type \in SmallTypes
    BY <1>1, <1>2, <1>3 DEF Entry
  <1> QED BY <1>4 DEF Tables

\* The parser accepts exactly the well-formed tables.
LEMMA ParserAcceptsWellFormed ==
  ASSUME NEW t \in Tables
  PROVE  ParseAccepts(TRUE, FALSE, t, TotalSectors) <=> WellFormed(t)
  <1> DEFINE parts == Partitions(t)
             Entries == \A n \in Slots : \/ UnusedEntry(t[n])
                                         \/ EntryAccepted(t[n], TotalSectors)
             Ranges == \A n \in Slots :
                         UnusedEntry(t[n]) \/
                           /\ t[n].type # "gpt"
                           /\ t[n].sectors > 0
                           /\ t[n].start..EndOf(t[n]) \subseteq 1..(TotalSectors - 1)
             Apart == \A p, q \in parts : p # q => Sectors(p) \cap Sectors(q) = {}
  <1>1. t \in [Slots -> Entry]
    BY TablesTyped
  <1>2. TotalSectors \in Nat /\ TotalSectors <= MaxU64 /\ MaxU64 \in Nat
    BY AnalysisAssumption, GeometryAssumption
  <1>3. Entries <=> Ranges
    <2> SUFFICES ASSUME NEW n \in Slots
                 PROVE  EntryAccepted(t[n], TotalSectors) <=>
                          /\ t[n].type # "gpt"
                          /\ t[n].sectors > 0
                          /\ t[n].start..EndOf(t[n])
                               \subseteq 1..(TotalSectors - 1)
      OBVIOUS
    <2>1. /\ t[n].start \in Nat /\ t[n].sectors \in Nat
          /\ t[n].type \in SmallTypes
      BY TablesTyped DEF Entry
    <2>2. /\ EndOf(t[n]) = t[n].start + t[n].sectors - 1
          /\ EndOf(t[n]) \in Int
      BY <2>1 DEF EndOf
    <2>3. ASSUME EntryAccepted(t[n], TotalSectors)
          PROVE  /\ t[n].type # "gpt"
                 /\ t[n].sectors > 0
                 /\ t[n].start..EndOf(t[n]) \subseteq 1..(TotalSectors - 1)
      BY <1>2, <2>1, <2>2, <2>3 DEF EntryAccepted
    <2>4. ASSUME t[n].type # "gpt", t[n].sectors > 0,
                 t[n].start..EndOf(t[n]) \subseteq 1..(TotalSectors - 1)
          PROVE  EntryAccepted(t[n], TotalSectors)
      <3>1. /\ t[n].start \in t[n].start..EndOf(t[n])
            /\ EndOf(t[n]) \in t[n].start..EndOf(t[n])
        BY <2>1, <2>2, <2>4
      <3>2. t[n].start >= 1 /\ EndOf(t[n]) <= TotalSectors - 1
        BY <1>2, <2>2, <2>4, <3>1
      <3> QED
        BY <1>2, <2>1, <2>2, <2>4, <3>2 DEF EntryAccepted, SmallTypes
    <2> QED BY <2>3, <2>4
  <1>4. ASSUME Ranges PROVE ~NeighboursOverlap(parts) <=> Apart
    <2>1. \A n \in Slots : UnusedEntry(t[n]) \/ t[n].sectors # 0
      BY <1>4
    <2>2. Layout(parts)
      BY <1>1, <2>1, LayoutOfTable
    <2>3. \A p, q \in parts :
            Sectors(p) \cap Sectors(q) = {} <=> ~Overlap(p, q)
      BY <2>2, SharedSector DEF Layout
    <2> HIDE DEF parts
    <2> QED BY <2>2, <2>3, NeighboursSuffice
  <1>5. ParseAccepts(TRUE, FALSE, t, TotalSectors)
          <=> Entries /\ ~NeighboursOverlap(parts)
    BY DEF ParseAccepts
  <1>6. WellFormed(t) <=> Ranges /\ Apart
    BY DEF WellFormed
  <1> HIDE DEF Entries, Ranges, Apart, parts
  <1> QED BY <1>3, <1>4, <1>5, <1>6

Classes == {"unsupported", "unknown", "raspberry_pi", "odroid"}

\* What a verdict on a table stands for.
ReadInv ==
  /\ verdict \in {"unread", "accepted", "rejected"} \cup Classes =>
       mbr \in Tables
  /\ verdict \in {"accepted"} \cup Classes =>
       ParseAccepts(TRUE, FALSE, mbr, TotalSectors)
  /\ verdict = "rejected" => ~ParseAccepts(TRUE, FALSE, mbr, TotalSectors)
  /\ verdict \in Classes =>
       /\ evidence \in [{p.number : p \in Partitions(mbr)} -> Found]
       /\ verdict = Classify(Partitions(mbr), evidence)
  /\ verdict \in {"unplanned", "planned", "refused"} => mbr = None
  /\ verdict \in {"unread", "accepted", "rejected", "unplanned", "planned",
                  "refused"} \cup Classes

\* In each state a verdict on a table is the one of the code.
LEMMA ReadInvariant == AnalysisSpec => []ReadInv
  <1>1. AnalysisInit => ReadInv
    BY DEF AnalysisInit, ReadInv, Classes
  <1>2. ReadInv /\ [AnalysisNext]_analysisVars => ReadInv'
    <2> SUFFICES ASSUME ReadInv, [AnalysisNext]_analysisVars PROVE ReadInv'
      OBVIOUS
    <2>1. CASE Parse
      BY <2>1 DEF ReadInv, Parse, Classes
    <2>2. CASE Inspect
      <3>1. verdict' \in Classes /\ mbr' = mbr
        BY <2>2, ClassifyAnswers DEF Inspect, Classes
      <3>2. /\ evidence' \in [{p.number : p \in Partitions(mbr)} -> Found]
            /\ verdict' = Classify(Partitions(mbr), evidence')
        BY <2>2 DEF Inspect
      <3> QED BY <2>2, <3>1, <3>2 DEF ReadInv, Inspect, Classes
    <2>3. CASE Decide
      BY <2>3 DEF ReadInv, Decide, Classes
    <2>4. CASE UNCHANGED analysisVars
      BY <2>4 DEF ReadInv, analysisVars
    <2> QED BY <2>1, <2>2, <2>3, <2>4 DEF AnalysisNext
  <1> QED BY <1>1, <1>2, PTL DEF AnalysisSpec

\* For every number of entries and sectors parse_mbr accepts exactly the
\* tables whose entries lie on the disk and share no sector.
THEOREM ParserIsExact == AnalysisSpec => []AcceptsWellFormed
  <1>1. ReadInv => AcceptsWellFormed
    <2> SUFFICES ASSUME ReadInv, mbr # None, verdict # "unread"
                 PROVE  (verdict # "rejected") = WellFormed(mbr)
      BY DEF AcceptsWellFormed
    <2>1. mbr \in Tables /\ verdict \in {"accepted", "rejected"} \cup Classes
      BY DEF ReadInv
    <2>2. verdict # "rejected" <=> ParseAccepts(TRUE, FALSE, mbr, TotalSectors)
      BY <2>1 DEF ReadInv, Classes
    <2>3. WellFormed(mbr) <=> ParseAccepts(TRUE, FALSE, mbr, TotalSectors)
      BY <2>1, ParserAcceptsWellFormed
    <2>4. WellFormed(mbr) \in BOOLEAN
      BY DEF WellFormed
    <2> QED BY <2>2, <2>3, <2>4
  <1> QED BY <1>1, ReadInvariant, PTL

\* For every table and whatever mounting showed, behind the first sector of a
\* root that may be shrunk there is nothing but the root.
THEOREM RootIsLast == AnalysisSpec => []ShrinkableRootIsLast
  <1>1. ReadInv => ShrinkableRootIsLast
    <2> SUFFICES ASSUME ReadInv,
                        verdict \in {"raspberry_pi", "odroid", "unknown"}
                 PROVE  \E root \in Partitions(mbr) :
                          /\ root.type = "linux"
                          /\ evidence[root.number] = LinuxRoot
                          /\ \A p \in Partitions(mbr) \ {root} :
                               p.end < root.start
      BY DEF ShrinkableRootIsLast
    <2> DEFINE parts == Partitions(mbr)
               root == LastPartition(parts)
    <2>1. /\ mbr \in Tables
          /\ ParseAccepts(TRUE, FALSE, mbr, TotalSectors)
          /\ evidence \in [{p.number : p \in parts} -> Found]
          /\ Classify(parts, evidence) # "unsupported"
      BY DEF ReadInv, Classes
    <2>2. /\ root \in parts /\ EndsLast(root, parts)
          /\ root.type = "linux"
          /\ evidence[root.number].filesystem = "ext4"
          /\ LooksLikeLinuxRoot(evidence[root.number])
      BY <2>1, SupportedRoot, LastPartitionIsLast
    <2>3. evidence[root.number] = LinuxRoot
      <3>1. evidence[root.number] \in Found
        BY <2>1, <2>2
      <3> QED BY <2>2, <3>1 DEF Found, LinuxRoot, DataDisk, FatBoot, OtherBoot,
                                LooksLikeLinuxRoot
    <2>4. /\ Layout(parts)
          /\ \A p, q \in parts : p # q => ~Overlap(p, q)
      <3>1. mbr \in [Slots -> Entry]
        BY <2>1, TablesTyped
      <3>2. TotalSectors \in Int
        BY AnalysisAssumption, GeometryAssumption
      <3> QED BY <2>1, <3>1, <3>2, AcceptedTable
    <2>5. ASSUME NEW p \in parts \ {root} PROVE p.end < root.start
      <3>1. p.end <= root.end /\ ~Overlap(p, root)
        BY <2>2, <2>4 DEF EndsLast
      <3>2. /\ p.start \in Int /\ p.end \in Int /\ p.start <= p.end
            /\ root.start \in Int /\ root.end \in Int
        BY <2>2, <2>4 DEF Layout, Partition
      <3> HIDE DEF root, parts
      <3> QED BY <3>1, <3>2 DEF Overlap
    <2> QED BY <2>2, <2>3, <2>5
  <1> QED BY <1>1, ReadInvariant, PTL
-----------------------------------------------------------------------------
(* What comes of a plan *)

\* A multiple that is no larger than a value is kept when it is rounded down.
LEMMA RoundingKeepsMultiples ==
  ASSUME NEW value \in Nat, NEW unit \in Nat \ {0}, NEW count \in Nat,
         count * unit <= value
  PROVE  count * unit <= (value \div unit) * unit
  <1> DEFINE quotient == value \div unit
  <1>1. quotient \in Nat /\ value < quotient * unit + unit
    BY DivisionBounds
  <1>2. (quotient + 1) * unit = quotient * unit + unit
    BY <1>1
  <1>3. count * unit < (quotient + 1) * unit
    <2>1. count * unit \in Nat /\ quotient * unit \in Nat
      BY <1>1
    <2> HIDE DEF quotient
    <2> QED BY <1>1, <1>2, <2>1
  <1>4. count < quotient + 1
    <2> HIDE DEF quotient
    <2> QED BY <1>1, <1>3, FewerSectors
  <1>5. PICK d \in Nat : quotient = count + d
    <2>1. quotient - count \in Nat /\ quotient = count + (quotient - count)
      <3> HIDE DEF quotient
      <3> QED BY <1>1, <1>4
    <2> QED BY <2>1
  <1>6. quotient * unit = count * unit + d * unit
    BY <1>5
  <1>7. d * unit \in Nat /\ count * unit \in Nat
    OBVIOUS
  <1> HIDE DEF quotient
  <1> QED BY <1>6, <1>7 DEF quotient

\* Rounding a target to KiB and then to blocks keeps whole blocks.
LEMMA RoundingKeepsBlocks ==
  ASSUME NEW target \in Nat, NEW block \in Nat \ {0}, block % Kib = 0,
         NEW floor \in Nat, floor % block = 0, floor <= target
  PROVE  floor <= ((((target \div Kib) * Kib) \div block) * block)
  <1> DEFINE kibs == block \div Kib
             blocks == floor \div block
             rounded == (target \div Kib) * Kib
  <1>1. kibs \in Nat /\ block = kibs * Kib
    BY ExactDivision, GeometryAssumption
  <1>2. blocks \in Nat /\ floor = blocks * block
    BY ExactDivision
  <1>3. floor = (blocks * kibs) * Kib
    <2> HIDE DEF blocks, kibs
    <2> QED BY <1>1, <1>2, GeometryAssumption
  <1>4. blocks * kibs \in Nat
    <2> HIDE DEF blocks, kibs
    <2> QED BY <1>1, <1>2
  <1>5. floor <= rounded
    <2> HIDE DEF blocks, kibs
    <2> QED BY <1>3, <1>4, RoundingKeepsMultiples, GeometryAssumption
  <1>6. rounded \in Nat
    BY DivisionBounds, GeometryAssumption
  <1>7. blocks * block <= (rounded \div block) * block
    <2> HIDE DEF blocks, rounded
    <2> QED BY <1>2, <1>5, <1>6, RoundingKeepsMultiples
  <1> QED BY <1>2, <1>7

\* A plan stays in the range of the integers it is computed in.
LEMMA PlanInRange ==
  ASSUME NEW in, TypedInput(in), PlanAccepted(in)
  PROVE  /\ Plan(in).target <= MaxU64
         /\ (Plan(in).rootEnd - in.rootStart + 1) * in.sectorSize <= MaxU64
  <1> DEFINE S == in.sectorSize
             end == Plan(in).rootEnd
             start == in.rootStart
  <1>1. S \in Nat \ {0} /\ start \in Nat
    BY DEF TypedInput, PlanAccepted
  <1>2. /\ Plan(in).target \in Nat /\ end \in Nat /\ Plan(in).image \in Nat
        /\ (end + 1) * S < Plan(in).image + S
    BY PlanBounds
  <1>3. Plan(in).image + (S - 1) <= MaxU64
    BY DEF PlanAccepted, Plan
  <1>4. (end - start + 1) * S = (end + 1) * S - start * S
    <2> HIDE DEF end, start, S
    <2> QED BY <1>1, <1>2
  <1>5. start * S \in Nat /\ (end + 1) * S \in Nat
    <2> HIDE DEF end, start, S
    <2> QED BY <1>1, <1>2
  <1>6. (end - start + 1) * S <= MaxU64
    <2> HIDE DEF end, start, S
    <2> QED BY <1>1, <1>2, <1>3, <1>4, <1>5, GeometryAssumption
  <1>7. Plan(in).target <= MaxU64
    <2>1. in.minimum * 5 \in Nat
      BY DEF TypedInput
    <2>2. SafetyMargin(in) \in Nat
      BY <2>1, DivisionBounds, GeometryAssumption DEF SafetyMargin, Larger
    <2>3. /\ in.minimum + SafetyMargin(in) <= MaxU64
          /\ in.minimum \in Nat /\ in.current \in Nat
      BY DEF PlanAccepted, TypedInput
    <2>4. TargetBytes(in) <= MaxU64
      BY <2>2, <2>3, GeometryAssumption DEF TargetBytes, Smaller
    <2> QED BY <2>4 DEF Plan
  <1> QED BY <1>6, <1>7

\* For all ranges of inputs and all block sizes, tools that do what the plan
\* says end in a disk the validation accepts, with a filesystem that is not
\* below its minimum.
THEOREM PlansAreAchievable == AnalysisSpec => []PlanIsAchievable
  <1>1. PlannedInv => PlanIsAchievable
    <2> SUFFICES ASSUME PlannedInv, verdict = "planned",
                        NEW block \in Blocks, block % Kib = 0,
                        input.minimum % block = 0, input.current % block = 0
                 PROVE
           LET root == [number |-> 1, type |-> "linux",
                        start |-> input.rootStart,
                        sectors |-> input.deviceBytes,
                        end |-> input.rootStart + input.deviceBytes - 1,
                        boot |-> FALSE]
               kib == TargetKib(Plan(input))
               bytes == ((kib * Kib) \div block) * block
               request == [number |-> 1, rootStart |-> input.rootStart,
                           rootEnd |-> Plan(input).rootEnd, targetKib |-> kib,
                           sectorSize |-> input.sectorSize,
                           original |-> {root}]
               after == [root EXCEPT
                           !.end = request.rootEnd,
                           !.sectors = request.rootEnd - input.rootStart + 1]
           IN  /\ bytes >= input.minimum
               /\ PostShrinkAccepted(request, {after},
                                     [bytes |-> bytes, block |-> block])
      BY DEF PlanIsAchievable
    <2> DEFINE plan == Plan(input)
               kib == TargetKib(plan)
               bytes == ((kib * Kib) \div block) * block
               root == [number |-> 1, type |-> "linux",
                        start |-> input.rootStart,
                        sectors |-> input.deviceBytes,
                        end |-> input.rootStart + input.deviceBytes - 1,
                        boot |-> FALSE]
               request == [number |-> 1, rootStart |-> input.rootStart,
                           rootEnd |-> plan.rootEnd, targetKib |-> kib,
                           sectorSize |-> input.sectorSize,
                           original |-> {root}]
               after == [root EXCEPT
                           !.end = request.rootEnd,
                           !.sectors = request.rootEnd - input.rootStart + 1]
               room == (plan.rootEnd - input.rootStart + 1) * input.sectorSize
    <2>1. input \in Inputs /\ PlanAccepted(input)
      BY DEF PlannedInv
    <2>2. TypedInput(input) /\ input.sectorSize # 0
      BY <2>1, InputsTyped DEF PlanAccepted
    <2>3. block \in Nat \ {0}
      BY AnalysisAssumption
    <2>4. /\ plan.target \in Nat /\ plan.rootEnd \in Nat
          /\ input.minimum <= plan.target
          /\ plan.target <= room
      BY <2>1, <2>2, PlanBounds
    <2>5. plan.target <= MaxU64 /\ room <= MaxU64
      BY <2>1, <2>2, PlanInRange
    <2>6. input.minimum <= bytes
      BY <2>2, <2>3, <2>4, RoundingKeepsBlocks DEF TypedInput, TargetKib
    <2>7. kib \in Nat /\ kib * Kib <= plan.target /\ kib * Kib \in Nat
      <3>1. kib \in Nat /\ kib * Kib <= plan.target
        BY <2>4, TargetKibBounds
      <3> HIDE DEF kib
      <3> QED BY <3>1, GeometryAssumption
    <2>8. bytes \in Nat /\ bytes <= kib * Kib /\ kib * Kib - bytes < block
      <3>1. /\ (kib * Kib) \div block \in Nat /\ bytes <= kib * Kib
            /\ kib * Kib < bytes + block
        <4> HIDE DEF kib
        <4> QED BY <2>3, <2>7, DivisionBounds
      <3>2. bytes \in Nat
        <4> HIDE DEF kib
        <4> QED BY <2>3, <3>1
      <3> HIDE DEF bytes, kib
      <3> QED BY <2>3, <2>7, <3>1, <3>2
    <2>9. bytes <= room /\ kib * Kib <= MaxU64 /\ room \in Int
      <3>1. room \in Int
        BY <2>2, <2>4 DEF TypedInput
      <3> HIDE DEF bytes, kib, room, plan
      <3> QED BY <2>4, <2>5, <2>7, <2>8, <3>1, GeometryAssumption
    <2> HIDE DEF plan, kib, bytes
    <2>10. /\ after.number = 1 /\ after.start = input.rootStart
           /\ after.type = "linux" /\ after.boot = FALSE
           /\ after.end = plan.rootEnd
           /\ after.sectors * input.sectorSize = room
      OBVIOUS
    <2>11. /\ root.number = 1 /\ root.start = input.rootStart
           /\ root.type = "linux" /\ root.boot = FALSE
      OBVIOUS
    <2> HIDE DEF root, after, room
    <2>12. Named(request, {root}) = {root} /\ Named(request, {after}) = {after}
      BY <2>10, <2>11 DEF Named
    <2>13. Cardinality({root}) = Cardinality({after})
      BY FS_Singleton
    <2>14. OthersUnchanged(request, {after})
      <3>1. request.original = {root}
        OBVIOUS
      <3> HIDE DEF request
      <3> QED BY <2>12, <2>13, <3>1 DEF OthersUnchanged
    <2>15. \A was \in Named(request, request.original),
              is \in Named(request, {after}) :
             /\ is.start = was.start /\ is.start = request.rootStart
             /\ is.type = was.type /\ is.boot = was.boot
             /\ is.end = request.rootEnd
             /\ is.sectors * request.sectorSize = room
      BY <2>10, <2>11, <2>12
    <2>16. PostShrinkAccepted(request, {after},
                              [bytes |-> bytes, block |-> block])
      <3>1. /\ request.sectorSize # 0 /\ request.targetKib = kib
            /\ Named(request, request.original) # {}
            /\ Named(request, {after}) # {}
        BY <2>2, <2>12
      <3> HIDE DEF request
      <3> QED BY <2>5, <2>8, <2>9, <2>14, <2>15, <3>1 DEF PostShrinkAccepted
    <2> QED BY <2>6, <2>16 DEF plan, kib, bytes, root, after, TypedInput
  <1> QED BY <1>1, PlannedInvariant, PTL
=============================================================================
