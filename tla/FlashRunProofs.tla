--------------------------- MODULE FlashRunProofs ---------------------------
(***************************************************************************)
(* Proofs about FlashRun, for all disks and images, and any number of      *)
(* faults, exchanges, replacements and damages: only the confirmed disk is *)
(* written, and not behind the image; a success means it was written as it *)
(* was inspected; and disks the host uses are left alone.                  *)
(***************************************************************************)
EXTENDS FlashRun, SequenceTheorems, TLAPS

\* Every block there is.
Blocks ==
  (UNION {{d.blocks[i] : i \in DOMAIN d.blocks} : d \in Disks})
    \cup (UNION {{im.blocks[i] : i \in DOMAIN im.blocks} : im \in Images})
    \cup {Damaged}

\* Disks have the size they report, and can be told apart by what they report.
DisksReported ==
  /\ NoDisk \notin Disks
  /\ \A d \in Disks : d.blocks \in Seq(Blocks)
                      /\ Len(d.blocks) = d.identity.size
  /\ \A d, e \in Disks : d.identity = e.identity => d = e

ImagesAreBlocks == \A im \in Images : im.blocks \in Seq(Blocks)

\* Disks are not exchanged behind the second look.
QuietBehindLook ==
  SwapsAt \subseteq {"start", "hash", "decode", "discover", "revalidate"}

Assumptions == DisksReported /\ ImagesAreBlocks /\ QuietBehindLook

\* Steps before a disk was found, before it was opened, and after.
Searching == {"start", "hash", "decode", "discover"}
Looked == {"quiesce", "log", "open"}
Opened == {"stream", "sync", "reread", "partprobe", "logSuccess", "done"}
Steps == Searching \cup Looked \cup Opened \cup {"revalidate", "logFailure"}
           \cup Ended

\* One disk at most is at the path.
PathInv ==
  /\ plugged \subseteq Disks
  /\ \A d, e \in AtPath(plugged, Path) : d = e
  /\ image \in Images

\* The disk that was found, and that is opened: it has the confirmed model
\* and the room for the image, and stays at the path from the second look.
SelectInv ==
  /\ pc \in Steps
  /\ inspected.bytes \in Nat
  /\ selected \in Disks \cup {NoDisk} /\ target \in {NoDisk, selected}
  /\ selected # NoDisk =>
       /\ selected.identity.model = options.model
       /\ selected.identity.size >= inspected.bytes
  /\ pc \in Searching => selected = NoDisk
  /\ pc = "revalidate" => selected # NoDisk
  /\ pc \in Searching \cup {"revalidate"} \cup Looked => target = NoDisk
  /\ pc \in Looked \cup Opened => selected \in AtPath(plugged, Path)
  /\ pc \in Opened => target = selected

\* A disk holds what it held.
Untouched(d) == content[d] = d.blocks /\ medium[d] = d.blocks

\* The target has its size, and holds what it held behind the image.
TailKept(d) ==
  /\ Len(content[d]) = Len(d.blocks) /\ Len(medium[d]) = Len(d.blocks)
  /\ \A i \in DOMAIN d.blocks :
       i > inspected.bytes => /\ content[d][i] = d.blocks[i]
                              /\ medium[d][i] = d.blocks[i]

WriteInv ==
  /\ content \in [Disks -> Seq(Blocks)] /\ medium \in [Disks -> Seq(Blocks)]
  /\ hash \in Seq(Blocks) /\ Written <= inspected.bytes
  /\ pc \in Searching \cup {"revalidate"} \cup Looked => hash = << >>
  /\ \A d \in Disks : d # target => Untouched(d)
  /\ target # NoDisk => TailKept(target)

Inv == PathInv /\ SelectInv /\ WriteInv
-----------------------------------------------------------------------------
(* The disk that is written *)

LEMMA InvStarts == ASSUME Assumptions, Init PROVE Inv
  <1>1. PICK d \in AtPath(Disks, Path) :
          plugged = {d} \cup IF HoldsRoot(d) THEN {}
                             ELSE {e \in Disks : HoldsRoot(e) /\ e.path # Path}
    BY DEF Init
  <1>2. PathInv
    BY <1>1 DEF PathInv, AtPath, Init
  <1>3. SelectInv
    BY DEF SelectInv, Init, Nothing, Steps, Searching, Looked, Opened, Ended
  <1>4. content = [e \in Disks |-> e.blocks] /\ medium = content
    BY DEF Init
  <1>5. WriteInv
    BY <1>4 DEF WriteInv, Init, Nothing, Written, Untouched, Assumptions,
                DisksReported
  <1> QED BY <1>2, <1>3, <1>5 DEF Inv

LEMMA PathKept == ASSUME PathInv, [Next]_vars PROVE PathInv'
  <1>1. CASE SwapDisk
    <2>1. PICK gone \in AtPath(plugged, Path),
               other \in AtPath(Disks \ plugged, Path) :
            plugged' = (plugged \ {gone}) \cup {other}
      BY <1>1 DEF SwapDisk
    <2>2. image' = image
      BY <1>1 DEF SwapDisk, file
    <2> QED BY <2>1, <2>2 DEF PathInv, AtPath
  <1>2. CASE ReplaceImage
    BY <1>2 DEF ReplaceImage, PathInv, AtPath, disks
  <1>3. CASE UNCHANGED <<plugged, image>>
    BY <1>3 DEF PathInv, AtPath
  <1>4. CASE Program
    <2>1. UNCHANGED <<plugged, image>>
      BY <1>4 DEF Program, ReadSidecar, HashFile, Decode, Discover, Revalidate,
           Quiesce, OpenLog, OpenTarget, Stream, StreamEnds, Sync, Reread,
           Partprobe, LogResult, file, disks
    <2> QED BY <1>3, <2>1
  <1>5. CASE Damage \/ Killed \/ PowerLoss \/ Finished \/ UNCHANGED vars
    <2>1. UNCHANGED <<plugged, image>>
      BY <1>5 DEF Damage, Killed, PowerLoss, Finished, vars, file, disks
    <2> QED BY <1>3, <2>1
  <1> QED BY <1>1, <1>2, <1>4, <1>5 DEF Next, Environment

\* The second look finds the very disk the first one found.
LEMMA SecondLook ==
  ASSUME Assumptions, Inv, pc = "revalidate", NEW d \in Offered,
         SameIdentity(selected.identity, d.identity)
  PROVE  selected \in AtPath(plugged, Path)
  <1>1. d \in Disks /\ d \in AtPath(plugged, Path)
    BY DEF Offered, AtPath, Candidates, Inv, PathInv
  <1>2. selected \in Disks
    BY DEF Inv, SelectInv
  <1>3. selected = d
    BY <1>1, <1>2 DEF SameIdentity, Assumptions, DisksReported
  <1> QED BY <1>1, <1>3

\* Steps up to the opening of the target.
LEMMA SearchKeepsSelect ==
  ASSUME Assumptions, Inv,
         ReadSidecar \/ HashFile \/ Decode \/ Discover \/ Revalidate
           \/ Quiesce \/ OpenLog \/ OpenTarget
  PROVE  SelectInv'
  <1> USE DEF Inv, SelectInv, Steps, Searching, Looked, Opened, Ended, Goto, Fail,
              FailLogged
  <1>1. CASE ReadSidecar \/ HashFile
    BY <1>1 DEF ReadSidecar, HashFile, progress, disks
  <1>2. CASE Decode
    <2>1. /\ pc = "decode" /\ pc' \in {"discover", "failed"}
          /\ UNCHANGED <<options, plugged, selected, target>>
          /\ inspected' \in {inspected, Inspection(image.blocks)}
      BY <1>2 DEF Decode, disks
    <2>2. Len(image.blocks) \in Nat
      BY DEF PathInv, Assumptions, ImagesAreBlocks
    <2>3. inspected'.bytes \in Nat
      BY <2>1, <2>2 DEF Inspection
    <2> QED BY <2>1, <2>3
  <1>3. CASE Discover
    <2>1. UNCHANGED <<options, plugged, inspected, target>> /\ pc = "discover"
      BY <1>3 DEF Discover, disks
    <2>2. CASE UNCHANGED selected /\ Fail
      BY <2>1, <2>2
    <2>3. ASSUME NEW d \in Offered, d.identity.model = options.model, Fits(d),
                 selected' = d, Goto("revalidate")
          PROVE  SelectInv'
      <3>1. d \in Disks
        BY DEF Offered, AtPath, Candidates, PathInv
      <3>2. d.identity.size >= inspected.bytes
        BY <2>3 DEF Fits
      <3>3. target' = NoDisk /\ selected' # NoDisk
        BY <2>1, <2>3, <3>1 DEF Assumptions, DisksReported
      <3>4. /\ selected'.identity.model = options'.model
            /\ selected'.identity.size >= inspected'.bytes
        BY <2>1, <2>3, <3>2
      <3> QED BY <2>1, <2>3, <3>1, <3>3, <3>4
    <2> QED BY <1>3, <2>2, <2>3 DEF Discover
  <1>4. CASE Revalidate
    <2>1. /\ pc = "revalidate"
          /\ UNCHANGED <<options, plugged, inspected, selected, target>>
          /\ \/ pc' = "failed"
             \/ /\ pc' = "quiesce"
                /\ \E d \in Offered : SameIdentity(selected.identity, d.identity)
      BY <1>4 DEF Revalidate, disks, progress
    <2>2. pc' = "quiesce" => selected \in AtPath(plugged, Path)
      BY <2>1, SecondLook
    <2>3. AtPath(plugged, Path)' = AtPath(plugged, Path)
      BY <2>1 DEF AtPath
    <2> QED BY <2>1, <2>2, <2>3
  <1>5. CASE Quiesce \/ OpenLog
    <2>1. /\ pc \in Looked /\ pc' \in {"log", "open", "failed"}
          /\ UNCHANGED <<options, plugged, inspected, selected, target>>
      BY <1>5 DEF Quiesce, OpenLog, progress, disks
    <2>2. AtPath(plugged, Path)' = AtPath(plugged, Path)
      BY <2>1 DEF AtPath
    <2> QED BY <2>1, <2>2
  <1>6. CASE OpenTarget
    <2>1. pc = "open" /\ UNCHANGED <<options, plugged, inspected, selected>>
      BY <1>6 DEF OpenTarget, disks
    <2>2. AtPath(plugged, Path)' = AtPath(plugged, Path)
      BY <2>1 DEF AtPath
    <2>3. \/ pc' = "logFailure" /\ target' = target
          \/ pc' = "stream" /\ \E d \in AtPath(plugged, Path) : target' = d
      BY <1>6 DEF OpenTarget
    <2>4. pc' = "stream" => target' = selected
      BY <2>1, <2>3 DEF PathInv
    <2> QED BY <2>1, <2>2, <2>3, <2>4
  <1> QED BY <1>1, <1>2, <1>3, <1>4, <1>5, <1>6

\* Steps with the target open, and the end of the run.
LEMMA FlashKeepsSelect ==
  ASSUME Inv,
         Stream \/ StreamEnds \/ Sync \/ Reread \/ Partprobe \/ LogResult
  PROVE  SelectInv'
  <1>1. /\ UNCHANGED <<options, plugged, inspected, selected, target>>
        /\ pc \in {"stream", "sync", "reread", "partprobe", "logSuccess",
                   "logFailure"}
    BY DEF Stream, StreamEnds, Sync, Reread, Partprobe, LogResult, disks,
           progress
  <1>2. \/ pc' \in {"logFailure", "failed"}
        \/ pc # "logFailure" /\ pc' \in Opened
    BY DEF Stream, StreamEnds, Sync, Reread, Partprobe, LogResult, Goto, Fail,
           FailLogged, Opened
  <1>3. AtPath(plugged, Path)' = AtPath(plugged, Path)
    BY <1>1 DEF AtPath
  <1> QED BY <1>1, <1>2, <1>3 DEF Inv, SelectInv, Steps, Searching, Looked,
                                  Opened, Ended

LEMMA EnvironmentKeepsSelect ==
  ASSUME Assumptions, Inv, Environment \/ Finished \/ UNCHANGED vars
  PROVE  SelectInv'
  <1>1. UNCHANGED <<options, inspected, selected, target>>
    BY DEF Environment, ReplaceImage, SwapDisk, Damage, Killed, PowerLoss,
           Finished, vars, progress
  <1>2. CASE SwapDisk
    <2>1. pc' = pc /\ pc \in {"start", "hash", "decode", "discover", "revalidate"}
      BY <1>2 DEF SwapDisk, Assumptions, QuietBehindLook
    <2> QED BY <1>1, <2>1 DEF Inv, SelectInv, Searching, Looked, Opened
  <1>3. CASE Killed \/ PowerLoss
    <2>1. pc' = "dead"
      BY <1>3 DEF Killed, PowerLoss, Goto
    <2> QED BY <1>1, <2>1 DEF Inv, SelectInv, Steps, Searching, Looked, Opened,
                              Ended
  <1>4. CASE ReplaceImage \/ Damage \/ Finished \/ UNCHANGED vars
    <2>1. UNCHANGED <<pc, plugged>>
      BY <1>4 DEF ReplaceImage, Damage, Finished, vars, disks
    <2>2. AtPath(plugged, Path)' = AtPath(plugged, Path)
      BY <2>1 DEF AtPath
    <2> QED BY <1>1, <2>1, <2>2 DEF Inv, SelectInv
  <1> QED BY <1>2, <1>3, <1>4 DEF Environment

LEMMA SelectKept == ASSUME Assumptions, Inv, [Next]_vars PROVE SelectInv'
  BY SearchKeepsSelect, FlashKeepsSelect, EnvironmentKeepsSelect
     DEF Next, Program
-----------------------------------------------------------------------------
(* What is written *)

\* Writing one block keeps a sequence of blocks, its length and the others.
LEMMA OneBlockWritten ==
  ASSUME NEW S, NEW s \in Seq(S), NEW k \in Nat, NEW b \in S
  PROVE  /\ [s EXCEPT ![k] = b] \in Seq(S)
         /\ Len([s EXCEPT ![k] = b]) = Len(s)
         /\ \A i \in 1..Len(s) :
              [s EXCEPT ![k] = b][i] = IF i = k THEN b ELSE s[i]
  <1> DEFINE t == [s EXCEPT ![k] = b]
  <1>1. DOMAIN t = 1..Len(s)
    OBVIOUS
  <1>2. \A i \in 1..Len(s) : t[i] = (IF i = k THEN b ELSE s[i]) /\ t[i] \in S
    OBVIOUS
  <1>3. t = [i \in 1..Len(s) |-> t[i]]
    OBVIOUS
  <1>4. t \in Seq(S) /\ Len(t) = Len(s)
    <2> HIDE DEF t
    <2>1. Len(s) \in Nat /\ t \in [1..Len(s) -> S]
      BY <1>2, <1>3
    <2>2. t \in Seq(S)
      BY <2>1
    <2> QED BY <1>1, <2>1, <2>2
  <1> QED BY <1>2, <1>4

\* A disk of which some blocks are as in one sequence and some as in another.
LEMMA BlocksMixed ==
  ASSUME NEW S, NEW s \in Seq(S), NEW t \in Seq(S), Len(s) = Len(t), NEW K
  PROVE  LET u == [i \in DOMAIN s |-> IF i \in K THEN t[i] ELSE s[i]]
         IN  u \in Seq(S) /\ Len(u) = Len(s)
  <1> DEFINE u == [i \in DOMAIN s |-> IF i \in K THEN t[i] ELSE s[i]]
  <1>1. Len(s) \in Nat /\ DOMAIN s = 1..Len(s)
    OBVIOUS
  <1>2. u \in [1..Len(s) -> S]
    OBVIOUS
  <1> HIDE DEF u
  <1>3. u \in Seq(S)
    BY <1>1, <1>2
  <1>4. Len(u) = Len(s)
    BY <1>1, <1>2, <1>3
  <1> QED BY <1>3, <1>4 DEF u

\* Steps that leave the disks and the count of the blocks written alone.
LEMMA NothingWritten ==
  ASSUME Inv, UNCHANGED <<content, medium, hash, target, inspected>>,
         pc' \in Searching \cup {"revalidate"} \cup Looked =>
           pc \in Searching \cup {"revalidate"} \cup Looked
  PROVE  WriteInv'
  BY DEF Inv, WriteInv, Untouched, TailKept, Written

LEMMA SearchKeepsWrite ==
  ASSUME Assumptions, Inv,
         ReadSidecar \/ HashFile \/ Decode \/ Discover \/ Revalidate
           \/ Quiesce \/ OpenLog \/ OpenTarget
  PROVE  WriteInv'
  <1>1. CASE ReadSidecar \/ HashFile \/ Discover \/ Revalidate \/ Quiesce
               \/ OpenLog
    <2>1. /\ UNCHANGED <<content, medium, hash, target, inspected>>
          /\ pc \in Searching \cup {"revalidate"} \cup Looked
      BY <1>1 DEF ReadSidecar, HashFile, Discover, Revalidate, Quiesce,
           OpenLog, disks, progress, Searching, Looked
    <2> QED BY <2>1, NothingWritten
  <1>2. CASE Decode
    <2>1. UNCHANGED <<content, medium, hash, target>> /\ pc = "decode"
      BY <1>2 DEF Decode, disks
    <2>2. hash = << >> /\ target = NoDisk
      BY <2>1 DEF Inv, WriteInv, SelectInv, Searching
    <2>3. inspected'.bytes \in Nat
      BY SearchKeepsSelect DEF SelectInv
    <2>4. Len(hash) = 0
      BY <2>2
    <2>5. Written' <= inspected'.bytes
      BY <2>1, <2>3, <2>4 DEF Written
    <2> QED BY <2>1, <2>2, <2>5 DEF Inv, WriteInv, Untouched
  <1>3. CASE OpenTarget
    <2>1. /\ UNCHANGED <<content, medium, hash, inspected>> /\ pc = "open"
          /\ pc' \in {"stream", "logFailure"}
      BY <1>3 DEF OpenTarget, Goto, FailLogged, disks
    <2>2. target = NoDisk /\ hash = << >>
      BY <2>1 DEF Inv, SelectInv, WriteInv, Looked
    <2>3. \A d \in Disks : Untouched(d)
      BY <2>2 DEF Inv, WriteInv, Assumptions, DisksReported
    <2>4. target' # NoDisk => target' \in Disks
      BY SearchKeepsSelect DEF SelectInv
    <2>5. target' # NoDisk => TailKept(target')
      BY <2>3, <2>4 DEF Untouched, TailKept
    <2>6. (target # NoDisk => TailKept(target))'
      BY <2>1, <2>5 DEF TailKept
    <2>7. \A d \in Disks : Untouched(d)'
      BY <2>1, <2>3 DEF Untouched
    <2> QED BY <2>1, <2>2, <2>6, <2>7 DEF Inv, WriteInv, Written
  <1> QED BY <1>1, <1>2, <1>3

\* Blocks of all disks, with one of one disk changed.
WithBlock(before, d, k, b) == [before EXCEPT ![d][k] = b]

LEMMA TargetWritten ==
  ASSUME NEW before \in [Disks -> Seq(Blocks)], target \in Disks,
         NEW k \in Nat, NEW b \in Blocks
  PROVE  LET after == WithBlock(before, target, k, b)
         IN  /\ after \in [Disks -> Seq(Blocks)]
             /\ \A d \in Disks : d # target => after[d] = before[d]
             /\ Len(after[target]) = Len(before[target])
             /\ \A i \in 1..Len(before[target]) :
                  after[target][i] = IF i = k THEN b ELSE before[target][i]
  <1> DEFINE after == WithBlock(before, target, k, b)
             new == [before[target] EXCEPT ![k] = b]
  <1>1. after = [before EXCEPT ![target] = new]
    BY DEF WithBlock
  <1>2. /\ new \in Seq(Blocks) /\ Len(new) = Len(before[target])
        /\ \A i \in 1..Len(before[target]) :
             new[i] = IF i = k THEN b ELSE before[target][i]
    BY OneBlockWritten
  <1> HIDE DEF new
  <1>3. after \in [Disks -> Seq(Blocks)]
    BY <1>1, <1>2
  <1>4. /\ after[target] = new
        /\ \A d \in Disks : d # target => after[d] = before[d]
    BY <1>1
  <1> QED BY <1>2, <1>3, <1>4

\* The target is a disk with room for the image as soon as it is open.
LEMMA TargetHasRoom ==
  ASSUME Assumptions, Inv, target # NoDisk
  PROVE  /\ target \in Disks /\ target = selected
         /\ inspected.bytes \in Nat
         /\ DOMAIN target.blocks = 1..Len(target.blocks)
         /\ Len(target.blocks) \in Nat
         /\ Len(target.blocks) >= inspected.bytes
  <1>1. target \in Disks /\ target = selected
    BY DEF Inv, SelectInv
  <1>2. target.blocks \in Seq(Blocks)
        /\ Len(target.blocks) = target.identity.size
    BY <1>1 DEF Assumptions, DisksReported
  <1> QED BY <1>1, <1>2 DEF Inv, SelectInv

\* It is open as long as the image is written and verified.
LEMMA TargetIsOpen ==
  ASSUME Assumptions, Inv, pc \in Opened
  PROVE  target # NoDisk
  BY DEF Inv, SelectInv, PathInv, AtPath, Assumptions, DisksReported

LEMMA StreamKeepsWrite ==
  ASSUME Assumptions, Inv, Stream
  PROVE  WriteInv'
  <1> DEFINE block == image.blocks[Written + 1]
             after == WithBlock(content, target, Written + 1, block)
  <1>1. /\ pc = "stream" /\ ~AtEnd /\ pc' \in {"stream", "logFailure"}
        /\ UNCHANGED <<medium, inspected, target>>
    BY DEF Stream, Goto, FailLogged
  <1>2. target # NoDisk
    BY <1>1, TargetIsOpen DEF Opened
  <1>3. content' \in {content, after} /\ hash' \in {hash, Append(hash, block)}
    BY DEF Stream, WithBlock
  <1>4. content' # content \/ hash' # hash => ~TooLong
    BY DEF Stream
  <1>5. Written \in Nat /\ block \in Blocks
    <2>1. image.blocks \in Seq(Blocks) /\ hash \in Seq(Blocks)
      BY DEF Inv, PathInv, WriteInv, Assumptions, ImagesAreBlocks
    <2>2. Written \in Nat /\ Written + 1 \in 1..Len(image.blocks)
      BY <1>1, <2>1 DEF AtEnd, Written
    <2> QED BY <2>1, <2>2
  <1>6. /\ after \in [Disks -> Seq(Blocks)]
        /\ \A d \in Disks : d # target => after[d] = content[d]
        /\ Len(after[target]) = Len(content[target])
        /\ \A i \in 1..Len(content[target]) :
             after[target][i] = IF i = Written + 1 THEN block
                                                   ELSE content[target][i]
    <2>1. /\ content \in [Disks -> Seq(Blocks)] /\ target \in Disks
          /\ Written + 1 \in Nat
      BY <1>2, <1>5, TargetHasRoom DEF Inv, WriteInv
    <2>2. \A k \in Nat, b \in Blocks :
            LET new == WithBlock(content, target, k, b)
            IN  /\ new \in [Disks -> Seq(Blocks)]
                /\ \A d \in Disks : d # target => new[d] = content[d]
                /\ Len(new[target]) = Len(content[target])
                /\ \A i \in 1..Len(content[target]) :
                     new[target][i] = IF i = k THEN b ELSE content[target][i]
      BY <2>1, TargetWritten
    <2> HIDE DEF block
    <2> QED BY <1>5, <2>1, <2>2
  <1>7. /\ hash' \in Seq(Blocks)
        /\ hash' # hash => Len(hash') = Written + 1
    <2> HIDE DEF block
    <2>1. hash \in Seq(Blocks)
      BY DEF Inv, WriteInv
    <2>2. /\ Append(hash, block) \in Seq(Blocks)
          /\ Len(Append(hash, block)) = Written + 1
      BY <1>5, <2>1 DEF Written
    <2> QED BY <1>3, <2>1, <2>2
  <1>8. Written' <= inspected'.bytes
    BY <1>1, <1>4, <1>5, <1>7, <1>2, TargetHasRoom
       DEF TooLong, Inv, WriteInv, Written
  <1> HIDE DEF after, block
  <1>9. content' \in [Disks -> Seq(Blocks)]
    BY <1>3, <1>6 DEF Inv, WriteInv
  <1>10. \A d \in Disks : d # target' => Untouched(d)'
    BY <1>1, <1>3, <1>6 DEF Inv, WriteInv, Untouched
  <1>11. TailKept(target)'
    <2>1. TailKept(target)
      BY <1>2 DEF Inv, WriteInv
    <2>2. CASE content' = content
      BY <1>1, <2>1, <2>2 DEF TailKept
    <2>3. CASE content' = after /\ ~TooLong
      <3>1. \A i \in DOMAIN target.blocks :
              i > inspected.bytes => after[target][i] = content[target][i]
        BY <1>5, <1>6, <2>1, <2>3, <1>2, TargetHasRoom DEF TooLong, TailKept
      <3> QED BY <1>1, <1>6, <2>1, <2>3, <3>1 DEF TailKept
    <2> QED BY <1>3, <1>4, <2>2, <2>3
  <1> QED
    BY <1>1, <1>7, <1>8, <1>9, <1>10, <1>11
       DEF Inv, WriteInv, Searching, Looked

LEMMA SyncKeepsWrite ==
  ASSUME Assumptions, Inv, Sync
  PROVE  WriteInv'
  <1>1. /\ pc = "sync" /\ pc' \in {"reread", "partprobe", "logFailure"}
        /\ UNCHANGED <<content, inspected, target, hash>>
        /\ medium' \in {medium, Synced(target)}
    BY DEF Sync, Goto, FailLogged, progress
  <1>2. target # NoDisk /\ target \in Disks
    BY <1>1, TargetIsOpen, TargetHasRoom DEF Opened
  <1>3. /\ medium' \in [Disks -> Seq(Blocks)]
        /\ \A d \in Disks : d # target => medium'[d] = medium[d]
        /\ medium'[target] \in {medium[target], content[target]}
    BY <1>1, <1>2 DEF Synced, Inv, WriteInv
  <1>4. TailKept(target)'
    BY <1>1, <1>2, <1>3 DEF Inv, WriteInv, TailKept
  <1>5. \A d \in Disks : d # target' => Untouched(d)'
    BY <1>1, <1>3 DEF Inv, WriteInv, Untouched
  <1> QED BY <1>1, <1>3, <1>4, <1>5
          DEF Inv, WriteInv, Searching, Looked, Written

LEMMA DamageKeepsWrite ==
  ASSUME Assumptions, Inv, Damage
  PROVE  WriteInv'
  <1>1. /\ pc \in {"reread", "partprobe"}
        /\ UNCHANGED <<content, inspected, target, hash, pc>>
    BY DEF Damage, progress
  <1>2. PICK k \in 1..Written :
          medium' = WithBlock(medium, target, k, Damaged)
    BY DEF Damage, WithBlock
  <1>3. target # NoDisk /\ target \in Disks
    BY <1>1, TargetIsOpen, TargetHasRoom DEF Opened
  <1>4. Damaged \in Blocks /\ k \in Nat /\ Written \in Nat
    <2>1. Damaged \in Blocks
      BY DEF Blocks
    <2>2. Written \in Nat
      BY DEF Inv, WriteInv, Written
    <2> QED BY <2>1, <2>2
  <1>5. /\ medium' \in [Disks -> Seq(Blocks)]
        /\ \A d \in Disks : d # target => medium'[d] = medium[d]
        /\ Len(medium'[target]) = Len(medium[target])
        /\ \A i \in 1..Len(medium[target]) :
             i # k => medium'[target][i] = medium[target][i]
    <2>1. medium \in [Disks -> Seq(Blocks)]
      BY DEF Inv, WriteInv
    <2>2. Len(medium[target]) \in Nat
      BY <1>3, <2>1
    <2> QED BY <1>2, <1>3, <1>4, <2>1, <2>2, TargetWritten
  <1>6. TailKept(target)'
    <2>1. TailKept(target) /\ k <= inspected.bytes
      BY <1>3, <1>4, TargetHasRoom DEF Inv, WriteInv
    <2>2. \A i \in DOMAIN target.blocks :
            i > inspected.bytes => medium'[target][i] = medium[target][i]
      <3> SUFFICES ASSUME NEW i \in DOMAIN target.blocks, i > inspected.bytes
                   PROVE  medium'[target][i] = medium[target][i]
        OBVIOUS
      <3>1. i \in 1..Len(medium[target]) /\ i # k
        BY <1>3, <1>4, <2>1, TargetHasRoom DEF TailKept
      <3> QED BY <1>5, <3>1
    <2> QED BY <1>1, <1>5, <2>1, <2>2 DEF TailKept
  <1>7. \A d \in Disks : d # target' => Untouched(d)'
    BY <1>1, <1>5 DEF Inv, WriteInv, Untouched
  <1> QED BY <1>1, <1>5, <1>6, <1>7 DEF Inv, WriteInv, Written

\* After a power loss a block of the target is the one of the cache or of the
\* medium.
LEMMA MediumMixed ==
  ASSUME Assumptions, Inv, PowerLoss
  PROVE  \E kept \in SUBSET (1..(Written + 1)) :
           /\ medium' \in [Disks -> Seq(Blocks)]
           /\ \A d \in Disks : d # target => medium'[d] = medium[d]
           /\ target # NoDisk =>
                /\ Len(medium'[target]) = Len(medium[target])
                /\ \A i \in 1..Len(medium[target]) :
                     medium'[target][i] = IF i \in kept THEN content[target][i]
                                                        ELSE medium[target][i]
  <1>1. PICK kept \in SUBSET (1..(Written + 1)) :
          medium' = [d \in Disks |->
            [i \in DOMAIN medium[d] |->
               IF d = target /\ i \in kept THEN content[d][i]
                                           ELSE medium[d][i]]]
    BY DEF PowerLoss
  <1>2. /\ content \in [Disks -> Seq(Blocks)] /\ medium \in [Disks -> Seq(Blocks)]
        /\ target # NoDisk => /\ target \in Disks
                              /\ Len(content[target]) = Len(medium[target])
    BY TargetHasRoom DEF Inv, WriteInv, TailKept
  <1>3. ASSUME NEW d \in Disks, d # target
        PROVE  medium'[d] = medium[d]
    <2>1. medium[d] \in Seq(Blocks)
      BY <1>2
    <2>2. medium[d] = [i \in DOMAIN medium[d] |-> medium[d][i]]
      BY <2>1
    <2>3. medium'[d] = [i \in DOMAIN medium[d] |-> medium[d][i]]
      BY <1>1, <1>3
    <2> QED BY <2>2, <2>3
  <1>4. ASSUME target # NoDisk
        PROVE  /\ medium'[target] \in Seq(Blocks)
               /\ Len(medium'[target]) = Len(medium[target])
               /\ \A i \in 1..Len(medium[target]) :
                    medium'[target][i] = IF i \in kept THEN content[target][i]
                                                       ELSE medium[target][i]
    <2> DEFINE s == medium[target]
               t == content[target]
               u == [i \in DOMAIN s |-> IF i \in kept THEN t[i] ELSE s[i]]
    <2>1. medium'[target] = u
      BY <1>1, <1>2, <1>4
    <2>2. s \in Seq(Blocks) /\ t \in Seq(Blocks) /\ Len(s) = Len(t)
      BY <1>2, <1>4
    <2>3. u \in Seq(Blocks) /\ Len(u) = Len(s)
      BY <2>2, BlocksMixed
    <2>4. \A i \in 1..Len(s) : u[i] = IF i \in kept THEN t[i] ELSE s[i]
      BY <2>2
    <2> QED BY <2>1, <2>3, <2>4
  <1>5. medium' \in [Disks -> Seq(Blocks)]
    <2>1. DOMAIN medium' = Disks /\ medium' = [d \in Disks |-> medium'[d]]
      BY <1>1
    <2>2. \A d \in Disks : medium'[d] \in Seq(Blocks)
      BY <1>2, <1>3, <1>4, TargetHasRoom DEF Assumptions, DisksReported
    <2> QED BY <2>1, <2>2
  <1> QED BY <1>3, <1>4, <1>5

LEMMA PowerLossKeepsWrite ==
  ASSUME Assumptions, Inv, PowerLoss
  PROVE  WriteInv'
  <1>1. /\ pc' = "dead" /\ content' = medium'
        /\ UNCHANGED <<inspected, target, hash>>
    BY DEF PowerLoss, Goto, progress
  <1>2. PICK kept \in SUBSET (1..(Written + 1)) :
          /\ medium' \in [Disks -> Seq(Blocks)]
          /\ \A d \in Disks : d # target => medium'[d] = medium[d]
          /\ target # NoDisk =>
               /\ Len(medium'[target]) = Len(medium[target])
               /\ \A i \in 1..Len(medium[target]) :
                    medium'[target][i] = IF i \in kept THEN content[target][i]
                                                       ELSE medium[target][i]
    BY MediumMixed
  <1>3. ASSUME target # NoDisk PROVE TailKept(target)'
    <2>1. TailKept(target) /\ DOMAIN target.blocks = 1..Len(medium[target])
      BY <1>3, TargetHasRoom DEF Inv, WriteInv, TailKept
    <2>2. \A i \in DOMAIN target.blocks :
            i > inspected.bytes => medium'[target][i] = target.blocks[i]
      BY <1>2, <1>3, <2>1 DEF TailKept
    <2> QED BY <1>1, <1>2, <1>3, <2>1, <2>2 DEF TailKept
  <1>4. \A d \in Disks : d # target' => Untouched(d)'
    BY <1>1, <1>2 DEF Inv, WriteInv, Untouched
  <1> QED
    BY <1>1, <1>2, <1>3, <1>4
       DEF Inv, WriteInv, Written, Searching, Looked

LEMMA WriteKept == ASSUME Assumptions, Inv, [Next]_vars PROVE WriteInv'
  <1>1. CASE ReadSidecar \/ HashFile \/ Decode \/ Discover \/ Revalidate
               \/ Quiesce \/ OpenLog \/ OpenTarget
    BY <1>1, SearchKeepsWrite
  <1>2. CASE StreamEnds \/ Reread \/ Partprobe \/ LogResult
    <2>1. /\ UNCHANGED <<content, medium, hash, target, inspected>>
          /\ pc' \in {"sync", "logFailure", "partprobe", "logSuccess", "done",
                      "failed"}
      BY <1>2 DEF StreamEnds, Reread, Partprobe, LogResult, Goto, Fail,
           FailLogged, disks, progress
    <2> QED BY <2>1, NothingWritten DEF Searching, Looked
  <1>3. CASE ReplaceImage \/ SwapDisk \/ Finished \/ UNCHANGED vars
    <2>1. UNCHANGED <<content, medium, hash, target, inspected, pc>>
      BY <1>3 DEF ReplaceImage, SwapDisk, Finished, vars, disks, progress
    <2> QED BY <2>1, NothingWritten
  <1>4. CASE Killed
    <2>1. UNCHANGED <<content, medium, hash, target, inspected>> /\ pc' = "dead"
      BY <1>4 DEF Killed, Goto, disks, progress
    <2> QED BY <2>1, NothingWritten DEF Searching, Looked
  <1> QED
    BY <1>1, <1>2, <1>3, <1>4, StreamKeepsWrite, SyncKeepsWrite,
       DamageKeepsWrite, PowerLossKeepsWrite
       DEF Next, Program, Environment

LEMMA Invariance == ASSUME Assumptions PROVE Spec => []Inv
  <1>1. Init => Inv
    BY InvStarts
  <1>2. Inv /\ [Next]_vars => Inv'
    BY PathKept, SelectKept, WriteKept DEF Inv
  <1> QED BY <1>1, <1>2, PTL DEF Spec

\* For every set of disks that report their size and can be told apart, and
\* any faults: a disk that is changed was selected, has the confirmed model
\* and room for the image, and is not changed behind it, although the engine
\* opens whatever is at the path, and a power loss keeps any of its writes.
THEOREM OnlySelected ==
  ASSUME Assumptions
  PROVE  Spec => []OnlySelectedDiskWritten
  <1>1. Inv => OnlySelectedDiskWritten
    <2> SUFFICES ASSUME Inv, NEW d \in Changed
                 PROVE  /\ d = selected
                        /\ d.identity.model = options.model
                        /\ Len(d.blocks) >= inspected.bytes
                        /\ \A i \in DOMAIN d.blocks :
                             i > inspected.bytes =>
                               /\ content[d][i] = d.blocks[i]
                               /\ medium[d][i] = d.blocks[i]
      BY DEF OnlySelectedDiskWritten
    <2>1. d \in Disks /\ d = target /\ target # NoDisk
      BY DEF Changed, Inv, WriteInv, Untouched, Assumptions, DisksReported
    <2>2. d = selected /\ Len(d.blocks) >= inspected.bytes
      BY <2>1, TargetHasRoom
    <2>3. d.identity.model = options.model
      BY <2>1, <2>2 DEF Inv, SelectInv
    <2>4. TailKept(d)
      BY <2>1 DEF Inv, WriteInv
    <2> QED BY <2>2, <2>3, <2>4 DEF TailKept
  <1> QED BY <1>1, Invariance, PTL
-----------------------------------------------------------------------------
(* What a success means *)

\* The target holds the blocks written so far.
Holds(blocks) == \A i \in 1..Written : blocks[target][i] = hash[i]

Confirmed == {"partprobe", "logSuccess", "done"}

\* What is known of the blocks written: through the cache they are there until
\* the run is cut off; they are those inspected behind the sync; and the medium
\* has them from where no more is read of it.
SuccessInv ==
  /\ damages \in Nat
  /\ log = "success" => pc \in Ended /\ target # NoDisk
  /\ pc # "dead" /\ (pc \in Opened \/ log = "success") => Holds(content)
  /\ pc \in Confirmed \cup {"reread"} \/ log = "success" =>
       hash = inspected.hash
  /\ Kept /\ (pc \in Confirmed \/ log = "success") => Holds(medium)

\* A prefix of a sequence is another if they agree block by block.
LEMMA PrefixAgrees ==
  ASSUME NEW S, NEW s \in Seq(S), NEW h \in Seq(S), Len(h) <= Len(s)
  PROVE  SubSeq(s, 1, Len(h)) = h <=> \A i \in 1..Len(h) : s[i] = h[i]
  <1> DEFINE p == SubSeq(s, 1, Len(h))
  <1>1. Len(h) \in Nat /\ Len(s) \in Nat
    OBVIOUS
  <1>2. /\ p \in Seq(S) /\ Len(p) = Len(h)
        /\ \A i \in 1..Len(h) : p[i] = s[i]
    BY <1>1
  <1> HIDE DEF p
  <1>3. (\A i \in 1..Len(h) : p[i] = h[i]) => p = h
    BY <1>2, SeqEqual
  <1> QED BY <1>2, <1>3 DEF p

\* The prefix that is read back from the target is what was written if the
\* medium has it.
LEMMA TargetPrefix ==
  ASSUME Assumptions, Inv, target # NoDisk
  PROVE  SubSeq(medium[target], 1, Written) = hash <=> Holds(medium)
  <1>1. /\ medium[target] \in Seq(Blocks) /\ hash \in Seq(Blocks)
        /\ Len(hash) <= Len(medium[target])
    BY TargetHasRoom DEF Inv, WriteInv, TailKept, Written
  <1> QED BY <1>1, PrefixAgrees DEF Holds, Written

LEMMA SuccessStarts == Init => SuccessInv
  BY DEF Init, SuccessInv, Opened, Confirmed

\* Up to the first block written nothing is claimed.
LEMMA SearchKeepsSuccess ==
  ASSUME Assumptions, Inv, SuccessInv,
         ReadSidecar \/ HashFile \/ Decode \/ Discover \/ Revalidate
           \/ Quiesce \/ OpenLog \/ OpenTarget
  PROVE  SuccessInv'
  <1>1. /\ pc \in Searching \cup {"revalidate"} \cup Looked
        /\ UNCHANGED <<hash, damages>>
        /\ log' \in {log, "open"}
        /\ pc' \in Searching \cup {"revalidate"} \cup Looked
                     \cup {"stream", "failed", "logFailure"}
    BY DEF ReadSidecar, HashFile, Decode, Discover, Revalidate, Quiesce,
       OpenLog,
         OpenTarget, Searching, Looked, Goto, Fail, FailLogged, NoFault, Fault,
         bounds, progress
  <1>2. log' # "success"
    BY <1>1 DEF SuccessInv, Searching, Looked, Ended
  <1>3. Written' = 0
    BY <1>1 DEF Inv, WriteInv, Written
  <1> QED BY <1>1, <1>2, <1>3
             DEF SuccessInv, Holds, Searching, Looked, Opened, Confirmed, Ended

LEMMA StreamKeepsSuccess ==
  ASSUME Assumptions, Inv, SuccessInv, Stream
  PROVE  SuccessInv'
  <1> DEFINE block == image.blocks[Written + 1]
  <1>1. /\ pc = "stream" /\ UNCHANGED <<target, inspected, log, damages>>
        /\ pc' \in {"stream", "logFailure"}
        /\ pc' = "stream" =>
             /\ content' = WithBlock(content, target, Written + 1, block)
             /\ hash' = Append(hash, block)
             /\ Written < Len(content[target])
    BY DEF Stream, Goto, FailLogged, NoFault, Fault, bounds, WithBlock
  <1>2. log # "success" /\ Holds(content)
    BY <1>1 DEF SuccessInv, Ended, Opened
  <1>3. ASSUME pc' = "stream" PROVE Holds(content)'
    <2>1. /\ content \in [Disks -> Seq(Blocks)] /\ target \in Disks
          /\ hash \in Seq(Blocks) /\ Len(hash) = Written /\ Written \in Nat
      BY <1>1, TargetIsOpen, TargetHasRoom DEF Inv, WriteInv, Opened, Written
    <2> DEFINE c == content[target]
               new == [c EXCEPT ![Written + 1] = block]
    <2>2. content'[target] = new
      BY <1>1, <1>3, <2>1 DEF WithBlock
    <2>3. \A i \in 1..(Written + 1) :
            new[i] = IF i = Written + 1 THEN block ELSE c[i]
      BY <1>1, <1>3, <2>1
    <2> HIDE DEF block, new
    <2>4. /\ Written' = Written + 1
          /\ \A i \in 1..(Written + 1) :
               hash'[i] = IF i = Written + 1 THEN block ELSE hash[i]
      BY <1>1, <1>3, <2>1 DEF Written
    <2>5. \A i \in 1..(Written + 1) : content'[target][i] = hash'[i]
      BY <1>2, <2>1, <2>2, <2>3, <2>4 DEF Holds
    <2> QED BY <1>1, <2>4, <2>5 DEF Holds
  <1> QED BY <1>1, <1>2, <1>3 DEF SuccessInv, Opened, Confirmed, Ended

\* Behind the sync the blocks are those of the inspection, and on the medium.
LEMMA SyncKeepsSuccess ==
  ASSUME Assumptions, Inv, SuccessInv, StreamEnds \/ Sync \/ Reread
  PROVE  SuccessInv'
  <1>1. /\ pc \in {"stream", "sync", "reread"}
        /\ UNCHANGED <<options, content, target, inspected, hash, log, damages>>
        /\ pc' \in {"sync", "reread", "partprobe", "logFailure"}
    BY DEF StreamEnds, Sync, Reread, Goto, FailLogged, NoFault, Fault, bounds,
         progress, disks
  <1>2. log # "success" /\ Holds(content)
    BY <1>1 DEF SuccessInv, Ended, Opened
  <1>3. target # NoDisk /\ target \in Disks
    BY <1>1, TargetIsOpen, TargetHasRoom DEF Opened
  <1>4. pc' \in {"reread", "partprobe"} => hash = inspected.hash
    <2>1. CASE pc = "sync"
      BY <2>1 DEF StreamEnds, Sync, Reread, Goto, FailLogged, HashExpected
    <2>2. CASE pc = "reread"
      BY <2>2 DEF SuccessInv
    <2>3. CASE pc = "stream"
      BY <2>3 DEF StreamEnds, Sync, Reread, Goto
    <2> QED BY <1>1, <2>1, <2>2, <2>3
  <1>5. ASSUME pc' = "partprobe" PROVE Holds(medium)'
    <2>1. CASE pc = "sync"
      <3>1. medium' = Synced(target)
        BY <1>5, <2>1 DEF StreamEnds, Sync, Reread, FailLogged, Goto
      <3>2. medium'[target] = content[target]
        BY <1>3, <3>1 DEF Synced, Inv, WriteInv
      <3> QED BY <1>1, <1>2, <3>2 DEF Holds, Written
    <2>2. CASE pc = "reread"
      <3>1. medium' = medium /\ \E d \in AtPath(plugged, Path) :
                                  RereadPrefix(d) = hash
        BY <1>5, <2>2 DEF StreamEnds, Sync, Reread, FailLogged, Goto, disks
      <3>2. RereadPrefix(target) = hash
        BY <2>2, <3>1 DEF Inv, PathInv, SelectInv, Opened
      <3>3. Holds(medium)
        BY <1>3, <3>2, TargetPrefix DEF RereadPrefix
      <3> QED BY <1>1, <3>1, <3>3 DEF Holds, Written
    <2>3. CASE pc = "stream"
      BY <1>5, <2>3 DEF StreamEnds, Sync, Reread, Goto
    <2> QED BY <1>1, <2>1, <2>2, <2>3
  <1>6. Holds(content)'
    BY <1>1, <1>2 DEF Holds, Written
  <1> QED BY <1>1, <1>2, <1>4, <1>5, <1>6
             DEF SuccessInv, Opened, Confirmed, Ended

LEMMA EndKeepsSuccess ==
  ASSUME Assumptions, Inv, SuccessInv, Partprobe \/ LogResult
  PROVE  SuccessInv'
  <1>1. UNCHANGED <<options, content, medium, target, inspected, hash, damages>>
    BY DEF Partprobe, LogResult, NoFault, Fault, bounds, progress, disks
  <1>2. \/ pc = "partprobe" /\ pc' \in {"logSuccess", "failed"} /\ log' = log
        \/ /\ pc = "logSuccess" /\ pc' \in {"done", "failed"}
           /\ log' \in {log, "success"}
        \/ /\ pc = "logFailure" /\ pc' = "failed"
           /\ log' \in {log, "failure"}
    BY DEF Partprobe, LogResult, Goto, Fail
  <1>3. log # "success"
    BY <1>2 DEF SuccessInv, Ended
  <1>4. pc \in Confirmed => target # NoDisk
    BY TargetIsOpen DEF Confirmed, Opened
  <1>5. /\ Holds(content)' <=> Holds(content)
        /\ Holds(medium)' <=> Holds(medium)
        /\ Kept' <=> Kept
    BY <1>1 DEF Holds, Written, Kept
  <1> QED BY <1>1, <1>2, <1>3, <1>4, <1>5
             DEF SuccessInv, Opened, Confirmed, Ended

LEMMA PowerLossKeepsSuccess ==
  ASSUME Assumptions, Inv, SuccessInv, PowerLoss
  PROVE  SuccessInv'
  <1>1. /\ pc # "dead" /\ pc' = "dead" /\ log' \in {log, "none"}
        /\ UNCHANGED <<options, target, inspected, hash, damages>>
    BY DEF PowerLoss, Goto, Fault, progress
  <1>2. ASSUME Kept, log = "success" PROVE Holds(medium)'
    <2>1. Holds(content) /\ Holds(medium) /\ target # NoDisk
      BY <1>1, <1>2 DEF SuccessInv
    <2>2. PICK kept \in SUBSET (1..(Written + 1)) :
            \A i \in 1..Len(medium[target]) :
              medium'[target][i] = IF i \in kept THEN content[target][i]
                                                 ELSE medium[target][i]
      BY <2>1, MediumMixed
    <2>3. \A i \in 1..Written : i \in 1..Len(medium[target])
      BY <2>1, TargetHasRoom DEF Inv, WriteInv, TailKept, Written
    <2>4. \A i \in 1..Written : medium'[target][i] = hash[i]
      BY <2>1, <2>2, <2>3 DEF Holds
    <2> QED BY <1>1, <2>4 DEF Holds, Written
  <1>3. Kept' <=> Kept
    BY <1>1 DEF Kept
  <1> QED BY <1>1, <1>2, <1>3 DEF SuccessInv, Opened, Confirmed, Ended

LEMMA EnvironmentKeepsSuccess ==
  ASSUME Assumptions, Inv, SuccessInv,
         Environment \/ Finished \/ UNCHANGED vars
  PROVE  SuccessInv'
  <1>1. CASE Damage
    <2>1. /\ UNCHANGED <<options, content, target, inspected, hash, log, pc>>
          /\ damages' = damages + 1
          /\ pc = "reread" \/ (pc = "partprobe" /\ options.post = "none")
      BY <1>1 DEF Damage, progress
    <2>2. log # "success" /\ Holds(content)'
      BY <2>1 DEF SuccessInv, Ended, Opened, Holds, Written
    <2>3. damages' \in Nat /\ damages' # 0
      BY <2>1 DEF SuccessInv
    <2>4. ~(Kept' /\ pc \in Confirmed)
      BY <2>1, <2>3 DEF Kept, Confirmed
    <2> QED BY <2>1, <2>2, <2>3, <2>4 DEF SuccessInv, Opened, Confirmed
  <1>2. CASE Killed
    <2>1. /\ UNCHANGED <<options, content, medium, target, inspected, hash, log,
                         damages>>
          /\ pc \notin Ended /\ pc' = "dead"
      BY <1>2 DEF Killed, Goto, Fault, disks, progress
    <2>2. log # "success"
      BY <2>1 DEF SuccessInv
    <2> QED BY <2>1, <2>2 DEF SuccessInv, Opened, Confirmed, Ended
  <1>3. CASE ReplaceImage \/ SwapDisk \/ Finished \/ UNCHANGED vars
    <2>1. UNCHANGED <<options, content, medium, target, inspected, hash, log,
                      damages, pc>>
      BY <1>3
      DEF ReplaceImage, SwapDisk, Finished, vars, disks, progress, bounds
    <2> QED BY <2>1 DEF SuccessInv, Holds, Written, Kept
  <1> QED BY <1>1, <1>2, <1>3, PowerLossKeepsSuccess DEF Environment

\* For every set of disks, images and options, and any faults: when the log
\* says success, also after a power loss, the medium of the target holds the
\* image that was inspected, although it was read again to be written.
THEOREM SuccessIsTrue ==
  ASSUME Assumptions
  PROVE  Spec => []SuccessIsInspected
  <1>1. Inv /\ SuccessInv /\ [Next]_vars => SuccessInv'
    BY SearchKeepsSuccess, StreamKeepsSuccess, SyncKeepsSuccess,
       EndKeepsSuccess,
       EnvironmentKeepsSuccess DEF Next, Program
  <1>2. Inv /\ SuccessInv => SuccessIsInspected
    BY TargetPrefix DEF SuccessInv, SuccessIsInspected
  <1> QED BY <1>1, <1>2, Invariance, SuccessStarts, PTL DEF Spec
-----------------------------------------------------------------------------
(* What the metadata says of it *)

\* What the inspection asks of an image.
Described(blocks) ==
  /\ options.pre # "none" => TableAccepted(blocks)
  /\ SidecarAgrees(blocks)

DescribedInv ==
  pc \in {"discover", "revalidate"} \cup Looked \cup Opened \/ log = "success" =>
    Described(inspected.hash)

\* The inspection is asked of nothing else than what is written later.
LEMMA DescribedKept ==
  Inv /\ SuccessInv /\ DescribedInv /\ [Next]_vars => DescribedInv'
  <1> SUFFICES ASSUME Inv, SuccessInv, DescribedInv, [Next]_vars
               PROVE  DescribedInv'
    OBVIOUS
  <1> DEFINE Inspected == {"discover", "revalidate"} \cup Looked \cup Opened
  <1>1. CASE Decode
    <2>1. pc = "decode" /\ UNCHANGED <<options, sidecar, log>>
      BY <1>1 DEF Decode, file
    <2>2. \/ pc' = "failed"
          \/ /\ pc' = "discover" /\ inspected' = Inspection(image.blocks)
             /\ Described(image.blocks)
      BY <1>1 DEF Decode, Goto, Fail, Described
    <2>3. log' # "success"
      BY <2>1 DEF SuccessInv, Ended
    <2>4. ASSUME pc' = "discover" PROVE Described(inspected.hash)'
      <3>1. inspected'.hash = image.blocks /\ Described(image.blocks)
        BY <2>2, <2>4 DEF Inspection
      <3> QED BY <2>1, <3>1 DEF Described, SidecarAgrees, TableAccepted
    <2> QED BY <2>2, <2>3, <2>4 DEF DescribedInv, Looked, Opened
  <1>2. ASSUME UNCHANGED <<options, sidecar, inspected>>,
               pc' \in Inspected \/ log' = "success" =>
                 pc \in Inspected \/ log = "success"
        PROVE  DescribedInv'
    BY <1>2 DEF DescribedInv, Described, SidecarAgrees, TableAccepted
  <1>3. CASE ReadSidecar \/ HashFile \/ Discover \/ Revalidate \/ Quiesce
               \/ OpenLog \/ OpenTarget
    <2>1. /\ UNCHANGED <<options, sidecar, inspected>>
          /\ log' \in {log, "open"}
          /\ \/ pc \in Inspected
             \/ pc' \in {"failed", "hash", "decode"}
      BY <1>3 DEF ReadSidecar, HashFile, Discover, Revalidate, Quiesce, OpenLog,
           OpenTarget, Goto, Fail, file, progress, Looked
    <2> QED BY <1>2, <2>1 DEF Looked, Opened
  <1>4. CASE Stream \/ StreamEnds \/ Sync \/ Reread \/ Partprobe \/ LogResult
    <2>1. /\ UNCHANGED <<options, sidecar, inspected>>
          /\ \/ pc \in Inspected
             \/ pc' = "failed" /\ pc = "logFailure" /\ log' \in {log, "failure"}
      BY <1>4 DEF Stream, StreamEnds, Sync, Reread, Partprobe, LogResult, Goto,
           Fail, file, progress, Opened
    <2> QED BY <1>2, <2>1 DEF Looked, Opened
  <1>5. CASE Environment \/ Finished \/ UNCHANGED vars
    <2>1. /\ UNCHANGED <<options, sidecar, inspected>>
          /\ log' \in {log, "none"}
          /\ pc' \in {pc, "dead"}
      BY <1>5
      DEF Environment, ReplaceImage, SwapDisk, Damage, Killed, PowerLoss,
           Finished, vars, file, progress, Goto
    <2> QED BY <1>2, <2>1 DEF Looked, Opened
  <1> QED BY <1>1, <1>3, <1>4, <1>5 DEF Next, Program

\* For every set of disks, images, metadata and options: what the target holds
\* after a success is what the metadata announces, as far as the level of
\* verification before the write promises.
THEOREM SuccessIsDescribed ==
  ASSUME Assumptions
  PROVE  Spec => []TargetIsDescribed
  <1>1. Inv /\ SuccessInv /\ [Next]_vars => SuccessInv'
    BY SearchKeepsSuccess, StreamKeepsSuccess, SyncKeepsSuccess,
       EndKeepsSuccess,
       EnvironmentKeepsSuccess DEF Next, Program
  <1>2. Init => DescribedInv
    BY DEF Init, DescribedInv, Looked, Opened
  <1>3. Inv /\ SuccessInv /\ DescribedInv => TargetIsDescribed
    <2> SUFFICES ASSUME Inv, SuccessInv, DescribedInv, log = "success", Kept
                 PROVE  LET written == SubSeq(medium[target], 1, Written)
                        IN  /\ options.pre # "none" => TableAccepted(written)
                            /\ sidecar # NoSidecar =>
                                 /\ sidecar.raw = Written
                                 /\ options.pre # "none"
                                      /\ sidecar.partitions # {} =>
                                      sidecar.partitions =
                                        Announced(Partitions(TableIn[written[1]]))
                                 /\ options.pre = "full"
                                      /\ sidecar.hash # NoHash =>
                                      sidecar.hash = written
      BY DEF TargetIsDescribed
    <2>1. SubSeq(medium[target], 1, Written) = hash
      BY TargetPrefix DEF SuccessInv
    <2>2. Described(hash)
      BY DEF DescribedInv, SuccessInv
    <2> QED BY <2>1, <2>2 DEF Described, SidecarAgrees, Written
  <1> QED BY <1>1, <1>2, <1>3, DescribedKept, Invariance, SuccessStarts, PTL
             DEF Spec
-----------------------------------------------------------------------------
(* Types *)

TypesInv ==
  /\ options \in Options /\ sidecar \in Sidecars
  /\ \A m \in mounts : m.disk \in Disks /\ m.target \in Targets
  /\ log \in {"none", "open", "success", "failure"}

\* Mounts are only taken away.
LEMMA MountsShrink ==
  ASSUME [Next]_vars
  PROVE  mounts' \subseteq mounts
  <1>1. CASE Program
    <2>1. UNCHANGED mounts \/ Quiesce
      BY <1>1 DEF Program, ReadSidecar, HashFile, Decode, Discover, Revalidate,
         OpenLog, OpenTarget, Stream, StreamEnds, Sync, Reread, Partprobe,
         LogResult, disks
    <2>2. CASE Quiesce
      BY <2>2 DEF Quiesce, MountsOf, RootMounts
    <2> QED BY <2>1, <2>2
  <1>2. CASE Environment \/ Finished \/ UNCHANGED vars
    BY <1>2 DEF Environment, ReplaceImage, SwapDisk, Damage, Killed, PowerLoss,
       Finished, vars, disks
  <1> QED BY <1>1, <1>2 DEF Next

\* For all disks, images and metadata: the run keeps its types, the disks their
\* sizes, and no more is written than was inspected.
THEOREM FlashTypes ==
  ASSUME Assumptions
  PROVE  Spec => []TypeOK
  <1>1. Init => TypesInv
    <2> SUFFICES ASSUME Init PROVE TypesInv
      OBVIOUS
    <2>1. /\ mounts = UNION {{[target |-> m[1], disk |-> d, subtree |-> m[2]] :
                                m \in d.mounted} : d \in plugged}
          /\ options \in Options /\ sidecar \in Sidecars /\ log = "none"
      BY DEF Init
    <2>2. plugged \subseteq Disks
      BY InvStarts DEF Inv, PathInv
    <2>3. \A m \in mounts : m.disk \in Disks /\ m.target \in Targets
      BY <2>1, <2>2, MountsAssumption
    <2> QED BY <2>1, <2>3 DEF TypesInv
  <1>2. TypesInv /\ [Next]_vars => TypesInv'
    <2> SUFFICES ASSUME TypesInv, [Next]_vars PROVE TypesInv'
      OBVIOUS
    <2>1. UNCHANGED <<options, sidecar>>
      BY DEF Next, Program, Environment, Finished, vars, ReadSidecar, HashFile,
         Decode, Discover, Revalidate, Quiesce, OpenLog, OpenTarget, Stream,
         StreamEnds, Sync, Reread, Partprobe, LogResult, ReplaceImage, SwapDisk,
         Damage, Killed, PowerLoss, file
    <2>2. log' \in {log, "none", "open", "success", "failure"}
      BY DEF Next, Program, Environment, Finished, vars, ReadSidecar, HashFile,
         Decode, Discover, Revalidate, Quiesce, OpenLog, OpenTarget, Stream,
         StreamEnds, Sync, Reread, Partprobe, LogResult, ReplaceImage, SwapDisk,
         Damage, Killed, PowerLoss
    <2> QED BY <2>1, <2>2, MountsShrink DEF TypesInv
  <1>3. Inv /\ TypesInv => TypeOK
    <2> SUFFICES ASSUME Inv, TypesInv PROVE TypeOK
      OBVIOUS
    <2>1. /\ options \in Options /\ image \in Images /\ sidecar \in Sidecars
          /\ plugged \subseteq Disks
          /\ \A m \in mounts : m.disk \in Disks /\ m.target \in Targets
          /\ log \in {"none", "open", "success", "failure"}
      BY DEF TypesInv, Inv, PathInv
    <2>2. \A d \in Disks : /\ Len(content[d]) = Len(d.blocks)
                           /\ Len(medium[d]) = Len(d.blocks)
      BY DEF Inv, WriteInv, Untouched, TailKept, Assumptions, DisksReported
    <2>3. /\ inspected.bytes \in Nat /\ Written <= inspected.bytes
          /\ selected \in Disks \cup {NoDisk}
          /\ target \in Disks \cup {NoDisk}
      BY DEF Inv, SelectInv, WriteInv
    <2>4. pc \in Ended \cup {"start", "hash", "decode", "discover", "revalidate",
            "quiesce", "log", "open", "stream", "sync", "reread", "partprobe",
            "logSuccess", "logFailure"}
      BY DEF Inv, SelectInv, Steps, Searching, Looked, Opened, Ended
    <2> QED BY <2>1, <2>2, <2>3, <2>4 DEF TypeOK
  <1> QED BY <1>1, <1>2, <1>3, Invariance, PTL DEF Spec
-----------------------------------------------------------------------------
(* Disks of the running system *)

\* The disk found at the second look is not one of them, unless the root
\* directory is on a subtree of it, and behind the third there is no mount of
\* the root directory at all.
Spared(d) == ~d.swap /\ \A m \in RootMounts(d) : m.subtree

GuardInv ==
  /\ pc \in Looked \/ target # NoDisk => Spared(selected)
  /\ pc \in Looked \ {"quiesce"} \/ target # NoDisk =>
       RootMounts(selected) = {}

\* What is offered is spared.
LEMMA OfferedIsSpared ==
  ASSUME NEW d \in Offered
  PROVE  Spared(d)
  <1>1. ~d.swap /\ d \notin InUse(mounts, NoOutput)
    BY DEF Offered, AtPath, Candidates
  <1>2. ASSUME NEW m \in RootMounts(d), ~m.subtree PROVE FALSE
    <2>1. /\ m \in TopOfTree(mounts) /\ ~m.subtree /\ m.target = "/"
          /\ m.disk = d
      BY <1>2 DEF RootMounts, MountsOf, TopOfTree
    <2>2. d \in InUse(mounts, NoOutput)
      BY <2>1 DEF InUse
    <2> QED BY <1>1, <2>2
  <1> QED BY <1>1, <1>2 DEF Spared

\* It stays so: mounts are only taken away.
LEMMA GuardKept ==
  ASSUME Assumptions, Inv, GuardInv, [Next]_vars
  PROVE  GuardInv'
  <1>1. ASSUME UNCHANGED selected
        PROVE  /\ Spared(selected) => Spared(selected)'
               /\ RootMounts(selected) = {} => RootMounts(selected)' = {}
    BY <1>1, MountsShrink DEF Spared, RootMounts, MountsOf
  <1>2. CASE Revalidate
    <2>1. /\ pc = "revalidate" /\ UNCHANGED <<selected, target, mounts>>
          /\ \/ pc' = "failed"
             \/ /\ pc' = "quiesce"
                /\ \E d \in Offered : SameIdentity(selected.identity, d.identity)
      BY <1>2 DEF Revalidate, disks, progress, Goto
    <2>2. target = NoDisk
      BY <2>1 DEF Inv, SelectInv
    <2>3. CASE pc' = "quiesce"
      <3>1. PICK d \in Offered : SameIdentity(selected.identity, d.identity)
        BY <2>1, <2>3
      <3>2. d \in Disks /\ selected \in Disks
        BY <2>1 DEF Offered, AtPath, Candidates, Inv, PathInv, SelectInv
      <3>3. selected = d
        BY <3>1, <3>2 DEF SameIdentity, Assumptions, DisksReported
      <3>4. Spared(selected)
        BY <3>1, <3>3, OfferedIsSpared
      <3> QED BY <1>1, <2>1, <2>2, <2>3, <3>4 DEF GuardInv
    <2>4. CASE pc' = "failed"
      BY <2>1, <2>2, <2>4 DEF GuardInv, Looked
    <2> QED BY <2>1, <2>3, <2>4
  <1>3. CASE ReadSidecar \/ HashFile \/ Decode \/ Discover
    <2>1. /\ pc' \in {"hash", "decode", "discover", "revalidate", "failed"}
          /\ pc \in Searching /\ target' = target
      BY <1>3 DEF ReadSidecar, HashFile, Decode, Discover, Goto, Fail, progress,
         Searching
    <2>2. target' = NoDisk
      BY <2>1 DEF Inv, SelectInv
    <2> QED BY <2>1, <2>2 DEF GuardInv, Looked
  <1>4. CASE Quiesce
    <2>1. UNCHANGED <<selected, target>> /\ pc = "quiesce"
      BY <1>4 DEF Quiesce, progress
    <2>2. /\ target = NoDisk /\ Spared(selected)
          /\ selected \in AtPath(plugged, Path)
      BY <2>1 DEF GuardInv, Looked, Inv, SelectInv
    <2>3. pc' = "failed" \/ (pc' = "log" /\ Remaining(selected) = {})
      BY <1>4, <2>2 DEF Quiesce, Goto, Fail, Inv, PathInv
    <2>4. pc' = "log" => RootMounts(selected)' = {}
      BY <2>1, <2>3 DEF Remaining, RootMounts
    <2> QED BY <1>1, <2>1, <2>2, <2>3, <2>4 DEF GuardInv, Looked
  <1>5. CASE OpenLog \/ OpenTarget
    <2>1. UNCHANGED selected /\ pc \in Looked \ {"quiesce"}
      BY <1>5 DEF OpenLog, OpenTarget, progress, Looked
    <2> QED BY <1>1, <2>1 DEF GuardInv
  <1>6. CASE \/ Stream \/ StreamEnds \/ Sync \/ Reread \/ Partprobe \/ LogResult
             \/ Environment \/ Finished \/ UNCHANGED vars
    <2>1. UNCHANGED <<selected, target>>
      BY <1>6 DEF Stream, StreamEnds, Sync, Reread, Partprobe, LogResult,
         Environment, ReplaceImage, SwapDisk, Damage, Killed, PowerLoss,
         Finished, vars, progress
    <2>2. pc' \in Looked => pc' = pc
      BY <1>6 DEF Stream, StreamEnds, Sync, Reread, Partprobe, LogResult,
         Environment, ReplaceImage, SwapDisk, Damage, Killed, PowerLoss,
         Finished, vars, Goto, Fail, FailLogged, Looked
    <2> QED BY <1>1, <2>1, <2>2 DEF GuardInv
  <1> QED BY <1>2, <1>3, <1>4, <1>5, <1>6 DEF Next, Program

\* For all disks and mounts: no step writes to a disk with swap or the root
\* directory, and none but a power loss takes a mount of it away, although
\* disks are exchanged up to the second look and then known by their path.
\* Mounts are not kept if the root directory is a subtree of its filesystem.
THEOREM HostIsKept ==
  ASSUME Assumptions
  PROVE  Spec => RootAndSwapKept
  <1> DEFINE Unharmed ==
        \A d \in plugged \cap plugged' :
          /\ d.swap \/ RootMounts(d) # {} => content'[d] = content[d]
          /\ d.swap \/ (\E m \in RootMounts(d) : ~m.subtree) =>
               MountsOf(mounts, d) \subseteq mounts' \/ pc' = "dead"
  <1>1. Init => GuardInv
    BY DEF Init, GuardInv, Looked
  <1>2. Inv /\ GuardInv /\ [Next]_vars => GuardInv'
    BY GuardKept
  <1>3. Inv /\ GuardInv /\ [Next]_vars => Unharmed
    <2> SUFFICES ASSUME Inv, GuardInv, [Next]_vars,
                        NEW d \in plugged \cap plugged'
                 PROVE  /\ d.swap \/ RootMounts(d) # {} =>
                             content'[d] = content[d]
                        /\ ~Spared(d) =>
                             \/ MountsOf(mounts, d) \subseteq mounts'
                             \/ pc' = "dead"
      BY DEF Spared
    <2>1. d \in Disks
      BY DEF Inv, PathInv
    <2>2. ASSUME d.swap \/ RootMounts(d) # {} PROVE content'[d] = content[d]
      <3>1. target # d
        BY <2>1, <2>2 DEF GuardInv, Spared, Inv, SelectInv, Assumptions,
           DisksReported
      <3>2. CASE Stream
        <4>1. content' = content
                \/ content' = [content EXCEPT ![target][Written + 1] =
                                 image.blocks[Written + 1]]
          BY <3>2 DEF Stream
        <4> QED BY <2>1, <3>1, <4>1 DEF Inv, WriteInv
      <3>3. CASE PowerLoss
        <4>1. PICK kept \in SUBSET (1..(Written + 1)) :
                medium' = [e \in Disks |->
                  [i \in DOMAIN medium[e] |->
                     IF e = target /\ i \in kept THEN content[e][i]
                                                 ELSE medium[e][i]]]
          BY <3>3 DEF PowerLoss
        <4>2. medium'[d] = [i \in DOMAIN medium[d] |-> medium[d][i]]
          BY <2>1, <3>1, <4>1
        <4>3. medium[d] \in Seq(Blocks)
          BY <2>1 DEF Inv, WriteInv
        <4>4. medium'[d] = medium[d]
          BY <4>2, <4>3
        <4>5. medium[d] = content[d]
          BY <2>1, <3>1 DEF Inv, WriteInv, Untouched
        <4>6. content' = medium'
          BY <3>3 DEF PowerLoss
        <4> QED BY <4>4, <4>5, <4>6
      <3>4. CASE ~Stream /\ ~PowerLoss
        BY <3>4 DEF Next, Program, Environment, Finished, vars, ReadSidecar,
           HashFile, Decode, Discover, Revalidate, Quiesce, OpenLog, OpenTarget,
           StreamEnds, Sync, Reread, Partprobe, LogResult, ReplaceImage,
           SwapDisk, Damage, Killed, disks
      <3> QED BY <3>2, <3>3, <3>4
    <2>3. ASSUME ~Spared(d)
          PROVE  MountsOf(mounts, d) \subseteq mounts' \/ pc' = "dead"
      <3>1. CASE Quiesce
        <4>1. pc = "quiesce" /\ selected \in AtPath(plugged, Path)
          BY <3>1 DEF Quiesce, Inv, SelectInv, Looked
        <4>2. \A e \in AtPath(plugged, Path) : e = selected
          BY <4>1 DEF Inv, PathInv
        <4>3. Spared(selected)
          BY <4>1 DEF GuardInv, Looked
        <4>4. (mounts \ MountsOf(mounts, selected)) \subseteq mounts'
          BY <3>1, <4>2 DEF Quiesce
        <4> QED BY <2>3, <4>3, <4>4 DEF MountsOf
      <3>2. CASE SwapDisk
        <4>1. PICK gone \in AtPath(plugged, Path),
                   other \in AtPath(Disks \ plugged, Path) :
                /\ plugged' = (plugged \ {gone}) \cup {other}
                /\ mounts' = mounts \ MountsOf(mounts, gone)
          BY <3>2 DEF SwapDisk
        <4>2. d # gone
          BY <4>1 DEF AtPath
        <4> QED BY <4>1, <4>2 DEF MountsOf
      <3>3. CASE PowerLoss
        BY <3>3 DEF PowerLoss, Goto
      <3>4. CASE ~Quiesce /\ ~SwapDisk /\ ~PowerLoss
        <4>1. mounts' = mounts
          BY <3>4 DEF Next, Program, Environment, Finished, vars, ReadSidecar,
             HashFile, Decode, Discover, Revalidate, OpenLog, OpenTarget, Stream,
             StreamEnds, Sync, Reread, Partprobe, LogResult, ReplaceImage,
             Damage, Killed, disks
        <4> QED BY <4>1 DEF MountsOf
      <3> QED BY <3>1, <3>2, <3>3, <3>4
    <2> QED BY <2>2, <2>3
  <1>4. Inv /\ GuardInv /\ [Next]_vars => [Unharmed]_vars
    BY <1>3
  <1> QED BY <1>1, <1>2, <1>4, Invariance, PTL DEF Spec, RootAndSwapKept
=============================================================================
