------------------------------ MODULE FlashRun ------------------------------
(***************************************************************************)
(* One flash of an image to a disk: run_with_progress of the command line  *)
(* program with inspect_image and flash_image of the pipeline.  The image  *)
(* file is read three times (hashed, decoded, decoded while written), the  *)
(* disk is looked up twice and then opened by its path, and reopened by it *)
(* for the verification; meanwhile others may replace the image, exchange  *)
(* disks, and the process or the machine may stop.                         *)
(*                                                                         *)
(* An image and a disk are sequences of blocks of one sector, a hash is    *)
(* the sequence it was computed from.  Block 1 stands for the table that   *)
(* TableIn gives for it.                                                   *)
(***************************************************************************)
EXTENDS StorageGeometry, Discovery, Sequences

CONSTANTS
  Disks,           \* disks there are, see Discovery; each with its blocks,
                   \* and with its mounts: targets, and whether a subtree
  Images,          \* what may be in the image file: blocks, and whether the
                   \* encoding is sound
  Sidecars,        \* what may be in its metadata file, NoSidecar among them
  Options,         \* pre, post and confirmed model
  TableIn,         \* the table a first block holds
  Signed,          \* blocks with an MBR signature
  EfiHeader,       \* the block a GPT has second
  Damaged,         \* what a block becomes when the medium fails
  SwapsAt,         \* steps before which disks may be exchanged
  MaxFaults,       \* bound on failing operations, kills and power losses
  MaxSwaps,        \* bound on exchanges of disks
  MaxReplacements, \* bound on replacements of the image
  MaxDamages,      \* bound on blocks damaged on the medium
  NoSidecar, NoHash, NoDisk

ASSUME MountsAssumption ==
  \A d \in Disks : \A m \in d.mounted : m[1] \in Targets

Path == "sda"

Nothing == [bytes |-> 0, hash |-> << >>]

VARIABLES
  options,    \* of this run
  image,      \* what is in the image file now
  sidecar,    \* what is in its metadata file
  plugged,    \* the disks there are now
  mounts,     \* the mount table
  content,    \* blocks of each disk, as they are read through the cache
  medium,     \* blocks of each disk, as a power loss leaves them
  pc,         \* what the run does next
  inspected,  \* decoded length and hash of the image
  selected,   \* the disk found at the path
  target,     \* the disk that was opened
  hash,       \* blocks written so far
  log,        \* result in the log file
  faults, swaps, replacements, damages

file == <<image, sidecar>>
disks == <<plugged, mounts, content, medium>>
progress == <<inspected, selected, target, hash>>
bounds == <<faults, swaps, replacements, damages>>
vars == <<options, file, disks, pc, progress, log, bounds>>

Ended == {"done", "failed", "dead"}

\* The root directory is on the disk at the path or on one elsewhere.
HoldsRoot(d) == \E m \in d.mounted : m[1] = "/"

Init ==
  /\ options \in Options
  /\ image \in Images
  /\ sidecar \in Sidecars
  /\ \E d \in AtPath(Disks, Path) :
       plugged = {d} \cup IF HoldsRoot(d) THEN {}
                          ELSE {e \in Disks : HoldsRoot(e) /\ e.path # Path}
  /\ mounts = UNION {{[target |-> m[1], disk |-> d, subtree |-> m[2]] :
                        m \in d.mounted} : d \in plugged}
  /\ content = [d \in Disks |-> d.blocks] /\ medium = content
  /\ pc = "start"
  /\ inspected = Nothing /\ selected = NoDisk /\ target = NoDisk
  /\ hash = << >>
  /\ log = "none"
  /\ faults = 0 /\ swaps = 0 /\ replacements = 0 /\ damages = 0

Goto(step) == pc' = step
NoFault == UNCHANGED bounds
Fault ==
  /\ faults < MaxFaults /\ faults' = faults + 1
  /\ UNCHANGED <<swaps, replacements, damages>>

\* An error return of the run, and one of flash_image, which is logged first.
Fail == Goto("failed")
FailLogged == Goto("logFailure")
-----------------------------------------------------------------------------
(* inspect_image *)

ReadSidecar ==
  /\ pc = "start"
  /\ Goto(IF sidecar # NoSidecar /\ ~sidecar.matches THEN "failed"
          ELSE IF options.pre = "full" THEN "hash" ELSE "decode")
  /\ UNCHANGED <<options, file, disks, progress, log, bounds>>

HashFile ==
  /\ pc = "hash"
  /\ IF sidecar = NoSidecar \/ sidecar.compressed = image
     THEN Goto("decode") ELSE Fail
  /\ UNCHANGED <<options, file, disks, progress, log, bounds>>

TableAccepted(blocks) ==
  /\ blocks # << >>
  /\ ParseAccepts(blocks[1] \in Signed,
                  Len(blocks) >= 2 /\ blocks[2] = EfiHeader,
                  TableIn[blocks[1]], Len(blocks))

\* What the metadata tells of a partition.
Announced(parts) == {<<p.number, p.type, p.start, p.end>> : p \in parts}

SidecarAgrees(blocks) ==
  sidecar # NoSidecar =>
    /\ sidecar.raw = Len(blocks)
    /\ options.pre = "full" /\ sidecar.hash # NoHash => sidecar.hash = blocks
    /\ options.pre # "none" /\ sidecar.partitions # {} =>
         sidecar.partitions = Announced(Partitions(TableIn[blocks[1]]))

Inspection(blocks) == [bytes |-> Len(blocks), hash |-> blocks]

Decode ==
  /\ pc = "decode"
  /\ IF /\ image.sound
        /\ options.pre # "none" => TableAccepted(image.blocks)
        /\ SidecarAgrees(image.blocks)
     THEN inspected' = Inspection(image.blocks) /\ Goto("discover")
     ELSE UNCHANGED inspected /\ Fail
  /\ UNCHANGED <<options, file, disks, selected, target, hash, log, bounds>>
-----------------------------------------------------------------------------
(* run_with_progress up to the write *)

Offered == AtPath(Candidates(plugged, mounts, NoOutput), Path)

Fits(d) == d.identity.size >= inspected.bytes

Discover ==
  /\ pc = "discover"
  /\ \/ \E d \in Offered : /\ d.identity.model = options.model
                           /\ Fits(d)
                           /\ selected' = d
                           /\ Goto("revalidate")
     \/ /\ ~\E d \in Offered : d.identity.model = options.model /\ Fits(d)
        /\ UNCHANGED selected /\ Fail
  /\ UNCHANGED <<options, file, disks, inspected, target, hash, log, bounds>>

Revalidate ==
  /\ pc = "revalidate"
  /\ Goto(IF \E d \in Offered : SameIdentity(selected.identity, d.identity)
          THEN "quiesce" ELSE "failed")
  /\ UNCHANGED <<options, file, disks, progress, log, bounds>>

\* The root directory of the running system cannot be unmounted: umount makes
\* it read-only or fails, and it is still there.
RootMounts(d) == {m \in MountsOf(mounts, d) : m.target = "/"}

\* Mutant: the mounts are not read again.
NothingRemains(d) == {}

Remaining(d) == MountsOf(mounts', d)

\* The mounts of the disk at the path are unmounted, one after the other, and
\* then read again.
Quiesce ==
  /\ pc = "quiesce"
  /\ \E d \in AtPath(plugged, Path) :
       \/ /\ Occupied(d)
          /\ Fail /\ NoFault /\ UNCHANGED mounts
       \/ /\ ~Occupied(d)
          /\ mounts' = (mounts \ MountsOf(mounts, d)) \cup RootMounts(d)
          /\ Goto(IF Remaining(d) = {} THEN "log" ELSE "failed") /\ NoFault
       \/ /\ Fault /\ Fail
          /\ \E left \in SUBSET MountsOf(mounts, d) :
               mounts' = (mounts \ MountsOf(mounts, d)) \cup RootMounts(d)
                           \cup left
  /\ UNCHANGED <<options, file, plugged, content, medium, progress, log>>

OpenLog ==
  /\ pc = "log"
  /\ \/ Goto("open") /\ log' = "open" /\ NoFault
     \/ Fail /\ Fault /\ UNCHANGED log
  /\ UNCHANGED <<options, file, disks, progress>>
-----------------------------------------------------------------------------
(* flash_image *)

\* The disk opened is the one at the path now; its size is not read again.
OpenTarget ==
  /\ pc = "open"
  /\ \/ /\ selected.identity.size >= inspected.bytes
        /\ \E d \in AtPath(plugged, Path) : target' = d
        /\ Goto("stream") /\ NoFault
     \/ /\ \/ selected.identity.size < inspected.bytes /\ NoFault
           \/ Fault
        /\ FailLogged /\ UNCHANGED target
  /\ UNCHANGED <<options, file, disks, inspected, selected, hash, log>>

Written == Len(hash)

AtEnd == Written >= Len(image.blocks)

\* Mutant: the length is only compared at the end.
NeverTooLong == FALSE

TooLong == Written + 1 > inspected.bytes

\* The next block is read from whatever is in the file by now, and written;
\* a failing write may have had its effect or not.
Stream ==
  /\ pc = "stream" /\ ~AtEnd
  /\ LET block == image.blocks[Written + 1]
         after == [content EXCEPT ![target][Written + 1] = block]
     IN  \/ /\ ~TooLong /\ Written < Len(content[target])
            /\ content' = after
            /\ hash' = Append(hash, block)
            /\ UNCHANGED pc /\ NoFault
         \/ /\ TooLong \/ Written >= Len(content[target])
            /\ FailLogged /\ NoFault /\ UNCHANGED <<content, hash>>
         \/ /\ ~TooLong /\ Written < Len(content[target])
            /\ Fault /\ FailLogged
            /\ content' \in {content, after}
            /\ UNCHANGED hash
  /\ UNCHANGED <<options, file, plugged, mounts, medium, inspected, selected,
                 target, log>>

\* The end of a stream, which the decoder only accepts of a sound encoding.
StreamEnds ==
  /\ pc = "stream" /\ AtEnd
  /\ Goto(IF image.sound /\ Written = inspected.bytes
          THEN "sync" ELSE "logFailure")
  /\ UNCHANGED <<options, file, disks, progress, log, bounds>>

\* Mutant: the hash of what was inspected is not asked for.
AnyHash == TRUE

HashExpected == inspected.hash = hash

Synced(d) == [medium EXCEPT ![d] = content[d]]

Sync ==
  /\ pc = "sync"
  /\ \/ /\ medium' = Synced(target)
        /\ Goto(IF ~HashExpected THEN "logFailure"
                ELSE IF options.post = "full" THEN "reread" ELSE "partprobe")
        /\ NoFault
     \/ Fault /\ FailLogged /\ UNCHANGED medium
  /\ UNCHANGED <<options, file, plugged, mounts, content, progress, log>>

\* Mutant: what the cache holds is hashed.
CachedPrefix(d) == SubSeq(content[d], 1, Written)

\* The target was closed before: the disk at the path is read from its
\* medium.
RereadPrefix(d) == SubSeq(medium[d], 1, Written)

Reread ==
  /\ pc = "reread"
  /\ \/ \E d \in AtPath(plugged, Path) :
          /\ Goto(IF RereadPrefix(d) = hash THEN "partprobe" ELSE "logFailure")
          /\ NoFault
     \/ Fault /\ FailLogged
  /\ UNCHANGED <<options, file, disks, progress, log>>
-----------------------------------------------------------------------------
(* The end of run_with_progress *)

\* A partition table that cannot be reread ends the run without a result.
Partprobe ==
  /\ pc = "partprobe"
  /\ \/ Goto("logSuccess") /\ NoFault
     \/ Fault /\ Fail
  /\ UNCHANGED <<options, file, disks, progress, log>>

LogResult ==
  LET result == IF pc = "logSuccess" THEN "success" ELSE "failure"
  IN  /\ pc \in {"logSuccess", "logFailure"}
      /\ \/ /\ log' = result /\ NoFault
            /\ Goto(IF pc = "logSuccess" THEN "done" ELSE "failed")
         \/ Fault /\ Fail /\ log' \in {log, result}
      /\ UNCHANGED <<options, file, disks, progress>>
-----------------------------------------------------------------------------
(* The environment *)

ReplaceImage ==
  /\ replacements < MaxReplacements /\ replacements' = replacements + 1
  /\ pc \notin Ended
  /\ \E other \in Images \ {image} : image' = other
  /\ UNCHANGED <<options, sidecar, disks, pc, progress, log, faults, swaps,
                 damages>>

\* The disk at the path is unplugged and another plugged in.
SwapDisk ==
  /\ swaps < MaxSwaps /\ swaps' = swaps + 1
  /\ pc \in SwapsAt
  /\ \E gone \in AtPath(plugged, Path), other \in AtPath(Disks \ plugged, Path) :
       /\ plugged' = (plugged \ {gone}) \cup {other}
       /\ mounts' = mounts \ MountsOf(mounts, gone)
  /\ UNCHANGED <<options, file, content, medium, pc, progress, log, faults,
                 replacements, damages>>

\* A block did not reach the medium as it was written (docs/safety.md:
\* unreliable USB bridges), which only shows when the medium is read.
Damage ==
  /\ damages < MaxDamages /\ damages' = damages + 1
  /\ pc = "reread" \/ (pc = "partprobe" /\ options.post = "none")
  /\ \E i \in 1..Written : medium' = [medium EXCEPT ![target][i] = Damaged]
  /\ UNCHANGED <<options, file, plugged, mounts, content, pc, progress, log,
                 faults, swaps, replacements>>

\* No handler is installed: SIGINT and SIGTERM end the run as SIGKILL does.
Killed ==
  /\ pc \notin Ended
  /\ Fault /\ Goto("dead")
  /\ UNCHANGED <<options, file, disks, progress, log>>

\* Blocks not synced may be on the medium or not; the log as well.
PowerLoss ==
  /\ pc # "dead"
  /\ Fault /\ Goto("dead")
  /\ \E kept \in SUBSET (1..(Written + 1)) :
       medium' = [d \in Disks |->
         [i \in DOMAIN medium[d] |->
            IF d = target /\ i \in kept THEN content[d][i] ELSE medium[d][i]]]
  /\ content' = medium'
  /\ mounts' = {}
  /\ log' \in IF pc = "done" THEN {log} ELSE {log, "none"}
  /\ UNCHANGED <<options, file, plugged, progress>>
-----------------------------------------------------------------------------
Program ==
  \/ ReadSidecar \/ HashFile \/ Decode \/ Discover \/ Revalidate \/ Quiesce
  \/ OpenLog \/ OpenTarget \/ Stream \/ StreamEnds \/ Sync \/ Reread
  \/ Partprobe \/ LogResult

Environment == ReplaceImage \/ SwapDisk \/ Damage \/ Killed \/ PowerLoss

Finished == pc \in Ended /\ UNCHANGED vars

Next == Program \/ Environment \/ Finished

Spec == Init /\ [][Next]_vars
-----------------------------------------------------------------------------
(* Properties. *)

\* Every variable of the flash has its type.
TypeOK ==
  /\ options \in Options /\ image \in Images /\ sidecar \in Sidecars
  /\ plugged \subseteq Disks
  /\ \A m \in mounts : m.disk \in Disks /\ m.target \in Targets
  /\ \A d \in Disks : /\ Len(content[d]) = Len(d.blocks)
                      /\ Len(medium[d]) = Len(d.blocks)
  /\ pc \in Ended \cup {"start", "hash", "decode", "discover", "revalidate",
       "quiesce", "log", "open", "stream", "sync", "reread", "partprobe",
       "logSuccess", "logFailure"}
  /\ inspected.bytes \in Nat
  /\ selected \in Disks \cup {NoDisk} /\ target \in Disks \cup {NoDisk}
  /\ Written <= inspected.bytes
  /\ log \in {"none", "open", "success", "failure"}

\* Disks the run has changed, in the cache or on the medium.
Changed == {d \in Disks : content[d] # d.blocks \/ medium[d] # d.blocks}

\* The disk that is written is the one with the confirmed model and enough
\* room that was looked up, although another may be at its path by then.  Its
\* blocks behind the inspected length keep what they held, also when a longer
\* image has replaced the inspected one.
OnlySelectedDiskWritten ==
  \A d \in Changed : /\ d = selected
                     /\ d.identity.model = options.model
                     /\ Len(d.blocks) >= inspected.bytes
                     /\ \A i \in DOMAIN d.blocks :
                          i > inspected.bytes => /\ content[d][i] = d.blocks[i]
                                                 /\ medium[d][i] = d.blocks[i]

Kept == damages = 0 \/ options.post = "full"

\* A success in the log, also after a power loss, means that the medium of
\* the target holds the image that was inspected, whatever was in its file
\* while it was written; with verification of the target also when blocks
\* were damaged on their way.
SuccessIsInspected ==
  log = "success" /\ Kept => SubSeq(medium[target], 1, Written) = inspected.hash

\* What the target holds after a success is what the metadata says, to the
\* extent the pre-verification promises: the announced partitions, in a table
\* that is valid for the blocks written, and at the full level the announced
\* hash, although the image file was read at three different times.
TargetIsDescribed ==
  log = "success" /\ Kept =>
    LET written == SubSeq(medium[target], 1, Written)
    IN  /\ options.pre # "none" => TableAccepted(written)
        /\ sidecar # NoSidecar =>
             /\ sidecar.raw = Written
             /\ options.pre # "none" /\ sidecar.partitions # {} =>
                  sidecar.partitions = Announced(Partitions(TableIn[written[1]]))
             /\ options.pre = "full" /\ sidecar.hash # NoHash =>
                  sidecar.hash = written

\* docs/safety.md: the disk of the running system's root directory and the
\* disks with active swap are excluded.  While such a disk is plugged in, no
\* step but a power loss takes one of its mounts away, and none at all writes
\* to it.  A root directory that is a subtree of its filesystem excludes no
\* disk (see InUse): other mounts of that disk may be taken away, and only the
\* second look at the mounts keeps it from being written.
RootAndSwapKept ==
  [][\A d \in plugged \cap plugged' :
       /\ d.swap \/ RootMounts(d) # {} => content'[d] = content[d]
       /\ d.swap \/ (\E m \in RootMounts(d) : ~m.subtree) =>
            MountsOf(mounts, d) \subseteq mounts' \/ pc' = "dead"]_vars

\* docs/safety.md: "The running system's root/boot disk, active swap disks,
\* and the output filesystem's disk are excluded."  No disk with the root or
\* boot directory of the running system is ever changed.
HostDisksKept ==
  \A d \in Changed : \A m \in d.mounted : m[1] \notin {"/", "/boot"}
=============================================================================
