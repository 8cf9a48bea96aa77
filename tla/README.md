# Verification of rust-imager

rust-imager images a Linux card over USB.  It analyses the partition table,
shrinks the final ext4 root filesystem and its partition *on the source*,
copies the used range through a compressor, verifies it and writes metadata.
It can also flash such an image to a disk, and installs a service that expands
the root on the first boot of the restored image.

This directory holds TLA+ models of that program, the TLC configurations that
check them, and TLAPS proofs of some of their properties.  Paths below are
relative to `src/`; a crate `rust-imager-x` is written `x`.

## Inventory

| Component | State it keeps | Operations | Hard part | What makes it correct |
|---|---|---|---|---|
| Tables, profiles, planning (`core/src/{mbr,profile,plan,filesystem}.rs`) | none | `parse_mbr`, `classify_layout`, `build_plan` | rounding, inclusive ends, overflow, order of entries | only well-formed tables; the root is last; a plan fits the disk and can be carried out |
| Source inspection (`linux/src/inspect.rs`) | temporary mounts | read MBR, read ext4 geometry, mount each partition | failing unmount | evidence is that of the partition |
| Discovery (`linux/src/discovery.rs`) | none | `discover_candidates`, `revalidate_identity` | shape of lsblk and findmnt output, identity changing between looks | disks in use are never offered |
| Quiescence (`linux/src/quiescence.rs`) | the mount table of the host | `quiesce_disk` | several mounts, automounter | nothing mounted, no swap, no holders |
| Shrink transaction (`linux/src/{shrink,tools}.rs`) | the source disk | ten stages in fixed order | each stage may fail, no rollback, crash, repetition | the partition holds the filesystem at every moment; success is as planned |
| Command runner (`linux/src/command.rs`) | child processes, two pipes | `run` under `setsid` and `timeout(1)` | full pipes, commands that hang or ignore SIGTERM, a timed-out command may have had its effect | every call ends, and not before its command; success means the work was done |
| Extraction (`pipeline/src/extract.rs`) | bounded channel, `.partial` and final file | reader thread, encoder thread, sync, rename | two threads, back pressure, error on either side, crash | the image appears whole or not at all; hash of what was copied; the call ends |
| Verification, metadata (`pipeline/src/verify.rs`, `core/src/metadata.rs`) | sidecar files | `verify_image`, `write_sidecar` | changes between publishing and reading | metadata certifies the image |
| Imaging run (`cli/src/app.rs`) | log, stage, `source_modified`, signal handlers | validate, prepare, execute | concurrent runs, check-then-create, signals | one run at a time; the log tells the truth |
| Flashing (`pipeline/src/flash.rs`, `cli/src/flash.rs`) | target disk, log | inspect, look up, quiesce, write, sync, reread | image read three times, disk opened by path | only the confirmed disk is written; success means the inspected image is on it |
| First boot (`first-boot/`) | state file, assets on the card | install, grow partition, reboot, resize, clean up | interrupted anywhere, imaged again | finishes in the end, removes itself last |
| Wizard (`cli/src/wizard.rs`, `tui/src/model.rs`) | screen, `AppModel`, `FlashSetup` | keys of 6 image and 6 flash screens | going back to another device, disks exchanged between selection and start | the request is the one reviewed; nothing typed or shown for one device is taken for another |
| Dashboards (`cli/src/wizard.rs`, `tui/src/model.rs`) | worker thread, event channel, phase, a list of 8 events | `run_operation`, `run_flash_operation`, reducer | a worker that fails late or panics, a log that fails after `Complete`, a list that overflows | the operator is told how it ended; it does end |
| Drawing, argument parsing (`tui/src/{view,format,theme}.rs`, `cli/src/main.rs`) | none | | | not modelled: no state |

The run calls discovery, inspection and planning (`prepare`), the shrink
through `execute_shrink` with a backend that runs external commands, then
extraction, verification and metadata (`execute`), in this order and in one
thread.  Extraction adds a thread of its own.  Several runs meet in the files
next to the output and in the device; flashing meets the rest of the host in
the disk at a path; first boot meets the run through the assets and the state
file on the card.  The interactive program puts a wizard before the run, which
makes the request, and a dashboard around it: the run or the flash is then a
worker thread that sends events and its result through a channel.  Every
external command of every part goes through the command runner.

## Modules

* `StorageGeometry` has the pure decisions as operators: `ParseAccepts`,
  `Classify`, `PlanAccepted`/`Plan`, `PostShrinkAccepted`.  A sum or product
  above `MaxU64` is what `checked_add` and `checked_mul` refuse.
  `Analysis` runs them over all small inputs and compares them with reference
  definitions (`WellFormed`; a plan carried out by exact tools).
* `ShrinkTransaction` is `prepare` up to the plan and the ten stages of
  `LinuxShrinkBackend::perform`.  One action per stage, with its failed
  outcomes; the variables are the disk (table, the kernel's copy of it,
  filesystem, mounts, files) and the request.  `Abort` is every error return:
  it drops the temporary mount directory.  `LeavesMounted` says which of
  `mount` and `umount` may fail and leave the root mounted at that directory.
  `MCShrink` gives it disks.
* `ExtractPipeline` has one action per step of each thread; `main` and
  `reader` are their program counters, `queue` the channel.  `AtomicImage` is
  what a caller relies on (an output that is absent or complete, never
  reported before it is durable) and is implemented by it.  `MCExtract` gives
  it calls.
* `ImageRun` is `run_image_with_progress`, several times at once on one output:
  the five files, the log, signals, verification, metadata.  The shrink is two
  steps in it, the extraction the steps `AtomicImage` allows.
* `GrowRoot` is `rust-imager-grow-root.sh` command by command, on a machine
  that boots, restarts, loses power, and is imaged again.
* `Discovery` has the decisions about which disk is offered, which is quiet
  and when a disk is the same; `FlashRun` is a flash from end to end on top
  of it and of `StorageGeometry`.  `MCFlash` gives it disks, images, metadata.
* `Wizard` is the choice of the operation, `event_loop` with the reducer of
  `AppModel`, and `flash_event_loop`: one action per kind of key on each screen.
  `screen`, `model` and `setup` are theirs; `request` is what a wizard returns.
  A path is the position in the list found at the start, and `plugged` says
  which disk is there now.  `typedFor` and `seen` are history: the device the
  confirmation was typed for, and the disk that was analysed.  An output name
  is its text, the characters lost from it and its extension.
* `Dashboard` is `run_operation` and `run_flash_operation`: `main` is what the
  main thread does, `worker` the thread, `queue` the channel, `dash` what the
  reducer made of the events, `drawn` as it was drawn last.
* `Session` composes both with the worker and with disks that are exchanged.
  The worker is the order of its events, its looks at the disk and the first
  change to it (`ImageAfter`, `FlashAfter`); what it does in between is in the
  modules above.  `held` is the disk `prepare` found, `analysed` the one whose
  layout it then read; the later looks compare model and serial, which a card
  shares with any other in the same reader.  `MCSession` gives it disks, cards
  and names.
* `CommandRun` is `ProcessRunner::run` with the three processes that meet in
  two pipes: the caller, `timeout(1)` and the command.  `AtomicCommand` is what
  a stage relies on (no effect after the call returned, success only of a
  command that did its work), and is implemented by it.  `ShrinkTransaction`
  uses a command in this way: its effect and its end are one step, failed or
  not.
* `AnalysisProofs`, `ShrinkTransactionProofs`, `ExtractPipelineProofs`,
  `ImageRunProofs`, `GrowRootProofs`, `SessionProofs`, `CommandRunProofs` and
  `FlashRunProofs` hold the proofs.  The shrink's proofs extend `AnalysisProofs`
  for its lemmas about layouts and plans, which is why the variables and the
  specification of `Analysis` have names of their own (`mbr`, `AnalysisSpec`).

An operator whose comment begins with "Mutant:" is a plausible bug in the
definition that follows it; each property is known to fail with one of them.

### External tools, as they are assumed

`e2fsck` with repairs refuses a mounted filesystem, and one larger than the
partition the kernel knows.  `resize2fs` wants an unmounted and freshly checked
one, a target not below the minimum and not above the device, rounds down to
blocks and may trim a last group (one block here).  `sfdisk -N` keeps type and
boot flag and writes one sector, so its write is atomic.  `partprobe` fails on
a mounted partition.  A failed command may have had its effect or not: a
`mount` that was killed at its timeout may have mounted.  Linux refuses to mount
a device read-only that is mounted read-write elsewhere.  `umount` of the running
system's root directory makes it read-only or fails, and it is still there.
`remove_dir_all` of a mount point goes into the mounted tree.  `findmnt`
without `--list` prints a tree.  A file's content and its name are durable after
their own sync only.  A block device reopened after its last close is read from
the medium, not from the cache.  `timeout(1)` sends SIGTERM when the time is up
and SIGKILL to its process group, itself included, ten seconds later; it keeps
the ends of the pipes it was given, and passes on a status, dying of the signal
its command died of.  A command reports an accepted status only after its work.

## Runs

| Run | Question | Bounds |
|---|---|---|
| `ShrinkFaults` | Is the disk consistent after anything that can happen, and success as planned? | 2 runs, 2 faults, 1 foreign edit, an automounter at each step, 6 disks |
| `ShrinkRetries` | Can a failed shrink always be taken up again? | 3 runs past their plan, any number before it, 2 faults or crashes, a desktop that mounts before the first run and after each plan, 4 disks |
| `Analysis` | Do parser, classifier and planner decide as they are meant to? | all tables of 3 entries on 5 sectors, all contents, 7 sizes per plan input |
| `Extract` | Are threads, channel, files and crashes right together? | up to 6 blocks on a device of 5, depth 1 and 2, one fault, stop, rewrite and foreign file |
| `RunsCompete` | Can two runs on one output be told apart afterwards? | 2 runs, 2 faults, 1 signal |
| `GrowInterrupted` | Does the expansion end, whatever interrupts it? | 3 interruptions, 2 imagings |
| `Flash` | Is the right image on the right disk when a flash says so? | images of 2 and 3 blocks, 9 disks, one fault, exchange, replacement, damage |
| `Session` | Is what happens what was confirmed, and is it told how it ended? | two readers of one model listed, four disks and two other cards for the first reader, one exchange up to the last look, 4 reports of progress, one character cut off a name |
| `Command` | Does every call end, and mean what the stages take it for? | 0, 1 or 3 pieces of input, pipes of 2, five exit statuses |
| `ShrinkErasesRoot`, `GrowStuck`, `FlashHitsBoot` | each shows one disagreement below | as small as it shows |

Why the bounds are enough.  In `MCShrink` a sector has 2 bytes, a KiB 4, a block
8, the alignment is 16 and the margin 24, so that no unit divides a target by
accident; the disks cover both margins, the cap by the current size, a root
that is the first entry, an aligned end behind the old end of the partition, an
image that does not fit, and a root that is not last.  Two faults and two runs
let a second run meet each state the first can leave.  In `Extract` a depth of 1
and 2 with one to five buffers fills and drains the channel in every way, and a
range longer than the device ends early.  Two runs are what the log must keep
apart; three interruptions meet the expansion in both of its boots and in
cleanup.  In `Flash` the disks are good, small, of another model, held, with swap, with the
root directory, with one that is a subtree of its filesystem (as on btrfs), and the
host's own; an image shorter, longer, of the same length, damaged, with
a partition behind its end and with a GPT stand for the ways a file can have
changed.  In `Session` the two listed readers have the same model and differ in
layout, and those plugged in later are of the same model with another serial, of
another model, or other cards in the first reader, of an unknown layout and of one
that is refused, which nothing the engine compares tells from the card found; an exchange
may come on the device and review screens, and between any two looks of the engine, the
analysis among them.  The events of a run and 4 reports of progress are more than the
list of 8 holds, so that it would overflow if reports were listed; names are empty,
without extension, with one of the two compressors and with another.  In `Command`
input of 3 pieces does not fit the pipe of 2, and the statuses are success, the two
accepted by `e2fsck`, a failure, 124 of the command itself, and a program that is not
found.

Deadlock is checked everywhere but in `Analysis`, which stops at its verdict.

### Fairness

`ShrinkRetries`: a stage ends, since each command is run under `timeout(1)`, and
the operator unmounts and repeats a failed run (`docs/safety.md`, Recovery).  Runs
refused before their plan, as of a source the desktop has mounted, are not counted.
`Extract`: both threads are scheduled and system calls return.
`GrowInterrupted`: a started script goes on, and a card that is off or whose
service failed is booted again.  `Session`: the steps of the worker end, since each
command runs under a timeout and copying is bounded by the device; the main thread is
scheduled, and the operator closes a dashboard that is over.  The wizard itself is not
under fairness: the operator may leave it for ever.  `Command`: the caller is scheduled,
timers expire and what got SIGKILL dies; nothing is assumed of the command
otherwise.  No other run states fairness.

## What is proved

Every invariant, action property and refinement that a passing run checks is also
a theorem, listed in `PROJECT.json`; below is what each rests on.

**Analysis** (`AnalysisProofs`), for tables with any number of entries on a disk of
any size.  `parse_mbr` compares neighbours only: `ByStartSorts` shows that a layout
has an order by start, `NeighboursSuffice` that two partitions that overlap
anywhere in it leave neighbours that do.  So exactly the well-formed tables are
accepted, and the entry that ends last, being apart from all others, is also
the one that starts last: nothing lies behind the first sector of a root that
may be shrunk.  For every input of the planner, whatever its size, a plan it
accepts keeps to the device and to the space of the output, is aligned, and its
partition holds its filesystem; and tools that do exactly what it says end in a
disk that the validation accepts.  The arithmetic is in `PlanBounds` and in
lemmas about `AlignUp`, `ImageSectors` and `TargetKib`.

**Shrink** (`ShrinkTransactionProofs`), for every set of disks, every sector size,
alignment, margin and bound.

* The partition entry on the disk holds the filesystem in each reachable state, so
  after each crash; the request fits the disk from plan to end; the filesystem
  never grows.  `RootHoldsFilesystem` is not inductive: that `ResizePartition`
  keeps it depends on numbers computed many steps before.  `IInv` adds
  `RequestFitsDisk`, which carries them.
* A success is as planned, whatever another partition tool did meanwhile:
  `OriginalInv` carries the layout that was analysed, with the root behind every
  other partition, to the validation that compares with it, and `StageInv` what
  the stages before have done.
* Only two error returns can erase the root tree (`OnlyStuckMountErases`, without
  conditions): that of the install, after a mount or unmount which failed and left
  the root mounted at the run's directory, and that of the unmount behind it, after
  the same.  So the files survive where no such failure leaves it mounted
  (`LeavesMounted = {}`, `FilesKept`), whatever else fails.  `MountInv` says that a
  run's own mount exists only between the install and that unmount, or after a
  failed run.  Without the condition the theorem is false, which `ShrinkErasesRoot`
  shows.
* When `resize2fs` is started, in a first or a repeated run, nothing is mounted,
  the filesystem was checked, and the target holds what is in it.  `TargetInv`
  carries the room left by the plan over the install of the first-boot assets;
  it needs sizes in whole blocks and a margin wider than the assets
  (`UnitAssumption`, from `inspect.rs:73-90` and `plan.rs:7`).  Assumed is that no
  desktop mounts the filesystem at that very stage, between the check and the
  resize; if one does, `resize2fs` refuses, and the run fails.

**Extraction** (`ExtractPipelineProofs`), for every device, range, buffer, depth of the
channel, and any number of faults: types, nothing is lost between the threads, the
hash returned is that of the image, and `ExtractPipeline` implements `AtomicImage`,
step by step.  That a published image is complete depends on every message on its
way: `FlightInv` says that each follows on the one before, from where the file ends to
where the reader is, and that only the last of a stream ends it; `DrainedInv` that
behind it nothing is in flight and the file is what was read and hashed; `FileInv`
that only a finished and synced file gets the name of the output.

**Competing runs** (`ImageRunProofs`), for any set of runs.  The log is a lock, and no run
replaces a file of another: `LockInv` says that an admitted run owns the log, `PathInv`
what each has seen at the paths it is about to use, and `SyncInv` how the directory
differs from its synced copy.  From that, what is synced stays (`SyncedFilesStay`),
and on that rests `TruthInv`: what each run knows of its image, of its metadata and
of the device at each step.  A success in a log is of an image and metadata that no crash
takes away, a failure that denies a modification is of a run that made none, metadata stands next to
the image it describes, and no signal leaves the device half shrunk.

**First boot** (`GrowRootProofs`), for every disk and image size: the filesystem stays
inside its partition however often the expansion is interrupted, with torn state
files and with cards imaged in the middle; and the service removes itself only when the
filesystem fills the disk, if `ImagedAt` is at most `"none"`, that is, no card is
imaged in the middle of an expansion (without that the theorem is false, which
the run `GrowStuck` shows).

**Session** (`SessionProofs`), for every list of disks and every text.

* Nothing typed or shown for one device is taken for another the operator went back
  for, if every disk reports a model (`NamesReported`; of one without, the empty
  confirmation is the exact model and nothing need be typed).
  `NothingKeptOfLastDevice` is not inductive: `SetupInv` adds what each screen knows of
  selection and text, among them that no text is left on the screens before the
  selection.
* The disk changed has the identity the engine found and the selected and typed model,
  if no disk is exchanged behind the last look of the engine (`QuietBehindLook`; the
  code has no look there), and an image is only made after a layout was read and
  accepted.  It is not claimed that this layout is that of the disk changed: see the
  cards below.  `WorkInv` says what was found and analysed at each step of the worker,
  whatever is exchanged; `LookInv` that from the last look to the change what is at the
  path of the request has the identity of the disk held.
* The plan reviewed is that of the request: the preview is the only way to the review,
  and nothing changes a request that is being reviewed.
* The operator is told how the operation ended, without conditions.  `TalkInv` says
  what may be on the channel at each step of the worker: its result is the last message,
  `Complete` the last event, and a dashboard complete without an error is of a worker
  that has nothing left to fail but its log.
* Once an unknown layout was read and the shrink begins, the warning about it is on its
  way or listed, for every exchange of disks.  The list drops its oldest event when it holds eight;
  `ListInv` gives each event of a run a place, so that all of them fit.
* Types: they need what the wizards do to names (`WizardTypes`), the channel
  (`TalkInv`) and the worker (`WorkTypes`).

**Commands** (`CommandRunProofs`), for every input, pipe size and set of accepted
statuses: `CommandRun` implements `AtomicCommand`.  The invariant says where an accepted
status can come from (`ProcessInv`: only of a command that did its work, and
`timeout` passes on no other) and that the caller returns only when both
processes have ended (`CallerInv`), so that no work maps behind the return.

**Flashing** (`FlashRunProofs`), for every set of disks and images, and any number of
faults: only the selected disk, of the confirmed model and with room for the image, is
written, and not behind it; a success in the log, also after a power loss, is
of a medium that holds the image as it was inspected, and what the metadata
announces; disks with swap or the root directory are not written to, also where the
root directory is a subtree of its filesystem, and they keep their mounts but in that
last case.  Assumed are
disks that have the size they report and can be told apart by what they report, and none
exchanged behind the second look (`QuietBehindLook`; the code has no look there, and
opens what is at the path).  `SelectInv` says that the disk opened is the one found at
the second look; `WriteInv` that every other disk, and the target behind the image, is
untouched; `SuccessInv` that the kernel's view of the target holds what was written,
that the medium holds it once it was read back, and that the hash taken while writing
was by then found to be that of the inspection; `GuardInv` that the disk found has
neither swap nor a root directory of its own at the second look, and none of any kind
once its mounts were read again after they were unmounted.

### Assumptions on constants

They are next to the constants and TLC evaluates them in each run.
`GeometryAssumption`: finitely many table entries (four in an MBR), `MaxU64` and units are
numbers.  `AnalysisAssumption`, `ExtractAssumption`, `GrowAssumption`,
`CommandAssumption`, `RunAssumption`, `PartsAssumption`: ranges of the inputs.
`DiskAssumption`: the first disk is one that `resize2fs` and `sfdisk` could have left, with
the filesystem inside its partition, and faults and `LeavesMounted` name stages and commands
there are.  `UnitAssumption`: see the shrink.
`ListedAssumption`: the list of readers is not empty, as `run()` refuses an empty one.
`NamesAssumption`: a typed name has lost no characters.  `ResultAssumption`: the value for
"no result yet" is none of the results.  `MountsAssumption`: disks are mounted at places
the model knows.

### Only model-checked

* Liveness, which the prover cannot do: `RetriesConverge`, `CallEnds`, `ExpandsAtLast`,
  `OperationEnds` and `CallReturns`.
* What the conditions named above exclude: files after a mount or unmount that failed
  and left the root mounted, a card imaged in the middle of its expansion, an exchange
  of disks behind the last look.  The first two are violations that a run shows.
* `HostDisksKept` and `RestoredImageExpands`, which do not hold.

## Where code and documents disagree

Shown by a run (details in `PROJECT.json`, "findings"):

* a mount or unmount of the first-boot install that fails and leaves the root mounted
  makes the program delete the files of the source (`ShrinkErasesRoot`, with an
  unmount);
* the state file of the expansion survives imaging, and is truncated before it is
  written; either can leave a restored image unexpanded (`GrowStuck`);
* the boot disk of the host is offered for flashing (`FlashHitsBoot`).

Noted while modelling, without a run:

* the table is not read again before mutation, only the device's identity
  (`cli/src/app.rs:413-417`; the pre-hardware validation design, lines 51-58, asks
  for both); the validation after the shrink then refuses the run;
* `docs/safety.md:19-20` says signals are deferred; the handler discards them
  (`app.rs:556-572`), and they stay ignored once the handlers are closed;
* a nearly full root's partition entry may grow by less than an alignment
  (`plan.rs:159`, against `shrink.rs:55` "Shrink the primary MBR entry");
* the output is published before it is verified;
* a bare output name, or a failing sync of the directory, fails the extraction after
  the partial file was renamed away (`extract.rs:100`, `:162-163`; `README.md:147`);
* a reader without a model string is confirmed by Enter alone, as the empty text is
  its exact model (`model.rs:433`, `discovery.rs:137`; `docs/safety.md:38`);
* a disk exchanged for another of the same model between its selection and the start
  is accepted: `wizard.rs:763-774` keeps only path and model
  (`docs/safety.md:27-29`), so `ConfirmedModelTouched` speaks of the model;
* the engine's looks compare what a reader reports, not what is on the card
  (`discovery.rs:161-169`): a card put into the same reader after the analysis, of an
  unknown or an unsupported layout, is shrunk by the plan of the other and without a
  warning (`docs/safety.md:38-40`), so `ConfirmedModelTouched` and
  `WarningStaysListed` speak of the layout that was read;
* changing the compression away from xz cuts one character off an automatic name each
  time (`model.rs:461-476`), and text typed into such a name does not make it the
  operator's (`wizard.rs:712-715`);
* the default output name of the first device is kept for another;
* the warning about an unknown layout is drawn on the confirmation screen and on the
  dashboard, not on the screens between (`view.rs:271`);
* Enter typed ahead closes the finished dashboard (`wizard.rs:632-642`), the error of a
  worker that panicked is returned without being shown (`wizard.rs:98-100`), and a
  failing draw ends the process in the middle of the shrink (`wizard.rs:96`);
* a dashboard shows the run complete and failed at once when the log cannot be written
  after `Complete`;
* the inspection mounts read-only, which Linux refuses for a device mounted read-write
  elsewhere (`inspect.rs:139-144`): a source the desktop has mounted fails in `prepare`
  before anything would unmount it, and the operator must (`InspectionFails`);
* a command that needed SIGKILL may be reported as killed by signal 9 instead of timed
  out, as `timeout(1)` kills itself as well (`command.rs:196-205`);
* between its two looks at the disk and the opening of it a flash unmounts and
  opens its log (`cli/src/flash.rs:114-149`): an exchange of disks in that window is
  not noticed, so `SwapsAt` in `Flash.cfg` ends with the second look;
* a failing `partprobe` ends a complete flash without a result line;
* two runs with different outputs on one device are not kept apart;
* a source like `/dev/sda2[/@]` is not found among the devices and excludes
  nothing (`discovery.rs:114-119`; `docs/safety.md:25-27`): the disk of such a root
  directory is offered for flashing and its other mounts are unmounted, and only the
  second reading of its mounts (`quiescence.rs:122-132`), which still shows the root
  directory, ends the run before it writes (`RootAndSwapKept`);
* `docs/safety.md` speaks of a mandatory FAT check; a layout without a FAT
  partition is accepted with a warning (`profile.rs:50-55`).

## Not modelled

Drawing has no state, and of the argument parser only the interactive branch of
`main` is modelled, in `Session`.  The cursor of the wizard only decides which device
Enter selects, which may be any; the bytes, rates and times of the dashboards are left
out.  Compression is the identity on blocks, a hash is the sequence it was made of.  The
JSON of lsblk, findmnt and the metadata is a record.  Inspection
is a free choice of what the mounts show (in `Session`, of the layout of the disk), and
fails in `ShrinkTransaction` when the source is mounted; its own temporary mounts are
left out.  What a command
leaves running behind it, and the text it prints, are not in `CommandRun`.  In
`Session` the wizards read the terminal without failing otherwise than by leaving.
In `FlashRun` nothing mounts the target again once it was quiesced; the
desktop that does is modelled for the shrink only.

## Plan

Written in this order, the most dangerous behaviour first: `StorageGeometry`,
`ShrinkTransaction`, `Analysis`, `ExtractPipeline` and `AtomicImage`, `ImageRun`,
`GrowRoot`, `Discovery` and `FlashRun`, with the proofs of the shrink, of
competing runs and of the expansion; then `Wizard`, `Dashboard` and `Session`,
`CommandRun` under `AtomicCommand`, and the proofs about plans, sessions, commands
and flashing; then the proofs of extraction, of what logs and metadata certify, of the
parser, of success, files and room in the shrink, of the dashboard and of the host's
disks.  Left:

1. `Inspection`: the mounts of `inspect.rs` and their cleanup.
2. Proofs: that `ImageRun` uses the extraction only as `AtomicImage` allows; that the
   shrink uses a command only as `AtomicCommand` allows; shorter proofs of the
   extraction and of the session.
