------------------------------ MODULE ImageRun ------------------------------
(***************************************************************************)
(* Imaging runs from end to end (run_image_with_progress and execute of    *)
(* the command line program): several runs are given the same device and   *)
(* the same output, at the same time or one after the other.  Modelled are *)
(* the five files next to the output, the log record, the stage and        *)
(* source_modified flag kept for it, verification and metadata, and what a *)
(* signal, a kill or a power loss leaves behind.                           *)
(*                                                                         *)
(* The shrink is ShrinkTransaction in two steps, begun and ended, and the  *)
(* extraction is ExtractPipeline in the steps AtomicImage allows it.       *)
(***************************************************************************)
EXTENDS Integers, FiniteSets

CONSTANTS
  Runs,       \* the runs
  NoFile,     \* a path nothing is at
  Levels,     \* verification levels the runs choose from
  MaxFaults,  \* bound on failing operations, kills and power losses
  MaxSignals  \* bound on SIGINT and SIGTERM

ASSUME RunAssumption ==
  /\ NoFile \notin Runs
  /\ Levels \subseteq {"none", "streaming", "decode", "reread"}
  /\ MaxFaults \in Nat /\ MaxSignals \in Nat

\* The paths output_conflict looks at.
Names == {"image", "imagePartial", "sidecar", "sidecarPartial", "log"}

VARIABLES
  pc,         \* what each run does next
  level,      \* its verification level
  stage,      \* the stage it would report
  modified,   \* its source_modified flag
  log,        \* what its log file says
  dir,        \* run that created the file at each path
  synced,     \* dir as of the last sync of the directory
  device,     \* "original", "half" or "shrunk"
  touched,    \* runs that began to change the device
  shrunkBy,   \* runs whose shrink was validated
  flaws,      \* what happened to the published image and to the device
  faults, signals

flags == <<level, stage, modified>>
source == <<device, touched, shrunkBy>>
files == <<dir, synced>>
bounds == <<faults, signals>>
vars == <<pc, flags, log, files, source, flaws, bounds>>

Ended == {"refused", "done", "failed", "dead"}

\* Mutant: the log names the step of the code.
StepEntry(r, result) ==
  [result |-> result, stage |-> pc[r], modified |-> modified[r]]

\* A log that says result of run r, with its stage and flag.
Entry(r, result) ==
  [result |-> result, stage |-> stage[r], modified |-> modified[r]]

Init ==
  /\ pc = [r \in Runs |-> "validate"]
  /\ level \in [Runs -> Levels]
  /\ stage = [r \in Runs |-> "preparing"]
  /\ modified = [r \in Runs |-> FALSE]
  /\ log = [r \in Runs |-> Entry(r, "none")]
  /\ dir = [n \in Names |-> NoFile] /\ synced = dir
  /\ device = "original" /\ touched = {} /\ shrunkBy = {}
  /\ flaws = {}
  /\ faults = 0 /\ signals = 0

Goto(r, step) == pc' = [pc EXCEPT ![r] = step]
Free(name) == dir[name] = NoFile
Put(r, name) == dir' = [dir EXCEPT ![name] = r]

\* rename(2) of a file of this run
Move(from, to) == dir' = [dir EXCEPT ![to] = dir[from], ![from] = NoFile]

NoFault == UNCHANGED faults
Fault == faults < MaxFaults /\ faults' = faults + 1

\* An error inside the run: it is written to the log next.
Fail(r) == Goto(r, "logFailure")
-----------------------------------------------------------------------------
(* run_image_with_progress before the run proper *)

Validate(r) ==
  /\ pc[r] = "validate"
  /\ Goto(r, IF \A n \in Names : Free(n) THEN "openLog" ELSE "refused")
  /\ UNCHANGED <<flags, log, files, source, flaws, bounds>>

\* Mutant: the log is opened whether it exists or not.
AnyLog == TRUE

MayCreateLog == Free("log")

\* create_new: the file is created only if there is none.  Failing to write
\* its first line ends the run and leaves the file.
OpenLog(r) ==
  /\ pc[r] = "openLog"
  /\ \/ /\ MayCreateLog /\ Put(r, "log")
        /\ \/ /\ Goto(r, "prepare") /\ NoFault
              /\ log' = [log EXCEPT ![r] = Entry(r, "open")]
           \/ Goto(r, "refused") /\ Fault /\ UNCHANGED log
     \/ ~MayCreateLog /\ Goto(r, "refused") /\ NoFault /\ UNCHANGED <<dir, log>>
  /\ UNCHANGED <<flags, synced, source, flaws, signals>>

Prepare(r) ==
  /\ pc[r] = "prepare"
  /\ \/ Goto(r, "begin") /\ NoFault
     \/ Fault /\ Fail(r)
  /\ UNCHANGED <<flags, log, files, source, flaws, signals>>

\* Mutant: the flag is forgotten.
NotReported(r) == UNCHANGED modified

ReportMutating(r) == modified' = [modified EXCEPT ![r] = TRUE]

\* The device is looked up again and the mutation mount made; then the
\* Mutating event is reported and the signal handlers are installed.
Begin(r) ==
  /\ pc[r] = "begin"
  /\ \/ /\ Goto(r, "mutate") /\ NoFault
        /\ stage' = [stage EXCEPT ![r] = "mutating"]
        /\ ReportMutating(r)
     \/ Fault /\ Fail(r) /\ UNCHANGED <<stage, modified>>
  /\ UNCHANGED <<level, log, files, source, flaws, signals>>
-----------------------------------------------------------------------------
(* The shrink, under defer_termination *)

\* Mutant: the handlers are gone with the first command.
DeferringAtFirst(r) == pc[r] = "mutate"

\* The handlers are installed before the first command of the shrink.
Deferring(r) == pc[r] = "mutating"

BeginShrink(r) ==
  /\ pc[r] = "mutate"
  /\ \/ /\ Goto(r, "mutating") /\ NoFault
        /\ device' = IF device = "shrunk" THEN device ELSE "half"
        /\ touched' = touched \cup {r}
     \/ Fault /\ Fail(r) /\ UNCHANGED <<device, touched>>
  /\ UNCHANGED <<flags, log, files, shrunkBy, flaws, signals>>

EndShrink(r) ==
  /\ pc[r] = "mutating"
  /\ \/ /\ Goto(r, "extract") /\ NoFault
        /\ device' = "shrunk"
        /\ shrunkBy' = shrunkBy \cup {r}
     \/ Fault /\ Fail(r) /\ UNCHANGED <<device, shrunkBy>>
  /\ UNCHANGED <<flags, log, files, touched, flaws, signals>>
-----------------------------------------------------------------------------
(* Extraction *)

\* extract_path looks whether the paths are free, and creates the file
\* whether they still are or not.
ExtractCheck(r) ==
  /\ pc[r] = "extract"
  /\ IF Free("image") /\ Free("imagePartial")
     THEN Goto(r, "createPartial") ELSE Fail(r)
  /\ UNCHANGED <<flags, log, files, source, flaws, bounds>>

CreatePartial(r) ==
  /\ pc[r] = "createPartial"
  /\ \/ Goto(r, "copy") /\ NoFault /\ Put(r, "imagePartial")
     \/ Fault /\ Fail(r) /\ UNCHANGED dir
  /\ UNCHANGED <<flags, log, synced, source, flaws, signals>>

\* The first buffer that was compressed is the first progress reported.
Progress(r) ==
  /\ pc[r] = "copy"
  /\ \/ /\ Goto(r, "publish") /\ NoFault
        /\ stage' = [stage EXCEPT ![r] = "extracting"]
     \/ Fault /\ Fail(r) /\ UNCHANGED stage
  /\ UNCHANGED <<level, modified, log, files, source, flaws, signals>>

Publish(r) ==
  /\ pc[r] = "publish"
  /\ \/ /\ Goto(r, "syncImage") /\ NoFault
        /\ Move("imagePartial", "image")
        /\ flaws' = {}
     \/ Fault /\ Fail(r) /\ UNCHANGED <<dir, flaws>>
  /\ UNCHANGED <<flags, log, synced, source, signals>>

\* sync_parent, and the Verifying event when it succeeds
SyncImage(r) ==
  /\ pc[r] = "syncImage"
  /\ \/ /\ Goto(r, "verify") /\ NoFault
        /\ synced' = dir
        /\ stage' = [stage EXCEPT ![r] = "verifying"]
     \/ Fault /\ Fail(r) /\ UNCHANGED <<synced, stage>>
  /\ UNCHANGED <<level, modified, log, dir, source, flaws, signals>>
-----------------------------------------------------------------------------
(* Verification and metadata *)

\* Mutant: the highest level decodes the image and trusts the device.
DecodeMatches(r) == level[r] = "reread" => "damaged" \notin flaws

\* The lower levels take the hash of the extraction for the result.
Matches(r) ==
  CASE level[r] \in {"none", "streaming"} -> TRUE
    [] level[r] = "decode" -> "damaged" \notin flaws
    [] level[r] = "reread" -> flaws = {}

Verify(r) ==
  /\ pc[r] = "verify"
  /\ \/ Matches(r) /\ Goto(r, "sidecar") /\ NoFault
     \/ ~Matches(r) /\ Fail(r) /\ NoFault
     \/ level[r] \in {"decode", "reread"} /\ Fault /\ Fail(r)
  /\ UNCHANGED <<flags, log, files, source, flaws, signals>>

SidecarCheck(r) ==
  /\ pc[r] = "sidecar"
  /\ IF Free("sidecar") /\ Free("sidecarPartial")
     THEN Goto(r, "writeSidecar") ELSE Fail(r)
  /\ UNCHANGED <<flags, log, files, source, flaws, bounds>>

WriteSidecar(r) ==
  /\ pc[r] = "writeSidecar"
  /\ \/ Goto(r, "renameSidecar") /\ NoFault /\ Put(r, "sidecarPartial")
     \/ Fault /\ Fail(r) /\ (UNCHANGED dir \/ Put(r, "sidecarPartial"))
  /\ UNCHANGED <<flags, log, synced, source, flaws, signals>>

RenameSidecar(r) ==
  /\ pc[r] = "renameSidecar"
  /\ \/ Goto(r, "syncSidecar") /\ NoFault /\ Move("sidecarPartial", "sidecar")
     \/ Fault /\ Fail(r) /\ UNCHANGED dir
  /\ UNCHANGED <<flags, log, synced, source, flaws, signals>>

\* sync_parent, and the Complete event when it succeeds
SyncSidecar(r) ==
  /\ pc[r] = "syncSidecar"
  /\ \/ /\ Goto(r, "logSuccess") /\ NoFault
        /\ synced' = dir
        /\ stage' = [stage EXCEPT ![r] = "complete"]
     \/ Fault /\ Fail(r) /\ UNCHANGED <<synced, stage>>
  /\ UNCHANGED <<level, modified, log, dir, source, flaws, signals>>

\* The result line and sync_all of the log.  When either fails the run
\* returns an error, whatever it had achieved.
WriteLog(r) ==
  LET result == IF pc[r] = "logSuccess" THEN "success" ELSE "failure"
      written == [log EXCEPT ![r] = Entry(r, result)]
  IN  /\ pc[r] \in {"logSuccess", "logFailure"}
      /\ \/ /\ Goto(r, IF pc[r] = "logSuccess" THEN "done" ELSE "failed")
            /\ log' = written
            /\ NoFault
         \/ /\ Fault /\ Goto(r, "failed")
            /\ log' \in {log, written}
      /\ UNCHANGED <<flags, files, source, flaws, signals>>
-----------------------------------------------------------------------------
(* The environment *)

\* A run without handlers is ended by the signal.  defer_termination only
\* reports it, from the Mutating event at the earliest, and what its handlers
\* leave behind when they are closed may ignore it later as well.
Signal(r) ==
  /\ signals < MaxSignals /\ signals' = signals + 1
  /\ pc[r] \notin Ended
  /\ \/ ~Deferring(r) /\ Goto(r, "dead")
     \/ modified[r] /\ UNCHANGED pc
  /\ UNCHANGED <<flags, log, files, source, flaws, faults>>

Killed(r) ==
  /\ pc[r] \notin Ended
  /\ Fault /\ Goto(r, "dead")
  /\ UNCHANGED <<flags, log, files, source, flaws, signals>>

\* Every run is gone; each path shows what it held at the last sync of the
\* directory or what it held last.
PowerLoss ==
  /\ \E r \in Runs : pc[r] \notin Ended
  /\ Fault
  /\ pc' = [r \in Runs |-> IF pc[r] \in Ended \cup {"validate"} THEN pc[r]
                           ELSE "dead"]
  /\ \E kept \in SUBSET Names :
       dir' = [n \in Names |-> IF n \in kept THEN dir[n] ELSE synced[n]]
  /\ synced' = dir'
  /\ UNCHANGED <<flags, log, source, flaws, signals>>

\* The image is damaged, or the device written to, before it is verified.
Flaw ==
  /\ \E r \in Runs : pc[r] \in {"syncImage", "verify"}
  /\ \E flaw \in {"damaged", "rewritten"} \ flaws : flaws' = flaws \cup {flaw}
  /\ UNCHANGED <<pc, flags, log, files, source, bounds>>
-----------------------------------------------------------------------------
Run(r) ==
  \/ Validate(r) \/ OpenLog(r) \/ Prepare(r) \/ Begin(r) \/ BeginShrink(r)
  \/ EndShrink(r) \/ ExtractCheck(r) \/ CreatePartial(r) \/ Progress(r)
  \/ Publish(r) \/ SyncImage(r) \/ Verify(r) \/ SidecarCheck(r)
  \/ WriteSidecar(r) \/ RenameSidecar(r) \/ SyncSidecar(r) \/ WriteLog(r)

Environment == (\E r \in Runs : Signal(r) \/ Killed(r)) \/ PowerLoss \/ Flaw

AllEnded == (\A r \in Runs : pc[r] \in Ended) /\ UNCHANGED vars

Next == (\E r \in Runs : Run(r)) \/ Environment \/ AllEnded

Spec == Init /\ [][Next]_vars
-----------------------------------------------------------------------------
(* Properties. *)

Steps == {"validate", "openLog", "prepare", "begin", "mutate", "mutating",
          "extract", "createPartial", "copy", "publish", "syncImage", "verify",
          "sidecar", "writeSidecar", "renameSidecar", "syncSidecar",
          "logSuccess", "logFailure"}

StageNames == {"preparing", "mutating", "extracting", "verifying", "complete"}

LogEntry == [result : {"none", "open", "success", "failure"}, stage : StageNames,
             modified : BOOLEAN]

\* Every variable of the runs has its type.
TypeOK ==
  /\ pc \in [Runs -> Steps \cup Ended]
  /\ level \in [Runs -> Levels]
  /\ stage \in [Runs -> StageNames]
  /\ modified \in [Runs -> BOOLEAN]
  /\ log \in [Runs -> LogEntry]
  /\ dir \in [Names -> Runs \cup {NoFile}]
  /\ synced \in [Names -> Runs \cup {NoFile}]
  /\ device \in {"original", "half", "shrunk"}
  /\ touched \subseteq Runs /\ shrunkBy \subseteq Runs
  /\ flaws \subseteq {"damaged", "rewritten"}
  /\ faults \in 0..MaxFaults /\ signals \in 0..MaxSignals

Admitted(r) == pc[r] \in Steps \ {"validate", "openLog"}

\* The log created with create_new is the lock on the output: of the runs
\* that found every path free at the same time only one goes on, so no two
\* runs change the device or write the files at once.
OneRunAtATime ==
  \A r, s \in Runs : Admitted(r) /\ Admitted(s) => r = s

\* No run replaces a file another run has created, whether that one is under
\* way, has failed or was cut off (a power loss may take a file away).
FilesOfOthersKept ==
  [][\A n \in Names, r \in Runs : dir[n] = r => dir'[n] \in {r, NoFile}]_vars

\* The log can be trusted afterwards: a run that logged success has left the
\* image and its metadata, durably, and a run that logged that it did not
\* modify the source has not.
LogIsTruthful ==
  \A r \in Runs :
    /\ log[r].result = "success" =>
         dir["image"] = r /\ dir["sidecar"] = r /\ r \in shrunkBy
    /\ log[r].result = "failure" /\ r \in touched => log[r].modified

\* Metadata is only ever found next to the image it describes, also after a
\* power loss, and at the levels that read the image again that image was
\* not damaged (or at the highest level the device changed) before.
MetadataCertifiesImage ==
  \A r \in Runs : dir["sidecar"] = r =>
    /\ dir["image"] = r
    /\ level[r] \in {"decode", "reread"} => "damaged" \notin flaws
    /\ level[r] = "reread" => "rewritten" \notin flaws

\* SIGINT and SIGTERM never leave the device half shrunk: only a failing
\* command, a kill or a power loss does.
SignalsNeverSplitShrink ==
  device = "half" => faults > 0 \/ \E r \in Runs : pc[r] = "mutating"
=============================================================================
