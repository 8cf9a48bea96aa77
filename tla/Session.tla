------------------------------ MODULE Session ------------------------------
(***************************************************************************)
(* The interactive program from its first screen to its exit: the wizard,  *)
(* then the dashboard with the worker thread, which runs the imaging or    *)
(* the flash on whatever disk it finds at the path of the request, while   *)
(* disks are unplugged and others plugged in.                              *)
(*                                                                         *)
(* The worker is the order of its events, its looks at the disk and the    *)
(* first change to it; what it does in between is in ImageRun,             *)
(* ShrinkTransaction, ExtractPipeline and FlashRun.                        *)
(***************************************************************************)
EXTENDS Wizard, Dashboard, Functions

CONSTANTS
  Parts,    \* bound on the reports of progress
  SwapsAt,  \* screens and steps of the worker at which disks are exchanged
  MaxSwaps  \* bound on exchanges

ASSUME PartsAssumption == Parts \in Nat \ {0}

VARIABLES
  step,     \* what the worker does next
  parts,    \* reports of progress so far
  held,     \* the disk it found
  analysed, \* the disk whose layout it read
  verdict,  \* what its operation returned
  swaps,
  chosen,   \* history: the disk of the list that was selected
  touched   \* history: the disk that was changed

work == <<step, parts, held, analysed, verdict>>
vars == <<wizard, plugged, dashboard, worker, work, swaps, chosen, touched>>

\* prepare() and execute() of an imaging run.
ImageAfter ==
  [start |-> "Preparing", Preparing |-> "find", find |-> "analyze",
   analyze |-> "revalidate", revalidate |-> "Warning",
   Warning |-> "lookAgain", lookAgain |-> "Mutating", Mutating |-> "change",
   change |-> "Extracting", Extracting |-> "Verifying",
   Verifying |-> "Complete", Complete |-> "log", log |-> "return"]

\* run_with_progress of a flash.
FlashAfter ==
  [Inspecting |-> "MissingSidecar",
   MissingSidecar |-> "find", find |-> "revalidate",
   revalidate |-> "PreparingTarget", PreparingTarget |-> "change",
   change |-> "Writing", Writing |-> "VerifyingTarget",
   VerifyingTarget |-> "log", log |-> "Complete", Complete |-> "return"]

After == IF request.operation = "image" THEN ImageAfter ELSE FlashAfter
Steps == DOMAIN ImageAfter \cup DOMAIN FlashAfter \cup {"none", "return"}

Reports == {"Extracting", "Writing"}
Events == {"Preparing", "Mutating", "Verifying", "Inspecting",
           "PreparingTarget", "Complete"}

Init ==
  /\ WizardInit /\ DashboardInit
  /\ step = "none" /\ parts = 0
  /\ held = NoDisk /\ analysed = NoDisk /\ verdict = NoResult
  /\ swaps = 0
  /\ chosen = NoDisk /\ touched = NoDisk
-----------------------------------------------------------------------------
(* The worker thread *)

Working == worker = "running"
Advance == step' = After[step]
Send(message) == queue' = Append(queue, message)
KeepMain == UNCHANGED <<main, dash, drawn, outcome, status>>
KeepRest == UNCHANGED <<wizard, plugged, swaps, chosen>>
KeepDisks == UNCHANGED <<held, analysed, touched>>

\* Events that are sent in one case only, or never needed.
MayReport ==
  \/ step \in Events
  \/ step = "Warning" /\ analysed.layout = "unknown"
  \/ step = "MissingSidecar"
  \/ step = "VerifyingTarget" /\ request.post = "full"

Report ==
  /\ Working /\ MayReport
  /\ Send(Event(step))
  /\ Advance
  /\ UNCHANGED <<worker, parts, verdict>>
  /\ KeepDisks /\ KeepMain /\ KeepRest

\* Extraction and writing report each buffer; there is at least one.
ReportProgress ==
  /\ Working /\ step \in Reports
  /\ parts < Parts /\ parts' = parts + 1
  /\ Send(Event(step))
  /\ \/ Advance
     \/ parts' < Parts /\ UNCHANGED step
  /\ UNCHANGED <<worker, verdict>>
  /\ KeepDisks /\ KeepMain /\ KeepRest

Quiet == UNCHANGED <<worker, queue, parts, verdict>> /\ KeepMain /\ KeepRest

\* Mutant: the disk at the path is taken without asking for its model.
FoundAtPath(asked, disk) == disk # NoDisk

Found(asked, disk) == FoundFor(asked, disk)

Find ==
  /\ Working /\ step = "find"
  /\ LET disk == plugged[request.path]
     IN  /\ Found(request, disk)
         /\ held' = disk
  /\ Advance
  /\ UNCHANGED <<analysed, touched>> /\ Quiet

\* analyze() reads what is at the path by now, and an unsupported layout ends
\* the run.
Analyze ==
  /\ Working /\ step = "analyze"
  /\ Analyzable(plugged[request.path])
  /\ analysed' = plugged[request.path]
  /\ Advance
  /\ UNCHANGED <<held, touched>> /\ Quiet

\* A DeviceIdentity says what the disk or the reader of a card reports of
\* itself, and nothing of what is on it.
SameIdentity(disk, other) ==
  disk.model = other.model /\ disk.serial = other.serial

\* revalidate_identity: at the end of prepare() and, for an image, again at
\* the start of execute().
Revalidate ==
  /\ Working /\ step \in {"revalidate", "lookAgain"}
  /\ plugged[request.path] # NoDisk
  /\ SameIdentity(held, plugged[request.path])
  /\ Advance
  /\ KeepDisks /\ Quiet

\* The shrink begins, or the write to the target.
Change ==
  /\ Working /\ step = "change"
  /\ touched' = plugged[request.path]
  /\ Advance
  /\ UNCHANGED <<held, analysed>> /\ Quiet

\* The steps that send nothing: the checks at the start, an event there is no
\* reason for, and the log, written after Complete for an image and before it
\* for a flash.
Silent ==
  \/ step \in {"start", "log", "MissingSidecar"}
  \/ step = "Warning" /\ analysed.layout # "unknown"
  \/ step = "VerifyingTarget" /\ request.post # "full"

PassOn ==
  /\ Working /\ Silent
  /\ Advance
  /\ KeepDisks /\ Quiet

\* The operation returns, and its result is sent.  It may fail at any step
\* but the first report and the end.
Return(result) ==
  /\ Working
  /\ IF result = "ok" THEN step = "return"
     ELSE step \notin {"Preparing", "Inspecting", "return"}
  /\ verdict' = result
  /\ Send(Finished(result))
  /\ worker' = "finished"
  /\ UNCHANGED <<step, parts>> /\ KeepDisks /\ KeepMain /\ KeepRest

EndWorker ==
  /\ worker = "finished"
  /\ worker' = "ended"
  /\ UNCHANGED <<queue, work, touched>> /\ KeepMain /\ KeepRest

Panic ==
  /\ Working
  /\ worker' = "panicked" /\ verdict' = "error"
  /\ UNCHANGED <<queue, step, parts>> /\ KeepDisks /\ KeepMain /\ KeepRest

WorkerNext ==
  \/ Report \/ ReportProgress
  \/ Find \/ Analyze \/ Revalidate \/ Change \/ PassOn
  \/ Return("ok") \/ Return("error")
  \/ EndWorker \/ Panic
-----------------------------------------------------------------------------
(* The whole program *)

NoRun == UNCHANGED <<dashboard, worker, work, swaps, touched>>

\* main(): what the wizard returns is run at once.
Setup ==
  /\ WizardNext
  /\ chosen' = IF screen' = "started" THEN Listed[Choice.selected] ELSE chosen
  /\ NoRun

KeepWork == UNCHANGED <<wizard, plugged, swaps, chosen, touched>>

Spawn ==
  /\ screen = "started"
  /\ Launch(request.operation)
  /\ step' = IF request.operation = "image" THEN "start" ELSE "Inspecting"
  /\ UNCHANGED <<parts, held, analysed, verdict>> /\ KeepWork

MainThread ==
  /\ screen = "started"
  /\ MainNext(request.operation) \/ Acknowledge
  /\ UNCHANGED work /\ KeepWork

TerminalLost ==
  /\ screen = "started"
  /\ LoseTerminal
  /\ UNCHANGED work /\ KeepWork

Moment ==
  IF InSetup THEN screen
  ELSE IF screen = "started" /\ main # "exited" /\ worker \in {"none", "running"}
       THEN step ELSE "over"

\* Another disk takes a path, or nothing does.
SwapDisk ==
  /\ swaps < MaxSwaps /\ swaps' = swaps + 1
  /\ Moment \in SwapsAt
  /\ \E path \in Paths, disk \in Disks \cup {NoDisk} :
       /\ disk = NoDisk \/ \A other \in Paths : plugged[other] # disk
       /\ plugged' = [plugged EXCEPT ![path] = disk]
  /\ UNCHANGED <<wizard, dashboard, worker, work, chosen, touched>>

Exited == main = "exited" \/ screen = "cancelled"
Done == Exited /\ UNCHANGED vars

Next ==
  \/ Setup \/ Spawn \/ MainThread \/ TerminalLost
  \/ WorkerNext \/ SwapDisk \/ Done

\* A started operation goes on: the worker's steps end, the main thread is
\* scheduled, and the operator closes a dashboard that is over.
Fairness == WF_vars(WorkerNext) /\ WF_vars(Spawn \/ MainThread)

Spec == Init /\ [][Next]_vars /\ Fairness
-----------------------------------------------------------------------------
Messages == {"Warning", "MissingSidecar", "VerifyingTarget"} \cup Events \cup Reports

SeqUpTo(S, n) == UNION {[1..k -> S] : k \in 0..n}

\* Types of all variables.
TypeOK ==
  /\ screen \in {"operation", "started", "cancelled"}
       \cup {"device", "confirm", "output", "verification", "review"}
       \cup {"image", "preVerify", "target", "targetConfirm", "postVerify",
             "flashReview"}
  /\ model.selected \in {0} \cup Paths /\ setup.selected \in {0} \cup Paths
  /\ model.confirmation \in Texts \cup {NoText}
  /\ model.output.cut \in 0..MaxCut
  /\ plugged \in [Paths -> Disks \cup {NoDisk}]
  /\ main \in {"setup", "receive", "join", "acknowledge", "exited"}
  /\ worker \in {"none", "running", "finished", "ended", "panicked", "killed"}
  /\ \A i \in DOMAIN queue :
       queue[i] \in [kind : {"event"}, event : Messages]
                      \cup [kind : {"finished"}, result : {"ok", "error"}]
  /\ Len(dash.events) <= MaxRecentEvents
  /\ outcome \in {"ok", "error", NoResult}
  /\ status \in {"ok", "error", "lost", NoResult}
  /\ step \in Steps /\ parts \in 0..Parts
  /\ \A disk \in {held, analysed, touched} : disk \in Disks \cup {NoDisk}
  /\ verdict \in {"ok", "error", NoResult}

\* However disks are exchanged from the first screen to the last look of the
\* engine, the disk that is changed has the identity the engine looked up and
\* the model the operator selected and typed, and an image is only made after
\* a layout was read and supported.  It may be the layout of another card:
\* one put into the same reader after the analysis has the same identity.
ConfirmedModelTouched ==
  touched # NoDisk =>
    /\ SameIdentity(held, touched)
    /\ touched.model = chosen.model
    /\ request.operation = "image" => Analyzable(analysed)

\* docs/safety.md: unknown layouts display a strong warning.  When a shrink
\* begins after the engine read an unknown layout, also that of a disk plugged
\* in after the wizard, the warning is on its way to the dashboard or on it,
\* and reports of progress do not push it out of the few recent events that
\* are kept.  There is none for a card exchanged after that (see Revalidate).
WarningStaysListed ==
  request # NoRequest /\ request.operation = "image"
    /\ touched # NoDisk /\ analysed.layout = "unknown" =>
      Event("Warning") \in Range(queue) \/ "warning" \in Range(dash.events)

\* The operator is told what became of the operation: what waits for the key
\* was drawn with an error exactly if the operation returned one, also after
\* the event that completes it.  The exit status agrees, and unless the
\* terminal is lost the program does not exit, taking the worker with it,
\* before that has ended.
OutcomeIsTold ==
  /\ main = "acknowledge" =>
       /\ drawn.error = (verdict = "error")
       /\ verdict = "ok" => drawn.phase = "complete"
  /\ main = "exited" /\ status # "lost" =>
       status = verdict /\ worker \in {"ended", "panicked"}

\* A started operation comes to its end: a failing, panicking or finished
\* worker never leaves the dashboard waiting.
OperationEnds == screen = "started" ~> main = "exited"
=============================================================================
