--------------------------- MODULE SessionProofs ---------------------------
(***************************************************************************)
(* Proofs about Session, for every list of disks and texts: what was typed *)
(* and shown for one device is not taken for another, and the disk that is *)
(* changed is of the confirmed model, if disks are not exchanged behind    *)
(* the last look of the engine.  It has the identity of the disk found;    *)
(* that it is that disk, or holds what was analysed, nobody can say (see   *)
(* SameIdentity).  Then the dashboard: the operator is told how the        *)
(* operation ended, and the warning stays on the list.                     *)
(*                                                                         *)
(* For the dashboard TalkInv says what may still be on the channel at each *)
(* step of the worker, and ListInv where the events of a run stand on the  *)
(* list, which has room for all of them.                                   *)
(***************************************************************************)
EXTENDS Session, SequenceTheorems, TLAPS

\* The confirmation can only tell devices by their model if they have one.
NamesReported == \A disk \in Disks : disk.model # NoText

\* Steps of the worker behind its last look at the disk, up to the change.
Due == {"Mutating", "PreparingTarget", "change"}

QuietBehindLook == SwapsAt \cap Due = {}

DeviceChosen == {"confirm", "output", "verification", "review"}
TargetChosen == {"targetConfirm", "postVerify", "flashReview"}
NothingChosen == {"operation", "image", "preVerify", "target"}

\* What the wizards know on each screen.
SetupInv ==
  /\ DOMAIN model = DOMAIN NewModel /\ DOMAIN setup = DOMAIN NewSetup
  /\ screen \in NothingChosen =>
       model.selected = 0 /\ setup.confirmation = NoText
  /\ screen \in DeviceChosen =>
       /\ model.selected \in Paths
       /\ model.confirmation # NoText => typedFor = model.selected
       /\ model.warning = (seen.layout = "unknown")
  /\ screen \in DeviceChosen \ {"confirm"} =>
       model.confirmation = Listed[model.selected].model
  /\ screen \in TargetChosen =>
       /\ model.selected = 0 /\ setup.selected \in Paths
       /\ setup.confirmation # NoText => typedFor = setup.selected
  /\ screen \in TargetChosen \ {"targetConfirm"} =>
       setup.confirmation = Listed[setup.selected].model

\* A path is the number of a listed disk, and never zero.
LEMMA PathsAreNumbers ==
  /\ 0 \notin Paths
  /\ \A i \in Paths : Listed[i] \in Disks
  BY ListedAssumption DEF Paths

\* Nothing is known before the first screen.
LEMMA SetupStarts == WizardInit => SetupInv
  BY DEF WizardInit, SetupInv, NewModel, NewSetup, NothingChosen, DeviceChosen,
         TargetChosen

\* What selecting a device sets and what it resets.
LEMMA SelectionResets ==
  ASSUME NEW old, DOMAIN old = DOMAIN NewModel, NEW i, NEW layout,
         NEW new \in WithOutput(Selected(old, i))
  PROVE  /\ DOMAIN Warned(new, layout) = DOMAIN NewModel
         /\ Warned(new, layout).selected = i
         /\ Warned(new, layout).confirmation = NoText
         /\ Warned(new, layout).warning = (layout = "unknown")
  <1> DEFINE one == Selected(old, i)
  <1>1. /\ DOMAIN one = DOMAIN NewModel
        /\ one.selected = i /\ one.confirmation = NoText
    BY DEF Selected, NewModel
  <1>2. new \in {one, [one EXCEPT !.output = DefaultName, !.automatic = TRUE]}
    BY DEF WithOutput
  <1>3. /\ DOMAIN new = DOMAIN NewModel
        /\ new.selected = i /\ new.confirmation = NoText
    <2> HIDE DEF one
    <2> QED BY <1>1, <1>2 DEF NewModel
  <1> QED BY <1>3 DEF Warned, NewModel

\* Every key of the image wizard keeps what is known.
LEMMA ImageKeyKeeps ==
  ASSUME SetupInv, ImageKey
  PROVE  SetupInv'
  <1> USE DEF Keep, KeepImage, Show
  <1>1. ASSUME NEW i \in Paths, SelectDevice(i) PROVE SetupInv'
    <2>1. PICK new \in WithOutput(Selected(model, i)) :
            model' = Warned(new, plugged[i].layout)
      BY <1>1 DEF SelectDevice
    <2>2. DOMAIN model = DOMAIN NewModel
      BY DEF SetupInv
    <2>3. /\ DOMAIN model' = DOMAIN NewModel
          /\ model'.selected = i
          /\ model'.confirmation = NoText
          /\ model'.warning = (plugged[i].layout = "unknown")
      BY <2>1, <2>2, SelectionResets
    <2>4. screen' = "confirm" /\ seen' = plugged[i] /\ setup' = setup
      BY <1>1 DEF SelectDevice
    <2> QED
      BY <2>3, <2>4 DEF SetupInv, NothingChosen, DeviceChosen, TargetChosen
  <1>2. ASSUME NEW text \in Texts, TypeConfirmation(text) PROVE SetupInv'
    BY <1>2 DEF TypeConfirmation, SetupInv, NewModel, NothingChosen,
                DeviceChosen, TargetChosen
  <1>3. CASE ConfirmDevice
    BY <1>3 DEF ConfirmDevice, SetupInv, NothingChosen, DeviceChosen,
                TargetChosen
  <1>4. ASSUME NEW name \in TypedNames, TypeOutput(name) PROVE SetupInv'
    BY <1>4 DEF TypeOutput, SetupInv, NewModel, NothingChosen, DeviceChosen,
                TargetChosen
  <1>5. ASSUME NEW compression \in Compressions, SetCompression(compression)
        PROVE  SetupInv'
    BY <1>5 DEF SetCompression, SetupInv, NewModel, NothingChosen, DeviceChosen,
                TargetChosen
  <1>6. CASE LeaveOutput
    BY <1>6 DEF LeaveOutput, SetupInv, NewModel, NothingChosen, DeviceChosen,
                TargetChosen
  <1>7. ASSUME NEW level \in Levels, SetVerification(level) PROVE SetupInv'
    BY <1>7
    DEF SetVerification, SetupInv, NewModel, NothingChosen, DeviceChosen,
                TargetChosen
  <1>8. CASE Preview
    BY <1>8 DEF Preview, Previewed, SetupInv, NewModel, NothingChosen,
                DeviceChosen, TargetChosen
  <1>9. CASE Previous
    BY <1>9 DEF Previous, Before, SetupInv, NothingChosen, DeviceChosen,
                TargetChosen
  <1>10. CASE StartImage
    BY <1>10 DEF StartImage, SetupInv, NewModel, NothingChosen, DeviceChosen,
                 TargetChosen
  <1> QED
    BY <1>1, <1>2, <1>3, <1>4, <1>5, <1>6, <1>7, <1>8, <1>9, <1>10 DEF ImageKey

\* And so does every key of the flash wizard, which has no way back.
LEMMA FlashKeyKeeps ==
  ASSUME SetupInv, FlashKey
  PROVE  SetupInv'
  <1> USE DEF Keep, KeepFlash, Show, SetupInv, NewSetup, NothingChosen,
              DeviceChosen, TargetChosen
  <1>1. ASSUME NEW image \in Images, TypeImage(image) PROVE SetupInv'
    BY <1>1 DEF TypeImage
  <1>2. CASE LeaveImage
    BY <1>2 DEF LeaveImage
  <1>3. ASSUME NEW level \in {"none", "basic", "full"}, SetPreVerify(level)
        PROVE  SetupInv'
    BY <1>3 DEF SetPreVerify
  <1>4. CASE InspectImage
    BY <1>4 DEF InspectImage
  <1>5. ASSUME NEW i \in Paths, SelectTarget(i) PROVE SetupInv'
    BY <1>5 DEF SelectTarget
  <1>6. ASSUME NEW text \in Texts, TypeTarget(text) PROVE SetupInv'
    BY <1>6 DEF TypeTarget
  <1>7. CASE ConfirmTarget
    BY <1>7 DEF ConfirmTarget
  <1>8. ASSUME NEW level \in {"none", "full"}, SetPostVerify(level)
        PROVE  SetupInv'
    BY <1>8 DEF SetPostVerify
  <1>9. CASE LeavePostVerify
    BY <1>9 DEF LeavePostVerify
  <1>10. CASE StartFlash
    BY <1>10 DEF StartFlash
  <1> QED
    BY <1>1, <1>2, <1>3, <1>4, <1>5, <1>6, <1>7, <1>8, <1>9, <1>10 DEF FlashKey

\* Every step of the wizards keeps what is known.
LEMMA WizardKeeps ==
  ASSUME SetupInv, WizardNext
  PROVE  SetupInv'
  <1>1. CASE ChooseOperation
    BY <1>1 DEF ChooseOperation, Show, Keep, SetupInv, NothingChosen,
                DeviceChosen, TargetChosen
  <1>2. CASE Cancel
    BY <1>2 DEF Cancel, Show, SetupInv, NothingChosen, DeviceChosen,
                TargetChosen
  <1> QED BY <1>1, <1>2, ImageKeyKeeps, FlashKeyKeeps DEF WizardNext

\* Only the wizards change what they know.
LEMMA SetupInvariant == Spec => []SetupInv
  <1>1. Init => SetupInv
    BY SetupStarts DEF Init
  <1>2. SetupInv /\ [Next]_vars => SetupInv'
    <2> SUFFICES ASSUME SetupInv, [Next]_vars PROVE SetupInv'
      OBVIOUS
    <2>1. CASE Setup
      BY <2>1, WizardKeeps DEF Setup
    <2>2. CASE UNCHANGED wizard
      BY <2>2 DEF wizard, SetupInv
    <2>3. CASE Spawn \/ MainThread \/ TerminalLost
      BY <2>2, <2>3 DEF Spawn, MainThread, TerminalLost, KeepWork
    <2>4. CASE WorkerNext
      BY <2>2, <2>4 DEF WorkerNext, Report, ReportProgress, Find, Analyze,
           Revalidate, Change, PassOn, Return, EndWorker, Panic, Quiet, KeepRest
    <2>5. CASE SwapDisk
      BY <2>2, <2>5 DEF SwapDisk
    <2>6. CASE Done \/ UNCHANGED vars
      BY <2>2, <2>6 DEF Done, vars
    <2> QED BY <2>1, <2>3, <2>4, <2>5, <2>6 DEF Next
  <1> QED BY <1>1, <1>2, PTL DEF Spec

\* For every list of disks that report a model: however the operator goes back
\* and forth, past the confirmation the text is the model of the selected
\* device and was typed for it, and the warning is about the disk analysed.
THEOREM NothingIsKept ==
  ASSUME NamesReported
  PROVE  Spec => []NothingKeptOfLastDevice
  <1>1. SetupInv => NothingKeptOfLastDevice
    <2> SUFFICES ASSUME SetupInv PROVE NothingKeptOfLastDevice
      OBVIOUS
    <2>1. CASE screen \in DeviceChosen
      BY <2>1, PathsAreNumbers DEF SetupInv, DeviceChosen, NamesReported,
           NothingKeptOfLastDevice, PastConfirmation, Choice
    <2>2. CASE screen \in TargetChosen
      BY <2>2, PathsAreNumbers DEF SetupInv, TargetChosen, NamesReported,
           NothingKeptOfLastDevice, PastConfirmation, Choice
    <2>3. CASE screen \notin DeviceChosen \cup TargetChosen
      BY <2>3 DEF DeviceChosen, TargetChosen, NothingKeptOfLastDevice,
           PastConfirmation
    <2> QED BY <2>1, <2>2, <2>3
  <1> QED BY <1>1, SetupInvariant, PTL

\* Only the key that computes a preview leads to the review screen.
LEMMA OnlyPreviewLeadsToReview ==
  ASSUME WizardNext, screen' = "review"
  PROVE  Preview
  <1> USE DEF Keep, KeepImage, KeepFlash, Show
  <1>1. ~ChooseOperation /\ ~Cancel
    BY DEF ChooseOperation, Cancel
  <1>2. ~FlashKey
    BY DEF FlashKey, TypeImage, LeaveImage, SetPreVerify, InspectImage,
           SelectTarget, TypeTarget, ConfirmTarget, SetPostVerify,
           LeavePostVerify, StartFlash
  <1>3. ImageKey => Preview
    <2>1. ~Previous
      BY DEF Previous, Before
    <2>2. \A i \in Paths : ~SelectDevice(i)
      BY DEF SelectDevice
    <2>3. ~ConfirmDevice /\ ~LeaveOutput /\ ~StartImage
      BY DEF ConfirmDevice, LeaveOutput, StartImage
    <2>4. /\ \A text \in Texts : ~TypeConfirmation(text)
          /\ \A name \in TypedNames : ~TypeOutput(name)
          /\ \A level \in Levels : ~SetVerification(level)
      BY DEF TypeConfirmation, TypeOutput, SetVerification
    <2>5. \A compression \in Compressions : ~SetCompression(compression)
      BY DEF SetCompression
    <2> QED BY <2>1, <2>2, <2>3, <2>4, <2>5 DEF ImageKey
  <1> QED BY <1>1, <1>2, <1>3 DEF WizardNext

\* For every list of disks, names and texts: whatever the operator went back
\* for and changed, the plan reviewed is that of the request Enter starts.
THEOREM ReviewedIsRequested == Spec => []RequestIsReviewed
  <1>1. Init => RequestIsReviewed
    BY DEF Init, WizardInit, RequestIsReviewed
  <1>2. SetupInv /\ RequestIsReviewed /\ [Next]_vars => RequestIsReviewed'
    <2> SUFFICES ASSUME SetupInv, RequestIsReviewed, [Next]_vars,
                        screen' = "review"
                 PROVE  /\ model'.preview = ImageRequest(model')
                        /\ model'.output.ext = model'.compression
      BY DEF RequestIsReviewed, ImageRequest
    <2>1. CASE Preview
      <3>1. /\ model' = [model EXCEPT !.preview = ImageRequest(model)]
            /\ model.output.ext = model.compression
        BY <2>1 DEF Preview, Previewed
      <3>2. DOMAIN model = DOMAIN NewModel
        BY DEF SetupInv
      <3>3. /\ model'.preview = ImageRequest(model)
            /\ model'.selected = model.selected
            /\ model'.confirmation = model.confirmation
            /\ model'.output = model.output
            /\ model'.compression = model.compression
            /\ model'.verification = model.verification
        BY <3>1, <3>2 DEF NewModel
      <3> QED BY <3>1, <3>3 DEF ImageRequest
    <2>2. CASE Setup
      BY <2>1, <2>2, OnlyPreviewLeadsToReview DEF Setup
    <2>3. CASE UNCHANGED wizard
      BY <2>3 DEF wizard, RequestIsReviewed, ImageRequest
    <2>4. CASE Spawn \/ MainThread \/ TerminalLost
      BY <2>3, <2>4 DEF Spawn, MainThread, TerminalLost, KeepWork
    <2>5. CASE WorkerNext
      BY <2>3, <2>5 DEF WorkerNext, Report, ReportProgress, Find, Analyze,
           Revalidate, Change, PassOn, Return, EndWorker, Panic, Quiet, KeepRest
    <2>6. CASE SwapDisk
      BY <2>3, <2>6 DEF SwapDisk
    <2>7. CASE Done \/ UNCHANGED vars
      BY <2>3, <2>7 DEF Done, vars
    <2> QED BY <2>2, <2>4, <2>5, <2>6, <2>7 DEF Next
  <1> QED BY <1>1, <1>2, SetupInvariant, PTL DEF Spec
-----------------------------------------------------------------------------
(* The run of what the wizard returned *)

\* Steps behind the worker's search for the disk, and behind the change.
PastFind ==
  Due \cup {"analyze", "revalidate", "Warning", "lookAgain", "Extracting",
            "Verifying", "Writing", "VerifyingTarget", "Complete", "log",
            "return"}

\* Steps of an imaging run behind the analysis.
PastAnalysis == PastFind \ {"analyze"}

PastChange ==
  {"Extracting", "Verifying", "Writing", "VerifyingTarget", "Complete", "log",
   "return"}

NotBegun ==
  /\ main = "setup" /\ worker = "none" /\ step = "none"
  /\ held = NoDisk /\ touched = NoDisk /\ analysed = NoDisk

\* The request is about the chosen disk.
RequestInv ==
  /\ request.operation \in {"image", "flash"}
  /\ request.path \in Paths
  /\ request.confirmation = chosen.model

\* The disk that was found is of the confirmed model.
HeldInv ==
  /\ held # NoDisk
  /\ held.model = request.confirmation

\* An imaging run has read a layout it supports.
AnalysisInv == request.operation = "image" => Analyzable(analysed)

\* The program, and what the worker has found at each step.
WorkInv ==
  /\ screen # "started" => NotBegun
  /\ screen = "started" => RequestInv
  /\ main = "setup" => NotBegun
  /\ main = "acknowledge" => worker = "ended"
  /\ main = "exited" => worker \notin {"running", "finished"}
  /\ step \in {"none", "return"} \cup DOMAIN After
  /\ worker = "running" => step # "none"
  /\ step \in PastFind => HeldInv
  /\ step \in PastAnalysis => AnalysisInv
  /\ touched # NoDisk => step \in PastChange

\* The disk at the path has the identity of the disk found as long as it has
\* to, and so has the disk that was changed.
LookInv ==
  /\ worker = "running" /\ step \in Due =>
       SameIdentity(held, plugged[request.path])
  /\ touched # NoDisk => SameIdentity(held, touched)

\* What follows on each step of the worker.
LEMMA StepOrder ==
  ASSUME NEW s \in DOMAIN After
  PROVE  /\ After[s] \in {"return"} \cup DOMAIN After
         /\ After[s] # "none"
         /\ After[s] \in PastFind => s \in PastFind \cup {"find"}
         /\ request.operation = "image" /\ After[s] \in PastAnalysis =>
              s \in PastAnalysis \cup {"analyze"}
         /\ After[s] \in Due => s \in Due \cup {"revalidate", "lookAgain"}
         /\ s \in PastChange \cup {"change"} => After[s] \in PastChange
         /\ s # "return" /\ s # "none"
  <1>1. CASE request.operation = "image"
    BY <1>1 DEF After, ImageAfter, PastFind, PastAnalysis, PastChange, Due
  <1>2. CASE request.operation # "image"
    BY <1>2 DEF After, FlashAfter, PastFind, PastChange, Due
  <1> QED BY <1>1, <1>2

\* A wizard that starts an operation returns a request for the chosen disk.
LEMMA WizardRequests ==
  ASSUME SetupInv, WizardNext
  PROVE  /\ screen # "started"
         /\ screen' = "started" =>
              /\ request'.operation \in {"image", "flash"}
              /\ request'.path \in Paths
              /\ request'.confirmation = Listed[Choice.selected].model
  <1> USE DEF Show
  <1>1. CASE ChooseOperation \/ Cancel
    BY <1>1 DEF ChooseOperation, Cancel, InSetup
  <1>2. CASE StartImage
    BY <1>2, PathsAreNumbers DEF StartImage, ImageRequest, SetupInv,
         DeviceChosen, Choice
  <1>3. CASE StartFlash
    BY <1>3 DEF StartFlash, FlashRequest, SetupInv, TargetChosen, Choice
  <1>4. CASE ImageKey /\ ~StartImage
    <2>1. screen \in DeviceChosen \cup {"device"}
      BY <1>4 DEF ImageKey, SelectDevice, TypeConfirmation, ConfirmDevice,
           TypeOutput, SetCompression, LeaveOutput, SetVerification, Preview,
           Previous, Before, DeviceChosen
    <2>2. CASE UNCHANGED screen
      BY <2>1, <2>2 DEF DeviceChosen
    <2>3. CASE (\E i \in Paths : SelectDevice(i)) \/ ConfirmDevice
                 \/ LeaveOutput \/ Preview
      BY <2>1, <2>3 DEF SelectDevice, ConfirmDevice, LeaveOutput, Preview,
           DeviceChosen
    <2>4. CASE Previous
      BY <2>1, <2>4 DEF Previous, Before, DeviceChosen
    <2> QED
      BY <1>4, <2>2, <2>3, <2>4 DEF ImageKey, TypeConfirmation, TypeOutput,
         SetCompression, SetVerification
  <1>5. CASE FlashKey /\ ~StartFlash
    BY <1>5 DEF FlashKey, TypeImage, LeaveImage, SetPreVerify, InspectImage,
         SelectTarget, TypeTarget, ConfirmTarget, SetPostVerify,
         LeavePostVerify
  <1> QED BY <1>1, <1>2, <1>3, <1>4, <1>5 DEF WizardNext

\* The wizards begin no work, and main() runs what they return.
LEMMA SetupKeepsWork ==
  ASSUME SetupInv, WorkInv, Setup
  PROVE  WorkInv'
  <1>1. /\ screen # "started"
        /\ NotBegun /\ NotBegun'
    BY WizardRequests DEF Setup, NoRun, dashboard, work, WorkInv, NotBegun
  <1>2. screen' = "started" => RequestInv'
    BY WizardRequests DEF Setup, RequestInv
  <1> QED BY <1>1, <1>2 DEF WorkInv, NotBegun, PastFind, PastAnalysis, Due

\* What the main thread does leaves the worker at its step.
LEMMA MainKeepsWork ==
  ASSUME WorkInv, Spawn \/ MainThread \/ TerminalLost
  PROVE  WorkInv'
  <1> USE DEF KeepWork, wizard, work
  <1>1. /\ screen = "started" /\ screen' = screen
        /\ request' = request /\ chosen' = chosen /\ plugged' = plugged
        /\ held' = held /\ touched' = touched /\ analysed' = analysed
    BY DEF Spawn, MainThread, TerminalLost
  <1>2. RequestInv /\ RequestInv' /\ After' = After
    BY <1>1 DEF WorkInv, RequestInv, After
  <1>3. HeldInv' = HeldInv /\ AnalysisInv' = AnalysisInv
    BY <1>1 DEF HeldInv, AnalysisInv
  <1>4. CASE Spawn
    <2>1. main = "setup" /\ main' = "receive" /\ worker' = "running"
      BY <1>4 DEF Spawn, Launch
    <2>2. step' = IF request.operation = "image" THEN "start" ELSE "Inspecting"
      BY <1>4 DEF Spawn
    <2>3. NotBegun
      BY <2>1 DEF WorkInv
    <2>4. step' \in DOMAIN After
      BY <2>2 DEF After, ImageAfter, FlashAfter
    <2>5. step' \notin PastFind /\ step' # "none"
      BY <2>2 DEF PastFind, Due
    <2> QED
      BY <1>1, <1>2, <2>1, <2>3, <2>4, <2>5
      DEF WorkInv, NotBegun, PastFind, PastAnalysis
  <1>5. CASE MainThread \/ TerminalLost
    <2>1. step' = step
      BY <1>5 DEF MainThread, TerminalLost
    <2>2. main # "setup" \/ TerminalLost
      BY <1>5 DEF MainThread, MainNext, Receive, ReceiveResult, ReceiveNothing,
           JoinPanicked, Join, Acknowledge
    <2>3. /\ main' # "setup"
          /\ worker' = "running" => worker = "running"
          /\ main' = "acknowledge" => worker' = "ended"
          /\ main' = "exited" => worker' \notin {"running", "finished"}
      BY <1>5 DEF MainThread, TerminalLost, MainNext, Receive, ReceiveResult,
           ReceiveNothing, JoinPanicked, Join, Acknowledge, LoseTerminal,
           WorkInv
    <2> QED BY <1>1, <1>2, <1>3, <2>1, <2>3 DEF WorkInv
  <1> QED BY <1>4, <1>5

\* The worker goes from step to step, and past a search and an analysis only
\* with what they need.
LEMMA WorkerKeepsWork ==
  ASSUME WorkInv, WorkerNext
  PROVE  WorkInv'
  <1> USE DEF KeepMain, KeepRest, KeepDisks, Quiet, wizard
  <1>1. /\ screen' = screen /\ request' = request /\ chosen' = chosen
        /\ main' = main /\ After' = After
    BY DEF WorkerNext, Report, ReportProgress, Find, Analyze,
           Revalidate, Change, PassOn, Return, EndWorker, Panic, After
  <1>2. /\ screen = "started" /\ RequestInv /\ RequestInv'
        /\ main \notin {"setup", "acknowledge", "exited"}
    BY <1>1 DEF WorkInv, NotBegun, RequestInv, WorkerNext, Report,
         ReportProgress, Find, Analyze, Revalidate, Change, PassOn, Return,
         EndWorker, Panic, Working
  <1>3. CASE UNCHANGED <<step, held, analysed, touched>>
               /\ (worker' = worker \/ worker' # "running")
    BY <1>1, <1>2, <1>3 DEF WorkInv, HeldInv, AnalysisInv
  <1>4. ASSUME Working, Advance, UNCHANGED worker, step \in DOMAIN After,
               /\ UNCHANGED <<held, analysed>>
               /\ touched' = touched \/ step = "change"
               /\ step \notin {"find", "analyze"}
        PROVE  WorkInv'
    <2>1. step' = After[step]
      BY <1>4 DEF Advance
    <2>2. /\ step' \in {"return"} \cup DOMAIN After /\ step' # "none"
          /\ step' \in PastFind => step \in PastFind
          /\ step' \in PastAnalysis /\ request.operation = "image" =>
               step \in PastAnalysis
          /\ step \in PastChange \cup {"change"} => step' \in PastChange
      BY <1>4, <2>1, StepOrder
    <2>3. /\ step' \in PastFind => HeldInv'
          /\ step' \in PastAnalysis => AnalysisInv'
      BY <1>1, <1>4, <2>2 DEF WorkInv, HeldInv, AnalysisInv
    <2>4. touched' # NoDisk => step' \in PastChange
      BY <1>4, <2>2 DEF WorkInv
    <2> QED BY <1>1, <1>2, <1>4, <2>2, <2>3, <2>4 DEF WorkInv, Working
  <1>5. CASE Report \/ ReportProgress \/ Revalidate \/ Change \/ PassOn
    <2>1. step \notin {"none", "return", "find", "analyze"}
      BY <1>5 DEF Report, ReportProgress, Revalidate, Change, PassOn,
         MayReport, Events, Reports, Silent
    <2>2. step \in DOMAIN After
      BY <2>1 DEF WorkInv
    <2>3. /\ Working /\ UNCHANGED <<worker, held, analysed>>
          /\ touched' = touched \/ step = "change"
      BY <1>5 DEF Report, ReportProgress, Revalidate, Change, PassOn
    <2>4. Advance \/ UNCHANGED <<step, touched>>
      BY <1>5 DEF Report, ReportProgress, Revalidate, Change, PassOn
    <2> QED BY <1>3, <1>4, <2>1, <2>2, <2>3, <2>4
  <1>6. CASE Find
    <2>1. /\ step = "find" /\ step' = After["find"] /\ step \in DOMAIN After
          /\ UNCHANGED <<worker, analysed, touched>>
      BY <1>6 DEF Find, Advance, WorkInv
    <2>2. /\ step' \in DOMAIN After /\ step' # "none"
          /\ request.operation = "image" => step' \notin PastAnalysis
      BY <2>1 DEF After, ImageAfter, FlashAfter, PastAnalysis
    <2>3. HeldInv'
      BY <1>1, <1>6 DEF Find, Found, FoundFor, HeldInv
    <2>4. touched' = NoDisk
      BY <2>1 DEF WorkInv, PastChange
    <2>5. step' \in PastAnalysis => AnalysisInv'
      BY <1>1, <2>2 DEF AnalysisInv
    <2> QED BY <1>1, <1>2, <2>1, <2>2, <2>3, <2>4, <2>5 DEF WorkInv
  <1>7. CASE Analyze
    <2>1. /\ step = "analyze" /\ step' = After["analyze"]
          /\ step \in DOMAIN After
          /\ UNCHANGED <<worker, held, touched>>
      BY <1>7 DEF Analyze, Advance, WorkInv
    <2>2. step' \in DOMAIN After /\ step' # "none"
      BY <2>1 DEF After, ImageAfter, FlashAfter
    <2>3. HeldInv' /\ AnalysisInv'
      BY <1>1, <1>7, <2>1 DEF Analyze, Analyzable, WorkInv, HeldInv,
         AnalysisInv, PastFind
    <2>4. touched' = NoDisk
      BY <2>1 DEF WorkInv, PastChange
    <2> QED BY <1>1, <1>2, <2>1, <2>2, <2>3, <2>4 DEF WorkInv
  <1>8. CASE Return("ok") \/ Return("error") \/ EndWorker \/ Panic
    BY <1>3, <1>8 DEF Return, EndWorker, Panic, work
  <1> QED
    BY <1>5, <1>6, <1>7, <1>8 DEF WorkerNext

\* It holds from the first screen on, wherever disks are exchanged.
LEMMA WorkInvariant == Spec => []WorkInv
  <1>1. Init => WorkInv
    BY DEF Init, WizardInit, DashboardInit, WorkInv, NotBegun, PastFind,
           PastAnalysis, Due
  <1>2. SetupInv /\ WorkInv /\ [Next]_vars => WorkInv'
    <2> SUFFICES ASSUME SetupInv, WorkInv, [Next]_vars PROVE WorkInv'
      OBVIOUS
    <2>1. CASE Setup
      BY <2>1, SetupKeepsWork
    <2>2. CASE Spawn \/ MainThread \/ TerminalLost
      BY <2>2, MainKeepsWork
    <2>3. CASE WorkerNext
      BY <2>3, WorkerKeepsWork
    <2>4. CASE SwapDisk \/ Done \/ UNCHANGED vars
      BY <2>4 DEF SwapDisk, Done, vars, wizard, dashboard, work, WorkInv,
           NotBegun, RequestInv, HeldInv, AnalysisInv, After
    <2> QED BY <2>1, <2>2, <2>3, <2>4 DEF Next
  <1> QED BY <1>1, <1>2, SetupInvariant, PTL DEF Spec

\* Only a look leads behind the last one, and only the change changes a disk.
LEMMA WorkerKeepsLook ==
  ASSUME WorkInv, LookInv, WorkerNext
  PROVE  LookInv'
  <1> USE DEF KeepMain, KeepRest, KeepDisks, Quiet, wizard
  <1>1. request' = request /\ plugged' = plugged /\ After' = After
    BY DEF WorkerNext, Report, ReportProgress, Find, Analyze,
           Revalidate, Change, PassOn, Return, EndWorker, Panic, After
  <1>2. CASE UNCHANGED <<step, held, touched>>
               /\ (worker' = worker \/ worker' # "running")
    BY <1>1, <1>2 DEF LookInv, SameIdentity
  <1>3. ASSUME Advance, UNCHANGED <<worker, held, touched>>,
               step \notin {"none", "return", "revalidate", "lookAgain"}
        PROVE  LookInv'
    <2>1. step' \in Due => step \in Due
      BY <1>3, StepOrder DEF Advance, WorkInv
    <2> QED BY <1>1, <1>3, <2>1 DEF LookInv, SameIdentity
  <1>4. CASE Report \/ ReportProgress \/ PassOn \/ Analyze
    <2>1. step \notin {"none", "return", "revalidate", "lookAgain"}
      BY <1>4 DEF Report, ReportProgress, PassOn, Analyze, MayReport, Events,
         Reports, Silent
    <2>2. UNCHANGED <<worker, held, touched>> /\ (Advance \/ UNCHANGED step)
      BY <1>4 DEF Report, ReportProgress, PassOn, Analyze
    <2> QED BY <1>2, <1>3, <2>1, <2>2
  <1>5. CASE Find
    <2>1. step = "find" /\ step' = After["find"] /\ step \in DOMAIN After
          /\ touched' = touched
      BY <1>5 DEF Find, Advance, WorkInv
    <2>2. step' \notin Due /\ touched' = NoDisk
      BY <2>1 DEF After, ImageAfter, FlashAfter, Due, WorkInv, PastChange
    <2> QED BY <2>2 DEF LookInv
  <1>6. CASE Revalidate
    BY <1>1, <1>6 DEF Revalidate, LookInv, SameIdentity
  <1>7. CASE Change
    <2>1. /\ step = "change" /\ worker = "running" /\ step' = After["change"]
          /\ step \in DOMAIN After
          /\ touched' = plugged[request.path] /\ held' = held
      BY <1>7 DEF Change, Advance, Working, WorkInv
    <2>2. SameIdentity(held, plugged[request.path])
      BY <2>1 DEF LookInv, Due
    <2>3. step' \notin Due
      BY <2>1 DEF After, ImageAfter, FlashAfter, Due
    <2> QED BY <2>1, <2>2, <2>3 DEF LookInv, SameIdentity
  <1>8. CASE Return("ok") \/ Return("error") \/ EndWorker \/ Panic
    BY <1>2, <1>8 DEF Return, EndWorker, Panic, work
  <1> QED
    BY <1>4, <1>5, <1>6, <1>7, <1>8 DEF WorkerNext

\* No disk is exchanged while the path has to hold one of that identity.
LEMMA SwapKeepsLook ==
  ASSUME QuietBehindLook, WorkInv, LookInv, SwapDisk
  PROVE  LookInv'
  <1>1. UNCHANGED <<worker, step, held, touched>> /\ Moment \in SwapsAt
    BY DEF SwapDisk, work
  <1>2. ~(worker = "running" /\ step \in Due)
    <2> SUFFICES ASSUME worker = "running", step \in Due PROVE FALSE
      OBVIOUS
    <2>1. screen = "started" /\ main # "exited"
      BY DEF WorkInv, NotBegun
    <2>2. Moment = step
      BY <2>1 DEF Moment, InSetup
    <2> QED BY <1>1, <2>2 DEF QuietBehindLook
  <1> QED BY <1>1, <1>2 DEF LookInv, SameIdentity

\* And it has it from its search to the end.
LEMMA LookInvariant ==
  ASSUME QuietBehindLook
  PROVE  Spec => []LookInv
  <1>1. Init => LookInv
    BY DEF Init, LookInv, Due
  <1>2. SetupInv /\ WorkInv /\ LookInv /\ [Next]_vars => LookInv'
    <2> SUFFICES ASSUME SetupInv, WorkInv, LookInv, [Next]_vars PROVE LookInv'
      OBVIOUS
    <2>1. CASE Setup
      <3>1. step' = "none" /\ touched' = NoDisk
        BY <2>1, WizardRequests DEF Setup, NoRun, work, WorkInv, NotBegun
      <3> QED BY <3>1 DEF LookInv, Due
    <2>2. CASE Spawn
      <3>1. step' \in {"start", "Inspecting"} /\ touched' = NoDisk
        BY <2>2 DEF Spawn, Launch, KeepWork, WorkInv, NotBegun
      <3> QED BY <3>1 DEF LookInv, Due
    <2>3. CASE MainThread \/ TerminalLost
      <3>1. /\ UNCHANGED <<step, held, touched, plugged, request>>
            /\ worker' = "running" => worker = "running"
        BY <2>3 DEF MainThread, TerminalLost, KeepWork, wizard, work, MainNext,
           Receive, ReceiveResult, ReceiveNothing, JoinPanicked, Join,
           Acknowledge, LoseTerminal
      <3> QED BY <3>1 DEF LookInv, SameIdentity
    <2>4. CASE WorkerNext
      BY <2>4, WorkerKeepsLook
    <2>5. CASE SwapDisk
      BY <2>5, SwapKeepsLook
    <2>6. CASE Done \/ UNCHANGED vars
      BY <2>6 DEF Done, vars, wizard, work, LookInv, SameIdentity
    <2> QED BY <2>1, <2>2, <2>3, <2>4, <2>5, <2>6 DEF Next
  <1> QED BY <1>1, <1>2, SetupInvariant, WorkInvariant, PTL DEF Spec

\* For every list of disks and every exchange of them up to the last look: the
\* disk that is changed has the identity of the one that was found, and is of
\* the model that was selected and typed, and before an image is made a layout
\* was read and supported, though maybe that of a card exchanged since.
THEOREM OnlyConfirmedModel ==
  ASSUME QuietBehindLook
  PROVE  Spec => []ConfirmedModelTouched
  <1>1. WorkInv /\ LookInv => ConfirmedModelTouched
    <2> SUFFICES ASSUME WorkInv, LookInv, touched # NoDisk
                 PROVE  /\ SameIdentity(held, touched)
                        /\ touched.model = chosen.model
                        /\ request.operation = "image" => Analyzable(analysed)
      BY DEF ConfirmedModelTouched
    <2>1. step \in PastChange /\ SameIdentity(held, touched)
      BY DEF WorkInv, LookInv
    <2>2. screen = "started"
      BY DEF WorkInv, NotBegun
    <2>3. RequestInv /\ HeldInv /\ AnalysisInv
      BY <2>1, <2>2 DEF WorkInv, PastChange, PastFind, PastAnalysis
    <2> QED
      BY <2>1, <2>3 DEF RequestInv, HeldInv, AnalysisInv, SameIdentity
  <1> QED BY <1>1, WorkInvariant, LookInvariant, PTL
-----------------------------------------------------------------------------
(* Types *)

Screens ==
  {"operation", "started", "cancelled"}
    \cup {"device", "confirm", "output", "verification", "review"}
    \cup {"image", "preVerify", "target", "targetConfirm", "postVerify",
          "flashReview"}

\* What the wizards hold, and what is plugged in.
WizardTypes ==
  /\ screen \in Screens
  /\ model.selected \in {0} \cup Paths /\ setup.selected \in {0} \cup Paths
  /\ model.confirmation \in Texts \cup {NoText}
  /\ DOMAIN model.output = {"base", "cut", "ext"}
  /\ model.output.cut \in 0..MaxCut
  /\ plugged \in [Paths -> Disks \cup {NoDisk}]

\* A fresh model is typed.
LEMMA NewModelTypes ==
  /\ NewModel.selected = 0 /\ NewSetup.selected = 0
  /\ NewModel.confirmation = NoText
  /\ DOMAIN NewModel.output = {"base", "cut", "ext"}
  /\ NewModel.output.cut \in 0..MaxCut
  <1>1. Empty = [base |-> "", cut |-> 0, ext |-> "none"]
    BY DEF Empty, Name
  <1>2. /\ NewModel.selected = 0 /\ NewSetup.selected = 0
        /\ NewModel.confirmation = NoText /\ NewModel.output = Empty
    BY DEF NewModel, NewSetup
  <1>3. DOMAIN Empty = {"base", "cut", "ext"} /\ Empty.cut = 0
    BY <1>1
  <1>4. 0 \in 0..MaxCut
    BY NamesAssumption
  <1> QED BY <1>2, <1>3, <1>4

\* What selecting a device leaves in the model.
LEMMA SelectionTypes ==
  ASSUME NEW old, DOMAIN old = DOMAIN NewModel, NEW i, NEW layout,
         DOMAIN old.output = {"base", "cut", "ext"},
         old.output.cut \in 0..MaxCut,
         NEW new \in WithOutput(Selected(old, i))
  PROVE  /\ DOMAIN Warned(new, layout).output = {"base", "cut", "ext"}
         /\ Warned(new, layout).output.cut \in 0..MaxCut
  <1> DEFINE one == Selected(old, i)
  <1>1. DOMAIN one = DOMAIN NewModel /\ one.output = old.output
    BY DEF Selected, NewModel
  <1>2. new \in {one, [one EXCEPT !.output = DefaultName, !.automatic = TRUE]}
    BY DEF WithOutput
  <1>3. /\ DOMAIN new = DOMAIN NewModel
        /\ new.output \in {old.output, DefaultName}
    <2> HIDE DEF one
    <2> QED BY <1>1, <1>2 DEF NewModel
  <1>4. Warned(new, layout).output = new.output
    BY <1>3 DEF Warned, NewModel
  <1> QED BY <1>3, <1>4, NamesAssumption DEF DefaultName, Name

\* Every key of the image wizard keeps the types.
LEMMA ImageKeyTypes ==
  ASSUME SetupInv, WizardTypes, ImageKey
  PROVE  WizardTypes'
  <1> USE DEF Keep, KeepImage, Show
  <1>1. DOMAIN model = DOMAIN NewModel
    BY DEF SetupInv
  <1>2. ASSUME NEW i \in Paths, SelectDevice(i) PROVE WizardTypes'
    <2>1. PICK new \in WithOutput(Selected(model, i)) :
            model' = Warned(new, plugged[i].layout)
      BY <1>2 DEF SelectDevice
    <2>2. /\ model'.selected = i /\ model'.confirmation = NoText
      BY <1>1, <2>1, SelectionResets
    <2>3. /\ DOMAIN model'.output = {"base", "cut", "ext"}
          /\ model'.output.cut \in 0..MaxCut
      BY <1>1, <2>1, SelectionTypes DEF WizardTypes
    <2>4. screen' = "confirm" /\ setup' = setup /\ plugged' = plugged
      BY <1>2 DEF SelectDevice
    <2> QED BY <2>2, <2>3, <2>4 DEF WizardTypes, Screens
  <1>3. ASSUME NEW text \in Texts, TypeConfirmation(text) PROVE WizardTypes'
    <2>1. /\ model'.selected = model.selected /\ model'.confirmation = text
          /\ model'.output = model.output
          /\ UNCHANGED <<screen, setup, plugged>>
      BY <1>1, <1>3 DEF TypeConfirmation, NewModel
    <2> QED BY <2>1 DEF WizardTypes
  <1>4. CASE ConfirmDevice
    BY <1>4 DEF ConfirmDevice, WizardTypes, Screens
  <1>5. ASSUME NEW name \in TypedNames, TypeOutput(name) PROVE WizardTypes'
    <2>1. /\ model'.selected = model.selected
          /\ model'.confirmation = model.confirmation
          /\ model'.output = name
          /\ UNCHANGED <<screen, setup, plugged>>
      BY <1>1, <1>5 DEF TypeOutput, NewModel
    <2>2. DOMAIN name = {"base", "cut", "ext"} /\ name.cut \in 0..MaxCut
      BY NamesAssumption DEF Name
    <2> QED BY <2>1, <2>2 DEF WizardTypes
  <1>6. ASSUME NEW compression \in Compressions, SetCompression(compression)
        PROVE  WizardTypes'
    <2> DEFINE name == IF model.automatic
                         THEN Renamed(model.output, compression)
                         ELSE model.output
    <2>1. name.cut <= MaxCut /\ UNCHANGED <<screen, setup, plugged>>
      BY <1>6 DEF SetCompression
    <2>2. /\ model' = [model EXCEPT !.compression = compression,
                                    !.output = name]
      BY <1>6 DEF SetCompression
    <2>3. DOMAIN name = {"base", "cut", "ext"}
      BY DEF Renamed, WizardTypes
    <2>4. name.cut \in Nat
      BY DEF Renamed, WizardTypes
    <2> HIDE DEF name
    <2>5. /\ model'.selected = model.selected
          /\ model'.confirmation = model.confirmation
          /\ model'.output = name
      BY <1>1, <2>2 DEF NewModel
    <2> QED BY <2>1, <2>3, <2>4, <2>5, NamesAssumption DEF WizardTypes
  <1>7. CASE LeaveOutput
    <2> DEFINE name == Completed(model.output, model.compression)
    <2>1. DOMAIN name = {"base", "cut", "ext"} /\ name.cut \in 0..MaxCut
      BY DEF Completed, WizardTypes
    <2>2. model' = [model EXCEPT !.output = name]
      BY <1>7 DEF LeaveOutput
    <2> HIDE DEF name
    <2>3. /\ model'.selected = model.selected
          /\ model'.confirmation = model.confirmation
          /\ model'.output = name
      BY <1>1, <2>2 DEF NewModel
    <2>4. /\ screen' \in {"verification", "output"}
          /\ UNCHANGED <<setup, plugged>>
      BY <1>7 DEF LeaveOutput
    <2> QED BY <2>1, <2>3, <2>4 DEF WizardTypes, Screens
  <1>8. ASSUME NEW level \in Levels, SetVerification(level) PROVE WizardTypes'
    <2>1. /\ model'.selected = model.selected
          /\ model'.confirmation = model.confirmation
          /\ model'.output = model.output
          /\ UNCHANGED <<screen, setup, plugged>>
      BY <1>1, <1>8 DEF SetVerification, NewModel
    <2> QED BY <2>1 DEF WizardTypes
  <1>9. CASE Preview
    <2>1. /\ model'.selected = model.selected
          /\ model'.confirmation = model.confirmation
          /\ model'.output = model.output
          /\ UNCHANGED <<setup, plugged>> /\ screen' = "review"
      BY <1>1, <1>9 DEF Preview, Previewed, NewModel
    <2> QED BY <2>1 DEF WizardTypes, Screens
  <1>10. CASE Previous
    BY <1>10 DEF Previous, Before, WizardTypes, Screens
  <1>11. CASE StartImage
    <2>1. /\ model' = NewModel /\ screen' = "started"
          /\ UNCHANGED <<setup, plugged>>
      BY <1>11 DEF StartImage
    <2> QED BY <2>1, NewModelTypes DEF WizardTypes, Screens
  <1> QED
    BY <1>2, <1>3, <1>4, <1>5, <1>6, <1>7, <1>8, <1>9, <1>10, <1>11
       DEF ImageKey

\* And so does every key of the flash wizard.
LEMMA FlashKeyTypes ==
  ASSUME SetupInv, WizardTypes, FlashKey
  PROVE  WizardTypes'
  <1> USE DEF Keep, KeepFlash, Show, WizardTypes
  <1>1. DOMAIN setup = DOMAIN NewSetup
    BY DEF SetupInv
  <1>2. ASSUME NEW image \in Images, TypeImage(image) PROVE WizardTypes'
    BY <1>1, <1>2 DEF TypeImage, NewSetup
  <1>3. CASE LeaveImage
    BY <1>3 DEF LeaveImage, Screens
  <1>4. ASSUME NEW level \in {"none", "basic", "full"}, SetPreVerify(level)
        PROVE  WizardTypes'
    BY <1>1, <1>4 DEF SetPreVerify, NewSetup
  <1>5. CASE InspectImage
    BY <1>5 DEF InspectImage, Screens
  <1>6. ASSUME NEW i \in Paths, SelectTarget(i) PROVE WizardTypes'
    BY <1>1, <1>6 DEF SelectTarget, NewSetup, Screens
  <1>7. ASSUME NEW text \in Texts, TypeTarget(text) PROVE WizardTypes'
    BY <1>1, <1>7 DEF TypeTarget, NewSetup
  <1>8. CASE ConfirmTarget
    BY <1>8 DEF ConfirmTarget, Screens
  <1>9. ASSUME NEW level \in {"none", "full"}, SetPostVerify(level)
        PROVE  WizardTypes'
    BY <1>1, <1>9 DEF SetPostVerify, NewSetup
  <1>10. CASE LeavePostVerify
    BY <1>10 DEF LeavePostVerify, Screens
  <1>11. CASE StartFlash
    BY <1>11, NewModelTypes DEF StartFlash, Screens
  <1> QED
    BY <1>2, <1>3, <1>4, <1>5, <1>6, <1>7, <1>8, <1>9, <1>10, <1>11
       DEF FlashKey

\* Every step of the wizards keeps the types.
LEMMA WizardKeepsTypes ==
  ASSUME SetupInv, WizardTypes, WizardNext
  PROVE  WizardTypes'
  <1>1. CASE ChooseOperation
    BY <1>1 DEF ChooseOperation, Show, Keep, WizardTypes, Screens
  <1>2. CASE Cancel
    BY <1>2, NewModelTypes DEF Cancel, Show, WizardTypes, Screens
  <1> QED BY <1>1, <1>2, ImageKeyTypes, FlashKeyTypes DEF WizardNext

\* Only the wizards and exchanges of disks touch what these types are about.
LEMMA WizardTypesInvariant == Spec => []WizardTypes
  <1>1. Init => WizardTypes
    <2> SUFFICES ASSUME Init PROVE WizardTypes
      OBVIOUS
    <2>1. /\ screen = "operation" /\ model = NewModel /\ setup = NewSetup
          /\ plugged = Listed
      BY DEF Init, WizardInit
    <2>2. Listed \in [Paths -> Disks]
      BY ListedAssumption DEF Paths
    <2>3. plugged \in [Paths -> Disks \cup {NoDisk}]
      BY <2>1, <2>2
    <2> QED BY <2>1, <2>3, NewModelTypes DEF WizardTypes, Screens
  <1>2. SetupInv /\ WizardTypes /\ [Next]_vars => WizardTypes'
    <2> SUFFICES ASSUME SetupInv, WizardTypes, [Next]_vars PROVE WizardTypes'
      OBVIOUS
    <2>1. CASE Setup
      BY <2>1, WizardKeepsTypes DEF Setup
    <2>2. CASE UNCHANGED <<wizard, plugged>>
      BY <2>2 DEF wizard, WizardTypes
    <2>3. CASE Spawn \/ MainThread \/ TerminalLost
      BY <2>2, <2>3 DEF Spawn, MainThread, TerminalLost, KeepWork
    <2>4. CASE WorkerNext
      BY <2>2, <2>4 DEF WorkerNext, Report, ReportProgress, Find, Analyze,
           Revalidate, Change, PassOn, Return, EndWorker, Panic, Quiet, KeepRest
    <2>5. CASE SwapDisk
      BY <2>5 DEF SwapDisk, wizard, WizardTypes
    <2>6. CASE Done \/ UNCHANGED vars
      BY <2>2, <2>6 DEF Done, vars
    <2> QED BY <2>1, <2>3, <2>4, <2>5, <2>6 DEF Next
  <1> QED BY <1>1, <1>2, SetupInvariant, PTL DEF Spec
-----------------------------------------------------------------------------
(* The channel and what the dashboard shows *)

Results == {"ok", "error"}

Message == [kind : {"event"}, event : Messages]
             \cup [kind : {"finished"}, result : Results]

ImageMessages == DOMAIN PhaseOf \cup {"Warning"}

FlashMessages ==
  {"Inspecting", "MissingSidecar", "PreparingTarget", "Writing",
   "VerifyingTarget", "Complete"}

\* Phases of an imaging run, which are listed, and other events of the list.
Labels ==
  {"inspect", "shrink", "extract", "verify", "complete", "warning", "failed"}

DashType ==
  {shown \in [phase : {"none"} \cup Labels \cup FlashMessages,
              events : Seq(Labels), error : BOOLEAN] :
     Len(shown.events) <= MaxRecentEvents}

MessagesSent ==
  IF request.operation = "image" THEN ImageMessages ELSE FlashMessages

OnlyEvents(messages) ==
  \A i \in DOMAIN messages : messages[i].kind = "event"

\* The result comes last.
ResultLast ==
  /\ queue # << >> /\ queue[Len(queue)] = Finished(verdict)
  /\ \A i \in 1..(Len(queue) - 1) : queue[i].kind = "event"

\* Where the main thread and the worker can be.
ProgramInv ==
  /\ main \in {"setup", "receive", "join", "acknowledge", "exited"}
  /\ worker \in {"none", "running", "finished", "ended", "panicked", "killed"}
  /\ screen # "started" => main = "setup"
  /\ screen = "started" =>
       request.operation \in {"image", "flash"} /\ request.path \in Paths
  /\ main = "setup" =>
       /\ worker = "none" /\ step = "none" /\ queue = << >>
       /\ dash = EmptyDash /\ outcome = NoResult /\ status = NoResult
  /\ step # "none" => step \in {"return"} \cup DOMAIN After
  /\ worker = "running" => step # "none"
  /\ main = "acknowledge" => worker = "ended"
  /\ main = "exited" => worker \notin {"running", "finished"}
  /\ worker = "killed" => main = "exited"

\* What is in the channel, and where the result is.
ChannelInv ==
  /\ queue \in Seq(Message)
  /\ \A i \in DOMAIN queue :
       queue[i].kind = "event" => queue[i].event \in MessagesSent
  /\ worker \in {"none", "running"} => verdict = NoResult
  /\ worker \in {"none", "running", "panicked"} => OnlyEvents(queue)
  /\ worker = "panicked" => verdict = "error"
  /\ worker \in {"finished", "ended"} =>
       /\ verdict \in Results
       /\ main = "receive" => ResultLast
       /\ main \in {"join", "acknowledge"} => queue = << >>
  /\ main \in {"join", "acknowledge"} =>
       worker \in {"finished", "ended", "panicked"} /\ outcome = verdict
  /\ verdict \in Results \cup {NoResult}
  /\ verdict = "ok" => step = "return"

\* The event that completes the operation is the last one, wherever it is.
CompleteSent ==
  step = "return" \/ (step = "log" /\ request.operation = "image")

CompleteArrives ==
  \/ /\ dash.phase = "complete"
     /\ \A i \in DOMAIN queue : queue[i].kind = "finished"
  \/ \E i \in DOMAIN queue :
       /\ queue[i] = Event("Complete")
       /\ \A j \in DOMAIN queue : j > i => queue[j].kind = "finished"

\* What is shown and what is returned.
ShownInv ==
  /\ drawn = dash /\ dash \in DashType
  /\ main \in {"setup", "receive", "join"} => ~dash.error
  /\ main = "acknowledge" => dash.error = (verdict = "error")
  /\ main # "setup" /\ CompleteSent => CompleteArrives
  /\ main = "exited" /\ status # "lost" =>
       status = verdict /\ worker \in {"ended", "panicked"}

\* The last n of a sequence.
LEMMA LastOfFacts ==
  ASSUME NEW S, NEW s \in Seq(S), NEW n \in Nat \ {0}
  PROVE  /\ LastOf(s, n) \in Seq(S)
         /\ Len(LastOf(s, n)) <= n
         /\ Len(s) <= n => LastOf(s, n) = s
  <1>1. CASE Len(s) > n
    <2>1. LastOf(s, n) = SubSeq(s, Len(s) - n + 1, Len(s))
      BY <1>1 DEF LastOf
    <2>2. Len(s) \in Nat /\ Len(s) - n + 1 \in 1..Len(s)
      BY <1>1
    <2> QED BY <1>1, <2>1, <2>2, SubSeqProperties
  <1>2. CASE Len(s) <= n
    <2>1. Len(s) \in Nat /\ ~(Len(s) > n)
      BY <1>2
    <2>2. LastOf(s, n) = SubSeq(s, 1, Len(s))
      BY <2>1 DEF LastOf
    <2>3. SubSeq(s, 1, Len(s)) = s
      BY SubSeqFull
    <2> QED BY <1>2, <2>2, <2>3
  <1>3. Len(s) \in Nat
    OBVIOUS
  <1> QED BY <1>1, <1>2, <1>3

\* An event pushed on the list leaves phase and error as they are, and pushes
\* another one out only if there are as many as are kept.
LEMMA PushEventFacts ==
  ASSUME NEW old \in DashType, NEW event \in Labels
  PROVE  /\ PushEvent(old, event) \in DashType
         /\ PushEvent(old, event).phase = old.phase
         /\ PushEvent(old, event).error = old.error
         /\ Len(old.events) < MaxRecentEvents =>
              PushEvent(old, event).events = Append(old.events, event)
  <1> DEFINE longer == Append(old.events, event)
             last == LastOf(longer, MaxRecentEvents)
  <1>1. longer \in Seq(Labels) /\ Len(longer) = Len(old.events) + 1
    BY DEF DashType
  <1>2. Len(old.events) \in Nat
    BY DEF DashType
  <1>3. MaxRecentEvents \in Nat \ {0}
    BY DEF MaxRecentEvents
  <1>4. /\ last \in Seq(Labels) /\ Len(last) <= MaxRecentEvents
        /\ Len(old.events) < MaxRecentEvents => last = longer
    <2> HIDE DEF longer
    <2> QED BY <1>1, <1>2, <1>3, LastOfFacts
  <1>5. PushEvent(old, event) = [old EXCEPT !.events = last]
    BY DEF PushEvent
  <1> HIDE DEF last
  <1> QED BY <1>4, <1>5 DEF DashType

\* What an event does to the dashboard.
LEMMA AppliedFacts ==
  ASSUME NEW old \in DashType, NEW operation, NEW event,
         event \in IF operation = "image" THEN ImageMessages ELSE FlashMessages
  PROVE  /\ Applied(operation, old, event) \in DashType
         /\ Applied(operation, old, event).error = old.error
         /\ event = "Complete" =>
              Applied(operation, old, event).phase = "complete"
  <1>1. CASE operation = "image"
    <2>1. CASE event = "Warning"
      BY <1>1, <2>1, PushEventFacts DEF Applied, ImageApplied, Labels
    <2>2. CASE event # "Warning" /\ BeginsPhase(old, event)
      <3> DEFINE begun == [old EXCEPT !.phase = PhaseOf[event]]
      <3>1. /\ PhaseOf[event] \in Labels
            /\ event = "Complete" => PhaseOf[event] = "complete"
        BY <1>1, <2>2 DEF ImageMessages, PhaseOf, Labels
      <3>2. /\ begun \in DashType /\ begun.error = old.error
            /\ begun.phase = PhaseOf[event]
        BY <3>1 DEF DashType
      <3>3. Applied(operation, old, event) = PushEvent(begun, PhaseOf[event])
        BY <1>1, <2>2 DEF Applied, ImageApplied, SetPhase
      <3> HIDE DEF begun
      <3> QED BY <3>1, <3>2, <3>3, PushEventFacts
    <2>3. CASE event # "Warning" /\ ~BeginsPhase(old, event)
      BY <1>1, <2>3 DEF Applied, ImageApplied, BeginsPhase
    <2> QED BY <2>1, <2>2, <2>3
  <1>2. CASE operation # "image"
    <2>1. Applied(operation, old, event) = FlashApplied(old, event)
      BY <1>2 DEF Applied
    <2>2. event \in FlashMessages /\ "complete" \in Labels
      BY <1>2 DEF Labels
    <2>3. <<"warning">> \in Seq(Labels) /\ Len(<<"warning">>) = 1
      BY DEF Labels
    <2>4. CASE event = "MissingSidecar"
      <3> DEFINE one == <<"warning">>
      <3>1. one \in Seq(Labels) /\ Len(one) <= MaxRecentEvents
        BY <2>3 DEF MaxRecentEvents
      <3>2. Applied(operation, old, event) = [old EXCEPT !.events = one]
        BY <2>1, <2>4 DEF FlashApplied
      <3> HIDE DEF one
      <3> QED BY <2>4, <3>1, <3>2 DEF DashType
    <2>5. CASE event # "MissingSidecar"
      BY <2>1, <2>2, <2>5 DEF FlashApplied, DashType
    <2> QED BY <2>4, <2>5
  <1> QED BY <1>1, <1>2

\* A failure that is shown leaves the phase as it is.
LEMMA FailureFacts ==
  ASSUME NEW old \in DashType, NEW operation
  PROVE  /\ FailureShown(operation, old) \in DashType
         /\ FailureShown(operation, old).error
         /\ FailureShown(operation, old).phase = old.phase
  <1> DEFINE failed ==
        IF operation = "image" THEN PushEvent(old, "failed") ELSE old
  <1>1. failed \in DashType /\ failed.phase = old.phase
    BY PushEventFacts DEF Labels
  <1>2. FailureShown(operation, old) = [failed EXCEPT !.error = TRUE]
    BY DEF FailureShown
  <1> HIDE DEF failed
  <1> QED BY <1>1, <1>2 DEF DashType

TalkInv == ProgramInv /\ ChannelInv /\ ShownInv

\* Appending to the channel.
LEMMA AppendFacts ==
  ASSUME NEW S, NEW s \in Seq(S), NEW x \in S
  PROVE  /\ Append(s, x) \in Seq(S)
         /\ Append(s, x) # << >>
         /\ Len(Append(s, x)) = Len(s) + 1
         /\ DOMAIN s = 1..Len(s) /\ Len(s) \in Nat
         /\ DOMAIN Append(s, x) = 1..(Len(s) + 1)
         /\ \A i \in DOMAIN s : Append(s, x)[i] = s[i]
         /\ Append(s, x)[Len(s) + 1] = x
  OBVIOUS

\* Taking from the channel.
LEMMA TailFacts ==
  ASSUME NEW S, NEW s \in Seq(S), s # << >>
  PROVE  /\ Tail(s) \in Seq(S) /\ Head(s) \in S /\ Head(s) = s[1]
         /\ Len(s) \in Nat /\ Len(s) >= 1 /\ Len(Tail(s)) = Len(s) - 1
         /\ DOMAIN s = 1..Len(s) /\ DOMAIN Tail(s) = 1..(Len(s) - 1)
         /\ \A i \in 1..(Len(s) - 1) : Tail(s)[i] = s[i + 1]
  <1>1. Len(s) \in Nat /\ Len(s) >= 1
    BY EmptySeq, LenProperties
  <1> QED BY <1>1, HeadTailProperties, LenProperties

\* Messages of the two kinds.
LEMMA MessageFacts ==
  /\ \A event \in Messages : /\ Event(event) \in Message
                             /\ Event(event).kind = "event"
                             /\ Event(event).event = event
  /\ \A result \in Results : /\ Finished(result) \in Message
                             /\ Finished(result).kind = "finished"
                             /\ Finished(result).result = result
  /\ \A message \in Message :
       \/ message.kind = "event" /\ message.event \in Messages
       \/ message.kind = "finished" /\ message.result \in Results
  BY DEF Message, Event, Finished

\* Only Complete leads to the steps behind it.
LEMMA CompleteOrder ==
  ASSUME NEW s \in DOMAIN After,
         \/ After[s] = "return"
         \/ After[s] = "log" /\ request.operation = "image"
  PROVE  s = "Complete" \/ (s = "log" /\ request.operation = "image")
  <1>1. CASE request.operation = "image"
    BY <1>1 DEF After, ImageAfter
  <1>2. CASE request.operation # "image"
    BY <1>2 DEF After, FlashAfter
  <1> QED BY <1>1, <1>2

\* An operation sends the messages of its kind only.
LEMMA StepsSent ==
  ASSUME NEW s \in DOMAIN After, s \in Messages
  PROVE  s \in MessagesSent
  BY DEF After, ImageAfter, FlashAfter, MessagesSent, ImageMessages, PhaseOf,
         FlashMessages, Messages, Events, Reports

\* While the worker works, the main thread receives, or the process is over
\* without it.
LEMMA WorkingFacts ==
  ASSUME TalkInv, Working
  PROVE  /\ main = "receive" /\ screen = "started"
         /\ step # "none" /\ verdict = NoResult
         /\ step # "return" => step \in DOMAIN After
         /\ OnlyEvents(queue)
  BY DEF TalkInv, ProgramInv, ChannelInv, Working

\* A message of the step, and then the next one or the same again.
LEMMA SendKeepsTalk ==
  ASSUME TalkInv, Working, step \in Messages,
         Send(Event(step)), KeepMain, screen' = screen, request' = request,
         worker' = worker, verdict' = verdict,
         \/ Advance
         \/ step' = step /\ step # "Complete"
  PROVE  TalkInv'
  <1> DEFINE m == Event(step)
  <1>1. /\ main = "receive" /\ main' = main /\ worker = "running"
        /\ screen = "started" /\ After' = After /\ verdict = NoResult
        /\ dash' = dash /\ drawn' = drawn /\ outcome' = outcome
        /\ status' = status /\ MessagesSent' = MessagesSent
    BY WorkingFacts DEF KeepMain, After, Working, MessagesSent
  <1>2. step # "return" /\ step # "none" /\ step \in DOMAIN After
    BY WorkingFacts DEF Messages, Events, Reports
  <1>3. /\ step' # "none" /\ step' \in {"return"} \cup DOMAIN After
    BY <1>2, StepOrder DEF Advance
  <1>4. ProgramInv'
    BY <1>1, <1>3 DEF TalkInv, ProgramInv
  <1>5. /\ m \in Message /\ m.kind = "event" /\ m.event = step
        /\ step \in MessagesSent
    BY <1>2, MessageFacts, StepsSent
  <1>6. queue' = Append(queue, m) /\ queue \in Seq(Message)
    BY DEF Send, TalkInv, ChannelInv
  <1> HIDE DEF m
  <1>7. /\ queue' \in Seq(Message)
        /\ DOMAIN queue = 1..Len(queue) /\ Len(queue) \in Nat
        /\ DOMAIN queue' = 1..(Len(queue) + 1)
        /\ \A i \in DOMAIN queue : queue'[i] = queue[i]
        /\ queue'[Len(queue) + 1] = m
    BY <1>5, <1>6, AppendFacts
  <1>8. /\ OnlyEvents(queue')
        /\ \A i \in DOMAIN queue' : queue'[i].event \in MessagesSent
    BY <1>5, <1>7, WorkingFacts DEF OnlyEvents, TalkInv, ChannelInv
  <1>9. ChannelInv'
    BY <1>1, <1>7, <1>8, ResultAssumption DEF ChannelInv
  <1>10. ShownInv'
    <2>1. CASE CompleteSent'
      <3>1. step = "Complete"
        BY <1>2, <2>1, CompleteOrder
        DEF CompleteSent, Advance, Messages, Events,
           Reports
      <3>2. queue'[Len(queue) + 1] = Event("Complete")
        BY <1>7, <3>1 DEF m
      <3>3. CompleteArrives'
        BY <1>7, <3>2 DEF CompleteArrives, Event
      <3> QED BY <1>1, <3>3 DEF TalkInv, ShownInv
    <2>2. CASE ~CompleteSent'
      BY <1>1, <2>2 DEF TalkInv, ShownInv
    <2> QED BY <2>1, <2>2
  <1> QED BY <1>4, <1>9, <1>10 DEF TalkInv

\* A step that sends nothing.
LEMMA QuietKeepsTalk ==
  ASSUME TalkInv, Working, Advance, Quiet, step \in DOMAIN After,
         step # "Complete"
  PROVE  TalkInv'
  <1>1. /\ main' = main /\ worker' = worker /\ queue' = queue
        /\ verdict' = verdict /\ screen' = screen /\ request' = request
        /\ dash' = dash /\ drawn' = drawn /\ outcome' = outcome
        /\ status' = status /\ After' = After /\ MessagesSent' = MessagesSent
    BY DEF Quiet, KeepMain, KeepRest, wizard, After, MessagesSent
  <1>2. step' \in {"return"} \cup DOMAIN After /\ step' # "none"
    BY StepOrder DEF Advance
  <1>3. ProgramInv'
    BY <1>1, <1>2, WorkingFacts DEF TalkInv, ProgramInv
  <1>4. ChannelInv'
    BY <1>1, WorkingFacts, ResultAssumption DEF TalkInv, ChannelInv,
       OnlyEvents, Working, Results
  <1>5. CompleteSent' => CompleteSent
    BY <1>1, CompleteOrder DEF CompleteSent, Advance
  <1>6. CompleteArrives' = CompleteArrives
    BY <1>1 DEF CompleteArrives
  <1>7. ShownInv'
    BY <1>1, <1>5, <1>6 DEF TalkInv, ShownInv
  <1> QED BY <1>3, <1>4, <1>7 DEF TalkInv

\* The result, sent last.
LEMMA ReturnKeepsTalk ==
  ASSUME TalkInv, NEW result \in Results, Return(result)
  PROVE  TalkInv'
  <1> DEFINE m == Finished(result)
  <1>1. /\ main = "receive" /\ main' = main /\ worker' = "finished"
        /\ screen = "started" /\ After' = After /\ verdict' = result
        /\ dash' = dash /\ drawn' = drawn /\ outcome' = outcome
        /\ status' = status /\ MessagesSent' = MessagesSent
        /\ step' = step /\ screen' = screen /\ request' = request
        /\ result = "ok" => step = "return"
    BY WorkingFacts DEF Return, KeepMain, KeepRest, wizard, After, MessagesSent
  <1>2. m \in Message /\ m.kind = "finished"
    BY MessageFacts
  <1>3. queue' = Append(queue, m) /\ queue \in Seq(Message)
    BY DEF Send, Return, TalkInv, ChannelInv
  <1>4. m = Finished(verdict')
    BY <1>1
  <1> HIDE DEF m
  <1>5. /\ queue' \in Seq(Message) /\ queue' # << >>
        /\ Len(queue') = Len(queue) + 1
        /\ DOMAIN queue = 1..Len(queue) /\ Len(queue) \in Nat
        /\ DOMAIN queue' = 1..(Len(queue) + 1)
        /\ \A i \in DOMAIN queue : queue'[i] = queue[i]
        /\ queue'[Len(queue) + 1] = m
    BY <1>2, <1>3, AppendFacts
  <1>6. ProgramInv'
    BY <1>1, <1>5 DEF TalkInv, ProgramInv
  <1>7. OnlyEvents(queue)
    BY WorkingFacts DEF Return
  <1>8. ResultLast'
    BY <1>4, <1>5, <1>7 DEF ResultLast, OnlyEvents
  <1>9. \A i \in DOMAIN queue' :
          queue'[i].kind = "event" => queue'[i].event \in MessagesSent'
    BY <1>1, <1>2, <1>5 DEF TalkInv, ChannelInv
  <1>10. ChannelInv'
    BY <1>1, <1>5, <1>8, <1>9 DEF ChannelInv
  <1>11. CompleteSent' = CompleteSent
    BY <1>1 DEF CompleteSent
  <1>12. CompleteArrives => CompleteArrives'
    <2>1. CASE dash.phase = "complete"
                 /\ \A i \in DOMAIN queue : queue[i].kind = "finished"
      BY <1>1, <1>2, <1>5, <2>1 DEF CompleteArrives
    <2>2. ASSUME NEW i \in DOMAIN queue, queue[i] = Event("Complete"),
                 \A j \in DOMAIN queue : j > i => queue[j].kind = "finished"
          PROVE  CompleteArrives'
      <3>1. i \in DOMAIN queue' /\ queue'[i] = Event("Complete")
        BY <1>5, <2>2
      <3>2. \A j \in DOMAIN queue' : j > i => queue'[j].kind = "finished"
        BY <1>2, <1>5, <2>2
      <3> QED BY <3>1, <3>2 DEF CompleteArrives, Event
    <2> QED BY <2>1, <2>2 DEF CompleteArrives
  <1>13. ShownInv'
    BY <1>1, <1>11, <1>12 DEF TalkInv, ShownInv
  <1> QED BY <1>6, <1>10, <1>13 DEF TalkInv

\* Every step of the worker.
LEMMA WorkerKeepsTalk ==
  ASSUME TalkInv, WorkerNext
  PROVE  TalkInv'
  <1>1. CASE Report
    <2>1. /\ Working /\ Send(Event(step)) /\ Advance /\ KeepMain
          /\ worker' = worker /\ verdict' = verdict
          /\ screen' = screen /\ request' = request
      BY <1>1 DEF Report, KeepRest, wizard
    <2>2. step \in Messages
      BY <1>1 DEF Report, MayReport, Messages, Events
    <2> QED BY <2>1, <2>2, SendKeepsTalk
  <1>2. CASE ReportProgress
    <2>1. /\ Working /\ Send(Event(step)) /\ KeepMain
          /\ worker' = worker /\ verdict' = verdict
          /\ screen' = screen /\ request' = request
          /\ Advance \/ step' = step
      BY <1>2 DEF ReportProgress, KeepRest, wizard
    <2>2. step \in Messages /\ step # "Complete"
      BY <1>2 DEF ReportProgress, Messages, Reports
    <2> QED BY <2>1, <2>2, SendKeepsTalk
  <1>3. CASE Find \/ Analyze \/ Revalidate \/ Change \/ PassOn
    <2>1. Working /\ Advance /\ Quiet
      BY <1>3 DEF Find, Analyze, Revalidate, Change, PassOn
    <2>2. step \notin {"none", "return", "Complete"}
      BY <1>3 DEF Find, Analyze, Revalidate, Change, PassOn, Silent
    <2>3. step \in DOMAIN After
      BY <2>1, <2>2, WorkingFacts
    <2> QED BY <2>1, <2>2, <2>3, QuietKeepsTalk
  <1>4. CASE Return("ok") \/ Return("error")
    BY <1>4, ReturnKeepsTalk DEF Results
  <1>5. CASE EndWorker
    <2>1. /\ main' = main /\ worker = "finished" /\ worker' = "ended"
          /\ queue' = queue /\ step' = step
          /\ verdict' = verdict /\ screen' = screen /\ request' = request
          /\ dash' = dash /\ drawn' = drawn /\ outcome' = outcome
          /\ status' = status /\ After' = After /\ MessagesSent' = MessagesSent
      BY <1>5 DEF EndWorker, KeepMain, KeepRest, work, wizard, After,
         MessagesSent
    <2>2. ProgramInv'
      BY <2>1 DEF TalkInv, ProgramInv
    <2>3. ChannelInv'
      BY <2>1 DEF TalkInv, ChannelInv, ResultLast
    <2>4. ShownInv'
      BY <2>1 DEF TalkInv, ShownInv, CompleteSent, CompleteArrives, ProgramInv
    <2> QED BY <2>2, <2>3, <2>4 DEF TalkInv
  <1>6. CASE Panic
    <2>1. /\ main' = main /\ worker = "running" /\ worker' = "panicked"
          /\ queue' = queue /\ step' = step
          /\ verdict' = "error" /\ screen' = screen /\ request' = request
          /\ dash' = dash /\ drawn' = drawn /\ outcome' = outcome
          /\ status' = status /\ After' = After /\ MessagesSent' = MessagesSent
      BY <1>6 DEF Panic, KeepMain, KeepRest, wizard, After, MessagesSent,
         Working
    <2>2. main = "receive" /\ OnlyEvents(queue)
      BY <1>6, WorkingFacts DEF Panic
    <2>3. ProgramInv'
      BY <2>1, <2>2 DEF TalkInv, ProgramInv
    <2>4. ChannelInv'
      BY <2>1, <2>2 DEF TalkInv, ChannelInv, OnlyEvents, Results
    <2>5. ShownInv'
      BY <2>1, <2>2 DEF TalkInv, ShownInv, CompleteSent, CompleteArrives
    <2> QED BY <2>3, <2>4, <2>5 DEF TalkInv
  <1> QED BY <1>1, <1>2, <1>3, <1>4, <1>5, <1>6 DEF WorkerNext

\* The main thread takes a message and applies it.
LEMMA ReceiveKeepsTalk ==
  ASSUME TalkInv, Receive(request.operation), screen' = screen,
         request' = request, step' = step, verdict' = verdict
  PROVE  TalkInv'
  <1> DEFINE m == Head(queue)
             new == Applied(request.operation, dash, m.event)
  <1>1. /\ main = "receive" /\ main' = main /\ worker' = worker
        /\ outcome' = outcome /\ status' = status
        /\ queue # << >> /\ m.kind = "event" /\ queue' = Tail(queue)
        /\ dash' = new /\ drawn' = dash'
        /\ After' = After /\ MessagesSent' = MessagesSent
    BY DEF Receive, After, MessagesSent
  <1>2. queue \in Seq(Message) /\ dash \in DashType
    BY DEF TalkInv, ChannelInv, ShownInv
  <1>3. /\ queue' \in Seq(Message) /\ m \in Message /\ m = queue[1]
        /\ Len(queue) \in Nat /\ Len(queue) >= 1
        /\ Len(queue') = Len(queue) - 1
        /\ DOMAIN queue = 1..Len(queue) /\ DOMAIN queue' = 1..(Len(queue) - 1)
        /\ \A i \in 1..(Len(queue) - 1) : queue'[i] = queue[i + 1]
    BY <1>1, <1>2, TailFacts
  <1>4. m.event \in MessagesSent
    BY <1>1, <1>3 DEF TalkInv, ChannelInv
  <1>5. /\ new \in DashType /\ new.error = dash.error
        /\ m.event = "Complete" => new.phase = "complete"
    <2> HIDE DEF m
    <2> QED BY <1>2, <1>4, AppliedFacts DEF MessagesSent
  <1> HIDE DEF m, new
  <1>6. ProgramInv'
    BY <1>1 DEF TalkInv, ProgramInv
  <1>7. \A i \in DOMAIN queue' : i + 1 \in DOMAIN queue
    BY <1>3
  <1>8. /\ \A i \in DOMAIN queue' :
             queue'[i].kind = "event" => queue'[i].event \in MessagesSent
        /\ OnlyEvents(queue) => OnlyEvents(queue')
    BY <1>3, <1>7 DEF TalkInv, ChannelInv, OnlyEvents
  <1>9. ASSUME ResultLast PROVE ResultLast'
    <2>1. queue[Len(queue)].kind = "finished"
      BY <1>9 DEF ResultLast, Finished
    <2>2. Len(queue) > 1
      BY <1>1, <1>3, <2>1
    <2>3. queue'[Len(queue')] = queue[Len(queue)] /\ queue' # << >>
      BY <1>3, <2>2, EmptySeq
    <2>4. \A i \in 1..(Len(queue') - 1) : queue'[i].kind = "event"
      BY <1>3, <1>9, <2>2 DEF ResultLast
    <2> QED BY <1>9, <2>3, <2>4 DEF ResultLast, Finished
  <1>10. ChannelInv'
    BY <1>1, <1>3, <1>8, <1>9 DEF TalkInv, ChannelInv
  <1>11. CompleteArrives => CompleteArrives'
    <2>1. CASE \A i \in DOMAIN queue : queue[i].kind = "finished"
      BY <1>1, <1>3, <2>1
    <2>2. ASSUME NEW i \in DOMAIN queue, queue[i] = Event("Complete"),
                 \A j \in DOMAIN queue : j > i => queue[j].kind = "finished"
          PROVE  CompleteArrives'
      <3>1. CASE i = 1
        <4>1. dash'.phase = "complete"
          BY <1>1, <1>3, <1>5, <2>2, <3>1 DEF Event
        <4>2. \A j \in DOMAIN queue' : queue'[j].kind = "finished"
          BY <1>3, <2>2, <3>1
        <4> QED BY <4>1, <4>2 DEF CompleteArrives
      <3>2. CASE i # 1
        <4>1. i - 1 \in DOMAIN queue' /\ queue'[i - 1] = Event("Complete")
          BY <1>3, <2>2, <3>2
        <4>2. \A j \in DOMAIN queue' : j > i - 1 => queue'[j].kind = "finished"
          BY <1>3, <2>2, <3>2
        <4> QED BY <4>1, <4>2 DEF CompleteArrives, Event
      <3> QED BY <3>1, <3>2
    <2> QED BY <2>1, <2>2 DEF CompleteArrives
  <1>12. ShownInv'
    BY <1>1, <1>5, <1>11 DEF TalkInv, ShownInv, CompleteSent
  <1> QED BY <1>6, <1>10, <1>12 DEF TalkInv

\* The main thread takes the result.
LEMMA ResultKeepsTalk ==
  ASSUME TalkInv, ReceiveResult, screen' = screen, request' = request,
         step' = step, verdict' = verdict
  PROVE  TalkInv'
  <1> DEFINE m == Head(queue)
  <1>1. /\ main = "receive" /\ main' = "join" /\ worker' = worker
        /\ dash' = dash /\ drawn' = drawn /\ status' = status
        /\ queue # << >> /\ m.kind = "finished" /\ queue' = Tail(queue)
        /\ outcome' = m.result
        /\ After' = After /\ MessagesSent' = MessagesSent
    BY DEF ReceiveResult, ResultOf, After, MessagesSent
  <1>2. queue \in Seq(Message)
    BY DEF TalkInv, ChannelInv
  <1>3. /\ queue' \in Seq(Message) /\ m \in Message /\ m = queue[1]
        /\ Len(queue) \in Nat /\ Len(queue) >= 1
        /\ Len(queue') = Len(queue) - 1
        /\ DOMAIN queue = 1..Len(queue) /\ DOMAIN queue' = 1..(Len(queue) - 1)
        /\ \A i \in 1..(Len(queue) - 1) : queue'[i] = queue[i + 1]
    BY <1>1, <1>2, TailFacts
  <1> HIDE DEF m
  <1>4. ~OnlyEvents(queue)
    BY <1>1, <1>3 DEF OnlyEvents
  <1>5. worker \in {"finished", "ended"} /\ screen = "started"
    <2>1. worker # "killed"
      BY <1>1 DEF TalkInv, ProgramInv
    <2> QED BY <1>1, <1>4, <2>1 DEF TalkInv, ProgramInv, ChannelInv
  <1>6. ResultLast
    BY <1>1, <1>5 DEF TalkInv, ChannelInv
  <1>7. Len(queue) = 1 /\ m = Finished(verdict)
    BY <1>1, <1>3, <1>6 DEF ResultLast
  <1>8. queue' = << >> /\ outcome' = verdict
    BY <1>1, <1>3, <1>7, EmptySeq DEF Finished
  <1>9. ProgramInv'
    BY <1>1 DEF TalkInv, ProgramInv
  <1>10. ChannelInv'
    BY <1>1, <1>3, <1>5, <1>7, <1>8 DEF TalkInv, ChannelInv
  <1>11. CompleteArrives => CompleteArrives'
    <2> SUFFICES ASSUME CompleteArrives PROVE CompleteArrives'
      OBVIOUS
    <2>1. queue[1] # Event("Complete")
      BY <1>1, <1>3 DEF Event
    <2>2. dash.phase = "complete"
      <3>1. DOMAIN queue = {1}
        BY <1>3, <1>7
      <3> QED BY <2>1, <3>1 DEF CompleteArrives
    <2> QED BY <1>1, <1>3, <1>7, <2>2 DEF CompleteArrives
  <1>12. ShownInv'
    BY <1>1, <1>11 DEF TalkInv, ShownInv, CompleteSent
  <1> QED BY <1>9, <1>10, <1>12 DEF TalkInv

\* The other steps of the main thread.
LEMMA MainKeepsTalk ==
  ASSUME TalkInv, MainThread
  PROVE  TalkInv'
  <1>1. /\ screen = "started" /\ screen' = screen /\ request' = request
        /\ step' = step /\ verdict' = verdict
        /\ After' = After /\ MessagesSent' = MessagesSent
        /\ CompleteSent' = CompleteSent
    BY DEF MainThread, KeepWork, work, wizard, After, MessagesSent,
           CompleteSent
  <1>2. CASE Receive(request.operation)
    BY <1>1, <1>2, ReceiveKeepsTalk
  <1>3. CASE ReceiveResult
    BY <1>1, <1>3, ResultKeepsTalk
  <1>4. CASE ReceiveNothing
    <2>1. /\ main = "receive" /\ main' = "join" /\ queue = << >>
          /\ worker \in {"ended", "panicked"} /\ outcome' = "error"
          /\ UNCHANGED <<worker, queue, dash, drawn, status>>
      BY <1>4 DEF ReceiveNothing, Disconnected
    <2>2. worker = "panicked"
      BY <2>1 DEF TalkInv, ChannelInv, ResultLast
    <2>3. ProgramInv'
      BY <1>1, <2>1 DEF TalkInv, ProgramInv
    <2>4. ChannelInv'
      BY <1>1, <2>1, <2>2 DEF TalkInv, ChannelInv, OnlyEvents
    <2>5. ShownInv'
      BY <1>1, <2>1 DEF TalkInv, ShownInv, CompleteArrives
    <2> QED BY <2>3, <2>4, <2>5 DEF TalkInv
  <1>5. CASE JoinPanicked
    <2>1. /\ main = "join" /\ main' = "exited" /\ worker = "panicked"
          /\ status' = "error"
          /\ UNCHANGED <<worker, queue, dash, drawn, outcome>>
      BY <1>5 DEF JoinPanicked
    <2>2. ProgramInv'
      BY <1>1, <2>1 DEF TalkInv, ProgramInv
    <2>3. ChannelInv'
      BY <1>1, <2>1 DEF TalkInv, ChannelInv, OnlyEvents
    <2>4. ShownInv'
      BY <1>1, <2>1 DEF TalkInv, ShownInv, CompleteArrives, ChannelInv
    <2> QED BY <2>2, <2>3, <2>4 DEF TalkInv
  <1>6. CASE Join(request.operation)
    <2> DEFINE new == IF outcome = "error"
                        THEN FailureShown(request.operation, dash) ELSE dash
    <2>1. /\ main = "join" /\ main' = "acknowledge" /\ worker = "ended"
          /\ dash' = new /\ drawn' = dash'
          /\ UNCHANGED <<worker, queue, outcome, status>>
      BY <1>6 DEF Join
    <2>2. /\ outcome = verdict /\ verdict \in Results /\ queue = << >>
          /\ dash \in DashType /\ ~dash.error
      BY <2>1 DEF TalkInv, ChannelInv, ShownInv
    <2>3. /\ new \in DashType /\ new.phase = dash.phase
          /\ new.error = (verdict = "error")
      <3>1. CASE outcome = "error"
        <4>1. new \in DashType /\ new.phase = dash.phase /\ new.error
          BY <2>2, <3>1, FailureFacts
        <4>2. new.error \in BOOLEAN
          BY <4>1 DEF DashType
        <4> HIDE DEF new
        <4> QED BY <2>2, <3>1, <4>1, <4>2
      <3>2. CASE outcome # "error"
        <4>1. dash.error = FALSE
          BY <2>2 DEF DashType
        <4> QED BY <2>2, <3>2, <4>1
      <3> QED BY <3>1, <3>2
    <2> HIDE DEF new
    <2>4. ProgramInv'
      BY <1>1, <2>1 DEF TalkInv, ProgramInv
    <2>5. ChannelInv'
      BY <1>1, <2>1, <2>2 DEF TalkInv, ChannelInv, OnlyEvents
    <2>6. CompleteArrives => CompleteArrives'
      BY <2>1, <2>3 DEF CompleteArrives
    <2>7. ShownInv'
      BY <1>1, <2>1, <2>3, <2>6 DEF TalkInv, ShownInv
    <2> QED BY <2>4, <2>5, <2>7 DEF TalkInv
  <1>7. CASE Acknowledge
    <2>1. /\ main = "acknowledge" /\ main' = "exited"
          /\ status' = IF outcome = "error" THEN "error" ELSE "ok"
          /\ UNCHANGED <<worker, queue, dash, drawn, outcome>>
      BY <1>7 DEF Acknowledge
    <2>2. worker = "ended" /\ outcome = verdict /\ verdict \in Results
      BY <2>1 DEF TalkInv, ProgramInv, ChannelInv
    <2>3. ProgramInv'
      BY <1>1, <2>1, <2>2 DEF TalkInv, ProgramInv
    <2>4. ChannelInv'
      BY <1>1, <2>1, <2>2 DEF TalkInv, ChannelInv, OnlyEvents
    <2>5. ShownInv'
      BY <1>1, <2>1, <2>2 DEF TalkInv, ShownInv, CompleteArrives, Results
    <2> QED BY <2>3, <2>4, <2>5 DEF TalkInv
  <1> QED
    BY <1>2, <1>3, <1>4, <1>5, <1>6, <1>7 DEF MainThread, MainNext

\* The terminal may be lost at any time, and the process with it.
LEMMA LossKeepsTalk ==
  ASSUME TalkInv, TerminalLost
  PROVE  TalkInv'
  <1>1. /\ screen = "started" /\ screen' = screen /\ request' = request
        /\ step' = step /\ verdict' = verdict
        /\ After' = After /\ MessagesSent' = MessagesSent
        /\ CompleteSent' = CompleteSent
    BY DEF TerminalLost, KeepWork, work, wizard, After, MessagesSent,
           CompleteSent
  <1>2. /\ main # "exited" /\ main' = "exited" /\ status' = "lost"
        /\ UNCHANGED <<queue, dash, drawn, outcome>>
        /\ worker' = IF worker \in {"running", "finished"} THEN "killed"
                                                          ELSE worker
    BY DEF TerminalLost, LoseTerminal
  <1>3. ProgramInv'
    BY <1>1, <1>2 DEF TalkInv, ProgramInv
  <1>4. ChannelInv'
    BY <1>1, <1>2 DEF TalkInv, ChannelInv, OnlyEvents
  <1>5. ShownInv'
    <2>1. main = "setup" => ~CompleteSent
      BY DEF TalkInv, ProgramInv, CompleteSent
    <2> QED BY <1>1, <1>2, <2>1 DEF TalkInv, ShownInv, CompleteArrives
  <1> QED BY <1>3, <1>4, <1>5 DEF TalkInv

\* The first draw, and the worker begins.
LEMMA SpawnKeepsTalk ==
  ASSUME TalkInv, Spawn
  PROVE  TalkInv'
  <1>1. /\ screen = "started" /\ screen' = screen /\ request' = request
        /\ verdict' = verdict
        /\ After' = After /\ MessagesSent' = MessagesSent
        /\ step' = IF request.operation = "image" THEN "start" ELSE "Inspecting"
    BY DEF Spawn, KeepWork, wizard, After, MessagesSent
  <1>2. /\ main = "setup" /\ main' = "receive" /\ worker' = "running"
        /\ dash' = IF request.operation = "image"
                     THEN SetPhase(EmptyDash, "inspect") ELSE EmptyDash
        /\ drawn' = dash'
        /\ UNCHANGED <<queue, outcome, status>>
    BY DEF Spawn, Launch
  <1>3. /\ worker = "none" /\ queue = << >> /\ verdict = NoResult
    BY <1>2 DEF TalkInv, ProgramInv, ChannelInv
  <1>4. step' \in DOMAIN After /\ step' \notin {"none", "return", "log"}
    BY <1>1 DEF After, ImageAfter, FlashAfter
  <1>5. dash' \in DashType /\ ~dash'.error
    <2> DEFINE begun == [EmptyDash EXCEPT !.phase = "inspect"]
    <2>1. EmptyDash \in DashType /\ EmptyDash.error = FALSE
      <3>1. << >> \in Seq(Labels) /\ Len(<< >>) = 0
        BY EmptySeq
      <3> QED BY <3>1 DEF EmptyDash, DashType, MaxRecentEvents
    <2>2. begun \in DashType /\ begun.error = FALSE
      <3> HIDE DEF EmptyDash
      <3> QED BY <2>1 DEF DashType, Labels
    <2>3. SetPhase(EmptyDash, "inspect") = PushEvent(begun, "inspect")
      BY DEF SetPhase
    <2> HIDE DEF begun
    <2>4. PushEvent(begun, "inspect") \in DashType
          /\ PushEvent(begun, "inspect").error = FALSE
      BY <2>2, PushEventFacts DEF Labels
    <2> QED BY <1>2, <2>1, <2>3, <2>4
  <1>6. ProgramInv'
    BY <1>1, <1>2, <1>4 DEF TalkInv, ProgramInv
  <1>7. ChannelInv'
    BY <1>1, <1>2, <1>3, ResultAssumption DEF TalkInv, ChannelInv, OnlyEvents
  <1>8. ShownInv'
    BY <1>1, <1>2, <1>4, <1>5 DEF TalkInv, ShownInv, CompleteSent
  <1> QED BY <1>6, <1>7, <1>8 DEF TalkInv

\* The invariant holds from the first screen on.
LEMMA TalkInvariant == Spec => []TalkInv
  <1>1. Init => TalkInv
    <2> SUFFICES ASSUME Init PROVE TalkInv
      OBVIOUS
    <2>1. /\ screen = "operation" /\ main = "setup" /\ worker = "none"
          /\ queue = << >> /\ dash = EmptyDash /\ drawn = EmptyDash
          /\ outcome = NoResult /\ status = NoResult
          /\ step = "none" /\ verdict = NoResult
      BY DEF Init, WizardInit, DashboardInit
    <2>2. ProgramInv
      BY <2>1 DEF ProgramInv
    <2>3. ChannelInv
      BY <2>1, ResultAssumption, EmptySeq DEF ChannelInv, OnlyEvents
    <2>4. EmptyDash \in DashType /\ EmptyDash.error = FALSE
      <3>1. << >> \in Seq(Labels) /\ Len(<< >>) = 0
        BY EmptySeq
      <3> QED BY <3>1 DEF EmptyDash, DashType, MaxRecentEvents
    <2>5. ShownInv
      BY <2>1, <2>4 DEF ShownInv
    <2> QED BY <2>2, <2>3, <2>5 DEF TalkInv
  <1>2. SetupInv /\ TalkInv /\ [Next]_vars => TalkInv'
    <2> SUFFICES ASSUME SetupInv, TalkInv, [Next]_vars PROVE TalkInv'
      OBVIOUS
    <2>1. CASE Setup
      <3>1. screen # "started" /\ main = "setup"
        BY <2>1, WizardRequests DEF Setup, TalkInv, ProgramInv
      <3>2. UNCHANGED <<main, worker, queue, dash, drawn, outcome, status, step,
                        verdict>>
        BY <2>1 DEF Setup, NoRun, dashboard, work
      <3>3. screen' = "started" =>
              request'.operation \in {"image", "flash"} /\ request'.path \in Paths
        BY <2>1, WizardRequests DEF Setup
      <3>4. ProgramInv'
        BY <3>1, <3>2, <3>3 DEF TalkInv, ProgramInv
      <3>5. queue = << >>
        BY <3>1 DEF TalkInv, ProgramInv
      <3>6. ChannelInv'
        BY <3>2, <3>5 DEF TalkInv, ChannelInv, OnlyEvents, ResultLast
      <3>7. ShownInv'
        BY <3>1, <3>2 DEF TalkInv, ShownInv
      <3> QED BY <3>4, <3>6, <3>7 DEF TalkInv
    <2>2. CASE UNCHANGED <<screen, request, main, worker, queue, dash, drawn,
                           outcome, status, step, verdict>>
      BY <2>2 DEF TalkInv, ProgramInv, ChannelInv, ShownInv, OnlyEvents,
         ResultLast, CompleteSent, CompleteArrives, After, MessagesSent
    <2>3. CASE SwapDisk
      BY <2>2, <2>3 DEF SwapDisk, wizard, dashboard, work
    <2>4. CASE Done \/ UNCHANGED vars
      BY <2>2, <2>4 DEF Done, vars, wizard, dashboard, work
    <2> QED
      BY <2>1, <2>3, <2>4, SpawnKeepsTalk, MainKeepsTalk, LossKeepsTalk,
         WorkerKeepsTalk DEF Next
  <1> QED BY <1>1, <1>2, SetupInvariant, PTL DEF Spec

\* For every list of disks: wherever disks are exchanged and whenever the
\* operation fails or panics, what waits for the key shows an error exactly if
\* the operation returned one, and the exit status agrees with it.
THEOREM OutcomeIsShown == Spec => []OutcomeIsTold
  <1>1. TalkInv => OutcomeIsTold
    <2> SUFFICES ASSUME TalkInv PROVE OutcomeIsTold
      OBVIOUS
    <2>1. ASSUME main = "acknowledge"
          PROVE  /\ drawn.error = (verdict = "error")
                 /\ verdict = "ok" => drawn.phase = "complete"
      <3>1. worker = "ended" /\ queue = << >> /\ drawn = dash
        BY <2>1 DEF TalkInv, ProgramInv, ChannelInv, ShownInv
      <3>2. drawn.error = (verdict = "error")
        BY <2>1, <3>1 DEF TalkInv, ShownInv
      <3>3. verdict = "ok" => CompleteArrives
        BY <2>1 DEF TalkInv, ChannelInv, ShownInv, CompleteSent
      <3>4. DOMAIN queue = {}
        BY <3>1
      <3> QED BY <3>1, <3>2, <3>3, <3>4 DEF CompleteArrives
    <2>2. main = "exited" /\ status # "lost" =>
            status = verdict /\ worker \in {"ended", "panicked"}
      BY DEF TalkInv, ShownInv
    <2> QED BY <2>1, <2>2 DEF OutcomeIsTold
  <1> QED BY <1>1, TalkInvariant, PTL

\* What the worker found and what was returned are typed, too.
WorkTypes ==
  /\ outcome \in Results \cup {NoResult}
  /\ status \in Results \cup {"lost", NoResult}
  /\ parts \in 0..Parts
  /\ \A disk \in {held, analysed, touched} : disk \in Disks \cup {NoDisk}

LEMMA WorkTypesInvariant == Spec => []WorkTypes
  <1>1. Init => WorkTypes
    BY PartsAssumption DEF Init, DashboardInit, WorkTypes
  <1>2. WizardTypes /\ TalkInv /\ TalkInv' /\ WorkTypes /\ [Next]_vars
          => WorkTypes'
    <2> SUFFICES ASSUME WizardTypes, TalkInv, TalkInv', WorkTypes, [Next]_vars
                 PROVE  WorkTypes'
      OBVIOUS
    <2>1. outcome' \in Results \cup {NoResult}
      <3>1. UNCHANGED outcome \/ main' = "join"
        BY DEF Next, vars, Done, Setup, NoRun, Spawn, Launch, MainThread,
           MainNext, Receive, ReceiveResult, ReceiveNothing, JoinPanicked, Join,
           Acknowledge, TerminalLost, LoseTerminal, WorkerNext, Report,
           ReportProgress, Find, Analyze, Revalidate, Change, PassOn, Return,
           EndWorker, Panic, Quiet, KeepMain, SwapDisk, dashboard
      <3> QED BY <3>1 DEF WorkTypes, TalkInv, ChannelInv
    <2>2. status' \in Results \cup {"lost", NoResult}
      <3>1. UNCHANGED status \/ status' \in Results \cup {"lost"}
        BY DEF Next, vars, Done, Setup, NoRun, Spawn, Launch, MainThread,
           MainNext, Receive, ReceiveResult, ReceiveNothing, JoinPanicked, Join,
           Acknowledge, TerminalLost, LoseTerminal, WorkerNext, Report,
           ReportProgress, Find, Analyze, Revalidate, Change, PassOn, Return,
           EndWorker, Panic, Quiet, KeepMain, SwapDisk, dashboard, Results
      <3> QED BY <3>1 DEF WorkTypes
    <2>3. parts' \in 0..Parts
      <3>1. UNCHANGED parts \/ (parts < Parts /\ parts' = parts + 1)
        BY DEF Next, vars, Done, Setup, NoRun, Spawn, MainThread, TerminalLost,
           WorkerNext, Report, ReportProgress, Find, Analyze, Revalidate,
           Change, PassOn, Return, EndWorker, Panic, Quiet, SwapDisk, work
      <3> QED BY <3>1, PartsAssumption DEF WorkTypes
    <2>4. /\ UNCHANGED held \/ held' = plugged[request.path]
          /\ UNCHANGED analysed \/ analysed' = plugged[request.path]
          /\ UNCHANGED touched \/ touched' = plugged[request.path]
          /\ UNCHANGED <<held, analysed, touched>> \/ Working
      BY DEF Next, vars, Done, Setup, NoRun, Spawn, KeepWork, MainThread,
         TerminalLost, WorkerNext, Report, ReportProgress, Find, Analyze,
         Revalidate, Change, PassOn, Return, EndWorker, Panic, KeepDisks,
         SwapDisk, work
    <2>5. Working => plugged[request.path] \in Disks \cup {NoDisk}
      BY WorkingFacts DEF WizardTypes, TalkInv, ProgramInv
    <2> QED BY <2>1, <2>2, <2>3, <2>4, <2>5 DEF WorkTypes
  <1> QED
    BY <1>1, <1>2, WizardTypesInvariant, TalkInvariant, PTL DEF Spec

\* For every list of disks, texts and names: the session keeps its types, and
\* with them the channel its messages and the dashboard its few events.
THEOREM SessionTypes == Spec => []TypeOK
  <1>1. WizardTypes /\ TalkInv /\ WorkTypes => TypeOK
    <2> SUFFICES ASSUME WizardTypes, TalkInv, WorkTypes PROVE TypeOK
      OBVIOUS
    <2>1. step \in Steps
      BY DEF TalkInv, ProgramInv, After, Steps
    <2>2. /\ \A i \in DOMAIN queue :
               queue[i] \in [kind : {"event"}, event : Messages]
                              \cup [kind : {"finished"}, result : {"ok", "error"}]
          /\ Len(dash.events) <= MaxRecentEvents
      BY DEF TalkInv, ChannelInv, ShownInv, Message, Results, DashType
    <2>3. /\ main \in {"setup", "receive", "join", "acknowledge", "exited"}
          /\ worker \in {"none", "running", "finished", "ended", "panicked",
                         "killed"}
          /\ verdict \in {"ok", "error", NoResult}
      BY DEF TalkInv, ProgramInv, ChannelInv, Results
    <2>4. /\ outcome \in {"ok", "error", NoResult}
          /\ status \in {"ok", "error", "lost", NoResult}
          /\ parts \in 0..Parts
          /\ \A disk \in {held, analysed, touched} :
               disk \in Disks \cup {NoDisk}
      BY DEF WorkTypes, Results
    <2> QED BY <2>1, <2>2, <2>3, <2>4 DEF TypeOK, WizardTypes, Screens
  <1> QED
    BY <1>1, WizardTypesInvariant, TalkInvariant, WorkTypesInvariant, PTL
-----------------------------------------------------------------------------
(* The warning about an unknown layout *)

\* How many events the dashboard has listed, at most, when the one of this
\* step is due; each is listed once.
ListedBefore ==
  [none |-> 0, start |-> 1, Preparing |-> 1, find |-> 2, analyze |-> 2,
   revalidate |-> 2, Warning |-> 2, lookAgain |-> 3, Mutating |-> 3,
   change |-> 4, Extracting |-> 4, Verifying |-> 5, Complete |-> 6,
   log |-> 7, return |-> 7]

\* Only progress is reported again.
Earlier(a, b) ==
  \/ ListedBefore[a] < ListedBefore[b]
  \/ a = "Extracting" /\ b = "Extracting"

\* There is a place for the event, or it is progress of the phase it is in.
Fits(shown, event) ==
  \/ Len(shown.events) <= ListedBefore[event]
  \/ /\ event = "Extracting" /\ shown.phase = "extract"
     /\ Len(shown.events) <= ListedBefore["Verifying"]

PastWarning == {"lookAgain", "Mutating", "change"} \cup PastChange

WarningInv ==
  Event("Warning") \in Range(queue) \/ "warning" \in Range(dash.events)

\* The messages of an imaging run are in order, all of them have a place in the
\* list, and the warning is one of them if there is a reason for it.
ListInv ==
  /\ main \in {"receive", "join"} =>
       Len(dash.events) <= ListedBefore["return"]
  /\ main = "receive" =>
       /\ \A i \in DOMAIN queue :
            queue[i].kind = "event" => Fits(dash, queue[i].event)
       /\ worker = "running" => Fits(dash, step)
  /\ \A i, j \in DOMAIN queue :
       i < j /\ queue[i].kind = "event" /\ queue[j].kind = "event" =>
         Earlier(queue[i].event, queue[j].event)
  /\ \A i \in DOMAIN queue :
       queue[i].kind = "event" => Earlier(queue[i].event, step)
  /\ step \in PastWarning /\ analysed.layout = "unknown" => WarningInv

Imaging == screen = "started" /\ request.operation = "image"

\* The order of the steps is that of their places.
LEMMA PlacesInOrder ==
  ASSUME request.operation = "image", NEW s \in DOMAIN After
  PROVE  /\ After[s] \in {"return"} \cup DOMAIN After
         /\ ListedBefore[s] \in 0..7 /\ ListedBefore[After[s]] \in 0..7
         /\ ListedBefore[s] <= ListedBefore[After[s]]
         /\ s \in Messages => ListedBefore[s] < ListedBefore[After[s]]
         /\ s = "Extracting" => After[s] = "Verifying"
         /\ After[s] \in PastWarning => s \in PastWarning \cup {"Warning"}
  BY DEF After, ImageAfter, ListedBefore, Messages, Events, Reports,
         PastWarning, PastChange

\* Every message of an imaging run has a place.
LEMMA MessagePlaces ==
  /\ \A s \in ImageMessages : ListedBefore[s] \in 1..6
  /\ ListedBefore["Verifying"] = 5 /\ ListedBefore["Extracting"] = 4
  /\ ListedBefore["return"] = 7
  BY DEF ImageMessages, PhaseOf, ListedBefore

\* An event in the channel is one of the operation.
LEMMA QueuedMessages ==
  ASSUME TalkInv, request.operation = "image", NEW i \in DOMAIN queue,
         queue[i].kind = "event"
  PROVE  queue[i].event \in ImageMessages
  BY DEF TalkInv, ChannelInv, MessagesSent

\* A message of the step, and then the next one or the same again.
LEMMA SendKeepsList ==
  ASSUME TalkInv, ListInv, Imaging, Working, step \in Messages,
         Send(Event(step)), KeepMain, screen' = screen, request' = request,
         worker' = worker, analysed' = analysed,
         Advance \/ (step' = step /\ step = "Extracting")
  PROVE  ListInv'
  <1> DEFINE m == Event(step)
  <1>1. /\ main = "receive" /\ main' = main /\ worker = "running"
        /\ dash' = dash /\ request.operation = "image"
        /\ step \in DOMAIN After /\ step \in ImageMessages
    <2>1. step # "return" /\ step # "none"
      BY WorkingFacts DEF Messages, Events, Reports
    <2>2. step \in DOMAIN After /\ step \in MessagesSent
      BY <2>1, WorkingFacts, StepsSent
    <2> QED
      BY <2>2, WorkingFacts DEF KeepMain, Working, Imaging, MessagesSent
  <1>2. m \in Message /\ m.kind = "event" /\ m.event = step
    BY MessageFacts
  <1>3. queue' = Append(queue, m) /\ queue \in Seq(Message)
    BY DEF Send, TalkInv, ChannelInv
  <1> HIDE DEF m
  <1>4. /\ DOMAIN queue = 1..Len(queue) /\ Len(queue) \in Nat
        /\ DOMAIN queue' = 1..(Len(queue) + 1)
        /\ \A i \in DOMAIN queue : queue'[i] = queue[i]
        /\ queue'[Len(queue) + 1] = m
    BY <1>2, <1>3, AppendFacts
  <1>5. Len(dash.events) \in Nat
    BY DEF TalkInv, ShownInv, DashType
  <1>6. Fits(dash, step)
    BY <1>1 DEF ListInv
  <1>7. /\ ListedBefore[step] \in 1..6
        /\ \/ step' = After[step] /\ ListedBefore[step'] \in 0..7
              /\ ListedBefore[step] < ListedBefore[step']
              /\ (step = "Extracting" => step' = "Verifying")
           \/ step' = step /\ step = "Extracting"
    BY <1>1, PlacesInOrder, MessagePlaces DEF Advance
  <1>8. Earlier(step, step') /\ Fits(dash, step')
    BY <1>5, <1>6, <1>7, MessagePlaces DEF Earlier, Fits
  <1>9. ASSUME NEW i \in DOMAIN queue, queue[i].kind = "event"
        PROVE  Earlier(queue[i].event, step) /\ Earlier(queue[i].event, step')
    <2>1. Earlier(queue[i].event, step)
      BY <1>9 DEF ListInv
    <2>2. ListedBefore[queue[i].event] \in 1..6
      BY <1>1, <1>9, QueuedMessages, MessagePlaces
    <2> QED BY <1>7, <2>1, <2>2 DEF Earlier
  <1>10. \A i \in DOMAIN queue' :
           queue'[i].kind = "event" =>
             Fits(dash, queue'[i].event) /\ Earlier(queue'[i].event, step')
    BY <1>1, <1>2, <1>4, <1>6, <1>8, <1>9 DEF ListInv
  <1>11. \A i, j \in DOMAIN queue' :
           i < j /\ queue'[i].kind = "event" /\ queue'[j].kind = "event" =>
             Earlier(queue'[i].event, queue'[j].event)
    BY <1>2, <1>4, <1>9 DEF ListInv
  <1>12. step' \in PastWarning /\ analysed'.layout = "unknown" => WarningInv'
    <2> SUFFICES ASSUME step' \in PastWarning, analysed'.layout = "unknown"
                 PROVE  WarningInv'
      OBVIOUS
    <2>1. step \in PastWarning \cup {"Warning"}
      BY <1>1, PlacesInOrder DEF Advance
    <2>2. CASE step = "Warning"
      BY <1>4, <2>2 DEF WarningInv, Range, m
    <2>3. CASE step \in PastWarning
      <3>1. WarningInv
        BY <2>3 DEF ListInv
      <3>2. Range(queue) \subseteq Range(queue')
        BY <1>4 DEF Range
      <3> QED BY <1>1, <3>1, <3>2 DEF WarningInv, Event
    <2> QED BY <2>1, <2>2, <2>3
  <1>13. \A event : Fits(dash', event) = Fits(dash, event)
    BY <1>1 DEF Fits
  <1>14. Len(dash.events) <= ListedBefore["return"]
    BY <1>1 DEF ListInv
  <1> QED
    BY <1>1, <1>8, <1>10, <1>11, <1>12, <1>13, <1>14 DEF ListInv, Earlier, Fits

\* A step that sends nothing: it has no warning to send.
LEMMA QuietKeepsList ==
  ASSUME TalkInv, ListInv, Imaging, Working, Advance, Quiet,
         step \in DOMAIN After,
         step \notin {"Warning", "analyze"} => analysed' = analysed,
         step = "Warning" =>
           analysed' = analysed /\ analysed.layout # "unknown"
  PROVE  ListInv'
  <1>1. /\ main = "receive" /\ main' = main /\ worker' = worker
        /\ worker = "running" /\ queue' = queue /\ dash' = dash
        /\ request.operation = "image" /\ step' = After[step]
    BY WorkingFacts DEF Quiet, KeepMain, Advance, Imaging, Working
  <1>2. Len(dash.events) \in Nat
    BY DEF TalkInv, ShownInv, DashType
  <1>3. /\ ListedBefore[step] \in 0..7 /\ ListedBefore[step'] \in 0..7
        /\ ListedBefore[step] <= ListedBefore[step']
        /\ step = "Extracting" => step' = "Verifying"
        /\ step' \in PastWarning => step \in PastWarning \cup {"Warning"}
    BY <1>1, PlacesInOrder
  <1>4. Fits(dash, step')
    BY <1>1, <1>2, <1>3, MessagePlaces DEF ListInv, Fits
  <1>5. ASSUME NEW i \in DOMAIN queue, queue[i].kind = "event"
        PROVE  Earlier(queue[i].event, step')
    <2>1. Earlier(queue[i].event, step)
      BY <1>5 DEF ListInv
    <2>2. ListedBefore[queue[i].event] \in 1..6
      BY <1>1, <1>5, QueuedMessages, MessagePlaces
    <2> QED BY <1>3, <2>1, <2>2, MessagePlaces DEF Earlier
  <1>6. step' \in PastWarning /\ analysed'.layout = "unknown" => WarningInv
    <2>1. step = "analyze" => step' \notin PastWarning
      BY <1>1 DEF After, ImageAfter, PastWarning, PastChange
    <2> QED BY <1>3, <2>1 DEF ListInv
  <1> QED
    BY <1>1, <1>4, <1>5, <1>6 DEF ListInv, Fits, Earlier, WarningInv, Range,
       Event

\* The result has no place in the list of the worker.
LEMMA ReturnKeepsList ==
  ASSUME TalkInv, ListInv, Imaging, NEW result \in Results, Return(result)
  PROVE  ListInv'
  <1> DEFINE m == Finished(result)
  <1>1. /\ main' = main /\ worker' = "finished" /\ dash' = dash
        /\ step' = step /\ analysed' = analysed
    BY DEF Return, KeepMain, KeepDisks
  <1>2. m \in Message /\ m.kind = "finished"
    BY MessageFacts
  <1>3. queue' = Append(queue, m) /\ queue \in Seq(Message)
    BY DEF Send, Return, TalkInv, ChannelInv
  <1> HIDE DEF m
  <1>4. /\ DOMAIN queue = 1..Len(queue) /\ Len(queue) \in Nat
        /\ DOMAIN queue' = 1..(Len(queue) + 1)
        /\ \A i \in DOMAIN queue : queue'[i] = queue[i]
        /\ queue'[Len(queue) + 1] = m
    BY <1>2, <1>3, AppendFacts
  <1>5. \A i \in DOMAIN queue' :
          queue'[i].kind = "event" => i \in DOMAIN queue
    BY <1>2, <1>4
  <1>6. Range(queue) \subseteq Range(queue')
    BY <1>4 DEF Range
  <1>7. WarningInv => WarningInv'
    BY <1>1, <1>6 DEF WarningInv, Event
  <1>8. \A event : Fits(dash', event) = Fits(dash, event)
    BY <1>1 DEF Fits
  <1>9. /\ \A i \in DOMAIN queue' :
             queue'[i].kind = "event" => Earlier(queue'[i].event, step)
        /\ main = "receive" =>
             \A i \in DOMAIN queue' :
               queue'[i].kind = "event" => Fits(dash, queue'[i].event)
    BY <1>4, <1>5 DEF ListInv
  <1>10. \A i, j \in DOMAIN queue' :
           i < j /\ queue'[i].kind = "event" /\ queue'[j].kind = "event" =>
             Earlier(queue'[i].event, queue'[j].event)
    BY <1>4, <1>5 DEF ListInv
  <1> QED
    BY <1>1, <1>7, <1>8, <1>9, <1>10 DEF ListInv, Earlier, Fits

\* What an event does to the list: it is added at the end, or is more progress
\* of the phase the dashboard is in.
LEMMA AppliedToList ==
  ASSUME NEW old \in DashType, NEW event \in ImageMessages,
         Len(old.events) < MaxRecentEvents
  PROVE  LET new == Applied("image", old, event)
         IN  \/ event = "Extracting" /\ old.phase = "extract" /\ new = old
             \/ /\ \E label \in Labels : new.events = Append(old.events, label)
                /\ event = "Warning" =>
                     new.events = Append(old.events, "warning")
                /\ event = "Extracting" => new.phase = "extract"
                /\ event = "Extracting" => old.phase # "extract"
  <1>1. CASE event = "Warning"
    <2>1. Applied("image", old, event) = PushEvent(old, "warning")
      BY <1>1 DEF Applied, ImageApplied
    <2>2. "warning" \in Labels
      BY DEF Labels
    <2> QED BY <1>1, <2>1, <2>2, PushEventFacts
  <1>2. CASE event # "Warning" /\ BeginsPhase(old, event)
    <2> DEFINE begun == [old EXCEPT !.phase = PhaseOf[event]]
    <2>1. /\ PhaseOf[event] \in Labels
          /\ event = "Extracting" => PhaseOf[event] = "extract"
      BY <1>2 DEF ImageMessages, PhaseOf, Labels
    <2>2. /\ begun \in DashType /\ begun.phase = PhaseOf[event]
          /\ begun.events = old.events
      BY <2>1 DEF DashType
    <2>3. Applied("image", old, event) = PushEvent(begun, PhaseOf[event])
      BY <1>2 DEF Applied, ImageApplied, SetPhase
    <2> HIDE DEF begun
    <2>4. /\ PushEvent(begun, PhaseOf[event]).events
               = Append(old.events, PhaseOf[event])
          /\ PushEvent(begun, PhaseOf[event]).phase = PhaseOf[event]
      BY <2>1, <2>2, PushEventFacts
    <2> QED BY <1>2, <2>1, <2>3, <2>4 DEF BeginsPhase
  <1>3. CASE event # "Warning" /\ ~BeginsPhase(old, event)
    BY <1>3 DEF Applied, ImageApplied, BeginsPhase
  <1> QED BY <1>1, <1>2, <1>3

\* Adding to a list that has a place left loses nothing.
LEMMA AppendedList ==
  ASSUME NEW events \in Seq(Labels), NEW label \in Labels
  PROVE  /\ Len(Append(events, label)) = Len(events) + 1
         /\ label \in Range(Append(events, label))
         /\ Range(events) \subseteq Range(Append(events, label))
  BY AppendFacts DEF Range

\* The main thread takes a message and applies it.
LEMMA ReceiveKeepsList ==
  ASSUME TalkInv, ListInv, Imaging, Receive(request.operation),
         step' = step, analysed' = analysed
  PROVE  ListInv'
  <1> DEFINE m == Head(queue)
             e == m.event
             new == Applied("image", dash, e)
  <1>1. /\ main = "receive" /\ main' = main /\ worker' = worker
        /\ queue # << >> /\ m.kind = "event" /\ queue' = Tail(queue)
        /\ dash' = new /\ request.operation = "image"
    BY DEF Receive, Imaging
  <1>2. queue \in Seq(Message) /\ dash \in DashType
    BY DEF TalkInv, ChannelInv, ShownInv
  <1>3. /\ m \in Message /\ m = queue[1]
        /\ Len(queue) \in Nat /\ Len(queue) >= 1
        /\ DOMAIN queue = 1..Len(queue) /\ DOMAIN queue' = 1..(Len(queue) - 1)
        /\ \A i \in 1..(Len(queue) - 1) : queue'[i] = queue[i + 1]
    BY <1>1, <1>2, TailFacts
  <1>4. e \in ImageMessages
    BY <1>1, <1>3 DEF TalkInv, ChannelInv, MessagesSent
  <1>5. /\ Len(dash.events) \in Nat /\ Len(dash.events) <= 7
        /\ dash.events \in Seq(Labels) /\ Len(dash.events) < MaxRecentEvents
    BY <1>1, MessagePlaces DEF ListInv, DashType, TalkInv, ShownInv,
       MaxRecentEvents
  <1>6. Fits(dash, e) /\ (worker = "running" => Fits(dash, step))
    BY <1>1, <1>3 DEF ListInv
  <1> HIDE DEF m, e
  <1>7. \/ e = "Extracting" /\ dash.phase = "extract" /\ new = dash
        \/ /\ \E label \in Labels : new.events = Append(dash.events, label)
           /\ e = "Warning" => new.events = Append(dash.events, "warning")
           /\ e = "Extracting" => new.phase = "extract"
           /\ e = "Extracting" => dash.phase # "extract"
    BY <1>2, <1>4, <1>5, AppliedToList
  <1> HIDE DEF new
  <1>8. /\ Range(dash.events) \subseteq Range(new.events)
        /\ e = "Warning" => "warning" \in Range(new.events)
    BY <1>5, <1>7, AppendedList DEF Labels
  <1>9. Len(new.events) = Len(dash.events) + 1 \/ new = dash
    BY <1>5, <1>7, AppendedList
  <1>10. ListedBefore[e] \in 1..6
    BY <1>4, MessagePlaces
  <1>11. Len(new.events) <= ListedBefore["return"]
    BY <1>5, <1>6, <1>7, <1>9, <1>10, MessagePlaces DEF Fits
  <1>12. ASSUME NEW other, ListedBefore[other] \in 0..7, Earlier(e, other),
                Fits(dash, other)
         PROVE  Fits(dash', other)
    <2>1. CASE new = dash
      BY <1>1, <1>12, <2>1
    <2>2. CASE new # dash
      <3>1. /\ Len(new.events) = Len(dash.events) + 1
            /\ e = "Extracting" => new.phase = "extract"
            /\ e = "Extracting" => dash.phase # "extract"
        BY <1>7, <1>9, <2>2
      <3>2. Len(dash.events) <= ListedBefore[e]
        BY <1>6, <3>1 DEF Fits
      <3>3. CASE ListedBefore[e] < ListedBefore[other]
        <4>1. Len(new.events) <= ListedBefore[other]
          BY <1>5, <1>10, <1>12, <3>1, <3>2, <3>3
        <4> QED BY <1>1, <4>1 DEF Fits
      <3>4. CASE e = "Extracting" /\ other = "Extracting"
        <4>1. Len(new.events) <= ListedBefore["Verifying"]
          BY <1>5, <3>1, <3>2, <3>4, MessagePlaces
        <4> QED BY <1>1, <3>1, <3>4, <4>1 DEF Fits
      <3> QED BY <1>12, <3>3, <3>4 DEF Earlier
    <2> QED BY <2>1, <2>2
  <1>13. ASSUME NEW i \in DOMAIN queue', queue'[i].kind = "event"
         PROVE  /\ i + 1 \in DOMAIN queue /\ queue'[i] = queue[i + 1]
                /\ Fits(dash', queue'[i].event)
                /\ Earlier(queue'[i].event, step)
    <2>1. i + 1 \in DOMAIN queue /\ queue'[i] = queue[i + 1] /\ 1 < i + 1
      BY <1>3
    <2> DEFINE other == queue[i + 1].event
    <2>2. /\ Earlier(e, other) /\ Fits(dash, other) /\ Earlier(other, step)
      BY <1>1, <1>3, <1>13, <2>1 DEF ListInv, e
    <2>3. ListedBefore[other] \in 1..6
      BY <1>1, <1>13, <2>1, QueuedMessages, MessagePlaces
    <2>4. other = queue'[i].event
      BY <2>1
    <2> HIDE DEF other
    <2>5. Fits(dash', other)
      BY <1>12, <2>2, <2>3
    <2> QED BY <2>1, <2>2, <2>4, <2>5
  <1>14. worker = "running" => Fits(dash', step)
    <2> SUFFICES ASSUME worker = "running" PROVE Fits(dash', step)
      OBVIOUS
    <2>1. step \in {"return"} \cup DOMAIN After
      BY DEF TalkInv, ProgramInv
    <2>2. ListedBefore[step] \in 0..7
      <3>1. CASE step = "return"
        BY <3>1, MessagePlaces
      <3>2. CASE step \in DOMAIN After
        BY <1>1, <3>2, PlacesInOrder
      <3> QED BY <2>1, <3>1, <3>2
    <2>3. Earlier(e, step) /\ Fits(dash, step)
      BY <1>1, <1>3, <1>6 DEF ListInv, e
    <2> QED BY <1>12, <2>2, <2>3
  <1>15. WarningInv => WarningInv'
    <2>1. CASE "warning" \in Range(dash.events)
      BY <1>1, <1>8, <2>1 DEF WarningInv
    <2>2. ASSUME NEW i \in DOMAIN queue, queue[i] = Event("Warning")
          PROVE  WarningInv'
      <3>1. CASE i = 1
        <4>1. e = "Warning"
          BY <1>3, <2>2, <3>1 DEF Event, e
        <4> QED BY <1>1, <1>8, <4>1 DEF WarningInv
      <3>2. CASE i # 1
        <4>1. i - 1 \in DOMAIN queue' /\ queue'[i - 1] = Event("Warning")
          BY <1>3, <2>2, <3>2
        <4> QED BY <4>1 DEF WarningInv, Range, Event
      <3> QED BY <3>1, <3>2
    <2> QED BY <2>1, <2>2 DEF WarningInv, Range
  <1>16. \A i, j \in DOMAIN queue' :
           i < j /\ queue'[i].kind = "event" /\ queue'[j].kind = "event" =>
             Earlier(queue'[i].event, queue'[j].event)
    <2> SUFFICES ASSUME NEW i \in DOMAIN queue', NEW j \in DOMAIN queue', i < j,
                        queue'[i].kind = "event", queue'[j].kind = "event"
                 PROVE  Earlier(queue'[i].event, queue'[j].event)
      OBVIOUS
    <2>1. i + 1 < j + 1
      BY <1>3
    <2> QED BY <1>13, <2>1 DEF ListInv
  <1>17. step' \in PastWarning /\ analysed'.layout = "unknown" => WarningInv'
    BY <1>15 DEF ListInv
  <1>18. main' \in {"receive", "join"} =>
           Len(dash'.events) <= ListedBefore["return"]
    BY <1>1, <1>11
  <1>19. main' = "receive" =>
           /\ \A i \in DOMAIN queue' :
                queue'[i].kind = "event" => Fits(dash', queue'[i].event)
           /\ worker' = "running" => Fits(dash', step)
    BY <1>1, <1>13, <1>14
  <1>20. \A i \in DOMAIN queue' :
           queue'[i].kind = "event" => Earlier(queue'[i].event, step)
    BY <1>13
  <1> QED
    BY <1>16, <1>17, <1>18, <1>19, <1>20 DEF ListInv, Earlier

\* The other steps of the main thread: a failure is the last event listed.
LEMMA MainKeepsList ==
  ASSUME TalkInv, ListInv, Imaging, MainThread \/ TerminalLost
  PROVE  ListInv'
  <1>1. /\ screen' = screen /\ request' = request
        /\ step' = step /\ analysed' = analysed /\ request.operation = "image"
    BY DEF MainThread, TerminalLost, KeepWork, work, wizard, Imaging
  <1>2. ASSUME main' \notin {"receive", "join"}, queue' = queue,
               Range(dash.events) \subseteq Range(dash'.events)
        PROVE  ListInv'
    <2>1. WarningInv => WarningInv'
      BY <1>2 DEF WarningInv, Event
    <2> QED BY <1>1, <1>2, <2>1 DEF ListInv, Earlier
  <1>3. CASE Receive(request.operation)
    BY <1>1, <1>3, ReceiveKeepsList
  <1>4. CASE ReceiveResult
    <2> DEFINE m == Head(queue)
    <2>1. /\ main = "receive" /\ main' = "join" /\ dash' = dash
          /\ queue # << >> /\ m.kind = "finished" /\ queue' = Tail(queue)
      BY <1>4 DEF ReceiveResult
    <2>2. queue \in Seq(Message)
      BY DEF TalkInv, ChannelInv
    <2>3. /\ m = queue[1] /\ Len(queue) \in Nat /\ Len(queue) >= 1
          /\ DOMAIN queue = 1..Len(queue)
          /\ DOMAIN queue' = 1..(Len(queue) - 1)
          /\ \A i \in 1..(Len(queue) - 1) : queue'[i] = queue[i + 1]
      BY <2>1, <2>2, TailFacts
    <2> HIDE DEF m
    <2>4. \A i \in DOMAIN queue' : i + 1 \in DOMAIN queue
      BY <2>3
    <2>5. \A i \in DOMAIN queue' :
            queue'[i].kind = "event" => Earlier(queue'[i].event, step)
      BY <2>3, <2>4 DEF ListInv
    <2>6. \A i, j \in DOMAIN queue' :
            i < j /\ queue'[i].kind = "event" /\ queue'[j].kind = "event" =>
              Earlier(queue'[i].event, queue'[j].event)
      <3> SUFFICES ASSUME NEW i \in DOMAIN queue', NEW j \in DOMAIN queue',
                          i < j, queue'[i].kind = "event",
                          queue'[j].kind = "event"
                   PROVE  Earlier(queue'[i].event, queue'[j].event)
        OBVIOUS
      <3>1. /\ i + 1 \in DOMAIN queue /\ j + 1 \in DOMAIN queue /\ i + 1 < j + 1
            /\ queue'[i] = queue[i + 1] /\ queue'[j] = queue[j + 1]
        BY <2>3
      <3> QED BY <3>1 DEF ListInv
    <2>7. WarningInv => WarningInv'
      <3>1. CASE "warning" \in Range(dash.events)
        BY <2>1, <3>1 DEF WarningInv
      <3>2. ASSUME NEW i \in DOMAIN queue, queue[i] = Event("Warning")
            PROVE  WarningInv'
        <4>1. i # 1
          BY <2>1, <2>3, <3>2 DEF Event
        <4>2. i - 1 \in DOMAIN queue' /\ queue'[i - 1] = Event("Warning")
          BY <2>3, <3>2, <4>1
        <4> QED BY <4>2 DEF WarningInv, Range, Event
      <3> QED BY <3>1, <3>2 DEF WarningInv, Range
    <2>8. Len(dash'.events) <= ListedBefore["return"]
      BY <2>1 DEF ListInv
    <2>9. step' \in PastWarning /\ analysed'.layout = "unknown" => WarningInv'
      BY <1>1, <2>7 DEF ListInv
    <2> QED BY <1>1, <2>1, <2>5, <2>6, <2>8, <2>9 DEF ListInv, Earlier
  <1>5. CASE ReceiveNothing
    <2>1. /\ main = "receive" /\ main' = "join"
          /\ UNCHANGED <<worker, queue, dash>>
      BY <1>5 DEF ReceiveNothing
    <2>2. WarningInv => WarningInv'
      BY <2>1 DEF WarningInv, Event
    <2> QED BY <1>1, <2>1, <2>2 DEF ListInv, Earlier
  <1>6. CASE JoinPanicked \/ Acknowledge \/ TerminalLost
    BY <1>2, <1>6 DEF JoinPanicked, Acknowledge, TerminalLost, LoseTerminal
  <1>7. CASE Join(request.operation)
    <2>1. /\ main = "join" /\ main' = "acknowledge" /\ queue' = queue
          /\ dash' = IF outcome = "error" THEN FailureShown("image", dash)
                                          ELSE dash
      BY <1>1, <1>7 DEF Join
    <2>2. /\ dash \in DashType /\ dash.events \in Seq(Labels)
          /\ Len(dash.events) < MaxRecentEvents
      BY <2>1, MessagePlaces DEF ListInv, TalkInv, ShownInv, DashType,
         MaxRecentEvents
    <2>3. Range(dash.events) \subseteq Range(dash'.events)
      <3> DEFINE failed == PushEvent(dash, "failed")
      <3>1. /\ failed \in DashType
            /\ failed.events = Append(dash.events, "failed")
        BY <2>2, PushEventFacts DEF Labels
      <3>2. FailureShown("image", dash) = [failed EXCEPT !.error = TRUE]
        BY DEF FailureShown
      <3> HIDE DEF failed
      <3>3. FailureShown("image", dash).events = Append(dash.events, "failed")
        BY <3>1, <3>2 DEF DashType
      <3>4. Range(dash.events) \subseteq Range(Append(dash.events, "failed"))
        BY <2>2, AppendedList DEF Labels
      <3> QED BY <2>1, <3>3, <3>4
    <2> QED BY <1>2, <2>1, <2>3
  <1> QED
    BY <1>3, <1>4, <1>5, <1>6, <1>7 DEF MainThread, MainNext

\* Every step of the worker.
LEMMA WorkerKeepsList ==
  ASSUME TalkInv, ListInv, Imaging, WorkerNext
  PROVE  ListInv'
  <1>1. CASE Report
    <2>1. /\ Working /\ Send(Event(step)) /\ Advance /\ KeepMain
          /\ worker' = worker /\ analysed' = analysed
          /\ screen' = screen /\ request' = request
      BY <1>1 DEF Report, KeepRest, KeepDisks, wizard
    <2>2. step \in Messages
      BY <1>1 DEF Report, MayReport, Messages, Events
    <2> QED BY <2>1, <2>2, SendKeepsList
  <1>2. CASE ReportProgress
    <2>1. /\ Working /\ Send(Event(step)) /\ KeepMain
          /\ worker' = worker /\ analysed' = analysed
          /\ screen' = screen /\ request' = request
          /\ Advance \/ step' = step
      BY <1>2 DEF ReportProgress, KeepRest, KeepDisks, wizard
    <2>2. step \in Messages /\ step # "return" /\ step # "none"
      BY <1>2 DEF ReportProgress, Messages, Reports
    <2>3. step \in DOMAIN After
      BY <2>1, <2>2, WorkingFacts
    <2>4. step = "Extracting"
      BY <1>2, <2>3 DEF ReportProgress, Reports, After, ImageAfter, Imaging
    <2> QED BY <2>1, <2>2, <2>4, SendKeepsList
  <1>3. CASE Find \/ Analyze \/ Revalidate \/ Change \/ PassOn
    <2>1. Working /\ Advance /\ Quiet
      BY <1>3 DEF Find, Analyze, Revalidate, Change, PassOn
    <2>2. step \notin {"none", "return"}
      BY <1>3 DEF Find, Analyze, Revalidate, Change, PassOn, Silent
    <2>3. step \in DOMAIN After
      BY <2>1, <2>2, WorkingFacts
    <2>4. /\ step \notin {"Warning", "analyze"} => analysed' = analysed
          /\ step = "Warning" =>
               analysed' = analysed /\ analysed.layout # "unknown"
      BY <1>3 DEF Find, Analyze, Revalidate, Change, PassOn, Silent, KeepDisks
    <2> QED BY <2>1, <2>3, <2>4, QuietKeepsList
  <1>4. CASE Return("ok") \/ Return("error")
    BY <1>4, ReturnKeepsList DEF Results
  <1>5. CASE EndWorker \/ Panic
    <2>1. /\ worker' # "running"
          /\ UNCHANGED <<main, dash, queue, step, analysed>>
      BY <1>5 DEF EndWorker, Panic, KeepMain, KeepDisks, work
    <2>2. WarningInv => WarningInv'
      BY <2>1 DEF WarningInv, Event
    <2> QED BY <2>1, <2>2 DEF ListInv, Earlier, Fits
  <1> QED BY <1>1, <1>2, <1>3, <1>4, <1>5 DEF WorkerNext

\* The first draw lists the first phase.
LEMMA SpawnBeginsList ==
  ASSUME TalkInv, Spawn, request.operation = "image"
  PROVE  ListInv'
  <1>1. /\ main = "setup" /\ main' = "receive" /\ step' = "start"
        /\ dash' = SetPhase(EmptyDash, "inspect") /\ queue' = queue
    BY DEF Spawn, Launch
  <1>2. queue = << >>
    BY <1>1 DEF TalkInv, ProgramInv
  <1>3. Len(dash'.events) = 1
    <2> DEFINE begun == [EmptyDash EXCEPT !.phase = "inspect"]
    <2>1. << >> \in Seq(Labels) /\ Len(<< >>) = 0
      BY EmptySeq
    <2>2. begun \in DashType /\ begun.events = << >>
      <3>1. EmptyDash \in DashType /\ EmptyDash.events = << >>
        BY <2>1 DEF EmptyDash, DashType, MaxRecentEvents
      <3> HIDE DEF EmptyDash
      <3> QED BY <3>1 DEF DashType, Labels
    <2>3. SetPhase(EmptyDash, "inspect") = PushEvent(begun, "inspect")
      BY DEF SetPhase
    <2> HIDE DEF begun
    <2>4. PushEvent(begun, "inspect").events = Append(<< >>, "inspect")
      BY <2>1, <2>2, PushEventFacts DEF Labels, MaxRecentEvents
    <2>5. Len(Append(<< >>, "inspect")) = 1
      BY <2>1, AppendFacts DEF Labels
    <2> QED BY <1>1, <2>3, <2>4, <2>5
  <1>4. ListedBefore["start"] = 1 /\ "start" \notin PastWarning
    BY DEF ListedBefore, PastWarning, PastChange
  <1>5. DOMAIN queue' = {}
    BY <1>1, <1>2
  <1>6. Fits(dash', step')
    <2>1. step' = "start"
      BY <1>1
    <2>2. Len(dash'.events) <= ListedBefore["start"]
      BY <1>3, <1>4
    <2> QED BY <2>1, <2>2 DEF Fits
  <1>7. Len(dash'.events) <= ListedBefore["return"]
    BY <1>3, MessagePlaces
  <1>8. step' \notin PastWarning
    BY <1>1, <1>4
  <1> QED
    BY <1>5, <1>6, <1>7, <1>8 DEF ListInv

\* Nothing is listed before an imaging run, and every step of it keeps order.
LEMMA ListInvariant == Spec => [](Imaging => ListInv)
  <1>1. Init => (Imaging => ListInv)
    BY DEF Init, WizardInit, Imaging
  <1>2. /\ SetupInv /\ TalkInv /\ (Imaging => ListInv)
        /\ [Next]_vars
        => (Imaging => ListInv)'
    <2> SUFFICES ASSUME SetupInv, TalkInv, Imaging => ListInv, [Next]_vars,
                        Imaging'
                 PROVE  ListInv'
      OBVIOUS
    <2>1. CASE Setup
      <3>1. /\ main = "setup" /\ main' = main
            /\ queue' = queue /\ dash' = dash /\ step' = step
        BY <2>1, WizardRequests DEF Setup, NoRun, dashboard, work, TalkInv,
           ProgramInv
      <3>2. DOMAIN queue' = {} /\ step' = "none"
        BY <3>1 DEF TalkInv, ProgramInv
      <3>3. step' \notin PastWarning
        BY <3>2 DEF PastWarning, PastChange
      <3> QED BY <3>1, <3>2, <3>3 DEF ListInv
    <2>2. CASE Spawn
      <3>1. request.operation = "image"
        BY <2>2 DEF Spawn, KeepWork, wizard, Imaging
      <3> QED BY <2>2, <3>1, SpawnBeginsList
    <2>3. CASE MainThread \/ TerminalLost
      <3>1. Imaging
        BY <2>3 DEF MainThread, TerminalLost, KeepWork, wizard, Imaging
      <3> QED BY <2>3, <3>1, MainKeepsList
    <2>4. CASE WorkerNext
      <3>1. Imaging
        BY <2>4 DEF WorkerNext, Report, ReportProgress, Find, Analyze,
           Revalidate, Change, PassOn, Return, EndWorker, Panic, Quiet,
           KeepRest, wizard, Imaging
      <3> QED BY <2>4, <3>1, WorkerKeepsList
    <2>5. CASE UNCHANGED <<wizard, dashboard, worker, work>>
      <3>1. Imaging /\ ListInv
        BY <2>5 DEF wizard, Imaging
      <3>2. WarningInv' = WarningInv
        BY <2>5 DEF dashboard, WarningInv, Event
      <3> QED BY <2>5, <3>1, <3>2 DEF dashboard, work, ListInv, Earlier, Fits
    <2>6. CASE SwapDisk \/ Done \/ UNCHANGED vars
      BY <2>5, <2>6 DEF SwapDisk, Done, vars
    <2> QED BY <2>1, <2>2, <2>3, <2>4, <2>6 DEF Next
  <1> QED BY <1>1, <1>2, SetupInvariant, TalkInvariant, PTL DEF Spec

\* For every list of disks and every exchange of them: when a shrink begins
\* after an unknown layout was read, the warning is on its way to the dashboard
\* or on it, whatever else was listed since.
THEOREM WarningIsKept == Spec => []WarningStaysListed
  <1>1. WorkInv /\ (Imaging => ListInv) => WarningStaysListed
    <2> SUFFICES ASSUME WorkInv, Imaging => ListInv,
                        request.operation = "image",
                        touched # NoDisk, analysed.layout = "unknown"
                 PROVE  WarningInv
      BY DEF WarningStaysListed, WarningInv
    <2>1. step \in PastChange
      BY DEF WorkInv
    <2>2. screen = "started"
      BY DEF WorkInv, NotBegun
    <2>3. ListInv
      BY <2>2 DEF Imaging
    <2> QED BY <2>1, <2>3 DEF ListInv, PastWarning
  <1> QED BY <1>1, WorkInvariant, ListInvariant, PTL
=============================================================================
