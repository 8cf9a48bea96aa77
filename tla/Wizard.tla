------------------------------- MODULE Wizard -------------------------------
(***************************************************************************)
(* The setup of the interactive program: the choice of the operation, the  *)
(* screens of the image wizard (event_loop over the reducer of AppModel)   *)
(* and those of the flash wizard (flash_event_loop).                       *)
(*                                                                         *)
(* The devices offered are those found when the program started.  A path   *)
(* is the position in that list, and what is plugged in at it may change   *)
(* meanwhile.  Texts are compared trimmed, and typing is one step.  The    *)
(* cursor only decides which device Enter selects: any of them.  Messages  *)
(* about what was refused are left out, a refused key changes nothing.     *)
(***************************************************************************)
EXTENDS Integers, Sequences

CONSTANTS
  Disks,       \* disks there are: model (NoText if none is reported) and
               \* serial of the disk or reader, and the layout on the card
               \* ("recognized", "unknown", "unsupported")
  Listed,      \* the disks found at the start, by path
  Texts,       \* what may be typed as the name of a model
  TypedNames,  \* what may be typed as an output name
  Levels,      \* verification levels of an image
  Images,      \* what may be typed as the image to flash
  MaxCut,      \* bound on the characters lost from a name
  NoDisk, NoText, NoRequest

ASSUME ListedAssumption ==
  /\ Listed \in Seq(Disks) /\ Listed # << >>   \* run() refuses an empty list
  /\ NoDisk \notin Disks /\ NoText \notin Texts \cup Images

Paths == DOMAIN Listed
Compressions == {"zst", "xz"}

\* An output name: the text before the extension with cut characters lost
\* from its end, and what Path::extension sees.
Name(base, ext) == [base |-> base, cut |-> 0, ext |-> ext]
Empty == Name("", "none")
DefaultName == Name("default", "zst")

\* What is typed has lost nothing yet.
ASSUME NamesAssumption ==
  /\ MaxCut \in Nat
  /\ \A name \in TypedNames : name = Name(name.base, name.ext)

VARIABLES
  screen,    \* the screen shown, "started" or "cancelled"
  model,     \* AppModel of the image wizard
  setup,     \* FlashSetup of the flash wizard
  request,   \* what a wizard returned
  plugged,   \* the disk at each path now
  typedFor,  \* history: the device the confirmation was typed for
  seen       \* history: the disk analysed when the device was selected

wizard == <<screen, model, setup, request, typedFor, seen>>

NewModel ==
  [selected |-> 0, confirmation |-> NoText, output |-> Empty,
   automatic |-> FALSE, compression |-> "zst", verification |-> "decode",
   preview |-> NoRequest, warning |-> FALSE]

NewSetup ==
  [image |-> NoText, pre |-> "basic", post |-> "none", selected |-> 0,
   confirmation |-> NoText]

WizardInit ==
  /\ screen = "operation"
  /\ model = NewModel /\ setup = NewSetup
  /\ request = NoRequest
  /\ plugged = Listed
  /\ typedFor = 0 /\ seen = NoDisk

Show(next) == screen' = next
Keep == UNCHANGED <<request, plugged, typedFor, seen>>
KeepImage == Keep /\ UNCHANGED setup
KeepFlash == Keep /\ UNCHANGED model

ChooseOperation ==
  /\ screen = "operation"
  /\ Show("device") \/ Show("image")
  /\ UNCHANGED <<model, setup>> /\ Keep

InSetup == screen \notin {"started", "cancelled"}

\* Esc, a failing terminal, or a failing look for conflicts.
Cancel ==
  /\ InSetup
  /\ Show("cancelled")
  /\ model' = NewModel /\ setup' = NewSetup
  /\ typedFor' = 0 /\ seen' = NoDisk
  /\ UNCHANGED <<request, plugged>>
-----------------------------------------------------------------------------
(* The image wizard *)

\* analyze_layout succeeds on the disk at the path, whichever it is; that it
\* may fail otherwise changes nothing.
Analyzable(disk) == disk # NoDisk /\ disk.layout # "unsupported"

\* Mutant: the confirmation typed before is kept.
SelectedKeepsText(old, i) == [old EXCEPT !.selected = i]

\* Mutant: the digit of a key is taken for an index from zero.
SelectedNext(old, i) ==
  [old EXCEPT !.selected = i + 1, !.confirmation = NoText]

Selected(old, i) == [old EXCEPT !.selected = i, !.confirmation = NoText]

\* The default name needs the working directory; it may not be there.
WithOutput(old) ==
  IF old.output # Empty THEN {old}
  ELSE {old, [old EXCEPT !.output = DefaultName, !.automatic = TRUE]}

Warned(old, layout) == [old EXCEPT !.warning = layout = "unknown"]

SelectDevice(i) ==
  /\ screen = "device"
  /\ Analyzable(plugged[i])
  /\ \E new \in WithOutput(Selected(model, i)) :
       model' = Warned(new, plugged[i].layout)
  /\ seen' = plugged[i]
  /\ Show("confirm")
  /\ UNCHANGED <<setup, request, plugged, typedFor>>

TypeConfirmation(text) ==
  /\ screen = "confirm"
  /\ model' = [model EXCEPT !.confirmation = text]
  /\ typedFor' = model.selected
  /\ UNCHANGED <<screen, setup, request, plugged, seen>>

ConfirmDevice ==
  /\ screen = "confirm"
  /\ model.confirmation = Listed[model.selected].model
  /\ Show("output")
  /\ UNCHANGED model /\ KeepImage

TypeOutput(name) ==
  /\ screen = "output"
  /\ model' = [model EXCEPT !.output = name]
  /\ UNCHANGED screen /\ KeepImage

\* Four bytes are cut off whichever extension there is: ".xz" has three.
Renamed(name, compression) ==
  IF name.ext \notin Compressions THEN name
  ELSE [name EXCEPT !.cut = IF name.ext = "xz" THEN @ + 1 ELSE @,
                    !.ext = compression]

SetCompression(compression) ==
  LET name == IF model.automatic THEN Renamed(model.output, compression)
                                 ELSE model.output
  IN  /\ screen = "output"
      /\ name.cut <= MaxCut
      /\ model' = [model EXCEPT !.compression = compression, !.output = name]
      /\ UNCHANGED screen /\ KeepImage

Completed(name, compression) ==
  IF name.ext \in {"none", "img"} THEN [name EXCEPT !.ext = compression]
                                  ELSE name

\* The completed name is kept also when one of its files exists, which leads
\* back to the output screen.
LeaveOutput ==
  /\ screen = "output"
  /\ model.output # Empty
  /\ model' = [model EXCEPT !.output = Completed(@, model.compression)]
  /\ Show("verification") \/ Show("output")
  /\ KeepImage

SetVerification(level) ==
  /\ screen = "verification"
  /\ model' = [model EXCEPT !.verification = level]
  /\ UNCHANGED screen /\ KeepImage

ImageRequest(from) ==
  [operation |-> "image", path |-> from.selected,
   confirmation |-> from.confirmation, output |-> from.output,
   compression |-> from.compression, verification |-> from.verification]

\* What prepare() finds out about the device, for the preview and again for
\* the run; it knows the device by its path and the typed model.
FoundFor(asked, disk) == disk # NoDisk /\ disk.model = asked.confirmation

\* Mutant: a preview is computed once.
PreviewOnce(old) ==
  [old EXCEPT !.preview = IF @ = NoRequest THEN ImageRequest(old) ELSE @]

Previewed(old) == [old EXCEPT !.preview = ImageRequest(old)]

Preview ==
  /\ screen = "verification"
  /\ model.output.ext = model.compression
  /\ LET disk == plugged[model.selected]
     IN  FoundFor(ImageRequest(model), disk) /\ Analyzable(disk)
  /\ model' = Previewed(model)
  /\ Show("review")
  /\ KeepImage

Before == [confirm |-> "device", output |-> "confirm",
           verification |-> "output", review |-> "verification"]

Previous ==
  /\ screen \in DOMAIN Before
  /\ Show(Before[screen])
  /\ UNCHANGED model /\ KeepImage

\* The wizard returns the request, and nothing else outlives it.
StartImage ==
  /\ screen = "review"
  /\ request' = ImageRequest(model)
  /\ Show("started")
  /\ model' = NewModel /\ typedFor' = 0 /\ seen' = NoDisk
  /\ UNCHANGED <<setup, plugged>>
-----------------------------------------------------------------------------
(* The flash wizard *)

TypeImage(image) ==
  /\ screen = "image"
  /\ setup' = [setup EXCEPT !.image = image]
  /\ UNCHANGED screen /\ KeepFlash

LeaveImage ==
  /\ screen = "image"
  /\ setup.image # NoText
  /\ Show("preVerify")
  /\ UNCHANGED setup /\ KeepFlash

SetPreVerify(level) ==
  /\ screen = "preVerify"
  /\ setup' = [setup EXCEPT !.pre = level]
  /\ UNCHANGED screen /\ KeepFlash

\* inspect() accepts the image; that it may refuse it changes nothing.
InspectImage ==
  /\ screen = "preVerify"
  /\ Show("target")
  /\ UNCHANGED setup /\ KeepFlash

SelectTarget(i) ==
  /\ screen = "target"
  /\ setup' = [setup EXCEPT !.selected = i]
  /\ Show("targetConfirm")
  /\ KeepFlash

TypeTarget(text) ==
  /\ screen = "targetConfirm"
  /\ setup' = [setup EXCEPT !.confirmation = text]
  /\ typedFor' = setup.selected
  /\ UNCHANGED <<screen, model, request, plugged, seen>>

ConfirmTarget ==
  /\ screen = "targetConfirm"
  /\ setup.confirmation = Listed[setup.selected].model
  /\ Show("postVerify")
  /\ UNCHANGED setup /\ KeepFlash

SetPostVerify(level) ==
  /\ screen = "postVerify"
  /\ setup' = [setup EXCEPT !.post = level]
  /\ UNCHANGED screen /\ KeepFlash

LeavePostVerify ==
  /\ screen = "postVerify"
  /\ Show("flashReview")
  /\ UNCHANGED setup /\ KeepFlash

FlashRequest ==
  [operation |-> "flash", path |-> setup.selected,
   confirmation |-> setup.confirmation, image |-> setup.image,
   pre |-> setup.pre, post |-> setup.post]

StartFlash ==
  /\ screen = "flashReview"
  /\ request' = FlashRequest
  /\ Show("started")
  /\ setup' = NewSetup /\ typedFor' = 0
  /\ UNCHANGED <<model, plugged, seen>>
-----------------------------------------------------------------------------
ImageKey ==
  \/ \E i \in Paths : SelectDevice(i)
  \/ \E text \in Texts : TypeConfirmation(text)
  \/ ConfirmDevice
  \/ \E name \in TypedNames : TypeOutput(name)
  \/ \E compression \in Compressions : SetCompression(compression)
  \/ LeaveOutput
  \/ \E level \in Levels : SetVerification(level)
  \/ Preview
  \/ Previous
  \/ StartImage

FlashKey ==
  \/ \E image \in Images : TypeImage(image)
  \/ LeaveImage
  \/ \E level \in {"none", "basic", "full"} : SetPreVerify(level)
  \/ InspectImage
  \/ \E i \in Paths : SelectTarget(i)
  \/ \E text \in Texts : TypeTarget(text)
  \/ ConfirmTarget
  \/ \E level \in {"none", "full"} : SetPostVerify(level)
  \/ LeavePostVerify
  \/ StartFlash

WizardNext == ChooseOperation \/ Cancel \/ ImageKey \/ FlashKey

\* Screens that are only shown once the model of the device was typed.
PastConfirmation ==
  {"output", "verification", "review", "postVerify", "flashReview"}

Choice == IF model.selected # 0 THEN model ELSE setup

\* Nothing chosen or typed for one device is taken for another the operator
\* went back for: past the confirmation the text is the model of the selected
\* device and was typed after it was selected, and the warning shown with the
\* request for it is about the disk analysed then.
NothingKeptOfLastDevice ==
  /\ screen \in PastConfirmation =>
       /\ typedFor = Choice.selected
       /\ Choice.confirmation = Listed[Choice.selected].model
  /\ screen = "confirm" => model.warning = (seen.layout = "unknown")

\* The plan on the review screen was computed for the very request Enter
\* starts, however often the operator went back and changed it.
RequestIsReviewed ==
  screen = "review" =>
    /\ model.preview = ImageRequest(model)
    /\ model.output.ext = model.compression
=============================================================================
