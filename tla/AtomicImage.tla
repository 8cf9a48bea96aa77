---------------------------- MODULE AtomicImage ----------------------------
(***************************************************************************)
(* What an extraction promises of the file at its output path, whatever    *)
(* threads, buffers and partial files it uses: the image appears there in  *)
(* one step and complete, success is only reported for an image that is    *)
(* there, and an image reported is never lost again.                       *)
(***************************************************************************)
VARIABLES
  image,    \* "absent" or "complete"
  outcome   \* "running", "ok", "failed", or "lost" with the process

vars == <<image, outcome>>

Init == image = "absent" /\ outcome = "running"

Publish ==
  /\ outcome = "running" /\ image = "absent"
  /\ image' = "complete"
  /\ UNCHANGED outcome

Succeed ==
  /\ outcome = "running" /\ image = "complete"
  /\ outcome' = "ok"
  /\ UNCHANGED image

Fail ==
  /\ outcome = "running"
  /\ outcome' = "failed"
  /\ UNCHANGED image

\* The process or the machine stops.  Unless success has been reported, the
\* image may be gone when the machine is back.
Stop ==
  /\ outcome # "ok"
  /\ outcome' \in {outcome, "lost"}
  /\ image' \in {image, "absent"}

Next == Publish \/ Succeed \/ Fail \/ Stop

Spec == Init /\ [][Next]_vars
=============================================================================
