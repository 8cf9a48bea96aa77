--------------------------- MODULE AtomicCommand ---------------------------
(***************************************************************************)
(* What a stage of the shrink relies on when it runs a command: while the  *)
(* call lasts the command may do its work; success is only reported when   *)
(* it has, and from the moment the call returns nothing is changed by it   *)
(* any more, so that the next command never meets the one before.          *)
(***************************************************************************)
VARIABLES
  call,  \* "idle", "running", "ok" or "failed"
  done   \* whether the command has done its work

vars == <<call, done>>

Init == call = "idle" /\ done = FALSE

Begin ==
  /\ call = "idle"
  /\ call' \in {"running", "failed"}
  /\ UNCHANGED done

Work ==
  /\ call = "running"
  /\ done' = TRUE
  /\ UNCHANGED call

Return ==
  /\ call = "running"
  /\ call' = "failed" \/ (done /\ call' = "ok")
  /\ UNCHANGED done

Next == Begin \/ Work \/ Return

Spec == Init /\ [][Next]_vars
=============================================================================
