----------------------------- MODULE Dashboard -----------------------------
(***************************************************************************)
(* The dashboards, run_operation and run_flash_operation: a worker thread  *)
(* does the operation and sends its events and then its result through a   *)
(* channel; the main thread applies them to what it shows, waits for the   *)
(* worker to end, and for the operator to close the dashboard.             *)
(*                                                                         *)
(* What the worker does is in Session.  A failed draw ends the process,    *)
(* and with it the worker.  The bytes, rates and times that are shown are  *)
(* left out.                                                               *)
(***************************************************************************)
EXTENDS Integers, Sequences, FiniteSets

CONSTANT NoResult

ASSUME ResultAssumption == NoResult \notin {"ok", "error", "lost"}

VARIABLES
  main,     \* what the main thread does
  worker,   \* the worker thread
  queue,    \* the channel
  dash,     \* what the dashboard knows: phase, recent events, error
  drawn,    \* as it was drawn last
  outcome,  \* the result the main loop ended with
  status    \* of the process: "ok", "error", or "lost" with its terminal

dashboard == <<main, queue, dash, drawn, outcome, status>>

MaxRecentEvents == 8

\* Messages of the channel.
Event(event) == [kind |-> "event", event |-> event]
Finished(result) == [kind |-> "finished", result |-> result]

EmptyDash == [phase |-> "none", events |-> << >>, error |-> FALSE]

DashboardInit ==
  /\ main = "setup" /\ worker = "none"
  /\ queue = << >>
  /\ dash = EmptyDash /\ drawn = EmptyDash
  /\ outcome = NoResult /\ status = NoResult
-----------------------------------------------------------------------------
(* The reducer *)

LastOf(events, n) ==
  SubSeq(events, IF Len(events) > n THEN Len(events) - n + 1 ELSE 1,
         Len(events))

PushEvent(old, event) ==
  [old EXCEPT !.events = LastOf(Append(@, event), MaxRecentEvents)]

SetPhase(old, phase) == PushEvent([old EXCEPT !.phase = phase], phase)

\* The phase each event of an imaging run begins.
PhaseOf == [Preparing |-> "inspect", Mutating |-> "shrink",
            Extracting |-> "extract", Verifying |-> "verify",
            Complete |-> "complete"]

\* Mutant: each report of progress is an event of its own.
BeginsAgain(old, event) == TRUE

BeginsPhase(old, event) == event # "Extracting" \/ old.phase # "extract"

ImageApplied(old, event) ==
  IF event = "Warning" THEN PushEvent(old, "warning")
  ELSE IF BeginsPhase(old, event) THEN SetPhase(old, PhaseOf[event]) ELSE old

\* A flash has a phase and a flag for a missing sidecar, but no list.
FlashApplied(old, event) ==
  IF event = "MissingSidecar" THEN [old EXCEPT !.events = <<"warning">>]
  ELSE [old EXCEPT !.phase = IF event = "Complete" THEN "complete" ELSE event]

Applied(operation, old, event) ==
  IF operation = "image" THEN ImageApplied(old, event)
                         ELSE FlashApplied(old, event)

FailureShown(operation, old) ==
  [IF operation = "image" THEN PushEvent(old, "failed") ELSE old
     EXCEPT !.error = TRUE]
-----------------------------------------------------------------------------
(* The main thread *)

\* The image dashboard is drawn before the worker is spawned, in the phase
\* its first event sets again.
Launch(operation) ==
  /\ main = "setup"
  /\ worker' = "running"
  /\ main' = "receive"
  /\ dash' = IF operation = "image" THEN SetPhase(EmptyDash, "inspect")
                                    ELSE EmptyDash
  /\ drawn' = dash'
  /\ UNCHANGED <<queue, outcome, status>>

Receive(operation) ==
  /\ main = "receive" /\ queue # << >> /\ Head(queue).kind = "event"
  /\ queue' = Tail(queue)
  /\ dash' = Applied(operation, dash, Head(queue).event)
  /\ drawn' = dash'
  /\ UNCHANGED <<main, worker, outcome, status>>

\* Mutant: what is shown as complete is taken for a success.
ResultShown(message) ==
  IF dash.phase = "complete" THEN "ok" ELSE message.result

ResultOf(message) == message.result

ReceiveResult ==
  /\ main = "receive" /\ queue # << >> /\ Head(queue).kind = "finished"
  /\ queue' = Tail(queue)
  /\ outcome' = ResultOf(Head(queue))
  /\ main' = "join"
  /\ UNCHANGED <<worker, dash, drawn, status>>

\* Mutant: the main thread keeps a sender of the channel.
StillConnected == queue = << >> /\ FALSE

\* Both senders are gone when the thread has ended or unwound.
Disconnected == queue = << >> /\ worker \in {"ended", "panicked"}

ReceiveNothing ==
  /\ main = "receive" /\ Disconnected
  /\ outcome' = "error"
  /\ main' = "join"
  /\ UNCHANGED <<worker, queue, dash, drawn, status>>

\* The result of join() on a panicked thread is returned without being shown.
JoinPanicked ==
  /\ main = "join" /\ worker = "panicked"
  /\ main' = "exited" /\ status' = "error"
  /\ UNCHANGED <<worker, queue, dash, drawn, outcome>>

Join(operation) ==
  /\ main = "join" /\ worker = "ended"
  /\ dash' = IF outcome = "error" THEN FailureShown(operation, dash) ELSE dash
  /\ drawn' = dash'
  /\ main' = "acknowledge"
  /\ UNCHANGED <<worker, queue, outcome, status>>

\* Enter or Esc; a key typed before counts.
Acknowledge ==
  /\ main = "acknowledge"
  /\ main' = "exited"
  /\ status' = IF outcome = "error" THEN "error" ELSE "ok"
  /\ UNCHANGED <<worker, queue, dash, drawn, outcome>>

\* A draw or a read of the terminal fails, on any of the redraws there are;
\* the process exits.
LoseTerminal ==
  /\ main \in {"setup", "receive", "join", "acknowledge"}
  /\ main = "join" => worker = "ended" /\ outcome = "error"
  /\ main' = "exited" /\ status' = "lost"
  /\ worker' = IF worker \in {"running", "finished"} THEN "killed" ELSE worker
  /\ UNCHANGED <<queue, dash, drawn, outcome>>

MainNext(operation) ==
  \/ Receive(operation) \/ ReceiveResult \/ ReceiveNothing
  \/ JoinPanicked \/ Join(operation)
=============================================================================
