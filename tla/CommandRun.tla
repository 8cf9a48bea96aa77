----------------------------- MODULE CommandRun -----------------------------
(***************************************************************************)
(* ProcessRunner::run: one external command under setsid and timeout(1),   *)
(* with its input written to one pipe and its output read from another.    *)
(*                                                                         *)
(* Three processes meet in the pipes: the caller, timeout(1), and the      *)
(* command, which may hang, print without end, ignore SIGTERM or its       *)
(* input, or be killed by others.  setsid becomes timeout(1).  The text of *)
(* the output is left out, and so are processes the command leaves behind. *)
(***************************************************************************)
EXTENDS Integers

CONSTANTS
  Inputs,    \* pieces of standard input a command may be given
  Capacity,  \* pieces a pipe holds
  Accepts,   \* sets of accepted statuses
  Statuses   \* statuses a command may exit with

ASSUME CommandAssumption ==
  /\ Inputs \subseteq Nat /\ Capacity \in Nat \ {0}
  /\ Statuses \subseteq 0..127

VARIABLES
  accepted,  \* CommandSpec: its accepted statuses
  unwritten, \* what is left of its input
  caller,    \* what run() does next
  result,    \* what it returned
  input,     \* pieces in the pipe to the command
  output,    \* pieces in the pipe from it
  command,   \* "none", "running", "killed" (but not dead yet) or "ended"
  guard,     \* timeout(1)
  code,      \* how the command ended; minus the number of a signal
  status,    \* how timeout(1) ended, likewise
  done       \* whether the command has done its work

spec == <<accepted, unwritten>>
pipes == <<input, output>>
processes == <<command, guard, code, status, done>>
vars == <<spec, caller, result, pipes, processes>>

Init ==
  /\ accepted \in Accepts /\ unwritten \in Inputs
  /\ caller = "spawn" /\ result = "none"
  /\ input = 0 /\ output = 0
  /\ command = "none" /\ guard = "none"
  /\ code = 0 /\ status = 0
  /\ done = FALSE
-----------------------------------------------------------------------------
(* The caller *)

Spawn ==
  /\ caller = "spawn"
  /\ \/ /\ caller' = IF unwritten > 0 THEN "write" ELSE "wait"
        /\ command' = "running" /\ guard' = "watching"
        /\ UNCHANGED result
     \/ /\ caller' = "returned" /\ result' = "io"
        /\ UNCHANGED <<command, guard>>
  /\ UNCHANGED <<spec, pipes, code, status, done>>

\* Mutant: only timeout(1) is waited for.
HeldByGuard == guard \notin {"none", "dead"}

\* The ends of the pipes the command has are held by timeout(1) as well.
Held == command \in {"running", "killed"} \/ guard \notin {"none", "dead"}

\* write_all blocks on a full pipe, and fails when no one is left to read;
\* the child is then not waited for.
WriteInput ==
  /\ caller = "write"
  /\ \/ /\ Held /\ input < Capacity
        /\ input' = input + 1 /\ unwritten' = unwritten - 1
        /\ caller' = IF unwritten = 1 THEN "wait" ELSE caller
        /\ UNCHANGED result
     \/ /\ ~Held
        /\ caller' = "returned" /\ result' = "io"
        /\ UNCHANGED <<input, unwritten>>
  /\ UNCHANGED <<accepted, output, processes>>

\* wait_with_output reads until no one can write any more.
ReadOutput ==
  /\ caller = "wait" /\ output > 0
  /\ output' = output - 1
  /\ UNCHANGED <<spec, caller, result, input, processes>>

Outcome(end) ==
  IF end < 0 THEN "signal"
  ELSE IF end \in {124, 137} THEN "timed out"
  ELSE IF end > 128 THEN "signal"
  ELSE IF end \in accepted THEN "ok" ELSE "failed"

Collect ==
  /\ caller = "wait" /\ output = 0 /\ ~Held
  /\ result' = Outcome(status)
  /\ caller' = "returned"
  /\ UNCHANGED <<spec, pipes, processes>>

Caller == Spawn \/ WriteInput \/ ReadOutput \/ Collect
-----------------------------------------------------------------------------
(* The command *)

Alive == command \in {"running", "killed"}

\* Also after SIGKILL a system call that was begun is carried out.
Work ==
  /\ Alive /\ ~done
  /\ done' = TRUE
  /\ UNCHANGED <<spec, caller, result, pipes, command, guard, code, status>>

UsePipes ==
  /\ command = "running"
  /\ \/ input > 0 /\ input' = input - 1 /\ UNCHANGED output
     \/ output < Capacity /\ output' = output + 1 /\ UNCHANGED input
  /\ UNCHANGED <<spec, caller, result, processes>>

\* The command reports a status the caller accepts only when it has done its
\* work.
Exit ==
  /\ command = "running"
  /\ command' = "ended"
  /\ \E end \in Statuses \cup {-9, -15} :
       /\ end \in accepted => done
       /\ code' = end
  /\ UNCHANGED <<spec, caller, result, pipes, guard, status, done>>

Die ==
  /\ command = "killed"
  /\ command' = "ended" /\ code' = -9
  /\ UNCHANGED <<spec, caller, result, pipes, guard, status, done>>
-----------------------------------------------------------------------------
(* timeout --signal=TERM --kill-after=10s *)

KeepCommand == UNCHANGED <<spec, caller, result, pipes, code, done>>

\* The time is up; SIGTERM is sent, which the command may heed or not.
TimeOut ==
  /\ guard = "watching" /\ command = "running"
  /\ guard' = "terminating"
  /\ UNCHANGED <<command, status>> /\ KeepCommand

\* Mutant: without --kill-after.
NeverKills == FALSE

KillsAfter == guard = "terminating"

\* Ten seconds later SIGKILL goes to the process group, which is its own.
KillAfter ==
  /\ KillsAfter /\ command = "running"
  /\ command' = "killed"
  /\ \/ guard' = "dead" /\ status' = -9
     \/ guard' = "killing" /\ UNCHANGED status
  /\ KeepCommand

\* The command has ended: its status is passed on, a signal by dying of it,
\* unless the time was up.
PassStatus ==
  /\ guard \in {"watching", "terminating", "killing"} /\ command = "ended"
  /\ guard' = "dead"
  /\ status' = CASE guard = "watching"    -> code
                 [] guard = "terminating" -> 124
                 [] guard = "killing"     -> 137
  /\ UNCHANGED command /\ KeepCommand

Guard == TimeOut \/ KillAfter \/ PassStatus
-----------------------------------------------------------------------------
Returned == caller = "returned" /\ ~Alive /\ UNCHANGED vars

Next ==
  Caller \/ Work \/ UsePipes \/ Exit \/ Die \/ Guard \/ Returned

\* The caller is scheduled, timers expire, and what was killed dies.  Nothing
\* is assumed of the command otherwise.
Fairness == WF_vars(Caller) /\ WF_vars(Guard) /\ WF_vars(Die)

Spec == Init /\ [][Next]_vars /\ Fairness
-----------------------------------------------------------------------------
CallOf ==
  IF result = "ok" THEN "ok"
  ELSE IF result # "none" THEN "failed"
  ELSE IF caller = "spawn" THEN "idle" ELSE "running"

\* A run of a command is what the stages take it for: with three processes,
\* two pipes, timeouts and signals it never returns while its command still
\* works, and success is only reported of a command that has done its work.
Atomic == INSTANCE AtomicCommand WITH call <- CallOf
ImplementsAtomicCommand == Atomic!Spec

\* command.rs: "Set a finite wall-clock timeout."  Every call returns, also of
\* a command that hangs, prints without end, does not read its input or
\* ignores SIGTERM.
CallReturns == <>(caller = "returned")
=============================================================================
