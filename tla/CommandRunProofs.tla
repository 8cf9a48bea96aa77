-------------------------- MODULE CommandRunProofs --------------------------
(***************************************************************************)
(* Proof that a run of a command is an atomic command, for every input,    *)
(* size of the pipes, set of accepted statuses and status it exits with.   *)
(***************************************************************************)
EXTENDS CommandRun, TLAPS

Callers == {"spawn", "write", "wait", "returned"}
Results == {"none", "io", "signal", "timed out", "failed", "ok"}

\* What is known of the call at each step of the caller.
CallerInv ==
  /\ caller \in Callers /\ result \in Results
  /\ result = "none" <=> caller # "returned"
  /\ caller = "spawn" => command = "none" /\ guard = "none" /\ done = FALSE
  /\ caller \in {"write", "wait"} => guard # "none"
  /\ caller = "returned" => ~Alive
  /\ result = "ok" => done

\* Of the command and of timeout(1): an accepted status is only passed on
\* when the work was done.
ProcessInv ==
  /\ code \in Int /\ status \in Int
  /\ command = "ended" /\ code >= 0 /\ code \in accepted => done
  /\ guard = "dead" /\ Outcome(status) = "ok" => done

IInv == CallerInv /\ ProcessInv

\* Statuses are integers, and so are the signals a command dies of.
LEMMA EndsAreIntegers == Statuses \cup {-9, -15} \subseteq Int
  BY CommandAssumption

\* What run() may make of a status, and of which it makes a success.
LEMMA OutcomeOfStatus ==
  ASSUME NEW end \in Int
  PROVE  /\ Outcome(end) \in Results \ {"none", "io"}
         /\ Outcome(end) = "ok" => end >= 0 /\ end \in accepted
  BY DEF Outcome, Results

LEMMA InvariantStarts == Init => IInv
  <1> SUFFICES ASSUME Init
               PROVE  IInv
    OBVIOUS
  <1>1. CallerInv
    BY DEF Init, CallerInv, Callers, Results, Alive
  <1>2. ProcessInv
    BY DEF Init, ProcessInv
  <1> QED BY <1>1, <1>2 DEF IInv

\* The caller leaves the processes alone, and returns only when both have
\* ended.
LEMMA CallerKeeps ==
  ASSUME IInv, Caller
  PROVE  IInv'
  <1>1. CASE Spawn
    <2>1. UNCHANGED <<accepted, code, status, done>>
      BY <1>1 DEF Spawn, spec
    <2>2. \/ /\ caller' \in {"write", "wait"} /\ result' = "none"
             /\ command' = "running" /\ guard' = "watching"
          \/ /\ caller' = "returned" /\ result' = "io"
             /\ command' = "none" /\ guard' = "none"
      BY <1>1 DEF IInv, CallerInv, Spawn
    <2>3. CallerInv'
      BY <2>2 DEF CallerInv, Callers, Results, Alive
    <2>4. ProcessInv'
      BY <2>1, <2>2 DEF IInv, ProcessInv
    <2> QED BY <2>3, <2>4 DEF IInv
  <1>2. CASE WriteInput
    <2>1. UNCHANGED <<command, guard, code, status, done, accepted>>
      BY <1>2 DEF WriteInput, processes
    <2>2. ProcessInv'
      BY <2>1 DEF IInv, ProcessInv, Outcome
    <2>3. caller' = "returned" => ~Alive
      BY <1>2 DEF IInv, CallerInv, WriteInput, Held, Alive
    <2>4. CallerInv'
      BY <1>2, <2>1, <2>3
      DEF IInv, CallerInv, WriteInput, Callers, Results, Alive
    <2> QED BY <2>2, <2>4 DEF IInv
  <1>3. CASE ReadOutput
    BY <1>3 DEF IInv, CallerInv, ProcessInv, ReadOutput, Callers, Results,
                Alive, Outcome, spec, processes
  <1>4. CASE Collect
    <2>1. UNCHANGED <<command, guard, code, status, done, accepted>>
      BY <1>4 DEF Collect, processes, spec
    <2>2. ProcessInv'
      BY <2>1 DEF IInv, ProcessInv, Outcome
    <2>3. guard = "dead" /\ ~Alive
      BY <1>4 DEF IInv, CallerInv, Collect, Held, Alive
    <2>4. Outcome(status) \in Results \ {"none", "io"}
      BY OutcomeOfStatus DEF IInv, ProcessInv
    <2>5. result' = "ok" => done
      BY <1>4, <2>3 DEF IInv, ProcessInv, Collect
    <2>6. result' \in Results \ {"none"} /\ caller' = "returned"
      BY <1>4, <2>4 DEF Collect
    <2>7. CallerInv'
      BY <2>1, <2>3, <2>5, <2>6 DEF IInv, CallerInv, Callers, Alive
    <2> QED BY <2>2, <2>7 DEF IInv
  <1> QED BY <1>1, <1>2, <1>3, <1>4 DEF Caller

\* The command works and ends only while the call lasts.
LEMMA CommandKeeps ==
  ASSUME IInv, Work \/ UsePipes \/ Exit \/ Die
  PROVE  IInv'
  <1>1. CASE Work
    BY <1>1 DEF IInv, CallerInv, ProcessInv, Work, Alive, Outcome, spec, pipes
  <1>2. CASE UsePipes
    BY <1>2 DEF IInv, CallerInv, ProcessInv, UsePipes, Alive, Outcome, spec,
                processes
  <1>3. CASE Exit
    <2>1. code' \in Int /\ (code' \in accepted => done)
      BY <1>3, EndsAreIntegers DEF Exit
    <2> QED
      BY <1>3, <2>1 DEF IInv, CallerInv, ProcessInv, Exit, Alive, Outcome, spec,
                        pipes
  <1>4. CASE Die
    BY <1>4 DEF IInv, CallerInv, ProcessInv, Die, Alive, Outcome, spec, pipes
  <1> QED BY <1>1, <1>2, <1>3, <1>4

\* timeout(1) makes no success of a command it stopped.
LEMMA GuardKeeps ==
  ASSUME IInv, Guard
  PROVE  IInv'
  <1>1. CASE TimeOut
    BY <1>1 DEF IInv, CallerInv, ProcessInv, TimeOut, KeepCommand, Alive,
                Outcome, spec, pipes
  <1>2. CASE KillAfter
    BY <1>2 DEF IInv, CallerInv, ProcessInv, KillAfter, KillsAfter, KeepCommand,
                Alive, Outcome, spec, pipes
  <1>3. CASE PassStatus
    <2>1. UNCHANGED <<accepted, caller, result, command, code, done>>
      BY <1>3 DEF PassStatus, KeepCommand, spec
    <2>2. status' \in {code, 124, 137} /\ guard' = "dead" /\ command = "ended"
      BY <1>3 DEF PassStatus
    <2>3. status' \in Int
      BY <2>2 DEF IInv, ProcessInv
    <2>4. Outcome(status') = "ok" => status' = code
      BY <2>2 DEF Outcome
    <2>5. Outcome(status') = "ok" => done
      BY <2>2, <2>4, OutcomeOfStatus DEF IInv, ProcessInv
    <2>6. Outcome(status)' = Outcome(status')
      BY <2>1 DEF Outcome
    <2>7. ProcessInv'
      BY <2>1, <2>2, <2>3, <2>5, <2>6 DEF IInv, ProcessInv
    <2>8. CallerInv'
      BY <1>3, <2>1, <2>2 DEF IInv, CallerInv, Alive, PassStatus
    <2> QED BY <2>7, <2>8 DEF IInv
  <1> QED BY <1>1, <1>2, <1>3 DEF Guard

LEMMA InvariantKept == IInv /\ [Next]_vars => IInv'
  <1> SUFFICES ASSUME IInv, [Next]_vars
               PROVE  IInv'
    OBVIOUS
  <1>1. CASE Caller
    BY <1>1, CallerKeeps
  <1>2. CASE Work \/ UsePipes \/ Exit \/ Die
    BY <1>2, CommandKeeps
  <1>3. CASE Guard
    BY <1>3, GuardKeeps
  <1>4. CASE Returned \/ UNCHANGED vars
    BY <1>4 DEF IInv, CallerInv, ProcessInv, Returned, vars, spec, pipes,
                processes, Alive, Outcome
  <1> QED BY <1>1, <1>2, <1>3, <1>4 DEF Next

\* Every step of the three processes begins the call, does its work, returns
\* from it, or is none of the stage's concern.
LEMMA StepIsAtomic == IInv /\ [Next]_vars => [Atomic!Next]_Atomic!vars
  <1> SUFFICES ASSUME IInv, [Next]_vars
               PROVE  [Atomic!Next]_Atomic!vars
    OBVIOUS
  <1> USE DEF IInv, CallerInv, CallOf, Atomic!vars
  <1>1. CASE Spawn
    BY <1>1 DEF Spawn, Atomic!Next, Atomic!Begin
  <1>2. CASE WriteInput
    BY <1>2 DEF WriteInput, processes, Callers, Atomic!Next, Atomic!Return
  <1>3. CASE ReadOutput
    BY <1>3 DEF ReadOutput, processes
  <1>4. CASE Collect
    <2>1. IInv'
      BY <1>4, CallerKeeps DEF Caller
    <2>2. CallOf = "running" /\ result' # "none" /\ done' = done
      BY <1>4, <2>1 DEF Collect, processes
    <2>3. CallOf' \in {"ok", "failed"} /\ (CallOf' = "ok" => done)
      BY <2>1, <2>2
    <2> QED BY <2>2, <2>3 DEF Atomic!Next, Atomic!Return
  <1>5. CASE Work
    BY <1>5 DEF Work, Alive, Atomic!Next, Atomic!Work
  <1>6. CASE UsePipes \/ Exit \/ Die
    BY <1>6 DEF UsePipes, Exit, Die, processes
  <1>7. CASE Guard
    BY <1>7 DEF Guard, TimeOut, KillAfter, PassStatus, KeepCommand
  <1>8. CASE Returned \/ UNCHANGED vars
    BY <1>8 DEF Returned, vars, processes
  <1> QED BY <1>1, <1>2, <1>3, <1>4, <1>5, <1>6, <1>7, <1>8 DEF Next, Caller

\* run() is what the stages of the shrink take it for: its command does
\* nothing after it returned, and success is only reported of work that was
\* done, also with full pipes, timeouts and signals.
THEOREM RunIsAtomic == Spec => ImplementsAtomicCommand
  <1>1. Init => Atomic!Init
    BY DEF Init, Atomic!Init, CallOf
  <1> QED
    BY <1>1, InvariantStarts, InvariantKept, StepIsAtomic, PTL
       DEF Spec, ImplementsAtomicCommand, Atomic!Spec
=============================================================================
