--------------------------- MODULE ImageRunProofs ---------------------------
(***************************************************************************)
(* For every set of runs.  The log is a lock: at most one run is under     *)
(* way, and no run ever replaces a file of another.  Then what the files   *)
(* certify: the log and the metadata stay true, whatever comes later.      *)
(*                                                                         *)
(* The checks of the code (output_conflict, extract_path, write_sidecar)   *)
(* look at a path first and create the file later.  What they saw stays    *)
(* true in between only because the holder of the log is alone.            *)
(***************************************************************************)
EXTENDS ImageRun, TLAPS

\* An admitted run holds the log.
LockInv == \A r \in Runs : Admitted(r) => dir["log"] = r

\* What a run saw or made at the paths of the image and of its metadata.
PathsOf(r) ==
  /\ pc[r] = "createPartial" => Free("image") /\ Free("imagePartial")
  /\ pc[r] \in {"copy", "publish"} =>
       /\ Free("image") /\ dir["imagePartial"] = r
       /\ synced["imagePartial"] = NoFile
  /\ pc[r] = "writeSidecar" => Free("sidecar") /\ Free("sidecarPartial")
  /\ pc[r] = "renameSidecar" =>
       /\ Free("sidecar") /\ dir["sidecarPartial"] = r
       /\ synced["sidecarPartial"] = NoFile

PathInv == \A r \in Runs : PathsOf(r)

\* The synced directory differs only by files not yet in it.
SyncInv == \A n \in Names : synced[n] \in {NoFile, dir[n]}

RunInv == TypeOK /\ LockInv /\ PathInv /\ SyncInv

\* Before the first run nothing is locked and no file is there.
LEMMA InitRun == Init => RunInv
  <1> SUFFICES ASSUME Init PROVE RunInv
    OBVIOUS
  <1>1. TypeOK
    BY RunAssumption
    DEF Init, TypeOK, Steps, Ended, StageNames, LogEntry, Entry
  <1>2. LockInv /\ PathInv /\ SyncInv
    BY DEF Init, LockInv, PathInv, PathsOf, SyncInv, Admitted, Steps
  <1> QED BY <1>1, <1>2 DEF RunInv

\* The holder of the log is the only admitted run.
LEMMA LockExcludes == LockInv => OneRunAtATime
  BY DEF LockInv, OneRunAtATime

\* A step of the holder of the log that leaves the log in place disturbs
\* nothing any other run relies on: there is no other run under way.
LEMMA HolderIsAlone ==
  ASSUME TypeOK, LockInv, NEW r \in Runs, Admitted(r), NEW step, Goto(r, step),
         dir'["log"] = dir["log"], PathsOf(r)'
  PROVE  LockInv' /\ PathInv'
  <1>1. \A s \in Runs \ {r} : ~Admitted(s)
    BY DEF LockInv
  <1>2. \A s \in Runs \ {r} : pc'[s] = pc[s]
    BY DEF Goto, TypeOK
  <1>3. \A s \in Runs \ {r} : PathsOf(s)'
    BY <1>1, <1>2 DEF PathsOf, Admitted, Steps
  <1>4. PathInv'
    BY <1>3 DEF PathInv
  <1>5. dir["log"] = r
    BY DEF LockInv
  <1>6. LockInv'
    BY <1>1, <1>2, <1>5 DEF LockInv, Admitted
  <1> QED BY <1>4, <1>6

\* What a step does not change at all stays as it is.
LEMMA KeepsFiles ==
  ASSUME SyncInv, UNCHANGED files
  PROVE  SyncInv' /\ dir' = dir /\ synced' = synced
  BY DEF SyncInv, files

\* A file that is moved leaves the directory well-formed.
LEMMA MoveTyped ==
  ASSUME dir \in [Names -> Runs \cup {NoFile}],
         NEW from \in Names, NEW to \in Names, Move(from, to)
  PROVE  dir' \in [Names -> Runs \cup {NoFile}]
  BY DEF Move

\* Every step of a run keeps the types.
LEMMA RunTyped ==
  ASSUME TypeOK, NEW r \in Runs, Run(r)
  PROVE  TypeOK'
  <1> USE RunAssumption
      DEF TypeOK, Goto, Fail, Fault, NoFault, Put, Move, Steps, Ended, Names,
          StageNames, flags, source, files, bounds
  <1>1. ASSUME NEW result \in {"none", "open", "success", "failure"}
        PROVE  Entry(r, result) \in LogEntry
    BY DEF Entry, LogEntry
  <1>2. CASE Validate(r)
    BY <1>2 DEF Validate
  <1>3. CASE OpenLog(r)
    BY <1>1, <1>3 DEF OpenLog
  <1>4. CASE Prepare(r)
    BY <1>4 DEF Prepare
  <1>5. CASE Begin(r)
    <2>1. CASE /\ stage' = [stage EXCEPT ![r] = "mutating"]
               /\ ReportMutating(r)
               /\ Goto(r, "mutate") /\ NoFault
      <3>1. stage' \in [Runs -> StageNames]
        BY <2>1
      <3>2. modified' \in [Runs -> BOOLEAN]
        BY <2>1, Zenon DEF ReportMutating
      <3> QED BY <1>5, <2>1, <3>1, <3>2 DEF Begin
    <2>2. CASE Fault /\ Fail(r) /\ UNCHANGED <<stage, modified>>
      BY <1>5, <2>2 DEF Begin
    <2> QED BY <1>5, <2>1, <2>2 DEF Begin
  <1>6. CASE BeginShrink(r)
    BY <1>6 DEF BeginShrink
  <1>7. CASE EndShrink(r)
    BY <1>7 DEF EndShrink
  <1>8. CASE ExtractCheck(r)
    BY <1>8 DEF ExtractCheck
  <1>9. CASE CreatePartial(r)
    BY <1>9 DEF CreatePartial
  <1>10. CASE Progress(r)
    BY <1>10 DEF Progress
  <1>11. CASE Publish(r)
    <2>1. dir' \in [Names -> Runs \cup {NoFile}]
      BY <1>11, MoveTyped DEF Publish
    <2>2. flaws' \subseteq {"damaged", "rewritten"}
      BY <1>11 DEF Publish
    <2> QED BY <1>11, <2>1, <2>2 DEF Publish
  <1>12. CASE SyncImage(r)
    BY <1>12 DEF SyncImage
  <1>13. CASE Verify(r)
    BY <1>13 DEF Verify
  <1>14. CASE SidecarCheck(r)
    BY <1>14 DEF SidecarCheck
  <1>15. CASE WriteSidecar(r)
    BY <1>15 DEF WriteSidecar
  <1>16. CASE RenameSidecar(r)
    <2>1. dir' \in [Names -> Runs \cup {NoFile}]
      BY <1>16, MoveTyped DEF RenameSidecar
    <2> QED BY <1>16, <2>1 DEF RenameSidecar
  <1>17. CASE SyncSidecar(r)
    BY <1>17 DEF SyncSidecar
  <1>18. CASE WriteLog(r)
    BY <1>1, <1>18 DEF WriteLog
  <1> QED
    BY <1>2, <1>3, <1>4, <1>5, <1>6, <1>7, <1>8, <1>9, <1>10, <1>11, <1>12,
       <1>13, <1>14, <1>15, <1>16, <1>17, <1>18 DEF Run

\* Signals, kills, power losses and flaws keep the types.
LEMMA EnvironmentTyped == TypeOK /\ Environment => TypeOK'
  <1> SUFFICES ASSUME TypeOK, Environment PROVE TypeOK'
    OBVIOUS
  <1> USE RunAssumption
      DEF TypeOK, Goto, Fault, Steps, Ended, flags, source, files, bounds
  <1>1. ASSUME NEW r \in Runs, Signal(r) PROVE TypeOK'
    BY <1>1 DEF Signal
  <1>2. ASSUME NEW r \in Runs, Killed(r) PROVE TypeOK'
    BY <1>2 DEF Killed
  <1>3. CASE PowerLoss
    <2>1. pc' \in [Runs -> Steps \cup Ended]
      BY <1>3 DEF PowerLoss
    <2>2. dir' \in [Names -> Runs \cup {NoFile}]
      BY <1>3 DEF PowerLoss
    <2> QED BY <1>3, <2>1, <2>2 DEF PowerLoss
  <1>4. CASE Flaw
    BY <1>4 DEF Flaw
  <1> QED BY <1>1, <1>2, <1>3, <1>4 DEF Environment

-----------------------------------------------------------------------------
(* Keeping the lock, the paths and the synced directory. *)

\* What has to be shown of a step.
Kept ==
  /\ LockInv' /\ PathInv' /\ SyncInv'
  /\ \A n \in Names, s \in Runs : dir[n] = s => dir'[n] \in {s, NoFile}

\* A step of an admitted run that creates, moves and syncs no file.
LEMMA QuietStep ==
  ASSUME RunInv, NEW r \in Runs, Admitted(r),
         NEW step \in {"begin", "mutate", "mutating", "extract", "publish",
                       "syncImage", "verify", "sidecar", "logSuccess",
                       "logFailure", "done", "failed"},
         Goto(r, step), step = "publish" => pc[r] = "copy", UNCHANGED files
  PROVE  Kept
  <1>1. pc'[r] = step
    BY DEF RunInv, TypeOK, Goto
  <1>2. PathsOf(r)'
    BY <1>1 DEF RunInv, PathInv, PathsOf, Free, files
  <1>3. dir'["log"] = dir["log"]
    BY DEF files
  <1> QED BY <1>2, <1>3, HolderIsAlone, KeepsFiles DEF RunInv, Kept

\* Steps of a run before it is admitted.
LEMMA AdmissionKeeps ==
  ASSUME RunInv, NEW r \in Runs, Validate(r) \/ OpenLog(r)
  PROVE  Kept
  <1> USE RunAssumption
  <1>1. CASE Validate(r)
    <2>1. \A s \in Runs : pc'[s] # pc[s] => pc'[s] \in {"openLog", "refused"}
      BY <1>1 DEF Validate, Goto, RunInv, TypeOK
    <2>2. LockInv' /\ PathInv'
      BY <1>1, <2>1
      DEF RunInv, LockInv, PathInv, PathsOf, Validate, Admitted, Steps, Free,
          files
    <2> QED BY <1>1, <2>2, KeepsFiles DEF RunInv, Kept, Validate
  <1>2. CASE OpenLog(r) /\ ~MayCreateLog
    <2>1. \A s \in Runs : pc'[s] # pc[s] => pc'[s] = "refused"
      BY <1>2 DEF OpenLog, Goto, RunInv, TypeOK
    <2>2. UNCHANGED files
      BY <1>2 DEF OpenLog, files
    <2>3. LockInv' /\ PathInv'
      BY <2>1, <2>2
      DEF RunInv, LockInv, PathInv, PathsOf, Admitted, Steps, Free, files
    <2> QED BY <2>2, <2>3, KeepsFiles DEF RunInv, Kept
  <1>3. CASE OpenLog(r) /\ MayCreateLog
    <2>1. Put(r, "log") /\ synced' = synced
      BY <1>3 DEF OpenLog
    <2>2. dir'["log"] = r /\ \A n \in Names \ {"log"} : dir'[n] = dir[n]
      BY <2>1 DEF Put, RunInv, TypeOK, Names
    <2>3. \A s \in Runs : ~Admitted(s)
      BY <1>3 DEF RunInv, LockInv, Free, MayCreateLog
    <2>4. \A s \in Runs : s # r => pc'[s] = pc[s]
      BY <1>3 DEF OpenLog, Goto, RunInv, TypeOK
    <2>5. pc'[r] \in {"prepare", "refused"}
      BY <1>3 DEF OpenLog, Goto, RunInv, TypeOK
    <2>6. LockInv'
      BY <2>2, <2>3, <2>4 DEF LockInv, Admitted
    <2>7. PathInv'
      BY <2>3, <2>4, <2>5 DEF PathInv, PathsOf, Admitted, Steps
    <2>8. SyncInv'
      BY <1>3, <2>1, <2>2 DEF RunInv, SyncInv, Free, MayCreateLog
    <2> QED BY <1>3, <2>2, <2>6, <2>7, <2>8 DEF Kept, Free, MayCreateLog
  <1> QED BY <1>1, <1>2, <1>3

\* A file put at a path that is free.
LEMMA PutKeeps ==
  ASSUME RunInv, NEW r \in Runs, Admitted(r), NEW name \in Names \ {"log"},
         Free(name), Put(r, name), synced' = synced, NEW step, Goto(r, step),
         PathsOf(r)'
  PROVE  Kept
  <1> USE RunAssumption
  <1>1. dir'[name] = r /\ \A n \in Names \ {name} : dir'[n] = dir[n]
    BY DEF Put, RunInv, TypeOK
  <1>2. dir'["log"] = dir["log"]
    BY <1>1 DEF Names
  <1>3. SyncInv'
    BY <1>1 DEF RunInv, SyncInv, Free
  <1>4. \A n \in Names, s \in Runs : dir[n] = s => dir'[n] \in {s, NoFile}
    BY <1>1 DEF Free
  <1> QED BY <1>2, <1>3, <1>4, HolderIsAlone DEF RunInv, Kept

\* A file moved to a path that is free, before the directory is synced.
LEMMA MoveKeeps ==
  ASSUME RunInv, NEW r \in Runs, Admitted(r),
         NEW from \in Names \ {"log"}, NEW to \in Names \ {"log"}, from # to,
         Free(to), synced[from] = NoFile, Move(from, to), synced' = synced,
         NEW step \in {"syncImage", "syncSidecar"}, Goto(r, step)
  PROVE  Kept
  <1> USE RunAssumption
  <1>1. /\ dir'[from] = NoFile /\ dir'[to] = dir[from]
        /\ \A n \in Names \ {from, to} : dir'[n] = dir[n]
    BY DEF Move, RunInv, TypeOK
  <1>2. dir'["log"] = dir["log"]
    BY <1>1 DEF Names
  <1>3. SyncInv'
    BY <1>1 DEF RunInv, SyncInv, Free
  <1>4. \A n \in Names, s \in Runs : dir[n] = s => dir'[n] \in {s, NoFile}
    BY <1>1 DEF Free
  <1>5. PathsOf(r)'
    BY DEF PathsOf, Goto, RunInv, TypeOK
  <1> QED BY <1>2, <1>3, <1>4, <1>5, HolderIsAlone DEF RunInv, Kept

\* The directory is synced.
LEMMA SyncKeeps ==
  ASSUME RunInv, NEW r \in Runs, Admitted(r), dir' = dir, synced' = dir,
         NEW step \in {"verify", "logSuccess"}, Goto(r, step)
  PROVE  Kept
  <1>1. PathsOf(r)'
    BY DEF PathsOf, Goto, RunInv, TypeOK
  <1>2. SyncInv'
    BY DEF SyncInv
  <1> QED BY <1>1, <1>2, HolderIsAlone DEF RunInv, Kept

\* Every step of a run, by what it does to the files.
LEMMA RunKeeps ==
  ASSUME RunInv, NEW r \in Runs, Run(r)
  PROVE  Kept
  <1> USE RunAssumption
      DEF Fail, Admitted, Steps
  <1>1. CASE Validate(r) \/ OpenLog(r)
    BY <1>1, AdmissionKeeps
  <1>2. CASE Prepare(r) \/ Begin(r)
    BY <1>2, QuietStep DEF Prepare, Begin, files
  <1>3. CASE BeginShrink(r) \/ EndShrink(r)
    BY <1>3, QuietStep DEF BeginShrink, EndShrink, files
  <1>4. CASE ExtractCheck(r)
    <2>1. CASE Free("image") /\ Free("imagePartial")
      <3>1. Goto(r, "createPartial") /\ dir' = dir /\ synced' = synced
        BY <1>4, <2>1 DEF ExtractCheck, files
      <3>2. PathsOf(r)'
        BY <2>1, <3>1 DEF PathsOf, Goto, Free, RunInv, TypeOK
      <3> QED BY <1>4, <3>1, <3>2, HolderIsAlone
              DEF RunInv, Kept, SyncInv, ExtractCheck
    <2>2. CASE ~(Free("image") /\ Free("imagePartial"))
      BY <1>4, <2>2, QuietStep DEF ExtractCheck, files
    <2> QED BY <2>1, <2>2
  <1>5. CASE CreatePartial(r)
    <2>1. CASE Goto(r, "copy") /\ Put(r, "imagePartial")
      <3>1. Free("image") /\ Free("imagePartial") /\ synced' = synced
        BY <1>5 DEF CreatePartial, RunInv, PathInv, PathsOf
      <3>2. /\ dir'["imagePartial"] = r /\ dir'["image"] = NoFile
            /\ synced'["imagePartial"] = NoFile /\ pc'[r] = "copy"
        BY <2>1, <3>1
        DEF Put, Goto, Free, RunInv, TypeOK, SyncInv, Names
      <3>3. PathsOf(r)'
        BY <3>2 DEF PathsOf, Free
      <3> QED BY <1>5, <2>1, <3>1, <3>3, PutKeeps DEF CreatePartial, Names
    <2>2. CASE Goto(r, "logFailure") /\ UNCHANGED dir
      BY <1>5, <2>2, QuietStep DEF CreatePartial, files
    <2> QED BY <1>5, <2>1, <2>2 DEF CreatePartial
  <1>6. CASE Progress(r)
    BY <1>6, QuietStep DEF Progress, files
  <1>7. CASE Publish(r)
    <2>1. CASE Goto(r, "syncImage") /\ Move("imagePartial", "image")
      <3>1. Free("image") /\ synced["imagePartial"] = NoFile
        BY <1>7 DEF Publish, RunInv, PathInv, PathsOf
      <3> QED BY <1>7, <2>1, <3>1, MoveKeeps DEF Publish, Names
    <2>2. CASE Goto(r, "logFailure") /\ UNCHANGED dir
      BY <1>7, <2>2, QuietStep DEF Publish, files
    <2> QED BY <1>7, <2>1, <2>2 DEF Publish
  <1>8. CASE SyncImage(r)
    <2>1. CASE Goto(r, "verify") /\ synced' = dir
      BY <1>8, <2>1, SyncKeeps DEF SyncImage
    <2>2. CASE Goto(r, "logFailure") /\ UNCHANGED synced
      BY <1>8, <2>2, QuietStep DEF SyncImage, files
    <2> QED BY <1>8, <2>1, <2>2 DEF SyncImage
  <1>9. CASE Verify(r)
    BY <1>9, QuietStep DEF Verify, files
  <1>10. CASE SidecarCheck(r)
    <2>1. CASE Free("sidecar") /\ Free("sidecarPartial")
      <3>1. Goto(r, "writeSidecar") /\ dir' = dir /\ synced' = synced
        BY <1>10, <2>1 DEF SidecarCheck, files
      <3>2. PathsOf(r)'
        BY <2>1, <3>1 DEF PathsOf, Goto, Free, RunInv, TypeOK
      <3> QED BY <1>10, <3>1, <3>2, HolderIsAlone
              DEF RunInv, Kept, SyncInv, SidecarCheck
    <2>2. CASE ~(Free("sidecar") /\ Free("sidecarPartial"))
      BY <1>10, <2>2, QuietStep DEF SidecarCheck, files
    <2> QED BY <2>1, <2>2
  <1>11. CASE WriteSidecar(r)
    <2>1. Free("sidecar") /\ Free("sidecarPartial") /\ synced' = synced
      BY <1>11 DEF WriteSidecar, RunInv, PathInv, PathsOf
    <2>2. CASE Put(r, "sidecarPartial")
      <3>1. PICK step \in {"renameSidecar", "logFailure"} : Goto(r, step)
        BY <1>11 DEF WriteSidecar
      <3>2. /\ dir'["sidecarPartial"] = r /\ dir'["sidecar"] = NoFile
            /\ synced'["sidecarPartial"] = NoFile /\ pc'[r] = step
        BY <2>1, <2>2, <3>1
        DEF Put, Goto, Free, RunInv, TypeOK, SyncInv, Names
      <3>3. PathsOf(r)'
        BY <3>1, <3>2 DEF PathsOf, Free
      <3> QED BY <1>11, <2>1, <2>2, <3>1, <3>3, PutKeeps
              DEF WriteSidecar, Names
    <2>3. CASE Goto(r, "logFailure") /\ UNCHANGED dir
      BY <1>11, <2>3, QuietStep DEF WriteSidecar, files
    <2> QED BY <1>11, <2>2, <2>3 DEF WriteSidecar
  <1>12. CASE RenameSidecar(r)
    <2>1. CASE Goto(r, "syncSidecar") /\ Move("sidecarPartial", "sidecar")
      <3>1. Free("sidecar") /\ synced["sidecarPartial"] = NoFile
        BY <1>12 DEF RenameSidecar, RunInv, PathInv, PathsOf
      <3> QED BY <1>12, <2>1, <3>1, MoveKeeps DEF RenameSidecar, Names
    <2>2. CASE Goto(r, "logFailure") /\ UNCHANGED dir
      BY <1>12, <2>2, QuietStep DEF RenameSidecar, files
    <2> QED BY <1>12, <2>1, <2>2 DEF RenameSidecar
  <1>13. CASE SyncSidecar(r)
    <2>1. CASE Goto(r, "logSuccess") /\ synced' = dir
      BY <1>13, <2>1, SyncKeeps DEF SyncSidecar
    <2>2. CASE Goto(r, "logFailure") /\ UNCHANGED synced
      BY <1>13, <2>2, QuietStep DEF SyncSidecar, files
    <2> QED BY <1>13, <2>1, <2>2 DEF SyncSidecar
  <1>14. CASE WriteLog(r)
    BY <1>14, QuietStep DEF WriteLog, files
  <1> QED
    BY <1>1, <1>2, <1>3, <1>4, <1>5, <1>6, <1>7, <1>8, <1>9, <1>10, <1>11,
       <1>12, <1>13, <1>14 DEF Run

\* A step in which runs at most end, and which leaves the files alone, takes
\* nothing away that the other runs rely on.
LEMMA EndingKeeps ==
  ASSUME RunInv, UNCHANGED files,
         \A s \in Runs : pc'[s] = pc[s] \/ pc'[s] \in Ended
  PROVE  Kept
  <1>1. \A s \in Runs : Admitted(s)' => Admitted(s) /\ pc'[s] = pc[s]
    BY DEF Admitted, Steps, Ended
  <1>2. LockInv'
    BY <1>1 DEF RunInv, LockInv, files
  <1>3. \A s \in Runs : PathsOf(s)'
    BY DEF RunInv, PathInv, PathsOf, Free, files, Ended
  <1> QED BY <1>2, <1>3, KeepsFiles DEF RunInv, PathInv, Kept

\* What the environment does: at most a file is lost.
LEMMA EnvironmentKeeps == RunInv /\ Environment => Kept
  <1> SUFFICES ASSUME RunInv, Environment PROVE Kept
    OBVIOUS
  <1>1. ASSUME NEW r \in Runs, Signal(r) \/ Killed(r) PROVE Kept
    <2>1. \A s \in Runs : pc'[s] = pc[s] \/ pc'[s] \in Ended
      BY <1>1 DEF Signal, Killed, Goto, Ended, RunInv, TypeOK
    <2> QED BY <1>1, <2>1, EndingKeeps DEF Signal, Killed
  <1>2. CASE PowerLoss
    <2>1. \A s \in Runs : pc'[s] \in Ended \cup {"validate"}
      BY <1>2 DEF PowerLoss, Ended
    <2>2. LockInv' /\ PathInv'
      BY <2>1 DEF LockInv, PathInv, PathsOf, Admitted, Steps, Ended
    <2>3. \A n \in Names : dir'[n] \in {dir[n], synced[n]}
      BY <1>2 DEF PowerLoss
    <2>4. \A n \in Names : dir'[n] \in {dir[n], NoFile}
      BY <2>3 DEF RunInv, SyncInv
    <2>5. SyncInv'
      BY <1>2 DEF PowerLoss, SyncInv
    <2> QED BY <2>2, <2>4, <2>5 DEF Kept
  <1>3. CASE Flaw
    BY <1>3, EndingKeeps DEF Flaw
  <1> QED BY <1>1, <1>2, <1>3 DEF Environment

\* Every step keeps the invariant, and the files of others.
LEMMA StepKeeps == RunInv /\ [Next]_vars => RunInv' /\ Kept
  <1> SUFFICES ASSUME RunInv, [Next]_vars PROVE RunInv' /\ Kept
    OBVIOUS
  <1>1. ASSUME NEW r \in Runs, Run(r) PROVE TypeOK' /\ Kept
    BY <1>1, RunTyped, RunKeeps DEF RunInv
  <1>2. CASE Environment
    BY <1>2, EnvironmentTyped, EnvironmentKeeps DEF RunInv, Kept
  <1>3. CASE UNCHANGED vars
    <2>1. TypeOK'
      BY <1>3 DEF RunInv, TypeOK, vars, flags, source, files, bounds
    <2>2. Kept
      BY <1>3, EndingKeeps DEF vars
    <2> QED BY <2>1, <2>2 DEF RunInv, Kept
  <1> QED BY <1>1, <1>2, <1>3 DEF Next, AllEnded, RunInv, Kept

\* In every behaviour of every number of runs.
THEOREM RunInvariant == Spec => []RunInv
  <1>1. Init => RunInv
    BY InitRun
  <1>2. RunInv /\ [Next]_vars => RunInv'
    BY StepKeeps
  <1> QED BY <1>1, <1>2, PTL DEF Spec

\* Every variable keeps its type.
THEOREM RunTypes == Spec => []TypeOK
  BY RunInvariant, PTL DEF RunInv

\* The log is a lock: no two runs change the device or write files at once.
THEOREM LogIsLock == Spec => []OneRunAtATime
  <1>1. RunInv => OneRunAtATime
    BY LockExcludes DEF RunInv
  <1> QED BY <1>1, RunInvariant, PTL

\* No run ever replaces a file that another run has created.
THEOREM FilesAreKept == Spec => FilesOfOthersKept
  <1>1. RunInv /\ [Next]_vars =>
          [\A n \in Names, r \in Runs :
             dir[n] = r => dir'[n] \in {r, NoFile}]_vars
    BY StepKeeps DEF Kept
  <1> QED BY <1>1, RunInvariant, PTL DEF Spec, FilesOfOthersKept
-----------------------------------------------------------------------------
(* What the files and the log certify.                                     *)
(*                                                                         *)
(* Metadata appears after the image was synced and verified, and success   *)
(* is logged after the metadata was synced.  What is synced stays; so what *)
(* was once certified stays true, whatever runs come later.                *)

\* Steps of a run whose shrink was validated, as long as nothing failed.
PastShrink ==
  {"extract", "createPartial", "copy", "publish", "syncImage", "verify",
   "sidecar", "writeSidecar", "renameSidecar", "syncSidecar", "logSuccess"}

\* Steps of a run whose image is synced and verified, up to its metadata.
Certified == {"sidecar", "writeSidecar", "renameSidecar"}

\* Steps of a run that has renamed its metadata, or has ended.
PastMetadata == {"syncSidecar", "logSuccess", "logFailure"} \cup Ended

\* What a run says of the device: that it changes it, before it does; it
\* goes on only with a validated shrink.
SourceOf(r) ==
  /\ pc[r] \in {"mutate", "mutating"} \/ r \in touched => modified[r]
  /\ pc[r] \in PastShrink => r \in shrunkBy

\* What a run knows of its image, and what metadata says of it.
ImageOf(r) ==
  /\ pc[r] = "syncImage" => dir["image"] = r
  /\ pc[r] = "verify" => synced["image"] = r
  /\ pc[r] \in Certified => synced["image"] = r /\ Matches(r)
  /\ pc[r] = "syncSidecar" => dir["sidecar"] = r
  /\ pc[r] = "logSuccess" => synced["sidecar"] = r
  /\ dir["sidecar"] = r =>
       synced["image"] = r /\ Matches(r) /\ pc[r] \in PastMetadata

\* What its log says.
LogOf(r) ==
  /\ log[r].result \in {"success", "failure"} => pc[r] \in Ended
  /\ log[r].result = "success" => synced["sidecar"] = r /\ r \in shrunkBy
  /\ log[r].result = "failure" => log[r].modified = modified[r]

SourceInv == \A r \in Runs : SourceOf(r)
ImageInv == \A r \in Runs : ImageOf(r)
LogInv == \A r \in Runs : LogOf(r)

\* A device is half shrunk while a run shrinks it, or after a fault.
DeviceInv == SignalsNeverSplitShrink

TruthInv == RunInv /\ SourceInv /\ ImageInv /\ LogInv /\ DeviceInv

\* Before the first run nothing is certified.
LEMMA InitTruth == Init => TruthInv
  <1> SUFFICES ASSUME Init PROVE TruthInv
    OBVIOUS
  <1>1. RunInv
    BY InitRun
  <1>2. SourceInv /\ LogInv /\ DeviceInv
    BY DEF Init, SourceInv, SourceOf, LogInv, LogOf, DeviceInv, Entry,
           SignalsNeverSplitShrink, PastShrink
  <1>3. ImageInv
    BY RunAssumption DEF Init, ImageInv, ImageOf, Certified, Names
  <1> QED BY <1>1, <1>2, <1>3 DEF TruthInv

\* What is in the synced directory stays, through every step and crash.
LEMMA SyncedStays ==
  ASSUME RunInv, [Next]_vars, NEW n \in Names, synced[n] # NoFile
  PROVE  synced'[n] = synced[n] /\ dir'[n] = dir[n] /\ dir[n] = synced[n]
  <1>1. dir[n] = synced[n] /\ dir[n] \in Runs
    BY DEF RunInv, SyncInv, TypeOK
  <1>2. SyncInv' /\ dir'[n] \in {dir[n], NoFile}
    BY <1>1, StepKeeps DEF Kept
  <1>3. CASE PowerLoss
    BY <1>1, <1>3 DEF PowerLoss
  <1>4. CASE synced' = synced
    BY <1>1, <1>2, <1>4 DEF SyncInv
  <1>5. CASE synced' = dir /\ dir' = dir
    BY <1>1, <1>5
  <1>6. ASSUME NEW r \in Runs, Run(r)
        PROVE  synced' = synced \/ (synced' = dir /\ dir' = dir)
    BY <1>6
    DEF Run, files, Validate, OpenLog, Prepare, Begin, BeginShrink, EndShrink,
        ExtractCheck, CreatePartial, Progress, Publish, SyncImage, Verify,
        SidecarCheck, WriteSidecar, RenameSidecar, SyncSidecar, WriteLog
  <1>7. ASSUME NEW r \in Runs, Signal(r) \/ Killed(r)
        PROVE  synced' = synced
    BY <1>7 DEF Signal, Killed, files
  <1>8. Flaw \/ UNCHANGED vars => synced' = synced
    BY DEF Flaw, vars, files
  <1> QED
    BY <1>3, <1>4, <1>5, <1>6, <1>7, <1>8 DEF Next, Environment, AllEnded

\* What a step of a run leaves as it is for the others.
LEMMA OthersFrame ==
  ASSUME TypeOK, NEW r \in Runs, Run(r), NEW s \in Runs \ {r}
  PROVE  /\ pc'[s] = pc[s] /\ modified'[s] = modified[s] /\ log'[s] = log[s]
         /\ s \in touched' <=> s \in touched
         /\ s \in shrunkBy' <=> s \in shrunkBy
  <1> USE DEF TypeOK, Goto, Fail, Entry, flags, source, ReportMutating
  <1>1. CASE Validate(r) \/ OpenLog(r) \/ Prepare(r)
    BY <1>1 DEF Validate, OpenLog, Prepare
  <1>2. CASE Begin(r) \/ BeginShrink(r) \/ EndShrink(r)
    BY <1>2 DEF Begin, BeginShrink, EndShrink
  <1>3. CASE ExtractCheck(r) \/ CreatePartial(r) \/ Progress(r) \/ Publish(r)
    BY <1>3 DEF ExtractCheck, CreatePartial, Progress, Publish
  <1>4. CASE SyncImage(r) \/ Verify(r) \/ SidecarCheck(r) \/ WriteSidecar(r)
    BY <1>4 DEF SyncImage, Verify, SidecarCheck, WriteSidecar
  <1>5. CASE RenameSidecar(r) \/ SyncSidecar(r) \/ WriteLog(r)
    BY <1>5 DEF RenameSidecar, SyncSidecar, WriteLog
  <1> QED BY <1>1, <1>2, <1>3, <1>4, <1>5 DEF Run

\* The environment only ends runs; what they said and did stays.
LEMMA EnvironmentFrame ==
  ASSUME TypeOK, Environment \/ UNCHANGED vars
  PROVE  /\ UNCHANGED <<flags, log, source>>
         /\ \A s \in Runs :
              pc'[s] = pc[s] \/ (pc'[s] = "dead" /\ pc[s] \notin Ended)
  <1> USE DEF TypeOK, Goto, flags, source
  <1>1. CASE \E r \in Runs : Signal(r) \/ Killed(r)
    BY <1>1 DEF Signal, Killed
  <1>2. CASE PowerLoss
    BY <1>2 DEF PowerLoss
  <1>3. CASE Flaw
    BY <1>3 DEF Flaw
  <1>4. CASE UNCHANGED vars
    BY <1>4 DEF vars
  <1> QED BY <1>1, <1>2, <1>3, <1>4 DEF Environment

\* A run says that it changes the source before it does.
LEMMA SourceKept == TypeOK /\ SourceInv /\ [Next]_vars => SourceInv'
  <1> SUFFICES ASSUME TypeOK, SourceInv, [Next]_vars, NEW s \in Runs
               PROVE  SourceOf(s)'
    BY DEF SourceInv
  <1>1. SourceOf(s)
    BY DEF SourceInv
  <1>2. ASSUME NEW r \in Runs \ {s}, Run(r) PROVE SourceOf(s)'
    BY <1>1, <1>2, OthersFrame DEF SourceOf
  <1>3. CASE Environment \/ UNCHANGED vars
    BY <1>1, <1>3, EnvironmentFrame
    DEF SourceOf, PastShrink, flags, source
  <1>4. CASE Run(s)
    <2> USE <1>1
        DEF TypeOK, Goto, Fail, flags, source, SourceOf, PastShrink
    <2>1. CASE Validate(s) \/ OpenLog(s) \/ Prepare(s)
      BY <2>1 DEF Validate, OpenLog, Prepare
    <2>2. CASE Begin(s)
      BY <2>2 DEF Begin, ReportMutating
    <2>3. CASE BeginShrink(s) \/ EndShrink(s)
      BY <2>3 DEF BeginShrink, EndShrink
    <2>4. CASE ExtractCheck(s) \/ CreatePartial(s) \/ Progress(s) \/ Publish(s)
      BY <2>4 DEF ExtractCheck, CreatePartial, Progress, Publish
    <2>5. CASE SyncImage(s) \/ Verify(s) \/ SidecarCheck(s) \/ WriteSidecar(s)
      BY <2>5 DEF SyncImage, Verify, SidecarCheck, WriteSidecar
    <2>6. CASE RenameSidecar(s) \/ SyncSidecar(s) \/ WriteLog(s)
      BY <2>6 DEF RenameSidecar, SyncSidecar, WriteLog
    <2> QED BY <1>4, <2>1, <2>2, <2>3, <2>4, <2>5, <2>6 DEF Run
  <1> QED BY <1>2, <1>3, <1>4 DEF Next, AllEnded

\* Only a fault takes the run that shrinks away from a half shrunk device.
LEMMA DeviceKept == TypeOK /\ DeviceInv /\ [Next]_vars => DeviceInv'
  <1> SUFFICES ASSUME TypeOK, DeviceInv, [Next]_vars, device' = "half"
               PROVE  faults' > 0 \/ \E r \in Runs : pc'[r] = "mutating"
    BY DEF DeviceInv, SignalsNeverSplitShrink
  <1> USE RunAssumption
      DEF DeviceInv, SignalsNeverSplitShrink, TypeOK, source, bounds
  <1>1. ASSUME Fault PROVE faults' > 0
    BY <1>1 DEF Fault
  <1>2. CASE faults' = faults /\ faults > 0
    BY <1>2
  <1>3. ASSUME NEW r \in Runs, Run(r), NoFault, device = "half",
               device' = device, NEW s \in Runs, pc[s] = "mutating"
        PROVE  pc'[s] = "mutating"
    <2>1. CASE s = r
      <3>1. EndShrink(r)
        BY <1>3, <2>1
        DEF Run, Validate, OpenLog, Prepare, Begin, BeginShrink, ExtractCheck,
            CreatePartial, Progress, Publish, SyncImage, Verify, SidecarCheck,
            WriteSidecar, RenameSidecar, SyncSidecar, WriteLog
      <3>2. faults' # faults
        BY <1>3, <3>1 DEF EndShrink, Fault, NoFault
      <3> QED BY <1>3, <3>2 DEF NoFault
    <2>2. CASE s # r
      BY <1>3, <2>2, OthersFrame
    <2> QED BY <2>1, <2>2
  <1>4. ASSUME NEW r \in Runs, Run(r), ~Fault
        PROVE  NoFault /\ (BeginShrink(r) \/ EndShrink(r) \/ device' = device)
    BY <1>4
    DEF NoFault, Run, Validate, OpenLog, Prepare, Begin, BeginShrink,
        EndShrink, ExtractCheck, CreatePartial, Progress, Publish, SyncImage,
        Verify, SidecarCheck, WriteSidecar, RenameSidecar, SyncSidecar, WriteLog
  <1>5. ASSUME NEW r \in Runs, BeginShrink(r), ~Fault
        PROVE  pc'[r] = "mutating"
    BY <1>5 DEF BeginShrink, Goto
  <1>6. ASSUME NEW r \in Runs, EndShrink(r), ~Fault
        PROVE  FALSE
    BY <1>6 DEF EndShrink
  <1>7. ASSUME NEW r \in Runs, Run(r), ~Fault
        PROVE  faults' > 0 \/ \E s \in Runs : pc'[s] = "mutating"
    <2>1. CASE device' = device
      BY <1>2, <1>3, <1>4, <1>7, <2>1 DEF NoFault
    <2> QED BY <1>4, <1>5, <1>6, <1>7, <2>1
  <1>8. ASSUME NEW r \in Runs, Signal(r)
        PROVE  faults' > 0 \/ \E s \in Runs : pc'[s] = "mutating"
    <2>1. \A s \in Runs : pc[s] = "mutating" => pc'[s] = pc[s]
      BY <1>8 DEF Signal, Deferring, Goto
    <2> QED BY <1>8, <2>1 DEF Signal
  <1>9. CASE (\E r \in Runs : Killed(r)) \/ PowerLoss
    BY <1>1, <1>9 DEF Killed, PowerLoss
  <1>10. CASE Flaw \/ UNCHANGED vars
    BY <1>10 DEF Flaw, vars
  <1> QED
    BY <1>1, <1>7, <1>8, <1>9, <1>10 DEF Next, Environment, AllEnded

\* What was logged stays true, and what is logged is true.
LEMMA LogKept ==
  ASSUME RunInv, SourceInv, ImageInv, LogInv, [Next]_vars
  PROVE  LogInv'
  <1> SUFFICES ASSUME NEW s \in Runs PROVE LogOf(s)'
    BY DEF LogInv
  <1>1. TypeOK /\ SourceOf(s) /\ ImageOf(s) /\ LogOf(s)
    BY DEF RunInv, SourceInv, ImageInv, LogInv
  <1>2. synced["sidecar"] = s => synced'["sidecar"] = s
    BY SyncedStays, RunAssumption DEF Names
  <1>3. ASSUME NEW r \in Runs \ {s}, Run(r) PROVE LogOf(s)'
    BY <1>1, <1>2, <1>3, OthersFrame DEF LogOf
  <1>4. CASE Environment \/ UNCHANGED vars
    BY <1>1, <1>2, <1>4, EnvironmentFrame DEF LogOf, flags, source, Ended
  <1>5. CASE Run(s) /\ ~WriteLog(s)
    <2> USE <1>1, <1>5 DEF TypeOK, flags, source, Ended, LogOf, Run
    <2>1. CASE Validate(s) \/ Prepare(s)
      BY <1>2, <2>1 DEF Validate, Prepare
    <2>2. CASE OpenLog(s)
      <3>1. log'[s].result = "open" \/ log' = log
        BY <2>2 DEF OpenLog, Entry
      <3> QED BY <1>2, <2>2, <3>1 DEF OpenLog
    <2>3. CASE Begin(s) \/ BeginShrink(s) \/ EndShrink(s)
      BY <1>2, <2>3 DEF Begin, BeginShrink, EndShrink
    <2>4. CASE ExtractCheck(s) \/ CreatePartial(s) \/ Progress(s) \/ Publish(s)
      BY <1>2, <2>4 DEF ExtractCheck, CreatePartial, Progress, Publish
    <2>5. CASE SyncImage(s) \/ Verify(s) \/ SidecarCheck(s) \/ WriteSidecar(s)
      BY <1>2, <2>5 DEF SyncImage, Verify, SidecarCheck, WriteSidecar
    <2>6. CASE RenameSidecar(s) \/ SyncSidecar(s)
      BY <1>2, <2>6 DEF RenameSidecar, SyncSidecar
    <2> QED BY <2>1, <2>2, <2>3, <2>4, <2>5, <2>6
  <1>6. CASE WriteLog(s)
    <2>1. /\ pc[s] \in {"logSuccess", "logFailure"} /\ pc'[s] \in Ended
          /\ UNCHANGED <<modified, shrunkBy>>
      BY <1>1, <1>6 DEF WriteLog, Goto, TypeOK, Ended, flags, source
    <2>2. CASE log' = log
      BY <1>1, <1>2, <2>1, <2>2 DEF LogOf
    <2>3. CASE log'[s] = Entry(s, IF pc[s] = "logSuccess" THEN "success"
                                  ELSE "failure")
      BY <1>1, <1>2, <2>1, <2>3
      DEF LogOf, Entry, SourceOf, ImageOf, PastShrink
    <2>4. log' = log \/ log'[s] = Entry(s, IF pc[s] = "logSuccess"
                                           THEN "success" ELSE "failure")
      BY <1>1, <1>6 DEF WriteLog, TypeOK
    <2> QED BY <2>2, <2>3, <2>4
  <1> QED BY <1>3, <1>4, <1>5, <1>6 DEF Next, AllEnded

\* A run that is admitted is alone: any other run's step is at the door.
LEMMA OthersWait ==
  ASSUME RunInv, NEW s \in Runs, Admitted(s), NEW r \in Runs \ {s}, Run(r)
  PROVE  /\ Validate(r) \/ OpenLog(r)
         /\ synced' = synced /\ flaws' = flaws /\ level' = level
         /\ \A n \in Names \ {"log"} : dir'[n] = dir[n]
  <1>1. pc[r] \in {"validate", "openLog"} \cup Ended
    BY LockExcludes DEF RunInv, TypeOK, OneRunAtATime, Admitted
  <1>2. Validate(r) \/ OpenLog(r)
    BY <1>1
    DEF Ended, Run, Prepare, Begin, BeginShrink, EndShrink, ExtractCheck,
        CreatePartial, Progress, Publish, SyncImage, Verify, SidecarCheck,
        WriteSidecar, RenameSidecar, SyncSidecar, WriteLog
  <1> QED BY <1>2 DEF Validate, OpenLog, Put, RunInv, TypeOK, flags, files

\* A run never makes an image worse, except by publishing a new one.
LEMMA FlawsOfRun ==
  ASSUME NEW r \in Runs, Run(r)
  PROVE  level' = level /\ flaws' \subseteq flaws
  BY DEF Run, Validate, OpenLog, Prepare, Begin, BeginShrink, EndShrink,
         ExtractCheck, CreatePartial, Progress, Publish, SyncImage, Verify,
         SidecarCheck, WriteSidecar, RenameSidecar, SyncSidecar, WriteLog,
         flags, ReportMutating

\* What matches matches as long as there are no more flaws.
LEMMA MatchesStays ==
  ASSUME TypeOK, NEW s \in Runs, Matches(s), level' = level,
         flaws' \subseteq flaws
  PROVE  Matches(s)'
  <1>1. level[s] \in {"none", "streaming", "decode", "reread"}
    BY RunAssumption DEF TypeOK
  <1>2. flaws = {} => flaws' = {}
    OBVIOUS
  <1> QED BY <1>1, <1>2 DEF Matches

\* The file names of metadata appear and go only with the run that made them.
LEMMA SidecarIsOwn ==
  ASSUME RunInv, NEW s \in Runs, NEW r \in Runs \ {s}, Run(r),
         dir'["sidecar"] = s
  PROVE  dir["sidecar"] = s
  <1> USE RunAssumption DEF RunInv, TypeOK, Names, files
  <1>1. CASE RenameSidecar(r)
    <2>1. dir["sidecarPartial"] = r
      BY <1>1 DEF RenameSidecar, PathInv, PathsOf
    <2> QED BY <1>1, <2>1 DEF RenameSidecar, Move
  <1>2. CASE Publish(r)
    BY <1>2 DEF Publish, Move
  <1>3. CASE OpenLog(r) \/ CreatePartial(r) \/ WriteSidecar(r)
    BY <1>3 DEF OpenLog, CreatePartial, WriteSidecar, Put
  <1>4. CASE dir' = dir
    BY <1>4
  <1> QED
    BY <1>1, <1>2, <1>3, <1>4
    DEF Run, Validate, Prepare, Begin, BeginShrink, EndShrink, ExtractCheck,
        Progress, SyncImage, Verify, SidecarCheck, SyncSidecar, WriteLog

\* The step of another run.
LEMMA ImageKeptByOthers ==
  ASSUME RunInv, ImageInv, [Next]_vars, NEW s \in Runs,
         NEW r \in Runs \ {s}, Run(r)
  PROVE  ImageOf(s)'
  <1>1. TypeOK /\ ImageOf(s) /\ pc'[s] = pc[s]
    BY OthersFrame DEF RunInv, ImageInv
  <1>2. Matches(s) => Matches(s)'
    BY <1>1, FlawsOfRun, MatchesStays
  <1>3. /\ synced["image"] = s => synced'["image"] = s
        /\ synced["sidecar"] = s => synced'["sidecar"] = s
    BY SyncedStays, RunAssumption DEF Names
  <1>4. dir'["sidecar"] = s => dir["sidecar"] = s
    BY SidecarIsOwn
  <1>5. Admitted(s) => /\ dir'["image"] = dir["image"]
                       /\ dir'["sidecar"] = dir["sidecar"]
    BY OthersWait DEF Names
  <1>6. pc[s] \in {"syncImage", "syncSidecar"} => Admitted(s)
    BY DEF Admitted, Steps
  <1> QED BY <1>1, <1>2, <1>3, <1>4, <1>5, <1>6 DEF ImageOf

\* Its own step.
LEMMA ImageKeptByRun ==
  ASSUME RunInv, ImageInv, [Next]_vars, NEW s \in Runs, Run(s)
  PROVE  ImageOf(s)'
  <1>1. TypeOK /\ ImageOf(s) /\ PathsOf(s)
    BY DEF RunInv, ImageInv, PathInv
  <1>2. Matches(s) => Matches(s)'
    BY <1>1, FlawsOfRun, MatchesStays
  <1>3. synced["image"] = s => synced'["image"] = s
    BY SyncedStays, RunAssumption DEF Names
  <1> USE RunAssumption, <1>1, <1>2, <1>3
      DEF ImageOf, PathsOf, Goto, Fail, Put, Move, Free, files, TypeOK, Names,
          Certified, PastMetadata, Ended
  <1>4. CASE Validate(s) \/ OpenLog(s)
    BY <1>4 DEF Validate, OpenLog
  <1>5. CASE Prepare(s) \/ Begin(s)
    BY <1>5 DEF Prepare, Begin
  <1>6. CASE BeginShrink(s) \/ EndShrink(s)
    BY <1>6 DEF BeginShrink, EndShrink
  <1>7. CASE ExtractCheck(s) \/ CreatePartial(s) \/ Progress(s)
    BY <1>7 DEF ExtractCheck, CreatePartial, Progress
  <1>8. CASE Publish(s)
    BY <1>8 DEF Publish
  <1>9. CASE SyncImage(s)
    BY <1>9 DEF SyncImage
  <1>10. CASE Verify(s)
    BY <1>10 DEF Verify
  <1>11. CASE SidecarCheck(s) \/ WriteSidecar(s)
    BY <1>11 DEF SidecarCheck, WriteSidecar
  <1>12. CASE RenameSidecar(s)
    BY <1>12 DEF RenameSidecar
  <1>13. CASE SyncSidecar(s) \/ WriteLog(s)
    BY <1>13 DEF SyncSidecar, WriteLog
  <1> QED
    BY <1>4, <1>5, <1>6, <1>7, <1>8, <1>9, <1>10, <1>11, <1>12, <1>13 DEF Run

\* A flaw comes while the image is written or read, before any metadata.
LEMMA ImageKeptByEnvironment ==
  ASSUME RunInv, ImageInv, [Next]_vars, NEW s \in Runs,
         Environment \/ UNCHANGED vars
  PROVE  ImageOf(s)'
  <1>1. TypeOK /\ SyncInv /\ ImageOf(s)
    BY DEF RunInv, ImageInv
  <1>2. /\ synced["image"] = s => synced'["image"] = s
        /\ synced["sidecar"] = s => synced'["sidecar"] = s
    BY SyncedStays, RunAssumption DEF Names
  <1>3. /\ pc'[s] = pc[s] \/ pc'[s] \in Ended
        /\ level' = level
    BY <1>1, EnvironmentFrame DEF Ended, flags
  <1>4. CASE Flaw
    <2>1. PICK r \in Runs : pc[r] \in {"syncImage", "verify"}
      BY <1>4 DEF Flaw
    <2>2. dir["image"] = r /\ ImageOf(r)
      BY <2>1, RunAssumption
      DEF ImageInv, ImageOf, RunInv, SyncInv, Names
    <2>3. pc[s] \notin Certified
      BY <2>1, LockExcludes
      DEF RunInv, OneRunAtATime, Admitted, Steps, Certified
    <2>4. dir["sidecar"] # s
      <3>1. SUFFICES ASSUME dir["sidecar"] = s PROVE FALSE
        OBVIOUS
      <3>2. synced["image"] = s /\ pc[s] \in PastMetadata
        BY <1>1, <3>1 DEF ImageOf
      <3>3. dir["image"] = s
        BY <1>1, <3>2, RunAssumption DEF SyncInv, Names
      <3> QED BY <2>1, <2>2, <3>2, <3>3 DEF PastMetadata, Ended
    <2>5. pc' = pc /\ dir' = dir /\ synced' = synced
      BY <1>4 DEF Flaw, files
    <2> QED BY <1>1, <2>3, <2>4, <2>5 DEF ImageOf
  <1>5. ASSUME flaws' = flaws, dir'["sidecar"] \in {dir["sidecar"], NoFile},
               dir' = dir \/ pc'[s] \in Ended \cup {"validate"}
        PROVE  ImageOf(s)'
    <2>1. Matches(s) => Matches(s)'
      BY <1>1, <1>3, <1>5, MatchesStays
    <2>2. dir'["sidecar"] = s => dir["sidecar"] = s
      BY <1>5, RunAssumption
    <2> QED BY <1>1, <1>2, <1>3, <1>5, <2>1, <2>2
            DEF ImageOf, Certified, PastMetadata, Ended
  <1>6. CASE PowerLoss
    <2>1. pc'[s] \in Ended \cup {"validate"} /\ flaws' = flaws
      BY <1>6 DEF PowerLoss, Ended
    <2>2. dir'["sidecar"] \in {dir["sidecar"], NoFile}
      BY <1>1, <1>6 DEF PowerLoss, SyncInv, Names
    <2> QED BY <1>5, <2>1, <2>2
  <1>7. CASE \E r \in Runs : Signal(r) \/ Killed(r)
    BY <1>5, <1>7 DEF Signal, Killed, files
  <1>8. CASE UNCHANGED vars
    BY <1>5, <1>8 DEF vars, files
  <1> QED BY <1>4, <1>6, <1>7, <1>8 DEF Environment

\* Every step keeps what is certified.
LEMMA TruthKept == TruthInv /\ [Next]_vars => TruthInv'
  <1> SUFFICES ASSUME TruthInv, [Next]_vars PROVE TruthInv'
    OBVIOUS
  <1>1. RunInv' /\ TypeOK
    BY StepKeeps DEF TruthInv, RunInv
  <1>2. ASSUME NEW s \in Runs PROVE ImageOf(s)'
    <2>1. ASSUME NEW r \in Runs, Run(r) PROVE ImageOf(s)'
      BY <2>1, ImageKeptByOthers, ImageKeptByRun DEF TruthInv
    <2>2. CASE Environment \/ UNCHANGED vars
      BY <2>2, ImageKeptByEnvironment DEF TruthInv
    <2> QED BY <2>1, <2>2 DEF Next, AllEnded
  <1> QED BY <1>1, <1>2, SourceKept, LogKept, DeviceKept DEF TruthInv, ImageInv

\* In every behaviour of every number of runs.
THEOREM TruthInvariant == Spec => []TruthInv
  BY InitTruth, TruthKept, PTL DEF Spec

\* A log can be trusted: success means an image and metadata that no crash
\* takes away, and a failure without a modification means there was none.
THEOREM LogsAreTrue == Spec => []LogIsTruthful
  <1>1. TruthInv => LogIsTruthful
    <2> SUFFICES ASSUME TruthInv, NEW r \in Runs
                 PROVE  /\ log[r].result = "success" =>
                             /\ dir["image"] = r /\ dir["sidecar"] = r
                             /\ r \in shrunkBy
                        /\ log[r].result = "failure" /\ r \in touched =>
                             log[r].modified
      BY DEF LogIsTruthful
    <2>1. SyncInv /\ SourceOf(r) /\ ImageOf(r) /\ LogOf(r)
      BY DEF TruthInv, RunInv, SourceInv, ImageInv, LogInv
    <2>2. log[r].result = "success" => dir["sidecar"] = r
      BY <2>1, RunAssumption DEF SyncInv, LogOf, Names
    <2>3. log[r].result = "success" => dir["image"] = r
      BY <2>1, <2>2, RunAssumption DEF SyncInv, ImageOf, Names
    <2> QED BY <2>1, <2>2, <2>3 DEF SourceOf, LogOf
  <1> QED BY <1>1, TruthInvariant, PTL

\* Metadata stands next to the image it describes, verified at its level.
THEOREM MetadataIsTrue == Spec => []MetadataCertifiesImage
  <1>1. TruthInv => MetadataCertifiesImage
    <2> SUFFICES ASSUME TruthInv, NEW r \in Runs, dir["sidecar"] = r
                 PROVE  /\ dir["image"] = r
                        /\ level[r] \in {"decode", "reread"} =>
                             "damaged" \notin flaws
                        /\ level[r] = "reread" => "rewritten" \notin flaws
      BY DEF MetadataCertifiesImage
    <2>1. synced["image"] = r /\ Matches(r) /\ SyncInv
      BY DEF TruthInv, RunInv, ImageInv, ImageOf
    <2>2. dir["image"] = r
      BY <2>1, RunAssumption DEF SyncInv, Names
    <2>3. level[r] = "decode" => "damaged" \notin flaws
      BY <2>1 DEF Matches
    <2>4. level[r] = "reread" => flaws = {}
      BY <2>1 DEF Matches
    <2> QED BY <2>2, <2>3, <2>4
  <1> QED BY <1>1, TruthInvariant, PTL

\* SIGINT and SIGTERM never leave the device half shrunk.
THEOREM SignalsAreDeferred == Spec => []SignalsNeverSplitShrink
  <1>1. TruthInv => SignalsNeverSplitShrink
    BY DEF TruthInv, DeviceInv
  <1> QED BY <1>1, TruthInvariant, PTL

\* What the synced directory holds no step and no power loss takes away.
THEOREM SyncedFilesStay ==
  Spec => [][\A n \in Names : synced[n] # NoFile =>
               synced'[n] = synced[n] /\ dir'[n] = synced[n]]_vars
  <1>1. RunInv /\ [Next]_vars =>
          [\A n \in Names : synced[n] # NoFile =>
             synced'[n] = synced[n] /\ dir'[n] = synced[n]]_vars
    BY SyncedStays
  <1> QED BY <1>1, RunInvariant, PTL DEF Spec
=============================================================================
