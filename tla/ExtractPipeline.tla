-------------------------- MODULE ExtractPipeline --------------------------
(***************************************************************************)
(* extract_path of rust-imager-pipeline: a reader thread that reads the    *)
(* device and hashes it, a bounded channel, and the calling thread that    *)
(* compresses into the .partial file, syncs it, hashes it, renames it to   *)
(* the output and syncs the directory.                                     *)
(*                                                                         *)
(* A block of the device is a number: block i holds i, or Length + i once  *)
(* it was rewritten.  The buffers the reader fills one after the other are *)
(* kept in one sequence, taken, and a message names its buffer by its      *)
(* place there.  A hash is the sequence it was computed from, and a        *)
(* compressed file the sequence it decodes to, complete once the encoder   *)
(* was finished.                                                           *)
(***************************************************************************)
EXTENDS Integers, Sequences

CONSTANTS
  Length,        \* blocks of the source device
  Options,       \* what a caller may ask for: ExtractOptions, and whether
                 \* the output is a bare file name (without a directory)
  MaxFaults,     \* bound on failing operations
  MaxStops,      \* bound on kills and power losses
  MaxRewrites,   \* bound on blocks of the device rewritten by others
  MaxForeign     \* bound on files created by others next to the output

ASSUME ExtractAssumption ==
  /\ Length \in Nat
  /\ MaxFaults \in Nat /\ MaxStops \in Nat
  /\ MaxRewrites \in Nat /\ MaxForeign \in Nat
  /\ \A o \in Options : /\ o.bytes \in Nat /\ o.buffer \in Nat
                        /\ o.depth \in Nat /\ o.rawHash \in BOOLEAN
                        /\ o.bare \in BOOLEAN

VARIABLES
  options,   \* the options of this call
  source,    \* blocks of the device
  main,      \* what the calling thread does next
  held,      \* message it has received last
  result,    \* raw hash received from the reader
  reader,    \* what the reader thread does next
  taken,     \* the blocks it has read
  pending,   \* message it is about to send
  queue,     \* messages in the channel
  dir,       \* which file is at the partial path and at the output path
  file,      \* the file this call has created
  faults, stops, rewrites, foreign

mainVars == <<main, held, result>>
readerVars == <<reader, taken, pending>>
fileVars == <<dir, file>>
bounds == <<faults, stops, rewrites, foreign>>
vars == <<options, source, mainVars, readerVars, queue, fileVars, bounds>>

NoHash == <<"none">>

\* Mutant: a buffer begins with the last block of the one before.
OverlappingData(from, to) == [kind |-> "data", from |-> from - 1, to |-> to]

\* Blocks from + 1 .. to of taken; the hash of blocks 1 .. to; an error.
Data(from, to) == [kind |-> "data", from |-> from, to |-> to]
Done(to) == [kind |-> "done", from |-> to, to |-> to]
Failed == [kind |-> "failed", from |-> 0, to |-> 0]

NoFile == [written |-> << >>, finished |-> FALSE, synced |-> FALSE,
           entry |-> FALSE]

\* written: what the encoder was given; finished: its trailer is written;
\* synced: the content survives a power loss; entry: the name does.

Original == [i \in 1..Length |-> i]

\* extract_path has returned, or its process is gone.
Returned == main \in {"ok", "failed", "lost"}

\* Mutant: an error return leaves the receiver alive.
DroppedOnSuccess == main \in {"ok", "lost"}

\* The receiver is dropped when extract_path returns.
ReceiverDropped == Returned

\* The sender is dropped when the reader thread ends.
SenderDropped == reader \in {"ended", "panicked"}

Init ==
  /\ options \in Options
  /\ source = Original
  /\ main = "check" /\ held = Failed /\ result = NoHash
  /\ reader = "unborn" /\ taken = << >> /\ pending = Failed
  /\ queue = << >>
  /\ dir \in [{"partial", "final"} -> {"none", "foreign"}]
  /\ file = NoFile
  /\ faults = 0 /\ stops = 0 /\ rewrites = 0 /\ foreign = 0

Fault ==
  /\ faults < MaxFaults /\ faults' = faults + 1
  /\ UNCHANGED <<stops, rewrites, foreign>>

\* extract_path returns an error: the receiver is dropped, the partial file
\* is left where it is.
GiveUp == main' = "failed" /\ UNCHANGED <<held, result>>
Continue(step) == main' = step /\ UNCHANGED <<held, result>>
-----------------------------------------------------------------------------
(* The calling thread. *)

Check ==
  /\ main = "check"
  /\ IF /\ options.bytes # 0 /\ options.buffer # 0 /\ options.depth # 0
        /\ dir["final"] = "none" /\ dir["partial"] = "none"
     THEN Continue("create") ELSE GiveUp
  /\ UNCHANGED <<options, source, readerVars, queue, fileVars, bounds>>

\* File::create truncates what is there; then the reader is spawned.
Create ==
  /\ main = "create"
  /\ \/ /\ Continue("encoder")
        /\ dir' = [dir EXCEPT !["partial"] = "ours"]
        /\ reader' = "open"
        /\ UNCHANGED <<taken, pending, bounds>>
     \/ Fault /\ GiveUp /\ UNCHANGED <<dir, readerVars>>
  /\ UNCHANGED <<options, source, queue, file>>

\* A level the encoder refuses is only found with the reader running.
Encoder ==
  /\ main = "encoder"
  /\ \/ Continue("receive") /\ UNCHANGED bounds
     \/ Fault /\ GiveUp
  /\ UNCHANGED <<options, source, readerVars, queue, fileVars>>

\* Mutant: the device is hashed once everything was read.
HashedAfterwards(to) == SubSeq(source, 1, to)

\* The reader hashes each buffer it sends.
RawHash(to) == SubSeq(taken, 1, to)

Receive ==
  /\ main = "receive"
  /\ \/ /\ queue # << >>
        /\ queue' = Tail(queue)
        /\ held' = Head(queue)
        /\ \/ held'.kind = "data" /\ main' = "write" /\ UNCHANGED result
           \/ /\ held'.kind = "done"
              /\ main' = "finish"
              /\ result' = IF options.rawHash THEN RawHash(held'.to)
                                              ELSE NoHash
           \/ held'.kind = "failed" /\ main' = "failed" /\ UNCHANGED result
     \/ queue = << >> /\ SenderDropped /\ GiveUp /\ UNCHANGED queue
  /\ UNCHANGED <<options, source, readerVars, fileVars, bounds>>

Write ==
  /\ main = "write"
  /\ \/ /\ file' = [file EXCEPT !.written =
                                @ \o SubSeq(taken, held.from + 1, held.to)]
        /\ Continue("receive") /\ UNCHANGED bounds
     \/ Fault /\ GiveUp /\ UNCHANGED file
  /\ UNCHANGED <<options, source, readerVars, queue, dir>>

\* One step of the calling thread after the last buffer: it has its effect
\* on the files and goes on, or fails without it.
FinalStep(step, next, effect) ==
  /\ main = step
  /\ \/ effect /\ Continue(next) /\ UNCHANGED bounds
     \/ Fault /\ GiveUp /\ UNCHANGED fileVars
  /\ UNCHANGED <<options, source, readerVars, queue>>

Finish ==
  FinalStep("finish", "sync",
            file' = [file EXCEPT !.finished = TRUE] /\ UNCHANGED dir)

Sync ==
  FinalStep("sync", "join",
            file' = [file EXCEPT !.synced = TRUE] /\ UNCHANGED dir)

Join ==
  /\ main = "join"
  /\ \/ reader = "ended" /\ Continue("hash")
     \/ reader = "panicked" /\ GiveUp
  /\ UNCHANGED <<options, source, readerVars, queue, fileVars, bounds>>

HashFile == FinalStep("hash", "rename", UNCHANGED fileVars)

\* rename(2) replaces what is at the output path.
Rename ==
  FinalStep("rename", "syncParent",
            /\ dir' = [partial |-> "none", final |-> "ours"]
            /\ UNCHANGED file)

\* Mutant: the directory is not synced.
ParentNotSynced ==
  FinalStep("syncParent", "ok", UNCHANGED fileVars)

\* The parent of a bare file name is the empty path, which cannot be opened.
SyncParent ==
  /\ main = "syncParent"
  /\ \/ /\ ~options.bare
        /\ file' = [file EXCEPT !.entry = TRUE]
        /\ Continue("ok") /\ UNCHANGED bounds
     \/ options.bare /\ GiveUp /\ UNCHANGED <<file, bounds>>
     \/ Fault /\ GiveUp /\ UNCHANGED file
  /\ UNCHANGED <<options, source, readerVars, queue, dir>>
-----------------------------------------------------------------------------
(* The reader thread. *)

\* The message the reader is to send next, or last.
Offer(step, message) ==
  reader' = step /\ pending' = message

Open ==
  /\ reader = "open"
  /\ \/ reader' = "read" /\ UNCHANGED <<pending, bounds>>
     \/ Fault /\ Offer("sendLast", Failed)
  /\ UNCHANGED <<options, source, mainVars, taken, queue, fileVars>>

\* One read call returns at least one block and at most a buffer, none at
\* the end of the device.
Read ==
  /\ reader = "read"
  /\ LET at == Len(taken)
         remaining == options.bytes - at
     IN  \/ /\ remaining > 0
            /\ \E n \in 1..options.buffer :
                 /\ n <= remaining /\ at + n <= Length
                 /\ taken' = taken \o SubSeq(source, at + 1, at + n)
                 /\ Offer("send", Data(at, at + n))
            /\ UNCHANGED bounds
         \/ /\ remaining > 0 /\ at >= Length
            /\ Offer("sendLast", Failed)
            /\ UNCHANGED <<taken, bounds>>
         \/ /\ remaining > 0 /\ Fault
            /\ Offer("sendLast", Failed)
            /\ UNCHANGED taken
         \/ /\ remaining = 0
            /\ Offer("sendLast", Done(at))
            /\ UNCHANGED <<taken, bounds>>
  /\ UNCHANGED <<options, source, mainVars, queue, fileVars>>

ChannelFull == Len(queue) >= options.depth

\* send blocks on a full channel, and fails once the receiver is dropped.
Send ==
  /\ reader = "send"
  /\ \/ /\ ~ReceiverDropped /\ ~ChannelFull
        /\ queue' = Append(queue, pending)
        /\ reader' = "read" /\ UNCHANGED pending
     \/ /\ ReceiverDropped
        /\ Offer("sendLast", Done(Len(taken)))
        /\ UNCHANGED queue
  /\ UNCHANGED <<options, source, mainVars, taken, fileVars, bounds>>

SendLast ==
  /\ reader = "sendLast"
  /\ \/ /\ ~ReceiverDropped /\ ~ChannelFull
        /\ queue' = Append(queue, pending)
     \/ ReceiverDropped /\ UNCHANGED queue
  /\ reader' = "ended"
  /\ UNCHANGED <<options, source, mainVars, taken, pending, fileVars, bounds>>

Panic ==
  /\ reader \in {"open", "read", "send", "sendLast"}
  /\ Fault
  /\ reader' = "panicked"
  /\ UNCHANGED <<options, source, mainVars, taken, pending, queue, fileVars>>
-----------------------------------------------------------------------------
(* The environment. *)

\* Another writer changes a block of the device.
Rewrite ==
  /\ rewrites < MaxRewrites /\ rewrites' = rewrites + 1
  /\ reader \in {"open", "read", "send"}
  /\ \E i \in 1..Length : /\ source[i] = i
                          /\ source' = [source EXCEPT ![i] = Length + i]
  /\ UNCHANGED <<options, mainVars, readerVars, queue, fileVars, faults,
                 stops, foreign>>

\* Another program creates a file at a free path.
ForeignFile ==
  /\ foreign < MaxForeign /\ foreign' = foreign + 1
  /\ ~Returned
  /\ \E name \in {"partial", "final"} :
       /\ dir[name] = "none"
       /\ dir' = [dir EXCEPT ![name] = "foreign"]
  /\ UNCHANGED <<options, source, mainVars, readerVars, queue, file, faults,
                 stops, rewrites>>

\* The process is gone; an outcome it had before stays.
ProcessGone ==
  /\ stops < MaxStops /\ stops' = stops + 1
  /\ main' = IF Returned THEN main ELSE "lost"
  /\ reader' = "ended" /\ queue' = << >>
  /\ UNCHANGED <<held, result, taken, pending, faults, rewrites, foreign>>

Killed ==
  /\ ~Returned
  /\ ProcessGone
  /\ UNCHANGED <<options, source, fileVars>>

\* A power loss forgets what was not synced: some of the content and the
\* trailer, and the rename.
PowerLoss ==
  /\ ProcessGone
  /\ IF file.synced THEN UNCHANGED file
     ELSE \E n \in 0..Len(file.written) :
            file' = [file EXCEPT !.written = SubSeq(@, 1, n), !.finished = FALSE]
  /\ \/ UNCHANGED dir
     \/ /\ dir["final"] = "ours" /\ ~file.entry
        /\ dir' = [partial |-> "ours", final |-> "none"]
     \/ /\ dir["partial"] = "ours"
        /\ dir' = [dir EXCEPT !["partial"] = "none"]
  /\ UNCHANGED <<options, source>>
-----------------------------------------------------------------------------
Main ==
  \/ Check \/ Create \/ Encoder \/ Receive \/ Write \/ Finish \/ Sync \/ Join
  \/ HashFile \/ Rename \/ SyncParent

Reader == Open \/ Read \/ Send \/ SendLast \/ Panic

Environment == Rewrite \/ ForeignFile \/ Killed \/ PowerLoss

\* The call has returned and its thread has ended.
Finished ==
  /\ Returned
  /\ reader \in {"unborn", "ended", "panicked"}
  /\ UNCHANGED vars

Next == Main \/ Reader \/ Environment \/ Finished

Spec == Init /\ [][Next]_vars

\* Both threads are scheduled, and system calls return.
FairSpec == Spec /\ WF_vars(Main) /\ WF_vars(Reader)
-----------------------------------------------------------------------------
(* Properties. *)

Blocks == 1..(2 * Length)
Message == [kind : {"data", "done", "failed"}, from : Nat, to : Nat]

\* Every variable of the pipeline has its type.
TypeOK ==
  /\ options \in Options
  /\ source \in [1..Length -> Blocks]
  /\ main \in {"check", "create", "encoder", "receive", "write", "finish",
               "sync", "join", "hash", "rename", "syncParent", "ok", "failed",
               "lost"}
  /\ held \in Message
  /\ result \in Seq(Blocks) \cup {NoHash}
  /\ reader \in {"unborn", "open", "read", "send", "sendLast", "ended",
                 "panicked"}
  /\ taken \in Seq(Blocks)
  /\ pending \in Message /\ queue \in Seq(Message)
  /\ dir \in [{"partial", "final"} -> {"none", "foreign", "ours"}]
  /\ file \in [written : Seq(Blocks), finished : BOOLEAN, synced : BOOLEAN,
               entry : BOOLEAN]
  /\ faults \in 0..MaxFaults /\ stops \in 0..MaxStops
  /\ rewrites \in 0..MaxRewrites
  /\ foreign \in 0..MaxForeign

\* A synced image of exactly the planned range, every block once and in its
\* place.
Complete ==
  /\ file.finished /\ file.synced
  /\ Len(file.written) = options.bytes
  /\ \A i \in 1..options.bytes : file.written[i] \in {i, Length + i}

\* The messages on their way to the encoder, the oldest first.
InFlight ==
  (IF main = "write" THEN <<held>> ELSE << >>)
    \o queue
    \o (IF reader \in {"send", "sendLast"} THEN <<pending>> ELSE << >>)

\* While the call is under way no block is lost, repeated or reordered
\* between the threads: the file holds the first blocks read, and what is in
\* the hands of the calling thread, in the channel and in the hands of the
\* reader follows on it without a gap, up to the last block read.  What ends
\* the stream is the last message, and Done stands for all that was read.
NothingLostInFlight ==
  ~Returned /\ reader # "panicked" =>
    LET m == InFlight
        end(i) == IF i = 0 THEN Len(file.written) ELSE m[i].to
        failed == m # << >> /\ m[Len(m)].kind = "failed"
    IN  /\ file.written = SubSeq(taken, 1, Len(file.written))
        /\ \A i \in DOMAIN m :
             /\ m[i].kind # "failed" => m[i].from = end(i - 1)
             /\ m[i].kind # "data" => i = Len(m)
        /\ end(IF failed THEN Len(m) - 1 ELSE Len(m)) = Len(taken)

\* The hash that a successful call returns, which the verification and the
\* metadata rely on, is that of the very blocks in the image, also when the
\* device was written to meanwhile, and is missing only when not asked for.
HashIsOfImage ==
  main = "ok" => result = IF options.rawHash THEN file.written ELSE NoHash

\* A call either returns or its process is gone, and the reader thread does
\* not outlive it, blocked on a channel nobody empties.
CallEnds ==
  <>[](Returned /\ reader \in {"unborn", "ended", "panicked"})

\* AtomicImage is implemented: nothing but a complete image is ever at the
\* output path, at whatever moment the process is killed or the power goes.
Atomic == INSTANCE AtomicImage WITH
  image <- IF dir["final"] # "ours" THEN "absent"
           ELSE IF Complete THEN "complete" ELSE "damaged",
  outcome <- IF main \in {"ok", "failed", "lost"} THEN main ELSE "running"

ImplementsAtomicImage == Atomic!Spec
=============================================================================
