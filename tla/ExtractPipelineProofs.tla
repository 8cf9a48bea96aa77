----------------------- MODULE ExtractPipelineProofs -----------------------
(***************************************************************************)
(* Proofs about ExtractPipeline, for every length of the device, every     *)
(* range, buffer size and depth of the channel, and any number of faults,  *)
(* stops, rewrites and foreign files: what is at the output path is a      *)
(* complete image, and its hash is the one returned.                       *)
(*                                                                         *)
(* That a published image is complete depends on every message on its way  *)
(* from the reader: FlightInv says of them that each follows on the one    *)
(* before, and DrainedInv that the last one was received when the encoder  *)
(* is finished.                                                            *)
(***************************************************************************)
EXTENDS ExtractPipeline, SequenceTheorems, TLAPS

\* Steps of the calling thread while it receives, and after the last message.
Early == {"check", "create"}
Receiving == {"encoder", "receive", "write"}
Ending == {"finish", "sync", "join", "hash", "rename", "syncParent"}

\* Every block comes from its place on the device.
SourceInv ==
  /\ \A i \in 1..Length : source[i] \in {i, Length + i}
  /\ Len(taken) <= Length /\ Len(taken) <= options.bytes
  /\ \A i \in 1..Len(taken) : taken[i] \in {i, Length + i}

\* The reader is spawned by Create.
SpawnInv ==
  /\ main \in Early =>
       /\ reader = "unborn" /\ taken = << >> /\ queue = << >>
       /\ file = NoFile
  /\ main \in Receiving \cup Ending => reader # "unborn"

\* Where the file and the queue end in what was taken.
Start == IF main = "write" THEN held.to ELSE Len(file.written)
End(i) == IF i = 0 THEN Start ELSE queue[i].to

\* A message that follows on the first at blocks of what was taken.
Follows(m, at) ==
  /\ m.kind # "failed" => m.from = at /\ at <= m.to /\ m.to <= Len(taken)
  /\ m.kind = "done" => m.from = m.to /\ m.to = options.bytes

Last == Len(queue)
StreamEnded == queue # << >> /\ queue[Last].kind # "data"

\* The file holds the first blocks that were taken; the message in the hands
\* of the calling thread is next.
WrittenInv ==
  /\ file.written = SubSeq(taken, 1, Len(file.written))
  /\ Len(file.written) <= Len(taken)
  /\ main = "write" => held.kind = "data" /\ Follows(held, Len(file.written))

\* Each message follows on the one before, and the reader ends with the one
\* that ends the stream.
QueueInv ==
  /\ \A i \in 1..Last : Follows(queue[i], End(i - 1))
  /\ \A i \in 1..Last : queue[i].kind # "data" => i = Last /\ reader = "ended"

\* The messages go on where the reader is, or end with the last one.
ReaderInv ==
  /\ reader \in {"unborn", "open", "read"} => End(Last) = Len(taken)
  /\ reader \in {"send", "sendLast"} =>
       /\ Follows(pending, End(Last))
       /\ pending.kind = "data" <=> reader = "send"
       /\ IF pending.kind = "failed" THEN End(Last) = Len(taken)
                                     ELSE pending.to = Len(taken)
  /\ reader = "ended" =>
       /\ StreamEnded
       /\ IF queue[Last].kind = "failed" THEN End(Last - 1) = Len(taken)
                                         ELSE queue[Last].to = Len(taken)

FlightInv ==
  main \in Early \cup Receiving => WrittenInv /\ QueueInv /\ ReaderInv

\* Behind the last message the file holds all that was read, the reader has
\* ended, and what it hashed is what the file holds.
DrainedInv ==
  main \in Ending \cup {"ok"} =>
    /\ reader = "ended" /\ queue = << >>
    /\ Len(taken) = options.bytes
    /\ file.written = taken
    /\ result = IF options.rawHash THEN taken ELSE NoHash

\* Only a finished and synced file gets the name of the output.
FileInv ==
  /\ main = "sync" => file.finished
  /\ main \in {"join", "hash", "rename", "syncParent", "ok"} =>
       file.finished /\ file.synced
  /\ main \in {"syncParent", "ok"} =>
       dir["final"] = "ours" /\ dir["partial"] # "ours"
  /\ main = "ok" => file.entry
  /\ dir["final"] = "ours" =>
       main \in {"syncParent", "ok", "failed", "lost"} /\ Complete

IInv == TypeOK /\ SourceInv /\ SpawnInv /\ FlightInv /\ DrainedInv /\ FileInv
-----------------------------------------------------------------------------
(* Sequences *)

\* A part of a sequence.
LEMMA PartOf ==
  ASSUME NEW S, NEW s \in Seq(S), NEW m \in Nat, NEW n \in 0..Len(s), m <= n
  PROVE  /\ SubSeq(s, m + 1, n) \in Seq(S)
         /\ Len(SubSeq(s, m + 1, n)) = n - m
         /\ \A i \in 1..(n - m) : SubSeq(s, m + 1, n)[i] = s[m + i]
  <1>1. \A i \in (m + 1)..n : s[i] \in S
    BY ElementOfSeq
  <1>2. \A i \in 1..(n - m) : (m + 1) + i - 1 = m + i
    OBVIOUS
  <1>3. n - (m + 1) + 1 = n - m
    OBVIOUS
  <1> QED BY <1>1, <1>2, <1>3, SubSeqProperties

\* A prefix of what was read and the part that follows on it is a prefix.
LEMMA PrefixGrows ==
  ASSUME NEW S, NEW s \in Seq(S), NEW m \in Nat, NEW n \in 0..Len(s), m <= n
  PROVE  SubSeq(s, 1, m) \o SubSeq(s, m + 1, n) = SubSeq(s, 1, n)
  <1>1. Len(s) \in Nat
    BY LenProperties
  <1> QED BY <1>1, ConcatAdjacentSubSeq

\* A prefix stays one when the sequence is continued.
LEMMA PrefixOfLonger ==
  ASSUME NEW S, NEW s \in Seq(S), NEW t \in Seq(S), NEW n \in 0..Len(s)
  PROVE  SubSeq(s \o t, 1, n) = SubSeq(s, 1, n)
  <1>1. CASE n = 0
    BY <1>1, SubSeqEmpty, LenProperties
  <1>2. CASE n # 0
    BY <1>2, SubSeqOfConcat1, LenProperties
  <1> QED BY <1>1, <1>2

\* The queue with a message at its end, or without its first.
LEMMA Queued ==
  ASSUME TypeOK
  PROVE  /\ Last \in Nat
         /\ DOMAIN queue = 1..Last
         /\ queue = << >> <=> Last = 0
         /\ \A i \in 1..Last : queue[i] \in Message
         /\ \A m \in Message :
              /\ Append(queue, m) \in Seq(Message)
              /\ Len(Append(queue, m)) = Last + 1
              /\ Append(queue, m)[Last + 1] = m
              /\ \A i \in 1..Last : Append(queue, m)[i] = queue[i]
         /\ queue # << >> =>
              /\ Head(queue) = queue[1] /\ Head(queue) \in Message
              /\ Tail(queue) \in Seq(Message)
              /\ Len(Tail(queue)) = Last - 1
              /\ \A i \in 1..(Last - 1) : Tail(queue)[i] = queue[i + 1]
  <1>1. queue \in Seq(Message)
    BY DEF TypeOK
  <1>2. /\ Last \in Nat
        /\ DOMAIN queue = 1..Last
        /\ queue = << >> <=> Last = 0
    BY <1>1, LenProperties, EmptySeq DEF Last
  <1>3. \A i \in 1..Last : queue[i] \in Message
    BY <1>1, ElementOfSeq DEF Last
  <1>4. \A m \in Message :
          /\ Append(queue, m) \in Seq(Message)
          /\ Len(Append(queue, m)) = Last + 1
          /\ Append(queue, m)[Last + 1] = m
          /\ \A i \in 1..Last : Append(queue, m)[i] = queue[i]
    BY <1>1, AppendProperties DEF Last
  <1>5. queue # << >> =>
          /\ Head(queue) = queue[1] /\ Head(queue) \in Message
          /\ Tail(queue) \in Seq(Message)
          /\ Len(Tail(queue)) = Last - 1
          /\ \A i \in 1..(Last - 1) : Tail(queue)[i] = queue[i + 1]
    <2> SUFFICES ASSUME queue # << >>
                 PROVE  /\ Head(queue) = queue[1] /\ Head(queue) \in Message
                        /\ Tail(queue) \in Seq(Message)
                        /\ Len(Tail(queue)) = Last - 1
                        /\ \A i \in 1..(Last - 1) : Tail(queue)[i] = queue[i + 1]
      OBVIOUS
    <2>1. Head(queue) = queue[1]
      OBVIOUS
    <2> QED BY <1>1, <2>1, HeadTailProperties DEF Last
  <1> QED BY <1>2, <1>3, <1>4, <1>5
-----------------------------------------------------------------------------
(* The start *)

LEMMA InvStarts == Init => IInv
  <1> SUFFICES ASSUME Init PROVE IInv
    OBVIOUS
  <1>1. Len(taken) = 0 /\ taken = << >> /\ taken \in Seq(Blocks)
    BY EmptySeq DEF Init
  <1>2. Last = 0 /\ queue = << >> /\ queue \in Seq(Message)
    BY EmptySeq DEF Init, Last
  <1>3. file = NoFile /\ file.written = << >> /\ Len(file.written) = 0
    BY EmptySeq DEF Init, NoFile
  <1>4. TypeOK
    <2>1. source \in [1..Length -> Blocks]
      BY ExtractAssumption DEF Init, Original, Blocks
    <2>2. Failed \in Message
      BY DEF Failed, Message
    <2>3. file \in [written : Seq(Blocks), finished : BOOLEAN,
                    synced : BOOLEAN, entry : BOOLEAN]
      BY <1>3, EmptySeq DEF NoFile
    <2> QED BY <1>1, <1>2, <2>1, <2>2, <2>3, ExtractAssumption DEF Init, TypeOK
  <1>5. SourceInv
    BY <1>1, ExtractAssumption DEF Init, SourceInv, Original
  <1>6. SpawnInv
    BY <1>3 DEF Init, SpawnInv, Receiving, Ending
  <1>7. FlightInv
    <2>1. file.written = SubSeq(taken, 1, Len(file.written))
      BY <1>1, <1>3, SubSeqEmpty
    <2>2. Start = 0 /\ End(0) = 0 /\ ~StreamEnded
      BY <1>2, <1>3 DEF Init, Start, End, StreamEnded
    <2> QED BY <1>1, <1>2, <1>3, <2>1, <2>2
            DEF Init, FlightInv, WrittenInv, QueueInv, ReaderInv
  <1>8. DrainedInv /\ FileInv
    BY DEF Init, DrainedInv, FileInv, Ending
  <1> QED BY <1>4, <1>5, <1>6, <1>7, <1>8 DEF IInv
-----------------------------------------------------------------------------
(* Types *)

MainTypes ==
  /\ main \in {"check", "create", "encoder", "receive", "write", "finish",
               "sync", "join", "hash", "rename", "syncParent", "ok", "failed",
               "lost"}
  /\ held \in Message
  /\ result \in Seq(Blocks) \cup {NoHash}

ReaderTypes ==
  /\ reader \in {"unborn", "open", "read", "send", "sendLast", "ended",
                 "panicked"}
  /\ taken \in Seq(Blocks)
  /\ pending \in Message

FileTypes ==
  /\ dir \in [{"partial", "final"} -> {"none", "foreign", "ours"}]
  /\ file \in [written : Seq(Blocks), finished : BOOLEAN, synced : BOOLEAN,
               entry : BOOLEAN]

BoundTypes ==
  /\ faults \in 0..MaxFaults /\ stops \in 0..MaxStops
  /\ rewrites \in 0..MaxRewrites
  /\ foreign \in 0..MaxForeign

LEMMA TypeParts ==
  TypeOK <=> /\ options \in Options /\ source \in [1..Length -> Blocks]
             /\ queue \in Seq(Message)
             /\ MainTypes /\ ReaderTypes /\ FileTypes /\ BoundTypes
  BY DEF TypeOK, MainTypes, ReaderTypes, FileTypes, BoundTypes

LEMMA TypesOfParts ==
  ASSUME options' \in Options, source' \in [1..Length -> Blocks],
         queue' \in Seq(Message),
         MainTypes', ReaderTypes', FileTypes', BoundTypes'
  PROVE  TypeOK'
  BY DEF TypeOK, MainTypes, ReaderTypes, FileTypes, BoundTypes

\* The parts an action leaves alone keep their types.
LEMMA FrameTypes ==
  ASSUME TypeOK
  PROVE  /\ UNCHANGED mainVars => MainTypes'
         /\ UNCHANGED readerVars => ReaderTypes'
         /\ UNCHANGED fileVars => FileTypes'
         /\ UNCHANGED bounds \/ Fault => BoundTypes'
         /\ \A step : /\ step \in {"create", "encoder", "receive", "sync",
                                   "join", "hash", "rename", "syncParent", "ok"}
                      /\ Continue(step)
                      => MainTypes'
         /\ GiveUp => MainTypes'
  <1>1. MainTypes /\ ReaderTypes /\ FileTypes /\ BoundTypes
    BY TypeParts
  <1>2. UNCHANGED bounds \/ Fault => BoundTypes'
    BY <1>1, ExtractAssumption DEF BoundTypes, bounds, Fault
  <1>3. UNCHANGED mainVars => MainTypes'
    BY <1>1 DEF MainTypes, mainVars
  <1>4. UNCHANGED readerVars => ReaderTypes'
    BY <1>1 DEF ReaderTypes, readerVars
  <1>5. UNCHANGED fileVars => FileTypes'
    BY <1>1 DEF FileTypes, fileVars
  <1>6. ASSUME NEW step \in {"create", "encoder", "receive", "sync", "join",
                             "hash", "rename", "syncParent", "ok"},
               Continue(step)
        PROVE  MainTypes'
    BY <1>1, <1>6 DEF MainTypes, Continue
  <1>7. GiveUp => MainTypes'
    BY <1>1 DEF MainTypes, GiveUp
  <1> QED BY <1>2, <1>3, <1>4, <1>5, <1>6, <1>7

\* Neither TypeOK nor any other part is inductive alone: that Write appends
\* blocks rests on the message it holds, which FlightInv describes.
LEMMA CallerKeepsTypes ==
  ASSUME IInv, Main
  PROVE  TypeOK'
  <1>1. TypeOK /\ FlightInv
    BY DEF IInv
  <1>2. /\ options \in Options /\ source \in [1..Length -> Blocks]
        /\ queue \in Seq(Message)
        /\ MainTypes /\ ReaderTypes /\ FileTypes /\ BoundTypes
    BY <1>1, TypeParts
  <1>3. options' \in Options /\ source' \in [1..Length -> Blocks]
    BY <1>2
    DEF Main, Check, Create, Encoder, Receive, Write, Finish, Sync, Join,
         HashFile, Rename, SyncParent, FinalStep
  <1>4. Len(taken) \in Nat
    BY <1>2, LenProperties DEF ReaderTypes
  <1>5. CASE Check
    BY <1>1, <1>2, <1>3, <1>5, FrameTypes, TypesOfParts DEF Check
  <1>6. CASE Create
    <2>1. ReaderTypes'
      BY <1>2, <1>6, FrameTypes, <1>1 DEF Create, ReaderTypes, readerVars
    <2>2. FileTypes'
      BY <1>2, <1>6 DEF Create, FileTypes
    <2> QED BY <1>1, <1>2, <1>3, <1>6, <2>1, <2>2, FrameTypes, TypesOfParts
            DEF Create
  <1>7. CASE Encoder
    BY <1>1, <1>2, <1>3, <1>7, FrameTypes, TypesOfParts DEF Encoder
  <1>8. CASE Receive
    <2>1. queue' \in Seq(Message)
      BY <1>1, <1>2, <1>8, Queued DEF Receive
    <2>2. MainTypes'
      <3>1. CASE queue = << >> /\ GiveUp
        BY <1>1, <3>1, FrameTypes
      <3>2. CASE queue # << >> /\ held' = Head(queue)
        <4>1. held' = queue[1] /\ held' \in Message /\ 1 \in 1..Last
          BY <1>1, <3>2, Queued
        <4>2. CASE main' = "finish" /\ held'.kind = "done"
                   /\ result' = IF options.rawHash THEN RawHash(held'.to)
                                                   ELSE NoHash
          <5>1. held'.to \in Nat /\ held'.to <= Len(taken)
            <6>1. Follows(queue[1], End(0))
              BY <1>1, <1>8, <4>1
              DEF Receive, FlightInv, WrittenInv, QueueInv, ReaderInv,
                  Receiving
            <6> QED BY <4>1, <4>2, <6>1 DEF Follows, Message
          <5>2. SubSeq(taken, 0 + 1, held'.to) \in Seq(Blocks)
            BY <1>2, <1>4, <5>1, PartOf DEF ReaderTypes
          <5> QED BY <4>1, <4>2, <5>2 DEF MainTypes, RawHash
        <4>3. CASE main' \in {"write", "failed"} /\ result' = result
          BY <1>2, <4>1, <4>3 DEF MainTypes
        <4> QED BY <1>8, <3>2, <4>2, <4>3 DEF Receive
      <3> QED BY <1>8, <3>1, <3>2 DEF Receive
    <2> QED BY <1>1, <1>3, <1>8, <2>1, <2>2, FrameTypes, TypesOfParts
            DEF Receive
  <1>9. CASE Write
    <2>1. FileTypes'
      <3>1. CASE file' = file
        BY <1>2, <1>9, <3>1 DEF Write, FileTypes
      <3>2. CASE file' = [file EXCEPT !.written =
                                @ \o SubSeq(taken, held.from + 1, held.to)]
        <4>1. held \in Message /\ held.kind = "data" /\ Follows(held, Len(file.written))
          BY <1>1, <1>2, <1>9
          DEF Write, FlightInv, WrittenInv, QueueInv, ReaderInv, Receiving,
              MainTypes
        <4>2. SubSeq(taken, held.from + 1, held.to) \in Seq(Blocks)
          BY <1>2, <1>4, <4>1, PartOf DEF Follows, Message, ReaderTypes
        <4>3. file.written \o SubSeq(taken, held.from + 1, held.to) \in Seq(Blocks)
          BY <1>2, <4>2, ConcatProperties DEF FileTypes
        <4> QED BY <1>2, <1>9, <3>2, <4>3 DEF Write, FileTypes
      <3> QED BY <1>9, <3>1, <3>2 DEF Write
    <2> QED BY <1>1, <1>2, <1>3, <1>9, <2>1, FrameTypes, TypesOfParts DEF Write
  <1>10. CASE Finish
    <2>1. FileTypes'
      BY <1>2, <1>10 DEF Finish, FinalStep, FileTypes, fileVars
    <2> QED BY <1>1, <1>2, <1>3, <1>10, <2>1, FrameTypes, TypesOfParts
             DEF Finish, FinalStep
  <1>11. CASE Sync
    <2>1. FileTypes'
      BY <1>2, <1>11 DEF Sync, FinalStep, FileTypes, fileVars
    <2> QED BY <1>1, <1>2, <1>3, <1>11, <2>1, FrameTypes, TypesOfParts
             DEF Sync, FinalStep
  <1>12. CASE Join
    BY <1>1, <1>2, <1>3, <1>12, FrameTypes, TypesOfParts DEF Join
  <1>13. CASE HashFile
    BY <1>1, <1>2, <1>3, <1>13, FrameTypes, TypesOfParts DEF HashFile, FinalStep
  <1>14. CASE Rename
    <2>1. FileTypes'
      BY <1>2, <1>14 DEF Rename, FinalStep, FileTypes, fileVars
    <2> QED BY <1>1, <1>2, <1>3, <1>14, <2>1, FrameTypes, TypesOfParts
             DEF Rename, FinalStep
  <1>15. CASE SyncParent
    <2>1. FileTypes'
      BY <1>2, <1>15 DEF SyncParent, FileTypes
    <2> QED BY <1>1, <1>2, <1>3, <1>15, <2>1, FrameTypes, TypesOfParts
             DEF SyncParent
  <1> QED BY <1>5, <1>6, <1>7, <1>8, <1>9, <1>10, <1>11, <1>12, <1>13, <1>14,
             <1>15 DEF Main

\* One read continues what was taken by blocks of the device.
LEMMA ReadTakes ==
  ASSUME IInv, NEW n \in Nat, Len(taken) + n <= Length,
         taken' = taken \o SubSeq(source, Len(taken) + 1, Len(taken) + n)
  PROVE  /\ taken' \in Seq(Blocks)
         /\ Len(taken) \in Nat /\ Len(taken') = Len(taken) + n
         /\ \A i \in 1..Len(taken) : taken'[i] = taken[i]
         /\ \A i \in 1..n : taken'[Len(taken) + i] = source[Len(taken) + i]
         /\ \A k \in 0..Len(taken) : SubSeq(taken', 1, k) = SubSeq(taken, 1, k)
  <1> DEFINE part == SubSeq(source, Len(taken) + 1, Len(taken) + n)
  <1>1. taken \in Seq(Blocks) /\ source \in Seq(Blocks) /\ Len(source) = Length
    BY ExtractAssumption DEF IInv, TypeOK
  <1>2. Len(taken) \in Nat
    BY <1>1, LenProperties
  <1>3. /\ part \in Seq(Blocks) /\ Len(part) = n
        /\ \A i \in 1..n : part[i] = source[Len(taken) + i]
    <2>1. Len(taken) + n \in 0..Len(source) /\ Len(taken) <= Len(taken) + n
      BY <1>1, <1>2
    <2>2. Len(taken) + n - Len(taken) = n
      BY <1>2
    <2> QED BY <1>1, <1>2, <2>1, <2>2, PartOf
  <1> HIDE DEF part
  <1>4. taken' = taken \o part
    BY DEF part
  <1>5. /\ taken' \in Seq(Blocks) /\ Len(taken') = Len(taken) + n
        /\ \A i \in 1..(Len(taken) + n) :
             taken'[i] = IF i <= Len(taken) THEN taken[i] ELSE part[i - Len(taken)]
    BY <1>1, <1>3, <1>4, ConcatProperties
  <1>6. \A i \in 1..n : taken'[Len(taken) + i] = source[Len(taken) + i]
    <2> SUFFICES ASSUME NEW i \in 1..n
                 PROVE  taken'[Len(taken) + i] = source[Len(taken) + i]
      OBVIOUS
    <2>1. Len(taken) + i \in 1..(Len(taken) + n) /\ ~(Len(taken) + i <= Len(taken))
          /\ Len(taken) + i - Len(taken) = i
      BY <1>2
    <2> QED BY <1>3, <1>5, <2>1
  <1>7. \A k \in 0..Len(taken) : SubSeq(taken', 1, k) = SubSeq(taken, 1, k)
    BY <1>1, <1>3, <1>4, PrefixOfLonger
  <1>8. \A i \in 1..Len(taken) : taken'[i] = taken[i]
    BY <1>2, <1>5
  <1>9. taken' \in Seq(Blocks) /\ Len(taken') = Len(taken) + n
    BY <1>5
  <1> QED BY ONLY <1>2, <1>6, <1>7, <1>8, <1>9

LEMMA ReaderKeepsTypes ==
  ASSUME IInv, Reader
  PROVE  TypeOK'
  <1>1. TypeOK
    BY DEF IInv
  <1>2. /\ options \in Options /\ source \in [1..Length -> Blocks]
        /\ queue \in Seq(Message)
        /\ MainTypes /\ ReaderTypes /\ FileTypes /\ BoundTypes
    BY <1>1, TypeParts
  <1>3. options' \in Options /\ source' \in [1..Length -> Blocks]
    BY <1>2 DEF Reader, Open, Read, Send, SendLast, Panic
  <1>4. Len(taken) \in Nat
    BY <1>2, LenProperties DEF ReaderTypes
  <1>5. Failed \in Message /\ Done(Len(taken)) \in Message
    BY <1>4 DEF Failed, Done, Message
  <1>6. CASE Open
    <2>1. ReaderTypes'
      BY <1>2, <1>5, <1>6 DEF Open, Offer, ReaderTypes
    <2> QED BY <1>1, <1>2, <1>3, <1>6, <2>1, FrameTypes, TypesOfParts DEF Open
  <1>7. CASE Read
    <2>1. ReaderTypes'
      <3>1. CASE taken' = taken /\ reader' = "sendLast"
                 /\ pending' \in {Failed, Done(Len(taken))}
        BY <1>2, <1>5, <3>1 DEF ReaderTypes
      <3>2. ASSUME NEW n \in 1..options.buffer, Len(taken) + n <= Length,
                   taken' = taken \o SubSeq(source, Len(taken) + 1, Len(taken) + n),
                   Offer("send", Data(Len(taken), Len(taken) + n))
            PROVE  ReaderTypes'
        <4>1. n \in Nat
          BY <1>2, ExtractAssumption
        <4>2. taken' \in Seq(Blocks)
          BY <3>2, <4>1, ReadTakes
        <4>3. Data(Len(taken), Len(taken) + n) \in Message
          BY <1>4, <4>1 DEF Data, Message
        <4> QED BY <3>2, <4>2, <4>3 DEF Offer, ReaderTypes
      <3> QED BY <1>7, <3>1, <3>2 DEF Read, Offer
    <2> QED BY <1>1, <1>2, <1>3, <1>7, <2>1, FrameTypes, TypesOfParts DEF Read
  <1>8. CASE Send
    <2>1. ReaderTypes'
      BY <1>2, <1>5, <1>8 DEF Send, Offer, ReaderTypes
    <2>2. queue' \in Seq(Message)
      BY <1>1, <1>2, <1>8, Queued DEF Send, ReaderTypes
    <2> QED BY <1>1, <1>3, <1>8, <2>1, <2>2, FrameTypes, TypesOfParts DEF Send
  <1>9. CASE SendLast
    <2>1. ReaderTypes'
      BY <1>2, <1>9 DEF SendLast, ReaderTypes
    <2>2. queue' \in Seq(Message)
      BY <1>1, <1>2, <1>9, Queued DEF SendLast, ReaderTypes
    <2> QED BY <1>1, <1>3, <1>9, <2>1, <2>2, FrameTypes, TypesOfParts
            DEF SendLast
  <1>10. CASE Panic
    <2>1. ReaderTypes'
      BY <1>2, <1>10 DEF Panic, ReaderTypes
    <2> QED BY <1>1, <1>2, <1>3, <1>10, <2>1, FrameTypes, TypesOfParts DEF Panic
  <1> QED BY <1>6, <1>7, <1>8, <1>9, <1>10 DEF Reader

LEMMA EnvironmentKeepsTypes ==
  ASSUME IInv, Environment
  PROVE  TypeOK'
  <1>1. TypeOK
    BY DEF IInv
  <1>2. /\ options \in Options /\ source \in [1..Length -> Blocks]
        /\ queue \in Seq(Message)
        /\ MainTypes /\ ReaderTypes /\ FileTypes /\ BoundTypes
    BY <1>1, TypeParts
  <1>3. CASE Rewrite
    <2>1. source' \in [1..Length -> Blocks]
      BY <1>2, <1>3, ExtractAssumption DEF Rewrite, Blocks
    <2>2. BoundTypes'
      BY <1>2, <1>3, ExtractAssumption DEF Rewrite, BoundTypes
    <2> QED BY <1>1, <1>2, <1>3, <2>1, <2>2, FrameTypes, TypesOfParts
            DEF Rewrite
  <1>4. CASE ForeignFile
    <2>1. FileTypes'
      BY <1>2, <1>4 DEF ForeignFile, FileTypes
    <2>2. BoundTypes'
      BY <1>2, <1>4, ExtractAssumption DEF ForeignFile, BoundTypes
    <2> QED BY <1>1, <1>2, <1>4, <2>1, <2>2, FrameTypes, TypesOfParts
            DEF ForeignFile
  <1>5. ASSUME ProcessGone
        PROVE  MainTypes' /\ ReaderTypes' /\ BoundTypes' /\ queue' \in Seq(Message)
    <2>1. MainTypes' /\ ReaderTypes' /\ queue' \in Seq(Message)
      BY <1>2, <1>5, EmptySeq DEF ProcessGone, MainTypes, ReaderTypes
    <2>2. BoundTypes'
      BY <1>2, <1>5, ExtractAssumption DEF ProcessGone, BoundTypes
    <2> QED BY <2>1, <2>2
  <1>6. CASE Killed
    BY <1>1, <1>2, <1>5, <1>6, FrameTypes, TypesOfParts DEF Killed
  <1>7. CASE PowerLoss
    <2>1. file' \in [written : Seq(Blocks), finished : BOOLEAN,
                     synced : BOOLEAN, entry : BOOLEAN]
      <3>1. CASE file.synced
        BY <1>2, <1>7, <3>1 DEF PowerLoss, FileTypes
      <3>2. CASE ~file.synced
        <4>1. PICK n \in 0..Len(file.written) :
                file' = [file EXCEPT !.written = SubSeq(@, 1, n), !.finished = FALSE]
          BY <1>7, <3>2 DEF PowerLoss
        <4>2. file.written \in Seq(Blocks) /\ Len(file.written) \in Nat
          BY <1>2, LenProperties DEF FileTypes
        <4>3. SubSeq(file.written, 0 + 1, n) \in Seq(Blocks)
          BY <4>2, PartOf
        <4> DEFINE part == SubSeq(file.written, 1, n)
        <4>4. part \in Seq(Blocks)
          BY <4>3
        <4>5. file' = [file EXCEPT !.written = part, !.finished = FALSE]
          BY <4>1
        <4> HIDE DEF part
        <4> QED BY <1>2, <4>4, <4>5 DEF FileTypes
      <3> QED BY <3>1, <3>2
    <2>2. dir' \in [{"partial", "final"} -> {"none", "foreign", "ours"}]
      <3>1. dir \in [{"partial", "final"} -> {"none", "foreign", "ours"}]
        BY <1>2 DEF FileTypes
      <3>2. \/ dir' = dir
            \/ dir' = [partial |-> "ours", final |-> "none"]
            \/ dir' = [dir EXCEPT !["partial"] = "none"]
        BY <1>7 DEF PowerLoss
      <3> QED BY <3>1, <3>2
    <2>3. FileTypes'
      BY <2>1, <2>2 DEF FileTypes
    <2> QED BY <1>1, <1>2, <1>5, <1>7, <2>3, TypesOfParts DEF PowerLoss
  <1> QED BY <1>3, <1>4, <1>6, <1>7 DEF Environment
-----------------------------------------------------------------------------
(* Blocks, spawning, and the end of the file *)

LEMMA SourceKept ==
  ASSUME IInv, [Next]_vars
  PROVE  SourceInv'
  <1>1. TypeOK /\ SourceInv
    BY DEF IInv
  <1>2. CASE UNCHANGED <<options, source, taken>>
    BY <1>1, <1>2 DEF SourceInv
  <1>3. CASE Read
    <2>1. ASSUME NEW n \in 1..options.buffer,
                 n <= options.bytes - Len(taken), Len(taken) + n <= Length,
                 taken' = taken \o SubSeq(source, Len(taken) + 1, Len(taken) + n)
          PROVE  SourceInv'
      <3>1. n \in Nat /\ options' = options /\ source' = source
            /\ Length \in Nat /\ options.bytes \in Nat
        BY <1>1, <1>3, ExtractAssumption DEF Read, TypeOK
      <3>2. /\ Len(taken) \in Nat /\ Len(taken') = Len(taken) + n
            /\ \A i \in 1..Len(taken) : taken'[i] = taken[i]
            /\ \A i \in 1..n : taken'[Len(taken) + i] = source[Len(taken) + i]
        BY <2>1, <3>1, ReadTakes
      <3>3. ASSUME NEW i \in 1..(Len(taken) + n)
            PROVE  taken'[i] \in {i, Length + i}
        <4>1. CASE i <= Len(taken)
          BY <1>1, <3>2, <4>1 DEF SourceInv
        <4>2. CASE Len(taken) < i
          <5> DEFINE k == i - Len(taken)
          <5>1. k \in 1..n /\ Len(taken) + k = i /\ i \in 1..Length
            BY <2>1, <3>1, <3>2, <4>2
          <5> HIDE DEF k
          <5> QED BY <1>1, <3>2, <5>1 DEF SourceInv
        <4> QED BY <3>2, <4>1, <4>2
      <3> QED BY <1>1, <2>1, <3>1, <3>2, <3>3 DEF SourceInv
    <2>2. CASE UNCHANGED taken
      BY <1>2, <1>3, <2>2 DEF Read
    <2> QED BY <1>3, <2>1, <2>2 DEF Read
  <1>4. CASE Rewrite
    BY <1>1, <1>4 DEF Rewrite, readerVars, SourceInv, TypeOK
  <1>5. \/ UNCHANGED <<options, source, taken>> \/ Read \/ Rewrite
    <2>1. ASSUME Main PROVE UNCHANGED <<options, source, taken>>
      BY <2>1
      DEF Main, Check, Create, Encoder, Receive, Write, Finish, Sync, Join,
         HashFile, Rename, SyncParent, FinalStep, readerVars
    <2>2. ASSUME Reader, ~Read PROVE UNCHANGED <<options, source, taken>>
      BY <2>2 DEF Reader, Open, Send, SendLast, Panic
    <2>3. ASSUME Environment, ~Rewrite PROVE UNCHANGED <<options, source, taken>>
      BY <2>3
      DEF Environment, ForeignFile, Killed, PowerLoss, ProcessGone, readerVars
    <2> QED BY <2>1, <2>2, <2>3 DEF Next, Finished, vars, readerVars
  <1> QED BY <1>2, <1>3, <1>4, <1>5

LEMMA SpawnKept ==
  ASSUME IInv, [Next]_vars
  PROVE  SpawnInv'
  <1>1. TypeOK /\ SpawnInv
    BY DEF IInv
  <1>2. CASE Check
    BY <1>1, <1>2
    DEF Check, Continue, GiveUp, readerVars, fileVars, SpawnInv, Early,
         Receiving, Ending
  <1>3. CASE Create
    BY <1>1, <1>3
    DEF Create, Continue, GiveUp, SpawnInv, Early, Receiving, Ending
  <1>4. CASE Main /\ ~Check /\ ~Create
    <2>1. /\ main \in Receiving \cup Ending
          /\ main' \in Receiving \cup Ending \cup {"ok", "failed"}
          /\ UNCHANGED readerVars
      BY <1>4
      DEF Main, Encoder, Receive, Write, Finish, Sync, Join, HashFile, Rename,
           SyncParent, FinalStep, Continue, GiveUp, Receiving, Ending
    <2> QED BY <1>1, <2>1 DEF SpawnInv, Early, Receiving, Ending, readerVars
  <1>5. CASE Reader
    <2>1. reader # "unborn" /\ reader' # "unborn" /\ UNCHANGED mainVars
      BY <1>5 DEF Reader, Open, Read, Send, SendLast, Panic, Offer
    <2> QED BY <1>1, <2>1 DEF SpawnInv, mainVars
  <1>6. CASE Rewrite \/ ForeignFile
    BY <1>1, <1>6
    DEF Rewrite, ForeignFile, mainVars, readerVars, fileVars, SpawnInv
  <1>7. CASE Killed \/ PowerLoss
    <2>1. main' \in {"ok", "failed", "lost"}
      BY <1>7 DEF Killed, PowerLoss, ProcessGone, Returned
    <2> QED BY <2>1 DEF SpawnInv, Early, Receiving, Ending
  <1>8. CASE UNCHANGED vars
    BY <1>1, <1>8 DEF vars, mainVars, readerVars, fileVars, SpawnInv
  <1> QED BY <1>2, <1>3, <1>4, <1>5, <1>6, <1>7, <1>8
          DEF Next, Environment, Finished

\* Done is only received when all was read, written and sent.
LEMMA DrainedKept ==
  ASSUME IInv, [Next]_vars
  PROVE  DrainedInv'
  <1>1. TypeOK /\ SpawnInv /\ FlightInv /\ DrainedInv
    BY DEF IInv
  <1>2. CASE main \in Ending \cup {"ok"} /\ main' \in Ending \cup {"ok"}
             /\ UNCHANGED <<options, readerVars, queue, result, file.written>>
    BY <1>1, <1>2 DEF DrainedInv, readerVars
  <1>3. CASE main' \notin Ending \cup {"ok"}
    BY <1>3 DEF DrainedInv
  <1>4. CASE Receive /\ main' = "finish"
    <2>1. /\ main = "receive" /\ queue # << >> /\ queue' = Tail(queue)
          /\ held' = Head(queue) /\ held'.kind = "done"
          /\ result' = IF options.rawHash THEN RawHash(held'.to) ELSE NoHash
          /\ UNCHANGED <<options, readerVars, file>>
      BY <1>4 DEF Receive, GiveUp, fileVars
    <2>2. held' = queue[1] /\ 1 \in 1..Last /\ Last \in Nat /\ held' \in Message
      BY <1>1, <2>1, Queued
    <2>3. Last = 1 /\ reader = "ended"
      BY <1>1, <2>1, <2>2
      DEF FlightInv, WrittenInv, QueueInv, ReaderInv, Receiving
    <2>4. queue' = << >>
      BY <1>1, <2>1, <2>3, Queued, EmptySeq
    <2>5. /\ held'.to = options.bytes /\ held'.to = Len(taken)
          /\ held'.from = Len(file.written) /\ held'.from = held'.to
          /\ file.written = SubSeq(taken, 1, Len(file.written))
      BY <1>1, <2>1, <2>2, <2>3
      DEF FlightInv, WrittenInv, QueueInv, ReaderInv, Receiving, Follows, End,
          Start
    <2>6. SubSeq(taken, 1, Len(taken)) = taken
      BY <1>1, SubSeqFull DEF TypeOK
    <2>7. file.written = taken
      BY <2>5, <2>6
    <2> QED BY <2>1, <2>3, <2>4, <2>5, <2>6, <2>7
             DEF DrainedInv, readerVars, RawHash
  <1>5. CASE Main /\ ~Receive
    <2>1. main' \in Ending \cup {"ok"} =>
            /\ main \in Ending
            /\ UNCHANGED <<options, readerVars, queue, result, file.written>>
      <3>1. CASE Check \/ Create \/ Encoder \/ Write
        BY <3>1 DEF Check, Create, Encoder, Write, Continue, GiveUp, Ending
      <3>2. CASE Finish \/ Sync \/ Join \/ HashFile
        BY <1>1, <3>2
        DEF Finish, Sync, Join, HashFile, FinalStep, Continue, GiveUp,
             Ending, fileVars, TypeOK
      <3>3. CASE Rename \/ SyncParent
        BY <1>1, <3>3 DEF Rename, SyncParent, FinalStep, Continue, GiveUp,
             Ending, fileVars, TypeOK
      <3> QED BY <1>5, <3>1, <3>2, <3>3 DEF Main
    <2> QED BY <1>2, <1>3, <2>1
  <1>6. CASE Receive /\ main' # "finish"
    BY <1>3, <1>6 DEF Receive, GiveUp, Ending
  <1>7. CASE Reader
    BY <1>1, <1>7
    DEF Reader, Open, Read, Send, SendLast, Panic, DrainedInv, mainVars
  <1>8. CASE Rewrite \/ ForeignFile \/ UNCHANGED vars
    <2>1. UNCHANGED <<options, mainVars, readerVars, queue, file>>
      BY <1>8 DEF Rewrite, ForeignFile, fileVars, vars
    <2> QED BY <1>2, <1>3, <2>1 DEF mainVars
  <1>9. CASE Killed \/ PowerLoss
    <2>1. main' \in {"ok", "failed", "lost"} /\ (main' = "ok" => main = "ok")
      BY <1>9 DEF Killed, PowerLoss, ProcessGone, Returned
    <2>2. ASSUME main = "ok" PROVE UNCHANGED file
      BY <1>9, <2>2 DEF IInv, FileInv, Killed, PowerLoss, fileVars
    <2>3. reader' = "ended" /\ queue' = << >> /\ UNCHANGED <<options, taken, result>>
      BY <1>9 DEF Killed, PowerLoss, ProcessGone
    <2> QED BY <1>1, <1>3, <2>1, <2>2, <2>3 DEF DrainedInv, Ending
  <1> QED BY <1>4, <1>5, <1>6, <1>7, <1>8, <1>9 DEF Next, Environment, Finished

\* Whatever gives the output its name does so after the last sync.
LEMMA FileKept ==
  ASSUME IInv, [Next]_vars, TypeOK'
  PROVE  FileInv'
  <1>1. TypeOK /\ SpawnInv /\ DrainedInv /\ FileInv /\ SourceInv
    BY DEF IInv
  <1> DEFINE Named == {"syncParent", "ok", "failed", "lost"}
  <1>2. dir' \in [{"partial", "final"} -> {"none", "foreign", "ours"}]
    BY DEF TypeOK
  <1>3. ASSUME UNCHANGED <<options, file>> PROVE Complete' = Complete
    BY <1>3 DEF Complete
  <1>4. CASE Check \/ Encoder \/ Receive \/ Join \/ HashFile
    <2>1. /\ UNCHANGED <<options, fileVars>>
          /\ main \notin Named /\ main' \notin {"sync", "syncParent", "ok"}
          /\ main' \in {"join", "hash", "rename"} => main \in {"join", "hash"}
      BY <1>4 DEF Check, Encoder, Receive, Join, HashFile, FinalStep, Continue,
           GiveUp, fileVars
    <2> QED BY <1>1, <2>1, <1>3 DEF FileInv, fileVars
  <1>5. CASE Create
    <2>1. /\ main = "create" /\ main' \in {"encoder", "failed"}
          /\ dir'["final"] = dir["final"]
      BY <1>1, <1>5 DEF Create, Continue, GiveUp, TypeOK
    <2> QED BY <1>1, <2>1 DEF FileInv
  <1>6. CASE Write
    <2>1. main = "write" /\ main' \in {"receive", "failed"} /\ dir' = dir
      BY <1>6 DEF Write, Continue, GiveUp
    <2> QED BY <1>1, <2>1 DEF FileInv
  <1>7. CASE Finish \/ Sync
    <2>1. /\ main \in {"finish", "sync"} /\ dir' = dir
          /\ \/ main' = "failed" /\ file' = file
             \/ /\ main = "finish" /\ main' = "sync"
                /\ file' = [file EXCEPT !.finished = TRUE]
             \/ /\ main = "sync" /\ main' = "join"
                /\ file' = [file EXCEPT !.synced = TRUE]
      BY <1>7 DEF Finish, Sync, FinalStep, Continue, GiveUp, fileVars
    <2> QED BY <1>1, <2>1 DEF FileInv, TypeOK
  <1>8. CASE Rename
    <2>1. CASE main' = "failed" /\ UNCHANGED fileVars
      BY <1>1, <1>3, <1>8, <2>1 DEF Rename, FinalStep, FileInv, fileVars
    <2>2. CASE main' = "syncParent" /\ file' = file
               /\ dir' = [partial |-> "none", final |-> "ours"]
      <3>1. file.finished /\ file.synced /\ main = "rename" /\ options' = options
        BY <1>1, <1>8 DEF Rename, FinalStep, FileInv
      <3>2. Complete
        BY <1>1, <3>1 DEF Complete, DrainedInv, Ending, SourceInv
      <3> QED BY <1>3, <2>2, <3>1, <3>2 DEF FileInv
    <2> QED BY <1>8, <2>1, <2>2 DEF Rename, FinalStep, Continue, GiveUp
  <1>9. CASE SyncParent
    <2>1. /\ main = "syncParent" /\ main' \in {"ok", "failed"} /\ dir' = dir
          /\ options' = options
      BY <1>9 DEF SyncParent, Continue, GiveUp
    <2>2. \/ file' = file
          \/ file' = [file EXCEPT !.entry = TRUE]
      BY <1>9 DEF SyncParent
    <2>3. /\ file'.written = file.written /\ file'.finished = file.finished
          /\ file'.synced = file.synced
      BY <1>1, <2>2 DEF TypeOK
    <2>4. main' = "ok" => file'.entry
      BY <1>1, <1>9 DEF SyncParent, GiveUp, TypeOK
    <2> QED BY <1>1, <2>1, <2>3, <2>4 DEF FileInv, Complete
  <1>10. CASE Reader \/ Rewrite \/ UNCHANGED vars
    <2>1. UNCHANGED <<options, mainVars, fileVars>>
      BY <1>10 DEF Reader, Open, Read, Send, SendLast, Panic, Rewrite, vars
    <2> QED BY <1>1, <1>3, <2>1 DEF FileInv, mainVars, fileVars
  <1>11. CASE ForeignFile
    <2>1. UNCHANGED <<options, mainVars, file>>
      BY <1>11 DEF ForeignFile
    <2>2. /\ (dir["final"] = "ours") = (dir'["final"] = "ours")
          /\ (dir["partial"] = "ours") = (dir'["partial"] = "ours")
      BY <1>1, <1>11 DEF ForeignFile, TypeOK
    <2> QED BY <1>1, <1>3, <2>1, <2>2 DEF FileInv, mainVars
  <1>12. CASE Killed \/ PowerLoss
    <2>1. main' = (IF Returned THEN main ELSE "lost") /\ options' = options
      BY <1>12 DEF Killed, PowerLoss, ProcessGone
    <2>2. dir'["final"] = "ours" => dir["final"] = "ours" /\ UNCHANGED file
      <3>1. CASE Killed
        BY <3>1 DEF Killed, fileVars
      <3>2. CASE PowerLoss
        <4>1. dir'["final"] = "ours" => dir["final"] = "ours"
          BY <1>1, <3>2 DEF PowerLoss, TypeOK
        <4> QED BY <1>1, <3>2, <4>1 DEF PowerLoss, FileInv, Complete
      <3> QED BY <1>12, <3>1, <3>2
    <2>3. ASSUME main = "ok" PROVE UNCHANGED fileVars
      BY <1>1, <1>12, <2>3 DEF FileInv, Killed, PowerLoss, fileVars
    <2> QED BY <1>1, <1>3, <2>1, <2>2, <2>3 DEF FileInv, Returned, fileVars
  <1> QED BY <1>4, <1>5, <1>6, <1>7, <1>8, <1>9, <1>10, <1>11, <1>12
          DEF Next, Main, Environment, Finished
-----------------------------------------------------------------------------
(* Messages *)

\* What Flight says while the call is receiving.
Flight == WrittenInv /\ QueueInv /\ ReaderInv

\* A state that has the same messages and blocks is as good.
LEMMA FlightUnchanged ==
  ASSUME Flight,
         UNCHANGED <<options.bytes, held, reader, taken, pending, queue,
                     file.written>>,
         main # "write", main' # "write"
  PROVE  Flight'
  BY DEF Flight, WrittenInv, QueueInv, ReaderInv, Follows, Start, End, Last,
         StreamEnded

LEMMA FlightStutters ==
  ASSUME Flight,
         UNCHANGED <<options, main, held, reader, taken, pending, queue, file>>
  PROVE  Flight'
  BY DEF Flight, WrittenInv, QueueInv, ReaderInv, Follows, Start, End, Last,
         StreamEnded

\* The ends of what is in flight are places in what was taken.
LEMMA EndsTyped ==
  ASSUME TypeOK, Flight
  PROVE  /\ Len(taken) \in Nat /\ Len(file.written) \in Nat
         /\ Start \in Nat
         /\ \A i \in 0..Last : End(i) \in Nat
  <1>1. Len(taken) \in Nat /\ Len(file.written) \in Nat
    BY LenProperties DEF TypeOK
  <1>2. Start \in Nat
    BY <1>1 DEF Start, TypeOK, Message
  <1>3. \A i \in 0..Last : End(i) \in Nat
    BY <1>2, Queued DEF End, Message
  <1> QED BY <1>1, <1>2, <1>3

\* The first message moves from the queue into the hands of the caller.
LEMMA ReceiveKeepsFlight ==
  ASSUME TypeOK, Flight, Receive, main' = "write"
  PROVE  Flight'
  <1>1. /\ main = "receive" /\ queue # << >>
        /\ queue' = Tail(queue) /\ held' = Head(queue) /\ held'.kind = "data"
        /\ UNCHANGED <<options, reader, taken, pending, file>>
    BY DEF Receive, GiveUp, readerVars, fileVars
  <1>2. /\ Last \in Nat /\ 1 \in 1..Last /\ held' = queue[1] /\ Last' = Last - 1
        /\ \A i \in 1..(Last - 1) : queue'[i] = queue[i + 1]
    BY <1>1, Queued DEF Last
  <1>3. Start = Len(file.written) /\ Start' = queue[1].to
    BY <1>1, <1>2 DEF Start
  <1>4. \A i \in 0..(Last - 1) : End(i)' = End(i + 1)
    <2> SUFFICES ASSUME NEW i \in 0..(Last - 1) PROVE End(i)' = End(i + 1)
      OBVIOUS
    <2>1. CASE i = 0
      BY <1>2, <1>3, <2>1 DEF End
    <2>2. CASE i # 0
      BY <1>2, <2>2 DEF End
    <2> QED BY <2>1, <2>2
  <1>5. \A m, n : Follows(m, n)' <=> Follows(m, n)
    BY <1>1 DEF Follows
  <1>6. WrittenInv'
    <2>1. Follows(queue[1], End(0)) /\ End(0) = Len(file.written)
      BY <1>2, <1>3 DEF Flight, QueueInv, End
    <2> QED BY <1>1, <1>2, <2>1 DEF Flight, WrittenInv, Follows
  <1>7. QueueInv'
    <2>1. ASSUME NEW i \in 1..(Last - 1)
          PROVE  /\ Follows(queue'[i], End(i - 1)')
                 /\ queue'[i].kind # "data" => i = Last - 1 /\ reader = "ended"
      <3>1. i + 1 \in 1..Last /\ i - 1 \in 0..(Last - 1) /\ (i - 1) + 1 = i
            /\ (i + 1) - 1 = i
        BY <1>2
      <3>2. Follows(queue[i + 1], End(i))
        BY <3>1 DEF Flight, QueueInv
      <3>3. queue[i + 1].kind # "data" => i + 1 = Last /\ reader = "ended"
        BY <3>1 DEF Flight, QueueInv
      <3> QED BY <1>2, <1>4, <3>1, <3>2, <3>3
    <2> QED BY <1>1, <1>2, <1>5, <2>1 DEF QueueInv
  <1>8. ReaderInv'
    <2>1. End(Last)' = End(Last)
      BY <1>2, <1>4
    <2>2. ASSUME reader = "ended"
          PROVE  /\ Last > 1 /\ StreamEnded'
                 /\ queue'[Last - 1] = queue[Last]
                 /\ End(Last - 1)' = End(Last - 1)
      <3>1. StreamEnded
        BY <2>2 DEF Flight, ReaderInv
      <3>2. Last > 1
        BY <1>1, <1>2, <3>1 DEF StreamEnded
      <3>3. queue'[Last - 1] = queue[Last] /\ Last - 1 \in 1..(Last - 1)
        BY <1>2, <3>2
      <3>4. queue' # << >>
        BY <1>2, <3>2, EmptySeq DEF Last
      <3>5. End(Last - 1)' = End(Last - 1)
        <4>1. Last - 2 \in 0..(Last - 1) /\ Last' - 1 = Last - 2
              /\ (Last - 2) + 1 = Last - 1
          BY <1>2, <3>2
        <4> QED BY <1>4, <4>1
      <3> QED BY <1>2, <3>1, <3>2, <3>3, <3>4, <3>5 DEF StreamEnded
    <2> QED BY <1>1, <1>2, <1>5, <2>1, <2>2 DEF Flight, ReaderInv
  <1> QED BY <1>6, <1>7, <1>8 DEF Flight

\* The file goes on where it ended, by the blocks of the message.
LEMMA WriteKeepsFlight ==
  ASSUME TypeOK, Flight, Write, main' = "receive"
  PROVE  Flight'
  <1> DEFINE part == SubSeq(taken, held.from + 1, held.to)
             w == Len(file.written)
  <1>1. /\ main = "write" /\ file' = [file EXCEPT !.written = @ \o part]
        /\ UNCHANGED <<options, reader, taken, pending, queue>>
    BY DEF Write, GiveUp, readerVars
  <1>2. /\ file.written = SubSeq(taken, 1, w) /\ w \in Nat
        /\ held.kind = "data" /\ held.from = w
        /\ held.to \in Nat /\ w <= held.to /\ held.to <= Len(taken)
        /\ taken \in Seq(Blocks) /\ Len(taken) \in Nat
    BY <1>1, LenProperties DEF Flight, WrittenInv, Follows, TypeOK, Message
  <1>3. file'.written = file.written \o part
    BY <1>1 DEF TypeOK
  <1>4. file'.written = SubSeq(taken, 1, held.to)
    <2>1. SubSeq(taken, 1, w) \o SubSeq(taken, w + 1, held.to)
            = SubSeq(taken, 1, held.to)
      <3>1. held.to \in 0..Len(taken)
        BY <1>2
      <3> HIDE DEF w
      <3> QED BY <1>2, <3>1, PrefixGrows
    <2> QED BY <1>2, <1>3, <2>1
  <1>5. Len(file'.written) = held.to
    <2>1. Len(SubSeq(taken, 0 + 1, held.to)) = held.to - 0
      BY <1>2, PartOf
    <2> QED BY <1>2, <1>4, <2>1
  <1>6. Start = held.to /\ Start' = held.to
    BY <1>1, <1>5 DEF Start
  <1>7. WrittenInv'
    BY <1>1, <1>2, <1>4, <1>5 DEF WrittenInv
  <1>8. QueueInv' /\ ReaderInv'
    BY <1>1, <1>6
    DEF Flight, QueueInv, ReaderInv, End, Last, Follows, StreamEnded
  <1> QED BY <1>7, <1>8 DEF Flight

\* What was in flight stays so when the reader takes more.
LEMMA ReadKeepsFlight ==
  ASSUME IInv, Flight, Read
  PROVE  Flight'
  <1>1. TypeOK /\ SourceInv
    BY DEF IInv
  <1>2. /\ reader = "read" /\ UNCHANGED <<options, main, held, queue, file>>
    BY DEF Read, mainVars, fileVars
  <1>3. /\ Len(taken) \in Nat /\ Len(file.written) \in Nat /\ options.bytes \in Nat
        /\ End(Last) = Len(taken)
    BY <1>1, <1>2, EndsTyped, ExtractAssumption DEF Flight, ReaderInv, TypeOK
  <1>4. \A i : End(i)' = End(i)
    BY <1>2 DEF End, Start
  <1>5. ASSUME taken' = taken, reader' = "sendLast",
               pending' \in {Failed, Done(options.bytes)},
               pending' = Failed \/ options.bytes = Len(taken)
        PROVE  Flight'
    <2>1. WrittenInv' /\ QueueInv'
      BY <1>2, <1>4, <1>5 DEF Flight, WrittenInv, QueueInv, Last, Follows
    <2>2. ReaderInv'
      BY <1>2, <1>3, <1>4, <1>5
         DEF ReaderInv, Last, Follows, Failed, Done
    <2> QED BY <2>1, <2>2 DEF Flight
  <1>6. ASSUME NEW n \in 1..options.buffer, Len(taken) + n <= Length,
               taken' = taken \o SubSeq(source, Len(taken) + 1, Len(taken) + n),
               Offer("send", Data(Len(taken), Len(taken) + n))
        PROVE  Flight'
    <2>1. n \in Nat
      BY <1>1, ExtractAssumption DEF TypeOK
    <2>2. /\ Len(taken') = Len(taken) + n
          /\ \A k \in 0..Len(taken) : SubSeq(taken', 1, k) = SubSeq(taken, 1, k)
      BY <1>6, <2>1, ReadTakes
    <2>3. \A m, at : m.to \in Int /\ Follows(m, at) => Follows(m, at)'
      BY <1>2, <1>3, <2>1, <2>2 DEF Follows
    <2>4. WrittenInv'
      <3>1. held.to \in Int
        BY <1>1 DEF TypeOK, Message
      <3> QED BY <1>2, <1>3, <2>1, <2>2, <2>3, <3>1 DEF Flight, WrittenInv
    <2>5. QueueInv'
      <3>1. \A i \in 1..Last : queue[i].to \in Int
        BY <1>1, Queued DEF Message
      <3> QED BY <1>2, <1>4, <2>3, <3>1 DEF Flight, QueueInv, Last
    <2>6. ReaderInv'
      BY <1>2, <1>3, <1>4, <1>6, <2>1, <2>2
         DEF ReaderInv, Last, Follows, Offer, Data
    <2> QED BY <2>4, <2>5, <2>6 DEF Flight
  <1>7. options.bytes - Len(taken) = 0 => options.bytes = Len(taken)
    BY <1>3
  <1> QED BY <1>5, <1>6, <1>7 DEF Read, Offer

\* The message the reader has made goes to the end of the queue.
LEMMA SendKeepsFlight ==
  ASSUME TypeOK, Flight, Send \/ SendLast, ~Returned
  PROVE  Flight'
  <1>1. /\ queue' = Append(queue, pending)
        /\ UNCHANGED <<options, main, held, taken, pending, file>>
        /\ \/ reader = "send" /\ reader' = "read"
           \/ reader = "sendLast" /\ reader' = "ended"
    BY DEF Send, SendLast, Offer, ReceiverDropped, mainVars, fileVars
  <1>2. pending \in Message
    BY DEF TypeOK
  <1>3. /\ Last \in Nat /\ Last' = Last + 1 /\ queue'[Last + 1] = pending
        /\ queue' # << >>
        /\ \A i \in 1..Last : queue'[i] = queue[i]
    BY <1>1, <1>2, Queued, EmptySeq DEF Last
  <1>4. \A i \in 0..Last : End(i)' = End(i)
    <2> SUFFICES ASSUME NEW i \in 0..Last PROVE End(i)' = End(i)
      OBVIOUS
    <2>1. Start' = Start
      BY <1>1 DEF Start
    <2>2. CASE i = 0
      BY <2>1, <2>2 DEF End
    <2>3. CASE i # 0
      <3>1. i \in 1..Last
        BY <1>3, <2>3
      <3> QED BY <1>3, <2>3, <3>1 DEF End
    <2> QED BY <2>2, <2>3
  <1>5. End(Last)' = pending.to
    BY <1>3 DEF End
  <1>6. Follows(pending, End(Last)) /\ (pending.kind = "data" <=> reader = "send")
        /\ (IF pending.kind = "failed" THEN End(Last) = Len(taken)
                                       ELSE pending.to = Len(taken))
    BY <1>1 DEF Flight, ReaderInv
  <1>7. WrittenInv'
    BY <1>1 DEF Flight, WrittenInv, Follows
  <1>8. QueueInv'
    <2>1. ASSUME NEW i \in 1..(Last + 1)
          PROVE  /\ Follows(queue'[i], End(i - 1)')
                 /\ queue'[i].kind # "data" => i = Last + 1 /\ reader' = "ended"
      <3>1. CASE i = Last + 1
        <4>1. i - 1 = Last
          BY <1>3, <3>1
        <4>2. End(i - 1)' = End(Last)
          BY <1>3, <1>4, <4>1
        <4> QED BY <1>1, <1>3, <1>6, <3>1, <4>2
      <3>2. CASE i # Last + 1
        <4>1. i \in 1..Last /\ i - 1 \in 0..Last
          BY <1>3, <3>2
        <4>2. End(i - 1)' = End(i - 1) /\ queue'[i] = queue[i]
          BY <1>3, <1>4, <4>1
        <4>3. queue[i].kind = "data"
          BY <1>1, <4>1 DEF Flight, QueueInv
        <4> QED BY <4>1, <4>2, <4>3 DEF Flight, QueueInv
      <3> QED BY <3>1, <3>2
    <2> QED BY <1>1, <1>3, <2>1 DEF QueueInv, Follows
  <1>9. ReaderInv'
    <2>1. (Last + 1) - 1 = Last /\ Last \in 0..Last
      BY <1>3
    <2>2. End(Last)' = pending.to
      BY <1>5
    <2>3. End(Last - 1)' = End(Last)
      BY <1>3, <1>4, <2>1
    <2>4. queue'[Last'] = pending
      BY <1>3
    <2> QED BY <1>1, <1>3, <1>6, <2>2, <2>3, <2>4 DEF ReaderInv, StreamEnded
  <1> QED BY <1>7, <1>8, <1>9 DEF Flight

LEMMA FlightKept ==
  ASSUME IInv, [Next]_vars
  PROVE  FlightInv'
  <1> SUFFICES ASSUME main' \in Early \cup Receiving PROVE Flight'
    BY DEF FlightInv, Flight
  <1>1. TypeOK /\ SpawnInv /\ (main \in Early \cup Receiving => Flight)
    BY DEF IInv, FlightInv, Flight
  <1>2. CASE Check \/ Encoder
    <2>1. /\ main \in {"check", "encoder"} /\ main' # "write"
          /\ UNCHANGED <<options, held, readerVars, queue, file>>
      BY <1>2 DEF Check, Encoder, Continue, GiveUp, fileVars
    <2> QED BY <1>1, <2>1, FlightUnchanged DEF Early, Receiving, readerVars
  <1>3. CASE Create
    <2>1. /\ main = "create" /\ main' = "encoder" /\ reader' = "open"
          /\ UNCHANGED <<options, held, taken, pending, queue, file>>
      BY <1>3 DEF Create, Continue, GiveUp, Early, Receiving
    <2>2. reader = "unborn" /\ Flight
      BY <1>1, <2>1 DEF SpawnInv, Early
    <2>3. Last = 0 /\ ~StreamEnded
      BY <1>1, <2>1, EmptySeq DEF SpawnInv, Early, Last, StreamEnded
    <2> QED BY <2>1, <2>2, <2>3
            DEF Flight, WrittenInv, QueueInv, ReaderInv, Follows, Start, End, Last
  <1>4. CASE Receive
    <2>1. main = "receive" /\ main' = "write"
      BY <1>4 DEF Receive, GiveUp, Early, Receiving
    <2> QED BY <1>1, <1>4, <2>1, ReceiveKeepsFlight DEF Receiving
  <1>5. CASE Write
    <2>1. main = "write" /\ main' = "receive"
      BY <1>5 DEF Write, Continue, GiveUp, Early, Receiving
    <2> QED BY <1>1, <1>5, <2>1, WriteKeepsFlight DEF Receiving
  <1>6. CASE Finish \/ Sync \/ Join \/ HashFile \/ Rename \/ SyncParent
    BY <1>6
    DEF Finish, Sync, Join, HashFile, Rename, SyncParent, FinalStep, Continue,
         GiveUp, Early, Receiving
  <1>7. CASE Open
    <2>1. /\ reader = "open" /\ Flight
          /\ UNCHANGED <<options, main, held, taken, queue, file>>
          /\ \/ reader' = "read" /\ pending' = pending
             \/ reader' = "sendLast" /\ pending' = Failed
      BY <1>1, <1>7 DEF Open, Offer, mainVars, fileVars
    <2>2. pending' = Failed => \A at : Follows(pending, at)'
      BY DEF Failed, Follows
    <2>3. WrittenInv' /\ QueueInv'
      BY <2>1 DEF Flight, WrittenInv, QueueInv, Follows, Start, End, Last
    <2>4. ReaderInv'
      BY <2>1, <2>2 DEF Flight, ReaderInv, Failed, Start, End, Last
    <2> QED BY <2>3, <2>4 DEF Flight
  <1>8. CASE Read
    BY <1>1, <1>8, ReadKeepsFlight DEF Read, mainVars
  <1>9. CASE Send \/ SendLast
    <2>1. Flight /\ ~Returned
      BY <1>1, <1>9 DEF Send, SendLast, mainVars, Returned, Early, Receiving
    <2> QED BY <1>1, <1>9, <2>1, SendKeepsFlight
  <1>10. CASE Panic
    <2>1. /\ reader' = "panicked" /\ Flight /\ reader # "ended"
          /\ UNCHANGED <<options, main, held, taken, pending, queue, file>>
      BY <1>1, <1>10 DEF Panic, mainVars, fileVars
    <2> QED BY <2>1
            DEF Flight, WrittenInv, QueueInv, ReaderInv, Follows, Start, End,
                Last
  <1>11. CASE Rewrite \/ ForeignFile \/ UNCHANGED vars
    <2>1. UNCHANGED <<options, main, held, reader, taken, pending, queue, file>>
      BY <1>11 DEF Rewrite, ForeignFile, vars, mainVars, readerVars, fileVars
    <2> QED BY <1>1, <2>1, FlightStutters
  <1>12. CASE Killed \/ PowerLoss
    BY <1>12 DEF Killed, PowerLoss, ProcessGone, Returned, Early, Receiving
  <1> QED BY <1>2, <1>3, <1>4, <1>5, <1>6, <1>7, <1>8, <1>9, <1>10, <1>11, <1>12
          DEF Next, Main, Reader, Environment, Finished
-----------------------------------------------------------------------------
(* What is proved *)

LEMMA InvKept == IInv /\ [Next]_vars => IInv'
  <1> SUFFICES ASSUME IInv, [Next]_vars PROVE IInv'
    OBVIOUS
  <1>1. TypeOK'
    <2>1. CASE UNCHANGED vars
      BY <2>1 DEF vars, mainVars, readerVars, fileVars, bounds, IInv, TypeOK
    <2> QED BY <2>1, CallerKeepsTypes, ReaderKeepsTypes, EnvironmentKeepsTypes
            DEF Next, Finished
  <1> QED BY <1>1, SourceKept, SpawnKept, FlightKept, DrainedKept, FileKept
          DEF IInv

LEMMA Invariant == Spec => []IInv
  BY InvStarts, InvKept, PTL DEF Spec

\* Every variable of an extraction keeps its type, for every device, call and
\* number of faults.
THEOREM ExtractTypes == Spec => []TypeOK
  <1>1. IInv => TypeOK
    BY DEF IInv
  <1> QED BY <1>1, Invariant, PTL

\* The hash that a successful call returns is that of the blocks in the image,
\* for every device, call and number of faults and of concurrent writes.
THEOREM HashIsTrue == Spec => []HashIsOfImage
  <1>1. IInv => HashIsOfImage
    BY DEF IInv, DrainedInv, HashIsOfImage
  <1> QED BY <1>1, Invariant, PTL

\* Every step of an extraction is one of AtomicImage, or changes nothing there.
LEMMA StepIsAtomic ==
  ASSUME IInv, IInv', [Next]_vars
  PROVE  [Atomic!Next]_Atomic!vars
  <1> DEFINE image == IF dir["final"] # "ours" THEN "absent"
                      ELSE IF Complete THEN "complete" ELSE "damaged"
             outcome == IF main \in {"ok", "failed", "lost"} THEN main
                        ELSE "running"
  <1> USE DEF Atomic!Next, Atomic!vars, Atomic!Publish, Atomic!Succeed,
              Atomic!Fail, Atomic!Stop
  <1>1. /\ image = IF dir["final"] # "ours" THEN "absent" ELSE "complete"
        /\ image' = IF dir'["final"] # "ours" THEN "absent" ELSE "complete"
    BY DEF IInv, FileInv
  <1>2. ASSUME image' = image, outcome' = outcome
        PROVE  [Atomic!Next]_Atomic!vars
    BY <1>2
  <1>3. ASSUME image' = image, outcome = "running", outcome' = "failed"
        PROVE  [Atomic!Next]_Atomic!vars
    BY <1>3
  <1>4. TypeOK /\ FileInv
    BY DEF IInv
  <1>5. CASE Main /\ ~Rename /\ ~SyncParent
    <2>1. outcome = "running" /\ outcome' \in {"running", "failed"}
          /\ (dir["final"] = "ours") = (dir'["final"] = "ours")
      <3>1. CASE Check \/ Encoder \/ Receive \/ Write \/ Join
        BY <3>1
        DEF Check, Encoder, Receive, Write, Join, Continue, GiveUp, fileVars
      <3>2. CASE Create
        BY <1>4, <3>2 DEF Create, Continue, GiveUp, TypeOK
      <3>3. CASE Finish \/ Sync \/ HashFile
        BY <3>3
        DEF Finish, Sync, HashFile, FinalStep, Continue, GiveUp, fileVars
      <3> QED BY <1>5, <3>1, <3>2, <3>3 DEF Main
    <2>2. image' = image
      BY <1>1, <2>1
    <2> HIDE DEF image, outcome
    <2> QED BY <1>2, <1>3, <2>1, <2>2
  <1>6. CASE Rename
    <2>1. dir["final"] # "ours" /\ outcome = "running"
      BY <1>4, <1>6 DEF Rename, FinalStep, FileInv
    <2>2. \/ dir' = dir /\ main' = "failed"
          \/ dir'["final"] = "ours" /\ main' = "syncParent"
      BY <1>6 DEF Rename, FinalStep, Continue, GiveUp, fileVars
    <2> QED BY <1>1, <2>1, <2>2
  <1>7. CASE SyncParent
    <2>1. /\ dir["final"] = "ours" /\ dir' = dir /\ outcome = "running"
          /\ main' \in {"ok", "failed"}
      BY <1>4, <1>7 DEF SyncParent, Continue, GiveUp, FileInv
    <2> QED BY <1>1, <2>1
  <1>8. CASE Reader \/ Rewrite \/ UNCHANGED vars
    <2>1. UNCHANGED <<mainVars, dir>>
      BY <1>8
      DEF Reader, Open, Read, Send, SendLast, Panic, Rewrite, fileVars, vars
    <2> QED BY <1>1, <1>2, <2>1 DEF mainVars
  <1>9. CASE ForeignFile
    <2>1. main' = main /\ (dir["final"] = "ours") = (dir'["final"] = "ours")
      BY <1>4, <1>9 DEF ForeignFile, TypeOK, mainVars
    <2> QED BY <1>1, <1>2, <2>1
  <1>10. CASE Killed \/ PowerLoss
    <2>1. main' = (IF Returned THEN main ELSE "lost")
      BY <1>10 DEF Killed, PowerLoss, ProcessGone
    <2>2. dir'["final"] = "ours" => dir["final"] = "ours"
      BY <1>4, <1>10 DEF Killed, PowerLoss, fileVars, TypeOK
    <2>3. main = "ok" => dir' = dir
      BY <1>4, <1>10 DEF FileInv, Killed, PowerLoss, fileVars
    <2> QED BY <1>1, <2>1, <2>2, <2>3 DEF Returned
  <1> QED BY <1>5, <1>6, <1>7, <1>8, <1>9, <1>10 DEF Next, Environment, Finished

\* An extraction is atomic for whoever looks at its output path, for every
\* device, call, and number of faults, kills and power losses: the image
\* appears there complete, success is of an image that is there, and an image
\* reported stays.
THEOREM ExtractionIsAtomic == Spec => ImplementsAtomicImage
  <1>1. Init => Atomic!Init
    BY DEF Init, Atomic!Init
  <1>2. IInv /\ IInv' /\ [Next]_vars => [Atomic!Next]_Atomic!vars
    BY StepIsAtomic
  <1> QED BY <1>1, <1>2, Invariant, PTL
          DEF Spec, ImplementsAtomicImage, Atomic!Spec
-----------------------------------------------------------------------------
(* Nothing is lost *)

\* The messages in flight by their positions: in the hands of the caller, in
\* the queue, in the hands of the reader.
LEMMA InFlightAt ==
  ASSUME TypeOK,
         NEW a, a = IF main = "write" THEN 1 ELSE 0,
         NEW b, b = IF reader \in {"send", "sendLast"} THEN 1 ELSE 0
  PROVE  /\ InFlight \in Seq(Message)
         /\ DOMAIN InFlight = 1..(a + Last + b) /\ Len(InFlight) = a + Last + b
         /\ a = 1 => InFlight[1] = held
         /\ \A i \in 1..Last : InFlight[a + i] = queue[i]
         /\ b = 1 => InFlight[a + Last + 1] = pending
  <1> DEFINE first == IF main = "write" THEN <<held>> ELSE << >>
             last == IF reader \in {"send", "sendLast"} THEN <<pending>> ELSE << >>
  <1>1. /\ queue \in Seq(Message) /\ held \in Message /\ pending \in Message
        /\ Last \in Nat /\ Len(queue) = Last
    BY Queued DEF TypeOK, Last
  <1>2. /\ first \in Seq(Message) /\ Len(first) = a
        /\ a = 1 => first[1] = held
    BY <1>1
  <1>3. /\ last \in Seq(Message) /\ Len(last) = b
        /\ b = 1 => last[1] = pending
    BY <1>1
  <1>4. a \in {0, 1} /\ b \in {0, 1} /\ InFlight = first \o queue \o last
    BY DEF InFlight
  <1> HIDE DEF first, last
  <1>5. /\ first \o queue \in Seq(Message)
        /\ Len(first \o queue) = a + Last
        /\ \A i \in 1..(a + Last) :
             (first \o queue)[i] = IF i <= a THEN first[i] ELSE queue[i - a]
    <2>1. /\ first \o queue \in Seq(Message)
          /\ Len(first \o queue) = Len(first) + Len(queue)
          /\ \A i \in 1..(Len(first) + Len(queue)) :
               (first \o queue)[i] = IF i <= Len(first) THEN first[i]
                                     ELSE queue[i - Len(first)]
      BY <1>1, <1>2, ConcatProperties
    <2>2. Len(first) = a /\ Len(queue) = Last
      BY <1>1, <1>2
    <2> QED BY <2>1, <2>2
  <1>6. /\ InFlight \in Seq(Message)
        /\ Len(InFlight) = a + Last + b
        /\ \A i \in 1..(a + Last + b) :
             InFlight[i] = IF i <= a + Last THEN (first \o queue)[i]
                                            ELSE last[i - (a + Last)]
    <2> DEFINE s == first \o queue
    <2>1. s \in Seq(Message) /\ Len(s) = a + Last /\ InFlight = s \o last
      BY <1>4, <1>5
    <2> HIDE DEF s
    <2>2. /\ s \o last \in Seq(Message)
          /\ Len(s \o last) = Len(s) + Len(last)
          /\ \A i \in 1..(Len(s) + Len(last)) :
               (s \o last)[i] = IF i <= Len(s) THEN s[i] ELSE last[i - Len(s)]
      BY <2>1, <1>3, ConcatProperties
    <2> QED BY <1>3, <2>1, <2>2 DEF s
  <1>7. DOMAIN InFlight = 1..(a + Last + b)
    BY <1>6, LenProperties
  <1>8. a = 1 => InFlight[1] = held
    BY <1>1, <1>2, <1>4, <1>5, <1>6
  <1>9. ASSUME NEW i \in 1..Last PROVE InFlight[a + i] = queue[i]
    <2> DEFINE k == a + i
    <2>1. /\ k \in 1..(a + Last) /\ k \in 1..(a + Last + b)
          /\ ~(k <= a) /\ k - a = i /\ k <= a + Last
      BY <1>1, <1>4
    <2> HIDE DEF k
    <2>2. InFlight[k] = queue[i]
      BY <1>5, <1>6, <2>1
    <2> QED BY <2>2 DEF k
  <1>10. ASSUME b = 1 PROVE InFlight[a + Last + 1] = pending
    <2> DEFINE k == a + Last + 1
    <2>1. k \in 1..(a + Last + b) /\ ~(k <= a + Last) /\ k - (a + Last) = 1
      BY <1>1, <1>4, <1>10
    <2> HIDE DEF k
    <2>2. InFlight[k] = pending
      BY <1>3, <1>6, <1>10, <2>1
    <2> QED BY <2>2 DEF k
  <1> QED BY <1>6, <1>7, <1>8, <1>9, <1>10

\* Between the threads no block is lost, repeated or reordered, for every
\* buffer size, depth of the channel and interleaving of the threads.
THEOREM NothingIsLost == Spec => []NothingLostInFlight
  <1>1. IInv => NothingLostInFlight
    <2> SUFFICES ASSUME IInv, ~Returned, reader # "panicked"
                 PROVE  NothingLostInFlight
      BY DEF NothingLostInFlight
    <2> DEFINE m == InFlight
               n == Len(m)
               end(i) == IF i = 0 THEN Len(file.written) ELSE m[i].to
               failed == m # << >> /\ m[Len(m)].kind = "failed"
               a == IF main = "write" THEN 1 ELSE 0
               b == IF reader \in {"send", "sendLast"} THEN 1 ELSE 0
    <2>1. /\ TypeOK /\ Last \in Nat /\ a \in {0, 1} /\ b \in {0, 1}
          /\ queue = << >> <=> Last = 0
      BY Queued DEF IInv
    <2>2. /\ m \in Seq(Message) /\ DOMAIN m = 1..n /\ n = a + Last + b
          /\ a = 1 => m[1] = held
          /\ \A i \in 1..Last : m[a + i] = queue[i]
          /\ b = 1 => m[a + Last + 1] = pending
      BY <2>1, InFlightAt
    <2>3. m = << >> <=> n = 0
      BY <2>2, EmptySeq
    <2>4. SUFFICES /\ file.written = SubSeq(taken, 1, Len(file.written))
                   /\ \A i \in 1..n : /\ m[i].kind # "failed" => m[i].from = end(i - 1)
                                      /\ m[i].kind # "data" => i = n
                   /\ end(IF failed THEN n - 1 ELSE n) = Len(taken)
      BY <2>2 DEF NothingLostInFlight
    <2>5. CASE main \in Ending
      <3>1. /\ reader = "ended" /\ Last = 0 /\ file.written = taken
            /\ a = 0 /\ b = 0
        BY <2>1, <2>5 DEF IInv, DrainedInv, Ending
      <3>2. SubSeq(taken, 1, Len(taken)) = taken
        BY <2>1, SubSeqFull DEF TypeOK
      <3>3. n = 0 /\ ~failed
        BY <2>2, <2>3, <3>1
      <3> HIDE DEF m, n, a, b, failed
      <3> QED BY <3>1, <3>2, <3>3
    <2>6. CASE main \in Early \cup Receiving
      <3>1. WrittenInv /\ QueueInv /\ ReaderInv
        BY <2>6 DEF IInv, FlightInv
      <3>2. Start = end(a)
        BY <2>2 DEF Start
      <3>3. \A i \in 0..Last : End(i) = end(a + i)
        <4> SUFFICES ASSUME NEW i \in 0..Last PROVE End(i) = end(a + i)
          OBVIOUS
        <4>1. CASE i = 0
          <5>1. a + i = a
            BY <2>1, <4>1
          <5> HIDE DEF m, a
          <5> QED BY <3>2, <4>1, <5>1 DEF End
        <4>2. CASE i # 0
          <5>1. i \in 1..Last /\ a + i # 0
            BY <2>1, <4>2
          <5> HIDE DEF m, a
          <5> QED BY <2>2, <4>2, <5>1 DEF End
        <4> QED BY <4>1, <4>2
      <3>4. a = 1 => /\ held.kind = "data" /\ held.from = end(0)
        BY <3>1 DEF WrittenInv, Follows
      <3>5. b = 1 => /\ pending.kind # "failed" => pending.from = End(Last)
                     /\ IF pending.kind = "failed" THEN End(Last) = Len(taken)
                        ELSE pending.to = Len(taken)
        BY <3>1 DEF ReaderInv, Follows
      <3>6. \A i \in 1..Last :
              /\ queue[i].kind # "failed" => queue[i].from = End(i - 1)
              /\ queue[i].kind # "data" => i = Last /\ b = 0
        BY <3>1 DEF QueueInv, Follows
      <3>7. b = 0 =>
              IF Last # 0 /\ queue[Last].kind # "data"
              THEN IF queue[Last].kind = "failed"
                   THEN End(Last - 1) = Len(taken)
                   ELSE End(Last) = Len(taken)
              ELSE End(Last) = Len(taken)
        <4>1. CASE reader \in {"unborn", "open", "read"}
          <5>1. \A i \in 1..Last : queue[i].kind = "data"
            BY <3>1, <4>1 DEF QueueInv
          <5>2. Last # 0 => Last \in 1..Last
            BY <2>1
          <5> QED BY <3>1, <4>1, <5>1, <5>2 DEF ReaderInv
        <4>2. CASE reader = "ended"
          <5>1. StreamEnded /\ Last # 0
            BY <2>1, <3>1, <4>2 DEF ReaderInv, StreamEnded
          <5>2. IF queue[Last].kind = "failed" THEN End(Last - 1) = Len(taken)
                                               ELSE queue[Last].to = Len(taken)
            BY <3>1, <4>2 DEF ReaderInv
          <5> QED BY <5>1, <5>2 DEF StreamEnded, End
        <4> QED BY <2>1, <4>1, <4>2 DEF TypeOK
      <3>8. file.written = SubSeq(taken, 1, Len(file.written))
        BY <3>1 DEF WrittenInv
      <3>9. ASSUME NEW i \in 1..n
            PROVE  /\ m[i].kind # "failed" => m[i].from = end(i - 1)
                   /\ m[i].kind # "data" => i = n
        <4>1. CASE a = 1 /\ i = 1
          <5>1. i - 1 = 0 /\ m[i] = held /\ held.from = end(0) /\ held.kind = "data"
            BY <2>2, <3>4, <4>1
          <5> QED BY <5>1
        <4>2. CASE a < i /\ i <= a + Last
          <5> DEFINE k == i - a
          <5>1. k \in 1..Last /\ a + k = i /\ k - 1 \in 0..Last /\ a + (k - 1) = i - 1
                /\ (b = 0 /\ k = Last => i = n)
            BY <2>1, <2>2, <4>2
          <5> HIDE DEF k, m, n, a, b
          <5>2. m[i] = queue[k] /\ End(k - 1) = end(i - 1)
            BY <2>2, <3>3, <5>1
          <5> QED BY <3>6, <5>1, <5>2
        <4>3. CASE a + Last < i
          <5>1. b = 1 /\ i = a + Last + 1 /\ i = n /\ i - 1 = a + Last /\ Last \in 0..Last
            BY <2>1, <2>2, <4>3
          <5> HIDE DEF m, n, a, b
          <5>2. m[i] = pending /\ End(Last) = end(i - 1)
            BY <2>2, <3>3, <5>1
          <5> QED BY <3>5, <5>1, <5>2
        <4>4. (a = 1 /\ i = 1) \/ (a < i /\ i <= a + Last) \/ a + Last < i
          BY <2>1, <2>2
        <4> QED BY <4>1, <4>2, <4>3, <4>4
      <3>10. end(IF failed THEN n - 1 ELSE n) = Len(taken)
        <4>1. CASE b = 1
          <5>1. /\ n = a + Last + 1 /\ n - 1 = a + Last /\ n # 0 /\ Last \in 0..Last
            BY <2>1, <2>2, <4>1
          <5> HIDE DEF m, n, a, b
          <5>2. /\ m[n] = pending /\ failed = (pending.kind = "failed")
                /\ End(Last) = end(n - 1)
            BY <2>2, <2>3, <3>3, <4>1, <5>1 DEF n
          <5> QED BY <3>5, <4>1, <5>1, <5>2
        <4>2. CASE b = 0 /\ Last # 0
          <5>1. /\ n = a + Last /\ n - 1 = a + (Last - 1) /\ n # 0
                /\ Last \in 1..Last /\ Last \in 0..Last /\ Last - 1 \in 0..Last
            BY <2>1, <2>2, <4>2
          <5> HIDE DEF m, n, a, b
          <5>2. /\ m[n] = queue[Last] /\ failed = (queue[Last].kind = "failed")
                /\ End(Last) = end(n) /\ End(Last - 1) = end(n - 1)
            BY <2>2, <2>3, <3>3, <5>1 DEF n
          <5> QED BY <3>7, <4>2, <5>2
        <4>3. CASE b = 0 /\ Last = 0
          <5>1. n = a /\ End(Last) = end(n)
            BY <2>1, <2>2, <3>2, <4>3 DEF End
          <5>2. ~failed
            BY <2>1, <2>2, <2>3, <3>4, <5>1
          <5> HIDE DEF m, n, a, b, failed
          <5> QED BY <3>7, <4>3, <5>1, <5>2
        <4> QED BY <2>1, <4>1, <4>2, <4>3
      <3> QED BY <3>8, <3>9, <3>10
    <2>7. main \in Early \cup Receiving \cup Ending
      BY <2>1 DEF TypeOK, Returned, Early, Receiving, Ending
    <2> QED BY <2>5, <2>6, <2>7
  <1> QED BY <1>1, Invariant, PTL
=============================================================================
