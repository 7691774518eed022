----------------------------- MODULE Dao_proofs -----------------------------
(***************************************************************************)
(* Theorems about Dao, for every TOC, ring size, buffer size and size of   *)
(* the WRITE commands.                                                     *)
(*                                                                         *)
(* Part 1: types, and what the two threads may read and write of the ring. *)
(* Part 2: what passes through the ring.  The recorder gets the image of   *)
(* the TOC, and the writer announces its tracks.  What depends on the      *)
(* order of the reader's stores assumes Ordered; it is false without       *)
(* (dao_thread with Ordered = FALSE shows it).  What holds in any order:   *)
(* only the newest buffer may be counted before it is there.               *)
(* Part 3: what writeDiskAtOnce() promises its caller.  The ring is full   *)
(* when the lead-in starts, its memory is not released under a running     *)
(* reader thread, success means a complete disc, and every step of reader  *)
(* and writer is one of BurnSession or changes nothing the caller sees.    *)
(***************************************************************************)
EXTENDS Dao, TLAPS

-----------------------------------------------------------------------------
(* Facts about the constants.                                              *)

LEMMA ConstantTypes ==
    /\ NofBuffers \in Nat \ {0}
    /\ TocLength \in Nat
    /\ SessionStart \in Int /\ EncodedStart \in Int
    /\ FirstNumber \in Nat \ {0}
    /\ Tracks \subseteq Nat
    /\ \A t \in Tracks : /\ TrackStart[t] \in Nat /\ TrackStart[t + 1] \in Nat
                         /\ TrackStart[t] < TrackStart[t + 1]
                         /\ TrackStart[t + 1] <= TocLength
                         /\ TrackStart[t + 1] = TocLength => t = NTracks
                         /\ WriteMode(t) \in ModeType
                         /\ SubChanType[t] \in SubType
<1>1. NofBuffers \in Nat \ {0}
  BY BufferAssumption DEF NofBuffers
<1>2. SessionStart \in Int /\ EncodedStart \in Int /\ FirstNumber \in Nat \ {0}
  BY SessionAssumption DEF SessionStart, EncodedStart, FirstNumber
<1>3. NTracks + 1 \in 1 .. NTracks + 1 /\ TocLength \in Nat
  BY TocAssumption DEF TocLength
<1>4. ASSUME NEW t \in Tracks
      PROVE  /\ TrackStart[t] \in Nat /\ TrackStart[t + 1] \in Nat
             /\ TrackStart[t] < TrackStart[t + 1]
             /\ TrackStart[t + 1] <= TocLength
             /\ TrackStart[t + 1] = TocLength => t = NTracks
  <2>1. t \in 1 .. NTracks + 1 /\ t + 1 \in 1 .. NTracks + 1 /\ t < t + 1
    BY TocAssumption DEF Tracks
  <2>2. TrackStart[t] \in Nat /\ TrackStart[t + 1] \in Nat /\ TrackStart[t] < TrackStart[t + 1]
    BY <2>1, TocAssumption
  <2>3. t + 1 = NTracks + 1 \/ t + 1 < NTracks + 1
    BY <2>1, TocAssumption
  <2>4. t + 1 < NTracks + 1 => TrackStart[t + 1] < TocLength
    BY <1>3, <2>1, TocAssumption DEF TocLength
  <2> QED
    BY <1>3, <2>1, <2>2, <2>3, <2>4, TocAssumption DEF TocLength
<1>5. \A t \in Tracks : WriteMode(t) \in ModeType /\ SubChanType[t] \in SubType
  BY DEF ModeType, SubType
<1> QED
  BY <1>1, <1>2, <1>3, <1>4, <1>5 DEF Tracks

LEMMA Division ==
    ASSUME NEW i \in Nat, NEW n \in Nat \ {0}
    PROVE  \E q \in Nat : i = n * q + (i % n) /\ i % n \in 0 .. n - 1
<1>1. i % n \in 0 .. n - 1
  OBVIOUS
<1>2. i = n * (i \div n) + (i % n)
  OBVIOUS
<1>3. i \div n \in Nat
  OBVIOUS
<1> QED
  BY <1>1, <1>2, <1>3

\* Two buffer numbers less than a ring apart lie in different slots.
LEMMA SlotsDiffer ==
    ASSUME NEW i \in Nat, NEW j \in Nat, NEW n \in Nat \ {0}, i < j, j - i < n
    PROVE  i % n # j % n
<1> SUFFICES ASSUME i % n = j % n PROVE FALSE
  OBVIOUS
<1>1. PICK p \in Nat : i = n * p + (i % n) /\ i % n \in 0 .. n - 1
  BY Division
<1>2. PICK q \in Nat : j = n * q + (j % n) /\ j % n \in 0 .. n - 1
  BY Division
<1>3. j - i = n * (q - p) /\ q - p \in Int
  BY <1>1, <1>2
<1>4. ASSUME NEW d \in Int, n * d > 0, n * d < n
      PROVE  FALSE
  <2>1. CASE d <= 0
    <3>1. n * d <= 0
      BY <2>1
    <3> QED
      BY <1>4, <3>1
  <2>2. CASE d >= 1
    <3>1. n * d >= n
      BY <2>2
    <3> QED
      BY <1>4, <3>1
  <2> QED
    BY <2>1, <2>2
<1> QED
  BY <1>3, <1>4

-----------------------------------------------------------------------------
(* Types, with what they rest on: the reader's position in the TOC and the *)
(* writer's position in its buffer.                                        *)

Position == TrackStart[rTrack] + rTact

ReaderPositionInv ==
    /\ rTact <= TrackStart[rTrack + 1] - TrackStart[rTrack]
    /\ IF rpc = "publish"
       THEN put.n >= 1 /\ put.n <= rLeft /\ rLeft - put.n = TocLength - Position
       ELSE rLeft = TocLength - Position
    /\ rpc \in {"open", "read"} => rLeft > 0

WriterPositionInv ==
    /\ wpc = "write" => wPos < wBuf.bufLen
    /\ ret # 0 => wpc \in {"switch", "cleanup", "join", "release", "returned"}

TypeInv == TypeOK /\ ReaderPositionInv /\ WriterPositionInv

LEMMA TypeInit == Init => TypeInv
<1> SUFFICES ASSUME Init PROVE TypeInv
  OBVIOUS
<1> USE ConstantTypes
<1>1. ZeroFields \in FieldsType
  BY BufferAssumption DEF ZeroFields, Fields, FieldsType, ModeType, SubType
<1>2. FreshBuffer \in [data : [0 .. BufferSize - 1 -> BlockType], fields : FieldsType]
  BY <1>1 DEF FreshBuffer, Block, BlockType, NoBlock
<1>3. NothingPut \in [first : Nat, n : 0 .. BufferSize, msf : Int, fields : FieldsType]
  BY <1>1, BufferAssumption DEF NothingPut
<1>4. 1 \in Tracks /\ TrackStart[1] = 0 /\ TocLength > 0
  BY TocAssumption DEF Tracks, TocLength
<1>5. HeaderTypeOK /\ BuffersTypeOK
  BY <1>2 DEF Init, HeaderTypeOK, BuffersTypeOK, FlagType
<1>6. ReaderTypeOK
  BY <1>3, <1>4 DEF Init, ReaderTypeOK, FlagType
<1>7. WriterTypeOK /\ ProcessTypeOK
  BY <1>1, BufferAssumption DEF Init, WriterTypeOK, ProcessTypeOK, FlagType
<1>8. disc \in DiscType
  BY DEF Init, DiscType
<1>9. ReaderPositionInv /\ WriterPositionInv
  BY <1>4 DEF Init, ReaderPositionInv, Position, WriterPositionInv
<1> QED
  BY <1>5, <1>6, <1>7, <1>8, <1>9 DEF TypeInv, TypeOK

-----------------------------------------------------------------------------
(* What the two sides leave alone.                                         *)

LEMMA ReaderFrame == ReaderNext => ReaderUnchanged
BY DEF ReaderNext, OpenFirstTrack, NextTrack, ReadBuffer, ReadFails, StoreArrives, Publish, SetFilled,
       RingHasRoom, ReadOnOrFinish, SetFinished, MarkEnd, PublishEnd, ReturnFromReader, ReaderFails,
       FailedReaderExits

Environment == TerminationRequest \/ OtherChildDies

LEMMA WriterFrame ==
    WriterNext \/ Environment => UNCHANGED <<buffers, rpc, readerVars, pending, buffersRead>>
<1> USE DEF WriterUnchanged, headerVars, readerVars
<1>1. GetSharedMemory \/ InitDao \/ StartReader \/ TestFilled \/ StartDao \/ TestEmpty
        => UNCHANGED <<buffers, rpc, readerVars, pending, buffersRead>>
  BY DEF GetSharedMemory, InitDao, StartReader, TestFilled, StartDao, TestEmpty
<1>2. PollWhileFilling \/ PollWhileEmpty \/ TakeBuffer \/ WriteBlocks \/ SkipBlocks \/ ReleaseBuffer
        => UNCHANGED <<buffers, rpc, readerVars, pending, buffersRead>>
  BY DEF PollWhileFilling, PollWhileEmpty, PollReader, TakeBuffer, WriteBlocks, SkipBlocks, ReleaseBuffer
<1>3. FinishDao \/ SwitchOnResult \/ StopThread \/ KillProcess \/ JoinReader \/ ReleaseSharedMemory \/ Environment
        => UNCHANGED <<buffers, rpc, readerVars, pending, buffersRead>>
  BY DEF FinishDao, SwitchOnResult, StopThread, KillProcess, Kill, JoinReader, ReleaseSharedMemory,
         Environment, TerminationRequest, OtherChildDies
<1> QED
  BY <1>1, <1>2, <1>3 DEF WriterNext

-----------------------------------------------------------------------------
(* Updates of the records keep their types.                                *)

SlotType == [data : [0 .. BufferSize - 1 -> BlockType], fields : FieldsType]
PutType == [first : Nat, n : 0 .. BufferSize, msf : Int, fields : FieldsType]

LEMMA SlotUpdates ==
    ASSUME NEW b \in SlotType, put \in PutType
    PROVE  /\ [b EXCEPT !.fields = put.fields] \in SlotType
           /\ [b EXCEPT !.data = NewData(b.data)] \in SlotType
<1>1. [b EXCEPT !.fields = put.fields] \in SlotType
  BY DEF SlotType, PutType
<1>2. \A i \in 0 .. BufferSize - 1 : Block(put.first + i, put.msf + i) \in BlockType
  BY BufferAssumption DEF Block, BlockType, PutType
<1>3. \A d \in [0 .. BufferSize - 1 -> BlockType] : [b EXCEPT !.data = d] \in SlotType
  BY DEF SlotType
<1>4. NewData(b.data) \in [0 .. BufferSize - 1 -> BlockType]
  BY <1>2 DEF SlotType, NewData
<1> QED
  BY <1>1, <1>3, <1>4

LEMMA Concatenation ==
    ASSUME NEW S, NEW s \in Seq(S), NEW t \in Seq(S)
    PROVE  s \o t \in Seq(S)
OBVIOUS

LEMMA EndMarkerType ==
    ASSUME NEW f \in FieldsType, NEW p \in PutType
    PROVE  [p EXCEPT !.n = 0, !.fields = [f EXCEPT !.bufLen = 0, !.trackNr = 0]] \in PutType
<1>1. 0 \in 0 .. BufferSize
  BY BufferAssumption
<1>2. [f EXCEPT !.bufLen = 0, !.trackNr = 0] \in FieldsType
  BY <1>1 DEF FieldsType
<1> QED
  BY <1>1, <1>2 DEF PutType

-----------------------------------------------------------------------------
(* Every step keeps the types.                                             *)

LEMMA ReaderKeepsTypes == TypeInv /\ ReaderNext => TypeInv'
<1> SUFFICES ASSUME TypeInv, ReaderNext PROVE TypeInv'
  OBVIOUS
<1> USE ConstantTypes DEF headerVars, readerVars
<1>1. HeaderTypeOK /\ BuffersTypeOK /\ ReaderTypeOK /\ ReaderPositionInv
  BY DEF TypeInv, TypeOK
<1>2. WriterTypeOK' /\ WriterPositionInv' /\ (disc \in DiscType)'
  BY ReaderFrame DEF TypeInv, TypeOK, ReaderUnchanged, WriterTypeOK, WriterPositionInv,
                     writerVars, resultVars, driveVars
<1>3. ProcessTypeOK'
  <2>1. reader' = reader \/ reader' = "exited"
    BY DEF ReaderNext, OpenFirstTrack, NextTrack, ReadBuffer, ReadFails, StoreArrives, Publish, SetFilled,
           RingHasRoom, ReadOnOrFinish, SetFinished, MarkEnd, PublishEnd, ReturnFromReader, ReaderFails,
           FailedReaderExits
  <2> QED
    BY <2>1, ReaderFrame DEF TypeInv, TypeOK, ReaderUnchanged, ProcessTypeOK, driveVars
<1>4. HeaderTypeOK'
  BY <1>1 DEF HeaderTypeOK, FlagType,
           ReaderNext, OpenFirstTrack, NextTrack, ReadBuffer, ReadFails, StoreArrives, Publish, SetFilled,
           RingHasRoom, ReadOnOrFinish, SetFinished, MarkEnd, PublishEnd, ReturnFromReader, ReaderFails,
           FailedReaderExits
<1>5. BuffersTypeOK'
  <2>1. CASE StoreArrives
    <3>1. PICK part \in pending :
            buffers' = IF part = "fields" THEN [buffers EXCEPT ![StoreSlot].fields = put.fields]
                       ELSE [buffers EXCEPT ![StoreSlot].data = NewData(@)]
      BY <2>1 DEF StoreArrives
    <3>2. put \in PutType /\ \A k \in 0 .. NofBuffers - 1 : buffers[k] \in SlotType
      BY <1>1 DEF ReaderTypeOK, BuffersTypeOK, PutType, SlotType
    <3>3. ASSUME NEW k \in 0 .. NofBuffers - 1
          PROVE  buffers'[k] \in SlotType
      <4>1. k # StoreSlot => buffers'[k] = buffers[k]
        BY <1>1, <3>1 DEF BuffersTypeOK
      <4>2. k = StoreSlot /\ part = "fields" => buffers'[k] = [buffers[k] EXCEPT !.fields = put.fields]
        BY <1>1, <3>1 DEF BuffersTypeOK
      <4>3. k = StoreSlot /\ part # "fields" =>
              buffers'[k] = [buffers[k] EXCEPT !.data = NewData(buffers[k].data)]
        BY <1>1, <3>1 DEF BuffersTypeOK
      <4> QED
        BY <3>2, <4>1, <4>2, <4>3, SlotUpdates
    <3>4. buffers' \in [0 .. NofBuffers - 1 -> SlotType]
      BY <1>1, <3>1, <3>3 DEF BuffersTypeOK
    <3> QED
      BY <3>4 DEF BuffersTypeOK, SlotType
  <2>2. CASE ~StoreArrives
    BY <1>1, <2>2 DEF BuffersTypeOK,
           ReaderNext, OpenFirstTrack, NextTrack, ReadBuffer, ReadFails, Publish, SetFilled,
           RingHasRoom, ReadOnOrFinish, SetFinished, MarkEnd, PublishEnd, ReturnFromReader, ReaderFails,
           FailedReaderExits
  <2> QED
    BY <2>1, <2>2
<1>6. ReaderTypeOK' /\ ReaderPositionInv'
  <2> USE <1>1 DEF ReaderTypeOK, ReaderPositionInv, Position
  <2>1. CASE NextTrack
    <3>1. TrackStart[rTrack + 1] < TocLength
      BY <2>1 DEF NextTrack, TrackLeft
    <3>2. rTrack + 1 \in Tracks
      BY <3>1, TocAssumption DEF Tracks, TocLength
    <3> QED
      BY <2>1, <3>2 DEF NextTrack, TrackLeft, FlagType
  <2>2. CASE ReadBuffer
    <3> DEFINE n == SmallerOf(SmallerOf(rLeft, BufferSize), TrackLeft)
    <3>1. n \in 1 .. BufferSize /\ n <= rLeft /\ n <= TrackLeft /\ TrackLeft \in Nat
      BY <2>2, BufferAssumption DEF ReadBuffer, SmallerOf, TrackLeft
    <3>2. /\ put' = [first |-> Position, n |-> n, msf |-> rLba,
                     fields |-> Fields(n, WriteMode(rTrack), SubChanType[rTrack], StartedTrack)]
          /\ rLba' = rLba + n /\ rTact' = rTact + n
          /\ pending' = {"data", "fields"} /\ rpc' = "publish"
          /\ UNCHANGED <<rTrack, rLeft, rFirst, rNewTrack>>
          /\ rpc = "read"
      BY <2>2 DEF ReadBuffer
    <3>3. StartedTrack \in Nat
      BY DEF StartedTrack, Tracks
    <3> HIDE DEF n
    <3>4. Fields(n, WriteMode(rTrack), SubChanType[rTrack], StartedTrack) \in FieldsType
      BY <3>1, <3>3 DEF Fields, FieldsType
    <3>5. Position \in Nat
      OBVIOUS
    <3>6. put' \in [first : Nat, n : 0 .. BufferSize, msf : Int, fields : FieldsType]
      BY <3>1, <3>2, <3>4, <3>5
    <3>7. ReaderTypeOK'
      BY <3>1, <3>2, <3>6
    <3>8. ReaderPositionInv'
      BY <3>1, <3>2 DEF TrackLeft
    <3> QED
      BY <3>7, <3>8
  <2>3. CASE MarkEnd
    <3>1. ReadSlot \in 0 .. NofBuffers - 1
      BY <1>1 DEF ReadSlot, HeaderTypeOK
    <3>2. buffers[ReadSlot].fields \in FieldsType
      BY <1>1, <3>1 DEF BuffersTypeOK
    <3>3. CASE EndMarkerNeeded
      <4>1. put' \in PutType
        BY <2>3, <3>2, <3>3, EndMarkerType DEF MarkEnd, PutType
      <4> QED
        BY <2>3, <3>3, <4>1 DEF MarkEnd, PutType
    <3>4. CASE ~EndMarkerNeeded
      BY <2>3, <3>4 DEF MarkEnd
    <3> QED
      BY <3>3, <3>4
  <2>4. CASE OpenFirstTrack \/ ReadFails \/ StoreArrives
    BY <2>4 DEF OpenFirstTrack, ReadFails, StoreArrives
  <2>5. CASE Publish
    BY <2>5 DEF Publish, LessFirst
  <2>6. CASE SetFilled \/ RingHasRoom \/ ReadOnOrFinish \/ SetFinished \/ PublishEnd
    BY <2>6 DEF SetFilled, RingHasRoom, ReadOnOrFinish, ReadOn, SetFinished, PublishEnd, FlagType
  <2>7. CASE ReturnFromReader \/ ReaderFails \/ FailedReaderExits
    BY <2>7 DEF ReturnFromReader, ReaderFails, FailedReaderExits
  <2> QED
    BY <2>1, <2>2, <2>3, <2>4, <2>5, <2>6, <2>7 DEF ReaderNext
<1> QED
  BY <1>2, <1>3, <1>4, <1>5, <1>6 DEF TypeInv, TypeOK

LEMMA WriterKeepsTypes == TypeInv /\ (WriterNext \/ Environment) => TypeInv'
<1> SUFFICES ASSUME TypeInv, WriterNext \/ Environment PROVE TypeInv'
  OBVIOUS
<1> USE ConstantTypes DEF headerVars, writerVars, resultVars, driveVars
<1>1. HeaderTypeOK /\ BuffersTypeOK /\ WriterTypeOK /\ WriterPositionInv /\ ProcessTypeOK
        /\ disc \in DiscType
  BY DEF TypeInv, TypeOK
<1>2. ReaderTypeOK' /\ ReaderPositionInv' /\ BuffersTypeOK'
  BY WriterFrame DEF TypeInv, TypeOK, ReaderTypeOK, ReaderPositionInv, Position, BuffersTypeOK, readerVars
<1>3. HeaderTypeOK'
  <2>1. UNCHANGED headerVars \/ ReleaseBuffer \/ StopThread
    BY DEF WriterNext, Environment, GetSharedMemory, InitDao, StartReader, TestFilled, StartDao, TestEmpty,
       PollWhileFilling, PollWhileEmpty, PollReader, TakeBuffer, WriteBlocks, SkipBlocks,
       FinishDao, SwitchOnResult, KillProcess, JoinReader, ReleaseSharedMemory, TerminationRequest, OtherChildDies
  <2>2. CASE ReleaseBuffer
    BY <1>1, <2>2 DEF ReleaseBuffer, HeaderTypeOK
  <2>3. CASE StopThread
    BY <1>1, <2>3 DEF StopThread, HeaderTypeOK, FlagType
  <2> QED
    BY <1>1, <2>1, <2>2, <2>3 DEF HeaderTypeOK
<1>4. WriterTypeOK' /\ WriterPositionInv' /\ disc' \in DiscType
  <2> USE <1>1 DEF WriterTypeOK, WriterPositionInv
  <2>1. CASE GetSharedMemory \/ InitDao \/ StartReader
    BY <2>1 DEF GetSharedMemory, InitDao, StartReader, FlagType
  <2>2. CASE TestFilled \/ StartDao \/ TestEmpty
    BY <2>2 DEF TestFilled, StartDao, TestEmpty, WriterReturns
  <2>3. CASE PollWhileFilling \/ PollWhileEmpty
    BY <2>3 DEF PollWhileFilling, PollWhileEmpty, PollReader, WriterReturns
  <2>4. CASE TakeBuffer
    <3>1. WriteSlot \in 0 .. NofBuffers - 1
      BY DEF WriteSlot, HeaderTypeOK
    <3>2. buffers[WriteSlot].fields \in FieldsType
      BY <3>1 DEF BuffersTypeOK
    <3>3. wBuf'.bufLen \in 0 .. BufferSize /\ wBuf'.trackNr \in Nat
      BY <2>4, <3>2 DEF TakeBuffer, FieldsType
    <3>4. wPos' \in 0 .. BufferSize /\ blkCount' \in Nat /\ actTrackNr' \in Nat
      BY <2>4, <3>3, BufferAssumption DEF TakeBuffer
    <3>5. wBuf' \in FieldsType
      BY <2>4, <3>2 DEF TakeBuffer
    <3> QED
      BY <2>4, <3>3, <3>4, <3>5, BufferAssumption DEF TakeBuffer
  <2>5. CASE WriteBlocks
    <3>1. CASE WriterReturns(2) /\ UNCHANGED <<disc, wLba, wPos>>
      BY <2>5, <3>1 DEF WriteBlocks, WriterReturns
    <3>2. CASE ~(WriterReturns(2) /\ UNCHANGED <<disc, wLba, wPos>>)
      <4> DEFINE n == SmallerOf(BlocksPerWrite, wBuf.bufLen - wPos)
                 new == [j \in 1 .. n |-> Written(wLba + j - 1, wPos + j - 1)]
                 EntryType == [lba : Int, block : BlockType, mode : ModeType, sub : SubType]
      <4>1. wBuf.bufLen \in 0 .. BufferSize /\ wBuf.mode \in ModeType /\ wBuf.sub \in SubType
        BY DEF FieldsType
      <4>2. n \in 1 .. BufferSize /\ wPos + n <= wBuf.bufLen
        BY <2>5, <4>1, BufferAssumption DEF WriteBlocks, SmallerOf
      <4>3. /\ disc' = disc \o new /\ wLba' = wLba + n /\ wPos' = wPos + n
            /\ wpc' = IF wPos' = wBuf.bufLen THEN "advance" ELSE "write"
            /\ UNCHANGED <<ret, wBuf, actTrackNr, blkCount, err, started>>
        BY <2>5, <3>2 DEF WriteBlocks
      <4> HIDE DEF n
      <4>4. WriteSlot \in 0 .. NofBuffers - 1
        BY DEF WriteSlot, HeaderTypeOK
      <4>5. \A i \in 0 .. BufferSize - 1 : buffers[WriteSlot].data[i] \in BlockType
        BY <4>4 DEF BuffersTypeOK
      <4>6. \A j \in 1 .. n : Written(wLba + j - 1, wPos + j - 1) \in EntryType
        <5> SUFFICES ASSUME NEW j \in 1 .. n
                     PROVE  Written(wLba + j - 1, wPos + j - 1) \in EntryType
          OBVIOUS
        <5>1. wPos + j - 1 \in 0 .. BufferSize - 1 /\ wLba + j - 1 \in Int
          BY <4>1, <4>2, BufferAssumption
        <5> QED
          BY <4>1, <4>5, <5>1 DEF Written
      <4>7. new \in Seq(EntryType)
        BY <4>2, <4>6
      <4>8. disc' \in DiscType
        BY <4>3, <4>7, Concatenation DEF DiscType
      <4>9. wPos' \in 0 .. BufferSize /\ wLba' \in Int
        BY <4>1, <4>2, <4>3, BufferAssumption
      <4>10. wpc' = "write" => wPos' < wBuf.bufLen
        BY <4>1, <4>2, <4>3
      <4> QED
        BY <2>5, <4>3, <4>8, <4>9, <4>10 DEF WriteBlocks
    <3> QED
      BY <3>1, <3>2
  <2>6. CASE SkipBlocks \/ ReleaseBuffer \/ FinishDao
    BY <2>6 DEF SkipBlocks, ReleaseBuffer, FinishDao, WriterReturns
  <2>7. CASE SwitchOnResult \/ StopThread \/ KillProcess
    BY <2>7 DEF SwitchOnResult, StopThread, KillProcess, Kill, AfterStop, FlagType
  <2>8. CASE JoinReader \/ ReleaseSharedMemory \/ Environment
    BY <2>8 DEF JoinReader, ReleaseSharedMemory, Environment, TerminationRequest, OtherChildDies
  <2> QED
    BY <2>1, <2>2, <2>3, <2>4, <2>5, <2>6, <2>7, <2>8 DEF WriterNext
<1>5. ProcessTypeOK'
  <2> USE <1>1 DEF ProcessTypeOK, WriterUnchanged
  <2>1. CASE GetSharedMemory \/ InitDao \/ StartReader
    BY <2>1 DEF GetSharedMemory, InitDao, StartReader
  <2>2. CASE TestFilled \/ StartDao \/ TestEmpty
    BY <2>2 DEF TestFilled, StartDao, TestEmpty
  <2>3. CASE PollWhileFilling \/ PollWhileEmpty
    BY <2>3 DEF PollWhileFilling, PollWhileEmpty, PollReader
  <2>4. CASE TakeBuffer \/ WriteBlocks \/ SkipBlocks \/ ReleaseBuffer
    BY <2>4 DEF TakeBuffer, WriteBlocks, SkipBlocks, ReleaseBuffer
  <2>5. CASE FinishDao \/ SwitchOnResult \/ StopThread \/ KillProcess
    BY <2>5 DEF FinishDao, SwitchOnResult, StopThread, KillProcess, Kill
  <2>6. CASE JoinReader \/ ReleaseSharedMemory \/ Environment
    BY <2>6 DEF JoinReader, ReleaseSharedMemory, Environment, TerminationRequest, OtherChildDies, FlagType
  <2> QED
    BY <2>1, <2>2, <2>3, <2>4, <2>5, <2>6 DEF WriterNext
<1> QED
  BY <1>2, <1>3, <1>4, <1>5 DEF TypeInv, TypeOK

LEMMA TypeStep == TypeInv /\ [Next]_vars => TypeInv'
<1> SUFFICES ASSUME TypeInv, [Next]_vars PROVE TypeInv'
  OBVIOUS
<1>1. CASE UNCHANGED vars
  BY <1>1 DEF TypeInv, TypeOK, HeaderTypeOK, BuffersTypeOK, ReaderTypeOK, WriterTypeOK, ProcessTypeOK,
       ReaderPositionInv, Position, WriterPositionInv, vars, headerVars, readerVars, writerVars,
       resultVars, driveVars
<1> QED
  BY <1>1, ReaderKeepsTypes, WriterKeepsTypes DEF Next, Returned, Environment

\* The variables of reader, writer, ring and recorder keep their types: in
\* particular the reader never runs past the last track of the TOC, where
\* the code's track iterator returns NULL, and `first' never gets negative.
THEOREM TypeCorrect == Spec => []TypeOK
<1>1. TypeInv => TypeOK
  BY DEF TypeInv
<1> QED
  BY <1>1, TypeInit, TypeStep, PTL DEF Spec

-----------------------------------------------------------------------------
(* The ring.  RingIsSafe alone is not inductive: the reader's check for    *)
(* room is steps away from the store it protects, and so is the writer's   *)
(* check for a buffer from its use.                                        *)

RingInv ==
    /\ Buffered \in 0 .. NofBuffers
    /\ WriterHoldsBuffer => Buffered >= 1
    /\ rpc \in {"open", "read", "publish", "publishEnd"} => Buffered < NofBuffers
    /\ rpc \in {"again", "finish", "mark"} /\ terminateReader = 0 => Buffered < NofBuffers

LEMMA RingInit == Init => RingInv
BY ConstantTypes DEF Init, RingInv, Buffered, WriterHoldsBuffer

LEMMA RingStep == TypeInv /\ RingInv /\ [Next]_vars => RingInv'
<1> SUFFICES ASSUME TypeInv, RingInv, [Next]_vars PROVE RingInv'
  OBVIOUS
<1> USE DEF headerVars, RingInv, Buffered, WriterHoldsBuffer
<1>1. /\ NofBuffers \in Nat /\ buffersRead \in Nat /\ buffersWritten \in Nat
      /\ terminateReader \in {0, 1}
  BY ConstantTypes DEF TypeInv, TypeOK, HeaderTypeOK, FlagType
<1>2. CASE ReaderNext
  <2>1. wpc' = wpc
    BY <1>2, ReaderFrame DEF ReaderUnchanged
  <2> USE <1>1, <2>1
  <2>2. CASE Publish \/ PublishEnd
    BY <2>2 DEF Publish, PublishEnd, FirstFill
  <2>3. CASE RingHasRoom \/ ReadOnOrFinish
    BY <2>3 DEF RingHasRoom, Full, ReadOnOrFinish, ReadOn
  <2>4. CASE OpenFirstTrack \/ NextTrack \/ ReadBuffer \/ ReadFails \/ StoreArrives \/ SetFilled
    BY <2>4 DEF OpenFirstTrack, NextTrack, ReadBuffer, ReadFails, StoreArrives, SetFilled
  <2>5. CASE SetFinished \/ MarkEnd \/ ReturnFromReader \/ ReaderFails \/ FailedReaderExits
    BY <2>5 DEF SetFinished, MarkEnd, EndMarkerNeeded, ReturnFromReader, ReaderFails, FailedReaderExits
  <2> QED
    BY <1>2, <2>2, <2>3, <2>4, <2>5 DEF ReaderNext
<1>3. CASE WriterNext \/ Environment
  <2>1. rpc' = rpc /\ buffersRead' = buffersRead
    BY <1>3, WriterFrame
  <2> USE <1>1, <2>1
  <2>2. CASE ReleaseBuffer
    BY <2>2 DEF ReleaseBuffer, WriterReturns
  <2>3. CASE StopThread
    BY <2>3 DEF StopThread, AfterStop
  <2>4. CASE GetSharedMemory \/ InitDao \/ StartReader \/ TestFilled \/ StartDao \/ TestEmpty
    BY <2>4 DEF GetSharedMemory, InitDao, StartReader, TestFilled, StartDao, TestEmpty, WriterReturns
  <2>5. CASE PollWhileFilling \/ PollWhileEmpty
    BY <2>5 DEF PollWhileFilling, PollWhileEmpty, PollReader, WriterReturns
  <2>6. CASE TakeBuffer \/ WriteBlocks \/ SkipBlocks
    BY <2>6 DEF TakeBuffer, WriteBlocks, SkipBlocks, WriterReturns
  <2>7. CASE FinishDao \/ SwitchOnResult \/ KillProcess \/ JoinReader \/ ReleaseSharedMemory \/ Environment
    BY <2>7 DEF FinishDao, SwitchOnResult, KillProcess, AfterStop, JoinReader, ReleaseSharedMemory, WriterReturns,
                Environment, TerminationRequest, OtherChildDies
  <2> QED
    BY <1>3, <2>2, <2>3, <2>4, <2>5, <2>6, <2>7 DEF WriterNext
<1>4. CASE UNCHANGED vars
  BY <1>4 DEF vars
<1> QED
  BY <1>2, <1>3, <1>4 DEF Next, Returned, Environment

\* A ring of any size: the reader never fills the buffer the writer reads.
THEOREM RingSafe == Spec => []RingIsSafe
<1>1. TypeInv /\ RingInv => RingIsSafe
  <2> SUFFICES ASSUME TypeInv, RingInv, WriterHoldsBuffer, ReaderFillsBuffer
               PROVE  ReadSlot # WriteSlot
    BY DEF RingInv, RingIsSafe
  <2>1. buffersRead \in Nat /\ buffersWritten \in Nat /\ NofBuffers \in Nat \ {0}
    BY ConstantTypes DEF TypeInv, TypeOK, HeaderTypeOK
  <2>2. buffersWritten < buffersRead /\ buffersRead - buffersWritten < NofBuffers
    BY <2>1 DEF RingInv, Buffered, ReaderFillsBuffer
  <2> QED
    BY <2>1, <2>2, SlotsDiffer DEF ReadSlot, WriteSlot
<1> QED
  BY <1>1, TypeInit, TypeStep, RingInit, RingStep, PTL DEF Spec

-----------------------------------------------------------------------------
(* The recorder's session and the reader's end, whatever fails.            *)

SessionInv ==
    /\ session = "open" => ~ReadTest /\ wpc \in {"wait", "poll", "take", "write", "advance",
                                                 "finishDao", "switch"}
    /\ session = "open" /\ wpc = "switch" => ret # 0
    /\ session = "aborted" => err = 1 /\ wpc \in {"cleanup", "join", "release", "returned"}

LEMMA SessionInit == Init => SessionInv
BY DEF Init, SessionInv

LEMMA SessionStep == SessionInv /\ [Next]_vars => SessionInv'
<1> SUFFICES ASSUME SessionInv, [Next]_vars PROVE SessionInv'
  OBVIOUS
<1> USE DEF SessionInv, driveVars, resultVars, WriterReturns
<1>1. CASE ReaderNext
  BY <1>1, ReaderFrame DEF ReaderUnchanged
<1>2. CASE GetSharedMemory \/ InitDao \/ StartReader \/ TestFilled \/ StartDao \/ TestEmpty
  BY <1>2 DEF GetSharedMemory, InitDao, StartReader, TestFilled, StartDao, TestEmpty
<1>3. CASE PollWhileFilling \/ PollWhileEmpty
  BY <1>3 DEF PollWhileFilling, PollWhileEmpty, PollReader
<1>4. CASE TakeBuffer \/ WriteBlocks \/ SkipBlocks \/ ReleaseBuffer
  BY <1>4 DEF TakeBuffer, WriteBlocks, SkipBlocks, ReleaseBuffer
<1>5. CASE FinishDao
  BY <1>5 DEF FinishDao
<1>6. CASE SwitchOnResult
  BY <1>6 DEF SwitchOnResult, MustAbort
<1>7. CASE StopThread \/ KillProcess \/ JoinReader \/ ReleaseSharedMemory \/ Environment
  BY <1>7 DEF StopThread, KillProcess, Kill, AfterStop, JoinReader, ReleaseSharedMemory,
              Environment, TerminationRequest, OtherChildDies
<1>8. CASE UNCHANGED vars
  BY <1>8 DEF vars
<1> QED
  BY <1>1, <1>2, <1>3, <1>4, <1>5, <1>6, <1>7, <1>8 DEF Next, WriterNext, Returned, Environment

\* Every failure behind startDao() is followed by abortDao(), and nothing
\* else is.
THEOREM SessionClosed == Spec => []NoSessionLeftOpen
<1>1. SessionInv => NoSessionLeftOpen
  BY DEF SessionInv, NoSessionLeftOpen
<1> QED
  BY <1>1, SessionInit, SessionStep, PTL DEF Spec

-----------------------------------------------------------------------------
(***************************************************************************)
(* Part 2: what passes through the ring.                                   *)
(***************************************************************************)

(* The invariant.  Buffer number i (they are counted from 0, as            *)
(* buffersRead does) lies in a slot of the ring and begins with block      *)
(* Begin(i) of the image; a buffer that is not put yet, and the end        *)
(* marker, begin where the reader stands.                                  *)

Slot(i) == buffers[i % NofBuffers]
Stored == TocLength - rLeft
Begin(i) == IF i < buffersRead /\ Slot(i).fields.bufLen > 0 THEN Slot(i).data[0].blk ELSE Stored

\* Blocks k .. k+n-1 belong to track t.
IsPart(t, k, n) == TrackStart[t] <= k /\ k + n <= TrackStart[t + 1]
PartFields(t, k, n) ==
    Fields(n, WriteMode(t), SubChanType[t], IF k = TrackStart[t] THEN FirstNumber + t - 1 ELSE 0)
HoldsData(data, k, n) == \A j \in 0 .. n - 1 : data[j] = Block(k + j, EncodedStart + k + j)
HoldsImage(b, k) ==
    LET n == b.fields.bufLen
    IN  /\ n >= 1
        /\ HoldsData(b.data, k, n)
        /\ \E t \in Tracks : IsPart(t, k, n) /\ b.fields = PartFields(t, k, n)

\* The reader: its two positions agree, newTrack tells whether it is at the
\* beginning of a track, and it puts the blocks that come next.
ReaderInv ==
    /\ rLba = EncodedStart + Position
    /\ rpc \in {"open", "read"} => (rNewTrack = 1 <=> rTact = 0)
    /\ rpc \in {"publish", "filled", "full", "again"} => rTact > 0
    /\ rpc = "again" => rNewTrack = 0
    /\ rpc \in {"finish", "mark"} => rLeft = 0 \/ terminateReader # 0
    /\ rpc = "publishEnd" => rLeft = 0 /\ put.fields.bufLen = 0
    /\ rpc = "publish" => /\ put.first = Stored
                          /\ put.msf = EncodedStart + put.first
                          /\ IsPart(rTrack, put.first, put.n)
                          /\ put.fields = PartFields(rTrack, put.first, put.n)

\* Its stores: they are under way only until the buffer is counted.
StoreInv ==
    /\ pending # {} => rpc \in {"publish", "publishEnd"}
    /\ rpc = "publish" /\ "data" \notin pending => HoldsData(Slot(buffersRead).data, put.first, put.n)
    /\ rpc \in {"publish", "publishEnd"} /\ "fields" \notin pending => Slot(buffersRead).fields = put.fields

\* The buffers in the ring: each one holds what follows the one before it,
\* an empty one is put at the end only.
QueueInv ==
    \A i \in buffersWritten .. buffersRead - 1 :
        /\ Begin(i + 1) = Begin(i) + Slot(i).fields.bufLen
        /\ IF Slot(i).fields.bufLen = 0 THEN rLeft = 0 ELSE HoldsImage(Slot(i), Begin(i))

\* The writer: what it has counted, written and announced is what it took.
Waiting == {"alloc", "initDao", "create", "waitFilled", "pollFilled", "startDao", "wait", "poll", "take"}
Holding == {"write", "advance"}
OnDisc(n) == Len(disc) = IF ReadTest THEN 0 ELSE n
WriterInv ==
    /\ wpc \in Waiting => /\ blkCount = Begin(buffersWritten)
                          /\ OnDisc(blkCount)
                          /\ \A t \in Tracks : TrackStart[t] < blkCount /\ blkCount < TrackStart[t + 1]
                                => actTrackNr = FirstNumber + t - 1
    /\ wpc \in Holding => /\ wBuf = Slot(buffersWritten).fields
                          /\ wBuf.bufLen >= 1
                          /\ blkCount = Begin(buffersWritten) + wBuf.bufLen
                          /\ \A t \in Tracks : IsPart(t, Begin(buffersWritten), wBuf.bufLen)
                                => actTrackNr = FirstNumber + t - 1
    /\ wpc = "write" => wPos < wBuf.bufLen /\ OnDisc(Begin(buffersWritten) + wPos)
    /\ wpc = "advance" => OnDisc(blkCount)
    /\ wpc = "finishDao" => blkCount = TocLength /\ OnDisc(TocLength)
    /\ wLba = SessionStart + Len(disc)
    /\ DiscIsImage

ImageInv == ReaderInv /\ StoreInv /\ QueueInv /\ WriterInv

-----------------------------------------------------------------------------
(* Lemmas about the constants, and about the image.                        *)

LEMMA Ascending ==
    ASSUME NEW t \in Tracks, NEW u \in Tracks, t < u
    PROVE  TrackStart[t + 1] <= TrackStart[u]
<1>1. t + 1 \in 1 .. NTracks + 1 /\ u \in 1 .. NTracks + 1 /\ (t + 1 = u \/ t + 1 < u)
  BY TocAssumption DEF Tracks
<1>2. TrackStart[t + 1] \in Nat /\ TrackStart[u] \in Nat
  BY <1>1, TocAssumption
<1>3. t + 1 < u => TrackStart[t + 1] < TrackStart[u]
  BY <1>1, TocAssumption
<1> QED
  BY <1>1, <1>2, <1>3

\* A block lies in one track.
LEMMA TrackOfBlock ==
    ASSUME NEW t \in Tracks, NEW k \in Int, TrackStart[t] <= k, k < TrackStart[t + 1]
    PROVE  TrackOf(k) = t
<1>1. ASSUME NEW u \in Tracks, TrackStart[u] <= k, k < TrackStart[u + 1]
      PROVE  u = t
  <2>1. t \in Int /\ u \in Int
    BY ConstantTypes
  <2>2. /\ TrackStart[t] \in Int /\ TrackStart[t + 1] \in Int
        /\ TrackStart[u] \in Int /\ TrackStart[u + 1] \in Int
    BY ConstantTypes
  <2>3. ~(t < u)
    BY <1>1, <2>2, Ascending
  <2>4. ~(u < t)
    BY <1>1, <2>2, Ascending
  <2> QED
    BY <2>1, <2>3, <2>4
<1>2. \E u \in Tracks : TrackStart[u] <= k /\ k < TrackStart[u + 1]
  OBVIOUS
<1> QED
  BY <1>1, <1>2 DEF TrackOf

LEMMA PartOfImage ==
    ASSUME NEW t \in Tracks, NEW k \in Nat, NEW n \in Nat, IsPart(t, k, n), NEW j \in 0 .. n - 1
    PROVE  /\ TrackOf(k + j) = t
           /\ k + j < TocLength
           /\ ImageBlock(k + j) = [lba |-> SessionStart + (k + j),
                                   block |-> Block(k + j, EncodedStart + k + j),
                                   mode |-> WriteMode(t), sub |-> SubChanType[t]]
<1>1. /\ TrackStart[t] \in Nat /\ TrackStart[t + 1] \in Nat /\ TrackStart[t + 1] <= TocLength
      /\ SessionStart \in Int /\ TocLength \in Nat
  BY ConstantTypes
<1>2. TrackStart[t] <= k + j /\ k + j < TrackStart[t + 1] /\ k + j \in Int
  BY <1>1 DEF IsPart
<1>3. TrackOf(k + j) = t
  BY <1>2, TrackOfBlock
<1>4. SessionStart + 150 + (k + j) = EncodedStart + k + j
  BY <1>1 DEF EncodedStart
<1> QED
  BY <1>1, <1>2, <1>3, <1>4 DEF ImageBlock

LEMMA ElementsOfConcatenation ==
    ASSUME NEW S, NEW s \in Seq(S), NEW t \in Seq(S)
    PROVE  /\ Len(s \o t) = Len(s) + Len(t)
           /\ \A i \in 1 .. Len(s) : (s \o t)[i] = s[i]
           /\ \A i \in Len(s) + 1 .. Len(s) + Len(t) : (s \o t)[i] = t[i - Len(s)]
OBVIOUS

-----------------------------------------------------------------------------
(* The reader.                                                             *)

\* The reader is told to stop at most once, and is not told to go on again.
LEMMA WriterStopsReader ==
    WriterNext \/ Environment => terminateReader' = terminateReader \/ terminateReader' = 1
<1> USE DEF headerVars
<1>1. GetSharedMemory \/ InitDao \/ StartReader \/ TestFilled \/ StartDao \/ TestEmpty
        => terminateReader' = terminateReader
  BY DEF GetSharedMemory, InitDao, StartReader, TestFilled, StartDao, TestEmpty
<1>2. PollWhileFilling \/ PollWhileEmpty \/ TakeBuffer \/ WriteBlocks \/ SkipBlocks \/ ReleaseBuffer
        => terminateReader' = terminateReader
  BY DEF PollWhileFilling, PollWhileEmpty, PollReader, TakeBuffer, WriteBlocks, SkipBlocks, ReleaseBuffer
<1>3. StopThread => terminateReader' = terminateReader \/ terminateReader' = 1
  BY DEF StopThread
<1>4. FinishDao \/ SwitchOnResult \/ KillProcess \/ JoinReader \/ ReleaseSharedMemory \/ Environment
        => terminateReader' = terminateReader
  BY DEF FinishDao, SwitchOnResult, KillProcess, JoinReader, ReleaseSharedMemory,
         Environment, TerminationRequest, OtherChildDies
<1> QED
  BY <1>1, <1>2, <1>3, <1>4 DEF WriterNext

LEMMA ReaderInit == Init => ReaderInv
<1> SUFFICES ASSUME Init PROVE ReaderInv
  OBVIOUS
<1>1. TrackStart[1] = 0 /\ EncodedStart \in Int
  BY TocAssumption, ConstantTypes
<1> QED
  BY <1>1 DEF Init, ReaderInv, Position

LEMMA ReaderStep == TypeInv /\ ReaderInv /\ [Next]_vars => ReaderInv'
<1> SUFFICES ASSUME TypeInv, ReaderInv, [Next]_vars PROVE ReaderInv'
  OBVIOUS
<1> USE DEF ReaderInv, Position, headerVars, readerVars, Stored
<1>1. /\ ReaderTypeOK /\ ReaderPositionInv /\ HeaderTypeOK
      /\ EncodedStart \in Int /\ TocLength \in Nat
      /\ TrackStart[rTrack] \in Nat /\ TrackStart[rTrack + 1] \in Nat
  BY ConstantTypes DEF TypeInv, TypeOK, ReaderTypeOK
<1>2. CASE ReaderNext
  <2> USE <1>1 DEF ReaderTypeOK, ReaderPositionInv
  <2>1. CASE ReadBuffer
    <3> DEFINE n == SmallerOf(SmallerOf(rLeft, BufferSize), TrackLeft)
    <3>1. n \in 1 .. BufferSize /\ n <= rLeft /\ n <= TrackLeft /\ TrackLeft \in Nat
      BY <2>1, BufferAssumption DEF ReadBuffer, SmallerOf, TrackLeft
    <3>2. /\ put' = [first |-> Position, n |-> n, msf |-> rLba,
                     fields |-> Fields(n, WriteMode(rTrack), SubChanType[rTrack], StartedTrack)]
          /\ rLba' = rLba + n /\ rTact' = rTact + n
          /\ rpc' = "publish"
          /\ UNCHANGED <<rTrack, rLeft, rFirst, rNewTrack>>
          /\ rpc = "read"
      BY <2>1 DEF ReadBuffer
    <3> HIDE DEF n
    <3>3. StartedTrack = IF Position = TrackStart[rTrack] THEN FirstNumber + rTrack - 1 ELSE 0
      BY <3>2 DEF StartedTrack, FlagType
    <3>4. IsPart(rTrack, Position, n)
      BY <3>1 DEF IsPart, TrackLeft
    <3>5. IsPart(rTrack', put'.first, put'.n)
      BY <3>2, <3>4
    <3>6. put'.fields = PartFields(rTrack', put'.first, put'.n)
      BY <3>2, <3>3 DEF PartFields
    <3>7. put'.first = Stored' /\ put'.msf = EncodedStart + put'.first
      BY <3>2
    <3>8. rLba' = EncodedStart + Position' /\ rTact' > 0
      BY <3>1, <3>2
    <3> QED
      BY <3>2, <3>5, <3>6, <3>7, <3>8
  <2>2. CASE NextTrack
    <3>1. CASE rpc' = "fail" /\ UNCHANGED readerVars
      BY <2>2, <3>1 DEF NextTrack
    <3>2. CASE ~(rpc' = "fail" /\ UNCHANGED readerVars)
      <4>1. /\ rTrack' = rTrack + 1 /\ rTact' = 0 /\ rNewTrack' = 1 /\ rpc' = "read"
            /\ UNCHANGED <<rLeft, rLba, put>>
            /\ TrackStart[rTrack + 1] = Position
        BY <2>2, <3>2 DEF NextTrack, TrackLeft
      <4>2. Position' = Position
        BY <4>1
      <4> QED
        BY <4>1, <4>2
    <3> QED
      BY <3>1, <3>2
  <2>3. CASE OpenFirstTrack \/ ReadFails \/ StoreArrives
    BY <2>3 DEF OpenFirstTrack, ReadFails, StoreArrives
  <2>4. CASE Publish
    BY <2>4 DEF Publish
  <2>5. CASE SetFilled \/ RingHasRoom \/ SetFinished \/ PublishEnd
    BY <2>5 DEF SetFilled, RingHasRoom, SetFinished, PublishEnd
  <2>6. CASE ReadOnOrFinish
    BY <2>6 DEF ReadOnOrFinish, ReadOn
  <2>7. CASE MarkEnd
    <3>1. ReadSlot \in 0 .. NofBuffers - 1
      BY ConstantTypes DEF ReadSlot, HeaderTypeOK
    <3>2. buffers[ReadSlot].fields \in FieldsType
      BY <3>1 DEF TypeInv, TypeOK, BuffersTypeOK
    <3>3. [buffers[ReadSlot].fields EXCEPT !.bufLen = 0, !.trackNr = 0].bufLen = 0
      BY <3>2 DEF FieldsType
    <3>4. CASE EndMarkerNeeded
      <4>1. rpc' = "publishEnd" /\ put'.fields.bufLen = 0 /\ rLeft = 0
        BY <2>7, <3>3, <3>4 DEF MarkEnd, EndMarkerNeeded
      <4> QED
        BY <2>7, <4>1 DEF MarkEnd
    <3>5. CASE ~EndMarkerNeeded
      BY <2>7, <3>5 DEF MarkEnd
    <3> QED
      BY <3>4, <3>5
  <2>8. CASE ReturnFromReader \/ ReaderFails \/ FailedReaderExits
    BY <2>8 DEF ReturnFromReader, ReaderFails, FailedReaderExits
  <2> QED
    BY <1>2, <2>1, <2>2, <2>3, <2>4, <2>5, <2>6, <2>7, <2>8 DEF ReaderNext
<1>3. CASE WriterNext \/ Environment
  BY <1>3, WriterFrame, WriterStopsReader
<1>4. CASE UNCHANGED vars
  BY <1>4 DEF vars
<1> QED
  BY <1>2, <1>3, <1>4 DEF Next, Returned, Environment

-----------------------------------------------------------------------------
(* The ring.                                                               *)

LEMMA SlotTypes ==
    ASSUME TypeInv
    PROVE  /\ buffersRead \in Nat /\ buffersWritten \in Nat /\ rLeft \in Nat /\ TocLength \in Nat
           /\ Stored \in Int
           /\ \A i \in Nat : /\ i % NofBuffers \in 0 .. NofBuffers - 1
                             /\ Slot(i) \in SlotType
                             /\ Slot(i).fields.bufLen \in 0 .. BufferSize
                             /\ Begin(i) \in Int
<1>1. /\ HeaderTypeOK /\ BuffersTypeOK /\ rLeft \in Nat /\ TocLength \in Nat /\ NofBuffers \in Nat \ {0}
  BY ConstantTypes DEF TypeInv, TypeOK, ReaderTypeOK
<1>2. Stored \in Int
  BY <1>1 DEF Stored
<1>3. ASSUME NEW i \in Nat
      PROVE  /\ i % NofBuffers \in 0 .. NofBuffers - 1
             /\ Slot(i) \in SlotType
             /\ Slot(i).fields.bufLen \in 0 .. BufferSize
             /\ Begin(i) \in Int
  <2>1. i % NofBuffers \in 0 .. NofBuffers - 1
    BY <1>1
  <2>2. Slot(i) \in SlotType
    BY <1>1, <2>1 DEF Slot, BuffersTypeOK, SlotType
  <2>3. Slot(i).fields.bufLen \in 0 .. BufferSize
    BY <2>2 DEF SlotType, FieldsType
  <2>4. 0 \in 0 .. BufferSize - 1
    BY BufferAssumption
  <2>5. Slot(i).data[0].blk \in Nat \cup {NoBlock}
    BY <2>2, <2>4 DEF SlotType, BlockType
  <2>6. Slot(i).data[0].blk \in Int
    BY <2>5 DEF NoBlock
  <2> QED
    BY <1>2, <2>1, <2>2, <2>3, <2>6 DEF Begin
<1> QED
  BY <1>1, <1>2, <1>3 DEF HeaderTypeOK

\* A store reaches the slot behind the ring's last buffer only.
LEMMA ReaderKeepsRing ==
    ASSUME TypeInv, RingInv, StoreInv, ReaderNext
    PROVE  \A i \in buffersWritten .. buffersRead - 1 : Slot(i)' = Slot(i)
<1>1. buffersRead \in Nat /\ buffersWritten \in Nat /\ NofBuffers \in Nat \ {0} /\ BuffersTypeOK
  BY ConstantTypes DEF TypeInv, TypeOK, HeaderTypeOK
<1>2. CASE StoreArrives
  <2>1. rpc \in {"publish", "publishEnd"}
    BY <1>2 DEF StoreArrives, StoreInv
  <2>2. StoreSlot = buffersRead % NofBuffers /\ buffersRead - buffersWritten < NofBuffers
    BY <2>1 DEF StoreSlot, RingInv, Buffered
  <2>3. \A s \in 0 .. NofBuffers - 1 : s # StoreSlot => buffers'[s] = buffers[s]
    BY <1>1, <1>2 DEF StoreArrives, BuffersTypeOK
  <2> SUFFICES ASSUME NEW i \in buffersWritten .. buffersRead - 1 PROVE Slot(i)' = Slot(i)
    OBVIOUS
  <2>4. i \in Nat /\ i < buffersRead /\ buffersRead - i < NofBuffers /\ i % NofBuffers \in 0 .. NofBuffers - 1
    BY <1>1, <2>2
  <2>5. i % NofBuffers # StoreSlot
    BY <1>1, <2>2, <2>4, SlotsDiffer
  <2> QED
    BY <2>3, <2>4, <2>5 DEF Slot
<1>3. CASE ~StoreArrives
  <2>1. UNCHANGED buffers
    BY <1>3 DEF ReaderNext, OpenFirstTrack, NextTrack, ReadBuffer, ReadFails, Publish, SetFilled,
         RingHasRoom, ReadOnOrFinish, SetFinished, MarkEnd, PublishEnd, ReturnFromReader, ReaderFails,
         FailedReaderExits
  <2> QED
    BY <2>1 DEF Slot
<1> QED
  BY <1>2, <1>3

LEMMA StoreInit == Init => StoreInv
BY DEF Init, StoreInv

LEMMA StoreStep == Ordered /\ TypeInv /\ ReaderInv /\ StoreInv /\ [Next]_vars => StoreInv'
<1> SUFFICES ASSUME Ordered, TypeInv, ReaderInv, StoreInv, [Next]_vars PROVE StoreInv'
  OBVIOUS
<1> USE DEF StoreInv, headerVars, readerVars
<1>1. /\ NofBuffers \in Nat \ {0} /\ buffersRead \in Nat
      /\ BuffersTypeOK /\ put \in PutType /\ EncodedStart \in Int
      /\ pending \subseteq {"data", "fields"}
  BY ConstantTypes DEF TypeInv, TypeOK, HeaderTypeOK, ReaderTypeOK, PutType
<1>2. CASE StoreArrives
  <2>1. PICK part \in pending :
          /\ pending' = pending \ {part}
          /\ buffers' = IF part = "fields" THEN [buffers EXCEPT ![StoreSlot].fields = put.fields]
                        ELSE [buffers EXCEPT ![StoreSlot].data = NewData(@)]
    BY <1>2 DEF StoreArrives
  <2>2. UNCHANGED <<rpc, put, buffersRead>> /\ rpc \in {"publish", "publishEnd"}
    BY <1>2 DEF StoreArrives
  <2>3. StoreSlot = buffersRead % NofBuffers /\ StoreSlot \in 0 .. NofBuffers - 1
    BY <1>1, <2>2 DEF StoreSlot
  <2>4. buffers[StoreSlot] \in SlotType
    BY <1>1, <2>3 DEF BuffersTypeOK, SlotType
  <2>5. CASE part = "fields"
    <3>1. buffers'[StoreSlot] = [buffers[StoreSlot] EXCEPT !.fields = put.fields]
      BY <1>1, <2>1, <2>3, <2>5 DEF BuffersTypeOK
    <3>2. buffers'[StoreSlot].fields = put.fields /\ buffers'[StoreSlot].data = buffers[StoreSlot].data
      BY <2>4, <3>1 DEF SlotType
    <3> QED
      BY <2>1, <2>2, <2>3, <2>5, <3>2 DEF Slot
  <2>6. CASE part = "data"
    <3>1. buffers'[StoreSlot] = [buffers[StoreSlot] EXCEPT !.data = NewData(buffers[StoreSlot].data)]
      BY <1>1, <2>1, <2>3, <2>6 DEF BuffersTypeOK
    <3>2. /\ buffers'[StoreSlot].data = NewData(buffers[StoreSlot].data)
          /\ buffers'[StoreSlot].fields = buffers[StoreSlot].fields
      BY <2>4, <3>1 DEF SlotType
    <3>3. ASSUME rpc = "publish"
          PROVE  HoldsData(buffers'[StoreSlot].data, put.first, put.n)
      <4> SUFFICES ASSUME NEW j \in 0 .. put.n - 1
                   PROVE  buffers'[StoreSlot].data[j] = Block(put.first + j, EncodedStart + put.first + j)
        BY DEF HoldsData
      <4>1. put.n \in 0 .. BufferSize /\ put.first \in Nat /\ put.msf = EncodedStart + put.first
        BY <1>1, <3>3 DEF PutType, ReaderInv
      <4>2. j \in 0 .. BufferSize - 1 /\ j < put.n
        BY <4>1, BufferAssumption
      <4> QED
        BY <3>2, <4>1, <4>2 DEF NewData
    <3> QED
      BY <2>1, <2>2, <2>3, <2>6, <3>2, <3>3 DEF Slot
  <2> QED
    BY <1>1, <2>1, <2>5, <2>6
<1>3. CASE Publish \/ PublishEnd
  BY <1>3 DEF Publish, PublishEnd
<1>4. CASE ReadBuffer \/ MarkEnd
  BY <1>4 DEF ReadBuffer, MarkEnd
<1>5. CASE OpenFirstTrack \/ NextTrack \/ ReadFails \/ SetFilled \/ RingHasRoom
  BY <1>5 DEF OpenFirstTrack, NextTrack, ReadFails, SetFilled, RingHasRoom
<1>6. CASE ReadOnOrFinish \/ SetFinished \/ ReturnFromReader \/ ReaderFails \/ FailedReaderExits
  BY <1>6 DEF ReadOnOrFinish, SetFinished, ReturnFromReader, ReaderFails, FailedReaderExits
<1>7. CASE WriterNext \/ Environment
  BY <1>7, WriterFrame DEF Slot
<1>8. CASE UNCHANGED vars
  BY <1>8 DEF vars, Slot
<1> QED
  BY <1>2, <1>3, <1>4, <1>5, <1>6, <1>7, <1>8 DEF Next, ReaderNext, Returned, Environment

\* A buffer that is put continues the ring, and moves none of the buffers
\* the writer has not released yet.
LEMMA ReaderExtendsRing ==
    ASSUME Ordered, TypeInv, RingInv, ReaderInv, StoreInv, QueueInv, ReaderNext
    PROVE  /\ QueueInv'
           /\ \A i \in buffersWritten .. buffersRead : Begin(i)' = Begin(i)
<1>0. PICK w, r : w = buffersWritten /\ r = buffersRead
  OBVIOUS
<1> USE <1>0
<1>1. /\ w \in Nat /\ r \in Nat /\ r - w \in 0 .. NofBuffers /\ rLeft \in Nat /\ TocLength \in Nat
      /\ buffersWritten' = w
  <2>1. buffersWritten' = w
    BY DEF headerVars, ReaderNext, OpenFirstTrack, NextTrack, ReadBuffer, ReadFails, StoreArrives, Publish,
         SetFilled, RingHasRoom, ReadOnOrFinish, SetFinished, MarkEnd, PublishEnd, ReturnFromReader,
         ReaderFails, FailedReaderExits
  <2> QED
    BY <2>1, SlotTypes DEF RingInv, Buffered
<1>2. \A i \in w .. r - 1 : Slot(i)' = Slot(i)
  BY ReaderKeepsRing
<1>3. \A i \in Nat : Slot(i).fields.bufLen \in Nat /\ Begin(i) \in Int
  BY SlotTypes
<1>4. CASE buffersRead' = r /\ rLeft' = rLeft
  <2>1. \A i \in w .. r : Begin(i)' = Begin(i)
    BY <1>1, <1>2, <1>4 DEF Begin, Stored
  <2>2. QueueInv'
    <3> SUFFICES ASSUME NEW i \in w .. r - 1
                 PROVE  /\ Begin(i + 1)' = Begin(i)' + Slot(i)'.fields.bufLen
                        /\ IF Slot(i)'.fields.bufLen = 0 THEN rLeft' = 0
                           ELSE HoldsImage(Slot(i)', Begin(i)')
      BY <1>1, <1>4 DEF QueueInv, HoldsImage, HoldsData
    <3>1. i \in w .. r /\ i + 1 \in w .. r
      BY <1>1
    <3>2. Begin(i)' = Begin(i) /\ Begin(i + 1)' = Begin(i + 1) /\ Slot(i)' = Slot(i)
      BY <1>2, <2>1, <3>1
    <3> QED
      BY <1>4, <3>2 DEF QueueInv
  <2> QED
    BY <2>1, <2>2
<1>5. CASE Publish \/ PublishEnd
  <2>1. /\ buffersRead' = r + 1 /\ UNCHANGED buffers /\ pending = {}
        /\ put.n \in 0 .. BufferSize /\ rpc \in {"publish", "publishEnd"}
    BY <1>5 DEF Publish, PublishEnd, TypeInv, TypeOK, ReaderTypeOK
  <2>2. \A i \in Nat : Slot(i)' = Slot(i)
    BY <2>1 DEF Slot
  <2>3. Begin(r) = Stored
    BY <1>1 DEF Begin
  <2>4. /\ Begin(r)' = Stored
        /\ Begin(r + 1)' = Stored + Slot(r).fields.bufLen
        /\ IF Slot(r).fields.bufLen = 0 THEN rLeft' = 0 ELSE HoldsImage(Slot(r), Stored)
        /\ rLeft = 0 => rLeft' = 0 /\ Stored' = Stored
        /\ rLeft' = rLeft \/ rLeft > 0
    <3>1. Begin(r + 1)' = Stored'
      BY <1>1, <2>1 DEF Begin
    <3>2. CASE Publish
      <4>1. /\ rpc = "publish" /\ rLeft' = rLeft - put.n
            /\ put.n >= 1 /\ put.n <= rLeft
            /\ put.first = Stored /\ rTrack \in Tracks
            /\ IsPart(rTrack, put.first, put.n)
            /\ put.fields = PartFields(rTrack, put.first, put.n)
        BY <3>2 DEF Publish, TypeInv, TypeOK, ReaderTypeOK, ReaderPositionInv, ReaderInv
      <4>2. Slot(r).fields = put.fields /\ HoldsData(Slot(r).data, put.first, put.n)
        BY <2>1, <4>1 DEF StoreInv
      <4>3. Slot(r).fields.bufLen = put.n
        BY <4>1, <4>2 DEF PartFields, Fields
      <4>4. 0 \in 0 .. put.n - 1
        BY <2>1, <4>1
      <4>5. Slot(r).data[0] = Block(put.first + 0, EncodedStart + put.first + 0)
        BY <4>2, <4>4 DEF HoldsData
      <4>6. Slot(r).data[0].blk = put.first
        BY <1>1, <4>1, <4>5 DEF Block, Stored
      <4>7. Begin(r)' = Stored
        BY <1>1, <2>1, <2>2, <4>1, <4>3, <4>6 DEF Begin
      <4>8. HoldsImage(Slot(r), Stored)
        BY <4>1, <4>2, <4>3 DEF HoldsImage
      <4>9. Stored' = Stored + put.n
        BY <1>1, <2>1, <4>1 DEF Stored
      <4> QED
        BY <1>1, <2>1, <3>1, <4>1, <4>3, <4>7, <4>8, <4>9
    <3>3. CASE PublishEnd
      <4>1. rpc = "publishEnd" /\ rLeft' = rLeft /\ rLeft = 0 /\ put.fields.bufLen = 0
        BY <3>3 DEF PublishEnd, readerVars, ReaderInv
      <4>2. Slot(r).fields.bufLen = 0
        BY <2>1, <4>1 DEF StoreInv
      <4>3. Stored' = Stored
        BY <4>1 DEF Stored
      <4>4. Begin(r)' = Stored
        BY <1>1, <2>1, <2>2, <4>2, <4>3 DEF Begin
      <4> QED
        BY <1>1, <3>1, <4>1, <4>2, <4>3, <4>4 DEF Stored
    <3> QED
      BY <1>5, <3>2, <3>3
  <2>5. \A i \in w .. r : Begin(i)' = Begin(i)
    <3> SUFFICES ASSUME NEW i \in w .. r - 1 PROVE Begin(i)' = Begin(i)
      BY <1>1, <2>3, <2>4
    <3>1. i \in Nat /\ i < r /\ i < buffersRead'
      BY <1>1, <2>1
    <3>2. Slot(i).fields.bufLen = 0 => rLeft = 0
      BY DEF QueueInv
    <3> QED
      BY <1>3, <2>2, <2>4, <3>1, <3>2 DEF Begin
  <2>6. QueueInv'
    <3> SUFFICES ASSUME NEW i \in w .. r
                 PROVE  /\ Begin(i + 1)' = Begin(i)' + Slot(i)'.fields.bufLen
                        /\ IF Slot(i)'.fields.bufLen = 0 THEN rLeft' = 0
                           ELSE HoldsImage(Slot(i)', Begin(i)')
      BY <1>1, <2>1 DEF QueueInv, HoldsImage, HoldsData
    <3>1. CASE i = r
      BY <1>1, <2>2, <2>4, <3>1
    <3>2. CASE i \in w .. r - 1
      <4>1. i \in w .. r /\ i + 1 \in w .. r /\ i \in Nat
        BY <1>1, <3>2
      <4>2. Begin(i)' = Begin(i) /\ Begin(i + 1)' = Begin(i + 1) /\ Slot(i)' = Slot(i)
        BY <2>2, <2>5, <4>1
      <4> QED
        BY <2>4, <3>2, <4>2 DEF QueueInv
    <3> QED
      BY <1>1, <3>1, <3>2
  <2> QED
    BY <2>5, <2>6
<1>6. ~(Publish \/ PublishEnd) => buffersRead' = r /\ rLeft' = rLeft
  BY DEF headerVars, readerVars, ReaderNext, OpenFirstTrack, NextTrack, ReadBuffer, ReadFails, StoreArrives,
         SetFilled, RingHasRoom, ReadOnOrFinish, SetFinished, MarkEnd, ReturnFromReader,
         ReaderFails, FailedReaderExits
<1> QED
  BY <1>4, <1>5, <1>6

-----------------------------------------------------------------------------
(* The writer.                                                             *)

LEMMA QueueInit == Init => QueueInv
BY DEF Init, QueueInv

\* The writer takes buffers out of the ring, and touches none.
LEMMA WriterKeepsRing ==
    ASSUME TypeInv, QueueInv, WriterNext \/ Environment
    PROVE  /\ QueueInv'
           /\ \A i : Begin(i)' = Begin(i) /\ Slot(i)' = Slot(i)
<1>1. UNCHANGED <<buffers, rLeft, buffersRead>>
  BY WriterFrame DEF readerVars
<1>2. \A i : Begin(i)' = Begin(i) /\ Slot(i)' = Slot(i)
  BY <1>1 DEF Begin, Slot, Stored
<1>3. buffersWritten' \in {buffersWritten, buffersWritten + 1}
  <2> USE DEF headerVars
  <2>1. UNCHANGED buffersWritten \/ ReleaseBuffer
    <3>1. GetSharedMemory \/ InitDao \/ StartReader \/ TestFilled \/ StartDao \/ TestEmpty \/ PollWhileFilling
            \/ PollWhileEmpty \/ TakeBuffer \/ WriteBlocks \/ SkipBlocks => UNCHANGED buffersWritten
      BY DEF GetSharedMemory, InitDao, StartReader, TestFilled, StartDao, TestEmpty,
         PollWhileFilling, PollWhileEmpty, PollReader, TakeBuffer, WriteBlocks, SkipBlocks
    <3>2. FinishDao \/ SwitchOnResult \/ StopThread \/ KillProcess \/ JoinReader \/ ReleaseSharedMemory
            \/ Environment => UNCHANGED buffersWritten
      BY DEF FinishDao, SwitchOnResult, StopThread, KillProcess, JoinReader, ReleaseSharedMemory,
         Environment, TerminationRequest, OtherChildDies
    <3> QED
      BY <3>1, <3>2 DEF WriterNext
  <2> QED
    BY <2>1 DEF ReleaseBuffer
<1>4. buffersWritten \in Nat /\ buffersRead \in Nat
  BY SlotTypes
<1>5. buffersWritten' .. buffersRead' - 1 \subseteq buffersWritten .. buffersRead - 1
  BY <1>1, <1>3, <1>4
<1>6. QueueInv'
  <2> SUFFICES ASSUME NEW i \in buffersWritten .. buffersRead - 1
               PROVE  /\ Begin(i + 1)' = Begin(i)' + Slot(i)'.fields.bufLen
                      /\ IF Slot(i)'.fields.bufLen = 0 THEN rLeft' = 0
                         ELSE HoldsImage(Slot(i)', Begin(i)')
    BY <1>5 DEF QueueInv, HoldsImage, HoldsData
  <2> QED
    BY <1>1, <1>2 DEF QueueInv
<1> QED
  BY <1>2, <1>6

LEMMA WriterInit == Init => WriterInv
<1> SUFFICES ASSUME Init PROVE WriterInv
  OBVIOUS
<1>1. TocLength \in Nat /\ SessionStart \in Int /\ \A t \in Tracks : TrackStart[t] \in Nat
  BY ConstantTypes
<1>2. blkCount = Begin(buffersWritten) /\ blkCount = 0
  BY <1>1 DEF Init, Begin, Stored
<1>3. OnDisc(blkCount) /\ wLba = SessionStart + Len(disc) /\ DiscIsImage
  BY <1>1 DEF Init, OnDisc, DiscIsImage
<1>4. \A t \in Tracks : ~(TrackStart[t] < blkCount)
  BY <1>1, <1>2
<1>5. wpc = "alloc"
  BY DEF Init
<1> QED
  BY <1>2, <1>3, <1>4, <1>5 DEF WriterInv, Holding

\* While the reader goes on.
LEMMA ReaderKeepsWriter ==
    ASSUME Ordered, TypeInv, RingInv, ReaderInv, StoreInv, QueueInv, WriterInv, ReaderNext
    PROVE  WriterInv'
<1>0. PICK w : w = buffersWritten
  OBVIOUS
<1>1. UNCHANGED <<wpc, writerVars, resultVars, driveVars>>
  BY ReaderFrame DEF ReaderUnchanged
<1>2. buffersWritten' = w
  BY <1>0 DEF headerVars, ReaderNext, OpenFirstTrack, NextTrack, ReadBuffer, ReadFails, StoreArrives, Publish,
       SetFilled, RingHasRoom, ReadOnOrFinish, SetFinished, MarkEnd, PublishEnd, ReturnFromReader,
       ReaderFails, FailedReaderExits
<1>3. w \in Nat /\ buffersRead \in Nat /\ w <= buffersRead /\ (wpc \in Holding => w < buffersRead)
  BY <1>0, SlotTypes DEF RingInv, Buffered, WriterHoldsBuffer, Holding
<1>4. Begin(w)' = Begin(w)
  BY <1>0, <1>3, ReaderExtendsRing
<1>5. wpc \in Holding => Slot(w)' = Slot(w)
  BY <1>0, <1>3, ReaderKeepsRing
<1>6. DiscIsImage'
  BY <1>1 DEF WriterInv, DiscIsImage, driveVars
<1> QED
  BY <1>0, <1>1, <1>2, <1>4, <1>5, <1>6 DEF WriterInv, OnDisc, Holding, writerVars, driveVars

\* The driver gets what is in the buffer, and that is what comes next.
LEMMA WriteAppendsImage ==
    ASSUME TypeInv, RingInv, QueueInv, WriterInv, WriteBlocks
    PROVE  WriterInv'
<1> USE DEF WriterReturns
<1>0. PICK w, k, len, p : w = buffersWritten /\ k = Begin(w) /\ len = wBuf.bufLen /\ p = wPos
  OBVIOUS
<1>1. /\ wpc = "write" /\ ~ReadTest /\ UNCHANGED <<buffersWritten, wBuf, actTrackNr, blkCount>>
      /\ WriterUnchanged /\ buffersRead' = buffersRead
  BY DEF WriteBlocks, headerVars
<1>2. /\ wBuf = Slot(w).fields /\ len >= 1 /\ p < len /\ blkCount = k + len
      /\ Len(disc) = k + p /\ wLba = SessionStart + Len(disc) /\ DiscIsImage
      /\ \A t \in Tracks : IsPart(t, k, len) => actTrackNr = FirstNumber + t - 1
  BY <1>0, <1>1 DEF WriterInv, Holding, OnDisc
<1>3. w \in Nat /\ buffersRead \in Nat /\ w < buffersRead
  BY <1>0, <1>1, SlotTypes DEF RingInv, Buffered, WriterHoldsBuffer
<1>4. /\ len \in 0 .. BufferSize /\ p \in 0 .. BufferSize /\ k \in Int /\ SessionStart \in Int
      /\ EncodedStart \in Int /\ disc \in DiscType /\ BufferSize \in Nat /\ BlocksPerWrite \in Nat \ {0}
  BY <1>0, <1>2, <1>3, SlotTypes, ConstantTypes, BufferAssumption DEF TypeInv, TypeOK, WriterTypeOK
<1>5. HoldsImage(Slot(w), k)
  BY <1>0, <1>2, <1>3, <1>4 DEF QueueInv
<1>6. PICK t \in Tracks : IsPart(t, k, len) /\ wBuf = PartFields(t, k, len)
  BY <1>0, <1>2, <1>5 DEF HoldsImage
<1>7. k \in Nat
  BY <1>4, <1>6, ConstantTypes DEF IsPart
<1>8. Begin(w)' = Begin(w) /\ Slot(w)' = Slot(w)
  BY WriterKeepsRing DEF WriterNext
<1>9. CASE WriterReturns(2) /\ UNCHANGED <<disc, wLba, wPos>>
  <2>1. DiscIsImage'
    BY <1>2, <1>9 DEF DiscIsImage
  <2> QED
    BY <1>2, <1>9, <2>1 DEF WriterInv, Waiting, Holding
<1>10. CASE ~(WriterReturns(2) /\ UNCHANGED <<disc, wLba, wPos>>)
  <2> DEFINE new(n) == [j \in 1 .. n |-> Written(wLba + j - 1, wPos + j - 1)]
  <2>1. PICK n : /\ n = SmallerOf(BlocksPerWrite, len - p)
                 /\ disc' = disc \o new(n) /\ wLba' = wLba + n /\ wPos' = wPos + n
                 /\ wpc' = IF wPos' = len THEN "advance" ELSE "write"
    BY <1>0, <1>1, <1>10 DEF WriteBlocks
  <2>2. n \in Nat /\ n >= 1 /\ p + n <= len
    BY <1>2, <1>4, <2>1 DEF SmallerOf
  <2>3. ASSUME NEW j \in 1 .. n
        PROVE  /\ Written(wLba + j - 1, wPos + j - 1) = ImageBlock(k + p + j - 1)
               /\ k + p + j - 1 < TocLength
    <3>1. PICK i : i = p + j - 1
      OBVIOUS
    <3>2. i \in 0 .. len - 1 /\ k + p + j - 1 = k + i
      BY <1>4, <2>2, <3>1
    <3>3. buffers[WriteSlot].data[i] = Block(k + i, EncodedStart + k + i)
      BY <1>0, <1>2, <1>5, <3>2 DEF HoldsImage, HoldsData, Slot, WriteSlot
    <3>4. wBuf.mode = WriteMode(t) /\ wBuf.sub = SubChanType[t]
      BY <1>6 DEF PartFields, Fields
    <3>5. wLba + j - 1 = SessionStart + (k + i)
      BY <1>2, <1>4, <1>7, <3>1
    <3>6. Written(wLba + j - 1, i) = [lba |-> SessionStart + (k + i), block |-> Block(k + i, EncodedStart + k + i),
                                      mode |-> WriteMode(t), sub |-> SubChanType[t]]
      BY <3>3, <3>4, <3>5 DEF Written
    <3>7. len \in Nat
      BY <1>4
    <3>8. ImageBlock(k + i) = Written(wLba + j - 1, i) /\ k + i < TocLength
      BY <1>6, <1>7, <3>2, <3>6, <3>7, PartOfImage
    <3> QED
      BY <1>0, <3>1, <3>2, <3>8
  <2>4. new(n) \in Seq({ImageBlock(i) : i \in Nat}) /\ Len(new(n)) = n
    <3>1. \A j \in 1 .. n : new(n)[j] \in {ImageBlock(i) : i \in Nat}
      <4> SUFFICES ASSUME NEW j \in 1 .. n PROVE new(n)[j] \in {ImageBlock(i) : i \in Nat}
        OBVIOUS
      <4>1. new(n)[j] = ImageBlock(k + p + j - 1)
        BY <2>3
      <4>2. k + p + j - 1 \in Nat
        BY <1>4, <1>7, <2>2
      <4> QED
        BY <4>1, <4>2
    <3> QED
      BY <2>2, <3>1
  <2>5. disc \in Seq({ImageBlock(i) : i \in Nat})
    <3>1. \A i \in 1 .. Len(disc) : disc[i] \in {ImageBlock(b) : b \in Nat}
      <4> SUFFICES ASSUME NEW i \in 1 .. Len(disc) PROVE disc[i] \in {ImageBlock(b) : b \in Nat}
        OBVIOUS
      <4>1. disc[i] = ImageBlock(i - 1) /\ i - 1 \in Nat
        BY <1>2 DEF DiscIsImage
      <4> QED
        BY <4>1
    <3>2. disc = [i \in 1 .. Len(disc) |-> disc[i]] /\ Len(disc) \in Nat
      BY <1>4 DEF DiscType
    <3> QED
      BY <3>1, <3>2
  <2>6. /\ Len(disc \o new(n)) = Len(disc) + n
        /\ \A i \in 1 .. Len(disc) : (disc \o new(n))[i] = disc[i]
        /\ \A i \in Len(disc) + 1 .. Len(disc) + n : (disc \o new(n))[i] = new(n)[i - Len(disc)]
    <3> HIDE DEF new
    <3> QED
      BY <2>4, <2>5, ElementsOfConcatenation
  <2>7. Len(disc') = k + p + n
    BY <1>2, <2>1, <2>6
  <2>8. DiscIsImage'
    <3>1. \A i \in 1 .. k + p + n : disc'[i] = ImageBlock(i - 1)
      <4> SUFFICES ASSUME NEW i \in 1 .. k + p + n PROVE disc'[i] = ImageBlock(i - 1)
        OBVIOUS
      <4>1. CASE i <= k + p
        BY <1>2, <1>4, <1>7, <2>1, <2>6, <4>1 DEF DiscIsImage
      <4>2. CASE i > k + p
        <5>1. PICK j : j = i - (k + p)
          OBVIOUS
        <5>2. j \in 1 .. n /\ k + p + j - 1 = i - 1 /\ i \in Len(disc) + 1 .. Len(disc) + n
          BY <1>2, <1>4, <1>7, <2>2, <4>2, <5>1
        <5>3. disc'[i] = new(n)[j]
          BY <1>2, <2>1, <2>6, <5>1, <5>2
        <5>4. new(n)[j] = ImageBlock(k + p + j - 1)
          BY <2>3, <5>2
        <5> QED
          BY <5>2, <5>3, <5>4
      <4> QED
        BY <1>4, <1>7, <4>1, <4>2
    <3>2. k + p + n <= TocLength
      <4>1. k + p + n - 1 < TocLength
        BY <2>2, <2>3
      <4> QED
        BY <1>4, <1>7, <2>2, <4>1, ConstantTypes
    <3> QED
      BY <2>7, <3>1, <3>2 DEF DiscIsImage
  <2>9. wLba' = SessionStart + Len(disc')
    BY <1>2, <1>4, <1>7, <2>1, <2>2, <2>7
  <2>10. /\ wpc' = "write" => wPos' < wBuf'.bufLen /\ Len(disc') = k + wPos'
         /\ wpc' = "advance" => Len(disc') = blkCount'
         /\ wpc' \in Holding
    <3>1. wBuf' = wBuf /\ blkCount' = k + len /\ wPos' = p + n
      BY <1>0, <1>1, <1>2, <2>1
    <3>2. Len(disc') = k + wPos'
      BY <1>4, <2>2, <2>7, <3>1
    <3>3. p + n = len => wpc' = "advance" /\ Len(disc') = blkCount'
      BY <1>4, <2>1, <3>1, <3>2
    <3>4. p + n # len => wpc' = "write" /\ wPos' < len
      BY <1>4, <2>1, <2>2, <3>1
    <3> QED
      BY <1>0, <3>1, <3>2, <3>3, <3>4 DEF Holding
  <2>11. Begin(buffersWritten)' = k /\ Slot(buffersWritten)' = Slot(w)
    BY <1>0, <1>1, <1>8
  <2> QED
    BY <1>0, <1>1, <1>2, <2>1, <2>8, <2>9, <2>10, <2>11 DEF WriterInv, OnDisc, Waiting, Holding
<1> QED
  BY <1>9, <1>10

LEMMA WriterStep ==
    ASSUME TypeInv, RingInv, QueueInv, WriterInv, WriterNext \/ Environment
    PROVE  WriterInv'
<1> USE DEF WriterReturns, Waiting, Holding, writerVars, driveVars, headerVars
<1>0. PICK w : w = buffersWritten
  OBVIOUS
<1>1. \A i : Begin(i)' = Begin(i) /\ Slot(i)' = Slot(i)
  BY WriterKeepsRing
<1>2. UNCHANGED <<buffersWritten, wLba, wBuf, wPos, actTrackNr, blkCount, disc>> => (DiscIsImage' <=> DiscIsImage)
  BY DEF DiscIsImage
<1>3. WriterInv /\ UNCHANGED <<buffersWritten, wLba, wBuf, wPos, actTrackNr, blkCount, disc>>
        /\ (\/ wpc' = wpc
            \/ wpc' \in Waiting /\ wpc \in Waiting
            \/ wpc' \notin Waiting \cup Holding \cup {"finishDao"})
        => WriterInv'
  BY <1>0, <1>1, <1>2 DEF WriterInv, OnDisc
<1>4. CASE GetSharedMemory \/ InitDao \/ StartReader \/ TestFilled \/ StartDao \/ TestEmpty
  BY <1>3, <1>4 DEF GetSharedMemory, InitDao, StartReader, TestFilled, StartDao, TestEmpty
<1>5. CASE PollWhileFilling \/ PollWhileEmpty
  BY <1>3, <1>5 DEF PollWhileFilling, PollWhileEmpty, PollReader
<1>6. CASE FinishDao \/ SwitchOnResult \/ StopThread \/ KillProcess
  BY <1>3, <1>6 DEF FinishDao, SwitchOnResult, StopThread, KillProcess, AfterStop
<1>7. CASE JoinReader \/ ReleaseSharedMemory \/ Environment
  BY <1>3, <1>7 DEF JoinReader, ReleaseSharedMemory, Environment, TerminationRequest, OtherChildDies
<1>8. CASE TakeBuffer
  <2>1. /\ wpc = "take" /\ wBuf' = Slot(w).fields /\ wPos' = 0
        /\ wpc' = IF wBuf'.bufLen = 0 THEN "finishDao" ELSE "write"
        /\ blkCount' = blkCount + wBuf'.bufLen
        /\ actTrackNr' = IF wBuf'.bufLen # 0 /\ wBuf'.trackNr > 0 THEN wBuf'.trackNr ELSE actTrackNr
        /\ UNCHANGED <<buffersWritten, wLba, disc>>
    BY <1>0, <1>8 DEF TakeBuffer, Slot, WriteSlot
  <2>2. /\ blkCount = Begin(w) /\ OnDisc(blkCount)
        /\ \A t \in Tracks : TrackStart[t] < blkCount /\ blkCount < TrackStart[t + 1]
                => actTrackNr = FirstNumber + t - 1
        /\ wLba = SessionStart + Len(disc) /\ DiscIsImage
    BY <1>0, <2>1 DEF WriterInv
  <2>3. w \in Nat /\ buffersRead \in Nat /\ w < buffersRead
    BY <1>0, <2>1, SlotTypes DEF RingInv, Buffered, WriterHoldsBuffer
  <2>4. /\ Slot(w).fields.bufLen \in Nat /\ Begin(w) \in Int /\ blkCount \in Nat
        /\ TocLength \in Nat /\ rLeft \in Nat
    BY <2>3, SlotTypes DEF TypeInv, TypeOK, WriterTypeOK
  <2>5. DiscIsImage'
    BY <2>1, <2>2 DEF DiscIsImage
  <2>6. OnDisc(blkCount) => OnDisc(blkCount)'  \/ wBuf'.bufLen # 0
    BY <2>1, <2>4 DEF OnDisc
  <2>7. CASE Slot(w).fields.bufLen = 0
    <3>1. rLeft = 0
      BY <1>0, <2>3, <2>7 DEF QueueInv
    <3>2. Begin(w) = TocLength
      BY <2>4, <2>7, <3>1 DEF Begin, Stored
    <3>3. blkCount' = TocLength /\ OnDisc(TocLength)'
      BY <2>1, <2>2, <2>4, <2>7, <3>2 DEF OnDisc
    <3> QED
      BY <2>1, <2>2, <2>5, <2>7, <3>3 DEF WriterInv
  <2>8. CASE Slot(w).fields.bufLen # 0
    <3> DEFINE len == Slot(w).fields.bufLen
    <3>1. HoldsImage(Slot(w), Begin(w))
      BY <1>0, <2>3, <2>8 DEF QueueInv
    <3>2. PICK t \in Tracks : IsPart(t, Begin(w), len) /\ Slot(w).fields = PartFields(t, Begin(w), len)
      BY <3>1 DEF HoldsImage
    <3>3. t \in Nat /\ t >= 1 /\ FirstNumber \in Nat /\ FirstNumber >= 1
          /\ TrackStart[t] \in Nat /\ TrackStart[t + 1] \in Nat
      BY ConstantTypes DEF Tracks
    <3>4. actTrackNr' = FirstNumber + t - 1
      <4>1. CASE Begin(w) = TrackStart[t]
        <5>1. wBuf'.trackNr = FirstNumber + t - 1 /\ wBuf'.trackNr > 0
          BY <2>1, <3>2, <3>3, <4>1 DEF PartFields, Fields
        <5> QED
          BY <2>1, <2>8, <5>1
      <4>2. CASE Begin(w) # TrackStart[t]
        <5>1. wBuf'.trackNr = 0
          BY <2>1, <3>2, <4>2 DEF PartFields, Fields
        <5>2. TrackStart[t] < blkCount /\ blkCount < TrackStart[t + 1]
          BY <2>2, <2>4, <2>8, <3>2, <3>3, <4>2 DEF IsPart
        <5> QED
          BY <2>1, <2>2, <5>1, <5>2
      <4> QED
        BY <4>1, <4>2
    <3>5. ASSUME NEW u \in Tracks, IsPart(u, Begin(w), len)
          PROVE  u = t
      <4>1. TrackStart[u] \in Nat /\ TrackStart[u + 1] \in Nat
        BY ConstantTypes
      <4>2. TrackOf(Begin(w)) = u
        BY <2>4, <2>8, <3>5, <4>1, TrackOfBlock DEF IsPart
      <4>3. TrackOf(Begin(w)) = t
        BY <2>4, <2>8, <3>2, <3>3, TrackOfBlock DEF IsPart
      <4> QED
        BY <4>2, <4>3
    <3>6. \A u \in Tracks : IsPart(u, Begin(w), len) => actTrackNr' = FirstNumber + u - 1
      BY <3>4, <3>5
    <3>7. /\ wpc' = "write" /\ wBuf'.bufLen >= 1 /\ wPos' < wBuf'.bufLen
          /\ blkCount' = Begin(w) + wBuf'.bufLen
      BY <2>1, <2>2, <2>4, <2>8
    <3>8. /\ Begin(buffersWritten)' = Begin(w) /\ Slot(buffersWritten)' = Slot(w)
          /\ wBuf' = Slot(w).fields
      BY <1>0, <1>1, <2>1
    <3>9. Len(disc') = (IF ReadTest THEN 0 ELSE Begin(w) + wPos')
      BY <2>1, <2>2, <2>4 DEF OnDisc
    <3> QED
      BY <2>1, <2>2, <2>5, <3>6, <3>7, <3>8, <3>9 DEF WriterInv, OnDisc
  <2> QED
    BY <2>7, <2>8
<1>9. CASE WriteBlocks
  BY <1>9, WriteAppendsImage
<1>10. CASE SkipBlocks
  <2>1. /\ wpc = "write" /\ ReadTest /\ wpc' = "advance"
        /\ UNCHANGED <<buffersWritten, wLba, wBuf, wPos, actTrackNr, blkCount, disc>>
    BY <1>10 DEF SkipBlocks
  <2>2. DiscIsImage'
    BY <1>2, <2>1 DEF WriterInv
  <2>3. Begin(buffersWritten)' = Begin(w) /\ Slot(buffersWritten)' = Slot(w)
    BY <1>0, <1>1, <2>1
  <2> QED
    BY <1>0, <2>1, <2>2, <2>3 DEF WriterInv, OnDisc
<1>11. CASE ReleaseBuffer
  <2>1. /\ wpc = "advance" /\ buffersWritten' = w + 1
        /\ wpc' \in {"wait", "switch"}
        /\ UNCHANGED <<wLba, wBuf, wPos, actTrackNr, blkCount, disc>>
    BY <1>0, <1>11 DEF ReleaseBuffer
  <2>2. /\ wBuf = Slot(w).fields /\ wBuf.bufLen >= 1 /\ blkCount = Begin(w) + wBuf.bufLen /\ OnDisc(blkCount)
        /\ \A t \in Tracks : IsPart(t, Begin(w), wBuf.bufLen) => actTrackNr = FirstNumber + t - 1
        /\ wLba = SessionStart + Len(disc) /\ DiscIsImage
    BY <1>0, <2>1 DEF WriterInv
  <2>3. w \in Nat /\ buffersRead \in Nat /\ w < buffersRead
    BY <1>0, <2>1, SlotTypes DEF RingInv, Buffered, WriterHoldsBuffer
  <2>4. wBuf.bufLen \in Nat /\ Begin(w) \in Int
    <3>1. Slot(w).fields.bufLen \in 0 .. BufferSize /\ Begin(w) \in Int
      BY <2>3, SlotTypes
    <3> QED
      BY <2>2, <3>1, BufferAssumption
  <2>5. Begin(w + 1) = blkCount /\ HoldsImage(Slot(w), Begin(w))
    BY <1>0, <2>2, <2>3, <2>4 DEF QueueInv
  <2>6. Begin(buffersWritten)' = blkCount
    BY <1>1, <2>1, <2>5
  <2>7. ASSUME NEW t \in Tracks, TrackStart[t] < blkCount, blkCount < TrackStart[t + 1]
        PROVE  actTrackNr = FirstNumber + t - 1
    <3>1. PICK u \in Tracks : IsPart(u, Begin(w), wBuf.bufLen)
      BY <2>2, <2>5 DEF HoldsImage
    <3>2. /\ TrackStart[t] \in Nat /\ TrackStart[t + 1] \in Nat
          /\ TrackStart[u] \in Nat /\ TrackStart[u + 1] \in Nat
          /\ t \in Nat /\ u \in Nat
      BY ConstantTypes
    <3>3. /\ TrackStart[t] < Begin(w) + wBuf.bufLen /\ Begin(w) + wBuf.bufLen < TrackStart[t + 1]
          /\ TrackStart[u] <= Begin(w) /\ Begin(w) + wBuf.bufLen <= TrackStart[u + 1]
          /\ wBuf.bufLen >= 1
      BY <2>2, <2>7, <3>1 DEF IsPart
    <3>4. ~(u < t)
      <4>1. u < t => TrackStart[u + 1] <= TrackStart[t]
        BY Ascending
      <4> QED
        BY <2>4, <3>3, <3>2, <4>1
    <3>5. ~(t < u)
      <4>1. t < u => TrackStart[t + 1] <= TrackStart[u]
        BY Ascending
      <4> QED
        BY <2>4, <3>3, <3>2, <4>1
    <3>6. t = u
      BY <3>2, <3>4, <3>5
    <3>7. \A k \in Tracks : IsPart(k, Begin(w), wBuf.bufLen) => actTrackNr = FirstNumber + k - 1
      BY <2>2
    <3> QED
      BY <3>1, <3>6, <3>7, Zenon
  <2>8. DiscIsImage'
    BY <2>1, <2>2 DEF DiscIsImage
  <2> QED
    BY <2>1, <2>2, <2>6, <2>7, <2>8 DEF WriterInv, OnDisc
<1> QED
  BY <1>4, <1>5, <1>6, <1>7, <1>8, <1>9, <1>10, <1>11 DEF WriterNext

-----------------------------------------------------------------------------
(* All of it is inductive.                                                 *)

LEMMA ImageInit == Init => ImageInv
BY ReaderInit, StoreInit, QueueInit, WriterInit DEF ImageInv

LEMMA ImageStep == Ordered /\ TypeInv /\ RingInv /\ ImageInv /\ [Next]_vars => ImageInv'
<1> SUFFICES ASSUME Ordered, TypeInv, RingInv, ImageInv, [Next]_vars PROVE ImageInv'
  OBVIOUS
<1> USE DEF ImageInv
<1>1. ReaderInv' /\ StoreInv'
  BY ReaderStep, StoreStep
<1>2. CASE ReaderNext
  BY <1>1, <1>2, ReaderExtendsRing, ReaderKeepsWriter
<1>3. CASE WriterNext \/ Environment
  BY <1>1, <1>3, WriterKeepsRing, WriterStep
<1>4. CASE UNCHANGED vars
  <2>1. UNCHANGED <<buffersRead, buffersWritten, buffers, rLeft, wpc, wLba, wBuf, wPos, actTrackNr, blkCount, disc>>
    BY <1>4 DEF vars, headerVars, readerVars, writerVars, driveVars
  <2>2. \A i : Begin(i)' = Begin(i) /\ Slot(i)' = Slot(i)
    BY <2>1 DEF Begin, Slot, Stored
  <2>3. QueueInv'
    <3> SUFFICES ASSUME NEW i \in buffersWritten .. buffersRead - 1
                 PROVE  /\ Begin(i + 1)' = Begin(i)' + Slot(i)'.fields.bufLen
                        /\ IF Slot(i)'.fields.bufLen = 0 THEN rLeft' = 0
                           ELSE HoldsImage(Slot(i)', Begin(i)')
      BY <2>1 DEF QueueInv, HoldsImage, HoldsData
    <3> QED
      BY <2>1, <2>2 DEF QueueInv
  <2>4. WriterInv'
    <3>1. DiscIsImage'
      BY <2>1 DEF WriterInv, DiscIsImage
    <3>2. Begin(buffersWritten)' = Begin(buffersWritten) /\ Slot(buffersWritten)' = Slot(buffersWritten)
      BY <2>1 DEF Begin, Slot, Stored
    <3> QED
      BY <2>1, <3>1, <3>2 DEF WriterInv, OnDisc
  <2> QED
    BY <1>1, <2>3, <2>4
<1> QED
  BY <1>2, <1>3, <1>4 DEF Next, Returned, Environment

LEMMA ImageInvariant == ASSUME Ordered PROVE Spec => [](TypeInv /\ RingInv /\ ImageInv)
<1> USE Ordered
<1>1. Init => TypeInv /\ RingInv /\ ImageInv
  BY TypeInit, RingInit, ImageInit
<1>2. TypeInv /\ RingInv /\ ImageInv /\ [Next]_vars => (TypeInv /\ RingInv /\ ImageInv)'
  BY TypeStep, RingStep, ImageStep
<1> QED
  BY <1>1, <1>2, PTL DEF Spec

\* The recorder gets the blocks of the image, each once, in order, at the
\* address it was encoded for and in the mode of its track, for every TOC.
THEOREM DiscHoldsImage == ASSUME Ordered PROVE Spec => []DiscIsImage
<1>1. ImageInv => DiscIsImage
  BY DEF ImageInv, WriterInv
<1> QED
  BY <1>1, ImageInvariant, PTL

\* The track the writer announces is the one it writes: newTrack reaches it
\* with the first buffer of the track, and with no other.
THEOREM TrackAnnounced == ASSUME Ordered PROVE Spec => []AnnouncedTrackIsWritten
<1>1. ASSUME TypeInv, RingInv, ImageInv PROVE AnnouncedTrackIsWritten
  <2> SUFFICES ASSUME wpc \in Holding
               PROVE  actTrackNr = FirstNumber + TrackOf(blkCount - wBuf.bufLen) - 1
    BY DEF AnnouncedTrackIsWritten, Holding
  <2> DEFINE k == Begin(buffersWritten)
             len == wBuf.bufLen
  <2>1. buffersWritten \in Nat /\ buffersRead \in Nat /\ buffersWritten < buffersRead
    BY <1>1, SlotTypes DEF RingInv, Buffered, WriterHoldsBuffer, Holding
  <2>2. /\ wBuf = Slot(buffersWritten).fields /\ len >= 1 /\ blkCount = k + len
        /\ \A t \in Tracks : IsPart(t, k, len) => actTrackNr = FirstNumber + t - 1
    BY <1>1 DEF ImageInv, WriterInv
  <2>3. Slot(buffersWritten).fields.bufLen \in 0 .. BufferSize /\ k \in Int /\ BufferSize \in Nat
    BY <1>1, <2>1, SlotTypes, BufferAssumption
  <2>4. HoldsImage(Slot(buffersWritten), k)
    BY <1>1, <2>1, <2>2, <2>3 DEF ImageInv, QueueInv
  <2>5. PICK t \in Tracks : IsPart(t, k, len)
    BY <2>2, <2>4 DEF HoldsImage
  <2>6. TrackStart[t] <= k /\ k < TrackStart[t + 1] /\ blkCount - len = k
    BY <2>2, <2>3, <2>5, ConstantTypes DEF IsPart
  <2>7. TrackOf(k) = t
    BY <2>3, <2>6, TrackOfBlock
  <2> QED
    BY <2>2, <2>5, <2>6, <2>7
<1> QED
  BY <1>1, ImageInvariant, PTL

-----------------------------------------------------------------------------
(* The ring, in whatever order the stores become visible.  The writer may  *)
(* then take a buffer that is not there yet, so nothing is said of what it *)
(* does; but a store is late by less than a buffer (ReadBuffer, MarkEnd),  *)
(* and it arrives in the newest slot.                                      *)

\* The number of the buffer that was put last, counted or not.
Newest == IF rpc \in {"publish", "publishEnd"} THEN buffersRead ELSE buffersRead - 1
PutBegin == IF put.n > 0 THEN put.first ELSE Stored
FirstOf(i) == Slot(i).data[0].blk

\* What was put last is the part of the image before the reader's position,
\* or the end marker behind the whole TOC.
PutIsPart ==
    /\ put.first + put.n = Stored
    /\ put.msf = EncodedStart + put.first
    /\ \E t \in Tracks : IsPart(t, put.first, put.n) /\ put.fields = PartFields(t, put.first, put.n)
PutInv ==
    /\ rpc = "publishEnd" => put.n = 0
    /\ Newest >= 0 /\ put.n = 0 => /\ rpc \in {"publishEnd", "return"}
                                   /\ rLeft = 0 /\ put.fields.bufLen = 0
    /\ Newest >= 0 /\ put.n > 0 /\ rpc # "publish" => PutIsPart

\* The parts of it that have arrived are in the newest slot.
ArrivedInv ==
    /\ pending # {} => Newest >= 0
    /\ Newest >= 0 =>
        /\ "data" \notin pending => HoldsData(Slot(Newest).data, put.first, put.n)
        /\ "fields" \notin pending => Slot(Newest).fields = put.fields

\* The slots before it hold the image up to where it begins.
SettledInv ==
    \A i \in buffersWritten .. Newest - 1 :
        /\ HoldsImage(Slot(i), FirstOf(i))
        /\ FirstOf(i) + Slot(i).fields.bufLen = IF i = Newest - 1 THEN PutBegin ELSE FirstOf(i + 1)

AnyOrderInv == PutInv /\ ArrivedInv /\ SettledInv

\* Steps that leave the newest buffer the newest.
Rests == UNCHANGED <<put, pending, buffers>> /\ Newest' = Newest /\ PutBegin' = PutBegin
\* Steps that put a new one.
Puts == ReadBuffer \/ (MarkEnd /\ EndMarkerNeeded)

LEMMA BuffersWrittenGrows ==
    [Next]_vars => buffersWritten' = buffersWritten \/ buffersWritten' = buffersWritten + 1
<1> USE DEF headerVars
<1>1. ReaderNext => buffersWritten' = buffersWritten
  BY DEF ReaderNext, OpenFirstTrack, NextTrack, ReadBuffer, ReadFails, StoreArrives, Publish,
       SetFilled, RingHasRoom, ReadOnOrFinish, SetFinished, MarkEnd, PublishEnd, ReturnFromReader,
       ReaderFails, FailedReaderExits
<1>2. GetSharedMemory \/ InitDao \/ StartReader \/ TestFilled \/ StartDao \/ TestEmpty \/ PollWhileFilling
        \/ PollWhileEmpty \/ TakeBuffer \/ WriteBlocks \/ SkipBlocks => UNCHANGED buffersWritten
  BY DEF GetSharedMemory, InitDao, StartReader, TestFilled, StartDao, TestEmpty,
     PollWhileFilling, PollWhileEmpty, PollReader, TakeBuffer, WriteBlocks, SkipBlocks
<1>3. FinishDao \/ SwitchOnResult \/ StopThread \/ KillProcess \/ JoinReader \/ ReleaseSharedMemory
        \/ Environment => UNCHANGED buffersWritten
  BY DEF FinishDao, SwitchOnResult, StopThread, KillProcess, JoinReader, ReleaseSharedMemory,
     Environment, TerminationRequest, OtherChildDies
<1>4. ReleaseBuffer => buffersWritten' = buffersWritten + 1
  BY DEF ReleaseBuffer
<1>5. UNCHANGED vars => UNCHANGED buffersWritten
  BY DEF vars
<1> QED
  BY <1>1, <1>2, <1>3, <1>4, <1>5 DEF Next, WriterNext, Returned, Environment

LEMMA NewestTypes ==
    ASSUME TypeInv, RingInv
    PROVE  /\ Newest \in Int /\ Newest >= -1 /\ buffersRead - 1 <= Newest /\ Newest <= buffersRead
           /\ Newest - buffersWritten < NofBuffers
           /\ StoreSlot = Newest % NofBuffers
           /\ put \in PutType /\ put.n \in 0 .. BufferSize /\ put.n \in Nat /\ put.first \in Nat
           /\ Stored \in Int /\ PutBegin \in Int
<1>1. /\ buffersRead \in Nat /\ buffersWritten \in Nat /\ NofBuffers \in Nat \ {0}
      /\ buffersRead - buffersWritten \in 0 .. NofBuffers
      /\ rpc \in {"publish", "publishEnd"} => buffersRead - buffersWritten < NofBuffers
  BY ConstantTypes DEF TypeInv, TypeOK, HeaderTypeOK, RingInv, Buffered
<1>2. put \in PutType
  BY DEF TypeInv, TypeOK, ReaderTypeOK, PutType
<1>3. put.n \in 0 .. BufferSize /\ put.n \in Nat /\ put.first \in Nat
  BY <1>2, BufferAssumption DEF PutType
<1>4. Stored \in Int
  BY SlotTypes
<1>5. PutBegin \in Int
  BY <1>3, <1>4 DEF PutBegin
<1>6. StoreSlot = Newest % NofBuffers
  BY DEF StoreSlot, Newest
<1> QED
  BY <1>1, <1>2, <1>3, <1>4, <1>5, <1>6 DEF Newest

\* What rests, and what puts.
LEMMA RestsOrPuts ==
    ASSUME TypeInv, ReaderInv, PutInv, [Next]_vars
    PROVE  \/ Rests
           \/ StoreArrives
           \/ Puts
<1> USE DEF Rests, Newest, PutBegin, Stored, headerVars, readerVars
<1>1. /\ buffersRead \in Nat /\ rLeft \in Nat /\ TocLength \in Nat
      /\ put \in PutType /\ put.n \in Nat
  <2>1. put \in PutType
    BY DEF TypeInv, TypeOK, ReaderTypeOK, PutType
  <2>2. put.n \in Nat
    BY <2>1, BufferAssumption DEF PutType
  <2> QED
    BY <2>1, <2>2, SlotTypes
<1>2. CASE OpenFirstTrack \/ NextTrack \/ ReadFails \/ SetFilled \/ RingHasRoom
  BY <1>2 DEF OpenFirstTrack, NextTrack, ReadFails, SetFilled, RingHasRoom
<1>3. CASE ReadOnOrFinish \/ SetFinished \/ ReturnFromReader \/ ReaderFails \/ FailedReaderExits
  BY <1>3 DEF ReadOnOrFinish, SetFinished, ReturnFromReader, ReaderFails, FailedReaderExits
<1>4. CASE MarkEnd /\ ~EndMarkerNeeded
  BY <1>4 DEF MarkEnd
<1>5. CASE Publish
  <2>1. put.n > 0
    BY <1>1, <1>5 DEF Publish, TypeInv, ReaderPositionInv
  <2> QED
    BY <1>1, <1>5, <2>1 DEF Publish
<1>6. CASE PublishEnd
  BY <1>1, <1>6 DEF PublishEnd
<1>7. CASE WriterNext \/ Environment
  BY <1>7, WriterFrame
<1>8. CASE UNCHANGED vars
  BY <1>8 DEF vars
<1> QED
  BY <1>2, <1>3, <1>4, <1>5, <1>6, <1>7, <1>8 DEF Next, ReaderNext, Returned, Environment, Puts

LEMMA PutStep == TypeInv /\ ReaderInv /\ PutInv /\ [Next]_vars => PutInv'
<1> SUFFICES ASSUME TypeInv, ReaderInv, PutInv, [Next]_vars PROVE PutInv'
  OBVIOUS
<1> USE DEF PutInv, PutIsPart, Newest, Stored, headerVars, readerVars
<1>1. /\ buffersRead \in Nat /\ rLeft \in Nat /\ TocLength \in Nat /\ EncodedStart \in Int
      /\ put \in PutType /\ put.n \in Nat /\ put.first \in Nat
  <2>1. put \in PutType
    BY DEF TypeInv, TypeOK, ReaderTypeOK, PutType
  <2>2. put.n \in Nat /\ put.first \in Nat
    BY <2>1, BufferAssumption DEF PutType
  <2> QED
    BY <2>1, <2>2, SlotTypes, ConstantTypes
<1>2. TypeInv' /\ ReaderInv'
  BY TypeStep, ReaderStep
<1>3. CASE ReadBuffer
  <2>1. rpc' = "publish"
    BY <1>3 DEF ReadBuffer
  <2>2. put'.n >= 1
    BY <1>2, <2>1 DEF TypeInv, ReaderPositionInv
  <2> QED
    BY <2>1, <2>2
<1>4. CASE MarkEnd /\ EndMarkerNeeded
  <2>1. rpc' = "publishEnd" /\ put'.n = 0
    BY <1>1, <1>4 DEF MarkEnd, PutType
  <2>2. rLeft' = 0 /\ put'.fields.bufLen = 0
    BY <1>2, <2>1 DEF ReaderInv
  <2> QED
    BY <2>1, <2>2
<1>5. CASE MarkEnd /\ ~EndMarkerNeeded
  BY <1>1, <1>5 DEF MarkEnd
<1>6. CASE Publish
  <2>1. /\ rpc = "publish" /\ rpc' \in {"filled", "full"} /\ put' = put
        /\ rLeft' = rLeft - put.n /\ buffersRead' = buffersRead + 1
    BY <1>6 DEF Publish
  <2>2. /\ put.n >= 1 /\ put.first = Stored /\ put.msf = EncodedStart + put.first /\ rTrack \in Tracks
        /\ IsPart(rTrack, put.first, put.n) /\ put.fields = PartFields(rTrack, put.first, put.n)
    BY <2>1 DEF ReaderInv, TypeInv, TypeOK, ReaderTypeOK, ReaderPositionInv
  <2>3. put'.first + put'.n = Stored'
    BY <1>1, <2>1, <2>2
  <2> QED
    BY <1>1, <2>1, <2>2, <2>3
<1>7. CASE PublishEnd
  BY <1>1, <1>7 DEF PublishEnd, ReaderInv
<1>8. CASE StoreArrives
  BY <1>8 DEF StoreArrives
<1>9. CASE OpenFirstTrack \/ NextTrack \/ ReadFails \/ SetFilled \/ RingHasRoom
  BY <1>1, <1>9 DEF OpenFirstTrack, NextTrack, ReadFails, SetFilled, RingHasRoom
<1>10. CASE ReadOnOrFinish \/ SetFinished \/ ReturnFromReader \/ ReaderFails \/ FailedReaderExits
  BY <1>1, <1>10 DEF ReadOnOrFinish, SetFinished, ReturnFromReader, ReaderFails, FailedReaderExits
<1>11. CASE WriterNext \/ Environment
  BY <1>11, WriterFrame
<1>12. CASE UNCHANGED vars
  BY <1>12 DEF vars
<1> QED
  BY <1>3, <1>4, <1>5, <1>6, <1>7, <1>8, <1>9, <1>10, <1>11, <1>12 DEF Next, ReaderNext, Returned, Environment

LEMMA RestKeepsRing ==
    ASSUME TypeInv, RingInv, ArrivedInv, SettledInv, Rests, [Next]_vars
    PROVE  ArrivedInv' /\ SettledInv'
<1>0. PICK w, m, b : w = buffersWritten /\ m = Newest /\ b = PutBegin
  OBVIOUS
<1>1. w \in Nat /\ m \in Int /\ (buffersWritten' = w \/ buffersWritten' = w + 1)
  BY <1>0, SlotTypes, NewestTypes, BuffersWrittenGrows
<1>2. UNCHANGED <<put, pending>> /\ Newest' = m /\ PutBegin' = b
  BY <1>0 DEF Rests
<1>3. \A i : Slot(i)' = Slot(i) /\ FirstOf(i)' = FirstOf(i)
  BY DEF Rests, Slot, FirstOf
<1>4. ArrivedInv'
  BY <1>0, <1>2, <1>3 DEF ArrivedInv, HoldsData
<1>5. SettledInv'
  <2> SUFFICES ASSUME NEW i \in w .. m - 1
               PROVE  /\ HoldsImage(Slot(i)', FirstOf(i)')
                      /\ FirstOf(i)' + Slot(i)'.fields.bufLen = IF i = m - 1 THEN b ELSE FirstOf(i + 1)'
    BY <1>1, <1>2 DEF SettledInv, HoldsImage, HoldsData
  <2> QED
    BY <1>0, <1>3 DEF SettledInv
<1> QED
  BY <1>4, <1>5

LEMMA ArrivalKeepsRing ==
    ASSUME TypeInv, RingInv, ReaderInv, PutInv, ArrivedInv, SettledInv, StoreArrives
    PROVE  ArrivedInv' /\ SettledInv'
<1>0. PICK w, m, b : w = buffersWritten /\ m = Newest /\ b = PutBegin
  OBVIOUS
<1>1. /\ w \in Nat /\ m \in Nat /\ m - w < NofBuffers /\ NofBuffers \in Nat \ {0}
      /\ BuffersTypeOK /\ put \in PutType /\ EncodedStart \in Int /\ pending \subseteq {"data", "fields"}
      /\ StoreSlot = m % NofBuffers
  <2>1. pending # {}
    BY DEF StoreArrives
  <2>2. m \in Int /\ m >= 0
    BY <1>0, <2>1, NewestTypes DEF ArrivedInv
  <2> QED
    BY <1>0, <2>2, SlotTypes, NewestTypes, ConstantTypes DEF TypeInv, TypeOK, ReaderTypeOK
<1>2. PICK part \in pending :
        /\ pending' = pending \ {part}
        /\ buffers' = IF part = "fields" THEN [buffers EXCEPT ![StoreSlot].fields = put.fields]
                      ELSE [buffers EXCEPT ![StoreSlot].data = NewData(@)]
  BY DEF StoreArrives
<1>3. UNCHANGED <<buffersRead, buffersWritten, rpc, put, rLeft>>
  BY DEF StoreArrives, headerVars, readerVars
<1>4. Newest' = m /\ PutBegin' = b
  BY <1>0, <1>3 DEF Newest, PutBegin, Stored
<1>5. StoreSlot \in 0 .. NofBuffers - 1 /\ buffers[StoreSlot] \in SlotType
  BY <1>1 DEF BuffersTypeOK, SlotType
<1>6. ASSUME NEW i \in w .. m - 1
      PROVE  Slot(i)' = Slot(i) /\ FirstOf(i)' = FirstOf(i)
  <2>1. i \in Nat /\ i < m /\ m - i < NofBuffers /\ i % NofBuffers \in 0 .. NofBuffers - 1
    BY <1>1
  <2>2. i % NofBuffers # StoreSlot
    BY <1>1, <2>1, SlotsDiffer
  <2>3. buffers'[i % NofBuffers] = buffers[i % NofBuffers]
    BY <1>1, <1>2, <2>1, <2>2 DEF BuffersTypeOK
  <2> QED
    BY <2>3 DEF Slot, FirstOf
<1>7. SettledInv'
  <2> SUFFICES ASSUME NEW i \in w .. m - 1
               PROVE  /\ HoldsImage(Slot(i)', FirstOf(i)')
                      /\ FirstOf(i)' + Slot(i)'.fields.bufLen = IF i = m - 1 THEN b ELSE FirstOf(i + 1)'
    BY <1>0, <1>3, <1>4 DEF SettledInv, HoldsImage, HoldsData
  <2>1. i # m - 1 => i + 1 \in w .. m - 1
    BY <1>1
  <2> QED
    BY <1>0, <1>6, <2>1 DEF SettledInv
<1>8. CASE part = "fields"
  <2>1. buffers'[StoreSlot] = [buffers[StoreSlot] EXCEPT !.fields = put.fields]
    BY <1>1, <1>2, <1>5, <1>8 DEF BuffersTypeOK
  <2>2. buffers'[StoreSlot].fields = put.fields /\ buffers'[StoreSlot].data = buffers[StoreSlot].data
    BY <1>5, <2>1 DEF SlotType
  <2>3. Slot(Newest)' = buffers'[StoreSlot] /\ Slot(m) = buffers[StoreSlot]
    BY <1>1, <1>4 DEF Slot
  <2>4. "data" \notin pending' => HoldsData(Slot(Newest)'.data, put.first, put.n)
    BY <1>0, <1>1, <1>2, <1>8, <2>2, <2>3 DEF ArrivedInv
  <2> QED
    BY <1>1, <1>3, <1>4, <1>7, <2>2, <2>3, <2>4 DEF ArrivedInv, HoldsData
<1>9. CASE part = "data"
  <2>1. buffers'[StoreSlot] = [buffers[StoreSlot] EXCEPT !.data = NewData(buffers[StoreSlot].data)]
    BY <1>1, <1>2, <1>5, <1>9 DEF BuffersTypeOK
  <2>2. /\ buffers'[StoreSlot].data = NewData(buffers[StoreSlot].data)
        /\ buffers'[StoreSlot].fields = buffers[StoreSlot].fields
    BY <1>5, <2>1 DEF SlotType
  <2>3. HoldsData(buffers'[StoreSlot].data, put.first, put.n)
    <3> SUFFICES ASSUME NEW j \in 0 .. put.n - 1
                 PROVE  buffers'[StoreSlot].data[j] = Block(put.first + j, EncodedStart + put.first + j)
      BY DEF HoldsData
    <3>1. put.n \in 0 .. BufferSize /\ put.first \in Nat /\ put.n > 0
      BY <1>1, BufferAssumption DEF PutType
    <3>2. put.msf = EncodedStart + put.first
      BY <1>0, <1>1, <3>1 DEF PutInv, PutIsPart, ReaderInv
    <3>3. j \in 0 .. BufferSize - 1 /\ j < put.n
      BY <3>1, BufferAssumption
    <3> QED
      BY <2>2, <3>1, <3>2, <3>3 DEF NewData
  <2>4. Slot(Newest)' = buffers'[StoreSlot] /\ Slot(m) = buffers[StoreSlot]
    BY <1>1, <1>4 DEF Slot
  <2>5. "fields" \notin pending' => Slot(Newest)'.fields = put.fields
    BY <1>0, <1>1, <1>2, <1>9, <2>2, <2>4 DEF ArrivedInv
  <2> QED
    BY <1>1, <1>3, <1>4, <1>7, <2>3, <2>4, <2>5 DEF ArrivedInv, HoldsData
<1> QED
  BY <1>1, <1>2, <1>8, <1>9

\* The stores of the last buffer have arrived when the next one is put.
LEMMA LastPutSettled ==
    ASSUME TypeInv, RingInv, PutInv, ArrivedInv, pending = {}, Newest >= 0, rpc # "publish", put.n > 0
    PROVE  /\ HoldsImage(Slot(Newest), FirstOf(Newest))
           /\ FirstOf(Newest) = put.first
           /\ Slot(Newest).fields.bufLen = put.n
           /\ put.first + put.n = Stored
<1>1. /\ HoldsData(Slot(Newest).data, put.first, put.n)
      /\ Slot(Newest).fields = put.fields
      /\ PutIsPart
  BY DEF ArrivedInv, PutInv
<1>2. put.n \in Nat /\ put.first \in Nat /\ EncodedStart \in Int
  BY NewestTypes, ConstantTypes
<1>3. Slot(Newest).fields.bufLen = put.n
  BY <1>1 DEF PutIsPart, PartFields, Fields
<1>4. 0 \in 0 .. put.n - 1
  BY <1>2
<1>5. Slot(Newest).data[0] = Block(put.first + 0, EncodedStart + put.first + 0)
  BY <1>1, <1>4 DEF HoldsData
<1>6. FirstOf(Newest) = put.first
  BY <1>2, <1>5 DEF FirstOf, Block
<1>7. HoldsImage(Slot(Newest), put.first)
  BY <1>1, <1>2, <1>3 DEF HoldsImage, PutIsPart
<1> QED
  BY <1>1, <1>3, <1>6, <1>7 DEF PutIsPart

LEMMA PutKeepsRing ==
    ASSUME TypeInv, RingInv, ReaderInv, PutInv, ArrivedInv, SettledInv, Puts, TypeInv', ReaderInv'
    PROVE  ArrivedInv' /\ SettledInv'
<1>0. PICK w, m, b : w = buffersWritten /\ m = Newest /\ b = PutBegin
  OBVIOUS
<1>1. /\ w \in Nat /\ m \in Int /\ m >= -1 /\ buffersRead \in Nat /\ b \in Int /\ Stored \in Int
      /\ put.n \in Nat /\ put \in PutType
  BY <1>0, SlotTypes, NewestTypes
<1>2. /\ pending = {} /\ rpc \in {"read", "mark"}
      /\ UNCHANGED <<buffersRead, buffersWritten, buffers, rLeft>>
      /\ rpc' \in {"publish", "publishEnd"}
  BY DEF Puts, ReadBuffer, MarkEnd, headerVars
<1>3. m = buffersRead - 1 /\ Newest' = m + 1 /\ Newest' \in Nat /\ Stored' = Stored
  BY <1>0, <1>1, <1>2 DEF Newest, Stored
<1>4. \A i : Slot(i)' = Slot(i) /\ FirstOf(i)' = FirstOf(i)
  BY <1>2 DEF Slot, FirstOf
<1>5. PutBegin' = Stored
  <2>1. CASE ReadBuffer
    <3>1. rpc' = "publish"
      BY <2>1 DEF ReadBuffer
    <3>2. put'.first = Stored'
      BY <3>1 DEF ReaderInv
    <3> QED
      BY <1>3, <3>2 DEF PutBegin
  <2>2. CASE MarkEnd /\ EndMarkerNeeded
    <3>1. put'.n = 0
      BY <1>1, <2>2 DEF MarkEnd, PutType
    <3> QED
      BY <1>3, <3>1 DEF PutBegin
  <2> QED
    BY <2>1, <2>2 DEF Puts
<1>6. ArrivedInv'
  <2>1. CASE ReadBuffer
    <3>1. pending' = {"data", "fields"}
      BY <2>1 DEF ReadBuffer
    <3> QED
      BY <1>3, <3>1 DEF ArrivedInv
  <2>2. CASE MarkEnd /\ EndMarkerNeeded
    <3>1. pending' = {"fields"} /\ put'.n = 0
      BY <1>1, <2>2 DEF MarkEnd, PutType
    <3> QED
      BY <1>3, <3>1 DEF ArrivedInv, HoldsData
  <2> QED
    BY <2>1, <2>2 DEF Puts
<1>7. m >= 0 => /\ put.n > 0 /\ b = put.first
                /\ HoldsImage(Slot(m), FirstOf(m))
                /\ FirstOf(m) = b
                /\ FirstOf(m) + Slot(m).fields.bufLen = Stored
  <2> SUFFICES ASSUME m >= 0
               PROVE  /\ put.n > 0 /\ b = put.first
                      /\ HoldsImage(Slot(m), FirstOf(m))
                      /\ FirstOf(m) = b
                      /\ FirstOf(m) + Slot(m).fields.bufLen = Stored
    OBVIOUS
  <2>1. put.n > 0
    BY <1>0, <1>1, <1>2 DEF PutInv
  <2>2. b = put.first
    BY <1>0, <2>1 DEF PutBegin
  <2> QED
    BY <1>0, <1>2, <2>1, <2>2, LastPutSettled
<1>8. SettledInv'
  <2> SUFFICES ASSUME NEW i \in w .. m
               PROVE  /\ HoldsImage(Slot(i), FirstOf(i))
                      /\ FirstOf(i) + Slot(i).fields.bufLen = IF i = m THEN Stored ELSE FirstOf(i + 1)
    <3>1. buffersWritten' = w /\ (Newest - 1)' = m
      BY <1>0, <1>1, <1>2, <1>3
    <3> QED
      BY <1>4, <1>5, <3>1 DEF SettledInv, HoldsImage, HoldsData
  <2>1. CASE i = m
    BY <1>1, <1>7, <2>1
  <2>2. CASE i # m
    <3>1. i \in w .. m - 1 /\ m >= 0
      BY <1>1, <2>2
    <3>2. /\ HoldsImage(Slot(i), FirstOf(i))
          /\ FirstOf(i) + Slot(i).fields.bufLen = IF i = m - 1 THEN b ELSE FirstOf(i + 1)
      BY <1>0, <3>1 DEF SettledInv
    <3>3. i = m - 1 => i + 1 = m
      BY <1>1
    <3> QED
      BY <1>7, <2>2, <3>1, <3>2, <3>3
  <2> QED
    BY <2>1, <2>2
<1> QED
  BY <1>6, <1>8

LEMMA AnyOrderInit == Init => AnyOrderInv
<1> SUFFICES ASSUME Init PROVE AnyOrderInv
  OBVIOUS
<1>1. Newest = -1 /\ pending = {} /\ rpc = "open" /\ buffersWritten = 0
  BY DEF Init, Newest
<1> QED
  BY <1>1 DEF AnyOrderInv, PutInv, ArrivedInv, SettledInv

LEMMA AnyOrderInvariant == Spec => [](TypeInv /\ RingInv /\ ReaderInv /\ AnyOrderInv)
<1>1. Init => TypeInv /\ RingInv /\ ReaderInv /\ AnyOrderInv
  BY TypeInit, RingInit, ReaderInit, AnyOrderInit
<1>2. ASSUME TypeInv, RingInv, ReaderInv, AnyOrderInv, [Next]_vars
      PROVE  TypeInv' /\ RingInv' /\ ReaderInv' /\ AnyOrderInv'
  <2>1. TypeInv' /\ RingInv' /\ ReaderInv' /\ PutInv'
    BY <1>2, TypeStep, RingStep, ReaderStep, PutStep DEF AnyOrderInv
  <2>2. ArrivedInv' /\ SettledInv'
    BY <1>2, <2>1, RestsOrPuts, RestKeepsRing, ArrivalKeepsRing, PutKeepsRing DEF AnyOrderInv
  <2> QED
    BY <2>1, <2>2 DEF AnyOrderInv
<1>3. TypeInv /\ RingInv /\ ReaderInv /\ AnyOrderInv /\ [Next]_vars
        => (TypeInv /\ RingInv /\ ReaderInv /\ AnyOrderInv)'
  BY <1>2
<1> QED
  BY <1>1, <1>3, PTL DEF Spec

\* In whatever order the reader's stores become visible: a counted buffer all
\* of whose stores have arrived holds the blocks of the image that follow the
\* buffer before it.  Only the newest buffer can be counted too early.
THEOREM LandedBuffersHold == Spec => []LandedBuffersHoldImage
<1>1. ASSUME TypeInv, RingInv, ReaderInv, AnyOrderInv PROVE LandedBuffersHoldImage
  <2>0. PICK w, r, m : w = buffersWritten /\ r = buffersRead /\ m = Newest
    OBVIOUS
  <2>1. /\ w \in Nat /\ r \in Nat /\ m \in Int /\ (m = r - 1 \/ m = r)
        /\ StoreSlot = m % NofBuffers /\ Stored \in Int /\ PutBegin \in Int
        /\ put.n \in Nat /\ put.first \in Nat
        /\ PutInv /\ ArrivedInv /\ SettledInv
    BY <1>1, <2>0, SlotTypes, NewestTypes DEF AnyOrderInv, Newest
  <2>2. \A i \in Nat : FirstBlock(i) = IF i < r /\ Slot(i).fields.bufLen > 0 THEN FirstOf(i) ELSE Stored
    BY <2>0 DEF FirstBlock, FirstOf, Slot, Stored
  <2>3. m = r => PutBegin = Stored
    BY <1>1, <2>0, <2>1 DEF PutBegin, PutInv, ReaderInv, Newest
  <2>4. ASSUME NEW i \in w .. r - 1, Landed(i)
        PROVE  i < m \/ (i = m /\ pending = {})
    BY <2>0, <2>1, <2>4 DEF Landed
  <2>5. ASSUME NEW i \in w .. r - 1, i = m, pending = {}
        PROVE  /\ IF Slot(i).fields.bufLen = 0 THEN rLeft = 0 /\ put.n = 0
                  ELSE HoldsImage(Slot(i), FirstOf(i)) /\ put.n > 0 /\ FirstOf(i) = put.first
               /\ FirstBlock(i) = PutBegin
               /\ FirstBlock(i) + Slot(i).fields.bufLen = Stored
    <3>1. i \in Nat /\ m >= 0 /\ m = r - 1 /\ i < r
      BY <2>1, <2>5
    <3>2. rpc # "publish"
      BY <2>0, <2>1, <3>1 DEF Newest
    <3>3. CASE put.n = 0
      <4>1. rLeft = 0 /\ Slot(i).fields.bufLen = 0
        BY <2>0, <2>1, <2>5, <3>1, <3>3 DEF PutInv, ArrivedInv
      <4>2. FirstBlock(i) = Stored /\ PutBegin = Stored
        BY <2>2, <3>1, <3>3, <4>1 DEF PutBegin
      <4> QED
        BY <2>1, <3>3, <4>1, <4>2
    <3>4. CASE put.n > 0
      <4>1. /\ HoldsImage(Slot(i), FirstOf(i)) /\ FirstOf(i) = put.first
            /\ Slot(i).fields.bufLen = put.n /\ put.first + put.n = Stored
        BY <1>1, <2>0, <2>1, <2>5, <3>1, <3>2, <3>4, LastPutSettled
      <4>2. FirstBlock(i) = put.first /\ PutBegin = put.first
        BY <2>1, <2>2, <3>1, <3>4, <4>1 DEF PutBegin
      <4> QED
        BY <2>1, <3>4, <4>1, <4>2
    <3> QED
      BY <2>1, <3>3, <3>4
  <2>6. ASSUME NEW i \in w .. r - 1, i < m
        PROVE  /\ HoldsImage(Slot(i), FirstOf(i)) /\ Slot(i).fields.bufLen >= 1
               /\ FirstBlock(i) = FirstOf(i)
               /\ FirstOf(i) + Slot(i).fields.bufLen = IF i = m - 1 THEN PutBegin ELSE FirstOf(i + 1)
    <3>1. i \in w .. m - 1 /\ i \in Nat /\ i < r
      BY <2>1, <2>6
    <3>2. HoldsImage(Slot(i), FirstOf(i))
      BY <2>0, <2>1, <3>1 DEF SettledInv
    <3>3. Slot(i).fields.bufLen >= 1 /\ Slot(i).fields.bufLen \in 0 .. BufferSize
      BY <1>1, <3>1, <3>2, SlotTypes DEF HoldsImage
    <3>4. FirstBlock(i) = FirstOf(i)
      BY <2>2, <3>1, <3>3, BufferAssumption
    <3> QED
      BY <2>0, <2>1, <3>1, <3>2, <3>3, <3>4 DEF SettledInv
  <2> SUFFICES ASSUME NEW i \in w .. r - 1, Landed(i)
               PROVE  /\ \A j \in 0 .. Slot(i).fields.bufLen - 1 :
                            ImageBlock(FirstBlock(i) + j) =
                                [lba |-> SessionStart + (FirstBlock(i) + j), block |-> Slot(i).data[j],
                                 mode |-> Slot(i).fields.mode, sub |-> Slot(i).fields.sub]
                      /\ Slot(i).fields.bufLen = 0 => rLeft = 0
                      /\ i + 1 = r \/ Landed(i + 1) =>
                            FirstBlock(i + 1) = FirstBlock(i) + Slot(i).fields.bufLen
    BY <2>0 DEF LandedBuffersHoldImage, Slot
  <2>7. i \in Nat /\ i + 1 \in Nat /\ i < r /\ (i + 1 = r \/ i + 1 \in w .. r - 1)
        /\ Slot(i).fields.bufLen \in 0 .. BufferSize /\ BufferSize \in Nat
    <3>1. i \in Nat /\ i + 1 \in Nat /\ i < r /\ (i + 1 = r \/ i + 1 \in w .. r - 1)
      BY <2>1
    <3> QED
      BY <1>1, <3>1, SlotTypes, BufferAssumption
  <2>8. i < m \/ (i = m /\ pending = {})
    BY <2>4
  <2>9. ASSUME Slot(i).fields.bufLen # 0, NEW j \in 0 .. Slot(i).fields.bufLen - 1
        PROVE  ImageBlock(FirstBlock(i) + j) =
                   [lba |-> SessionStart + (FirstBlock(i) + j), block |-> Slot(i).data[j],
                    mode |-> Slot(i).fields.mode, sub |-> Slot(i).fields.sub]
    <3>1. HoldsImage(Slot(i), FirstOf(i))
      BY <2>5, <2>6, <2>8, <2>9
    <3>2. PICK k, n : k = FirstOf(i) /\ n = Slot(i).fields.bufLen
      OBVIOUS
    <3>3. PICK t \in Tracks : IsPart(t, k, n) /\ Slot(i).fields = PartFields(t, k, n)
      BY <3>1, <3>2 DEF HoldsImage
    <3>4. FirstBlock(i) = k /\ n \in Nat
      BY <2>2, <2>7, <2>9, <3>2
    <3>5. k \in Nat
      <4>1. k \in Int
        BY <2>5, <2>6, <2>8, <2>9, <3>2, <3>4, <1>1, <2>7, SlotTypes DEF FirstBlock, Begin, Slot
      <4> QED
        BY <3>3, <4>1, ConstantTypes DEF IsPart
    <3>6. Slot(i).data[j] = Block(k + j, EncodedStart + k + j)
      BY <2>9, <3>1, <3>2 DEF HoldsImage, HoldsData
    <3>7. Slot(i).fields.mode = WriteMode(t) /\ Slot(i).fields.sub = SubChanType[t]
      BY <3>3 DEF PartFields, Fields
    <3>8. ImageBlock(k + j) = [lba |-> SessionStart + (k + j), block |-> Block(k + j, EncodedStart + k + j),
                               mode |-> WriteMode(t), sub |-> SubChanType[t]]
      BY <2>9, <3>2, <3>3, <3>4, <3>5, PartOfImage
    <3> QED
      BY <3>4, <3>6, <3>7, <3>8
  <2>10. Slot(i).fields.bufLen = 0 => rLeft = 0
    BY <2>5, <2>6, <2>7, <2>8
  <2>11. ASSUME i + 1 = r \/ Landed(i + 1)
         PROVE  FirstBlock(i + 1) = FirstBlock(i) + Slot(i).fields.bufLen
    <3>1. CASE i + 1 = r
      <4>1. FirstBlock(i + 1) = Stored
        BY <2>1, <2>2, <2>7, <3>1
      <4>2. CASE i < m
        <5>1. m = r /\ i = m - 1
          BY <2>1, <2>7, <3>1, <4>2
        <5> QED
          BY <2>3, <2>6, <4>1, <4>2, <5>1
      <4>3. CASE i = m /\ pending = {}
        BY <2>5, <4>1, <4>3
      <4> QED
        BY <2>8, <4>2, <4>3
    <3>2. CASE i + 1 \in w .. r - 1 /\ Landed(i + 1)
      <4>1. i < m /\ (i + 1 < m \/ (i + 1 = m /\ pending = {}))
        BY <2>1, <2>4, <2>7, <3>2
      <4>2. CASE i + 1 < m
        <5>1. FirstBlock(i + 1) = FirstOf(i + 1) /\ i # m - 1
          BY <2>1, <2>6, <2>7, <3>2, <4>2
        <5> QED
          BY <2>6, <4>1, <5>1
      <4>3. CASE i + 1 = m /\ pending = {}
        <5>1. FirstBlock(i + 1) = PutBegin /\ i = m - 1
          BY <2>1, <2>5, <2>7, <3>2, <4>3
        <5> QED
          BY <2>6, <4>1, <5>1
      <4> QED
        BY <4>1, <4>2, <4>3
    <3> QED
      BY <2>7, <2>11, <3>1, <3>2
  <2> QED
    BY <2>7, <2>9, <2>10, <2>11
<1> QED
  BY <1>1, AnyOrderInvariant, PTL

-----------------------------------------------------------------------------
(***************************************************************************)
(* Part 3: what the caller of writeDiskAtOnce() is promised.               *)
(***************************************************************************)

(* The first filling of the ring.                                          *)

\* `first' counts the buffers that are missing, as long as there is something
\* to be read; buffersFilled is set when there are none.
FillInv ==
    /\ rFirst > 0 /\ rLeft > 0 => rFirst + buffersRead = NofBuffers
    /\ buffersFilled = 1 \/ rpc = "filled" => buffersRead >= NofBuffers \/ rLeft = 0
    /\ wpc \in {"alloc", "initDao", "create", "waitFilled", "pollFilled", "startDao"} => buffersWritten = 0
    /\ wpc = "startDao" => buffersFilled = 1

LEMMA FillInit == Init => FillInv
<1> SUFFICES ASSUME Init PROVE FillInv
  OBVIOUS
<1>1. NofBuffers \in Nat
  BY ConstantTypes
<1> QED
  BY <1>1 DEF Init, FillInv

LEMMA FillStep == TypeInv /\ RingInv /\ ReaderInv /\ FillInv /\ [Next]_vars => FillInv'
<1> SUFFICES ASSUME TypeInv, RingInv, ReaderInv, FillInv, [Next]_vars PROVE FillInv'
  OBVIOUS
<1> USE DEF FillInv, headerVars, readerVars, WriterReturns
<1>1. /\ NofBuffers \in Nat \ {0} /\ buffersRead \in Nat /\ buffersWritten \in Nat /\ buffersFilled \in {0, 1}
      /\ rLeft \in Nat /\ rFirst \in Nat /\ put.n \in 0 .. BufferSize /\ BufferSize \in Nat
  BY ConstantTypes, BufferAssumption DEF TypeInv, TypeOK, HeaderTypeOK, ReaderTypeOK, FlagType
<1>2. CASE ReaderNext
  <2>1. wpc' = wpc /\ buffersWritten' = buffersWritten
    BY <1>2, ReaderFrame DEF ReaderUnchanged, ReaderNext, OpenFirstTrack, NextTrack, ReadBuffer, ReadFails,
       StoreArrives, Publish, SetFilled, RingHasRoom, ReadOnOrFinish, SetFinished, MarkEnd, PublishEnd,
       ReturnFromReader, ReaderFails, FailedReaderExits
  <2>2. CASE Publish
    <3>1. /\ rpc = "publish" /\ buffersRead' = buffersRead + 1 /\ rLeft' = rLeft - put.n
          /\ rFirst' = LessFirst /\ UNCHANGED buffersFilled
          /\ rpc' = IF FirstFill(rLeft - put.n) THEN "filled" ELSE "full"
          /\ put.n >= 1 /\ put.n <= rLeft
      BY <2>2 DEF Publish, TypeInv, ReaderPositionInv
    <3>2. rFirst' > 0 /\ rLeft' > 0 => rFirst' + buffersRead' = NofBuffers
      BY <1>1, <3>1 DEF LessFirst
    <3>3. buffersFilled' = 1 => buffersRead' >= NofBuffers \/ rLeft' = 0
      BY <1>1, <3>1
    <3>4. FirstFill(rLeft - put.n) => buffersRead' >= NofBuffers \/ rLeft' = 0
      BY <1>1, <3>1 DEF FirstFill
    <3> QED
      BY <2>1, <3>1, <3>2, <3>3, <3>4
  <2>3. CASE PublishEnd
    <3>1. /\ rpc = "publishEnd" /\ rpc' = "return" /\ buffersRead' = buffersRead + 1
          /\ UNCHANGED <<buffersFilled, rFirst, rLeft>> /\ rLeft = 0
      BY <2>3 DEF PublishEnd, ReaderInv
    <3> QED
      BY <1>1, <2>1, <3>1
  <2>4. CASE SetFilled
    BY <1>1, <2>1, <2>4 DEF SetFilled
  <2>5. CASE OpenFirstTrack \/ NextTrack \/ ReadBuffer \/ ReadFails \/ StoreArrives
    BY <1>1, <2>1, <2>5 DEF OpenFirstTrack, NextTrack, ReadBuffer, ReadFails, StoreArrives
  <2>6. CASE RingHasRoom \/ ReadOnOrFinish \/ SetFinished \/ MarkEnd
    BY <1>1, <2>1, <2>6 DEF RingHasRoom, ReadOnOrFinish, SetFinished, MarkEnd
  <2>7. CASE ReturnFromReader \/ ReaderFails \/ FailedReaderExits
    BY <1>1, <2>1, <2>7 DEF ReturnFromReader, ReaderFails, FailedReaderExits
  <2> QED
    BY <1>2, <2>2, <2>3, <2>4, <2>5, <2>6, <2>7 DEF ReaderNext
<1>3. CASE WriterNext \/ Environment
  <2>1. UNCHANGED <<rpc, rFirst, rLeft, buffersRead>>
    BY <1>3, WriterFrame
  <2>2. CASE GetSharedMemory \/ InitDao \/ StartReader \/ TestEmpty
    BY <2>1, <2>2 DEF GetSharedMemory, InitDao, StartReader, TestEmpty
  <2>3. CASE TestFilled \/ StartDao
    BY <1>1, <2>1, <2>3 DEF TestFilled, StartDao
  <2>4. CASE PollWhileFilling \/ PollWhileEmpty
    BY <2>1, <2>4 DEF PollWhileFilling, PollWhileEmpty, PollReader
  <2>5. CASE TakeBuffer \/ WriteBlocks \/ SkipBlocks \/ ReleaseBuffer
    BY <2>1, <2>5 DEF TakeBuffer, WriteBlocks, SkipBlocks, ReleaseBuffer
  <2>6. CASE FinishDao \/ SwitchOnResult \/ StopThread \/ KillProcess
    BY <2>1, <2>6 DEF FinishDao, SwitchOnResult, StopThread, KillProcess, AfterStop
  <2>7. CASE JoinReader \/ ReleaseSharedMemory \/ Environment
    BY <2>1, <2>7 DEF JoinReader, ReleaseSharedMemory, Environment, TerminationRequest, OtherChildDies
  <2> QED
    BY <1>3, <2>2, <2>3, <2>4, <2>5, <2>6, <2>7 DEF WriterNext
<1>4. CASE UNCHANGED vars
  BY <1>4 DEF vars
<1> QED
  BY <1>2, <1>3, <1>4 DEF Next, Returned, Environment

\* The lead-in does not start before the ring is full or holds all of the
\* TOC, whatever the order in which the reader's stores arrive.
THEOREM RingFilledFirst == Spec => []FullBeforeLeadIn
<1>1. TypeInv /\ RingInv /\ FillInv => FullBeforeLeadIn
  <2> SUFFICES ASSUME TypeInv, RingInv, FillInv, wpc = "startDao", rLeft # 0
               PROVE  Buffered = NofBuffers
    BY DEF FullBeforeLeadIn
  <2>1. buffersRead \in Nat /\ NofBuffers \in Nat
    BY ConstantTypes DEF TypeInv, TypeOK, HeaderTypeOK
  <2> QED
    BY <2>1 DEF RingInv, FillInv, Buffered
<1> QED
  BY <1>1, TypeInit, TypeStep, RingInit, RingStep, ReaderInit, ReaderStep, FillInit, FillStep, PTL DEF Spec

-----------------------------------------------------------------------------
(* The end of the reader thread.                                           *)

ThreadInv ==
    /\ wpc \in {"alloc", "initDao", "create"} => reader = "none" /\ started = 0
    /\ started = 0 => reader = "none"
    /\ memory = "released" => wpc = "returned"
    /\ wpc = "release" \/ memory = "released" => reader \in {"none", "reaped"}

LEMMA ThreadInit == Init => ThreadInv
BY DEF Init, ThreadInv

LEMMA ThreadStep == Threads /\ TypeInv /\ ThreadInv /\ [Next]_vars => ThreadInv'
<1> SUFFICES ASSUME Threads, TypeInv, ThreadInv, [Next]_vars PROVE ThreadInv'
  OBVIOUS
<1> USE DEF ThreadInv, resultVars, WriterReturns
<1>1. CASE ReaderNext
  <2>1. UNCHANGED <<wpc, started, memory>>
    BY <1>1, ReaderFrame DEF ReaderUnchanged
  <2>2. reader' = reader \/ (reader = "running" /\ reader' = "exited")
    BY <1>1 DEF ReaderNext, OpenFirstTrack, NextTrack, ReadBuffer, ReadFails, StoreArrives, Publish, SetFilled,
       RingHasRoom, ReadOnOrFinish, SetFinished, MarkEnd, PublishEnd, ReturnFromReader, ReaderFails,
       FailedReaderExits
  <2> QED
    BY <2>1, <2>2
<1>2. CASE GetSharedMemory \/ InitDao \/ StartReader \/ TestFilled \/ StartDao \/ TestEmpty
  BY <1>2 DEF GetSharedMemory, InitDao, StartReader, TestFilled, StartDao, TestEmpty
<1>3. CASE PollWhileFilling \/ PollWhileEmpty
  BY <1>3 DEF PollWhileFilling, PollWhileEmpty, PollReader
<1>4. CASE TakeBuffer \/ WriteBlocks \/ SkipBlocks \/ ReleaseBuffer \/ FinishDao
  BY <1>4 DEF TakeBuffer, WriteBlocks, SkipBlocks, ReleaseBuffer, FinishDao
<1>5. CASE SwitchOnResult \/ StopThread
  BY <1>5 DEF SwitchOnResult, StopThread, AfterStop
<1>6. CASE KillProcess
  BY <1>6 DEF KillProcess
<1>7. CASE JoinReader \/ ReleaseSharedMemory
  BY <1>7 DEF JoinReader, ReleaseSharedMemory
<1>8. CASE Environment
  BY <1>8 DEF Environment, TerminationRequest, OtherChildDies
<1>9. CASE UNCHANGED vars
  BY <1>9 DEF vars
<1> QED
  BY <1>1, <1>2, <1>3, <1>4, <1>5, <1>6, <1>7, <1>8, <1>9 DEF Next, WriterNext, Returned, Environment

\* In the thread build the ring outlives the reader.  (A reader process has
\* the memory attached itself.)
THEOREM ReaderThreadGone == ASSUME Threads PROVE Spec => []ReaderGoneBeforeRelease
<1> USE Threads
<1>1. ThreadInv => ReaderGoneBeforeRelease
  BY DEF ThreadInv, ReaderGoneBeforeRelease
<1>2. TypeInv /\ ThreadInv /\ [Next]_vars => ThreadInv'
  BY ThreadStep
<1> QED
  BY <1>1, <1>2, TypeInit, TypeStep, ThreadInit, PTL DEF Spec

-----------------------------------------------------------------------------
(* What writeDiskAtOnce() returns, and the session the recorder is in.     *)

SessionIs(s) == session = IF ReadTest THEN "none" ELSE s
Complete == blkCount = TocLength /\ OnDisc(TocLength) /\ SessionIs("closed")

ResultInv ==
    /\ wpc \in {"alloc", "initDao"} => session = "none"
    /\ wpc \in {"create", "waitFilled", "pollFilled", "startDao"} => SessionIs("ready")
    /\ wpc \in {"wait", "poll", "take", "write", "advance", "finishDao"} => SessionIs("open")
    /\ wpc = "switch" => IF ret = 0 THEN Complete ELSE SessionIs("ready") \/ SessionIs("open")
    /\ wpc \in {"cleanup", "join", "release", "returned"} =>
         IF err = 0 THEN Complete ELSE session \in {"none", "ready", "aborted"}

LEMMA ResultInit == Init => ResultInv
BY DEF Init, ResultInv

LEMMA ResultStep == TypeInv /\ WriterInv /\ ResultInv /\ [Next]_vars => ResultInv'
<1> SUFFICES ASSUME TypeInv, WriterInv, ResultInv, [Next]_vars PROVE ResultInv'
  OBVIOUS
<1> USE DEF ResultInv, SessionIs, resultVars, driveVars, writerVars, WriterReturns
<1>1. err \in {0, 1} /\ ret \in 0 .. 2
  BY DEF TypeInv, TypeOK, WriterTypeOK, FlagType
<1>2. CASE ReaderNext
  BY <1>2, ReaderFrame DEF ReaderUnchanged, Complete, OnDisc
<1>3. CASE GetSharedMemory \/ InitDao \/ StartReader
  BY <1>3 DEF GetSharedMemory, InitDao, StartReader
<1>4. CASE TestFilled \/ StartDao \/ TestEmpty
  BY <1>4 DEF TestFilled, StartDao, TestEmpty
<1>5. CASE PollWhileFilling \/ PollWhileEmpty
  BY <1>5 DEF PollWhileFilling, PollWhileEmpty, PollReader
<1>6. CASE TakeBuffer \/ WriteBlocks \/ SkipBlocks \/ ReleaseBuffer
  BY <1>6 DEF TakeBuffer, WriteBlocks, SkipBlocks, ReleaseBuffer
<1>7. CASE FinishDao
  BY <1>7 DEF FinishDao, WriterInv, Complete, OnDisc
<1>8. CASE SwitchOnResult
  BY <1>8 DEF SwitchOnResult, MustAbort, Complete, OnDisc
<1>9. CASE StopThread \/ KillProcess
  BY <1>9 DEF StopThread, KillProcess, AfterStop, Complete, OnDisc
<1>10. CASE JoinReader \/ ReleaseSharedMemory
  BY <1>10 DEF JoinReader, ReleaseSharedMemory, Complete, OnDisc
<1>11. CASE Environment
  BY <1>11 DEF Environment, TerminationRequest, OtherChildDies, Complete, OnDisc
<1>12. CASE UNCHANGED vars
  BY <1>12 DEF vars, Complete, OnDisc
<1> QED
  BY <1>2, <1>3, <1>4, <1>5, <1>6, <1>7, <1>8, <1>9, <1>10, <1>11, <1>12
     DEF Next, WriterNext, Returned, Environment

BurnInv == TypeInv /\ WriterInv /\ ResultInv

LEMMA BurnInvariant == ASSUME Ordered PROVE Spec => []BurnInv
<1>1. BurnInv /\ [Next]_vars => ResultInv'
  BY ResultStep DEF BurnInv
<1>2. TypeInv /\ ImageInv /\ ResultInv => BurnInv
  BY DEF ImageInv, BurnInv
<1> QED
  BY <1>1, <1>2, ImageInvariant, ResultInit, PTL DEF Spec

\* 0 is returned for a complete disc only: the end marker reaches the writer
\* behind the last block, whatever is lost, delayed or aborted before it.
THEOREM SuccessComplete == ASSUME Ordered PROVE Spec => []SuccessIsComplete
<1>1. BurnInv => SuccessIsComplete
  BY DEF BurnInv, ResultInv, Complete, OnDisc, SessionIs, SuccessIsComplete
<1> QED
  BY <1>1, BurnInvariant, PTL

-----------------------------------------------------------------------------
(* The refinement of BurnSession, step by step.                            *)

\* The beginning of the image.
LEMMA ImagePrefix ==
    ASSUME NEW d \in DiscType, Len(d) <= TocLength, \A i \in 1 .. Len(d) : d[i] = ImageBlock(i - 1)
    PROVE  /\ Len(d) \in 0 .. TocLength /\ Len(Image) = TocLength
           /\ d = SubSeq(Image, 1, Len(d))
           /\ Len(d) = TocLength => d = Image
<1> DEFINE n == Len(d)
<1>1. TocLength \in Nat /\ n \in Nat
  BY ConstantTypes DEF DiscType
<1>2. d = [i \in 1 .. n |-> d[i]]
  BY DEF DiscType
<1>3. d = [i \in 1 .. n |-> ImageBlock(i - 1)]
  BY <1>2
<1>4. Len(Image) = TocLength
  BY <1>1 DEF Image
<1>5. SubSeq(Image, 1, n) = [i \in 1 .. n |-> ImageBlock(i - 1)]
  <2> HIDE DEF n
  <2>1. SubSeq(Image, 1, n) = [i \in 1 .. n |-> Image[i]]
    BY <1>1
  <2>2. \A i \in 1 .. n : Image[i] = ImageBlock(i - 1)
    BY <1>1 DEF Image, n
  <2> QED
    BY <2>1, <2>2
<1>6. n = TocLength => d = Image
  BY <1>3 DEF Image
<1>7. n \in 0 .. TocLength
  BY <1>1
<1> QED
  BY <1>3, <1>4, <1>5, <1>6, <1>7

LEMMA BurnInit == Init => Burning!Init
BY DEF Init, Burning!Init

LEMMA BurnStep == BurnInv /\ WriterInv' /\ TypeInv' /\ [Next]_vars => [Burning!Next]_(Burning!bvars)
<1> SUFFICES ASSUME BurnInv, WriterInv', TypeInv', [Next]_vars
             PROVE  Burning!Next \/ UNCHANGED Burning!bvars
  OBVIOUS
<1> USE DEF BurnInv, ResultInv, SessionIs, driveVars, resultVars, writerVars, WriterReturns, Burning!bvars
<1>1. CASE ReaderNext
  BY <1>1, ReaderFrame DEF ReaderUnchanged
<1>2. CASE GetSharedMemory
  BY <1>2 DEF GetSharedMemory, Burning!Next, Burning!Return
<1>3. CASE InitDao
  BY <1>3 DEF InitDao, Burning!Next, Burning!Prepare
<1>4. CASE StartDao
  BY <1>4 DEF StartDao, Burning!Next, Burning!Open
<1>5. CASE WriteBlocks
  <2>1. CASE WriterReturns(2) /\ UNCHANGED disc
    BY <1>5, <2>1 DEF WriteBlocks
  <2>2. CASE ~(WriterReturns(2) /\ UNCHANGED disc)
    <3>1. PICK n : /\ n = SmallerOf(BlocksPerWrite, wBuf.bufLen - wPos)
                   /\ wLba' = wLba + n
      BY <1>5, <2>2 DEF WriteBlocks
    <3>2. n \in Nat \ {0}
      <4>1. wBuf.bufLen \in 0 .. BufferSize /\ wPos \in 0 .. BufferSize /\ wPos < wBuf.bufLen
        BY <1>5 DEF WriteBlocks, WriterInv, TypeInv, TypeOK, WriterTypeOK, FieldsType
      <4> QED
        BY <3>1, <4>1, BufferAssumption DEF SmallerOf
    <3>3. /\ Len(disc') \in 0 .. TocLength /\ Len(Image) = TocLength
          /\ disc' = SubSeq(Image, 1, Len(disc')) /\ Len(disc) \in Nat
      <4>1. PICK d : d = disc'
        OBVIOUS
      <4>2. d \in DiscType /\ Len(d) <= TocLength /\ \A i \in 1 .. Len(d) : d[i] = ImageBlock(i - 1)
        BY <4>1 DEF WriterInv, DiscIsImage, TypeInv, TypeOK
      <4> HIDE <4>1
      <4>3. Len(d) \in 0 .. TocLength /\ Len(Image) = TocLength /\ d = SubSeq(Image, 1, Len(d))
        BY <4>2, ImagePrefix
      <4> QED
        BY <4>1, <4>3 DEF TypeInv, TypeOK, DiscType
    <3>4. Len(disc') = Len(disc) + n
      BY <3>1, <3>2, <3>3, ConstantTypes DEF WriterInv
    <3>5. \E m \in Len(disc) + 1 .. Len(Image) : disc' = SubSeq(Image, 1, m)
      BY <3>2, <3>3, <3>4, ConstantTypes
    <3> QED
      BY <1>5, <2>2, <3>5 DEF WriteBlocks, Burning!Next, Burning!Burn
  <2> QED
    BY <2>1, <2>2
<1>6. CASE FinishDao
  <2>1. ASSUME ~ReadTest PROVE disc = Image
    BY <1>6, <2>1, ImagePrefix DEF FinishDao, WriterInv, OnDisc, DiscIsImage, TypeInv, TypeOK
  <2> QED
    BY <1>6, <2>1 DEF FinishDao, Burning!Next, Burning!Close
<1>7. CASE SwitchOnResult
  BY <1>7 DEF SwitchOnResult, MustAbort, Burning!Next, Burning!Abort
<1>8. CASE ReleaseSharedMemory
  BY <1>8 DEF ReleaseSharedMemory, Complete, Burning!Next, Burning!Return
<1>9. CASE StartReader \/ TestFilled \/ TestEmpty \/ TakeBuffer \/ SkipBlocks \/ ReleaseBuffer
  BY <1>9 DEF StartReader, TestFilled, TestEmpty, TakeBuffer, SkipBlocks, ReleaseBuffer
<1>10. CASE PollWhileFilling \/ PollWhileEmpty
  BY <1>10 DEF PollWhileFilling, PollWhileEmpty, PollReader
<1>11. CASE StopThread \/ KillProcess \/ JoinReader
  BY <1>11 DEF StopThread, KillProcess, AfterStop, JoinReader
<1>12. CASE Environment
  BY <1>12 DEF Environment, TerminationRequest, OtherChildDies
<1>13. CASE UNCHANGED vars
  BY <1>13 DEF vars
<1> QED
  BY <1>1, <1>2, <1>3, <1>4, <1>5, <1>6, <1>7, <1>8, <1>9, <1>10, <1>11, <1>12, <1>13
     DEF Next, WriterNext, Returned, Environment

\* For its caller writeDiskAtOnce() is a burn session, whatever reader, writer,
\* signals and failing commands do in between.
THEOREM ImplementsBurnSession == ASSUME Ordered PROVE Spec => Burning!Spec
<1>1. BurnInv => WriterInv /\ TypeInv
  BY DEF BurnInv
<1> QED
  BY <1>1, BurnInit, BurnStep, BurnInvariant, PTL DEF Spec, Burning!Spec
=============================================================================
