----------------------------- MODULE FileReader -----------------------------
(***************************************************************************)
(* One FileReader (FileReader.h) between the two threads that use it:      *)
(*                                                                         *)
(*   the recorder, the caller's thread inside CWriteMain: it writes a      *)
(*   chunk to the TS file and then appends the same chunk to the reader;   *)
(*                                                                         *)
(*   the sender, the thread of PipeServer::SendMain: it reads the virtual  *)
(*   file through GetNext and hands the data to the pipe.                  *)
(*                                                                         *)
(* The two meet at the mutex `sync', which is held while the sender stands *)
(* at "locked", and at the flag PipeServer::TS_FinishWrite, which is set   *)
(* once the recorder has left "recording".  The pipe is abstracted here to *)
(* a write that takes all of the data or fails; PipeServer.tla has it.     *)
(***************************************************************************)
EXTENDS Integers, Sequences, SequencesExt, FileBlockBuff, TsFile

CONSTANTS
  ReadMax,      \* FileReader.h:152, the most one file read asks for
  WriteErrors,  \* whether a WriteFile of the recorder may fail
  MaxFile,      \* bound: the bytes recorded in a behaviour
  MaxChunk      \* bound: the bytes of one WriteFile

ASSUME ReadMaxAssumption == ReadMax \in Nat \ {0}
ASSUME WriteErrorsAssumption == WriteErrors \in BOOLEAN
ASSUME BoundsAssumption == MaxFile \in Nat /\ MaxChunk \in Nat
\* The size of a WriteFile is a DWORD.
ASSUME ChunkAssumption == MaxChunk < DWord

VARIABLES
  que,             \* FileBlockBuff: the blocks, oldest first
  fpos_read,       \* position of the next byte to send
  fpos_write,      \* position of the next block to append
  TS_FinishWrite,  \* FileReader::TS_FinishWrite, set by Notify_TSFinishWrite
  fp,              \* the stdio stream: "open", "null" (fopen failed), "eof", "err"
  recorder,        \* "recording", "stopped", "failing" or "failed"
  pending,         \* the chunk that is in the file and not yet appended
  call,            \* where the sender is, see below
  readable_fpos,   \* GetNext's local: last position the file may be read at
  ret_data,        \* GetNext's result, <<>> for nullptr
  delivered        \* history: the bytes the sender has put into the pipe

\* SendMain's loop: "top" reads PipeServer::TS_FinishWrite, "getnext" waits for
\* the mutex, "locked" is GetNext's lock scope, "file" is Get_fromFile, "data"
\* has a result for the writer; "exit" left the loop because of IsEOF, "quit"
\* because the writer failed.
Calls == {"top", "getnext", "locked", "file", "data", "exit", "quit"}

buffVars == <<que, fpos_write>>
readVars == <<fpos_read, TS_FinishWrite, fp, readable_fpos, ret_data>>
vars == <<recorded, fileSize, que, fpos_read, fpos_write, TS_FinishWrite, fp,
          recorder, pending, call, readable_fpos, ret_data, delivered>>

Bytes == Nat
Block == [fpos : Nat, data : Seq(Bytes)]

TypeOK ==
  /\ recorded \in Seq(Bytes)
  /\ fileSize \in Nat
  /\ que \in Seq(Block)
  /\ fpos_read \in Nat
  /\ fpos_write \in Nat
  /\ TS_FinishWrite \in BOOLEAN
  /\ fp \in {"open", "null", "eof", "err"}
  /\ recorder \in {"recording", "stopped", "failing", "failed"}
  /\ pending \in Seq(Bytes)
  /\ call \in Calls
  /\ readable_fpos \in Int
  /\ ret_data \in Seq(Bytes)
  /\ delivered \in Seq(Bytes)

Init ==
  /\ TsCreate
  /\ que = <<>>
  /\ fpos_read = 0
  /\ fpos_write = 0
  /\ TS_FinishWrite = FALSE
  /\ fp \in {"open", "null"}
  /\ recorder = "recording"
  /\ pending = <<>>
  /\ call = "top"
  /\ readable_fpos = -1
  /\ ret_data = <<>>
  /\ delivered = <<>>

-----------------------------------------------------------------------------
(* The recorder.                                                           *)

\* The value of PipeServer::TS_FinishWrite: Stop has been called.
Finished == recorder # "recording"

\* n bytes never seen before: each is named by its place in the recording.
Fresh(n) == [i \in 1..n |-> Len(recorded) + i]

\* CWriteMain writes a chunk of n bytes to the file: a full buffer or data
\* larger than it in Write, what is left of the buffer in Stop.
RecordWrite(n) ==
  /\ recorder = "recording"
  /\ pending = <<>>
  /\ Len(recorded) + n <= MaxFile
  /\ TsWrite(Fresh(n))
  /\ pending' = Fresh(n)
  /\ UNCHANGED <<buffVars, readVars, recorder, call, delivered>>

\* A wrong variant: the block is labelled with the position behind it.
AppendLockedLate ==
  /\ pending # <<>>
  /\ call # "locked"
  /\ que' = BuffAppend(que, [fpos |-> fpos_write + Len(pending), data |-> pending])
  /\ fpos_write' = fpos_write + Len(pending)
  /\ pending' = <<>>
  /\ UNCHANGED <<fileVars, readVars, recorder, call, delivered>>

\* FileReader::Append once it has the mutex.
AppendLocked ==
  /\ pending # <<>>
  /\ call # "locked"
  /\ que' = BuffAppend(que, [fpos |-> fpos_write, data |-> pending])
  /\ fpos_write' = fpos_write + Len(pending)
  /\ pending' = <<>>
  /\ UNCHANGED <<fileVars, readVars, recorder, call, delivered>>

\* A wrong variant: a chunk that is not kept does not move fpos_write.
AppendTimeoutStays ==
  /\ pending # <<>>
  /\ call = "locked"
  /\ pending' = <<>>
  /\ UNCHANGED <<que, fpos_write, fileVars, readVars, recorder, call, delivered>>

\* FileReader::Append when 10 ms pass while the sender holds the mutex: the
\* block is not kept, the file position still advances.
AppendTimeout ==
  /\ pending # <<>>
  /\ call = "locked"
  /\ fpos_write' = fpos_write + Len(pending)
  /\ pending' = <<>>
  /\ UNCHANGED <<que, fileVars, readVars, recorder, call, delivered>>

\* CWriteMain::Stop: the file is cut to what was written, then the servers are
\* told to stop.
RecordStop ==
  /\ recorder = "recording"
  /\ pending = <<>>
  /\ TsSetEndOfFile
  /\ recorder' = "stopped"
  /\ UNCHANGED <<buffVars, readVars, pending, call, delivered>>

\* CWriteMain::Write when WriteFile fails: the servers are told to stop first.
RecordFail ==
  /\ WriteErrors
  /\ recorder = "recording"
  /\ pending = <<>>
  /\ recorder' = "failing"
  /\ UNCHANGED <<fileVars, buffVars, readVars, pending, call, delivered>>

\* The file is cut when the sender thread has been joined.
RecordFailed ==
  /\ recorder = "failing"
  /\ call \in {"exit", "quit"}
  /\ TsSetEndOfFile
  /\ recorder' = "failed"
  /\ UNCHANGED <<buffVars, readVars, pending, call, delivered>>

RecorderNext ==
  \/ \E n \in 1..MaxChunk : RecordWrite(n)
  \/ AppendLocked
  \/ AppendTimeout
  \/ RecordStop
  \/ RecordFail
  \/ RecordFailed

-----------------------------------------------------------------------------
(* The sender.                                                             *)

IsEOF == fp # "open"

\* SendMain sees TS_FinishWrite unset and goes on to GetNext.
LoopRecording ==
  /\ call = "top"
  /\ ~Finished
  /\ call' = "getnext"
  /\ UNCHANGED <<fileVars, buffVars, readVars, recorder, pending, delivered>>

\* A wrong variant: the reader is not told that the file is complete.
LoopFinishedSilent ==
  /\ call = "top"
  /\ Finished
  /\ call' = IF IsEOF THEN "exit" ELSE "getnext"
  /\ UNCHANGED <<fileVars, buffVars, readVars, recorder, pending, delivered>>

\* SendMain sees TS_FinishWrite set: Notify_TSFinishWrite, and the thread ends
\* when the stream has reached its end.
LoopFinished ==
  /\ call = "top"
  /\ Finished
  /\ TS_FinishWrite' = TRUE
  /\ call' = IF IsEOF THEN "exit" ELSE "getnext"
  /\ UNCHANGED <<fileVars, buffVars, fpos_read, fp, recorder, pending,
                 readable_fpos, ret_data, delivered>>

\* GetNext takes the mutex.
GetNextLock ==
  /\ call = "getnext"
  /\ call' = "locked"
  /\ UNCHANGED <<fileVars, buffVars, readVars, recorder, pending, delivered>>

\* The buffer is empty and the recording goes on: nothing yet.
GetNextNothing ==
  /\ call = "locked"
  /\ que = <<>>
  /\ ~TS_FinishWrite
  /\ call' = "top"
  /\ UNCHANGED <<fileVars, buffVars, readVars, recorder, pending, delivered>>

\* A wrong variant: the file may be read over the first byte of the buffer.
ReadableFposOver == IF TS_FinishWrite THEN -1 ELSE GetTopPos(que)

\* How far the real file may be read: up to the buffer while the recording
\* goes on, -1 for no limit when it is complete.
ReadableFpos == IF TS_FinishWrite THEN -1 ELSE GetTopPos(que) - 1

\* The buffer has the block at fpos_read.
GetNextFromBuff ==
  /\ call = "locked"
  /\ que # <<>> \/ TS_FinishWrite
  /\ HasBlockAt(que, fpos_read)
  /\ readable_fpos' = ReadableFpos
  /\ ret_data' = BuffGetData(que, fpos_read)
  /\ que' = BuffAfterGet(que, fpos_read)
  /\ call' = "data"
  /\ UNCHANGED <<fileVars, fpos_write, fpos_read, TS_FinishWrite, fp, recorder,
                 pending, delivered>>

\* A wrong variant: an empty buffer does not keep the sender from the file.
GetNextMissEager ==
  /\ call = "locked"
  /\ ~HasBlockAt(que, fpos_read)
  /\ readable_fpos' = ReadableFpos
  /\ call' = "file"
  /\ UNCHANGED <<fileVars, buffVars, fpos_read, TS_FinishWrite, fp, ret_data,
                 recorder, pending, delivered>>

\* The buffer does not have it: the lock is released before the file is read.
GetNextMiss ==
  /\ call = "locked"
  /\ que # <<>> \/ TS_FinishWrite
  /\ ~HasBlockAt(que, fpos_read)
  /\ readable_fpos' = ReadableFpos
  /\ call' = "file"
  /\ UNCHANGED <<fileVars, buffVars, fpos_read, TS_FinishWrite, fp, ret_data,
                 recorder, pending, delivered>>

\* Get_fromFile's req_size.
ReqSize ==
  IF 0 <= readable_fpos /\ readable_fpos < fpos_read + ReadMax - 1
    THEN readable_fpos - fpos_read + 1
    ELSE ReadMax

\* Get_fromFile returns early: no usable stream, or nothing it may ask for.
FromFileRefused ==
  /\ call = "file"
  /\ fp # "open" \/ ReqSize <= 0
  /\ call' = "top"
  /\ UNCHANGED <<fileVars, buffVars, readVars, recorder, pending, delivered>>

\* fread returns count bytes and leaves the stream in state status.
Fread(count, status) ==
  /\ ret_data' = TsBytes(fpos_read, count)
  /\ fp' = status
  /\ call' = IF count = 0 THEN "top" ELSE "data"
  /\ UNCHANGED <<fileVars, buffVars, fpos_read, TS_FinishWrite, readable_fpos,
                 recorder, pending, delivered>>

CanRead == call = "file" /\ fp = "open" /\ ReqSize > 0

\* A wrong variant: a read that got all it asked for ends the stream.
FromFileEager ==
  /\ CanRead
  /\ Fread(Len(TsBytes(fpos_read, ReqSize)), "eof")

\* The bytes there are for the request; fewer than asked for set feof.
FromFile ==
  /\ CanRead
  /\ LET count == Len(TsBytes(fpos_read, ReqSize))
     IN  Fread(count, IF count < ReqSize THEN "eof" ELSE "open")

\* A read error, before or after some bytes.
FromFileError ==
  /\ CanRead
  /\ \E count \in 0..Len(TsBytes(fpos_read, ReqSize)) :
       count < ReqSize /\ Fread(count, "err")

\* A wrong variant: the number of bytes written is not fetched, Seek gets 0.
WriteDataUncounted ==
  /\ call = "data"
  /\ delivered' = delivered \o ret_data
  /\ ret_data' = <<>>
  /\ call' = "top"
  /\ UNCHANGED <<fileVars, buffVars, fpos_read, TS_FinishWrite, fp, recorder,
                 pending, readable_fpos>>

\* The writer took all of the data: FileReader::Seek.
WriteData ==
  /\ call = "data"
  /\ delivered' = delivered \o ret_data
  /\ fpos_read' = fpos_read + Len(ret_data)
  /\ ret_data' = <<>>
  /\ call' = "top"
  /\ UNCHANGED <<fileVars, buffVars, TS_FinishWrite, fp, recorder, pending,
                 readable_fpos>>

\* A wrong variant: the data that failed is taken back from fpos_read, which
\* never counted it.
WriteFailsRewinds(sent) ==
  /\ call = "data" \/ (call = "top" /\ fpos_read = 0)
  /\ delivered' = delivered \o SubSeq(ret_data, 1, sent)
  /\ ret_data' = <<>>
  /\ call' = "quit"
  /\ fpos_read' = fpos_read - Len(ret_data)
  /\ UNCHANGED <<fileVars, buffVars, TS_FinishWrite, fp, recorder, pending,
                 readable_fpos>>

\* The writer failed after `sent` bytes went into the pipe, or the pipe was
\* never connected: the thread ends.
WriteFailsAt(sent) ==
  /\ call = "data" \/ (call = "top" /\ fpos_read = 0)
  /\ delivered' = delivered \o SubSeq(ret_data, 1, sent)
  /\ ret_data' = <<>>
  /\ call' = "quit"
  /\ UNCHANGED <<fileVars, buffVars, fpos_read, TS_FinishWrite, fp, recorder,
                 pending, readable_fpos>>

WriteFails == \E sent \in 0..Len(ret_data) : WriteFailsAt(sent)

SenderNext ==
  \/ LoopRecording
  \/ LoopFinished
  \/ GetNextLock
  \/ GetNextNothing
  \/ GetNextFromBuff
  \/ GetNextMiss
  \/ FromFileRefused
  \/ FromFile
  \/ FromFileError
  \/ WriteData
  \/ WriteFails

\* Both threads are through: the recording is over and SendMain has returned.
Terminated ==
  /\ recorder \in {"stopped", "failed"}
  /\ call \in {"exit", "quit"}
  /\ UNCHANGED vars

Next == RecorderNext \/ SenderNext \/ Terminated

Spec == Init /\ [][Next]_vars

\* The sender thread is scheduled; the recorder may stop at any moment.
FairSpec == Spec /\ WF_vars(SenderNext)

-----------------------------------------------------------------------------
(* Properties.                                                             *)

\* What goes into the pipe is the recording from its first byte, without a
\* gap, a repetition or a byte that was never recorded, whichever of the
\* buffer and the file each piece came from.  (When a WriteFile has failed,
\* see SendsOnlyWritten.)
DeliveredIsPrefix ==
  recorder \in {"recording", "stopped"} => IsPrefix(delivered, recorded)

\* Every block still in the buffer is what the file holds at the block's
\* position, although a block appended after a lock timeout leaves a gap and
\* an oversized one is dropped: fpos_write follows the file.
BlocksMatchFile ==
  \A i \in DOMAIN que :
    LET b == que[i]
    IN  /\ b.fpos + Len(b.data) <= Len(recorded)
        /\ b.data = SubSeq(recorded, b.fpos + 1, b.fpos + Len(b.data))

\* FileReader.h:142-143: while the recording goes on the file is read only up
\* to the buffer, never over it; a sender that overtook the first block could
\* not find any block again.
BuffAheadOfReader ==
  ~TS_FinishWrite =>
    \A i \in DOMAIN que : fpos_read + Len(ret_data) <= que[i].fpos

\* The stream's end, which is sticky (FileReader.h:149), is not reached while
\* the file may still grow: a reader that saw it early would never read again.
EofOnlyAfterFinish == fp = "eof" => TS_FinishWrite

\* SendMain leaves its loop because of the end of the file only when all of
\* the recording has gone into the pipe, the blocks the buffer dropped too.
ExitSentAll ==
  (call = "exit" /\ fp = "eof" /\ recorder = "stopped") => delivered = recorded

\* The buffer never holds more bytes than its limit, although Append decides
\* by a DWORD sum: with chunks of MaxChunk bytes that sum cannot wrap as long
\* as BuffMax + MaxChunk < DWord.
BuffBounded == que # <<>> => SizeSum(que) <= BuffMax

\* Once the recorder has asked for it the sender's thread ends: the blocks
\* left, the gaps and the tail of the file are read without waiting for more.
FinishEndsSender == Finished ~> (call \in {"exit", "quit"})

\* The reader implements the virtual file, when no WriteFile fails.
VF == INSTANCE VirtualFile WITH
        closed <- Finished,
        reading <- IF call = "exit" /\ fp = "eof" THEN "complete"
                   ELSE IF call \in {"exit", "quit"} THEN "abandoned"
                   ELSE "reading"

ImplementsVirtualFile == VF!Spec

\* WriteMain.cpp:195 and :222: "the part that could be written is transferred
\* to the pipe".
SendsOnlyWritten == IsPrefix(delivered, recorded)
=============================================================================
