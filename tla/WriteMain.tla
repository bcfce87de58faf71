----------------------------- MODULE WriteMain -----------------------------
(***************************************************************************)
(* One CWriteMain (WriteMain.cpp) behind the plug-in's entry points        *)
(* (Write_Default.cpp): the write buffer, the TS file and the servers,     *)
(* from CreateCtrl to DeleteCtrl, over any number of recordings.           *)
(*                                                                         *)
(* The host offers a transport stream whose n-th byte is named n.  As      *)
(* WriteMain.h:47-49 asks, it goes on behind the bytes that writeSize      *)
(* reported as saved, whatever the call returned.  A failed WriteFile has  *)
(* written nothing; one that succeeds may have written less than asked.    *)
(*                                                                         *)
(* The servers are seen from outside: what they were given by Append and   *)
(* whether they run.  FileReader.tla and PipeServer.tla have their inside. *)
(* Left out: calls that change nothing (no file, no data), and wrotePos    *)
(* with the tee thread, which this program never starts.  Every recording  *)
(* has a file of its own.                                                  *)
(***************************************************************************)
EXTENDS Integers, Sequences, TsFile

CONSTANTS
  writeBuffSize,  \* CWriteMain::writeBuffSize, the ini file's Size
  DWord,          \* 2^32, where the unsigned subtraction of line 176 wraps
  MaxSaved,       \* bound: the bytes saved in a behaviour
  MaxSize         \* bound: the bytes of one AddTSBuff

ASSUME WriteBuffAssumption == writeBuffSize \in Nat
ASSUME DWordAssumption == DWord \in Nat /\ writeBuffSize < DWord
ASSUME WriteBoundsAssumption == MaxSaved \in Nat /\ MaxSize \in Nat

VARIABLES
  call,       \* where the caller's thread is, see below
  open,       \* file # INVALID_HANDLE_VALUE
  writeBuff,  \* the bytes taken and not yet written
  rest,       \* Write's data and size: the bytes of this call not yet taken
  server,     \* "none" before the first Start, "running", "stopped"
  appended,   \* history: the bytes this recording's servers were given
  saved,      \* history: how many bytes writeSize reported as saved
  kept,       \* history: the bytes in the files of earlier recordings
  told        \* history: a call has returned FALSE

\* "idle": in no call; "flush": Write at line 180 with a full buffer; "rest":
\* Write at line 207; "start": Start behind its Stop; "deleted": DeleteCtrl has
\* destroyed the object.
WriteCalls == {"idle", "flush", "rest", "start", "deleted"}

hostVars == <<kept, told>>
wmVars == <<recorded, fileSize, call, open, writeBuff, rest, server, appended,
            saved, kept, told>>

\* n bytes of the stream from the one behind the first k on.
Stream(k, n) == [i \in 1..n |-> k + i]

WMInit ==
  /\ recorded = <<>>
  /\ fileSize = 0
  /\ call = "idle"
  /\ open = FALSE
  /\ writeBuff = <<>>
  /\ rest = <<>>
  /\ server = "none"
  /\ appended = <<>>
  /\ saved = 0
  /\ kept = <<>>
  /\ told = FALSE

-----------------------------------------------------------------------------
(* The file and the servers.                                               *)

\* A wrong variant: the servers are given all of d whatever was written.
PutAll(d, n) ==
  /\ TsWrite(SubSeq(d, 1, n))
  /\ appended' = appended \o d

\* WriteFile writes the first n bytes of d, and the servers are given those.
Put(d, n) ==
  /\ TsWrite(SubSeq(d, 1, n))
  /\ appended' = appended \o SubSeq(d, 1, n)

\* ServerManager::Stop, if there is a ServerManager.
StoppedServer == IF server = "none" THEN "none" ELSE "stopped"

\* Stop: of a nonempty buffer n bytes are written, none when WriteFile fails;
\* what is left stays for the next Start.  The file is cut and closed.
Stop(n) ==
  /\ server' = StoppedServer
  /\ open' = FALSE
  /\ IF open
       THEN /\ recorded' = recorded \o SubSeq(writeBuff, 1, n)
            /\ fileSize' = Len(recorded')
            /\ appended' = appended \o SubSeq(writeBuff, 1, n)
            /\ writeBuff' = SubSeq(writeBuff, n + 1, Len(writeBuff))
       ELSE UNCHANGED <<fileVars, appended, writeBuff>>

-----------------------------------------------------------------------------
(* The entry points.                                                       *)

StopSave ==
  /\ call = "idle"
  /\ \E n \in 0..Len(writeBuff) : Stop(n)
  /\ UNCHANGED <<call, rest, saved, hostVars>>

\* StartSave stops what is running first.
StartSave ==
  /\ call = "idle"
  /\ \E n \in 0..Len(writeBuff) : Stop(n)
  /\ call' = "start"
  /\ UNCHANGED <<rest, saved, hostVars>>

\* The file is created, preallocated or not, and the servers are started.
StartCreate ==
  /\ call = "start"
  /\ kept' = kept \o recorded
  /\ recorded' = <<>>
  /\ fileSize' \in {0, CreateSize}
  /\ open' = TRUE
  /\ server' = "running"
  /\ appended' = <<>>
  /\ call' = "idle"
  /\ UNCHANGED <<writeBuff, rest, saved, told>>

\* No file of any of the names it tries can be created.
StartFails ==
  /\ call = "start"
  /\ told' = TRUE
  /\ call' = "idle"
  /\ UNCHANGED <<fileVars, open, writeBuff, rest, server, appended, saved, kept>>

\* The place in the buffer, in 32 bits.
Room ==
  IF Len(writeBuff) <= writeBuffSize
    THEN writeBuffSize - Len(writeBuff)
    ELSE writeBuffSize + DWord - Len(writeBuff)

\* AddTSBuff of size bytes, to the empty buffer or to one that takes what it has
\* room for.
AddTSBuff(size) ==
  LET take == IF writeBuff = <<>> THEN 0
              ELSE IF size < Room THEN size ELSE Room
      left == Stream(saved + take, size - take)
  IN  /\ call = "idle"
      /\ open
      /\ saved + size <= MaxSaved
      /\ saved' = saved + take
      /\ writeBuff' = writeBuff \o Stream(saved, take)
      /\ \/ writeBuff = <<>> /\ call' = "rest" /\ rest' = left
         \/ /\ writeBuff # <<>>
            /\ IF Len(writeBuff') >= writeBuffSize
                 THEN call' = "flush" /\ rest' = left
                 ELSE call' = "idle" /\ rest' = <<>>
      /\ UNCHANGED <<fileVars, open, server, appended, hostVars>>

\* A wrong variant: the whole buffer is dropped whatever was written.
FlushClears(n) ==
  /\ call = "flush"
  /\ Put(writeBuff, n)
  /\ writeBuff' = <<>>
  /\ IF rest = <<>>
       THEN call' = "idle" /\ rest' = <<>>
       ELSE call' = "rest" /\ UNCHANGED rest
  /\ UNCHANGED <<open, server, saved, hostVars>>

\* The full buffer is written, n bytes of it.  When some stay, the rest of the
\* data is not looked at, and not reported as saved.
Flush(n) ==
  /\ call = "flush"
  /\ Put(writeBuff, n)
  /\ writeBuff' = SubSeq(writeBuff, n + 1, Len(writeBuff))
  /\ IF n < Len(writeBuff) \/ rest = <<>>
       THEN call' = "idle" /\ rest' = <<>>
       ELSE call' = "rest" /\ UNCHANGED rest
  /\ UNCHANGED <<open, server, saved, hostVars>>

TooLarge == Len(rest) > writeBuffSize

\* More data than the buffer holds goes to the file, n bytes of it.
WriteThrough(n) ==
  /\ call = "rest"
  /\ TooLarge
  /\ Put(rest, n)
  /\ saved' = saved + n
  /\ call' = "idle"
  /\ rest' = <<>>
  /\ UNCHANGED <<open, writeBuff, server, hostVars>>

\* A wrong variant: data of any size goes to the buffer.
BufferAny ==
  /\ call = "rest"
  /\ writeBuff' = writeBuff \o rest
  /\ saved' = saved + Len(rest)
  /\ call' = "idle"
  /\ rest' = <<>>
  /\ UNCHANGED <<fileVars, open, server, appended, hostVars>>

Buffer ==
  /\ call = "rest"
  /\ ~TooLarge
  /\ writeBuff' = writeBuff \o rest
  /\ saved' = saved + Len(rest)
  /\ call' = "idle"
  /\ rest' = <<>>
  /\ UNCHANGED <<fileVars, open, server, appended, hostVars>>

\* A wrong variant: the file is closed as it is.
WriteErrorUncut ==
  /\ \/ call = "flush"
     \/ call = "rest" /\ TooLarge
  /\ server' = "stopped"
  /\ open' = FALSE
  /\ told' = TRUE
  /\ call' = "idle"
  /\ rest' = <<>>
  /\ UNCHANGED <<fileVars, writeBuff, appended, saved, kept>>

\* A wrong variant: the servers run on.
WriteErrorRuns ==
  /\ \/ call = "flush"
     \/ call = "rest" /\ TooLarge
  /\ TsSetEndOfFile
  /\ open' = FALSE
  /\ told' = TRUE
  /\ call' = "idle"
  /\ rest' = <<>>
  /\ UNCHANGED <<writeBuff, server, appended, saved, kept>>

\* Either WriteFile of Write fails: the servers are stopped, the file is cut
\* and closed, the buffer is kept and what it took stays reported as saved.
WriteError ==
  /\ \/ call = "flush"
     \/ call = "rest" /\ TooLarge
  /\ server' = "stopped"
  /\ TsSetEndOfFile
  /\ open' = FALSE
  /\ told' = TRUE
  /\ call' = "idle"
  /\ rest' = <<>>
  /\ UNCHANGED <<writeBuff, appended, saved, kept>>

\* DeleteCtrl: the destructor stops and what is in the buffer is gone.
DeleteCtrl ==
  /\ call = "idle"
  /\ \E n \in 0..Len(writeBuff) : Stop(n)
  /\ call' = "deleted"
  /\ UNCHANGED <<rest, saved, hostVars>>

WMNext ==
  \/ StopSave
  \/ StartSave
  \/ StartCreate
  \/ StartFails
  \/ \E size \in 1..MaxSize : AddTSBuff(size)
  \/ \E n \in 0..Len(writeBuff) : Flush(n)
  \/ \E n \in 0..Len(rest) : WriteThrough(n)
  \/ Buffer
  \/ WriteError
  \/ DeleteCtrl

WMSpec == WMInit /\ [][WMNext]_wmVars

-----------------------------------------------------------------------------
(* Properties.                                                             *)

\* Every variable has its type.  The buffer stays within writeBuffSize, so that
\* the unsigned subtraction of line 176 never wraps, also when a full buffer is
\* carried into the next recording.
WMTypeOK ==
  /\ recorded \in Seq(Nat)
  /\ fileSize \in Nat
  /\ call \in WriteCalls
  /\ open \in BOOLEAN
  /\ writeBuff \in Seq(Nat)
  /\ Len(writeBuff) <= writeBuffSize
  /\ rest \in Seq(Nat)
  /\ server \in {"none", "running", "stopped"}
  /\ appended \in Seq(Nat)
  /\ saved \in Nat
  /\ kept \in Seq(Nat)
  /\ told \in BOOLEAN

\* A byte reported as saved is in exactly one place, and in order: the files of
\* the recordings so far hold the beginning of the stream and the buffer holds
\* what follows, through short writes, failed writes, failed starts and a
\* buffer carried from one recording to the next (WriteMain.cpp:134, :175).
SavedOnce == kept \o recorded \o writeBuff = Stream(0, saved)

\* The servers of a recording were given exactly what its file holds, so that
\* the positions of FileReader::Append are positions in the file.
ServersFollowFile == appended = recorded

\* Servers run exactly while the file is open: Write and Stop never use a
\* missing ServerManager, and Start never destroys one whose threads run.
ServersRunWithFile == server = "running" <=> open

\* A closed file ends behind the last byte that was written to it, on every way
\* to close it: no preallocated tail stays.
ClosedFileCut == ~open => fileSize = Len(recorded)

\* Write_PlugIn.h:96-97 lets StopSave return TRUE for success and FALSE for failure,
\* and lines 49-55 of it have DeleteCtrl follow StopSave: a host that deletes an
\* object whose file is closed, and of whose calls none returned FALSE, so that it was
\* a StopSave that closed it and returned TRUE, finds every byte that was reported as
\* saved in a file.
SavedOrTold ==
  [][call = "idle" /\ call' = "deleted" /\ ~open /\ ~told
       => kept' \o recorded' = Stream(0, saved')]_wmVars
=============================================================================
