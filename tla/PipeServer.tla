----------------------------- MODULE PipeServer -----------------------------
(***************************************************************************)
(* One PipeServer (PipeServer.cpp): a FileReader, a pipe writer with its   *)
(* client, the sender thread that moves data from the one to the other,    *)
(* and the caller's thread in PipeServer::Stop.                            *)
(*                                                                         *)
(* The FileReader's variables and steps are those of FileReader.tla; every *)
(* step of this module is one of them, a step of the pipe, or both.  A     *)
(* server whose client is not enabled or not found has no reader, writer   *)
(* or thread, all its methods return at once, and it is not modelled.      *)
(***************************************************************************)
EXTENDS FileReader, NamedPipe, AnonPipe

CONSTANTS
  Mode_NamedPipe,  \* SettingA::Mode_NamedPipe
  AnonLaunches     \* the ways AnonPipe::RunClient may end

ASSUME ModeAssumption == Mode_NamedPipe \in BOOLEAN
ASSUME LaunchAssumption == AnonLaunches \subseteq Launches

VARIABLES
  Pipe_Enable,  \* SettingA::Pipe_Enable
  thread,       \* the sender thread around SendMain's loop, see below
  stopping      \* the caller in Stop: "no", "notified", "signalled", "joined"

\* "start": before Connect; "created": the named pipe exists; "listening": it
\* waits for the client; "loop": SendMain's loop, where `call` says where;
\* "closed": reader and writer are closed and the thread is over.
Threads == {"start", "created", "listening", "loop", "closed"}

serverVars == <<Pipe_Enable, thread, stopping>>
psVars == <<vars, namedVars, serverVars>>

PSTypeOK ==
  /\ TypeOK
  /\ PipeTypeOK
  /\ hQuitOrder \in {"none", "unset", "set", "closed"}
  /\ Pipe_Enable \in BOOLEAN
  /\ thread \in Threads
  /\ stopping \in {"no", "notified", "signalled", "joined"}

\* The constructor: the client is started, then the thread.
PSInit ==
  /\ Init
  /\ IF Mode_NamedPipe
       THEN NamedRunClient
       ELSE /\ \E launch \in AnonLaunches : AnonRunClient(launch)
            /\ hQuitOrder = "none"
  /\ Pipe_Enable \in BOOLEAN
  /\ thread = "start"
  /\ stopping = "no"

-----------------------------------------------------------------------------
(* The sender thread.                                                      *)

\* SendMain returns: disabled, or Connect failed.
GiveUp ==
  /\ WriteFailsAt(0)
  /\ UNCHANGED serverVars

SendDisabled ==
  /\ thread = "start"
  /\ call = "top"
  /\ ~Pipe_Enable
  /\ GiveUp
  /\ UNCHANGED namedVars

\* AnonPipe::Connect does nothing.
ConnectAnon ==
  /\ ~Mode_NamedPipe
  /\ thread = "start"
  /\ Pipe_Enable
  /\ thread' = "loop"
  /\ UNCHANGED <<vars, namedVars, Pipe_Enable, stopping>>

\* NamedPipe::Connect up to CreateNamedPipe.
ConnectCreate ==
  /\ Mode_NamedPipe
  /\ thread = "start"
  /\ call = "top"
  /\ Pipe_Enable
  /\ \/ NamedCreate /\ thread' = "created" /\ UNCHANGED <<vars, Pipe_Enable, stopping>>
     \/ NamedNoClient /\ GiveUp
     \/ NamedCreateFails /\ GiveUp

\* ConnectNamedPipe: the client is there already (ERROR_PIPE_CONNECTED), it has
\* come and gone, or the operation is pending.
ConnectNamed ==
  /\ thread = "created"
  /\ call = "top"
  /\ UNCHANGED namedVars
  /\ IF client = "gone"
       THEN GiveUp
       ELSE /\ thread' = IF client = "connected" THEN "loop" ELSE "listening"
            /\ UNCHANGED <<vars, Pipe_Enable, stopping>>

\* The wait for the client ends: it has opened the pipe, or the quit order.
ConnectWait ==
  /\ thread = "listening"
  /\ call = "top"
  /\ UNCHANGED namedVars
  /\ \/ /\ WaitTrue(client \in {"connected", "gone"})
        /\ thread' = "loop"
        /\ UNCHANGED <<vars, Pipe_Enable, stopping>>
     \/ WaitFalse /\ GiveUp

\* SendMain's loop up to the write: the steps of FileReader.
SendRead ==
  /\ thread = "loop"
  /\ \/ LoopRecording \/ LoopFinished
     \/ GetNextLock \/ GetNextNothing \/ GetNextFromBuff \/ GetNextMiss
     \/ FromFileRefused \/ FromFile \/ FromFileError
  /\ UNCHANGED <<namedVars, serverVars>>

Writing == thread = "loop" /\ call = "data"

\* writer->Write: the call to WriteFile does not return yet.
SendWriteBegin ==
  /\ Writing
  /\ IF Mode_NamedPipe
       THEN NamedWriteFile(ret_data) \/ NamedWriteRefused
       ELSE AnonWriteFile(ret_data) /\ UNCHANGED hQuitOrder
  /\ UNCHANGED <<vars, serverVars>>

\* writer->Write returns TRUE, and Seek.
SendWriteOk ==
  /\ Writing
  /\ IF Mode_NamedPipe
       THEN NamedWriteNow(ret_data) \/ NamedWriteOk
       ELSE AnonWriteOk /\ UNCHANGED hQuitOrder
  /\ WriteData
  /\ UNCHANGED serverVars

\* A wrong variant: the loop goes on after a write that failed.
SendWriteFailsRetries ==
  /\ Writing
  /\ IF Mode_NamedPipe
       THEN NamedWriteBroken \/ NamedWriteQuit
       ELSE (AnonWriteBroken \/ AnonWriteRefused) /\ UNCHANGED hQuitOrder
  /\ ret_data' = <<>>
  /\ call' = "top"
  /\ UNCHANGED <<fileVars, buffVars, fpos_read, TS_FinishWrite, fp, recorder,
                 pending, readable_fpos, delivered, serverVars>>

\* writer->Write returns FALSE: the loop ends.  What was handed to the pipe
\* counts as sent.
SendWriteFails ==
  /\ Writing
  /\ IF Mode_NamedPipe
       THEN NamedWriteBroken \/ NamedWriteQuit
       ELSE (AnonWriteBroken \/ AnonWriteRefused) /\ UNCHANGED hQuitOrder
  /\ WriteFailsAt(IF op \in {"pending", "done", "broken"} THEN Len(ret_data) ELSE 0)
  /\ UNCHANGED serverVars

\* SendMain_Invoker after SendMain: reader and writer are closed.
SendClose ==
  /\ call \in {"exit", "quit"}
  /\ thread # "closed"
  /\ thread' = "closed"
  /\ IF Mode_NamedPipe THEN NamedClose ELSE AnonClose /\ UNCHANGED hQuitOrder
  /\ UNCHANGED <<vars, Pipe_Enable, stopping>>

SenderThread ==
  \/ SendDisabled \/ ConnectAnon \/ ConnectCreate \/ ConnectNamed \/ ConnectWait
  \/ SendRead \/ SendWriteBegin \/ SendWriteOk \/ SendWriteFails \/ SendClose

-----------------------------------------------------------------------------
(* The caller's thread: CWriteMain and PipeServer::Stop.                   *)

\* CWriteMain::Write as far as this server sees it.
Record ==
  /\ \/ \E n \in 1..MaxChunk : RecordWrite(n)
     \/ AppendLocked
     \/ AppendTimeout
  /\ UNCHANGED <<namedVars, serverVars>>

\* Stop sets TS_FinishWrite, called from CWriteMain::Stop or, after a failed
\* WriteFile, from CWriteMain::Write.
StopNotify ==
  /\ RecordStop \/ RecordFail
  /\ stopping' = "notified"
  /\ UNCHANGED <<namedVars, Pipe_Enable, thread>>

\* A wrong variant: the quit order is left out.
StopSignalNothing ==
  /\ stopping = "notified"
  /\ stopping' = "signalled"
  /\ UNCHANGED <<vars, namedVars, Pipe_Enable, thread>>

\* After 100 ms SetEvent(hQuitOrder).  Without a named pipe the handle is
\* INVALID_HANDLE_VALUE and the call does nothing.
StopSignal ==
  /\ stopping = "notified"
  /\ stopping' = "signalled"
  /\ hQuitOrder' = IF Mode_NamedPipe THEN "set" ELSE hQuitOrder
  /\ UNCHANGED <<vars, pipeVars, Pipe_Enable, thread>>

\* A wrong variant: the thread is not waited for.
StopDetach ==
  /\ stopping = "signalled"
  /\ stopping' = "joined"
  /\ hQuitOrder' = IF Mode_NamedPipe THEN "closed" ELSE hQuitOrder
  /\ UNCHANGED <<vars, pipeVars, Pipe_Enable, thread>>

\* join returns and the event is closed.  Stop once more changes nothing.
StopJoin ==
  /\ stopping = "signalled"
  /\ thread = "closed"
  /\ stopping' = "joined"
  /\ hQuitOrder' = IF Mode_NamedPipe THEN "closed" ELSE hQuitOrder
  /\ UNCHANGED <<vars, pipeVars, Pipe_Enable, thread>>

\* CWriteMain::Write goes on with the failed file.
StopReturned ==
  /\ stopping = "joined"
  /\ RecordFailed
  /\ UNCHANGED <<namedVars, serverVars>>

Stopping == StopSignal \/ StopJoin \/ StopReturned

-----------------------------------------------------------------------------
(* The client process.                                                     *)

ClientOpens == ClientConnect /\ UNCHANGED <<vars, serverVars>>

ClientReads ==
  /\ \E n \in 1..Len(pipe) : ClientRead(n)
  /\ UNCHANGED <<vars, hQuitOrder, serverVars>>

ClientExits == ClientExit /\ UNCHANGED <<vars, hQuitOrder, serverVars>>

\* Stop has returned.
PSTerminated ==
  /\ stopping = "joined"
  /\ recorder \in {"stopped", "failed"}
  /\ UNCHANGED psVars

PSNext ==
  \/ SenderThread
  \/ Record \/ StopNotify \/ Stopping
  \/ ClientOpens \/ ClientReads \/ ClientExits
  \/ PSTerminated

PSSpec == PSInit /\ [][PSNext]_psVars

\* Both threads of the program are scheduled.  Nothing is assumed of the
\* client, nor that the recording ever ends.
PSFairSpec ==
  /\ PSSpec
  /\ WF_psVars(SenderThread)
  /\ WF_psVars(Stopping)

\* The client goes on reading as long as it holds the pipe.
ClientFairSpec == PSFairSpec /\ WF_psVars(ClientReads)

-----------------------------------------------------------------------------
(* Properties.                                                             *)

\* The server does to the FileReader nothing but what FileReader.tla allows.
ImplementsFileReader == Spec

\* What the client has read and what waits for it in the pipe is the recording
\* up to fpos_read, and the block of a write under way: a write that returns
\* FALSE sent nothing that is sent again, one that returns TRUE left nothing
\* out, whichever way overlapped or blocking I/O ended.
ClientSeesCursor ==
  (thread = "loop" /\ call # "quit" /\ HasReader) =>
    received \o pipe =
      SubSeq(recorded, 1, fpos_read) \o (IF op = "none" THEN <<>> ELSE ret_data)

\* What the client has got, with what it still can read, is a prefix of the
\* recording: also after a write that was given up on the quit order and may
\* yet be read, after the thread has closed its end, and after the client has
\* left in the middle of a block.  (When a WriteFile has failed, see
\* SendsOnlyWritten.)
ClientReadsPrefix ==
  recorder \in {"recording", "stopped"} => IsPrefix(received \o pipe, recorded)

\* When the thread ends because of the end of the file, a client that still
\* holds its end has got or can still read the whole recording: closing the
\* write end takes nothing away from it.  (NamedPipe::Close takes the client's
\* end away, with what it has not read.)
ClientLeftAll ==
  (call = "exit" /\ fp = "eof" /\ recorder = "stopped" /\ HasReader) =>
    received \o pipe = recorded

\* The quit order's handle is closed only when the sender thread, which waits
\* for it in Connect and Write, is over, and a write is never left under way
\* by a thread that goes on.
QuitHandleLive ==
  /\ (hQuitOrder = "closed" \/ stopping = "joined") => thread = "closed"
  /\ op # "none" => Writing

\* PipeServer::Stop comes back: from Connect, Write and the loop the thread
\* finds its way out.  A client that does not read cannot hold it up.
StopReturns == stopping = "notified" ~> stopping = "joined"

\* A client on an anonymous pipe that goes on reading gets the whole of the
\* recording once it is stopped, the part the buffer dropped too.
ClientGetsAll ==
  stopping = "notified" ~>
    \/ received = recorded
    \/ client # "connected" \/ hWritePipe = "none" \/ ~Pipe_Enable
    \/ fp \in {"null", "err"}

\* PipeServer.cpp:181, `quit = true;// hQuitOrder or error`: a write to a client
\* that has gone is an error that ends the sending.
WriteErrorQuits ==
  (thread = "loop" /\ call = "data" /\ client = "gone") ~> call = "quit"
=============================================================================
