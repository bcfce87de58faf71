----------------------------- MODULE NamedPipe ------------------------------
(***************************************************************************)
(* NamedPipe (NamedPipe.h): the client opens the pipe by its name, connect *)
(* and write are overlapped and wait for their own event or for the quit   *)
(* order, which the thread in PipeServer::Stop sets.                       *)
(***************************************************************************)
EXTENDS PipeWriter

VARIABLE hQuitOrder       \* the event: "none" (anonymous), "unset", "set", "closed"

namedVars == <<pipeVars, hQuitOrder>>

\* RunClient: CreateProcess succeeds or not.  The pipe does not exist yet.
NamedRunClient ==
  /\ client \in {"none", "starting"}
  /\ hWritePipe = "none"
  /\ pipe = <<>>
  /\ received = <<>>
  /\ op = "none"
  /\ hQuitOrder = "unset"

\* A client that runs opens the pipe once there is one.
ClientConnect ==
  /\ client = "starting"
  /\ hWritePipe = "open"
  /\ client' = "connected"
  /\ UNCHANGED <<hWritePipe, pipe, received, op, hQuitOrder>>

\* WaitEvent: the quit order comes first when both are signalled.
WaitTrue(signalled) == signalled /\ hQuitOrder # "set"
WaitFalse == hQuitOrder = "set"

\* Connect: hasClient is false.
NamedNoClient == client = "none" /\ UNCHANGED namedVars

\* Connect: CreateNamedPipe, which may fail.
NamedCreate ==
  /\ client # "none"
  /\ hWritePipe' = "open"
  /\ UNCHANGED <<client, pipe, received, op, hQuitOrder>>

NamedCreateFails == client # "none" /\ UNCHANGED namedVars

\* Write: WriteFile takes the data d and returns TRUE.
NamedWriteNow(d) ==
  /\ op = "none"
  /\ HasReader
  /\ Len(pipe \o d) <= PipeSize
  /\ pipe' = pipe \o d
  /\ UNCHANGED <<client, hWritePipe, received, op, hQuitOrder>>

\* Write: WriteFile takes the data and returns FALSE, ERROR_IO_PENDING.
NamedWriteFile(d) == Accept(d) /\ UNCHANGED hQuitOrder

\* Write: WriteFile fails.  The code does not ask why (NamedPipe.h:143) and
\* goes on to wait.
NamedWriteRefused ==
  /\ op = "none"
  /\ ~HasReader
  /\ op' = "refused"
  /\ UNCHANGED <<client, hWritePipe, pipe, received, hQuitOrder>>

\* Write returns TRUE after a wait.
NamedWriteOk == WaitTrue(op = "done") /\ Return /\ UNCHANGED hQuitOrder

\* Write returns FALSE: the operation failed.
NamedWriteBroken == WaitTrue(op = "broken") /\ Return /\ UNCHANGED hQuitOrder

\* Write returns FALSE: the quit order.  The operation is not cancelled.
NamedWriteQuit ==
  /\ op # "none"
  /\ WaitFalse
  /\ Return
  /\ UNCHANGED hQuitOrder

\* Close: DisconnectNamedPipe discards what the client has not read and takes
\* its end away.
NamedClose ==
  /\ hWritePipe' = IF hWritePipe = "open" THEN "closed" ELSE hWritePipe
  /\ IF hWritePipe = "open" /\ client = "connected"
       THEN client' = "gone" /\ pipe' = <<>>
       ELSE UNCHANGED <<client, pipe>>
  /\ UNCHANGED <<received, op, hQuitOrder>>
=============================================================================
