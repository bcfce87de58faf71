------------------------------ MODULE CmdPipe ------------------------------
(***************************************************************************)
(* Commands over a named pipe: CPipeServer (Common/PipeServer.cpp), which  *)
(* serves one client after the other, and CSendCtrlCmd::SendPipe           *)
(* (Common/SendCtrlCmd.cpp), the clients of it.                            *)
(*                                                                         *)
(* A named auto-reset event hands out the turn: the server sets it when it *)
(* listens, the client whose wait consumes it opens the pipe.  A request   *)
(* and an answer are each written and read as header and data with nothing *)
(* in between that others could see: one message here, named by its        *)
(* client.  The pipe is in byte mode with 8192 bytes each way: a longer    *)
(* answer blocks in WriteFile instead of in FlushFileBuffers.              *)
(*                                                                         *)
(* What Windows does is modelled from its documentation: an instance can   *)
(* be opened from CreateNamedPipe on; ConnectNamedPipe behind that opening *)
(* fails with ERROR_PIPE_CONNECTED and signals nothing; a disconnected     *)
(* instance can be opened again behind the next ConnectNamedPipe; an event *)
(* lives as long as a handle to it, so also in the hands of a client.      *)
(***************************************************************************)
EXTENDS Integers, FiniteSets

CONSTANTS
  PipeClients,   \* threads that call SendPipe
  Nobody,        \* no client
  MaxStarts,     \* bound on StartServer calls
  MaxPipeCalls   \* bound on the calls of each client

ASSUME NobodyAssumption == Nobody \notin PipeClients

\* What SendPipe returns instead of an answer, which is named by its client.
Failures == {"CMD_ERR", "CMD_ERR_CONNECT", "CMD_ERR_TIMEOUT"}

ASSUME AnswersAssumption == PipeClients \cap (Failures \cup {"none"}) = {}

VARIABLES
  \* the server object and its thread
  thread,      \* program counter of ServerThread, see Threads
  workThread,  \* the object's thread handle is open
  stopEvent,   \* auto-reset
  connected,   \* hEventArray[1], signalled by the pipe when a client opened it
  cmd,         \* the client whose request the thread has read
  \* Windows objects
  pipe,        \* the pipe instance: none, created, listening, open, cut
  peer,        \* the client that holds the client end
  hEvent,      \* the server thread has the named event open
  waitEvent,   \* the named event is set
  leaked,      \* handles of a thread that was terminated stay open
  request,     \* the peer's request is in the pipe
  answer,      \* the client whose answer is in the pipe
  \* the clients
  client,      \* program counter of SendPipe, see Clients
  ret,         \* what the last SendPipe returned
  \* history
  executed,    \* the callback has run for the call in progress
  lost,        \* a client died between its turn and the opening
  early,       \* a client opened the pipe before ConnectNamedPipe
  starts, calls

serverVars == <<thread, workThread, stopEvent, connected, cmd>>
pipeVars == <<pipe, peer, hEvent, waitEvent, leaked, request, answer>>
clientVars == <<client, ret, executed, lost, early>>
cpVars == <<serverVars, pipeVars, clientVars, starts, calls>>

Threads == {"off", "begin", "create", "connect", "signal", "wait", "read", "call",
            "write", "next", "flush", "exit"}
Clients == {"idle", "waiting", "turn", "write", "read", "dead"}
PipeStates == {"none", "created", "listening", "open", "cut"}

\* The event object exists while somebody holds a handle to it.
EventExists == hEvent \/ leaked \/ \E c \in PipeClients : client[c] = "waiting"

CPInit ==
  /\ thread = "off" /\ workThread = FALSE /\ stopEvent = FALSE
  /\ connected = FALSE /\ cmd = Nobody
  /\ pipe = "none" /\ peer = Nobody /\ hEvent = FALSE /\ waitEvent = FALSE
  /\ leaked = FALSE /\ request = FALSE /\ answer = Nobody
  /\ client = [c \in PipeClients |-> "idle"]
  /\ ret = [c \in PipeClients |-> "none"]
  /\ executed = [c \in PipeClients |-> FALSE]
  /\ lost = FALSE /\ early = FALSE
  /\ starts = 0 /\ calls = [c \in PipeClients |-> 0]

-----------------------------------------------------------------------------
(* The owner of the server *)

StartServer ==
  /\ ~workThread
  /\ starts < MaxStarts
  /\ starts' = starts + 1
  /\ stopEvent' = FALSE
  /\ workThread' = TRUE
  /\ thread' = "begin"
  /\ UNCHANGED <<connected, cmd, pipeVars, clientVars, calls>>

\* StopServer, with checkOnlyFlag or at the beginning of its wait of 60 s, and
\* likewise the destructor.
StopRequest ==
  /\ workThread
  /\ thread # "off"
  /\ ~stopEvent
  /\ stopEvent' = TRUE
  /\ UNCHANGED <<thread, workThread, connected, cmd, pipeVars, clientVars, starts, calls>>

\* The thread has ended: StopServer returns TRUE.
StopServer ==
  /\ workThread
  /\ thread = "off"
  /\ workThread' = FALSE
  /\ stopEvent' = TRUE
  /\ UNCHANGED <<thread, connected, cmd, pipeVars, clientVars, starts, calls>>

\* 60 s were not enough for a callback or for a client's part of the exchange: the
\* thread is terminated, and what it had open stays open.
StopTerminates ==
  /\ workThread
  /\ stopEvent
  /\ thread \in {"read", "call", "flush"}
  /\ thread' = "off"
  /\ workThread' = FALSE
  /\ leaked' = TRUE
  /\ hEvent' = FALSE
  /\ cmd' = Nobody
  /\ UNCHANGED <<stopEvent, connected, pipe, peer, waitEvent, request, answer,
                 clientVars, starts, calls>>

-----------------------------------------------------------------------------
(* ServerThread *)

\* CreateEvent opens the event that exists, as it is, or makes one that is not set.
ServerCreateEvent ==
  /\ thread = "begin"
  /\ hEvent' = TRUE
  /\ waitEvent' = (EventExists /\ waitEvent)
  /\ thread' = "create"
  /\ UNCHANGED <<workThread, stopEvent, connected, cmd, pipe, peer, leaked, request,
                 answer, clientVars, starts, calls>>

\* At most one instance: behind a leaked one CreateNamedPipe fails, and the thread
\* ends although StartServer has returned TRUE.
ServerCreatePipe ==
  /\ thread = "create"
  /\ connected' = FALSE
  /\ IF leaked
       THEN /\ thread' = "off" /\ hEvent' = FALSE
            /\ UNCHANGED pipe
       ELSE /\ thread' = "connect" /\ pipe' = "created"
            /\ UNCHANGED hEvent
  /\ UNCHANGED <<workThread, stopEvent, cmd, peer, waitEvent, leaked, request, answer,
                 clientVars, starts, calls>>

\* A client that opened the new instance before is not noticed.
ServerConnect ==
  /\ thread = "connect"
  /\ pipe' = IF pipe = "open" THEN "open" ELSE "listening"
  /\ connected' = FALSE
  /\ thread' = "signal"
  /\ UNCHANGED <<workThread, stopEvent, cmd, peer, hEvent, waitEvent, leaked, request,
                 answer, clientVars, starts, calls>>

ServerSignal ==
  /\ thread = "signal"
  /\ waitEvent' = TRUE
  /\ lost' = FALSE
  /\ thread' = "wait"
  /\ UNCHANGED <<workThread, stopEvent, connected, cmd, pipe, peer, hEvent, leaked,
                 request, answer, client, ret, executed, early, starts, calls>>

\* The lowest signalled index wins: a stop goes before a client.
ServerWait ==
  /\ thread = "wait"
  /\ \/ stopEvent /\ stopEvent' = FALSE /\ thread' = "exit" /\ UNCHANGED connected
     \/ ~stopEvent /\ connected /\ connected' = FALSE /\ thread' = "read"
        /\ UNCHANGED stopEvent
  /\ UNCHANGED <<workThread, cmd, pipeVars, clientVars, starts, calls>>

\* A mutant: the request is read and stays in the pipe, to be read again.
ServerReadKeeps ==
  /\ thread = "read"
  /\ \/ request /\ cmd' = peer /\ thread' = "call"
     \/ ~request /\ peer = Nobody /\ thread' = "flush" /\ UNCHANGED cmd
  /\ UNCHANGED <<workThread, stopEvent, connected, pipe, peer, hEvent, waitEvent, leaked,
                 request, answer, clientVars, starts, calls>>

\* ReadFileAll, without a timeout: the request, or less when the client is gone.
ServerRead ==
  /\ thread = "read"
  /\ \/ /\ request
        /\ request' = FALSE /\ cmd' = peer /\ thread' = "call"
     \/ /\ ~request /\ peer = Nobody
        /\ thread' = "flush"
        /\ UNCHANGED <<request, cmd>>
  /\ UNCHANGED <<workThread, stopEvent, connected, pipe, peer, hEvent, waitEvent, leaked,
                 answer, clientVars, starts, calls>>

\* cmdProc runs.  The command of a client that died is executed all the same, but not
\* recorded: no caller waits for it, and none was told anything of it.
ServerCallback ==
  /\ thread = "call"
  /\ thread' = "write"
  /\ executed' = IF cmd = Nobody THEN executed ELSE [executed EXCEPT ![cmd] = TRUE]
  /\ UNCHANGED <<workThread, stopEvent, connected, cmd, pipeVars, client, ret, lost,
                 early, starts, calls>>

\* A mutant: CMD_NEXT, which announces more, is not written.
ServerWriteSkipsNext ==
  /\ thread = "write"
  /\ cmd' = Nobody
  /\ \/ answer' = cmd /\ thread' = "flush"
     \/ UNCHANGED answer /\ thread' = "read"
  /\ UNCHANGED <<workThread, stopEvent, connected, pipe, peer, hEvent, waitEvent, leaked,
                 request, clientVars, starts, calls>>

\* The answer is written, or WriteFile fails since the client is gone.  Behind
\* CMD_NEXT the thread reads again.
ServerWrite ==
  /\ thread = "write"
  /\ cmd' = Nobody
  /\ IF peer = Nobody
       THEN thread' = "flush" /\ UNCHANGED answer
       ELSE thread' \in {"flush", "read"} /\ answer' = cmd
  /\ UNCHANGED <<workThread, stopEvent, connected, pipe, peer, hEvent, waitEvent, leaked,
                 request, clientVars, starts, calls>>

\* A mutant: the connection is cut without waiting for the client.
FlushedAtOnce(a) == TRUE

\* FlushFileBuffers is over: the client has read the answer or has gone.
Flushed(a) == a = Nobody

\* A mutant: the instance is not made to listen again.
ServerDisconnectOnly ==
  /\ thread = "flush"
  /\ Flushed(answer)
  /\ pipe' = "cut" /\ peer' = Nobody /\ request' = FALSE /\ answer' = Nobody
  /\ thread' = "signal"
  /\ UNCHANGED <<workThread, stopEvent, connected, cmd, hEvent, waitEvent, leaked,
                 clientVars, starts, calls>>

\* FlushFileBuffers and DisconnectNamedPipe, which throws away what is unread.
ServerDisconnect ==
  /\ thread = "flush"
  /\ Flushed(answer)
  /\ pipe' = "cut" /\ peer' = Nobody /\ request' = FALSE /\ answer' = Nobody
  /\ thread' = "connect"
  /\ UNCHANGED <<workThread, stopEvent, connected, cmd, hEvent, waitEvent, leaked,
                 clientVars, starts, calls>>

\* After a stop: nothing was written, so that the flush does not wait.  The event
\* is gone with its last handle.
ServerExit ==
  /\ thread = "exit"
  /\ pipe' = "none" /\ peer' = Nobody /\ request' = FALSE
  /\ hEvent' = FALSE
  /\ thread' = "off"
  /\ UNCHANGED <<workThread, stopEvent, connected, cmd, waitEvent, leaked, answer,
                 clientVars, starts, calls>>

ServerThread ==
  \/ ServerCreateEvent \/ ServerCreatePipe \/ ServerConnect \/ ServerSignal
  \/ ServerWait \/ ServerRead \/ ServerCallback \/ ServerWrite
  \/ ServerDisconnect \/ ServerExit

-----------------------------------------------------------------------------
(* SendPipe *)

Return(c, code) ==
  /\ client' = [client EXCEPT ![c] = "idle"]
  /\ ret' = [ret EXCEPT ![c] = code]

ClientUnchanged == UNCHANGED <<serverVars, starts>>

\* OpenEvent: without a server there is no event.
ClientOpenEvent(c) ==
  /\ client[c] = "idle"
  /\ calls[c] < MaxPipeCalls
  /\ calls' = [calls EXCEPT ![c] = @ + 1]
  /\ executed' = [executed EXCEPT ![c] = FALSE]
  /\ IF EventExists
       THEN client' = [client EXCEPT ![c] = "waiting"] /\ ret' = [ret EXCEPT ![c] = "none"]
       ELSE Return(c, "CMD_ERR_CONNECT")
  /\ UNCHANGED <<pipeVars, lost, early>>
  /\ ClientUnchanged

\* WaitForSingleObject, which consumes the event, and CloseHandle.
ClientTurn(c) ==
  /\ client[c] = "waiting"
  /\ waitEvent
  /\ waitEvent' = FALSE
  /\ client' = [client EXCEPT ![c] = "turn"]
  /\ UNCHANGED <<pipe, peer, hEvent, leaked, request, answer, ret, executed, lost, early, calls>>
  /\ ClientUnchanged

\* The wait lasts connectTimeOut at most.
ClientTimeout(c) ==
  /\ client[c] = "waiting"
  /\ ~waitEvent
  /\ Return(c, "CMD_ERR_TIMEOUT")
  /\ UNCHANGED <<pipeVars, executed, lost, early, calls>>
  /\ ClientUnchanged

\* CreateFile.  The pending ConnectNamedPipe completes.
ClientOpenPipe(c) ==
  /\ client[c] = "turn"
  /\ IF pipe \in {"created", "listening"}
       THEN /\ pipe' = "open" /\ peer' = c
            /\ connected' = (pipe = "listening")
            /\ early' = (pipe = "created")
            /\ client' = [client EXCEPT ![c] = "write"]
            /\ UNCHANGED ret
       ELSE /\ Return(c, "CMD_ERR_CONNECT")
            /\ UNCHANGED <<pipe, peer, connected, early>>
  /\ UNCHANGED <<thread, workThread, stopEvent, cmd, hEvent, waitEvent, leaked, request,
                 answer, executed, lost, starts, calls>>

\* The request is written, unless the server has cut the connection.
ClientWrite(c) ==
  /\ client[c] = "write"
  /\ IF peer = c
       THEN /\ request' = TRUE
            /\ client' = [client EXCEPT ![c] = "read"]
            /\ UNCHANGED ret
       ELSE Return(c, "CMD_ERR") /\ UNCHANGED request
  /\ UNCHANGED <<pipe, peer, hEvent, waitEvent, leaked, answer, executed, lost, early, calls>>
  /\ ClientUnchanged

\* ReadFileAll, without a timeout, and CloseHandle: the answer, or less when the
\* server has cut the connection.
ClientRead(c) ==
  /\ client[c] = "read"
  /\ \/ peer = c /\ answer # Nobody /\ Return(c, answer) /\ answer' = Nobody
        /\ peer' = Nobody
     \/ peer # c /\ Return(c, "CMD_ERR") /\ UNCHANGED <<peer, answer>>
  /\ UNCHANGED <<pipe, hEvent, waitEvent, leaked, request, executed, lost, early, calls>>
  /\ ClientUnchanged

\* The client's process ends anywhere in SendPipe; its handles are closed.
ClientDies(c) ==
  /\ client[c] \notin {"idle", "dead"}
  /\ client' = [client EXCEPT ![c] = "dead"]
  /\ lost' = (lost \/ (client[c] = "turn" /\ ~waitEvent))
  /\ peer' = IF peer = c THEN Nobody ELSE peer
  /\ answer' = IF peer = c THEN Nobody ELSE answer
  /\ UNCHANGED <<pipe, hEvent, waitEvent, leaked, request, ret, executed, early, calls>>
  /\ ClientUnchanged

\* SendPipe behind its OpenEvent.
ClientGoesOn(c) ==
  \/ ClientTurn(c) \/ ClientTimeout(c)
  \/ ClientOpenPipe(c) \/ ClientWrite(c) \/ ClientRead(c)

-----------------------------------------------------------------------------

CPNext ==
  \/ StartServer \/ StopRequest \/ StopServer \/ StopTerminates
  \/ ServerThread
  \/ \E c \in PipeClients : ClientOpenEvent(c) \/ ClientGoesOn(c) \/ ClientDies(c)

CPTypeOK ==
  /\ thread \in Threads
  /\ workThread \in BOOLEAN /\ stopEvent \in BOOLEAN /\ connected \in BOOLEAN
  /\ hEvent \in BOOLEAN /\ waitEvent \in BOOLEAN /\ leaked \in BOOLEAN
  /\ request \in BOOLEAN /\ lost \in BOOLEAN /\ early \in BOOLEAN
  /\ pipe \in PipeStates
  /\ {cmd, peer, answer} \subseteq PipeClients \cup {Nobody}
  /\ client \in [PipeClients -> Clients]
  /\ executed \in [PipeClients -> BOOLEAN]
  /\ ret \in [PipeClients -> PipeClients \cup Failures \cup {"none"}]

\* A server that waits can be reached: its event is set, or the client whose turn it
\* is goes on to open the pipe; and a client that opened it has been noticed.  The
\* turn is lost with a client that dies holding it, and a client that keeps the
\* event alive over a restart may open the pipe too early: in these two cases the code
\* does leave its clients without a server, and the property claims nothing
\* (PipeServer.cpp:126-130, SendCtrlCmd.cpp:121-130).
PipeReachable ==
  thread = "wait" =>
    \/ /\ pipe = "listening"
       /\ waitEvent \/ lost \/ \E c \in PipeClients : client[c] = "turn"
    \/ /\ pipe = "open"
       /\ connected \/ early

\* A client gets the answer to its own command, and none that was executed is
\* reported as failed: neither Stop, which waits for the exchange, nor the end of
\* the connection loses an answer (PipeServer.cpp:153-179).
ExecutedIsAnswered ==
  \A c \in PipeClients : client[c] = "idle" =>
    /\ ret[c] \in PipeClients => ret[c] = c
    /\ ret[c] = c <=> executed[c]

\* SendPipe seen from outside: between its OpenEvent and its return it is a call in
\* progress, wherever it is in the exchange.
phase ==
  [c \in PipeClients |-> IF client[c] \in {"idle", "dead"} THEN client[c] ELSE "calling"]

RC == INSTANCE RemoteCall WITH Callers <- PipeClients

\* Server and clients together implement a remote call.  No command is executed twice:
\* not behind CMD_NEXT, when the thread reads again, nor by the thread of a restarted
\* server, nor for a client that died behind its request; and none is executed behind
\* the failure that its caller was told of (PipeServer.cpp:141-179,
\* SendCtrlCmd.cpp:108-170).
ImplementsRemoteCall == RC!Spec

\* SendPipe returns though it reads without a timeout (SendCtrlCmd.cpp:154), if the
\* server's thread is not terminated under it nor connected too early; behind either of
\* these a call may wait for ever.
PipeCallReturns ==
  \A c \in PipeClients :
    client[c] # "idle" ~> client[c] \in {"idle", "dead"} \/ early \/ leaked

\* Windows schedules the server's thread and the threads of the clients, and the
\* callbacks return.
CPFairness ==
  WF_cpVars(ServerThread) /\ \A c \in PipeClients : WF_cpVars(ClientGoesOn(c))

CPSpec == CPInit /\ [][CPNext]_cpVars /\ CPFairness
=============================================================================
