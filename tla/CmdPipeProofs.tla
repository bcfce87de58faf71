---------------------------- MODULE CmdPipeProofs ----------------------------
(***************************************************************************)
(* Proofs about CmdPipe for every number of clients, calls and starts.     *)
(***************************************************************************)
EXTENDS CmdPipe, TLAPS

-----------------------------------------------------------------------------
(* The inductive invariant.                                                *)

\* Where the pipe instance is when the thread is at a place.  A thread that was
\* terminated leaves it open for good.
ServerInv ==
  /\ ~workThread => thread = "off"
  /\ leaked => thread \in {"off", "begin", "create"} /\ pipe = "open"
  /\ ~leaked /\ thread \in {"off", "begin", "create"} => pipe = "none"
  /\ thread = "connect" => pipe \in {"created", "cut"} \/ (pipe = "open" /\ early)
  /\ thread = "signal" => pipe = "listening" \/ (pipe = "open" /\ (connected \/ early))
  /\ connected /\ thread \in {"signal", "wait"} => pipe = "open"
  /\ thread = "exit" => pipe \in {"listening", "open"}
  /\ thread \in {"read", "call", "write", "flush"} => pipe = "open"

\* One connection at a time, with one request and then one answer: what is in the
\* pipe or in the hands of the thread is the peer's, or of one that died.
ConnectionInv ==
  /\ peer # Nobody => pipe = "open" /\ client[peer] \in {"write", "read"}
  /\ request => /\ pipe = "open"
                /\ thread \notin {"call", "write"}
                /\ peer # Nobody => client[peer] = "read" /\ answer = Nobody
  /\ thread \in {"call", "write"} =>
       /\ peer \in {Nobody, cmd}
       /\ cmd # Nobody => client[cmd] = "dead" \/ (client[cmd] = "read" /\ peer = cmd)
  /\ answer # Nobody =>
       /\ answer = peer
       /\ client[answer] = "read"
       /\ leaked \/ thread \in {"read", "flush"}

\* A command that was executed for a client that waits is about to be answered, or
\* its answer is in the pipe.
CommandInv ==
  /\ thread = "write" /\ cmd # Nobody => executed[cmd]
  /\ answer # Nobody => executed[answer]
  /\ \A c \in PipeClients :
       client[c] \in {"waiting", "turn", "write"} => ~executed[c]
  /\ \A c \in PipeClients : client[c] = "read" /\ executed[c] =>
       \/ answer = c
       \/ peer = c /\ thread = "write" /\ cmd = c

CPInv ==
  /\ CPTypeOK
  /\ ServerInv
  /\ ConnectionInv
  /\ CommandInv
  /\ PipeReachable
  /\ ExecutedIsAnswered

-----------------------------------------------------------------------------
LEMMA InitCPInv == CPInit => CPInv
<1> SUFFICES ASSUME CPInit
             PROVE  CPInv
  OBVIOUS
<1> USE NobodyAssumption, AnswersAssumption DEF CPInit
<1>1. CPTypeOK
  BY DEF CPTypeOK, Threads, Clients, PipeStates, Failures
<1>2. ServerInv /\ ConnectionInv /\ CommandInv
  BY DEF ServerInv, ConnectionInv, CommandInv
<1>3. PipeReachable /\ ExecutedIsAnswered
  BY DEF PipeReachable, ExecutedIsAnswered
<1> QED
  BY <1>1, <1>2, <1>3 DEF CPInv

(* The owner of the server.                                                *)

LEMMA StartServerCPInv ==
  ASSUME CPInv, StartServer
  PROVE  CPInv'
<1> USE NobodyAssumption, AnswersAssumption
    DEF CPInv, StartServer, serverVars, pipeVars, clientVars
<1>1. CPTypeOK'
  BY DEF CPTypeOK, Threads
<1>2. ServerInv'
  BY DEF ServerInv
<1>3. ConnectionInv'
  BY DEF ServerInv, ConnectionInv
<1>4. CommandInv'
  BY DEF ServerInv, CommandInv
<1>5. PipeReachable'
  BY DEF PipeReachable
<1>6. ExecutedIsAnswered'
  BY DEF ExecutedIsAnswered
<1> QED
  BY <1>1, <1>2, <1>3, <1>4, <1>5, <1>6

LEMMA StopRequestCPInv ==
  ASSUME CPInv, StopRequest
  PROVE  CPInv'
<1> USE NobodyAssumption, AnswersAssumption
    DEF CPInv, StopRequest, serverVars, pipeVars, clientVars
<1>1. CPTypeOK'
  BY DEF CPTypeOK
<1>2. ServerInv'
  BY DEF ServerInv
<1>3. ConnectionInv'
  BY DEF ConnectionInv
<1>4. CommandInv'
  BY DEF CommandInv
<1>5. PipeReachable'
  BY DEF PipeReachable
<1>6. ExecutedIsAnswered'
  BY DEF ExecutedIsAnswered
<1> QED
  BY <1>1, <1>2, <1>3, <1>4, <1>5, <1>6

LEMMA StopServerCPInv ==
  ASSUME CPInv, StopServer
  PROVE  CPInv'
<1> USE NobodyAssumption, AnswersAssumption
    DEF CPInv, StopServer, serverVars, pipeVars, clientVars
<1>1. CPTypeOK'
  BY DEF CPTypeOK
<1>2. ServerInv'
  BY DEF ServerInv
<1>3. ConnectionInv'
  BY DEF ConnectionInv
<1>4. CommandInv'
  BY DEF CommandInv
<1>5. PipeReachable'
  BY DEF PipeReachable
<1>6. ExecutedIsAnswered'
  BY DEF ExecutedIsAnswered
<1> QED
  BY <1>1, <1>2, <1>3, <1>4, <1>5, <1>6

LEMMA StopTerminatesCPInv ==
  ASSUME CPInv, StopTerminates
  PROVE  CPInv'
<1> USE NobodyAssumption, AnswersAssumption
    DEF CPInv, StopTerminates, serverVars, pipeVars, clientVars
<1>1. CPTypeOK'
  BY DEF CPTypeOK, Threads
<1>2. ServerInv'
  BY DEF ServerInv
<1>3. ConnectionInv'
  BY DEF ConnectionInv
<1>4. CommandInv'
  BY DEF CommandInv
<1>5. PipeReachable'
  BY DEF PipeReachable
<1>6. ExecutedIsAnswered'
  BY DEF ExecutedIsAnswered
<1> QED
  BY <1>1, <1>2, <1>3, <1>4, <1>5, <1>6

(* ServerThread.                                                           *)

LEMMA ServerCreateEventCPInv ==
  ASSUME CPInv, ServerCreateEvent
  PROVE  CPInv'
<1> USE NobodyAssumption, AnswersAssumption
    DEF CPInv, ServerCreateEvent, EventExists, serverVars, pipeVars, clientVars
<1>1. CPTypeOK'
  BY DEF CPTypeOK, Threads
<1>2. ServerInv'
  BY DEF ServerInv
<1>3. ConnectionInv'
  BY DEF ConnectionInv
<1>4. CommandInv'
  BY DEF CommandInv
<1>5. PipeReachable'
  BY DEF PipeReachable
<1>6. ExecutedIsAnswered'
  BY DEF ExecutedIsAnswered
<1> QED
  BY <1>1, <1>2, <1>3, <1>4, <1>5, <1>6

LEMMA ServerCreatePipeCPInv ==
  ASSUME CPInv, ServerCreatePipe
  PROVE  CPInv'
<1> USE NobodyAssumption, AnswersAssumption
    DEF CPInv, ServerCreatePipe, serverVars, pipeVars, clientVars
<1>1. CPTypeOK'
  BY DEF CPTypeOK, Threads, PipeStates
<1>2. ServerInv'
  BY DEF ServerInv
<1>3. ConnectionInv'
  BY DEF ServerInv, ConnectionInv
<1>4. CommandInv'
  BY DEF CommandInv
<1>5. PipeReachable'
  BY DEF PipeReachable
<1>6. ExecutedIsAnswered'
  BY DEF ExecutedIsAnswered
<1> QED
  BY <1>1, <1>2, <1>3, <1>4, <1>5, <1>6

LEMMA ServerConnectCPInv ==
  ASSUME CPInv, ServerConnect
  PROVE  CPInv'
<1> USE NobodyAssumption, AnswersAssumption
    DEF CPInv, ServerConnect, serverVars, pipeVars, clientVars
<1>1. CPTypeOK'
  BY DEF CPTypeOK, Threads, PipeStates
<1>2. ServerInv'
  BY DEF ServerInv
<1>3. ConnectionInv'
  BY DEF ConnectionInv
<1>4. CommandInv'
  BY DEF CommandInv
<1>5. PipeReachable'
  BY DEF PipeReachable
<1>6. ExecutedIsAnswered'
  BY DEF ExecutedIsAnswered
<1> QED
  BY <1>1, <1>2, <1>3, <1>4, <1>5, <1>6

LEMMA ServerSignalCPInv ==
  ASSUME CPInv, ServerSignal
  PROVE  CPInv'
<1> USE NobodyAssumption, AnswersAssumption
    DEF CPInv, ServerSignal, serverVars, pipeVars, clientVars
<1>1. CPTypeOK'
  BY DEF CPTypeOK, Threads
<1>2. ServerInv'
  BY DEF ServerInv
<1>3. ConnectionInv'
  BY DEF ConnectionInv
<1>4. CommandInv'
  BY DEF CommandInv
<1>5. PipeReachable'
  BY DEF ServerInv, PipeReachable
<1>6. ExecutedIsAnswered'
  BY DEF ExecutedIsAnswered
<1> QED
  BY <1>1, <1>2, <1>3, <1>4, <1>5, <1>6

LEMMA ServerWaitCPInv ==
  ASSUME CPInv, ServerWait
  PROVE  CPInv'
<1> USE NobodyAssumption, AnswersAssumption
    DEF CPInv, ServerWait, serverVars, pipeVars, clientVars
<1>1. CPTypeOK'
  BY DEF CPTypeOK, Threads
<1>2. ServerInv'
  BY DEF ServerInv, PipeReachable
<1>3. ConnectionInv'
  BY DEF ConnectionInv
<1>4. CommandInv'
  BY DEF CommandInv
<1>5. PipeReachable'
  BY DEF PipeReachable
<1>6. ExecutedIsAnswered'
  BY DEF ExecutedIsAnswered
<1> QED
  BY <1>1, <1>2, <1>3, <1>4, <1>5, <1>6

LEMMA ServerReadCPInv ==
  ASSUME CPInv, ServerRead
  PROVE  CPInv'
<1> USE NobodyAssumption, AnswersAssumption
    DEF CPInv, ServerRead, serverVars, pipeVars, clientVars
<1>1. CPTypeOK'
  BY DEF CPTypeOK, Threads
<1>2. ServerInv'
  BY DEF ServerInv
<1>3. ConnectionInv'
  BY DEF ConnectionInv
<1>4. CommandInv'
  BY DEF CommandInv
<1>5. PipeReachable'
  BY DEF PipeReachable
<1>6. ExecutedIsAnswered'
  BY DEF ExecutedIsAnswered
<1> QED
  BY <1>1, <1>2, <1>3, <1>4, <1>5, <1>6

LEMMA ServerCallbackCPInv ==
  ASSUME CPInv, ServerCallback
  PROVE  CPInv'
<1> USE NobodyAssumption, AnswersAssumption
    DEF CPInv, ServerCallback, serverVars, pipeVars, clientVars
<1>1. CPTypeOK'
  BY DEF CPTypeOK, Threads
<1>2. ServerInv'
  BY DEF ServerInv
<1>3. ConnectionInv'
  BY DEF ConnectionInv
<1>4. CommandInv'
  BY DEF CPTypeOK, ConnectionInv, CommandInv
<1>5. PipeReachable'
  BY DEF PipeReachable
<1>6. ExecutedIsAnswered'
  BY DEF ConnectionInv, ExecutedIsAnswered
<1> QED
  BY <1>1, <1>2, <1>3, <1>4, <1>5, <1>6

LEMMA ServerWriteCPInv ==
  ASSUME CPInv, ServerWrite
  PROVE  CPInv'
<1> USE NobodyAssumption, AnswersAssumption
    DEF CPInv, ServerWrite, serverVars, pipeVars, clientVars
<1>1. CPTypeOK'
  BY DEF CPTypeOK, Threads
<1>2. ServerInv'
  BY DEF ServerInv
<1>3. ConnectionInv'
  BY DEF ConnectionInv
<1>4. CommandInv'
  BY DEF ConnectionInv, CommandInv
<1>5. PipeReachable'
  BY DEF PipeReachable
<1>6. ExecutedIsAnswered'
  BY DEF ExecutedIsAnswered
<1> QED
  BY <1>1, <1>2, <1>3, <1>4, <1>5, <1>6

LEMMA ServerDisconnectCPInv ==
  ASSUME CPInv, ServerDisconnect
  PROVE  CPInv'
<1> USE NobodyAssumption, AnswersAssumption
    DEF CPInv, ServerDisconnect, Flushed, serverVars, pipeVars, clientVars
<1>1. CPTypeOK'
  BY DEF CPTypeOK, Threads, PipeStates
<1>2. ServerInv'
  BY DEF ServerInv
<1>3. ConnectionInv'
  BY DEF ConnectionInv
<1>4. CommandInv'
  BY DEF CommandInv
<1>5. PipeReachable'
  BY DEF PipeReachable
<1>6. ExecutedIsAnswered'
  BY DEF ExecutedIsAnswered
<1> QED
  BY <1>1, <1>2, <1>3, <1>4, <1>5, <1>6

LEMMA ServerExitCPInv ==
  ASSUME CPInv, ServerExit
  PROVE  CPInv'
<1> USE NobodyAssumption, AnswersAssumption
    DEF CPInv, ServerExit, serverVars, pipeVars, clientVars
<1>1. CPTypeOK'
  BY DEF CPTypeOK, Threads, PipeStates
<1>2. ServerInv'
  BY DEF ServerInv
<1>3. ConnectionInv'
  BY DEF ServerInv, ConnectionInv
<1>4. CommandInv'
  BY DEF CommandInv
<1>5. PipeReachable'
  BY DEF PipeReachable
<1>6. ExecutedIsAnswered'
  BY DEF ExecutedIsAnswered
<1> QED
  BY <1>1, <1>2, <1>3, <1>4, <1>5, <1>6

(* SendPipe.                                                               *)

LEMMA ClientOpenEventCPInv ==
  ASSUME CPInv, NEW c \in PipeClients, ClientOpenEvent(c)
  PROVE  CPInv'
<1> USE NobodyAssumption, AnswersAssumption
    DEF CPInv, ClientOpenEvent, Return, ClientUnchanged, EventExists, serverVars, pipeVars, clientVars
<1>1. CPTypeOK'
  BY DEF CPTypeOK, Clients, Failures
<1>2. ServerInv'
  BY DEF ServerInv
<1>3. ConnectionInv'
  BY DEF CPTypeOK, ConnectionInv
<1>4. CommandInv'
  BY DEF CPTypeOK, ConnectionInv, CommandInv
<1>5. PipeReachable'
  BY DEF CPTypeOK, PipeReachable
<1>6. ExecutedIsAnswered'
  BY DEF CPTypeOK, ExecutedIsAnswered, Failures
<1> QED
  BY <1>1, <1>2, <1>3, <1>4, <1>5, <1>6

LEMMA ClientTurnCPInv ==
  ASSUME CPInv, NEW c \in PipeClients, ClientTurn(c)
  PROVE  CPInv'
<1> USE NobodyAssumption, AnswersAssumption
    DEF CPInv, ClientTurn, Return, ClientUnchanged, serverVars, pipeVars, clientVars
<1>1. CPTypeOK'
  <2>1. client' \in [PipeClients -> Clients]
    BY DEF CPTypeOK, Clients
  <2>2. ret' \in [PipeClients -> PipeClients \cup Failures \cup {"none"}]
    BY DEF CPTypeOK, Failures
  <2> QED
    BY <2>1, <2>2 DEF CPTypeOK
<1>2. ServerInv'
  BY DEF ServerInv
<1>3. ConnectionInv'
  BY DEF ConnectionInv
<1>4. CommandInv'
  BY DEF CommandInv
<1>5. PipeReachable'
  BY DEF CPTypeOK, PipeReachable
<1>6. ExecutedIsAnswered'
  BY DEF ExecutedIsAnswered
<1> QED
  BY <1>1, <1>2, <1>3, <1>4, <1>5, <1>6

LEMMA ClientTimeoutCPInv ==
  ASSUME CPInv, NEW c \in PipeClients, ClientTimeout(c)
  PROVE  CPInv'
<1> USE NobodyAssumption, AnswersAssumption
    DEF CPInv, ClientTimeout, Return, ClientUnchanged, serverVars, pipeVars, clientVars
<1>1. CPTypeOK'
  BY DEF CPTypeOK, Clients, Failures
<1>2. ServerInv'
  BY DEF ServerInv
<1>3. ConnectionInv'
  BY DEF ConnectionInv
<1>4. CommandInv'
  BY DEF CommandInv
<1>5. PipeReachable'
  BY DEF PipeReachable
<1>6. ExecutedIsAnswered'
  BY DEF CPTypeOK, CommandInv, ExecutedIsAnswered, Failures
<1> QED
  BY <1>1, <1>2, <1>3, <1>4, <1>5, <1>6

LEMMA ClientOpenPipeCPInv ==
  ASSUME CPInv, NEW c \in PipeClients, ClientOpenPipe(c)
  PROVE  CPInv'
<1> USE NobodyAssumption, AnswersAssumption
    DEF CPInv, ClientOpenPipe, Return, ClientUnchanged, serverVars, pipeVars, clientVars
<1>1. CPTypeOK'
  <2>1. client' \in [PipeClients -> Clients]
    BY DEF CPTypeOK, Clients
  <2>2. ret' \in [PipeClients -> PipeClients \cup Failures \cup {"none"}]
    BY DEF CPTypeOK, Failures
  <2>3. connected' \in BOOLEAN /\ early' \in BOOLEAN
    BY Zenon DEF CPTypeOK
  <2> QED
    BY <2>1, <2>2, <2>3 DEF CPTypeOK, PipeStates
<1>2. ServerInv'
  BY DEF ServerInv
<1>3. ConnectionInv'
  BY DEF CPTypeOK, ServerInv, ConnectionInv
<1>4. CommandInv'
  BY DEF CPTypeOK, ServerInv, CommandInv
<1>5. PipeReachable'
  BY DEF PipeReachable
<1>6. ExecutedIsAnswered'
  BY DEF CPTypeOK, CommandInv, ExecutedIsAnswered, Failures
<1> QED
  BY <1>1, <1>2, <1>3, <1>4, <1>5, <1>6

LEMMA ClientWriteCPInv ==
  ASSUME CPInv, NEW c \in PipeClients, ClientWrite(c)
  PROVE  CPInv'
<1> USE NobodyAssumption, AnswersAssumption
    DEF CPInv, ClientWrite, Return, ClientUnchanged, serverVars, pipeVars, clientVars
<1>1. CPTypeOK'
  <2>1. client' \in [PipeClients -> Clients]
    BY DEF CPTypeOK, Clients
  <2>2. ret' \in [PipeClients -> PipeClients \cup Failures \cup {"none"}]
    BY DEF CPTypeOK, Failures
  <2> QED
    BY <2>1, <2>2 DEF CPTypeOK
<1>2. ServerInv'
  BY DEF ServerInv
<1>3. ConnectionInv'
  BY DEF CPTypeOK, ConnectionInv
<1>4. CommandInv'
  BY DEF CPTypeOK, CommandInv
<1>5. PipeReachable'
  BY DEF CPTypeOK, PipeReachable
<1>6. ExecutedIsAnswered'
  BY DEF CPTypeOK, CommandInv, ExecutedIsAnswered, Failures
<1> QED
  BY <1>1, <1>2, <1>3, <1>4, <1>5, <1>6

LEMMA ClientReadCPInv ==
  ASSUME CPInv, NEW c \in PipeClients, ClientRead(c)
  PROVE  CPInv'
<1> USE NobodyAssumption, AnswersAssumption
    DEF CPInv, ClientRead, Return, ClientUnchanged, serverVars, pipeVars, clientVars
<1>1. CPTypeOK'
  BY DEF CPTypeOK, Clients, Failures
<1>2. ServerInv'
  BY DEF ServerInv
<1>3. ConnectionInv'
  BY DEF CPTypeOK, ServerInv, ConnectionInv
<1>4. CommandInv'
  BY DEF CPTypeOK, ConnectionInv, CommandInv
<1>5. PipeReachable'
  BY DEF CPTypeOK, PipeReachable
<1>6. ExecutedIsAnswered'
  BY DEF CPTypeOK, ConnectionInv, CommandInv, ExecutedIsAnswered, Failures
<1> QED
  BY <1>1, <1>2, <1>3, <1>4, <1>5, <1>6

LEMMA ClientDiesCPInv ==
  ASSUME CPInv, NEW c \in PipeClients, ClientDies(c)
  PROVE  CPInv'
<1> USE NobodyAssumption, AnswersAssumption
    DEF CPInv, ClientDies, Return, ClientUnchanged, serverVars, pipeVars, clientVars
<1>1. CPTypeOK'
  BY DEF CPTypeOK, Clients
<1>2. ServerInv'
  BY DEF ServerInv
<1>3. ConnectionInv'
  BY DEF CPTypeOK, ConnectionInv
<1>4. CommandInv'
  BY DEF CPTypeOK, ConnectionInv, CommandInv
<1>5. PipeReachable'
  BY DEF CPTypeOK, PipeReachable
<1>6. ExecutedIsAnswered'
  BY DEF ExecutedIsAnswered
<1> QED
  BY <1>1, <1>2, <1>3, <1>4, <1>5, <1>6

LEMMA StutterCPInv ==
  ASSUME CPInv, UNCHANGED cpVars
  PROVE  CPInv'
BY DEF CPInv, cpVars, serverVars, pipeVars, clientVars, CPTypeOK, ServerInv,
       ConnectionInv, CommandInv, PipeReachable, ExecutedIsAnswered

-----------------------------------------------------------------------------
\* Every step preserves the invariant.
LEMMA StepCPInv ==
  ASSUME CPInv, [CPNext]_cpVars
  PROVE  CPInv'
<1>1. CASE StartServer \/ StopRequest \/ StopServer \/ StopTerminates
  BY <1>1, StartServerCPInv, StopRequestCPInv, StopServerCPInv, StopTerminatesCPInv
<1>2. CASE ServerThread
  BY <1>2, ServerCreateEventCPInv, ServerCreatePipeCPInv, ServerConnectCPInv,
     ServerSignalCPInv, ServerWaitCPInv, ServerReadCPInv, ServerCallbackCPInv,
     ServerWriteCPInv, ServerDisconnectCPInv, ServerExitCPInv
     DEF ServerThread
<1>3. CASE \E c \in PipeClients : ClientOpenEvent(c) \/ ClientGoesOn(c) \/ ClientDies(c)
  <2>1. PICK c \in PipeClients : ClientOpenEvent(c) \/ ClientGoesOn(c) \/ ClientDies(c)
    BY <1>3
  <2> QED
    BY <2>1, ClientOpenEventCPInv, ClientTurnCPInv, ClientTimeoutCPInv,
       ClientOpenPipeCPInv, ClientWriteCPInv, ClientReadCPInv, ClientDiesCPInv
       DEF ClientGoesOn
<1>4. CASE UNCHANGED cpVars
  BY <1>4, StutterCPInv
<1> QED
  BY <1>1, <1>2, <1>3, <1>4 DEF CPNext

\* The invariant holds in every reachable state of the server and its clients.
THEOREM CPInvariance == CPSpec => []CPInv
<1>1. CPInit => CPInv
  BY InitCPInv
<1>2. CPInv /\ [CPNext]_cpVars => CPInv'
  BY StepCPInv
<1> QED
  BY <1>1, <1>2, PTL DEF CPSpec

\* A server that waits can be reached, also behind clients that died, timed out or
\* came too early to be served, and behind a restart (PipeServer.cpp:126-130).
THEOREM ServerReachable == CPSpec => []PipeReachable
<1>1. CPInv => PipeReachable
  BY DEF CPInv
<1> QED
  BY <1>1, CPInvariance, PTL

\* No client gets the answer to a command of another, and none is told of a failure
\* of a command that was executed (PipeServer.cpp:153-179).
THEOREM AnswersArrive == CPSpec => []ExecutedIsAnswered
<1>1. CPInv => ExecutedIsAnswered
  BY DEF CPInv
<1> QED
  BY <1>1, CPInvariance, PTL
-----------------------------------------------------------------------------
(* The refinement of RemoteCall.                                           *)

\* The command in the callback's hands is not an executed one.
CallOnce == thread = "call" /\ cmd # Nobody => ~executed[cmd]

\* A request in the pipe was not executed: its caller waits for an answer that is
\* neither written nor about to be.
LEMMA StepCallOnce ==
  ASSUME CPInv, CallOnce, [CPNext]_cpVars
  PROVE  CallOnce'
<1> USE DEF CPInv, CallOnce, serverVars, pipeVars, clientVars
<1>1. CASE StartServer \/ StopRequest \/ StopServer \/ StopTerminates
  BY <1>1 DEF StartServer, StopRequest, StopServer, StopTerminates
<1>2. CASE ServerRead
  BY <1>2 DEF ServerRead, CPTypeOK, ConnectionInv, CommandInv
<1>3. CASE ServerThread /\ ~ServerRead
  BY <1>3 DEF ServerThread, ServerCreateEvent, ServerCreatePipe, ServerConnect,
     ServerSignal, ServerWait, ServerCallback, ServerWrite, ServerDisconnect, ServerExit
<1>4. ASSUME NEW c \in PipeClients,
             ClientOpenEvent(c) \/ ClientGoesOn(c) \/ ClientDies(c)
      PROVE  CallOnce'
  <2>1. thread' = thread /\ cmd' = cmd
    BY <1>4 DEF ClientOpenEvent, ClientGoesOn, ClientTurn, ClientTimeout,
       ClientOpenPipe, ClientWrite, ClientRead, ClientDies, ClientUnchanged
  <2>2. executed' = executed \/ executed' = [executed EXCEPT ![c] = FALSE]
    BY <1>4 DEF ClientOpenEvent, ClientGoesOn, ClientTurn, ClientTimeout,
       ClientOpenPipe, ClientWrite, ClientRead, ClientDies, ClientUnchanged
  <2> QED
    BY <2>1, <2>2 DEF CPTypeOK
<1>5. CASE UNCHANGED cpVars
  BY <1>5 DEF cpVars
<1> QED
  BY <1>1, <1>2, <1>3, <1>4, <1>5 DEF CPNext

\* What a call sees of the steps that change neither its program counter's kind nor
\* its history.
LEMMA SameCall ==
  ASSUME UNCHANGED <<client, executed, ret>>
  PROVE  UNCHANGED RC!vars
BY DEF RC!vars, phase

\* A step of one client's program counter is the same step of its phase.
LEMMA PhaseStep ==
  ASSUME CPTypeOK, NEW c \in PipeClients, NEW s \in Clients,
         client' = [client EXCEPT ![c] = s]
  PROVE  phase' = [phase EXCEPT ![c] = IF s \in {"idle", "dead"} THEN s ELSE "calling"]
<1>1. client'[c] = s /\ \A d \in PipeClients \ {c} : client'[d] = client[d]
  BY DEF CPTypeOK
<1> QED
  BY <1>1 DEF phase

\* Within the exchange the phase stays.
LEMMA PhaseStays ==
  ASSUME CPTypeOK, NEW c \in PipeClients, NEW s \in Clients,
         client' = [client EXCEPT ![c] = s],
         client[c] \notin {"idle", "dead"}, s \notin {"idle", "dead"}
  PROVE  phase' = phase
<1>1. phase' = [phase EXCEPT ![c] = "calling"]
  BY PhaseStep
<1>2. phase[c] = "calling"
  BY DEF phase
<1> QED
  BY <1>1, <1>2 DEF phase

\* The callback executes the command of a caller that has not gone on: the thread
\* holds the only request there is, and had not executed it.
LEMMA CallbackRefines ==
  ASSUME CPInv, CallOnce, ServerCallback
  PROVE  [RC!Next]_RC!vars
<1>1. CASE cmd = Nobody
  BY <1>1, SameCall DEF ServerCallback
<1>2. CASE cmd # Nobody
  <2>1. cmd \in PipeClients /\ thread = "call"
    BY <1>2 DEF ServerCallback, CPInv, CPTypeOK
  <2>2. phase[cmd] # "idle" /\ phase' = phase
    BY <1>2, <2>1 DEF phase, ServerCallback, CPInv, ConnectionInv
  <2>3. RC!Execute(cmd)
    BY <1>2, <2>1, <2>2 DEF RC!Execute, ServerCallback, CallOnce
  <2> QED
    BY <2>1, <2>3 DEF RC!Next
<1> QED
  BY <1>1, <1>2

\* OpenEvent begins a call, or refuses it.
LEMMA OpenEventRefines ==
  ASSUME CPInv, NEW c \in PipeClients, ClientOpenEvent(c)
  PROVE  [RC!Next]_RC!vars
<1> USE DEF ClientOpenEvent
<1>1. phase[c] = "idle" /\ CPTypeOK
  BY DEF phase, CPInv
<1>2. CASE EventExists
  <2>1. phase' = [phase EXCEPT ![c] = "calling"]
    BY <1>1, <1>2, PhaseStep DEF Clients
  <2> QED
    BY <1>1, <1>2, <2>1 DEF RC!Next, RC!Call
<1>3. CASE ~EventExists
  <2>1. phase' = [phase EXCEPT ![c] = "idle"]
    BY <1>1, <1>3, PhaseStep DEF Clients, Return
  <2>2. phase' = phase
    BY <1>1, <2>1 DEF phase
  <2> QED
    BY <1>1, <1>3, <2>2 DEF RC!Next, RC!Refuse, Return, Failures
<1> QED
  BY <1>2, <1>3

\* A return with a failure is a failed call if the command was not executed.
LEMMA FailureRefines ==
  ASSUME CPTypeOK, NEW c \in PipeClients, NEW f \in Failures, Return(c, f),
         client[c] \notin {"idle", "dead"}, ~executed[c], UNCHANGED executed
  PROVE  [RC!Next]_RC!vars
<1>1. phase[c] = "calling" /\ phase' = [phase EXCEPT ![c] = "idle"]
  BY PhaseStep DEF Return, Clients, phase
<1> QED
  BY <1>1 DEF RC!Next, RC!Fail, Return

\* SendPipe behind its OpenEvent: a way through the exchange, a failure of a command
\* that the server has not executed, or the answer to one that it has.
LEMMA GoesOnRefines ==
  ASSUME CPInv, NEW c \in PipeClients, ClientGoesOn(c)
  PROVE  [RC!Next]_RC!vars
<1>0. CPTypeOK /\ UNCHANGED executed
  BY DEF CPInv, ClientGoesOn, ClientTurn, ClientTimeout, ClientOpenPipe, ClientWrite,
     ClientRead
<1>1. ASSUME UNCHANGED ret, client[c] \notin {"idle", "dead"},
             NEW s \in {"turn", "write", "read"}, client' = [client EXCEPT ![c] = s]
      PROVE  [RC!Next]_RC!vars
  <2>1. phase' = phase
    BY <1>0, <1>1, PhaseStays DEF Clients
  <2> QED
    BY <1>0, <1>1, <2>1 DEF RC!vars
<1>2. CASE ClientTurn(c)
  BY <1>1, <1>2 DEF ClientTurn
<1>3. CASE ClientTimeout(c)
  BY <1>0, <1>3, FailureRefines DEF ClientTimeout, CPInv, CommandInv, Failures
<1>4. CASE ClientOpenPipe(c)
  BY <1>0, <1>1, <1>4, FailureRefines DEF ClientOpenPipe, CPInv, CommandInv, Failures
<1>5. CASE ClientWrite(c)
  BY <1>0, <1>1, <1>5, FailureRefines DEF ClientWrite, CPInv, CommandInv, Failures
<1>6. CASE ClientRead(c)
  <2>1. CASE peer = c /\ answer # Nobody /\ Return(c, answer)
    <3>1. answer = c /\ executed[c]
      BY <2>1 DEF CPInv, ConnectionInv, CommandInv
    <3>2. phase[c] = "calling" /\ phase' = [phase EXCEPT ![c] = "idle"]
      BY <1>0, <1>6, <2>1, PhaseStep DEF ClientRead, Return, Clients, phase
    <3> QED
      BY <1>0, <2>1, <3>1, <3>2 DEF RC!Next, RC!Answer, Return
  <2>2. CASE peer # c /\ Return(c, "CMD_ERR")
    <3>1. ~executed[c]
      BY <1>6, <2>2, NobodyAssumption DEF ClientRead, CPInv, ConnectionInv, CommandInv
    <3> QED
      BY <1>0, <1>6, <2>2, <3>1, FailureRefines DEF ClientRead, Failures
  <2> QED
    BY <1>6, <2>1, <2>2 DEF ClientRead
<1> QED
  BY <1>2, <1>3, <1>4, <1>5, <1>6 DEF ClientGoesOn

LEMMA DiesRefines ==
  ASSUME CPInv, NEW c \in PipeClients, ClientDies(c)
  PROVE  [RC!Next]_RC!vars
<1>1. phase[c] = "calling" /\ phase' = [phase EXCEPT ![c] = "dead"]
  BY PhaseStep DEF ClientDies, CPInv, Clients, phase
<1> QED
  BY <1>1 DEF RC!Next, RC!Die, ClientDies

\* The server, its restarts and terminations, the event that hands out the turns and
\* the clients implement the remote call of RemoteCall.tla.
THEOREM RemoteCallImplemented == CPSpec => ImplementsRemoteCall
<1>1. CPInit => RC!Init
  BY DEF CPInit, RC!Init, phase
<1>2. CPInit => CallOnce
  BY DEF CPInit, CallOnce
<1>3. CPInv /\ CallOnce /\ [CPNext]_cpVars => CallOnce'
  BY StepCallOnce
<1>4. CPInv /\ CallOnce /\ [CPNext]_cpVars => [RC!Next]_RC!vars
  <2> SUFFICES ASSUME CPInv, CallOnce, [CPNext]_cpVars
               PROVE  [RC!Next]_RC!vars
    OBVIOUS
  <2>1. CASE StartServer \/ StopRequest \/ StopServer \/ StopTerminates
    BY <2>1, SameCall
       DEF StartServer, StopRequest, StopServer, StopTerminates, clientVars
  <2>2. CASE ServerThread /\ ~ServerCallback
    BY <2>2, SameCall
       DEF ServerThread, ServerCreateEvent, ServerCreatePipe, ServerConnect, ServerSignal,
           ServerWait, ServerRead, ServerWrite, ServerDisconnect, ServerExit, clientVars
  <2>3. CASE ServerCallback
    BY <2>3, CallbackRefines
  <2>4. ASSUME NEW c \in PipeClients,
               ClientOpenEvent(c) \/ ClientGoesOn(c) \/ ClientDies(c)
        PROVE  [RC!Next]_RC!vars
    BY <2>4, OpenEventRefines, GoesOnRefines, DiesRefines
  <2>5. CASE UNCHANGED cpVars
    BY <2>5, SameCall DEF cpVars, clientVars
  <2> QED
    BY <2>1, <2>2, <2>3, <2>4, <2>5 DEF CPNext
<1> QED
  BY <1>1, <1>2, <1>3, <1>4, CPInvariance, PTL
     DEF CPSpec, ImplementsRemoteCall, RC!Spec
=============================================================================
