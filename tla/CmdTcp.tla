------------------------------- MODULE CmdTcp -------------------------------
(***************************************************************************)
(* Commands over TCP: CTCPServer (Common/TCPServer.cpp), one thread that   *)
(* serves one connection after the other and holds back the answers of     *)
(* those that ask for the next status change, and CSendCtrlCmd::SendTCP    *)
(* (Common/SendCtrlCmd.cpp).                                               *)
(*                                                                         *)
(* Every connection is one call of SendTCP, and is named by it.  A request *)
(* is for the status behind the one the client knows                       *)
(* (CMD2_EPG_SRV_GET_STATUS_NOTIFY2) or another command.  The owner of the *)
(* server, its callback and Winsock are modelled from how the code uses    *)
(* them: the callback answers the former at once when the status is        *)
(* another, and with CMD_NO_RES otherwise.                                 *)
(*                                                                         *)
(* Left out: the rewriting of the address in REGIST_GUI_TCP; the unexpected*)
(* FD_READ of a held connection, which is skipped; how a request and an    *)
(* answer are cut into several send and recv, and a client that dies       *)
(* between its send and the server's recv; a StartServer that fails, which *)
(* leaves no server, and a wait for the events that fails.                 *)
(***************************************************************************)
EXTENDS Integers, Sequences, SequencesExt

CONSTANTS
  TcpCalls,       \* the calls of SendTCP
  MixedCalls,     \* those that may be for another command, or stall
  NoCall,         \* no connection
  Acl,            \* the rules of StartServer's acl: sequence of [allow, hosts]
  MaxEvents,      \* WSA_MAXIMUM_WAIT_EVENTS, 64 in Windows
  MaxStatus,      \* bound on the changes of the status
  MaxTcpStarts    \* bound on StartServer calls

ASSUME CallsAssumption == NoCall \notin TcpCalls /\ MixedCalls \subseteq TcpCalls
ASSUME MaxEventsAssumption == MaxEvents \in Nat /\ MaxEvents > 2

VARIABLES
  \* the server object and its owner
  tThread,     \* program counter of ServerThread, see TThreads
  m_hThread,   \* the thread handle is open
  m_stopFlag,
  notify,      \* m_hNotifyEvent is set; manual reset
  status,      \* the status that the owner's callback reports
  changed,     \* the owner has changed it and NotifyUpdate is still to be called
  terminated,  \* the thread was terminated with connections open
  tStarts,
  \* the server thread
  waitList,    \* the held connections, see Entries
  hEventList,  \* the events it waits for, by what they are selected for
  i,           \* index into waitList during a pass over it
  cur,         \* the connection that is served
  \* the connections
  backlog,     \* made and not accepted
  call,        \* program counter of SendTCP, see Calls
  sock,        \* the server's end, see Socks
  known        \* the status the client knows, or -1: another command

ownerVars == <<m_hThread, m_stopFlag, status, changed, terminated, tStarts>>
threadVars == <<waitList, hEventList, i, cur>>
connVars == <<backlog, call, sock, known>>
ctVars == <<ownerVars, tThread, notify, threadVars, connVars>>

TThreads == {"off", "loop", "wait", "poll", "recv", "call", "push", "close"}
Calls == {"idle", "stalled", "recv", "closed"}
\* "answered": open with an answer sent; "shut": shutdown, with an answer or without.
Socks == {"none", "backlog", "open", "answered", "shut", "closed"}
\* A held connection: cmd while its command waits for an answer, late when it has
\* waited too long.
Entries == [sock : TcpCalls, cmd : BOOLEAN, late : BOOLEAN]

\* The client's end is closed.
Closed(c) == call[c] = "closed"

CTInit ==
  /\ tThread = "off" /\ m_hThread = FALSE /\ m_stopFlag = FALSE /\ notify = FALSE
  /\ status = 0 /\ changed = FALSE /\ terminated = FALSE /\ tStarts = 0
  /\ waitList = <<>> /\ hEventList = <<>> /\ i = 0 /\ cur = NoCall
  /\ backlog = <<>>
  /\ call = [c \in TcpCalls |-> "idle"] /\ sock = [c \in TcpCalls |-> "none"]
  /\ known = [c \in TcpCalls |-> -1]

-----------------------------------------------------------------------------
(* The owner, one thread: StartServer, StopServer, NotifyUpdate *)

\* With other parameters StartServer calls StopServer first.
TcpStartServer ==
  /\ ~m_hThread
  /\ tStarts < MaxTcpStarts
  /\ tStarts' = tStarts + 1
  /\ m_hThread' = TRUE /\ m_stopFlag' = FALSE /\ notify' = FALSE
  /\ tThread' = "loop"
  /\ hEventList' = <<"notify", "accept">>
  /\ UNCHANGED <<status, changed, terminated, waitList, i, cur, connVars>>

TcpStopRequest ==
  /\ m_hThread /\ ~m_stopFlag
  /\ m_stopFlag' = TRUE /\ notify' = TRUE
  /\ UNCHANGED <<tThread, m_hThread, status, changed, terminated, tStarts, threadVars,
                 connVars>>

\* The listening socket is closed: connections not accepted are reset.
CloseListener ==
  /\ m_hThread' = FALSE
  /\ backlog' = <<>>
  /\ sock' = [c \in TcpCalls |-> IF sock[c] = "backlog" THEN "closed" ELSE sock[c]]

TcpStopServer ==
  /\ m_hThread /\ m_stopFlag /\ tThread = "off"
  /\ CloseListener
  /\ UNCHANGED <<tThread, m_stopFlag, notify, status, changed, terminated, tStarts,
                 threadVars, call, known>>

\* 15 s were not enough for a callback or for a client that sends nothing: what the
\* thread had open stays open.
TcpStopTerminates ==
  /\ m_hThread /\ m_stopFlag /\ tThread \in {"recv", "call", "poll"}
  /\ CloseListener
  /\ tThread' = "off" /\ terminated' = TRUE
  /\ waitList' = <<>> /\ hEventList' = <<>> /\ i' = 0 /\ cur' = NoCall
  /\ UNCHANGED <<m_stopFlag, notify, status, changed, tStarts, call, known>>

StatusChanges ==
  /\ status < MaxStatus
  /\ status' = status + 1
  /\ changed' = TRUE
  /\ UNCHANGED <<m_hThread, m_stopFlag, terminated, tStarts, tThread, notify, threadVars,
                 connVars>>

NotifyUpdate ==
  /\ changed /\ ~m_stopFlag
  /\ notify' = (notify \/ m_hThread)
  /\ changed' = FALSE
  /\ UNCHANGED <<m_hThread, m_stopFlag, status, terminated, tStarts, tThread, threadVars,
                 connVars>>

-----------------------------------------------------------------------------
(* ServerThread *)

\* Behind the first two, an event is set once the client it was selected for closed.
Signalled(k) == hEventList[k] \in TcpCalls /\ Closed(hEventList[k])

\* Nothing before index k is set.
NothingBefore(k) ==
  /\ ~notify
  /\ k > 2 => backlog = <<>>
  /\ \A j \in 3 .. k - 1 : ~Signalled(j)

\* The end: all that is held is closed, without an answer.
Cleanup ==
  /\ tThread = "loop" /\ m_stopFlag
  /\ tThread' = "off"
  /\ sock' = [c \in TcpCalls |->
                IF \E k \in DOMAIN waitList : waitList[k].sock = c THEN "closed" ELSE sock[c]]
  /\ waitList' = <<>> /\ hEventList' = <<>>
  /\ UNCHANGED <<ownerVars, notify, i, cur, backlog, call, known>>

Loop ==
  /\ tThread = "loop" /\ ~m_stopFlag
  /\ tThread' = "wait"
  /\ UNCHANGED <<ownerVars, notify, threadVars, connVars>>

\* A mutant: the wait has no timeout.
PassWithoutTimeout == notify

\* A pass over the held connections: at a notification, and every 2 s while there
\* are any.
PassIsDue == notify \/ (waitList # <<>> /\ NothingBefore(Len(hEventList) + 1))

BeginPass ==
  /\ tThread = "wait" /\ PassIsDue
  /\ notify' = FALSE /\ i' = 1
  /\ tThread' = "poll"
  /\ UNCHANGED <<ownerVars, waitList, hEventList, cur, connVars>>

\* The callback on a held command.  Answered or too late, the connection is shut
\* and stays in the list until its client closes.
PollEntry ==
  /\ tThread = "poll" /\ i \in DOMAIN waitList
  /\ i' = i + 1
  /\ LET w == waitList[i]
     IN IF w.cmd /\ (known[w.sock] # status \/ w.late)
          THEN /\ waitList' = [waitList EXCEPT ![i].cmd = FALSE, ![i].late = FALSE]
               /\ sock' = [sock EXCEPT ![w.sock] = "shut"]
          ELSE UNCHANGED <<waitList, sock>>
  /\ UNCHANGED <<ownerVars, tThread, notify, hEventList, cur, backlog, call, known>>

\* A mutant: the event is reset behind the pass, too.
EndPassResets ==
  /\ tThread = "poll" /\ i > Len(waitList)
  /\ tThread' = "loop" /\ i' = 0 /\ notify' = FALSE
  /\ UNCHANGED <<ownerVars, waitList, hEventList, cur, connVars>>

EndPass ==
  /\ tThread = "poll" /\ i > Len(waitList)
  /\ tThread' = "loop" /\ i' = 0
  /\ UNCHANGED <<ownerVars, notify, waitList, hEventList, cur, connVars>>

\* A mutant: the event behind the entry's is removed.
EventOfOff(k) == IF k + 3 <= Len(hEventList) THEN k + 3 ELSE k + 2

\* Where the event of entry k is.
EventOf(k) == k + 2

\* FD_CLOSE of the lowest entry whose event is set, if its own socket is closed.
CloseEntry ==
  /\ tThread = "wait"
  /\ \E k \in DOMAIN waitList :
       /\ Signalled(k + 2) /\ NothingBefore(k + 2)
       /\ IF Closed(waitList[k].sock)
            THEN /\ sock' = [sock EXCEPT ![waitList[k].sock] = "closed"]
                 /\ waitList' = RemoveAt(waitList, k)
                 /\ hEventList' = RemoveAt(hEventList, EventOf(k))
            ELSE UNCHANGED <<sock, waitList, hEventList>>
  /\ tThread' = "loop"
  /\ UNCHANGED <<ownerVars, notify, i, cur, backlog, call, known>>

\* The last rule that matches decides, and no rule denies.
TestAcl(c) ==
  LET matching == {k \in DOMAIN Acl : c \in Acl[k].hosts}
  IN \E k \in matching : Acl[k].allow /\ \A j \in matching : j <= k

Accept ==
  /\ tThread = "wait" /\ backlog # <<>> /\ NothingBefore(2)
  /\ backlog' = Tail(backlog)
  /\ IF TestAcl(Head(backlog))
       THEN /\ cur' = Head(backlog) /\ tThread' = "recv"
            /\ sock' = [sock EXCEPT ![Head(backlog)] = "open"]
       ELSE /\ sock' = [sock EXCEPT ![Head(backlog)] = "closed"]
            /\ tThread' = "loop"
            /\ UNCHANGED cur
  /\ UNCHANGED <<ownerVars, notify, waitList, hEventList, i, call, known>>

\* RecvAll on a blocking socket: nothing else is served until the client has sent
\* its request or closed.
Recv ==
  /\ tThread = "recv"
  /\ \/ call[cur] = "recv" /\ sock[cur] = "open" /\ tThread' = "call"
     \/ Closed(cur) /\ tThread' = "close"
  /\ UNCHANGED <<ownerVars, notify, threadVars, connVars>>

\* The callback, and the answer if there is one.  Behind CMD_NEXT the thread
\* receives again, and meets the end of the connection.
Callback ==
  /\ tThread = "call"
  /\ IF known[cur] = status
       THEN tThread' = "push" /\ UNCHANGED sock
       ELSE \/ /\ tThread' \in IF known[cur] = -1 THEN {"close", "recv"} ELSE {"close"}
               /\ sock' = [sock EXCEPT ![cur] = "answered"]
            \/ \* CMD_NO_RES to another command is not held, and not answered
               known[cur] = -1 /\ tThread' = "close" /\ UNCHANGED sock
  /\ UNCHANGED <<ownerVars, notify, threadVars, backlog, call, known>>

\* With all events in use the connection is closed without an answer.
Push ==
  /\ tThread = "push"
  /\ IF Len(hEventList) < MaxEvents
       THEN /\ waitList' = Append(waitList, [sock |-> cur, cmd |-> TRUE, late |-> FALSE])
            /\ hEventList' = Append(hEventList, cur)
            /\ cur' = NoCall /\ tThread' = "loop"
       ELSE /\ tThread' = "close"
            /\ UNCHANGED <<waitList, hEventList, cur>>
  /\ UNCHANGED <<ownerVars, notify, i, connVars>>

CloseConnection ==
  /\ tThread = "close"
  /\ sock' = [sock EXCEPT ![cur] = "closed"]
  /\ cur' = NoCall /\ tThread' = "loop"
  /\ UNCHANGED <<ownerVars, notify, waitList, hEventList, i, backlog, call, known>>

\* m_dwResponseTimeout passes for a held command.
TooLate(k) ==
  /\ k \in DOMAIN waitList /\ waitList[k].cmd /\ ~waitList[k].late
  /\ waitList' = [waitList EXCEPT ![k].late = TRUE]
  /\ UNCHANGED <<ownerVars, tThread, notify, hEventList, i, cur, connVars>>

TcpServerThread ==
  \/ Cleanup \/ Loop \/ BeginPass \/ PollEntry \/ EndPass \/ CloseEntry
  \/ Accept \/ Recv \/ Callback \/ Push \/ CloseConnection

-----------------------------------------------------------------------------
(* SendTCP *)

TcpClientUnchanged == UNCHANGED <<ownerVars, tThread, notify, threadVars>>

\* connect and send, for the status behind one that was current or for another
\* command.  A client whose host has gone is connected and sends nothing.
TcpConnect(c) ==
  /\ call[c] = "idle"
  /\ IF m_hThread
       THEN /\ \/ /\ call' = [call EXCEPT ![c] = "recv"]
                  /\ known' = [known EXCEPT ![c] = status]
               \/ /\ c \in MixedCalls
                  /\ \E s \in {"recv", "stalled"} : call' = [call EXCEPT ![c] = s]
                  /\ UNCHANGED known
            /\ sock' = [sock EXCEPT ![c] = "backlog"]
            /\ backlog' = Append(backlog, c)
       ELSE /\ call' = [call EXCEPT ![c] = "closed"]
            /\ UNCHANGED <<sock, backlog, known>>
  /\ TcpClientUnchanged

\* RecvAll, without a timeout, and closesocket: the answer, or less.
TcpReturn(c) ==
  /\ call[c] = "recv"
  /\ sock[c] \in {"answered", "shut", "closed"}
  /\ call' = [call EXCEPT ![c] = "closed"]
  /\ UNCHANGED <<backlog, sock, known>>
  /\ TcpClientUnchanged

TcpDies(c) ==
  /\ call[c] \in {"recv", "stalled"}
  /\ call' = [call EXCEPT ![c] = "closed"]
  /\ UNCHANGED <<backlog, sock, known>>
  /\ TcpClientUnchanged

-----------------------------------------------------------------------------

CTNext ==
  \/ TcpStartServer \/ TcpStopRequest \/ TcpStopServer \/ TcpStopTerminates
  \/ StatusChanges \/ NotifyUpdate
  \/ TcpServerThread
  \/ \E k \in DOMAIN waitList : TooLate(k)
  \/ \E c \in TcpCalls : TcpConnect(c) \/ TcpReturn(c) \/ TcpDies(c)

CTTypeOK ==
  /\ tThread \in TThreads
  /\ m_hThread \in BOOLEAN /\ m_stopFlag \in BOOLEAN /\ notify \in BOOLEAN
  /\ changed \in BOOLEAN /\ terminated \in BOOLEAN
  /\ status \in Nat
  /\ waitList \in Seq(Entries)
  /\ hEventList \in Seq(TcpCalls \cup {"notify", "accept"})
  /\ i \in 0 .. Len(waitList) + 1
  /\ cur \in TcpCalls \cup {NoCall}
  /\ backlog \in Seq(TcpCalls)
  /\ call \in [TcpCalls -> Calls]
  /\ sock \in [TcpCalls -> Socks]
  /\ known \in [TcpCalls -> Int]

\* No notification is lost, whenever it comes: in a pass, between the callback that
\* held a command back and its entry in the list, or while another client is
\* served.  When the thread waits and the event is not set, every held command is
\* for the present status (TCPServer.cpp:166-176, :271-287).
NoMissedNotify ==
  tThread = "wait" /\ ~notify /\ ~changed =>
    \A k \in DOMAIN waitList : waitList[k].cmd => known[waitList[k].sock] = status

\* The two lists of the thread stay parallel, whatever is removed in the middle: the
\* event at index 2 + k is the one selected for the socket at index k, of which no
\* other entry has a copy, and there is room for all events in one wait
\* (TCPServer.cpp:204-214, :275-285).
WaitAligned ==
  /\ Len(hEventList) <= MaxEvents
  /\ tThread # "off" =>
       hEventList = <<"notify", "accept">> \o [k \in DOMAIN waitList |-> waitList[k].sock]
  /\ \A j, k \in DOMAIN waitList : waitList[j].sock = waitList[k].sock => j = k

\* SendTCP, which ignores its timeout, returns all the same: held commands are
\* answered or given up, and no connection is forgotten, as long as no client stalls
\* the server and its thread is not terminated (SendCtrlCmd.cpp:189, :239).  Behind a
\* client that stalls, the thread stays in RecvAll and every other call may wait for ever
\* (TCPServer.cpp:244).
TcpCallReturns ==
  \A c \in TcpCalls :
    call[c] = "recv" ~> Closed(c) \/ terminated \/ \E d \in TcpCalls : call[d] = "stalled"

\* Threads are scheduled, callbacks return and time passes.
CTFairness ==
  /\ WF_ctVars(TcpServerThread)
  /\ WF_ctVars(\E k \in DOMAIN waitList : TooLate(k))
  /\ WF_ctVars(TcpStopServer)
  /\ \A c \in TcpCalls : WF_ctVars(TcpReturn(c))

CTSpec == CTInit /\ [][CTNext]_ctVars /\ CTFairness
=============================================================================
