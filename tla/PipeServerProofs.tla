-------------------------- MODULE PipeServerProofs --------------------------
(***************************************************************************)
(* Proofs about PipeServer, for both kinds of pipe, every quota and every  *)
(* client: the server only ever does to its FileReader what FileReader.tla *)
(* allows, so that all that is proved in FileReaderProofs holds of it; and *)
(* the hand-shake of Stop with the sender thread.                          *)
(***************************************************************************)
EXTENDS PipeServer, FileReaderProofs, SequenceTheorems

-----------------------------------------------------------------------------
(* The server implements the FileReader specification.                     *)

\* A write that failed is FileReader's WriteFails, whatever it had sent.
LEMMA FailureIsWriteFails ==
  ASSUME TypeOK, NEW sent \in {0, Len(ret_data)}, WriteFailsAt(sent)
  PROVE  SenderNext
<1>1. Len(ret_data) \in Nat
  BY DEF TypeOK
<1>2. sent \in 0..Len(ret_data)
  BY <1>1
<1> QED
  BY <1>2 DEF SenderNext, WriteFails

\* The sender thread's steps.
LEMMA SenderThreadStep ==
  ASSUME TypeOK, SenderThread
  PROVE  SenderNext \/ UNCHANGED vars
<1>1. CASE SendDisabled
  BY <1>1, FailureIsWriteFails DEF SendDisabled, GiveUp
<1>2. CASE ConnectAnon
  BY <1>2 DEF ConnectAnon
<1>3. CASE ConnectCreate
  BY <1>3, FailureIsWriteFails DEF ConnectCreate, GiveUp
<1>4. CASE ConnectNamed
  <2>1. GiveUp \/ UNCHANGED vars
    BY <1>4 DEF ConnectNamed
  <2> QED
    BY <2>1, FailureIsWriteFails DEF GiveUp
<1>5. CASE ConnectWait
  BY <1>5, FailureIsWriteFails DEF ConnectWait, GiveUp
<1>6. CASE SendRead
  BY <1>6 DEF SendRead, SenderNext
<1>7. CASE SendWriteBegin
  BY <1>7 DEF SendWriteBegin
<1>8. CASE SendWriteOk
  BY <1>8 DEF SendWriteOk, SenderNext
<1>9. CASE SendWriteFails
  <2>1. \E sent \in {0, Len(ret_data)} : WriteFailsAt(sent)
    BY <1>9 DEF SendWriteFails
  <2> QED
    BY <2>1, FailureIsWriteFails
<1>10. CASE SendClose
  BY <1>10 DEF SendClose
<1> QED
  BY <1>1, <1>2, <1>3, <1>4, <1>5, <1>6, <1>7, <1>8, <1>9, <1>10
     DEF SenderThread

\* Every step of the server.
LEMMA ServerStep ==
  ASSUME TypeOK, [PSNext]_psVars
  PROVE  [Next]_vars
<1>1. CASE SenderThread
  BY <1>1, SenderThreadStep DEF Next
<1>2. CASE Record
  BY <1>2 DEF Record, Next, RecorderNext
<1>3. CASE StopNotify
  BY <1>3 DEF StopNotify, Next, RecorderNext
<1>4. CASE Stopping
  BY <1>4 DEF Stopping, StopSignal, StopJoin, StopReturned, Next, RecorderNext
<1>5. CASE ClientOpens \/ ClientReads \/ ClientExits
  BY <1>5 DEF ClientOpens, ClientReads, ClientExits
<1>6. CASE PSTerminated \/ UNCHANGED psVars
  BY <1>6 DEF PSTerminated, psVars
<1> QED
  BY <1>1, <1>2, <1>3, <1>4, <1>5, <1>6 DEF PSNext

\* PipeServer.cpp moves its FileReader only as FileReader.tla says, with any
\* pipe and any client, however Stop and the sender thread interleave.
THEOREM ServerImplementsReader == PSSpec => ImplementsFileReader
<1>1. PSInit => Init
  BY DEF PSInit
<1>2. Init => IInv
  BY InitIInv
<1>3. IInv /\ [PSNext]_psVars => [Next]_vars
  BY ServerStep DEF IInv
<1>4. IInv /\ [Next]_vars => IInv'
  BY StepIInv
<1>5. PSSpec => Spec
  BY <1>1, <1>2, <1>3, <1>4, PTL DEF PSSpec, Spec
<1> QED
  BY <1>5 DEF ImplementsFileReader

\* What goes into the pipe of the server is the recording from its first byte.
THEOREM ServerSendsPrefix == PSSpec => []DeliveredIsPrefix
BY ServerImplementsReader, PrefixDelivered, PTL DEF ImplementsFileReader

\* The server is a virtual file to its pipe: with either kind of pipe the
\* client is offered a growing prefix of the recording, and a sending that ends
\* by the end of the file has sent all of it.
THEOREM ServerRefinesVirtualFile ==
  ASSUME NoTail
  PROVE  PSSpec => ImplementsVirtualFile
BY ServerImplementsReader, Refinement, PTL DEF ImplementsFileReader

\* The FileReader's inductive invariant in the server.
LEMMA ReaderInvariance == PSSpec => []IInv
BY ServerImplementsReader, Invariance, PTL DEF ImplementsFileReader

-----------------------------------------------------------------------------
(* Stop and the sender thread.                                             *)

\* The quit order's handle outlives the thread that waits for it, and no write
\* is left under way by a thread that goes on.
THEOREM QuitHandle == PSSpec => []QuitHandleLive
<1>1. PSInit => QuitHandleLive
  BY DEF PSInit, NamedRunClient, AnonRunClient, QuitHandleLive
<1>2. QuitHandleLive /\ [PSNext]_psVars => QuitHandleLive'
  <2> SUFFICES ASSUME QuitHandleLive, [PSNext]_psVars PROVE QuitHandleLive'
    OBVIOUS
  <2> USE DEF QuitHandleLive, Writing
  <2>1. CASE SendDisabled
    BY <2>1 DEF SendDisabled, GiveUp, WriteFailsAt, serverVars, namedVars, pipeVars
  <2>2. CASE ConnectAnon \/ ConnectCreate \/ ConnectNamed \/ ConnectWait
    BY <2>2 DEF ConnectAnon, ConnectCreate, ConnectNamed, ConnectWait, GiveUp,
       WriteFailsAt, NamedCreate, NamedNoClient, NamedCreateFails, serverVars,
       namedVars, pipeVars, vars
  <2>3. CASE SendRead
    BY <2>3 DEF SendRead, LoopRecording, LoopFinished, GetNextLock, GetNextNothing,
       GetNextFromBuff, GetNextMiss, FromFileRefused, FromFile, FromFileError,
       CanRead, Fread, serverVars, namedVars, pipeVars
  <2>4. CASE SendWriteBegin
    BY <2>4 DEF SendWriteBegin, NamedWriteFile, NamedWriteRefused, AnonWriteFile,
       Accept, serverVars, vars
  <2>5. CASE SendWriteOk
    BY <2>5 DEF SendWriteOk, NamedWriteNow, NamedWriteOk, AnonWriteOk, Return,
       WriteData, serverVars
  <2>6. CASE SendWriteFails
    BY <2>6 DEF SendWriteFails, NamedWriteBroken, NamedWriteQuit, AnonWriteBroken,
       AnonWriteRefused, Return, WriteFailsAt, serverVars, pipeVars
  <2>7. CASE SendClose
    BY <2>7 DEF SendClose, NamedClose, AnonClose, vars
  <2>8. CASE Record
    BY <2>8 DEF Record, RecordWrite, AppendLocked, AppendTimeout, serverVars,
       namedVars, pipeVars
  <2>9. CASE StopNotify
    BY <2>9 DEF StopNotify, RecordStop, RecordFail, namedVars, pipeVars
  <2>10. CASE Stopping
    BY <2>10 DEF Stopping, StopSignal, StopJoin, StopReturned, RecordFailed, vars,
       serverVars, namedVars, pipeVars
  <2>11. CASE ClientOpens \/ ClientReads \/ ClientExits
    BY <2>11 DEF ClientOpens, ClientReads, ClientExits, ClientConnect, ClientRead,
       ClientExit, OpWith, vars, serverVars
  <2>12. CASE PSTerminated \/ UNCHANGED psVars
    BY <2>12 DEF PSTerminated, psVars, vars, serverVars, namedVars, pipeVars
  <2> QED
    BY <2>1, <2>2, <2>3, <2>4, <2>5, <2>6, <2>7, <2>8, <2>9, <2>10, <2>11, <2>12
       DEF PSNext, SenderThread
<1> QED
  BY <1>1, <1>2, PTL DEF PSSpec

-----------------------------------------------------------------------------
(* The bytes in the pipe.                                                  *)

\* A read of the client takes the front of the pipe.
LEMMA ReadFront ==
  ASSUME NEW q \in Seq(Nat), NEW n \in 0..Len(q)
  PROVE  /\ SubSeq(q, 1, n) \in Seq(Nat)
         /\ SubSeq(q, n + 1, Len(q)) \in Seq(Nat)
         /\ SubSeq(q, 1, n) \o SubSeq(q, n + 1, Len(q)) = q
<1> DEFINE a == SubSeq(q, 1, n)
           b == SubSeq(q, n + 1, Len(q))
<1>1. Len(q) \in Nat /\ n \in Nat
  OBVIOUS
<1>2. /\ a \in Seq(Nat) /\ Len(a) = n
      /\ \A i \in 1..n : a[i] = q[i]
  BY <1>1
<1>3. /\ b \in Seq(Nat) /\ Len(b) = Len(q) - n
      /\ \A i \in 1..Len(q) - n : b[i] = q[n + i]
  BY <1>1
<1> HIDE DEF a, b
<1>4. /\ a \o b \in Seq(Nat) /\ Len(a \o b) = Len(q)
      /\ \A i \in 1..Len(q) : (a \o b)[i] = IF i <= n THEN a[i] ELSE b[i - n]
  <2>1. /\ a \o b \in Seq(Nat) /\ Len(a \o b) = Len(a) + Len(b)
        /\ \A i \in 1..Len(a) + Len(b) :
             (a \o b)[i] = IF i <= Len(a) THEN a[i] ELSE b[i - Len(a)]
    BY <1>2, <1>3, ConcatProperties, SMTT(30)
  <2>2. Len(a) + Len(b) = Len(q)
    BY <1>1, <1>2, <1>3
  <2> QED
    BY <1>2, <2>1, <2>2
<1>5. \A i \in 1..Len(q) : (a \o b)[i] = q[i]
  <2> TAKE i \in 1..Len(q)
  <2>1. CASE i <= n
    BY <1>1, <1>2, <1>4, <2>1
  <2>2. CASE ~(i <= n)
    <3>1. i - n \in 1..Len(q) - n /\ n + (i - n) = i
      BY <1>1, <2>2
    <3> QED
      BY <1>3, <1>4, <2>2, <3>1
  <2> QED
    BY <2>1, <2>2
<1>6. a \o b = q
  BY <1>4, <1>5, SeqEqual
<1> QED
  BY <1>2, <1>3, <1>6 DEF a, b

LEMMA ConcatBehind ==
  ASSUME NEW s \in Seq(Nat), NEW t \in Seq(Nat), NEW u \in Seq(Nat)
  PROVE  s \o (t \o u) = (s \o t) \o u
BY ConcatAssociative, SMTT(30)

\* Every variable of the server keeps its type.
THEOREM ServerTypeCorrect == PSSpec => []PSTypeOK
<1> DEFINE T == PipeTypeOK /\ hQuitOrder \in {"none", "unset", "set", "closed"}
               /\ Pipe_Enable \in BOOLEAN /\ thread \in Threads
               /\ stopping \in {"no", "notified", "signalled", "joined"}
<1>1. PSInit => T
  <2> SUFFICES ASSUME PSInit PROVE T
    OBVIOUS
  <2>1. <<>> \in Seq(Nat)
    OBVIOUS
  <2>2. PipeTypeOK /\ hQuitOrder \in {"none", "unset"}
    <3>1. CASE Mode_NamedPipe
      BY <2>1, <3>1 DEF PSInit, NamedRunClient, PipeTypeOK, Clients, Ops
    <3>2. CASE ~Mode_NamedPipe
      <4>1. PICK launch \in AnonLaunches : AnonRunClient(launch)
        BY <3>2 DEF PSInit
      <4>2. client \in Clients
        BY <4>1 DEF AnonRunClient, Clients
      <4> QED
        BY <2>1, <3>2, <4>1, <4>2 DEF PSInit, AnonRunClient, PipeTypeOK, Ops
    <3> QED
      BY <3>1, <3>2
  <2> QED
    BY <2>2 DEF PSInit, Threads
<1>2. TypeOK /\ T /\ [PSNext]_psVars => T'
  <2> SUFFICES ASSUME TypeOK, T, [PSNext]_psVars PROVE T'
    OBVIOUS
  <2>0. /\ ret_data \in Seq(Nat) /\ pipe \in Seq(Nat) /\ received \in Seq(Nat)
        /\ pipe \o ret_data \in Seq(Nat)
    BY DEF TypeOK, Bytes, PipeTypeOK
  <2>1. CASE SendDisabled \/ ConnectAnon \/ ConnectCreate \/ ConnectNamed \/ ConnectWait
    BY <2>1 DEF SendDisabled, ConnectAnon, ConnectCreate, ConnectNamed, ConnectWait,
       GiveUp, NamedCreate, NamedNoClient, NamedCreateFails, PipeTypeOK, Threads,
       serverVars, namedVars, pipeVars
  <2>2. CASE SendRead
    BY <2>2 DEF SendRead, PipeTypeOK, serverVars, namedVars, pipeVars
  <2>3. CASE SendWriteBegin
    BY <2>0, <2>3 DEF SendWriteBegin, NamedWriteFile, NamedWriteRefused,
       AnonWriteFile, Accept, OpWith, PipeTypeOK, Ops, serverVars
  <2>4. CASE SendWriteOk
    BY <2>0, <2>4 DEF SendWriteOk, NamedWriteNow, NamedWriteOk, AnonWriteOk, Return,
       PipeTypeOK, Ops, serverVars
  <2>5. CASE SendWriteFails
    BY <2>5 DEF SendWriteFails, NamedWriteBroken, NamedWriteQuit, AnonWriteBroken,
       AnonWriteRefused, Return, PipeTypeOK, Ops, serverVars, pipeVars
  <2>6. CASE SendClose
    <3>1. <<>> \in Seq(Nat)
      OBVIOUS
    <3> QED
      BY <2>6, <3>1 DEF SendClose, NamedClose, AnonClose, PipeTypeOK, Clients, Threads
  <2>7. CASE Record \/ StopNotify
    BY <2>7 DEF Record, StopNotify, PipeTypeOK, serverVars, namedVars, pipeVars
  <2>8. CASE Stopping
    BY <2>8 DEF Stopping, StopSignal, StopJoin, StopReturned, PipeTypeOK, serverVars,
       namedVars, pipeVars
  <2>9. CASE ClientOpens
    BY <2>9 DEF ClientOpens, ClientConnect, PipeTypeOK, Clients, serverVars
  <2>10. CASE ClientReads
    <3>1. PICK n \in 1..Len(pipe) : ClientRead(n)
      BY <2>10 DEF ClientReads
    <3>2. n \in 0..Len(pipe)
      BY <2>0, <3>1
    <3>3. received \o SubSeq(pipe, 1, n) \in Seq(Nat)
      BY <2>0, <3>2, ReadFront
    <3>4. received' \in Seq(Nat) /\ pipe' \in Seq(Nat)
      BY <2>0, <3>1, <3>2, <3>3, ReadFront DEF ClientRead
    <3>5. op' \in Ops /\ UNCHANGED <<client, hWritePipe>>
      BY <3>1 DEF ClientRead, OpWith, PipeTypeOK, Ops
    <3> QED
      BY <2>10, <3>4, <3>5 DEF ClientReads, PipeTypeOK, serverVars
  <2>11. CASE ClientExits
    <3>1. <<>> \in Seq(Nat)
      OBVIOUS
    <3> QED
      BY <2>11, <3>1 DEF ClientExits, ClientExit, PipeTypeOK, Clients, Ops, serverVars
  <2>12. CASE PSTerminated \/ UNCHANGED psVars
    BY <2>12 DEF PSTerminated, psVars, PipeTypeOK, serverVars, namedVars, pipeVars
  <2> QED
    BY <2>1, <2>2, <2>3, <2>4, <2>5, <2>6, <2>7, <2>8, <2>9, <2>10, <2>11, <2>12
       DEF PSNext, SenderThread
<1>3. IInv => TypeOK
  BY DEF IInv
<1>4. TypeOK /\ T => PSTypeOK
  BY DEF PSTypeOK
<1> QED
  BY <1>1, <1>2, <1>3, <1>4, ReaderInvariance, PTL DEF PSSpec

\* A client that has not opened the pipe has got nothing, and the thread does
\* not send before it has; from then on what it has read, with what waits in
\* the pipe, is what was delivered and the write under way.
CursorInv ==
  /\ client = "starting" => /\ received \o pipe = <<>>
                            /\ Mode_NamedPipe /\ thread # "loop"
  /\ (thread \in {"start", "created", "listening"} /\ call # "quit") =>
       delivered = <<>>
  /\ (thread # "closed" /\ call # "quit" /\ HasReader) =>
       received \o pipe = delivered \o (IF op = "none" THEN <<>> ELSE ret_data)

LEMMA CursorInvariance == PSSpec => []CursorInv
<1> DEFINE Cursor == received \o pipe =
                       delivered \o (IF op = "none" THEN <<>> ELSE ret_data)
           Waiting == thread \in {"start", "created", "listening"}
           Going == thread # "closed" /\ call # "quit"
<1>1. PSInit => CursorInv
  <2> SUFFICES ASSUME PSInit PROVE CursorInv
    OBVIOUS
  <2>1. received = <<>> /\ pipe = <<>> /\ delivered = <<>> /\ op = "none"
    BY DEF PSInit, Init, NamedRunClient, AnonRunClient
  <2>2. <<>> \o <<>> = <<>>
    OBVIOUS
  <2>3. client = "starting" => Mode_NamedPipe
    BY DEF PSInit, NamedRunClient, AnonRunClient
  <2>4. thread = "start"
    BY DEF PSInit
  <2> QED
    BY <2>1, <2>2, <2>3, <2>4 DEF CursorInv
<1>2. PSTypeOK /\ QuitHandleLive /\ CursorInv /\ [PSNext]_psVars => CursorInv'
  <2> SUFFICES ASSUME PSTypeOK, QuitHandleLive, CursorInv, [PSNext]_psVars
               PROVE  CursorInv'
    OBVIOUS
  <2>0. /\ ret_data \in Seq(Nat) /\ pipe \in Seq(Nat) /\ received \in Seq(Nat)
        /\ delivered \in Seq(Nat)
    BY DEF PSTypeOK, PipeTypeOK, TypeOK, Bytes
  <2>00. op # "none" => thread = "loop" /\ call = "data"
    BY DEF QuitHandleLive, Writing
  <2>1. CASE SendDisabled
    BY <2>1 DEF SendDisabled, GiveUp, WriteFailsAt, CursorInv, serverVars,
       namedVars, pipeVars
  <2>2. CASE ConnectAnon
    BY <2>2 DEF ConnectAnon, CursorInv, HasReader, vars, namedVars, pipeVars
  <2>3. CASE ConnectCreate
    BY <2>3 DEF ConnectCreate, GiveUp, WriteFailsAt, NamedCreate, NamedNoClient,
       NamedCreateFails, CursorInv, HasReader, vars, serverVars, namedVars, pipeVars
  <2>4. CASE ConnectNamed \/ ConnectWait
    BY <2>4 DEF ConnectNamed, ConnectWait, WaitTrue, GiveUp, WriteFailsAt, CursorInv,
       HasReader, vars, serverVars, namedVars, pipeVars
  <2>5. CASE SendRead
    <3>1. UNCHANGED <<client, pipe, received, op, thread, delivered>>
      BY <2>5 DEF SendRead, LoopRecording, LoopFinished, GetNextLock, GetNextNothing,
         GetNextFromBuff, GetNextMiss, FromFileRefused, FromFile, FromFileError,
         CanRead, Fread, serverVars, namedVars, pipeVars
    <3>2. thread = "loop" /\ call \notin {"data", "quit"}
      BY <2>5 DEF SendRead, LoopRecording, LoopFinished, GetNextLock, GetNextNothing,
         GetNextFromBuff, GetNextMiss, FromFileRefused, FromFile, FromFileError,
         CanRead
    <3>3. op = "none"
      BY <2>00, <3>2
    <3> QED
      BY <3>1, <3>2, <3>3 DEF CursorInv, HasReader
  <2>6. CASE SendWriteBegin
    <3>1. UNCHANGED vars /\ UNCHANGED serverVars /\ thread = "loop" /\ call = "data"
      BY <2>6 DEF SendWriteBegin, Writing
    <3>2. CASE Accept(ret_data)
      <4>1. /\ op = "none" /\ op' # "none" /\ HasReader /\ client' = client
            /\ pipe' = pipe \o ret_data /\ received' = received
        BY <3>2 DEF Accept, OpWith
      <4>2. received \o pipe = delivered
        BY <2>0, <3>1, <4>1, ConcatEmptySeq DEF CursorInv
      <4>3. received \o (pipe \o ret_data) = delivered \o ret_data
        BY <2>0, <4>2, ConcatBehind
      <4> QED
        BY <3>1, <4>1, <4>3 DEF CursorInv, HasReader, vars, serverVars
    <3>3. CASE NamedWriteRefused
      BY <3>1, <3>3 DEF NamedWriteRefused, CursorInv, HasReader, vars, serverVars
    <3> QED
      BY <2>6, <3>2, <3>3 DEF SendWriteBegin, NamedWriteFile, AnonWriteFile
  <2>7. CASE SendWriteOk
    <3>1. /\ thread = "loop" /\ call = "data" /\ UNCHANGED serverVars
          /\ delivered' = delivered \o ret_data
      BY <2>7 DEF SendWriteOk, Writing, WriteData
    <3>2. CASE NamedWriteNow(ret_data)
      <4>1. /\ op = "none" /\ op' = "none" /\ HasReader /\ client' = client
            /\ pipe' = pipe \o ret_data /\ received' = received
        BY <3>2 DEF NamedWriteNow
      <4>2. received \o pipe = delivered
        BY <2>0, <3>1, <4>1, ConcatEmptySeq DEF CursorInv
      <4>3. received' \o pipe' = delivered'
        BY <2>0, <3>1, <4>1, <4>2, ConcatBehind
      <4>4. delivered' \o <<>> = delivered'
        BY <2>0, <3>1, ConcatProperties, ConcatEmptySeq
      <4> QED
        BY <3>1, <4>1, <4>3, <4>4 DEF CursorInv, HasReader, serverVars
    <3>3. CASE op = "done" /\ Return
      <4>1. op' = "none" /\ UNCHANGED <<client, pipe, received>>
        BY <3>3 DEF Return
      <4>2. delivered' \o <<>> = delivered'
        BY <2>0, <3>1, ConcatProperties, ConcatEmptySeq
      <4> QED
        BY <3>1, <3>3, <4>1, <4>2 DEF CursorInv, HasReader, serverVars
    <3> QED
      BY <2>7, <3>2, <3>3 DEF SendWriteOk, NamedWriteOk, WaitTrue, AnonWriteOk
  <2>8. CASE SendWriteFails
    <3>1. thread = "loop" /\ call' = "quit" /\ UNCHANGED <<client, serverVars>>
      BY <2>8 DEF SendWriteFails, Writing, WriteFailsAt, NamedWriteBroken,
         NamedWriteQuit, AnonWriteBroken, AnonWriteRefused, Return, pipeVars
    <3> QED
      BY <3>1 DEF CursorInv, serverVars
  <2>9. CASE SendClose
    <3>1. /\ thread' = "closed" /\ received' = received
          /\ client' \in {client, "gone"}
          /\ client' = "starting" => pipe' = pipe
      BY <2>9 DEF SendClose, NamedClose, AnonClose
    <3> QED
      BY <3>1 DEF CursorInv
  <2>10. CASE Record
    BY <2>10 DEF Record, RecordWrite, AppendLocked, AppendTimeout, CursorInv,
       HasReader, readVars, serverVars, namedVars, pipeVars
  <2>11. CASE StopNotify
    BY <2>11 DEF StopNotify, RecordStop, RecordFail, CursorInv, HasReader, readVars,
       namedVars, pipeVars
  <2>12. CASE Stopping
    BY <2>12 DEF Stopping, StopSignal, StopJoin, StopReturned, RecordFailed,
       CursorInv, HasReader, vars, readVars, serverVars, namedVars, pipeVars
  <2>13. CASE ClientOpens
    <3>1. /\ client = "starting" /\ client' = "connected"
          /\ UNCHANGED <<thread, call, delivered, received, pipe, op, ret_data>>
      BY <2>13 DEF ClientOpens, ClientConnect, vars, serverVars
    <3>2. thread # "loop" /\ received \o pipe = <<>>
      BY <3>1 DEF CursorInv
    <3>3. (thread # "closed" /\ call # "quit") => delivered = <<>> /\ op = "none"
      BY <2>00, <3>2 DEF CursorInv, PSTypeOK, Threads
    <3>4. <<>> \o <<>> = <<>>
      OBVIOUS
    <3> QED
      BY <3>1, <3>2, <3>3, <3>4 DEF CursorInv
  <2>14. CASE ClientReads
    <3>1. PICK n \in 1..Len(pipe) : ClientRead(n)
      BY <2>14 DEF ClientReads
    <3>2. n \in 0..Len(pipe)
      BY <2>0, <3>1
    <3>3. /\ client = "connected" /\ client' = "connected"
          /\ received' = received \o SubSeq(pipe, 1, n)
          /\ pipe' = SubSeq(pipe, n + 1, Len(pipe))
          /\ op = "none" <=> op' = "none"
      BY <3>1 DEF ClientRead, OpWith
    <3>4. received' \o pipe' = received \o pipe
      <4> DEFINE a == SubSeq(pipe, 1, n)
                 b == SubSeq(pipe, n + 1, Len(pipe))
      <4>1. a \in Seq(Nat) /\ b \in Seq(Nat) /\ a \o b = pipe
        BY <2>0, <3>2, ReadFront
      <4>2. received' \o pipe' = (received \o a) \o b
        BY <3>3
      <4> HIDE DEF a, b
      <4> QED
        BY <2>0, <4>1, <4>2, ConcatBehind
    <3>5. UNCHANGED <<vars, serverVars>>
      BY <2>14 DEF ClientReads
    <3> QED
      BY <3>3, <3>4, <3>5 DEF CursorInv, HasReader, vars, serverVars
  <2>15. CASE ClientExits
    <3>1. /\ client' \in {"gone", "dead"}
          /\ UNCHANGED <<thread, call, delivered>>
      BY <2>15 DEF ClientExits, ClientExit, vars, serverVars
    <3> QED
      BY <3>1 DEF CursorInv, HasReader
  <2>16. CASE PSTerminated \/ UNCHANGED psVars
    BY <2>16 DEF PSTerminated, psVars, CursorInv, HasReader, vars, serverVars,
       namedVars, pipeVars
  <2> QED
    BY <2>1, <2>2, <2>3, <2>4, <2>5, <2>6, <2>7, <2>8, <2>9, <2>10, <2>11, <2>12,
       <2>13, <2>14, <2>15, <2>16 DEF PSNext, SenderThread
<1> QED
  BY <1>1, <1>2, ServerTypeCorrect, QuitHandle, PTL DEF PSSpec

\* However the overlapped or blocking writes end and whenever the client reads,
\* comes or goes, it sees the recording up to the read position, without a gap
\* and without a repetition.
THEOREM ClientCursor ==
  ASSUME NoTail
  PROVE  PSSpec => []ClientSeesCursor
<1>1. PSSpec => []SendsOnlyWritten
  BY ServerImplementsReader, OnlyWrittenSent, PTL DEF ImplementsFileReader
<1>2. CursorInv /\ IInv /\ SendsOnlyWritten => ClientSeesCursor
  <2> SUFFICES ASSUME CursorInv, IInv, SendsOnlyWritten,
                      thread = "loop", call # "quit", HasReader
               PROVE  received \o pipe = SubSeq(recorded, 1, fpos_read)
                        \o (IF op = "none" THEN <<>> ELSE ret_data)
    BY DEF ClientSeesCursor
  <2>1. received \o pipe = delivered \o (IF op = "none" THEN <<>> ELSE ret_data)
    BY DEF CursorInv
  <2>2. fpos_read = Len(delivered)
    BY DEF IInv, SenderInv
  <2>3. delivered = SubSeq(recorded, 1, Len(delivered))
    BY DEF SendsOnlyWritten, IsPrefix, IInv, TypeOK
  <2> QED
    BY <2>1, <2>2, <2>3
<1> QED
  BY <1>1, <1>2, CursorInvariance, ReaderInvariance, PTL

-----------------------------------------------------------------------------
(* What the client gets.                                                   *)

\* A prefix, by its elements.
LEMMA PrefixElements ==
  ASSUME NEW s \in Seq(Nat), NEW t \in Seq(Nat)
  PROVE  IsPrefix(s, t) <=> /\ Len(s) <= Len(t)
                            /\ \A i \in 1..Len(s) : s[i] = t[i]
<1>1. ASSUME IsPrefix(s, t)
      PROVE  Len(s) <= Len(t) /\ \A i \in 1..Len(s) : s[i] = t[i]
  <2>1. s = SubSeq(t, 1, Len(s)) /\ Len(s) <= Len(t)
    BY <1>1 DEF IsPrefix
  <2> QED
    BY <2>1
<1>2. ASSUME Len(s) <= Len(t), \A i \in 1..Len(s) : s[i] = t[i]
      PROVE  IsPrefix(s, t)
  <2>1. SubSeq(s, 1, Len(s)) = SubSeq(t, 1, Len(s))
    BY <1>2
  <2> QED
    BY <1>2, <2>1 DEF IsPrefix
<1> QED
  BY <1>1, <1>2

LEMMA PrefixTransitive ==
  ASSUME NEW s \in Seq(Nat), NEW t \in Seq(Nat), NEW u \in Seq(Nat),
         IsPrefix(s, t), IsPrefix(t, u)
  PROVE  IsPrefix(s, u)
<1>1. /\ Len(s) <= Len(t) /\ Len(t) <= Len(u)
      /\ \A i \in 1..Len(s) : s[i] = t[i]
      /\ \A i \in 1..Len(t) : t[i] = u[i]
  BY PrefixElements
<1>2. \A i \in 1..Len(s) : i \in 1..Len(t)
  BY <1>1
<1>3. Len(s) <= Len(u) /\ \A i \in 1..Len(s) : s[i] = u[i]
  BY <1>1, <1>2
<1> QED
  BY <1>3, PrefixElements

\* The bytes of a write that the pipe has taken and that is not yet reported.
InFlight == IF op \in {"pending", "done", "broken"} THEN ret_data ELSE <<>>

\* The client has got and can get nothing but what was delivered and the write
\* in flight.
ClientPrefixInv == IsPrefix(received \o pipe, delivered \o InFlight)

\* A client can only open, or hold, the write end of a thread that goes on; when
\* it still holds one that is closed the pipe is anonymous, and nothing was lost.
ClosedInv ==
  /\ Mode_NamedPipe => /\ client # "leaked"
                       /\ HasReader => hWritePipe = "open"
                       /\ thread = "closed" => hWritePipe # "open"
                       /\ thread = "start" => hWritePipe = "none"
  /\ (thread = "closed" /\ call # "quit" /\ HasReader) =>
       received \o pipe = delivered

LEMMA ClientPrefixStep ==
  ASSUME PSTypeOK, QuitHandleLive, CursorInv, ClientPrefixInv, [PSNext]_psVars,
         PSTypeOK'
  PROVE  ClientPrefixInv'
<1>0. /\ ret_data \in Seq(Nat) /\ pipe \in Seq(Nat) /\ received \in Seq(Nat)
      /\ delivered \in Seq(Nat) /\ InFlight \in Seq(Nat)
      /\ received \o pipe \in Seq(Nat) /\ delivered \o InFlight \in Seq(Nat)
  BY DEF PSTypeOK, PipeTypeOK, TypeOK, Bytes, InFlight
<1>00. op # "none" => thread = "loop" /\ call = "data"
  BY DEF QuitHandleLive, Writing
<1>a. ASSUME UNCHANGED <<received, pipe, delivered>>, InFlight' = InFlight
      PROVE  ClientPrefixInv'
  BY <1>a DEF ClientPrefixInv
<1>b. ASSUME received' = received, pipe' = <<>>,
             UNCHANGED <<delivered>>, InFlight' = InFlight
      PROVE  ClientPrefixInv'
  <2>1. received' \o pipe' = received
    BY <1>0, <1>b, ConcatEmptySeq
  <2>2. IsPrefix(received, received \o pipe)
    BY <1>0, PrefixOfConcat DEF Bytes
  <2>3. IsPrefix(received, delivered \o InFlight)
    BY <1>0, <2>2, PrefixTransitive DEF ClientPrefixInv
  <2> QED
    BY <1>b, <2>1, <2>3 DEF ClientPrefixInv
<1>c. ASSUME received \o pipe = delivered, UNCHANGED received,
             pipe' = pipe \o ret_data,
             delivered' \o InFlight' = delivered \o ret_data
      PROVE  ClientPrefixInv'
  <2>1. received' \o pipe' = delivered \o ret_data
    BY <1>0, <1>c, ConcatBehind
  <2>2. delivered \o ret_data \in Seq(Nat)
    BY <1>0
  <2>3. IsPrefix(delivered \o ret_data, delivered \o ret_data)
    BY <2>2, PrefixOfConcat DEF Bytes
  <2> QED
    BY <1>c, <2>1, <2>3 DEF ClientPrefixInv
<1>d. \A s \in Seq(Nat) : s \o <<>> = s
  BY ConcatEmptySeq
<1>1. CASE SendDisabled \/ ConnectAnon \/ ConnectCreate \/ ConnectNamed \/ ConnectWait
  <2>1. /\ UNCHANGED <<received, pipe, op>>
        /\ \/ UNCHANGED <<delivered, ret_data>>
           \/ WriteFailsAt(0) /\ call # "data"
    BY <1>1, <1>00 DEF SendDisabled, ConnectAnon, ConnectCreate, ConnectNamed,
       ConnectWait, GiveUp, NamedCreate, NamedNoClient, NamedCreateFails, WaitFalse,
       namedVars, pipeVars, vars
  <2>2. ASSUME WriteFailsAt(0), call # "data"
        PROVE  delivered' = delivered /\ op = "none"
    <3>1. SubSeq(ret_data, 1, 0) = <<>>
      BY <1>0
    <3> QED
      BY <1>0, <1>00, <1>d, <2>2, <3>1 DEF WriteFailsAt
  <2>3. delivered' = delivered /\ InFlight' = InFlight
    BY <2>1, <2>2 DEF InFlight
  <2> QED
    BY <1>a, <2>1, <2>3
<1>2. CASE SendRead
  <2>1. UNCHANGED <<received, pipe, op, delivered>> /\ call # "data"
    BY <1>2 DEF SendRead, LoopRecording, LoopFinished, GetNextLock, GetNextNothing,
       GetNextFromBuff, GetNextMiss, FromFileRefused, FromFile, FromFileError,
       CanRead, Fread, namedVars, pipeVars
  <2>2. InFlight' = InFlight
    BY <1>00, <2>1 DEF InFlight
  <2> QED
    BY <1>a, <2>1, <2>2
<1>3. CASE SendWriteBegin
  <2>1. UNCHANGED vars /\ thread = "loop" /\ call = "data"
    BY <1>3 DEF SendWriteBegin, Writing
  <2>2. CASE Accept(ret_data)
    <3>1. /\ op = "none" /\ op' \in {"pending", "done"} /\ HasReader
          /\ pipe' = pipe \o ret_data /\ received' = received
      BY <2>2 DEF Accept, OpWith
    <3>2. received \o pipe = delivered
      BY <1>0, <2>1, <3>1, ConcatEmptySeq DEF CursorInv
    <3>3. delivered' \o InFlight' = delivered \o ret_data
      BY <2>1, <3>1 DEF InFlight, vars
    <3> QED
      BY <1>c, <3>1, <3>2, <3>3
  <2>3. CASE NamedWriteRefused
    <3>1. UNCHANGED <<received, pipe, delivered>> /\ InFlight' = InFlight
      BY <2>1, <2>3 DEF NamedWriteRefused, InFlight, vars
    <3> QED
      BY <1>a, <3>1
  <2> QED
    BY <1>3, <2>2, <2>3 DEF SendWriteBegin, NamedWriteFile, AnonWriteFile
<1>4. CASE SendWriteOk
  <2>1. /\ thread = "loop" /\ call = "data"
        /\ delivered' = delivered \o ret_data /\ ret_data' = <<>>
    BY <1>4 DEF SendWriteOk, Writing, WriteData
  <2>2. delivered' \in Seq(Nat) /\ delivered' \o <<>> = delivered'
    BY <1>0, <1>d, <2>1
  <2>3. CASE NamedWriteNow(ret_data)
    <3>1. /\ op = "none" /\ op' = "none" /\ HasReader
          /\ pipe' = pipe \o ret_data /\ received' = received
      BY <2>3 DEF NamedWriteNow
    <3>2. received \o pipe = delivered
      BY <1>0, <2>1, <3>1, ConcatEmptySeq DEF CursorInv
    <3>3. delivered' \o InFlight' = delivered \o ret_data
      BY <2>1, <2>2, <3>1 DEF InFlight
    <3> QED
      BY <1>c, <3>1, <3>2, <3>3
  <2>4. CASE op = "done" /\ Return
    <3>1. op' = "none" /\ UNCHANGED <<pipe, received>>
      BY <2>4 DEF Return
    <3>2. InFlight = ret_data /\ InFlight' = <<>>
      BY <2>4, <3>1 DEF InFlight
    <3> QED
      BY <2>1, <2>2, <3>1, <3>2 DEF ClientPrefixInv
  <2> QED
    BY <1>4, <2>3, <2>4 DEF SendWriteOk, NamedWriteOk, WaitTrue, AnonWriteOk
<1>5. CASE SendWriteFails
  <2>1. /\ op' = "none" /\ ret_data' = <<>> /\ UNCHANGED <<pipe, received>>
        /\ delivered' = delivered
             \o SubSeq(ret_data, 1, IF op \in {"pending", "done", "broken"}
                                      THEN Len(ret_data) ELSE 0)
    BY <1>5, <1>00 DEF SendWriteFails, NamedWriteBroken, NamedWriteQuit,
       AnonWriteBroken, AnonWriteRefused, Return, WriteFailsAt, pipeVars
  <2>2. SubSeq(ret_data, 1, Len(ret_data)) = ret_data /\ SubSeq(ret_data, 1, 0) = <<>>
    BY <1>0
  <2>3. delivered' = delivered \o InFlight
    BY <2>1, <2>2 DEF InFlight
  <2>4. InFlight' = <<>>
    BY <2>1 DEF InFlight
  <2>5. delivered' \o InFlight' = delivered \o InFlight
    BY <1>0, <1>d, <2>3, <2>4
  <2> QED
    BY <2>1, <2>5 DEF ClientPrefixInv
<1>6. CASE SendClose
  <2>1. /\ UNCHANGED <<received, delivered, op, ret_data>>
        /\ pipe' = pipe \/ pipe' = <<>>
    BY <1>6 DEF SendClose, NamedClose, AnonClose, vars
  <2>2. InFlight' = InFlight
    BY <2>1 DEF InFlight
  <2> QED
    BY <1>a, <1>b, <2>1, <2>2
<1>7. CASE Record \/ StopNotify \/ Stopping \/ ClientOpens
  <2>1. UNCHANGED <<received, pipe, delivered, op, ret_data>>
    BY <1>7 DEF Record, RecordWrite, AppendLocked, AppendTimeout, StopNotify,
       RecordStop, RecordFail, Stopping, StopSignal, StopJoin, StopReturned,
       RecordFailed, ClientOpens, ClientConnect, vars, readVars, namedVars, pipeVars
  <2> QED
    BY <1>a, <2>1 DEF InFlight
<1>8. CASE ClientReads
  <2>1. PICK n \in 1..Len(pipe) : ClientRead(n)
    BY <1>8 DEF ClientReads
  <2>2. n \in 0..Len(pipe)
    BY <1>0, <2>1
  <2>3. /\ received' = received \o SubSeq(pipe, 1, n)
        /\ pipe' = SubSeq(pipe, n + 1, Len(pipe))
        /\ op' = op \/ {op, op'} \subseteq {"pending", "done"}
    BY <2>1 DEF ClientRead, OpWith
  <2>4. received' \o pipe' = received \o pipe
    <3> DEFINE a == SubSeq(pipe, 1, n)
               b == SubSeq(pipe, n + 1, Len(pipe))
    <3>1. a \in Seq(Nat) /\ b \in Seq(Nat) /\ a \o b = pipe
      BY <1>0, <2>2, ReadFront
    <3>2. received' \o pipe' = (received \o a) \o b
      BY <2>3
    <3>3. received \in Seq(Nat)
      BY <1>0
    <3> HIDE DEF a, b
    <3> QED
      BY <3>1, <3>2, <3>3, ConcatBehind
  <2>5. UNCHANGED <<delivered, ret_data>>
    BY <1>8 DEF ClientReads, vars
  <2>6. InFlight' = InFlight
    BY <2>3, <2>5 DEF InFlight
  <2> QED
    BY <2>4, <2>5, <2>6 DEF ClientPrefixInv
<1>9. CASE ClientExits
  <2>1. /\ UNCHANGED <<received, delivered, ret_data>> /\ pipe' = <<>>
        /\ op' = op \/ {op, op'} \subseteq {"pending", "broken"}
    BY <1>9 DEF ClientExits, ClientExit, vars
  <2>2. InFlight' = InFlight
    BY <2>1 DEF InFlight
  <2> QED
    BY <1>b, <2>1, <2>2
<1>10. CASE PSTerminated \/ UNCHANGED psVars
  <2>1. UNCHANGED <<received, pipe, delivered, op, ret_data>>
    BY <1>10 DEF PSTerminated, psVars, vars, namedVars, pipeVars
  <2> QED
    BY <1>a, <2>1 DEF InFlight
<1> QED
  BY <1>1, <1>2, <1>3, <1>4, <1>5, <1>6, <1>7, <1>8, <1>9, <1>10
     DEF PSNext, SenderThread

LEMMA ClosedStep ==
  ASSUME PSTypeOK, QuitHandleLive, CursorInv, ClosedInv, [PSNext]_psVars
  PROVE  ClosedInv'
<1>0. /\ ret_data \in Seq(Nat) /\ pipe \in Seq(Nat) /\ received \in Seq(Nat)
      /\ delivered \in Seq(Nat)
  BY DEF PSTypeOK, PipeTypeOK, TypeOK, Bytes
<1>00. op # "none" => thread = "loop" /\ call = "data"
  BY DEF QuitHandleLive, Writing
<1> USE DEF ClosedInv, HasReader
<1>1. CASE SendDisabled
  BY <1>1 DEF SendDisabled, GiveUp, WriteFailsAt, serverVars, namedVars, pipeVars
<1>2. CASE ConnectAnon
  BY <1>2 DEF ConnectAnon, vars, namedVars, pipeVars
<1>3. CASE ConnectCreate
  BY <1>3 DEF ConnectCreate, GiveUp, WriteFailsAt, NamedCreate, NamedNoClient,
     NamedCreateFails, vars, serverVars, namedVars, pipeVars
<1>4. CASE ConnectNamed \/ ConnectWait
  BY <1>4 DEF ConnectNamed, ConnectWait, GiveUp, WriteFailsAt, vars, serverVars,
     namedVars, pipeVars
<1>5. CASE SendRead
  BY <1>5 DEF SendRead, serverVars, namedVars, pipeVars
<1>6. CASE SendWriteBegin \/ SendWriteOk \/ SendWriteFails
  <2>1. thread = "loop" /\ thread' = "loop" /\ UNCHANGED <<client, hWritePipe>>
    BY <1>6 DEF SendWriteBegin, SendWriteOk, SendWriteFails, Writing, NamedWriteFile,
       NamedWriteRefused, AnonWriteFile, Accept, NamedWriteNow, NamedWriteOk,
       AnonWriteOk, NamedWriteBroken, NamedWriteQuit, AnonWriteBroken,
       AnonWriteRefused, Return, serverVars, pipeVars
  <2> QED
    BY <2>1
<1>7. CASE SendClose
  <2>1. /\ call \in {"exit", "quit"} /\ thread # "closed" /\ thread' = "closed"
        /\ UNCHANGED <<received, op>> /\ UNCHANGED vars
    BY <1>7 DEF SendClose, NamedClose, AnonClose
  <2>2. op = "none"
    BY <1>00, <2>1
  <2>3. CASE Mode_NamedPipe
    <3>1. /\ hWritePipe' = IF hWritePipe = "open" THEN "closed" ELSE hWritePipe
          /\ client' = IF client = "connected" THEN "gone" ELSE client
      BY <1>7, <2>3 DEF SendClose, NamedClose
    <3> QED
      BY <2>1, <2>3, <3>1
  <2>4. CASE ~Mode_NamedPipe
    <3>1. UNCHANGED <<client, pipe>>
      BY <1>7, <2>4 DEF SendClose, AnonClose
    <3>2. (call # "quit" /\ HasReader) => received \o pipe = delivered \o <<>>
      BY <2>1, <2>2 DEF CursorInv
    <3>3. delivered \o <<>> = delivered
      BY <1>0, ConcatEmptySeq
    <3> QED
      BY <2>1, <2>4, <3>1, <3>2, <3>3 DEF vars
  <2> QED
    BY <2>3, <2>4
<1>8. CASE Record \/ StopNotify
  BY <1>8 DEF Record, RecordWrite, AppendLocked, AppendTimeout, StopNotify, RecordStop,
     RecordFail, readVars, serverVars, namedVars, pipeVars
<1>9. CASE Stopping
  BY <1>9 DEF Stopping, StopSignal, StopJoin, StopReturned, RecordFailed, vars,
     serverVars, namedVars, pipeVars
<1>10. CASE ClientOpens
  <2>1. /\ client = "starting" /\ hWritePipe = "open" /\ client' = "connected"
        /\ UNCHANGED <<thread, hWritePipe, vars>>
    BY <1>10 DEF ClientOpens, ClientConnect, serverVars
  <2>2. Mode_NamedPipe
    BY <2>1 DEF CursorInv
  <2> QED
    BY <2>1, <2>2
<1>11. CASE ClientReads
  <2>1. PICK n \in 1..Len(pipe) : ClientRead(n)
    BY <1>11 DEF ClientReads
  <2>2. n \in 0..Len(pipe)
    BY <1>0, <2>1
  <2>3. /\ received' = received \o SubSeq(pipe, 1, n)
        /\ pipe' = SubSeq(pipe, n + 1, Len(pipe))
        /\ UNCHANGED <<client, hWritePipe>>
    BY <2>1 DEF ClientRead
  <2>4. received' \o pipe' = received \o pipe
    <3> DEFINE a == SubSeq(pipe, 1, n)
               b == SubSeq(pipe, n + 1, Len(pipe))
    <3>1. a \in Seq(Nat) /\ b \in Seq(Nat) /\ a \o b = pipe
      BY <1>0, <2>2, ReadFront
    <3>2. received' \o pipe' = (received \o a) \o b
      BY <2>3
    <3>3. received \in Seq(Nat)
      BY <1>0
    <3> HIDE DEF a, b
    <3> QED
      BY <3>1, <3>2, <3>3, ConcatBehind
  <2>5. UNCHANGED <<thread, call, delivered>>
    BY <1>11 DEF ClientReads, vars, serverVars
  <2> QED
    BY <2>3, <2>4, <2>5
<1>12. CASE ClientExits
  BY <1>12 DEF ClientExits, ClientExit, vars, serverVars
<1>13. CASE PSTerminated \/ UNCHANGED psVars
  BY <1>13 DEF PSTerminated, psVars, vars, serverVars, namedVars, pipeVars
<1> QED
  BY <1>1, <1>2, <1>3, <1>4, <1>5, <1>6, <1>7, <1>8, <1>9, <1>10, <1>11, <1>12, <1>13
     DEF PSNext, SenderThread

\* The client of either kind of pipe reads a prefix of the recording, whatever
\* becomes of the write under way, of the thread and of the client itself.
THEOREM ClientPrefix == PSSpec => []ClientReadsPrefix
<1>1. PSInit => ClientPrefixInv
  <2> SUFFICES ASSUME PSInit PROVE ClientPrefixInv
    OBVIOUS
  <2>1. received = <<>> /\ pipe = <<>> /\ delivered = <<>> /\ op = "none"
    BY DEF PSInit, Init, NamedRunClient, AnonRunClient
  <2>2. <<>> \o <<>> = <<>> /\ <<>> \in Seq(Nat)
    OBVIOUS
  <2>3. IsPrefix(<<>>, <<>>)
    BY <2>2, PrefixOfConcat DEF Bytes
  <2>4. received \o pipe = <<>> /\ delivered \o InFlight = <<>>
    BY <2>1, <2>2 DEF InFlight
  <2> QED
    BY <2>3, <2>4 DEF ClientPrefixInv
<1>2. /\ PSTypeOK /\ PSTypeOK' /\ QuitHandleLive /\ CursorInv /\ ClientPrefixInv
      /\ [PSNext]_psVars
      => ClientPrefixInv'
  BY ClientPrefixStep
<1>3. PSTypeOK /\ QuitHandleLive /\ IInv /\ ClientPrefixInv => ClientReadsPrefix
  <2> SUFFICES ASSUME PSTypeOK, QuitHandleLive, IInv, ClientPrefixInv,
                      recorder \in {"recording", "stopped"}
               PROVE  IsPrefix(received \o pipe, recorded)
    BY DEF ClientReadsPrefix
  <2> DEFINE sent == delivered \o InFlight
  <2>1. /\ received \o pipe \in Seq(Nat) /\ recorded \in Seq(Nat)
        /\ delivered \in Seq(Nat) /\ ret_data \in Seq(Nat) /\ InFlight \in Seq(Nat)
        /\ sent \in Seq(Nat) /\ Len(sent) = Len(delivered) + Len(InFlight)
    BY DEF PSTypeOK, PipeTypeOK, TypeOK, Bytes, InFlight
  <2>2. /\ \A j \in 1..Len(delivered) : sent[j] = delivered[j]
        /\ \A j \in 1..Len(InFlight) : sent[Len(delivered) + j] = InFlight[j]
    BY <2>1
  <2>3. /\ fpos_write \in Nat /\ Len(pending) \in Nat /\ fileSize \in Nat
        /\ Len(delivered) \in Nat /\ Len(ret_data) \in Nat /\ Len(recorded) \in Nat
    BY DEF IInv, TypeOK
  <2>4. /\ Len(delivered) <= Len(recorded)
        /\ \A j \in 1..Len(delivered) : delivered[j] = recorded[j]
    <3>1. Len(delivered) <= Len(recorded)
      BY <2>3 DEF IInv, SenderInv, RecorderInv
    <3> QED
      BY <2>3, <3>1 DEF IInv, SenderInv, TsByte
  <2>5. /\ Len(delivered) + Len(InFlight) <= Len(recorded)
        /\ \A j \in 1..Len(InFlight) : InFlight[j] = recorded[Len(delivered) + j]
    <3>1. CASE op \in {"pending", "done", "broken"}
      <4>1. InFlight = ret_data /\ fpos_read = Len(delivered)
        BY <3>1 DEF InFlight, QuitHandleLive, Writing, IInv, SenderInv
      <4>2. Len(delivered) + Len(ret_data) <= Len(recorded)
        BY <2>3, <4>1 DEF IInv, SenderInv, RecorderInv
      <4>3. \A j \in 1..Len(ret_data) : ret_data[j] = TsByte(Len(delivered) + j)
        BY <4>1 DEF IInv, SenderInv
      <4>4. \A j \in 1..Len(ret_data) :
              TsByte(Len(delivered) + j) = recorded[Len(delivered) + j]
        BY <2>3, <4>2 DEF TsByte
      <4> QED
        BY <4>1, <4>2, <4>3, <4>4
    <3>2. CASE op \notin {"pending", "done", "broken"}
      <4>1. InFlight = <<>>
        BY <3>2 DEF InFlight
      <4> QED
        BY <2>3, <2>4, <4>1
    <3> QED
      BY <3>1, <3>2
  <2>6. \A i \in 1..Len(sent) : sent[i] = recorded[i]
    <3> TAKE i \in 1..Len(sent)
    <3>1. CASE i \in 1..Len(delivered)
      BY <2>2, <2>4, <3>1
    <3>2. CASE i \notin 1..Len(delivered)
      <4>1. /\ i - Len(delivered) \in 1..Len(InFlight)
            /\ Len(delivered) + (i - Len(delivered)) = i
        BY <2>1, <2>3, <3>2
      <4> QED
        BY <2>2, <2>5, <4>1
    <3> QED
      BY <3>1, <3>2
  <2>7. IsPrefix(sent, recorded)
    <3> HIDE DEF sent
    <3> QED
      BY <2>1, <2>5, <2>6, PrefixElements
  <2> QED
    BY <2>1, <2>7, PrefixTransitive DEF ClientPrefixInv
<1> QED
  BY <1>1, <1>2, <1>3, ServerTypeCorrect, QuitHandle, CursorInvariance,
     ReaderInvariance, PTL DEF PSSpec

\* A sending that ends by the end of the file leaves a client that still holds
\* its end the whole recording.
THEOREM ClientAll == PSSpec => []ClientLeftAll
<1>1. PSInit => ClosedInv
  <2> SUFFICES ASSUME PSInit PROVE ClosedInv
    OBVIOUS
  <2>1. thread = "start"
    BY DEF PSInit
  <2>2. Mode_NamedPipe => client \in {"none", "starting"} /\ hWritePipe = "none"
    BY DEF PSInit, NamedRunClient
  <2> QED
    BY <2>1, <2>2 DEF ClosedInv, HasReader
<1>2. PSTypeOK /\ QuitHandleLive /\ CursorInv /\ ClosedInv /\ [PSNext]_psVars
      => ClosedInv'
  BY ClosedStep
<1>3. /\ PSTypeOK /\ QuitHandleLive /\ CursorInv /\ ClosedInv /\ ExitSentAll
      => ClientLeftAll
  <2> SUFFICES ASSUME PSTypeOK, QuitHandleLive, CursorInv, ClosedInv, ExitSentAll,
                      call = "exit", fp = "eof", recorder = "stopped", HasReader
               PROVE  received \o pipe = recorded
    BY DEF ClientLeftAll
  <2>1. delivered = recorded
    BY DEF ExitSentAll
  <2>2. op = "none"
    BY DEF QuitHandleLive, Writing
  <2>3. delivered \o <<>> = delivered
    BY ConcatEmptySeq DEF PSTypeOK, TypeOK
  <2>4. thread # "closed" => received \o pipe = delivered
    BY <2>2, <2>3 DEF CursorInv
  <2>5. thread = "closed" => received \o pipe = delivered
    BY DEF ClosedInv
  <2> QED
    BY <2>1, <2>4, <2>5
<1>4. PSSpec => []ExitSentAll
  BY ServerImplementsReader, ExitComplete, PTL DEF ImplementsFileReader
<1> QED
  BY <1>1, <1>2, <1>3, <1>4, ServerTypeCorrect, QuitHandle, CursorInvariance,
     PTL DEF PSSpec
=============================================================================
