----------------------------- MODULE TimeShift -----------------------------
(***************************************************************************)
(* CTimeShiftUtil (Common/TimeShiftUtil.cpp): a thread that reads a        *)
(* recording, which another process may still be writing, and sends it on. *)
(*                                                                         *)
(* Sizes and positions are counted in a unit of which CHUNK make a read of *)
(* 188*256 bytes and DW make 2^32 bytes.  The object has one owner, whose  *)
(* calls follow one another, so that Lock never waits; the thread shares   *)
(* availableFileSize, currentFilePos and totalFileSize with the owner      *)
(* without a lock, and every access of the thread to the first is a step   *)
(* of its own.                                                             *)
(*                                                                         *)
(* Left out: what the packets hold (the PMTs, CPacketInit, which finds the *)
(* packets' borders and passes all on) and the two senders behind SendUdp  *)
(* and SendTcp; GetCurrentFilePos and GetTotalFilePos, which only look.    *)
(* The pace set by the PCR is a wait of any length.                        *)
(***************************************************************************)
EXTENDS Integers

CONSTANTS
  CHUNK,     \* the size of buff, 188*256 bytes
  DW,        \* 2^32 bytes
  MaxSize,   \* bound on the size of the file
  MaxErr,    \* the number of looks in 10 s, 200
  MaxOwner   \* bound on the owner's calls

ASSUME SizesAssumption ==
  /\ CHUNK \in Nat \ {0} /\ DW \in Nat /\ CHUNK < DW
  /\ MaxSize \in Nat /\ MaxErr \in Nat /\ MaxOwner \in Nat

VARIABLES
  \* the object
  filePath,            \* a file was opened
  fileMode,
  availableFileSize,   \* -1: all of the file
  currentFilePos,
  totalFileSize,
  readThread,          \* the thread handle is open
  readStopEvent,       \* auto-reset
  owner,               \* the owner's call: none, or one that waits for the thread
  \* the thread
  pc,
  filePos,             \* the file pointer of the handle file
  totalReadSize,       \* currentFilePos at the beginning of the round
  buffSize, errCount,
  \* the file
  size,
  \* history
  ownerCalls,
  allowed,             \* the most the owner ever gave free of this file
  sentTo,              \* the end of the last piece sent
  raced,               \* availableFileSize changed while the thread was using it
  moved,               \* SetFilePos on a running thread: the file pointer is elsewhere
  failed,              \* an OpenTimeShift found no file and left half of its settings
  wrapped,             \* the PCR fell back and the thread waits for it
  quit                 \* the thread found no file, or no growth of it in 10 s of looks

sharedVars == <<filePath, fileMode, availableFileSize, totalFileSize, readThread,
                readStopEvent, owner>>
readVars == <<filePos, totalReadSize, buffSize, errCount>>
histVars == <<allowed, sentTo, raced, moved, failed, wrapped, quit>>
tsVars == <<sharedVars, currentFilePos, pc, readVars, size, ownerCalls, histVars>>

Steps == {"off", "begin", "top", "test", "limit", "cut", "check", "read", "send", "pace",
          "cancel", "overrun"}

LowerOf(a, b) == IF a <= b THEN a ELSE b
HigherOf(a, b) == IF a <= b THEN b ELSE a

TSInit ==
  /\ filePath = FALSE /\ fileMode = FALSE
  /\ availableFileSize = 0 /\ currentFilePos = 0 /\ totalFileSize = 0
  /\ readThread = FALSE /\ readStopEvent = FALSE /\ owner = "none"
  /\ pc = "off" /\ filePos = 0 /\ totalReadSize = 0 /\ buffSize = 0 /\ errCount = 0
  /\ size \in {0, MaxSize}
  /\ ownerCalls = 0 /\ allowed = 0 /\ sentTo = 0
  /\ raced = FALSE /\ moved = FALSE /\ failed = FALSE /\ wrapped = FALSE
  /\ quit = FALSE

\* The recorder, another process: the file grows.
Grow ==
  /\ size < MaxSize
  /\ size' = size + 1
  /\ UNCHANGED <<sharedVars, currentFilePos, pc, readVars, ownerCalls, histVars>>

-----------------------------------------------------------------------------
(* The owner *)

OwnerCall ==
  /\ owner = "none"
  /\ ownerCalls < MaxOwner
  /\ ownerCalls' = ownerCalls + 1

\* What an owner that knows the recording gives free: what is in the file, or all.
Available == {-1} \cup 0 .. size

InUse == pc \in {"limit", "cut"}

\* OpenTimeShift behind the stop of an old thread.  When there is no such file the
\* new availableFileSize stays with the old path, position and mode.
OpenTimeShift(a, mode, found) ==
  /\ OwnerCall
  /\ ~readThread
  /\ availableFileSize' = a
  /\ failed' = ~found
  /\ IF found
       THEN /\ filePath' = TRUE /\ fileMode' = mode
            /\ totalFileSize' = IF a = -1 THEN size ELSE LowerOf(size, a)
            /\ currentFilePos' = 0
            /\ allowed' = IF a = -1 THEN MaxSize ELSE a
            /\ moved' = FALSE
       ELSE UNCHANGED <<filePath, fileMode, totalFileSize, currentFilePos, allowed, moved>>
  /\ sentTo' = 0 /\ raced' = FALSE /\ wrapped' = FALSE /\ quit' = FALSE
  /\ UNCHANGED <<readThread, readStopEvent, owner, pc, readVars, size>>

\* A thread that has ended by itself counts as running: nothing is started.
StartTimeShift ==
  /\ OwnerCall
  /\ filePath
  /\ IF readThread
       THEN UNCHANGED <<readThread, readStopEvent, pc, quit>>
       ELSE readThread' = TRUE /\ readStopEvent' = FALSE /\ pc' = "begin" /\ quit' = FALSE
  /\ UNCHANGED <<filePath, fileMode, availableFileSize, totalFileSize, owner,
                 currentFilePos, readVars, size, allowed, sentTo, raced, moved, failed,
                 wrapped>>

\* StopTimeShift, and the first part of OpenTimeShift and of the destructor.
StopTimeShift ==
  /\ OwnerCall
  /\ readThread
  /\ readStopEvent' = TRUE
  /\ owner' = "stop"
  /\ UNCHANGED <<filePath, fileMode, availableFileSize, totalFileSize, readThread,
                 currentFilePos, pc, readVars, size, histVars>>

\* The thread has ended, or 15 s have passed with it in SendData and it is terminated.
StopReturns ==
  /\ owner = "stop"
  /\ pc \in {"off", "send", "overrun"}
  /\ owner' = "none" /\ readThread' = FALSE
  /\ pc' = "off"
  /\ wrapped' = FALSE
  /\ UNCHANGED <<filePath, fileMode, availableFileSize, totalFileSize, readStopEvent,
                 currentFilePos, readVars, size, ownerCalls, allowed, sentTo, raced, moved,
                 failed, quit>>

\* As the recording goes on more is given free, and in the end all.
SetAvailableSize(a) ==
  /\ OwnerCall
  /\ availableFileSize # -1
  /\ a = -1 \/ a > availableFileSize
  /\ availableFileSize' = a
  /\ totalFileSize' = IF a = -1 THEN size ELSE totalFileSize
  /\ allowed' = IF a = -1 THEN MaxSize ELSE HigherOf(allowed, a)
  /\ raced' = (raced \/ InUse)
  /\ UNCHANGED <<filePath, fileMode, readThread, readStopEvent, owner, currentFilePos, pc,
                 readVars, size, sentTo, moved, failed, wrapped,
                 quit>>

\* SetFilePos, which returns FALSE: before StartTimeShift the thread begins there;
\* a running one does not move its file pointer.
SetFilePos(p) ==
  /\ OwnerCall
  /\ currentFilePos' = p
  /\ moved' = (moved \/ pc # "off")
  /\ UNCHANGED <<sharedVars, pc, readVars, size, allowed, sentTo, raced, failed, wrapped,
                 quit>>

Owner ==
  \/ \E a \in Available, mode, found \in BOOLEAN : OpenTimeShift(a, mode, found)
  \/ StartTimeShift \/ StopTimeShift
  \/ \E a \in Available : SetAvailableSize(a)
  \/ \E p \in 0 .. MaxSize : SetFilePos(p)

-----------------------------------------------------------------------------
(* ReadThread *)

ThreadUnchanged == UNCHANGED <<filePath, fileMode, availableFileSize, readThread, owner,
                               size, ownerCalls>>

\* CreateFile fails, or the file is opened at the position.
Begin ==
  /\ pc = "begin"
  /\ \/ pc' = "off" /\ quit' = TRUE /\ UNCHANGED <<currentFilePos, totalFileSize, readVars>>
     \/ /\ currentFilePos' = LowerOf(currentFilePos, size)
        /\ totalFileSize' = size
        /\ filePos' = currentFilePos' /\ totalReadSize' = currentFilePos'
        /\ errCount' = 0 /\ buffSize' = 0
        /\ pc' = "top"
        /\ UNCHANGED quit
  /\ UNCHANGED <<readStopEvent, allowed, sentTo, raced, moved, failed, wrapped>>
  /\ ThreadUnchanged

Top ==
  /\ pc = "top"
  /\ readStopEvent' = FALSE
  /\ pc' = IF readStopEvent THEN "cancel" ELSE "test"
  /\ totalReadSize' = currentFilePos /\ buffSize' = CHUNK
  /\ UNCHANGED <<totalFileSize, currentFilePos, filePos, errCount, histVars>>
  /\ ThreadUnchanged

\* availableFileSize is read up to three times: whether there is a limit ...
Test ==
  /\ pc = "test"
  /\ pc' = IF availableFileSize # -1 /\ ~fileMode THEN "limit" ELSE "check"
  /\ UNCHANGED <<totalFileSize, readStopEvent, currentFilePos, readVars, histVars>>
  /\ ThreadUnchanged

\* A mutant: the limit is not looked at.
LimitIgnored ==
  /\ pc = "limit"
  /\ pc' = "check"
  /\ UNCHANGED <<totalFileSize, readStopEvent, currentFilePos, readVars, histVars>>
  /\ ThreadUnchanged

\* ... whether the chunk goes beyond it ...
Limit ==
  /\ pc = "limit"
  /\ pc' = IF totalReadSize + buffSize > availableFileSize THEN "cut" ELSE "check"
  /\ UNCHANGED <<totalFileSize, readStopEvent, currentFilePos, readVars, histVars>>
  /\ ThreadUnchanged

\* ... and how much is left, as a DWORD.
Cut ==
  /\ pc = "cut"
  /\ buffSize' = (availableFileSize - totalReadSize) % DW
  /\ pc' = "check"
  /\ UNCHANGED <<totalFileSize, readStopEvent, currentFilePos, filePos, totalReadSize, errCount,
                 histVars>>
  /\ ThreadUnchanged

\* A mutant: only the present end counts, not how much will be read.
ReopensLate == ~fileMode /\ totalReadSize >= totalFileSize

\* The file has to be opened again, since it has grown behind totalFileSize.
Reopens == ~fileMode /\ totalReadSize + buffSize > totalFileSize

\* The file is gone and the thread ends, or its size is looked up again and the thread
\* sleeps.  After 10 s of looks it ends, whatever the last of them found.
Reopen ==
  /\ pc = "check" /\ Reopens
  /\ \/ quit' = TRUE /\ UNCHANGED <<filePos, totalFileSize, errCount>>
     \/ /\ filePos' = currentFilePos
        /\ totalFileSize' = size
        /\ errCount' = errCount + 1
        /\ quit' = (errCount' > MaxErr)
  /\ pc' = IF quit' THEN "off" ELSE "top"
  /\ UNCHANGED <<readStopEvent, currentFilePos, totalReadSize, buffSize, allowed, sentTo,
                 raced, moved, failed, wrapped>>
  /\ ThreadUnchanged

Enter ==
  /\ pc = "check" /\ ~Reopens
  /\ pc' = "read"
  /\ UNCHANGED <<totalFileSize, readStopEvent, currentFilePos, readVars, histVars>>
  /\ ThreadUnchanged

\* How much ReadFile returns.
ReadSize == LowerOf(buffSize, HigherOf(size - filePos, 0))

\* A mutant: a read of nothing counts as the end, as a short one does.
ErrCountAfterEmpty == IF ReadSize < CHUNK THEN errCount + 1 ELSE 0

\* The errors in a row: a complete read, of nothing too, is none.
ErrCount == IF ReadSize < buffSize THEN errCount + 1 ELSE 0

\* ReadFile: in file mode a short read is the end, and what it read is dropped.  A
\* length beyond the buffer ends in an error or in the memory behind it.
Read ==
  /\ pc = "read"
  /\ IF buffSize > CHUNK
       THEN pc' = "overrun" /\ UNCHANGED <<errCount, filePos>>
       ELSE IF fileMode /\ ReadSize < buffSize
         THEN pc' = "off" /\ UNCHANGED <<errCount, filePos>>
         ELSE /\ errCount' = ErrCount
              /\ filePos' = filePos + ReadSize
              /\ pc' = IF ErrCount > MaxErr THEN "off"
                       ELSE IF ReadSize = 0 THEN "top" ELSE "send"
  /\ buffSize' = ReadSize
  /\ UNCHANGED <<totalFileSize, readStopEvent, currentFilePos, totalReadSize, histVars>>
  /\ ThreadUnchanged

\* SendData, and the new position, added without a lock to one the owner may have set.
Send ==
  /\ pc = "send"
  /\ sentTo' = filePos
  /\ currentFilePos' = currentFilePos + buffSize
  /\ pc' = "pace"
  /\ wrapped' \in BOOLEAN
  /\ UNCHANGED <<totalFileSize, readStopEvent, readVars, allowed, raced, moved, failed, quit>>
  /\ ThreadUnchanged

\* The wait for the PCR's time, up to a stop.  Behind a PCR that fell back the wait
\* takes 0x1FFFFFFFF ms, which is as good as for ever.
Pace ==
  /\ pc = "pace"
  /\ \/ ~wrapped /\ pc' = "top" /\ UNCHANGED readStopEvent
     \/ readStopEvent /\ readStopEvent' = FALSE /\ pc' = "cancel"
  /\ UNCHANGED <<totalFileSize, currentFilePos, readVars, histVars>>
  /\ ThreadUnchanged

\* An empty PAT is sent, so that a receiver starts over.
Cancel ==
  /\ pc = "cancel"
  /\ pc' = "off"
  /\ UNCHANGED <<totalFileSize, readStopEvent, currentFilePos, readVars, histVars>>
  /\ ThreadUnchanged

ReadThread ==
  \/ Begin \/ Top \/ Test \/ Limit \/ Cut \/ Reopen \/ Enter \/ Read \/ Send \/ Pace \/ Cancel

TSNext == Grow \/ Owner \/ StopReturns \/ ReadThread

\* The thread is scheduled and its calls return; so does the owner's wait.
TSFairness == WF_tsVars(ReadThread) /\ WF_tsVars(StopReturns)

TSSpec == TSInit /\ [][TSNext]_tsVars /\ TSFairness

-----------------------------------------------------------------------------
(* Properties *)

TSTypeOK ==
  /\ pc \in Steps
  /\ owner \in {"none", "stop"}
  /\ filePath \in BOOLEAN /\ fileMode \in BOOLEAN /\ failed \in BOOLEAN
  /\ readThread \in BOOLEAN /\ readStopEvent \in BOOLEAN /\ quit \in BOOLEAN
  /\ raced \in BOOLEAN /\ moved \in BOOLEAN /\ wrapped \in BOOLEAN
  /\ availableFileSize \in {-1} \cup Nat /\ currentFilePos \in Nat /\ totalFileSize \in Nat
  /\ filePos \in Nat /\ totalReadSize \in Nat /\ buffSize \in Nat /\ errCount \in Nat
  /\ size \in Nat /\ allowed \in Nat /\ sentTo \in Nat

\* A position beyond the limit makes buffSize wrap around to almost 4 GiB; the
\* comparison with totalFileSize, meant for another purpose, keeps such a length
\* from ReadFile in a file of less than 4 GiB, unless the owner changes the limit
\* between the thread's reads of it (TimeShiftUtil.cpp:283-289).
ReadFitsBuffer ==
  pc = "read" /\ ~raced /\ totalFileSize < DW => buffSize <= CHUNK

\* While the recording goes on nothing is sent that its owner has not given free,
\* for behind it the file may hold anything, as long as nobody seeks in a running
\* thread, no OpenTimeShift failed and the file is less than 4 GiB: a length that
\* wraps may look like one that is left (TimeShiftUtil.cpp:284-289, :418).
SentWithinAvailable ==
  ~fileMode /\ ~raced /\ ~moved /\ ~failed /\ totalFileSize < DW => sentTo <= allowed

\* Of a file with a limit, what was given free is sent, however long the recorder
\* paused before: a thread that has sent all it may waits, and does not take the pause
\* for the end of the file, until a stop (TimeShiftUtil.cpp:284-289, :314-335).
\* Exceptions: availableFileSize = -1, of which WholeFileSent tells; a thread that ended
\* because the file is gone or because the file did not reach the limit within 10 s of
\* looks (quit); a limit changed between two reads of it, a SetFilePos on a running
\* thread and a PCR that fell back; a file of 4 GiB, where the length that wrapped would
\* get to ReadFile.
AllAvailableSent ==
  \A a \in 1 .. MaxSize :
    /\ readThread /\ pc # "begin" /\ owner = "none" /\ ~quit
    /\ ~fileMode /\ ~failed /\ ~moved /\ ~raced
    /\ availableFileSize = a /\ a <= totalFileSize /\ totalFileSize < DW
    ~> \/ currentFilePos >= a
       \/ owner = "stop" \/ moved \/ raced \/ wrapped \/ quit
       \/ availableFileSize # a \/ totalFileSize >= DW

\* The thread ended because it could not open the file, not because it had looked for
\* 10 s.
FileGone == quit /\ errCount <= MaxErr

\* TimeShiftUtil.h:38 and :58 say of a size of -1 that the file's size as it is counts as
\* available: without file mode, a thread that begins or has just read a whole buffer
\* sends a file of s units to its end, as long as the file does not grow and nobody
\* stops the thread, seeks or takes the file away (TimeShiftUtil.cpp:284-312).
WholeFileSent ==
  \A s \in 1 .. MaxSize :
    /\ pc = "top" /\ errCount = 0 /\ owner = "none"
    /\ ~fileMode /\ ~failed /\ ~moved /\ ~raced
    /\ availableFileSize = -1 /\ size = s
    ~> \/ currentFilePos >= s
       \/ size # s \/ owner = "stop" \/ moved \/ wrapped \/ FileGone
=============================================================================
