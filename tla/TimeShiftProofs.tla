--------------------------- MODULE TimeShiftProofs ---------------------------
(***************************************************************************)
(* Proofs about TimeShift for every size of a read, of 2^32 and of the     *)
(* file, and any number of the owner's calls.                              *)
(***************************************************************************)
EXTENDS TimeShift, TLAPS

-----------------------------------------------------------------------------
(* The inductive invariant.                                                *)

\* Where the thread uses a position, it is the object's, unless somebody set another
\* one.
PositionInv ==
  /\ ~readThread => pc = "off"
  /\ totalFileSize <= size /\ size <= MaxSize
  /\ pc \in {"test", "limit"} => buffSize = CHUNK
  /\ pc \in {"check", "read"} /\ fileMode => buffSize = CHUNK
  /\ pc \in {"limit", "cut"} => ~fileMode
  /\ ~moved =>
       /\ pc \in {"top", "pace"} => filePos = currentFilePos
       /\ pc \in {"test", "limit", "cut", "check", "read"} =>
            filePos = currentFilePos /\ totalReadSize = currentFilePos
       /\ pc = "send" => filePos = currentFilePos + buffSize

\* What becomes of a length that wraps: its end is behind all of a small file.
LengthInv ==
  ~raced =>
    /\ pc \in {"limit", "cut"} => availableFileSize # -1
    /\ pc = "cut" => buffSize = CHUNK /\ totalReadSize + buffSize > availableFileSize
    /\ pc = "check" => buffSize <= CHUNK \/ totalReadSize + buffSize >= DW
    /\ pc = "read" => buffSize <= CHUNK \/ totalFileSize >= DW

\* The limit that the thread looks at is one its owner gave, and the length that it
\* reads ends before it.
LimitInv ==
  /\ allowed <= MaxSize
  /\ ~failed => availableFileSize <= allowed
  /\ availableFileSize = -1 /\ ~failed => allowed = MaxSize
  /\ ~fileMode /\ ~raced /\ ~moved /\ ~failed =>
       /\ pc = "check" =>
            \/ availableFileSize = -1
            \/ totalReadSize + buffSize <= allowed
            \/ totalReadSize + buffSize >= DW
       /\ pc = "read" =>
            \/ availableFileSize = -1
            \/ totalReadSize + buffSize <= allowed
            \/ totalFileSize >= DW
       /\ pc = "send" /\ totalFileSize < DW => filePos <= allowed

TSInv ==
  /\ TSTypeOK
  /\ PositionInv
  /\ LengthInv
  /\ LimitInv
  /\ SentWithinAvailable

-----------------------------------------------------------------------------
(* Lemmas about the DWORD of line 286.                                     *)

LEMMA DwordFacts ==
  ASSUME NEW d \in Nat \ {0}, NEW x \in Int
  PROVE  /\ x % d \in 0 .. d - 1
         /\ x \in 0 .. d - 1 => x % d = x
<1>1. x % d \in 0 .. d - 1
  OBVIOUS
<1>2. x \in 0 .. d - 1 => x % d = x
  OBVIOUS
<1> QED
  BY <1>1, <1>2

\* A negative number becomes larger by 2^32 at least.
LEMMA DwordWraps ==
  ASSUME NEW d \in Nat \ {0}, NEW x \in Int, x < 0
  PROVE  x + d <= x % d
<1>1. x = d * (x \div d) + (x % d) /\ x \div d \in Int
  OBVIOUS
<1>2. PICK q \in Int : x = d * q + (x % d)
  BY <1>1
<1>3. x % d \in 0 .. d - 1
  OBVIOUS
<1>4. CASE q >= 0
  <2>1. d * q >= 0
    BY <1>4
  <2> QED
    BY <1>2, <1>3, <2>1
<1>5. CASE q <= -1
  <2>1. d * q <= d * (-1)
    BY <1>5
  <2>2. d * (-1) = -d
    OBVIOUS
  <2> QED
    BY <1>2, <1>3, <2>1, <2>2
<1> QED
  BY <1>4, <1>5

-----------------------------------------------------------------------------
LEMMA InitTSInv == TSInit => TSInv
<1> SUFFICES ASSUME TSInit
             PROVE  TSInv
  OBVIOUS
<1> USE SizesAssumption DEF TSInit
<1>1. TSTypeOK
  <2>1. size \in Nat
    OBVIOUS
  <2> QED
    BY <2>1 DEF TSTypeOK, Steps
<1>2. PositionInv /\ LengthInv /\ LimitInv /\ SentWithinAvailable
  BY DEF PositionInv, LengthInv, LimitInv, SentWithinAvailable
<1> QED
  BY <1>1, <1>2 DEF TSInv

(* The recorder and the owner.                                             *)

LEMMA GrowTSInv ==
  ASSUME TSInv, Grow
  PROVE  TSInv'
<1> USE SizesAssumption
    DEF TSInv, Grow, sharedVars, readVars, histVars
<1>1. TSTypeOK'
  BY DEF TSTypeOK
<1>2. PositionInv'
  BY DEF TSTypeOK, PositionInv
<1>3. LengthInv'
  BY DEF LengthInv
<1>4. LimitInv'
  BY DEF LimitInv
<1>5. SentWithinAvailable'
  BY DEF LimitInv, SentWithinAvailable
<1> QED
  BY <1>1, <1>2, <1>3, <1>4, <1>5

LEMMA OpenTimeShiftTSInv ==
  ASSUME TSInv, NEW a \in Available, NEW mode \in BOOLEAN, NEW found \in BOOLEAN,
         OpenTimeShift(a, mode, found)
  PROVE  TSInv'
<1> USE SizesAssumption
    DEF TSInv, OpenTimeShift, OwnerCall, Available, LowerOf, sharedVars, readVars, histVars
<1>1. TSTypeOK'
  <2>1. failed' \in BOOLEAN /\ fileMode' \in BOOLEAN /\ filePath' \in BOOLEAN
    BY Zenon DEF TSTypeOK
  <2>2. /\ availableFileSize' \in {-1} \cup Nat /\ totalFileSize' \in Nat
        /\ allowed' \in Nat /\ currentFilePos' \in Nat
    BY DEF TSTypeOK
  <2>3. moved' \in BOOLEAN
    BY DEF TSTypeOK
  <2> QED
    BY <2>1, <2>2, <2>3 DEF TSTypeOK
<1>2. PositionInv'
  BY DEF TSTypeOK, PositionInv
<1>3. LengthInv'
  BY DEF PositionInv, LengthInv
<1>4. LimitInv'
  <2>1. CASE found
    BY <2>1 DEF TSTypeOK, PositionInv, LimitInv
  <2>2. CASE ~found
    <3>1. failed' = TRUE
      BY <2>2
    <3> QED
      BY <2>2, <3>1 DEF TSTypeOK, PositionInv, LimitInv
  <2> QED
    BY <2>1, <2>2
<1>5. SentWithinAvailable'
  BY DEF TSTypeOK, LimitInv, SentWithinAvailable
<1> QED
  BY <1>1, <1>2, <1>3, <1>4, <1>5

LEMMA StartTimeShiftTSInv ==
  ASSUME TSInv, StartTimeShift
  PROVE  TSInv'
<1> USE SizesAssumption
    DEF TSInv, StartTimeShift, OwnerCall, sharedVars, readVars, histVars
<1>1. TSTypeOK'
  BY DEF TSTypeOK, Steps
<1>2. PositionInv'
  BY DEF PositionInv
<1>3. LengthInv'
  BY DEF LengthInv
<1>4. LimitInv'
  BY DEF LimitInv
<1>5. SentWithinAvailable'
  BY DEF LimitInv, SentWithinAvailable
<1> QED
  BY <1>1, <1>2, <1>3, <1>4, <1>5

LEMMA StopTimeShiftTSInv ==
  ASSUME TSInv, StopTimeShift
  PROVE  TSInv'
<1> USE SizesAssumption
    DEF TSInv, StopTimeShift, OwnerCall, sharedVars, readVars, histVars
<1>1. TSTypeOK'
  BY DEF TSTypeOK
<1>2. PositionInv'
  BY DEF PositionInv
<1>3. LengthInv'
  BY DEF LengthInv
<1>4. LimitInv'
  BY DEF LimitInv
<1>5. SentWithinAvailable'
  BY DEF LimitInv, SentWithinAvailable
<1> QED
  BY <1>1, <1>2, <1>3, <1>4, <1>5

LEMMA StopReturnsTSInv ==
  ASSUME TSInv, StopReturns
  PROVE  TSInv'
<1> USE SizesAssumption
    DEF TSInv, StopReturns, sharedVars, readVars, histVars
<1>1. TSTypeOK'
  BY DEF TSTypeOK, Steps
<1>2. PositionInv'
  BY DEF PositionInv
<1>3. LengthInv'
  BY DEF LengthInv
<1>4. LimitInv'
  BY DEF LimitInv
<1>5. SentWithinAvailable'
  BY DEF LimitInv, SentWithinAvailable
<1> QED
  BY <1>1, <1>2, <1>3, <1>4, <1>5

LEMMA SetAvailableSizeTSInv ==
  ASSUME TSInv, NEW a \in Available, SetAvailableSize(a)
  PROVE  TSInv'
<1> USE SizesAssumption
    DEF TSInv, SetAvailableSize, OwnerCall, Available, InUse, HigherOf, sharedVars, readVars, histVars
<1>1. TSTypeOK'
  BY DEF TSTypeOK
<1>2. PositionInv'
  BY DEF TSTypeOK, PositionInv
<1>3. LengthInv'
  BY DEF TSTypeOK, PositionInv, LengthInv
<1>4. LimitInv'
  BY DEF TSTypeOK, PositionInv, LimitInv
<1>5. SentWithinAvailable'
  BY DEF TSTypeOK, PositionInv, LimitInv, SentWithinAvailable
<1> QED
  BY <1>1, <1>2, <1>3, <1>4, <1>5

LEMMA SetFilePosTSInv ==
  ASSUME TSInv, NEW p \in 0 .. MaxSize, SetFilePos(p)
  PROVE  TSInv'
<1> USE SizesAssumption
    DEF TSInv, SetFilePos, OwnerCall, sharedVars, readVars, histVars
<1>1. TSTypeOK'
  BY DEF TSTypeOK
<1>2. PositionInv'
  BY DEF PositionInv
<1>3. LengthInv'
  BY DEF LengthInv
<1>4. LimitInv'
  BY DEF LimitInv
<1>5. SentWithinAvailable'
  BY DEF LimitInv, SentWithinAvailable
<1> QED
  BY <1>1, <1>2, <1>3, <1>4, <1>5

(* ReadThread.                                                             *)

LEMMA BeginTSInv ==
  ASSUME TSInv, Begin
  PROVE  TSInv'
<1> USE SizesAssumption
    DEF TSInv, Begin, LowerOf, ThreadUnchanged, sharedVars, readVars, histVars
<1>1. TSTypeOK'
  <2>1. quit' \in BOOLEAN
    BY DEF TSTypeOK
  <2>2. /\ pc' \in Steps /\ currentFilePos' \in Nat /\ totalFileSize' \in Nat
        /\ filePos' \in Nat /\ totalReadSize' \in Nat /\ buffSize' \in Nat /\ errCount' \in Nat
    BY DEF TSTypeOK, Steps
  <2> QED
    BY <2>1, <2>2 DEF TSTypeOK
<1>2. PositionInv'
  BY DEF TSTypeOK, PositionInv
<1>3. LengthInv'
  BY DEF LengthInv
<1>4. LimitInv'
  BY DEF LimitInv
<1>5. SentWithinAvailable'
  BY DEF TSTypeOK, PositionInv, LimitInv, SentWithinAvailable
<1> QED
  BY <1>1, <1>2, <1>3, <1>4, <1>5

LEMMA TopTSInv ==
  ASSUME TSInv, Top
  PROVE  TSInv'
<1> USE SizesAssumption
    DEF TSInv, Top, ThreadUnchanged, sharedVars, readVars, histVars
<1>1. TSTypeOK'
  BY DEF TSTypeOK, Steps
<1>2. PositionInv'
  BY DEF PositionInv
<1>3. LengthInv'
  BY DEF LengthInv
<1>4. LimitInv'
  BY DEF LimitInv
<1>5. SentWithinAvailable'
  BY DEF LimitInv, SentWithinAvailable
<1> QED
  BY <1>1, <1>2, <1>3, <1>4, <1>5

LEMMA TestTSInv ==
  ASSUME TSInv, Test
  PROVE  TSInv'
<1> USE SizesAssumption
    DEF TSInv, Test, ThreadUnchanged, sharedVars, readVars, histVars
<1>1. TSTypeOK'
  BY DEF TSTypeOK, Steps
<1>2. PositionInv'
  BY DEF PositionInv
<1>3. LengthInv'
  BY DEF PositionInv, LengthInv
<1>4. LimitInv'
  BY DEF LimitInv
<1>5. SentWithinAvailable'
  BY DEF LimitInv, SentWithinAvailable
<1> QED
  BY <1>1, <1>2, <1>3, <1>4, <1>5

LEMMA LimitTSInv ==
  ASSUME TSInv, Limit
  PROVE  TSInv'
<1> USE SizesAssumption
    DEF TSInv, Limit, ThreadUnchanged, sharedVars, readVars, histVars
<1>1. TSTypeOK'
  BY DEF TSTypeOK, Steps
<1>2. PositionInv'
  BY DEF PositionInv
<1>3. LengthInv'
  BY DEF PositionInv, LengthInv
<1>4. LimitInv'
  BY DEF TSTypeOK, LimitInv
<1>5. SentWithinAvailable'
  BY DEF LimitInv, SentWithinAvailable
<1> QED
  BY <1>1, <1>2, <1>3, <1>4, <1>5

LEMMA CutTSInv ==
  ASSUME TSInv, Cut
  PROVE  TSInv'
<1> USE SizesAssumption
    DEF TSInv, Cut, ThreadUnchanged, sharedVars, readVars, histVars
<1>1. buffSize' \in Nat /\ buffSize' = (availableFileSize - totalReadSize) % DW
  BY DwordFacts DEF TSTypeOK
<1>2. ASSUME ~raced
      PROVE  \/ totalReadSize + buffSize' = availableFileSize /\ buffSize' <= CHUNK
             \/ totalReadSize + buffSize' >= DW
  <2> DEFINE x == availableFileSize - totalReadSize
  <2>1. /\ x \in Int /\ x < CHUNK /\ buffSize' = x % DW
        /\ totalReadSize + x = availableFileSize
        /\ totalReadSize \in Nat /\ availableFileSize \in Nat
    BY <1>1, <1>2 DEF TSTypeOK, LengthInv
  <2>2. DW \in Nat \ {0} /\ CHUNK <= DW - 1 /\ CHUNK \in Nat
    OBVIOUS
  <2> HIDE DEF x
  <2>3. CASE x < 0
    <3>1. x + DW <= x % DW
      BY <2>1, <2>2, <2>3, DwordWraps
    <3> QED
      BY <1>1, <2>1, <2>2, <3>1
  <2>4. CASE x >= 0
    <3>1. x \in 0 .. DW - 1
      BY <2>1, <2>2, <2>4
    <3>2. x % DW = x
      BY <2>1, <2>2, <3>1, DwordFacts, Zenon
    <3> QED
      BY <2>1, <3>2
  <2> QED
    BY <2>1, <2>3, <2>4
<1>3. TSTypeOK'
  BY <1>1 DEF TSTypeOK, Steps
<1>4. PositionInv'
  BY DEF PositionInv
<1>5. LengthInv'
  BY <1>1, <1>2 DEF TSTypeOK, LengthInv
<1>6. LimitInv'
  BY <1>1, <1>2 DEF TSTypeOK, LengthInv, LimitInv
<1>7. SentWithinAvailable'
  BY DEF LimitInv, SentWithinAvailable
<1> QED
  BY <1>3, <1>4, <1>5, <1>6, <1>7

LEMMA ReopenTSInv ==
  ASSUME TSInv, Reopen
  PROVE  TSInv'
<1> USE SizesAssumption
    DEF TSInv, Reopen, Reopens, ThreadUnchanged, sharedVars, readVars, histVars
<1>1. TSTypeOK'
  <2>1. quit' \in BOOLEAN
    <3>1. CASE quit' = TRUE
      BY <3>1
    <3>2. CASE quit' = (errCount' > MaxErr)
      <4>1. (errCount' > MaxErr) \in BOOLEAN
        BY DEF TSTypeOK
      <4> QED
        BY <3>2, <4>1, Zenon
    <3> QED
      BY <3>1, <3>2
  <2>2. pc' \in Steps /\ filePos' \in Nat /\ totalFileSize' \in Nat /\ errCount' \in Nat
    BY DEF TSTypeOK, Steps
  <2> QED
    BY <2>1, <2>2 DEF TSTypeOK
<1>2. PositionInv'
  BY DEF TSTypeOK, PositionInv
<1>3. LengthInv'
  BY DEF LengthInv
<1>4. LimitInv'
  BY DEF LimitInv
<1>5. SentWithinAvailable'
  BY DEF TSTypeOK, PositionInv, LimitInv, SentWithinAvailable
<1> QED
  BY <1>1, <1>2, <1>3, <1>4, <1>5

LEMMA EnterTSInv ==
  ASSUME TSInv, Enter
  PROVE  TSInv'
<1> USE SizesAssumption
    DEF TSInv, Enter, Reopens, ThreadUnchanged, sharedVars, readVars, histVars
<1>1. TSTypeOK'
  BY DEF TSTypeOK, Steps
<1>2. PositionInv'
  BY DEF PositionInv
<1>3. LengthInv'
  BY DEF TSTypeOK, PositionInv, LengthInv
<1>4. LimitInv'
  BY DEF TSTypeOK, LimitInv
<1>5. SentWithinAvailable'
  BY DEF LimitInv, SentWithinAvailable
<1> QED
  BY <1>1, <1>2, <1>3, <1>4, <1>5

LEMMA ReadTSInv ==
  ASSUME TSInv, Read
  PROVE  TSInv'
<1> USE SizesAssumption
    DEF TSInv, Read, ReadSize, ErrCount, LowerOf, HigherOf, ThreadUnchanged, sharedVars, readVars, histVars
<1>1. TSTypeOK'
  BY DEF TSTypeOK, Steps
<1>2. PositionInv'
  BY DEF TSTypeOK, PositionInv
<1>3. LengthInv'
  BY DEF LengthInv
<1>4. LimitInv'
  BY DEF TSTypeOK, PositionInv, LimitInv
<1>5. SentWithinAvailable'
  BY DEF LimitInv, SentWithinAvailable
<1> QED
  BY <1>1, <1>2, <1>3, <1>4, <1>5

LEMMA SendTSInv ==
  ASSUME TSInv, Send
  PROVE  TSInv'
<1> USE SizesAssumption
    DEF TSInv, Send, ThreadUnchanged, sharedVars, readVars, histVars
<1>1. TSTypeOK'
  BY DEF TSTypeOK, Steps
<1>2. PositionInv'
  BY DEF PositionInv
<1>3. LengthInv'
  BY DEF LengthInv
<1>4. LimitInv'
  BY DEF LimitInv
<1>5. SentWithinAvailable'
  BY DEF LimitInv, SentWithinAvailable
<1> QED
  BY <1>1, <1>2, <1>3, <1>4, <1>5

LEMMA PaceTSInv ==
  ASSUME TSInv, Pace
  PROVE  TSInv'
<1> USE SizesAssumption
    DEF TSInv, Pace, ThreadUnchanged, sharedVars, readVars, histVars
<1>1. TSTypeOK'
  BY DEF TSTypeOK, Steps
<1>2. PositionInv'
  BY DEF PositionInv
<1>3. LengthInv'
  BY DEF LengthInv
<1>4. LimitInv'
  BY DEF LimitInv
<1>5. SentWithinAvailable'
  BY DEF LimitInv, SentWithinAvailable
<1> QED
  BY <1>1, <1>2, <1>3, <1>4, <1>5

LEMMA CancelTSInv ==
  ASSUME TSInv, Cancel
  PROVE  TSInv'
<1> USE SizesAssumption
    DEF TSInv, Cancel, ThreadUnchanged, sharedVars, readVars, histVars
<1>1. TSTypeOK'
  BY DEF TSTypeOK, Steps
<1>2. PositionInv'
  BY DEF PositionInv
<1>3. LengthInv'
  BY DEF LengthInv
<1>4. LimitInv'
  BY DEF LimitInv
<1>5. SentWithinAvailable'
  BY DEF LimitInv, SentWithinAvailable
<1> QED
  BY <1>1, <1>2, <1>3, <1>4, <1>5

LEMMA StutterTSInv ==
  ASSUME TSInv, UNCHANGED tsVars
  PROVE  TSInv'
BY DEF TSInv, tsVars, sharedVars, readVars, histVars, TSTypeOK, PositionInv, LengthInv,
       LimitInv, SentWithinAvailable

-----------------------------------------------------------------------------
\* Every step preserves the invariant.
LEMMA StepTSInv ==
  ASSUME TSInv, [TSNext]_tsVars
  PROVE  TSInv'
<1>1. CASE Grow \/ StopReturns
  BY <1>1, GrowTSInv, StopReturnsTSInv
<1>2. CASE Owner
  <2>1. CASE \E a \in Available, mode, found \in BOOLEAN : OpenTimeShift(a, mode, found)
    BY <2>1, OpenTimeShiftTSInv
  <2>2. CASE StartTimeShift \/ StopTimeShift
    BY <2>2, StartTimeShiftTSInv, StopTimeShiftTSInv
  <2>3. CASE \E a \in Available : SetAvailableSize(a)
    BY <2>3, SetAvailableSizeTSInv
  <2>4. CASE \E p \in 0 .. MaxSize : SetFilePos(p)
    BY <2>4, SetFilePosTSInv
  <2> QED
    BY <1>2, <2>1, <2>2, <2>3, <2>4 DEF Owner
<1>3. CASE ReadThread
  BY <1>3, BeginTSInv, TopTSInv, TestTSInv, LimitTSInv, CutTSInv, ReopenTSInv,
     EnterTSInv, ReadTSInv, SendTSInv, PaceTSInv, CancelTSInv
     DEF ReadThread
<1>4. CASE UNCHANGED tsVars
  BY <1>4, StutterTSInv
<1> QED
  BY <1>1, <1>2, <1>3, <1>4 DEF TSNext

\* The invariant holds in every reachable state of the object and its thread.
THEOREM TSInvariance == TSSpec => []TSInv
<1>1. TSInit => TSInv
  BY InitTSInv
<1>2. TSInv /\ [TSNext]_tsVars => TSInv'
  BY StepTSInv
<1> QED
  BY <1>1, <1>2, PTL DEF TSSpec

\* In a file of less than 4 GiB a length that wrapped never reaches ReadFile, unless
\* the owner changes the limit between the reads of it (TimeShiftUtil.cpp:283-289).
THEOREM ReadsFit == TSSpec => []ReadFitsBuffer
<1>1. TSInv => ReadFitsBuffer
  BY SizesAssumption DEF TSInv, TSTypeOK, LengthInv, ReadFitsBuffer
<1> QED
  BY <1>1, TSInvariance, PTL

\* Nothing is sent that was not given free, in a file of less than 4 GiB in which
\* nobody seeks under the running thread (TimeShiftUtil.cpp:284-289, :418).
THEOREM SendsWithin == TSSpec => []SentWithinAvailable
<1>1. TSInv => SentWithinAvailable
  BY DEF TSInv
<1> QED
  BY <1>1, TSInvariance, PTL

=============================================================================
