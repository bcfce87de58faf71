--------------------------- MODULE WriteMainProofs ---------------------------
(***************************************************************************)
(* Proofs about WriteMain for every buffer size, preallocation, size of a  *)
(* call and number of recordings.                                          *)
(***************************************************************************)
EXTENDS WriteMain, TLAPS

-----------------------------------------------------------------------------
(* The inductive invariant.                                               *)

\* The data of a call that is not yet taken is what follows in the stream.
RestNext == rest = Stream(saved, Len(rest))

\* Where the caller is: inside Write the file is open, and line 207 is reached
\* with an empty buffer only.
CallInv ==
  /\ call \in {"flush", "rest"} => open
  /\ call = "rest" => writeBuff = <<>>

WMInv ==
  /\ WMTypeOK
  /\ SavedOnce
  /\ RestNext
  /\ CallInv
  /\ ServersFollowFile
  /\ ServersRunWithFile
  /\ ClosedFileCut

-----------------------------------------------------------------------------
(* Lemmas about sequences of bytes.                                        *)

LEMMA StreamType ==
  ASSUME NEW k \in Nat, NEW n \in Nat
  PROVE  /\ Stream(k, n) \in Seq(Nat)
         /\ Len(Stream(k, n)) = n
         /\ \A i \in 1..n : Stream(k, n)[i] = k + i
BY DEF Stream

\* Sequences of the same length with the same elements are equal.
LEMMA SameBytes ==
  ASSUME NEW s \in Seq(Nat), NEW t \in Seq(Nat), Len(s) = Len(t),
         \A i \in 1..Len(s) : s[i] = t[i]
  PROVE  s = t
OBVIOUS

LEMMA ConcatType ==
  ASSUME NEW s \in Seq(Nat), NEW t \in Seq(Nat)
  PROVE  /\ s \o t \in Seq(Nat)
         /\ Len(s \o t) = Len(s) + Len(t)
         /\ \A i \in 1..Len(s) : (s \o t)[i] = s[i]
         /\ \A i \in 1..Len(t) : (s \o t)[Len(s) + i] = t[i]
OBVIOUS

LEMMA ConcatAssociative ==
  ASSUME NEW s \in Seq(Nat), NEW t \in Seq(Nat), NEW u \in Seq(Nat)
  PROVE  (s \o t) \o u = s \o (t \o u)
OBVIOUS

LEMMA ConcatEmpty ==
  ASSUME NEW s \in Seq(Nat)
  PROVE  s \o <<>> = s
OBVIOUS

\* A sequence whose beginning is h and whose other elements are t.
LEMMA ConcatIs ==
  ASSUME NEW s \in Seq(Nat), NEW h \in Seq(Nat), NEW t \in Seq(Nat),
         Len(s) = Len(h) + Len(t),
         \A i \in 1..Len(h) : h[i] = s[i],
         \A i \in 1..Len(t) : t[i] = s[Len(h) + i]
  PROVE  h \o t = s
<1> DEFINE u == h \o t
<1>1. /\ u \in Seq(Nat)
      /\ Len(u) = Len(h) + Len(t)
      /\ \A i \in 1..Len(h) : u[i] = h[i]
      /\ \A i \in 1..Len(t) : u[Len(h) + i] = t[i]
  BY ConcatType, Zenon
<1> HIDE DEF u
<1>2. ASSUME NEW i \in 1..Len(s)
      PROVE  u[i] = s[i]
  <2> i \in Nat /\ Len(h) \in Nat /\ Len(t) \in Nat
    OBVIOUS
  <2>1. CASE i <= Len(h)
    BY <1>1, <2>1
  <2>2. CASE Len(h) < i
    <3>1. i - Len(h) \in 1..Len(t) /\ Len(h) + (i - Len(h)) = i
      BY <2>2
    <3>2. u[Len(h) + (i - Len(h))] = s[Len(h) + (i - Len(h))]
      BY <1>1, <3>1
    <3> QED
      BY <3>1, <3>2
  <2> QED
    BY <2>1, <2>2
<1>3. u = s
  BY <1>1, <1>2, SameBytes
<1> QED
  BY <1>3 DEF u

\* A part of the stream and what follows it are one part.
LEMMA StreamConcat ==
  ASSUME NEW k \in Nat, NEW a \in Nat, NEW b \in Nat
  PROVE  Stream(k, a) \o Stream(k + a, b) = Stream(k, a + b)
<1> DEFINE h == Stream(k, a)
           t == Stream(k + a, b)
           s == Stream(k, a + b)
<1> k + a \in Nat /\ a + b \in Nat
  OBVIOUS
<1>1. h \in Seq(Nat) /\ Len(h) = a /\ \A i \in 1..a : h[i] = k + i
  BY StreamType
<1>2. t \in Seq(Nat) /\ Len(t) = b /\ \A i \in 1..b : t[i] = k + a + i
  BY StreamType
<1>3. s \in Seq(Nat) /\ Len(s) = a + b /\ \A i \in 1..(a + b) : s[i] = k + i
  BY StreamType
<1> HIDE DEF h, t, s
<1>4. \A i \in 1..Len(t) : t[i] = s[Len(h) + i]
  <2> SUFFICES ASSUME NEW i \in 1..b
               PROVE  t[i] = s[a + i]
    BY <1>1, <1>2
  <2>1. a + i \in 1..(a + b)
    OBVIOUS
  <2> QED
    BY <1>2, <1>3, <2>1
<1>5. \A i \in 1..Len(h) : h[i] = s[i]
  BY <1>1, <1>3
<1>6. h \o t = s
  BY <1>1, <1>2, <1>3, <1>4, <1>5, ConcatIs
<1> QED
  BY <1>6, Zenon DEF h, t, s

\* The stream so far and what follows it.
LEMMA StreamGrows ==
  ASSUME NEW k \in Nat, NEW n \in Nat
  PROVE  Stream(0, k) \o Stream(k, n) = Stream(0, k + n)
<1>1. 0 \in Nat /\ 0 + k = k
  OBVIOUS
<1>2. Stream(0, k) \o Stream(0 + k, n) = Stream(0, k + n)
  BY <1>1, StreamConcat, Zenon
<1> QED
  BY <1>1, <1>2, Zenon

\* The beginning of a part of the stream is a part of the stream.
LEMMA StreamHead ==
  ASSUME NEW k \in Nat, NEW m \in Nat, NEW n \in 0..m
  PROVE  SubSeq(Stream(k, m), 1, n) = Stream(k, n)
BY DEF Stream

\* A sequence is its first n elements and the others.
LEMMA Split ==
  ASSUME NEW s \in Seq(Nat), NEW n \in 0..Len(s)
  PROVE  /\ SubSeq(s, 1, n) \in Seq(Nat)
         /\ Len(SubSeq(s, 1, n)) = n
         /\ SubSeq(s, n + 1, Len(s)) \in Seq(Nat)
         /\ Len(SubSeq(s, n + 1, Len(s))) = Len(s) - n
         /\ SubSeq(s, 1, n) \o SubSeq(s, n + 1, Len(s)) = s
<1> DEFINE h == SubSeq(s, 1, n)
           t == SubSeq(s, n + 1, Len(s))
<1>1. /\ h \in Seq(Nat)
      /\ Len(h) = n
      /\ \A i \in 1..n : h[i] = s[i]
  OBVIOUS
<1>2. /\ t \in Seq(Nat)
      /\ Len(t) = Len(s) - n
      /\ \A i \in 1..(Len(s) - n) : t[i] = s[n + i]
  <2>1. t \in Seq(Nat)
    OBVIOUS
  <2>2. Len(t) = Len(s) - n
    OBVIOUS
  <2>3. ASSUME NEW i \in 1..(Len(s) - n)
        PROVE  t[i] = s[n + i]
    OBVIOUS
  <2> QED
    BY <2>1, <2>2, <2>3
<1> HIDE DEF h, t
<1>3. Len(s) = Len(h) + Len(t)
  BY <1>1, <1>2
<1>4. /\ \A i \in 1..Len(h) : h[i] = s[i]
      /\ \A i \in 1..Len(t) : t[i] = s[Len(h) + i]
  BY <1>1, <1>2
<1>5. h \o t = s
  BY <1>1, <1>2, <1>3, <1>4, ConcatIs, Zenon
<1> QED
  BY <1>1, <1>2, <1>5, Zenon DEF h, t

\* Bytes that move from the head of the buffer to the end of the file stay in
\* their place in the stream.
LEMMA MoveBytes ==
  ASSUME NEW f \in Seq(Nat), NEW r \in Seq(Nat), NEW b \in Seq(Nat),
         NEW n \in 0..Len(b)
  PROVE  f \o (r \o SubSeq(b, 1, n)) \o SubSeq(b, n + 1, Len(b)) = f \o r \o b
<1> DEFINE h == SubSeq(b, 1, n)
           t == SubSeq(b, n + 1, Len(b))
<1>1. h \in Seq(Nat) /\ t \in Seq(Nat) /\ h \o t = b
  BY Split, ZenonT(40)
<1> HIDE DEF h, t
<1>2. f \o (r \o h) = (f \o r) \o h
  BY <1>1, ConcatAssociative, ZenonT(40)
<1>3. f \o r \in Seq(Nat)
  BY ConcatType, Zenon
<1>4. ((f \o r) \o h) \o t = (f \o r) \o (h \o t)
  BY <1>1, <1>3, ConcatAssociative, ZenonT(40)
<1>5. f \o (r \o h) \o t = f \o r \o b
  BY <1>1, <1>2, <1>4, Zenon
<1> QED
  BY <1>5, Zenon DEF h, t

\* More bytes of the stream, taken to the end of the buffer.
LEMMA TakeBytes ==
  ASSUME NEW f \in Seq(Nat), NEW b \in Seq(Nat),
         NEW k \in Nat, NEW n \in Nat, f \o b = Stream(0, k)
  PROVE  f \o (b \o Stream(k, n)) = Stream(0, k + n)
<1>1. Stream(k, n) \in Seq(Nat)
  BY StreamType
<1>2. (f \o b) \o Stream(k, n) = f \o (b \o Stream(k, n))
  BY <1>1, ConcatAssociative
<1>3. Stream(0, k) \o Stream(k, n) = Stream(0, k + n)
  BY StreamGrows, Zenon
<1> QED
  BY <1>2, <1>3, Zenon

\* More bytes of the stream, written to the end of the file past an empty
\* buffer.
LEMMA WriteBytes ==
  ASSUME NEW f \in Seq(Nat), NEW r \in Seq(Nat),
         NEW k \in Nat, NEW n \in Nat, f \o r \o <<>> = Stream(0, k)
  PROVE  f \o (r \o Stream(k, n)) \o <<>> = Stream(0, k + n)
<1>1. Stream(k, n) \in Seq(Nat)
  BY StreamType
<1>2. f \o r \in Seq(Nat) /\ r \o Stream(k, n) \in Seq(Nat)
  BY <1>1, ConcatType
<1>3. f \o (r \o Stream(k, n)) \in Seq(Nat)
  BY <1>2, ConcatType
<1>4. (f \o r) \o Stream(k, n) = f \o (r \o Stream(k, n))
  BY <1>1, ConcatAssociative
<1>5. /\ (f \o r) \o <<>> = f \o r
      /\ f \o (r \o Stream(k, n)) \o <<>> = f \o (r \o Stream(k, n))
  BY <1>2, <1>3, ConcatEmpty
<1>6. Stream(0, k) \o Stream(k, n) = Stream(0, k + n)
  BY StreamGrows, Zenon
<1> QED
  BY <1>4, <1>5, <1>6, Zenon

-----------------------------------------------------------------------------
(* The invariant.                                                          *)

LEMMA InitWMInv == WMInit => WMInv
<1> SUFFICES ASSUME WMInit
             PROVE  WMInv
  OBVIOUS
<1> USE DEF WMInit
<1>1. WMTypeOK
  <2>1. /\ \A S : <<>> \in Seq(S)
        /\ fileSize \in Nat
        /\ saved \in Nat
        /\ Len(writeBuff) <= writeBuffSize
    BY WriteBuffAssumption
  <2> QED
    BY <2>1 DEF WMTypeOK, WriteCalls
<1>2. SavedOnce
  BY DEF SavedOnce, Stream
<1>3. RestNext
  BY DEF RestNext, Stream
<1> QED
  BY <1>1, <1>2, <1>3
     DEF WMInv, CallInv, ServersFollowFile, ServersRunWithFile, ClosedFileCut

\* Written bytes of the buffer stay in their place in the stream.
LEMMA BuffMoves ==
  ASSUME WMInv, NEW n \in 0..Len(writeBuff)
  PROVE  kept \o (recorded \o SubSeq(writeBuff, 1, n))
              \o SubSeq(writeBuff, n + 1, Len(writeBuff)) = Stream(0, saved)
<1>1. /\ kept \in Seq(Nat) /\ recorded \in Seq(Nat) /\ writeBuff \in Seq(Nat)
      /\ kept \o recorded \o writeBuff = Stream(0, saved)
  BY DEF WMInv, WMTypeOK, SavedOnce
<1>2. kept \o (recorded \o SubSeq(writeBuff, 1, n))
           \o SubSeq(writeBuff, n + 1, Len(writeBuff))
      = kept \o recorded \o writeBuff
  BY <1>1, MoveBytes, ZenonT(40)
<1> QED
  BY <1>1, <1>2, Zenon

\* Stop keeps what does not depend on the caller's place.
LEMMA StopKeeps ==
  ASSUME WMInv, NEW n \in 0..Len(writeBuff), Stop(n), kept' = kept
  PROVE  /\ recorded' \in Seq(Nat)
         /\ fileSize' = Len(recorded')
         /\ writeBuff' \in Seq(Nat)
         /\ Len(writeBuff') <= writeBuffSize
         /\ appended' = recorded'
         /\ open' = FALSE
         /\ server' \in {"none", "stopped"}
         /\ kept' \o recorded' \o writeBuff' = Stream(0, saved)
<1> USE DEF WMInv, WMTypeOK
<1>1. open' = FALSE /\ server' \in {"none", "stopped"}
  BY DEF Stop, StoppedServer
<1>2. CASE open
  <2>1. /\ recorded' = recorded \o SubSeq(writeBuff, 1, n)
        /\ fileSize' = Len(recorded')
        /\ appended' = appended \o SubSeq(writeBuff, 1, n)
        /\ writeBuff' = SubSeq(writeBuff, n + 1, Len(writeBuff))
    BY <1>2 DEF Stop
  <2>2. /\ SubSeq(writeBuff, 1, n) \in Seq(Nat)
        /\ writeBuff' \in Seq(Nat)
        /\ Len(writeBuff') = Len(writeBuff) - n
    BY <2>1, Split
  <2>3. recorded' \in Seq(Nat)
    BY <2>1, <2>2, ConcatType
  <2>4. Len(writeBuff') <= writeBuffSize
    BY <2>2, WriteBuffAssumption
  <2>5. kept \o recorded' \o writeBuff' = Stream(0, saved)
    BY <2>1, BuffMoves, Zenon
  <2>6. kept' \o recorded' \o writeBuff' = Stream(0, saved)
    BY <2>5, Zenon
  <2> QED
    BY <1>1, <2>1, <2>2, <2>3, <2>4, <2>6 DEF ServersFollowFile
<1>3. CASE ~open
  <2>1. UNCHANGED <<fileVars, appended, writeBuff>>
    BY <1>3 DEF Stop
  <2> QED
    BY <1>1, <1>3, <2>1 DEF fileVars, SavedOnce, ServersFollowFile, ClosedFileCut
<1> QED
  BY <1>2, <1>3

\* Every entry point that stops.
LEMMA StopWMInv ==
  ASSUME WMInv, StopSave \/ StartSave \/ DeleteCtrl
  PROVE  WMInv'
<1>1. PICK n \in 0..Len(writeBuff) : Stop(n)
  BY DEF StopSave, StartSave, DeleteCtrl
<1>2. /\ call' \in {"idle", "start", "deleted"}
      /\ UNCHANGED <<rest, saved, kept, told>>
  BY DEF StopSave, StartSave, DeleteCtrl, hostVars
<1>3. /\ recorded' \in Seq(Nat)
      /\ fileSize' = Len(recorded')
      /\ writeBuff' \in Seq(Nat)
      /\ Len(writeBuff') <= writeBuffSize
      /\ appended' = recorded'
      /\ open' = FALSE
      /\ server' \in {"none", "stopped"}
      /\ kept' \o recorded' \o writeBuff' = Stream(0, saved)
  BY <1>1, <1>2, StopKeeps
<1>4. WMTypeOK'
  <2>1. fileSize' \in Nat
    BY <1>3
  <2> QED
    BY <1>2, <1>3, <2>1 DEF WMInv, WMTypeOK, WriteCalls
<1>5. SavedOnce'
  BY <1>2, <1>3 DEF SavedOnce, Stream
<1>6. RestNext'
  BY <1>2 DEF WMInv, RestNext, Stream
<1> QED
  BY <1>2, <1>3, <1>4, <1>5, <1>6
     DEF WMInv, CallInv, ServersFollowFile, ServersRunWithFile, ClosedFileCut

LEMMA StartCreateWMInv ==
  ASSUME WMInv, StartCreate
  PROVE  WMInv'
<1> USE DEF StartCreate
<1>1. WMTypeOK'
  <2>1. /\ kept' \in Seq(Nat)
        /\ <<>> \in Seq(Nat)
    BY ConcatType DEF WMInv, WMTypeOK
  <2>2. fileSize' \in Nat
    BY CreateSizeAssumption
  <2> QED
    BY <2>1, <2>2 DEF WMInv, WMTypeOK, WriteCalls
<1>2. SavedOnce'
  <2>1. kept \o recorded \in Seq(Nat)
    BY ConcatType DEF WMInv, WMTypeOK
  <2>2. (kept \o recorded) \o <<>> = kept \o recorded
    BY <2>1, ConcatEmpty
  <2> QED
    BY <2>2 DEF WMInv, SavedOnce, Stream
<1>3. RestNext'
  BY DEF WMInv, RestNext, Stream
<1> QED
  BY <1>1, <1>2, <1>3
     DEF WMInv, CallInv, ServersFollowFile, ServersRunWithFile, ClosedFileCut

LEMMA StartFailsWMInv ==
  ASSUME WMInv, StartFails
  PROVE  WMInv'
BY Zenon DEF StartFails, WMInv, WMTypeOK, WriteCalls, SavedOnce, RestNext, Stream,
       CallInv, ServersFollowFile, ServersRunWithFile, ClosedFileCut, fileVars

LEMMA WriteErrorWMInv ==
  ASSUME WMInv, WriteError
  PROVE  WMInv'
<1> USE DEF WriteError, TsSetEndOfFile
<1>1. WMTypeOK'
  <2>1. fileSize' \in Nat /\ <<>> \in Seq(Nat)
    BY DEF WMInv, WMTypeOK
  <2> QED
    BY <2>1 DEF WMInv, WMTypeOK, WriteCalls
<1>2. SavedOnce'
  BY DEF WMInv, SavedOnce, Stream
<1>3. RestNext'
  BY DEF RestNext, Stream
<1> QED
  BY <1>1, <1>2, <1>3
     DEF WMInv, CallInv, ServersFollowFile, ServersRunWithFile, ClosedFileCut

\* A WriteFile that succeeds, followed by Append.
LEMMA PutKeeps ==
  ASSUME WMInv, NEW d \in Seq(Nat), NEW n \in 0..Len(d), Put(d, n)
  PROVE  /\ recorded' = recorded \o SubSeq(d, 1, n)
         /\ recorded' \in Seq(Nat)
         /\ fileSize' \in Nat
         /\ appended' = recorded'
<1> USE DEF WMInv, WMTypeOK, Put, TsWrite
<1>1. SubSeq(d, 1, n) \in Seq(Nat) /\ Len(SubSeq(d, 1, n)) = n
  BY Split
<1>2. recorded' = recorded \o SubSeq(d, 1, n) /\ recorded' \in Seq(Nat)
  BY <1>1, ConcatType
<1>3. fileSize' \in Nat
  BY <1>1
<1> QED
  BY <1>2, <1>3 DEF ServersFollowFile

LEMMA FlushWMInv ==
  ASSUME WMInv, NEW n \in 0..Len(writeBuff), Flush(n)
  PROVE  WMInv'
<1>1. /\ call = "flush"
      /\ open
      /\ Put(writeBuff, n)
      /\ writeBuff' = SubSeq(writeBuff, n + 1, Len(writeBuff))
      /\ \/ call' = "idle" /\ rest' = <<>>
         \/ call' = "rest" /\ rest' = rest /\ n = Len(writeBuff)
      /\ UNCHANGED <<open, server, saved, kept, told>>
  <2>1. ~(n < Len(writeBuff)) => n = Len(writeBuff)
    BY DEF WMInv, WMTypeOK
  <2> QED
    BY <2>1 DEF WMInv, CallInv, Flush, hostVars
<1>2. /\ recorded' = recorded \o SubSeq(writeBuff, 1, n)
      /\ recorded' \in Seq(Nat)
      /\ fileSize' \in Nat
      /\ appended' = recorded'
  BY <1>1, PutKeeps DEF WMInv, WMTypeOK
<1>3. writeBuff' \in Seq(Nat) /\ Len(writeBuff') = Len(writeBuff) - n
  BY <1>1, Split DEF WMInv, WMTypeOK
<1>4. WMTypeOK'
  <2>1. Len(writeBuff') <= writeBuffSize /\ <<>> \in Seq(Nat)
    BY <1>3, WriteBuffAssumption DEF WMInv, WMTypeOK
  <2> QED
    BY <1>1, <1>2, <1>3, <2>1 DEF WMInv, WMTypeOK, WriteCalls
<1>5. SavedOnce'
  <2>1. kept' \o recorded' \o writeBuff' = Stream(0, saved')
    BY <1>1, <1>2, BuffMoves, Zenon
  <2> QED
    BY <2>1 DEF SavedOnce, Stream
<1>6. RestNext'
  <2>1. CASE rest' = <<>>
    BY <2>1 DEF RestNext, Stream
  <2>2. CASE rest' = rest
    BY <1>1, <2>2 DEF WMInv, RestNext, Stream
  <2> QED
    BY <1>1, <2>1, <2>2
<1>7. CallInv'
  <2>1. n = Len(writeBuff) => writeBuff' = <<>>
    BY <1>3
  <2> QED
    BY <1>1, <2>1 DEF CallInv
<1> QED
  BY <1>1, <1>2, <1>4, <1>5, <1>6, <1>7
     DEF WMInv, ServersFollowFile, ServersRunWithFile, ClosedFileCut

LEMMA WriteThroughWMInv ==
  ASSUME WMInv, NEW n \in 0..Len(rest), WriteThrough(n)
  PROVE  WMInv'
<1>1. /\ open
      /\ writeBuff = <<>>
      /\ Put(rest, n)
      /\ saved' = saved + n
      /\ call' = "idle"
      /\ rest' = <<>>
      /\ UNCHANGED <<open, writeBuff, server, kept, told>>
  BY DEF WMInv, CallInv, WriteThrough, hostVars
<1>2. /\ recorded' = recorded \o SubSeq(rest, 1, n)
      /\ recorded' \in Seq(Nat)
      /\ fileSize' \in Nat
      /\ appended' = recorded'
  BY <1>1, PutKeeps DEF WMInv, WMTypeOK
<1>3. WMTypeOK'
  <2>1. saved' \in Nat /\ <<>> \in Seq(Nat)
    BY <1>1 DEF WMInv, WMTypeOK
  <2> QED
    BY <1>1, <1>2, <2>1 DEF WMInv, WMTypeOK, WriteCalls
<1>4. SavedOnce'
  <2>1. /\ kept \in Seq(Nat) /\ recorded \in Seq(Nat)
        /\ saved \in Nat /\ n \in Nat
    BY DEF WMInv, WMTypeOK
  <2>2. SubSeq(rest, 1, n) = Stream(saved, n)
    BY <2>1, StreamHead DEF WMInv, WMTypeOK, RestNext
  <2>3. kept \o recorded \o <<>> = Stream(0, saved)
    BY <1>1 DEF WMInv, SavedOnce
  <2>4. kept \o (recorded \o Stream(saved, n)) \o <<>> = Stream(0, saved + n)
    BY <2>1, <2>3, WriteBytes
  <2>5. kept \o recorded' \o <<>> = Stream(0, saved')
    BY <1>1, <1>2, <2>2, <2>4, Zenon
  <2> QED
    BY <1>1, <2>5 DEF SavedOnce, Stream
<1>5. RestNext'
  BY <1>1 DEF RestNext, Stream
<1> QED
  BY <1>1, <1>2, <1>3, <1>4, <1>5
     DEF WMInv, CallInv, ServersFollowFile, ServersRunWithFile, ClosedFileCut

LEMMA BufferWMInv ==
  ASSUME WMInv, Buffer
  PROVE  WMInv'
<1>1. /\ open
      /\ writeBuff = <<>>
      /\ Len(rest) <= writeBuffSize
      /\ writeBuff' = writeBuff \o rest
      /\ saved' = saved + Len(rest)
      /\ call' = "idle"
      /\ rest' = <<>>
      /\ UNCHANGED <<recorded, fileSize, open, server, appended, kept, told>>
  <2>1. ~TooLarge => Len(rest) <= writeBuffSize
    BY WriteBuffAssumption DEF TooLarge, WMInv, WMTypeOK
  <2> QED
    BY <2>1 DEF WMInv, CallInv, Buffer, hostVars, fileVars
<1>2. WMTypeOK'
  <2>1. /\ writeBuff' \in Seq(Nat)
        /\ Len(writeBuff') <= writeBuffSize
        /\ saved' \in Nat
        /\ <<>> \in Seq(Nat)
    BY <1>1, WriteBuffAssumption DEF WMInv, WMTypeOK
  <2> QED
    BY <1>1, <2>1 DEF WMInv, WMTypeOK, WriteCalls
<1>3. SavedOnce'
  <2>1. kept \o recorded \o (writeBuff \o rest) = Stream(0, saved + Len(rest))
    <3> DEFINE m == Len(rest)
    <3>1. m \in Nat /\ rest = Stream(saved, m)
      BY DEF WMInv, WMTypeOK, RestNext
    <3> HIDE DEF m
    <3> DEFINE f == kept \o recorded
    <3>2. f \in Seq(Nat)
      BY ConcatType DEF WMInv, WMTypeOK
    <3> HIDE DEF f
    <3>3. f \o (writeBuff \o Stream(saved, m)) = Stream(0, saved + m)
      <4>1. writeBuff \in Seq(Nat) /\ saved \in Nat /\ f \o writeBuff = Stream(0, saved)
        BY Zenon DEF WMInv, WMTypeOK, SavedOnce, f
      <4> QED
        BY <3>1, <3>2, <4>1, TakeBytes
    <3>4. f \o (writeBuff \o rest) = Stream(0, saved + m)
      BY <3>1, <3>3, Zenon
    <3> QED
      BY <3>4, Zenon DEF f, m
  <2> QED
    BY <1>1, <2>1 DEF SavedOnce, Stream
<1>4. RestNext'
  BY <1>1 DEF RestNext, Stream
<1> QED
  BY <1>1, <1>2, <1>3, <1>4
     DEF WMInv, CallInv, ServersFollowFile, ServersRunWithFile, ClosedFileCut

LEMMA AddTSBuffWMInv ==
  ASSUME WMInv, NEW size \in 1..MaxSize, AddTSBuff(size)
  PROVE  WMInv'
<1> DEFINE take == IF writeBuff = <<>> THEN 0
                   ELSE IF size < Room THEN size ELSE Room
           left == Stream(saved + take, size - take)
<1>1. /\ saved \in Nat /\ size \in Nat
      /\ take \in Nat /\ take <= size
      /\ Len(writeBuff) + take <= writeBuffSize
  <2>1. Room = writeBuffSize - Len(writeBuff) /\ Room \in Nat
    BY WriteBuffAssumption DEF WMInv, WMTypeOK, Room
  <2>2. size \in Nat /\ Len(writeBuff) \in Nat /\ saved \in Nat
    BY WriteBoundsAssumption DEF WMInv, WMTypeOK
  <2>3. Len(writeBuff) <= writeBuffSize
    BY DEF WMInv, WMTypeOK
  <2> QED
    BY <2>1, <2>2, <2>3, WriteBuffAssumption
<1>2. /\ open
      /\ saved' = saved + take
      /\ writeBuff' = writeBuff \o Stream(saved, take)
      /\ \/ writeBuff = <<>> /\ call' = "rest" /\ rest' = left
         \/ call' = "flush" /\ rest' = left
         \/ call' = "idle" /\ rest' = <<>>
      /\ UNCHANGED <<recorded, fileSize, open, server, appended, kept, told>>
  BY Zenon DEF AddTSBuff, fileVars, hostVars
<1>3. writeBuff = <<>> => take = 0
  OBVIOUS
<1> HIDE DEF take
<1>4. left \in Seq(Nat) /\ Len(left) = size - take
  <2>1. saved + take \in Nat /\ size - take \in Nat
    BY <1>1
  <2> QED
    BY <2>1, StreamType
<1>5. writeBuff' \in Seq(Nat) /\ Len(writeBuff') = Len(writeBuff) + take
  <2>1. Stream(saved, take) \in Seq(Nat) /\ Len(Stream(saved, take)) = take
    BY <1>1, StreamType
  <2>2. writeBuff \in Seq(Nat)
    BY DEF WMInv, WMTypeOK
  <2> QED
    BY <1>2, <2>1, <2>2, ConcatType
<1>6. WMTypeOK'
  <2>1. /\ saved' \in Nat
        /\ Len(writeBuff') <= writeBuffSize
        /\ <<>> \in Seq(Nat)
    BY <1>1, <1>2, <1>5
  <2>2. rest' \in Seq(Nat)
    BY <1>2, <1>4, <2>1
  <2>3. call' \in WriteCalls
    BY <1>2 DEF WriteCalls
  <2> QED
    BY <1>2, <1>5, <2>1, <2>2, <2>3 DEF WMInv, WMTypeOK
<1>7. SavedOnce'
  <2> DEFINE f == kept \o recorded
  <2>1. f \in Seq(Nat)
    BY ConcatType DEF WMInv, WMTypeOK
  <2> HIDE DEF f
  <2>2. writeBuff \in Seq(Nat) /\ f \o writeBuff = Stream(0, saved)
    BY Zenon DEF WMInv, WMTypeOK, SavedOnce, f
  <2>3. f \o (writeBuff \o Stream(saved, take)) = Stream(0, saved + take)
    BY <1>1, <2>1, <2>2, TakeBytes
  <2>4. kept' \o recorded' \o writeBuff' = Stream(0, saved')
    BY <1>2, <2>3, Zenon DEF f
  <2> QED
    BY <2>4 DEF SavedOnce, Stream
<1>8. RestNext'
  <2>1. CASE rest' = left
    BY <1>2, <1>4, <2>1 DEF RestNext, Stream
  <2>2. CASE rest' = <<>>
    BY <2>2 DEF RestNext, Stream
  <2> QED
    BY <1>2, <2>1, <2>2
<1>9. CallInv'
  <2>1. writeBuff = <<>> => writeBuff' = <<>>
    BY <1>3, <1>5
  <2> QED
    BY <1>2, <2>1 DEF CallInv
<1> QED
  BY <1>2, <1>6, <1>7, <1>8, <1>9
     DEF WMInv, ServersFollowFile, ServersRunWithFile, ClosedFileCut

LEMMA StutterWMInv ==
  ASSUME WMInv, UNCHANGED wmVars
  PROVE  WMInv'
BY DEF wmVars, WMInv, WMTypeOK, SavedOnce, RestNext, Stream, CallInv,
       ServersFollowFile, ServersRunWithFile, ClosedFileCut

\* Every step preserves the invariant.
LEMMA StepWMInv ==
  ASSUME WMInv, [WMNext]_wmVars
  PROVE  WMInv'
<1>1. CASE StopSave \/ StartSave \/ DeleteCtrl
  BY <1>1, StopWMInv
<1>2. CASE StartCreate
  BY <1>2, StartCreateWMInv
<1>3. CASE StartFails
  BY <1>3, StartFailsWMInv
<1>4. CASE \E size \in 1..MaxSize : AddTSBuff(size)
  BY <1>4, AddTSBuffWMInv
<1>5. CASE \E n \in 0..Len(writeBuff) : Flush(n)
  BY <1>5, FlushWMInv
<1>6. CASE \E n \in 0..Len(rest) : WriteThrough(n)
  BY <1>6, WriteThroughWMInv
<1>7. CASE Buffer
  BY <1>7, BufferWMInv
<1>8. CASE WriteError
  BY <1>8, WriteErrorWMInv
<1>9. CASE UNCHANGED wmVars
  BY <1>9, StutterWMInv
<1> QED
  BY <1>1, <1>2, <1>3, <1>4, <1>5, <1>6, <1>7, <1>8, <1>9 DEF WMNext

\* The invariant holds in every reachable state of CWriteMain.
THEOREM WMInvariance == WMSpec => []WMInv
<1>1. WMInit => WMInv
  BY InitWMInv
<1>2. WMInv /\ [WMNext]_wmVars => WMInv'
  BY StepWMInv
<1> QED
  BY <1>1, <1>2, PTL DEF WMSpec

-----------------------------------------------------------------------------
(* The properties.                                                         *)

\* Types, and the buffer within its size (WriteMain.cpp:176).
THEOREM WMTypeCorrect == WMSpec => []WMTypeOK
<1>1. WMInv => WMTypeOK
  BY DEF WMInv
<1> QED
  BY <1>1, WMInvariance, PTL

\* No byte that was reported as saved is lost, repeated or misplaced between
\* the files and the buffer, whatever fails (WriteMain.cpp:134, :175).
THEOREM EverySavedByteOnce == WMSpec => []SavedOnce
<1>1. WMInv => SavedOnce
  BY DEF WMInv
<1> QED
  BY <1>1, WMInvariance, PTL

\* The servers are given what the file holds, through short and failed writes, so
\* that positions agree.
THEOREM FileAndServers == WMSpec => []ServersFollowFile
<1>1. WMInv => ServersFollowFile
  BY DEF WMInv
<1> QED
  BY <1>1, WMInvariance, PTL

\* Servers run exactly while the file is open, whatever fails (WriteMain.cpp:120,
\* :185, :212).
THEOREM ServersEndWithFile == WMSpec => []ServersRunWithFile
<1>1. WMInv => ServersRunWithFile
  BY DEF WMInv
<1> QED
  BY <1>1, WMInvariance, PTL

\* No closed file keeps a preallocated tail, on any way to close it.
THEOREM FilesEndWithData == WMSpec => []ClosedFileCut
<1>1. WMInv => ClosedFileCut
  BY DEF WMInv
<1> QED
  BY <1>1, WMInvariance, PTL

=============================================================================
