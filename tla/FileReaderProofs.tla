-------------------------- MODULE FileReaderProofs --------------------------
(***************************************************************************)
(* Proofs about FileReader for every buffer size, read size,               *)
(* preallocation and chunking.                                             *)
(***************************************************************************)
EXTENDS FileReader, FiniteSetTheorems, WellFoundedInduction, TLAPS

-----------------------------------------------------------------------------
(* The inductive invariant.                                               *)

\* The recorder: a chunk that is in the file and not appended is its tail.
RecorderInv ==
  /\ Len(recorded) <= fileSize
  /\ fpos_write + Len(pending) = Len(recorded)
  /\ \A j \in 1..Len(pending) : pending[j] = recorded[fpos_write + j]
  /\ recorder # "recording" => pending = <<>>
  /\ recorder = "stopped" => fileSize = Len(recorded)
  /\ recorder = "failed" => call \in {"exit", "quit"}
  /\ TS_FinishWrite => recorder # "recording"

\* The blocks lie in order in the part of the file that was appended, and hold
\* what it holds.
QueueInv ==
  /\ \A i \in 1..Len(que) : \A j \in 1..Len(que[i].data) :
       que[i].data[j] = recorded[que[i].fpos + j]
  /\ \A i \in 1..Len(que) : /\ 0 < Len(que[i].data)
                           /\ que[i].fpos + Len(que[i].data) <= fpos_write
  /\ \A i, k \in 1..Len(que) :
       i < k => que[i].fpos + Len(que[i].data) <= que[k].fpos

\* The sender: what it delivered and what it holds are the file's bytes from
\* the first one on; until it is told that the recording is over it stays
\* below the buffer and within what was appended.
SenderInv ==
  /\ call # "quit" => fpos_read = Len(delivered)
  /\ call # "data" => ret_data = <<>>
  /\ \A j \in 1..Len(delivered) : delivered[j] = TsByte(j)
  /\ \A j \in 1..Len(ret_data) : ret_data[j] = TsByte(fpos_read + j)
  /\ recorder # "failed" => /\ Len(delivered) <= fileSize
                            /\ fpos_read + Len(ret_data) <= fileSize
  /\ ~TS_FinishWrite =>
       /\ Len(delivered) <= fpos_write
       /\ fpos_read + Len(ret_data) <= fpos_write
       /\ \A i \in 1..Len(que) : fpos_read + Len(ret_data) <= que[i].fpos

\* Get_fromFile: the limit it was given keeps it below the buffer.
FileReadInv ==
  call = "file" =>
    IF TS_FinishWrite THEN readable_fpos = -1
    ELSE /\ fpos_read <= readable_fpos
         /\ readable_fpos < fpos_write
         /\ \A i \in 1..Len(que) : readable_fpos < que[i].fpos

\* The end of the stream is seen only on the complete file.
EofInv ==
  fp = "eof" =>
    /\ TS_FinishWrite
    /\ (recorder # "failed" /\ call # "quit")
          => fpos_read + Len(ret_data) = fileSize

IInv == TypeOK /\ RecorderInv /\ QueueInv /\ SenderInv /\ FileReadInv /\ EofInv

-----------------------------------------------------------------------------
(* Lemmas about the queue of blocks.                                       *)

\* A nonempty set of naturals has a smallest element.
LEMMA Smallest ==
  ASSUME NEW S, S \subseteq Nat, S # {}
  PROVE  \E m \in S : \A k \in S : m <= k
<1>1. PICK x \in S : \A y \in S : ~(<<y, x>> \in OpToRel(<, Nat))
  BY NatLessThanWellFounded, WFMin
<1>2. \A y, z \in Nat : y < z => <<y, z>> \in OpToRel(<, Nat)
  BY Zenon DEF OpToRel
<1>3. \A y \in S : ~(y < x)
  BY <1>1, <1>2
<1> QED
  BY <1>3

\* A nonempty set of naturals has its Min.
LEMMA MinInSet ==
  ASSUME NEW S, S \subseteq Nat, S # {}
  PROVE  Min(S) \in S
BY Smallest DEF Min

\* The blocks of a queue, typed.
LEMMA BlockTypes ==
  ASSUME NEW q \in Seq(Block), NEW i \in 1..Len(q)
  PROVE  /\ q[i] \in Block
         /\ q[i].fpos \in Nat
         /\ q[i].data \in Seq(Bytes)
         /\ Len(q[i].data) \in Nat
<1>1. q[i] \in Block
  OBVIOUS
<1> QED
  BY <1>1 DEF Block

\* Drop(q, k) is what stands behind the first k blocks.
LEMMA DropBlocks ==
  ASSUME NEW q \in Seq(Block), NEW k \in 0..Len(q)
  PROVE  /\ Drop(q, k) \in Seq(Block)
         /\ Len(Drop(q, k)) = Len(q) - k
         /\ \A i \in 1..Len(Drop(q, k)) : /\ i + k \in 1..Len(q)
                                             /\ Drop(q, k)[i] = q[i + k]
BY DEF Drop

\* A queue with one more block.
LEMMA AppendBlock ==
  ASSUME NEW q \in Seq(Block), NEW b \in Block
  PROVE  /\ Append(q, b) \in Seq(Block)
         /\ Len(Append(q, b)) = Len(q) + 1
         /\ Append(q, b)[Len(Append(q, b))] = b
         /\ \A i \in 1..Len(q) : Append(q, b)[i] = q[i]
OBVIOUS

\* Append keeps the newest blocks, in their order, and at most adds the new
\* one behind them, when it fits there.
LEMMA BuffAppendBlocks ==
  ASSUME NEW q \in Seq(Block), NEW b \in Block
  PROVE  \E k \in 0..Len(q) : \/ BuffAppend(q, b) = Drop(q, k)
                              \/ /\ BuffAppend(q, b) = Append(Drop(q, k), b)
                                 /\ Fits(Drop(q, k), Len(b.data))
<1> DEFINE size == Len(b.data)
           S == {k \in 0..Len(q) : k = Len(q) \/ Fits(Drop(q, k), size)}
<1>1. Min(S) \in S
  <2>1. Len(q) \in S
    OBVIOUS
  <2>2. S \subseteq Nat
    OBVIOUS
  <2> QED
    BY <2>1, <2>2, MinInSet
<1>2. Evict(q, size) = Drop(q, Min(S))
  BY DEF Evict
<1> QED
  BY <1>1, <1>2 DEF BuffAppend

\* GetData returns a block that starts at the position asked for, and drops it
\* and everything in front of it.
LEMMA BuffGetBlock ==
  ASSUME NEW q \in Seq(Block), NEW p \in Nat, HasBlockAt(q, p)
  PROVE  \E k \in 1..Len(q) : /\ q[k].fpos = p
                             /\ BuffGetData(q, p) = q[k].data
                             /\ BuffAfterGet(q, p) = Drop(q, k)
<1>1. \A i \in StartingAt(q, p) : i \in 1..Len(q) /\ q[i].fpos = p
  BY DEF StartingAt
<1>2. Min(StartingAt(q, p)) \in StartingAt(q, p)
  <2>1. StartingAt(q, p) \subseteq Nat
    BY <1>1
  <2> QED
    BY <2>1, MinInSet DEF HasBlockAt
<1> QED
  BY <1>1, <1>2 DEF BuffGetData, BuffAfterGet

-----------------------------------------------------------------------------
(* Lemmas about the number of bytes in the queue.                          *)

\* s[k] is the number of bytes in the first k blocks of q, up to k = m.
IsSum(q, m, s) ==
  s = [k \in 0..m |-> IF k = 0 THEN 0 ELSE s[k - 1] + Len(q[k].data)]

\* There are such sums: the smallest m without them would be one more than an
\* m that has them.
LEMMA SumsExist ==
  ASSUME NEW q \in Seq(Block), NEW n \in 0..Len(q)
  PROVE  \E s : IsSum(q, n, s)
<1> DEFINE B == {m \in 0..Len(q) : ~\E s : IsSum(q, m, s)}
<1> SUFFICES ASSUME B # {} PROVE FALSE
  OBVIOUS
<1>1. B \subseteq Nat
  OBVIOUS
<1>2. PICK m \in B : \A k \in B : m <= k
  BY <1>1, Smallest
<1>3. CASE m = 0
  <2> DEFINE s == [k \in 0..0 |-> 0]
  <2>1. IsSum(q, 0, s)
    BY DEF IsSum
  <2> QED
    BY <1>1, <1>3, <2>1
<1>4. CASE m > 0
  <2>1. m - 1 \in 0..Len(q) /\ m - 1 \notin B
    BY <1>2, <1>4
  <2>2. PICK s : IsSum(q, m - 1, s)
    BY <2>1
  <2> DEFINE t == [k \in 0..m |-> IF k = m THEN s[m - 1] + Len(q[m].data) ELSE s[k]]
  <2>3. m \in Nat /\ m <= Len(q)
    OBVIOUS
  <2>4. \A k \in 0..m - 1 :
          s[k] = IF k = 0 THEN 0 ELSE s[k - 1] + Len(q[k].data)
    BY <2>2, <2>3 DEF IsSum
  <2>5. \A k \in 0..m : t[k] = IF k = 0 THEN 0 ELSE t[k - 1] + Len(q[k].data)
    BY <1>4, <2>3, <2>4
  <2>6. IsSum(q, m, t)
    BY <2>5 DEF IsSum
  <2> QED
    BY <1>1, <2>6
<1> QED
  BY <1>1, <1>3, <1>4

Sums(q) == CHOOSE s : IsSum(q, Len(q), s)

\* SizeSum is the last of them.
LEMMA SizeSumIsLast ==
  ASSUME NEW q \in Seq(Block)
  PROVE  /\ SizeSum(q) = Sums(q)[Len(q)]
         /\ \A k \in 0..Len(q) :
              Sums(q)[k] = IF k = 0 THEN 0 ELSE Sums(q)[k - 1] + Len(q[k].data)
<1>1. \E s : IsSum(q, Len(q), s)
  BY SumsExist
<1>2. IsSum(q, Len(q), Sums(q))
  BY <1>1, Zenon DEF Sums
<1>3. SizeSum(q) = Sums(q)[Len(q)]
  BY Zenon DEF SizeSum, Sums, IsSum
<1> QED
  BY <1>2, <1>3 DEF IsSum

\* The first n blocks of r are those of q behind its first j.
IsPart(r, q, j, n) == n + j <= Len(q) /\ \A i \in 1..n : r[i] = q[i + j]

\* Sums are natural numbers, and the bytes of a part are the difference of the
\* sums at its ends.
LEMMA SumsShift ==
  ASSUME NEW q \in Seq(Block), NEW r \in Seq(Block), NEW j \in 0..Len(q),
         NEW n \in 0..Len(r), IsPart(r, q, j, n)
  PROVE  /\ Sums(q)[j] \in Nat
         /\ Sums(r)[n] \in Nat
         /\ Sums(q)[n + j] = Sums(q)[j] + Sums(r)[n]
<1> DEFINE s == Sums(q)
           t == Sums(r)
<1>1. \A k \in 0..Len(q) : s[k] = IF k = 0 THEN 0 ELSE s[k - 1] + Len(q[k].data)
  BY SizeSumIsLast
<1>2. \A k \in 0..Len(r) : t[k] = IF k = 0 THEN 0 ELSE t[k - 1] + Len(r[k].data)
  BY SizeSumIsLast
<1>3. /\ \A k \in 1..Len(q) : Len(q[k].data) \in Nat
      /\ \A k \in 1..Len(r) : Len(r[k].data) \in Nat
  BY BlockTypes
<1> HIDE DEF s, t
<1>4. ASSUME NEW k \in 0..Len(q) PROVE s[k] \in Nat
  <2> DEFINE B == {i \in 0..Len(q) : s[i] \notin Nat}
  <2> SUFFICES ASSUME B # {} PROVE FALSE
    OBVIOUS
  <2>1. B \subseteq Nat
    OBVIOUS
  <2>2. PICK m \in B : \A i \in B : m <= i
    BY <2>1, Smallest
  <2>3. m # 0
    BY <1>1, <2>1
  <2>4. m - 1 \in 0..Len(q) /\ m - 1 \notin B
    BY <2>1, <2>2, <2>3
  <2>5. s[m] = s[m - 1] + Len(q[m].data) /\ Len(q[m].data) \in Nat
    BY <1>1, <1>3, <2>3
  <2>6. s[m - 1] \in Nat
    BY <2>4
  <2>7. s[m] \in Nat
    BY <2>5, <2>6
  <2> QED
    BY <2>7
<1>5. ASSUME NEW k \in 0..n PROVE t[k] \in Nat /\ s[k + j] = s[j] + t[k]
  <2> DEFINE B == {i \in 0..n : ~(t[i] \in Nat /\ s[i + j] = s[j] + t[i])}
  <2> SUFFICES ASSUME B # {} PROVE FALSE
    OBVIOUS
  <2>1. B \subseteq Nat
    OBVIOUS
  <2>2. PICK m \in B : \A i \in B : m <= i
    BY <2>1, Smallest
  <2>3. m # 0
    BY <1>2, <1>4, <2>1
  <2>4. m - 1 \in 0..n /\ m - 1 \notin B
    BY <2>1, <2>2, <2>3
  <2>5. /\ t[m] = t[m - 1] + Len(r[m].data)
        /\ s[m + j] = s[(m - 1) + j] + Len(q[m + j].data)
    <3>1. m \in 0..Len(r) /\ m + j \in 0..Len(q) /\ m + j # 0
      BY <2>1, <2>3 DEF IsPart
    <3>2. (m + j) - 1 = (m - 1) + j
      BY <2>1
    <3> QED
      BY <1>1, <1>2, <2>3, <3>1, <3>2
  <2>6. r[m] = q[m + j] /\ Len(r[m].data) \in Nat
    BY <1>3, <2>1, <2>3 DEF IsPart
  <2>7. t[m - 1] \in Nat /\ s[(m - 1) + j] = s[j] + t[m - 1]
    BY <2>4
  <2>8. s[j] \in Nat
    BY <1>4
  <2> DEFINE x == s[j]
             y == t[m - 1]
             z == Len(r[m].data)
             u == t[m]
             v == s[m + j]
  <2>9. x \in Nat /\ y \in Nat /\ z \in Nat /\ u = y + z
    BY <2>5, <2>6, <2>7, <2>8
  <2>10. v = (x + y) + z
    BY <2>5, <2>6, <2>7, Zenon
  <2> HIDE DEF x, y, z, u, v
  <2>11. u \in Nat /\ v = x + u
    BY <2>9, <2>10
  <2> QED
    BY <2>11 DEF u, v, x
<1>6. n \in 0..n
  OBVIOUS
<1> QED
  BY <1>4, <1>5, <1>6 DEF s, t

\* What is left of a queue holds no more than the queue, nothing when it is
\* empty.
LEMMA SizeSumDrop ==
  ASSUME NEW q \in Seq(Block), NEW k \in 0..Len(q)
  PROVE  /\ SizeSum(Drop(q, k)) \in Nat
         /\ SizeSum(Drop(q, k)) <= SizeSum(q)
         /\ k = Len(q) => SizeSum(Drop(q, k)) = 0
<1> DEFINE r == Drop(q, k)
<1>1. /\ r \in Seq(Block)
      /\ Len(r) = Len(q) - k
      /\ \A i \in 1..Len(r) : r[i] = q[i + k]
  BY DropBlocks
<1> HIDE DEF r
<1>2. SizeSum(q) = Sums(q)[Len(q)] /\ SizeSum(r) = Sums(r)[Len(r)]
  BY <1>1, SizeSumIsLast
<1>3. Len(r) + k = Len(q) /\ IsPart(r, q, k, Len(r)) /\ Len(r) \in 0..Len(r)
  BY <1>1 DEF IsPart
<1>4. /\ Sums(q)[k] \in Nat /\ Sums(r)[Len(r)] \in Nat
      /\ Sums(q)[Len(r) + k] = Sums(q)[k] + Sums(r)[Len(r)]
  BY <1>1, <1>3, SumsShift, Zenon
<1>5. SizeSum(r) \in Nat /\ SizeSum(r) <= SizeSum(q)
  BY <1>2, <1>3, <1>4
<1>6. ASSUME k = Len(q) PROVE SizeSum(r) = 0
  <2>1. Len(r) = 0
    BY <1>1, <1>6
  <2>2. 0 \in 0..Len(r) => Sums(r)[0] = 0
    BY <1>1, SizeSumIsLast
  <2> QED
    BY <1>2, <2>1, <2>2
<1> QED
  BY <1>5, <1>6 DEF r

\* One more block adds its bytes.
LEMMA SizeSumAppend ==
  ASSUME NEW q \in Seq(Block), NEW b \in Block
  PROVE  SizeSum(Append(q, b)) = SizeSum(q) + Len(b.data)
<1> DEFINE r == Append(q, b)
<1>1. /\ r \in Seq(Block)
      /\ Len(r) = Len(q) + 1
      /\ r[Len(r)] = b
      /\ \A i \in 1..Len(q) : r[i] = q[i]
  BY AppendBlock
<1> HIDE DEF r
<1>2. SizeSum(q) = Sums(q)[Len(q)] /\ SizeSum(r) = Sums(r)[Len(r)]
  BY <1>1, SizeSumIsLast
<1>3. 0 \in 0..Len(r) /\ Len(q) \in 0..Len(q) /\ IsPart(q, r, 0, Len(q))
  BY <1>1 DEF IsPart
<1>4. /\ Sums(q)[Len(q)] \in Nat
      /\ Sums(r)[Len(q) + 0] = Sums(r)[0] + Sums(q)[Len(q)]
  BY <1>1, <1>3, SumsShift, Zenon
<1>5. /\ Sums(r)[0] = 0
      /\ Sums(r)[Len(r)] = Sums(r)[Len(r) - 1] + Len(b.data)
  <2>1. 0 \in 0..Len(r) /\ Len(r) \in 0..Len(r) /\ Len(r) # 0
    BY <1>1
  <2>2. \A k \in 0..Len(r) :
          Sums(r)[k] = IF k = 0 THEN 0 ELSE Sums(r)[k - 1] + Len(r[k].data)
    BY <1>1, SizeSumIsLast
  <2> QED
    BY <1>1, <2>1, <2>2
<1>6. Len(q) + 0 = Len(q) /\ Len(r) - 1 = Len(q)
  BY <1>1
<1> QED
  BY <1>2, <1>4, <1>5, <1>6 DEF r

\* A number that is below the modulus.
LEMMA ModSmall ==
  ASSUME NEW n \in Nat \ {0}, NEW x \in 0..n - 1
  PROVE  x % n = x
OBVIOUS

\* A block that Append keeps fits: while limit and chunk together stay below
\* 2^32 the DWORD sum does not wrap.
LEMMA BuffAppendBounded ==
  ASSUME NEW q \in Seq(Block), NEW b \in Block,
         q # <<>> => SizeSum(q) <= BuffMax,
         Len(b.data) <= MaxChunk, BuffMax + MaxChunk < DWord
  PROVE  BuffAppend(q, b) # <<>> => SizeSum(BuffAppend(q, b)) <= BuffMax
<1> DEFINE size == Len(b.data)
<1>1. PICK k \in 0..Len(q) : \/ BuffAppend(q, b) = Drop(q, k)
                             \/ /\ BuffAppend(q, b) = Append(Drop(q, k), b)
                                /\ Fits(Drop(q, k), size)
  BY BuffAppendBlocks
<1> DEFINE r == Drop(q, k)
<1>2. /\ r \in Seq(Block) /\ Len(r) = Len(q) - k
      /\ SizeSum(r) \in Nat /\ SizeSum(r) <= SizeSum(q)
      /\ k = Len(q) => SizeSum(r) = 0
  BY DropBlocks, SizeSumDrop
<1>3. size \in Nat /\ BuffMax \in Int /\ DWord \in Nat \ {0} /\ BuffMax < DWord
      /\ MaxChunk \in Nat /\ MaxChunk < DWord
  BY BuffMaxAssumption, DWordAssumption, ChunkAssumption, BoundsAssumption DEF Block
<1> HIDE DEF r, size
<1>4. SizeSum(q) \in Nat
  <2>1. /\ Drop(q, 0) = q /\ 0 \in 0..Len(q)
    BY DEF Drop
  <2> QED
    BY <2>1, SizeSumDrop
<1>5. SizeSum(r) <= BuffMax \/ SizeSum(r) = 0
  <2>1. CASE q = <<>>
    BY <1>2, <2>1
  <2>2. CASE q # <<>>
    BY <1>2, <1>3, <1>4, <2>2
  <2> QED
    BY <2>1, <2>2
<1>6. CASE BuffAppend(q, b) = r
  <2>1. r # <<>> => q # <<>> /\ k # Len(q)
    BY <1>2
  <2> QED
    BY <1>2, <1>3, <1>4, <1>6, <2>1
<1>7. CASE BuffAppend(q, b) = Append(r, b) /\ Fits(r, size)
  <2>1. SizeSum(r) \in 0..DWord - 1 /\ SizeSum(r) + size \in 0..DWord - 1
    BY <1>2, <1>3, <1>5 DEF size
  <2>2. GetCurSize(r) = SizeSum(r)
    BY <1>3, <2>1, ModSmall DEF GetCurSize
  <2>3. (GetCurSize(r) + size) % DWord = SizeSum(r) + size
    BY <1>3, <2>1, <2>2, ModSmall
  <2>4. SizeSum(r) + size <= BuffMax
    BY <1>7, <2>3 DEF Fits
  <2>5. SizeSum(Append(r, b)) = SizeSum(r) + size
    BY <1>2, SizeSumAppend DEF size
  <2> QED
    BY <1>7, <2>4, <2>5
<1> QED
  BY <1>1, <1>6, <1>7 DEF r, size

-----------------------------------------------------------------------------
(* Lemmas about the file.                                                  *)

\* What a read returns: no more than asked for, nothing from behind the end of
\* the file, less than asked for only at that end, and the file's bytes.
LEMMA TsBytesRead ==
  ASSUME recorded \in Seq(Bytes), fileSize \in Nat,
         NEW pos \in Nat, NEW n \in Nat
  PROVE  LET d == TsBytes(pos, n)
         IN  /\ d \in Seq(Bytes)
             /\ Len(d) <= n
             /\ Len(d) = 0 \/ pos + Len(d) <= fileSize
             /\ Len(d) < n => fileSize <= pos + Len(d)
             /\ \A j \in 1..Len(d) : d[j] = TsByte(pos + j)
<1> DEFINE count == IF fileSize <= pos THEN 0
                    ELSE IF fileSize - pos < n THEN fileSize - pos ELSE n
           d == TsBytes(pos, n)
<1>1. count \in Nat /\ count <= n
  OBVIOUS
<1>2. d = [i \in 1..count |-> TsByte(pos + i)]
  BY DEF TsBytes
<1>3. \A p \in Nat \ {0} : TsByte(p) \in Bytes
  BY DEF TsByte, Zero, Bytes
<1>4. d \in Seq(Bytes) /\ Len(d) = count
  <2> HIDE DEF count
  <2> QED
    BY <1>1, <1>2, <1>3
<1>5. \A j \in 1..Len(d) : d[j] = TsByte(pos + j)
  BY <1>2, <1>4
<1> QED
  BY <1>1, <1>4, <1>5

\* One byte sequence behind another.
LEMMA ConcatBytes ==
  ASSUME NEW s \in Seq(Bytes), NEW t \in Seq(Bytes)
  PROVE  /\ s \o t \in Seq(Bytes)
         /\ Len(s \o t) = Len(s) + Len(t)
         /\ \A j \in 1..Len(s) : (s \o t)[j] = s[j]
         /\ \A j \in 1..Len(t) : (s \o t)[Len(s) + j] = t[j]
OBVIOUS

\* The new chunk, and the recording behind it.
LEMMA FreshBytes ==
  ASSUME recorded \in Seq(Bytes), NEW n \in Nat
  PROVE  /\ Fresh(n) \in Seq(Bytes)
         /\ Len(Fresh(n)) = n
         /\ recorded \o Fresh(n) \in Seq(Bytes)
         /\ Len(recorded \o Fresh(n)) = Len(recorded) + n
         /\ \A j \in 1..Len(recorded) : (recorded \o Fresh(n))[j] = recorded[j]
         /\ \A j \in 1..n : (recorded \o Fresh(n))[Len(recorded) + j] = Fresh(n)[j]
<1>1. Fresh(n) \in Seq(Bytes) /\ Len(Fresh(n)) = n
  BY DEF Fresh, Bytes
<1> QED
  BY <1>1

-----------------------------------------------------------------------------
(* The invariant is inductive.                                             *)

LEMMA InitIInv == Init => IInv
<1> SUFFICES ASSUME Init PROVE IInv
  OBVIOUS
<1> USE DEF Init, TsCreate
<1>1. TypeOK
  <2>1. \A S : <<>> \in Seq(S)
    OBVIOUS
  <2>2. -1 \in Int /\ fileSize \in Nat /\ fpos_read \in Nat /\ fpos_write \in Nat
    BY CreateSizeAssumption
  <2> QED
    BY <2>1, <2>2 DEF TypeOK, Calls
<1>2. RecorderInv
  BY CreateSizeAssumption DEF RecorderInv
<1>3. QueueInv
  BY DEF QueueInv
<1>4. SenderInv
  BY CreateSizeAssumption DEF SenderInv
<1>5. FileReadInv /\ EofInv
  BY DEF FileReadInv, EofInv
<1> QED
  BY <1>1, <1>2, <1>3, <1>4, <1>5 DEF IInv

\* The queue's part holds on when the recording only grows behind what was
\* appended.
LEMMA QueueFrame ==
  ASSUME TypeOK, QueueInv, que' = que,
         fpos_write' \in Nat, fpos_write <= fpos_write',
         \A j \in 1..fpos_write : recorded'[j] = recorded[j]
  PROVE  QueueInv'
<1>1. \A i \in 1..Len(que) : que[i].fpos \in Nat /\ Len(que[i].data) \in Nat
  BY BlockTypes DEF TypeOK
<1>2. ASSUME NEW i \in 1..Len(que), NEW j \in 1..Len(que[i].data)
      PROVE  que[i].data[j] = recorded'[que[i].fpos + j]
  <2>1. que[i].fpos + Len(que[i].data) <= fpos_write
    BY DEF QueueInv
  <2>2. fpos_write \in Nat /\ que[i].fpos \in Nat /\ Len(que[i].data) \in Nat
    BY <1>1 DEF TypeOK
  <2>3. que[i].fpos + j \in 1..fpos_write
    BY <2>1, <2>2
  <2> QED
    BY <2>3 DEF QueueInv
<1>3. \A i \in 1..Len(que) : que[i].fpos + Len(que[i].data) <= fpos_write'
  <2> TAKE i \in 1..Len(que)
  <2>1. que[i].fpos + Len(que[i].data) <= fpos_write
    BY DEF QueueInv
  <2>2. fpos_write \in Nat /\ que[i].fpos + Len(que[i].data) \in Nat
    BY <1>1 DEF TypeOK
  <2> QED
    BY <2>1, <2>2
<1> QED
  BY <1>2, <1>3 DEF QueueInv

LEMMA RecordWriteIInv ==
  ASSUME IInv, NEW n \in 1..MaxChunk, RecordWrite(n)
  PROVE  IInv'
<1> USE DEF RecordWrite, fileVars, buffVars, readVars
<1>1. n \in Nat /\ n > 0
  BY BoundsAssumption
<1>2. /\ recorded' = recorded \o Fresh(n)
      /\ Len(recorded') = Len(recorded) + n
      /\ Len(Fresh(n)) = n
  BY <1>1, FreshBytes DEF IInv, TypeOK, TsWrite
<1>3. \A j \in 1..Len(recorded) : recorded'[j] = recorded[j]
  BY <1>1, <1>2, FreshBytes DEF IInv, TypeOK
<1>4. fileSize' \in Nat /\ Len(recorded') <= fileSize' /\ fileSize <= fileSize'
  <2>1. Len(recorded) \in Nat /\ fileSize \in Nat /\ Len(recorded) <= fileSize
    BY DEF IInv, TypeOK, RecorderInv
  <2>2. fileSize' = IF fileSize < Len(recorded) + n THEN Len(recorded) + n ELSE fileSize
    BY <1>2 DEF TsWrite
  <2> QED
    BY <1>1, <1>2, <2>1, <2>2
<1>5. TypeOK'
  <2>1. recorded' \in Seq(Bytes) /\ pending' \in Seq(Bytes)
    BY <1>1, <1>2, FreshBytes DEF IInv, TypeOK
  <2>2. TypeOK
    BY DEF IInv
  <2> QED
    BY <1>4, <2>1, <2>2 DEF TypeOK
<1>6. fpos_write = Len(recorded)
  BY DEF IInv, TypeOK, RecorderInv
<1>7. RecorderInv'
  BY <1>1, <1>2, <1>4, <1>6, FreshBytes DEF IInv, TypeOK, RecorderInv
<1>8. QueueInv'
  BY <1>3, <1>6, QueueFrame DEF IInv, TypeOK
<1>9. ~TS_FinishWrite
  BY DEF IInv, RecorderInv
<1>10. \A j \in 1..Len(recorded) : TsByte(j)' = TsByte(j)
  BY <1>2, <1>3, <1>1 DEF TsByte, IInv, TypeOK
<1>11. SenderInv'
  BY <1>4, <1>6, <1>9, <1>10 DEF IInv, TypeOK, SenderInv
<1>12. FileReadInv' /\ EofInv'
  BY <1>9 DEF IInv, FileReadInv, EofInv
<1> QED
  BY <1>5, <1>7, <1>8, <1>11, <1>12 DEF IInv

LEMMA AppendLockedIInv ==
  ASSUME IInv, AppendLocked
  PROVE  IInv'
<1> DEFINE b == [fpos |-> fpos_write, data |-> pending]
<1> USE DEF AppendLocked, fileVars, readVars
<1>1. b \in Block /\ 0 < Len(b.data) /\ b.fpos = fpos_write /\ b.data = pending
  BY DEF IInv, TypeOK, Block
<1>2. fpos_write' \in Nat /\ fpos_write' = Len(recorded) /\ fpos_write < fpos_write'
  BY DEF IInv, TypeOK, RecorderInv
<1>3. PICK k \in 0..Len(que) : que' = Drop(que, k) \/ que' = Append(Drop(que, k), b)
  BY <1>1, BuffAppendBlocks DEF IInv, TypeOK
<1>4. /\ Drop(que, k) \in Seq(Block)
      /\ \A i \in 1..Len(Drop(que, k)) : /\ i + k \in 1..Len(que)
                                              /\ Drop(que, k)[i] = que[i + k]
  BY DropBlocks DEF IInv, TypeOK
<1> HIDE DEF b
<1>5. que' \in Seq(Block)
  BY <1>1, <1>3, <1>4
<1>6. \A i \in 1..Len(que') :
        \/ i + k \in 1..Len(que) /\ que'[i] = que[i + k] /\ i \in 1..Len(Drop(que, k))
        \/ que'[i] = b /\ i = Len(que') /\ Len(que') = Len(Drop(que, k)) + 1
  <2>1. CASE que' = Drop(que, k)
    BY <1>4, <2>1
  <2>2. CASE que' = Append(Drop(que, k), b)
    <3>1. /\ Len(que') = Len(Drop(que, k)) + 1
          /\ que'[Len(que')] = b
          /\ \A i \in 1..Len(Drop(que, k)) : que'[i] = Drop(que, k)[i]
      <4> DEFINE D == Drop(que, k)
      <4>1. D \in Seq(Block) /\ b \in Block
        BY <1>1, <1>4
      <4> HIDE DEF D
      <4>2. /\ Len(Append(D, b)) = Len(D) + 1
            /\ Append(D, b)[Len(Append(D, b))] = b
            /\ \A i \in 1..Len(D) : Append(D, b)[i] = D[i]
        BY <4>1, AppendBlock
      <4>3. que' = Append(D, b)
        BY <2>2 DEF D
      <4>4. Len(que') = Len(D) + 1 /\ que'[Len(que')] = b
        BY <4>2, <4>3
      <4>5. \A i \in 1..Len(D) : que'[i] = D[i]
        BY <4>2, <4>3
      <4> QED
        BY <4>4, <4>5 DEF D
    <3>2. Len(Drop(que, k)) \in Nat
      BY <1>4
    <3> QED
      BY <1>4, <3>1, <3>2
  <2> QED
    BY <1>3, <2>1, <2>2
<1>a. \A i \in 1..Len(que) : que[i].fpos \in Nat /\ Len(que[i].data) \in Nat
  BY BlockTypes DEF IInv, TypeOK
<1>b. fpos_write \in Nat /\ Len(pending) \in Nat /\ fpos_write' = fpos_write + Len(pending)
  BY DEF IInv, TypeOK
<1>c. fpos_read \in Nat /\ Len(ret_data) \in Nat /\ Len(delivered) \in Nat
  BY DEF IInv, TypeOK
<1>7. TypeOK'
  <2>1. TypeOK
    BY DEF IInv
  <2>2. pending' \in Seq(Bytes)
    OBVIOUS
  <2> QED
    BY <1>2, <1>5, <2>1, <2>2 DEF TypeOK
<1>8. RecorderInv'
  BY <1>2 DEF IInv, RecorderInv
<1>9. QueueInv'
  <2>1. \A j \in 1..Len(b.data) : b.data[j] = recorded[b.fpos + j]
    BY <1>1 DEF IInv, RecorderInv
  <2>2. \A i \in 1..Len(que') : \A j \in 1..Len(que'[i].data) :
          que'[i].data[j] = recorded[que'[i].fpos + j]
    <3>1. \A i \in 1..Len(que) : \A j \in 1..Len(que[i].data) :
            que[i].data[j] = recorded[que[i].fpos + j]
      BY DEF IInv, QueueInv
    <3>2. ASSUME NEW i \in 1..Len(que'), i + k \in 1..Len(que), que'[i] = que[i + k]
          PROVE  \A j \in 1..Len(que'[i].data) :
                   que'[i].data[j] = recorded[que'[i].fpos + j]
      BY <3>1, <3>2
    <3>3. ASSUME NEW i \in 1..Len(que'), que'[i] = b
          PROVE  \A j \in 1..Len(que'[i].data) :
                   que'[i].data[j] = recorded[que'[i].fpos + j]
      BY <2>1, <3>3
    <3> QED
      BY <1>6, <3>2, <3>3
  <2>3. \A i \in 1..Len(que') : /\ 0 < Len(que'[i].data)
                               /\ que'[i].fpos + Len(que'[i].data) <= fpos_write'
    <3>1. \A i \in 1..Len(que) : /\ 0 < Len(que[i].data)
                                 /\ que[i].fpos + Len(que[i].data) <= fpos_write
      BY DEF IInv, QueueInv
    <3>2. ASSUME NEW i \in 1..Len(que'), i + k \in 1..Len(que), que'[i] = que[i + k]
          PROVE  /\ 0 < Len(que'[i].data)
                 /\ que'[i].fpos + Len(que'[i].data) <= fpos_write'
      BY <1>2, <1>a, <1>b, <3>1, <3>2
    <3>3. ASSUME NEW i \in 1..Len(que'), que'[i] = b
          PROVE  /\ 0 < Len(que'[i].data)
                 /\ que'[i].fpos + Len(que'[i].data) <= fpos_write'
      BY <1>1, <1>b, <3>3
    <3> QED
      BY <1>6, <3>2, <3>3
  <2>4. ASSUME NEW i \in 1..Len(que'), NEW m \in 1..Len(que'), i < m
        PROVE  que'[i].fpos + Len(que'[i].data) <= que'[m].fpos
    <3>1. i + k \in 1..Len(que) /\ que'[i] = que[i + k]
      BY <1>5, <1>6, <2>4
    <3>2. CASE que'[m] = b
      BY <1>1, <3>1, <3>2 DEF IInv, QueueInv
    <3>3. CASE m + k \in 1..Len(que) /\ que'[m] = que[m + k]
      BY <2>4, <3>1, <3>3 DEF IInv, QueueInv
    <3> QED
      BY <1>6, <3>2, <3>3
  <2> QED
    BY <2>2, <2>3, <2>4 DEF QueueInv
<1>10. \A j : TsByte(j)' = TsByte(j)
  BY DEF TsByte
<1>11. SenderInv'
  <2>1. ~TS_FinishWrite => \A i \in 1..Len(que') : fpos_read + Len(ret_data) <= que'[i].fpos
    BY <1>1, <1>6 DEF IInv, SenderInv
  <2> QED
    BY <1>2, <1>10, <1>b, <1>c, <2>1 DEF IInv, SenderInv
<1>12. FileReadInv'
  <2>1. call = "file" /\ ~TS_FinishWrite =>
          \A i \in 1..Len(que') : readable_fpos < que'[i].fpos
    BY <1>1, <1>6 DEF IInv, FileReadInv
  <2>2. readable_fpos \in Int
    BY DEF IInv, TypeOK
  <2> QED
    BY <1>2, <1>b, <2>1, <2>2 DEF IInv, FileReadInv
<1>13. EofInv'
  BY DEF IInv, EofInv
<1> QED
  BY <1>7, <1>8, <1>9, <1>11, <1>12, <1>13 DEF IInv

LEMMA AppendTimeoutIInv ==
  ASSUME IInv, AppendTimeout
  PROVE  IInv'
<1> USE DEF AppendTimeout, fileVars, readVars
<1>1. fpos_write' \in Nat /\ fpos_write' = Len(recorded) /\ fpos_write < fpos_write'
  BY DEF IInv, TypeOK, RecorderInv
<1>2. TypeOK'
  BY <1>1 DEF IInv, TypeOK
<1>3. RecorderInv'
  BY <1>1 DEF IInv, RecorderInv
<1>4. QueueInv'
  BY <1>1, QueueFrame DEF IInv, TypeOK
<1>5. \A j : TsByte(j)' = TsByte(j)
  BY DEF TsByte
<1>6. SenderInv'
  BY <1>1, <1>5 DEF IInv, TypeOK, SenderInv
<1>7. FileReadInv' /\ EofInv'
  BY <1>1 DEF IInv, TypeOK, FileReadInv, EofInv
<1> QED
  BY <1>2, <1>3, <1>4, <1>6, <1>7 DEF IInv

\* The recorder's other steps leave the recording and the reader alone.
LEMMA RecorderEndIInv ==
  ASSUME IInv, RecordStop \/ RecordFail \/ RecordFailed
  PROVE  IInv'
<1> USE DEF RecordStop, RecordFail, RecordFailed, TsSetEndOfFile, fileVars,
            buffVars, readVars
<1>1. TypeOK'
  <2>1. fileSize' \in Nat /\ recorder' \in {"stopped", "failing", "failed"}
    BY DEF IInv, TypeOK
  <2>2. UNCHANGED <<recorded, que, fpos_read, fpos_write, TS_FinishWrite, fp, pending,
                    call, readable_fpos, ret_data, delivered>>
    OBVIOUS
  <2> QED
    BY <2>1, <2>2 DEF IInv, TypeOK
<1>2. RecorderInv'
  BY DEF IInv, TypeOK, RecorderInv
<1>3. QueueInv' /\ FileReadInv'
  BY DEF IInv, QueueInv, FileReadInv
<1>4. \A j : TsByte(j)' = TsByte(j)
  BY DEF TsByte
<1>5. /\ recorder' # "failed" => /\ Len(delivered) <= fileSize'
                                 /\ fpos_read + Len(ret_data) <= fileSize'
      /\ UNCHANGED <<call, fpos_read, delivered, ret_data, TS_FinishWrite, que,
                     fpos_write>>
  <2>1. CASE RecordStop
    <3>1. ~TS_FinishWrite /\ pending = <<>> /\ fileSize' = Len(recorded)
      BY <2>1 DEF IInv, RecorderInv
    <3>2. fpos_write = Len(recorded)
      BY <3>1 DEF IInv, TypeOK, RecorderInv
    <3> QED
      BY <2>1, <3>1, <3>2 DEF IInv, SenderInv
  <2>2. CASE RecordFail
    BY <2>2 DEF IInv, SenderInv
  <2>3. CASE RecordFailed
    BY <2>3
  <2> QED
    BY <2>1, <2>2, <2>3
<1>6. SenderInv'
  BY <1>4, <1>5 DEF IInv, SenderInv
<1>7. EofInv'
  BY DEF IInv, EofInv, RecorderInv
<1> QED
  BY <1>1, <1>2, <1>3, <1>6, <1>7 DEF IInv

\* The sender's steps that move no data.
LEMMA SenderMovesIInv ==
  ASSUME IInv,
         \/ LoopRecording \/ LoopFinished \/ GetNextLock \/ GetNextNothing
         \/ FromFileRefused
  PROVE  IInv'
<1> USE DEF LoopRecording, LoopFinished, GetNextLock, GetNextNothing,
            FromFileRefused, fileVars, buffVars, readVars
<1>1. TypeOK'
  BY DEF IInv, TypeOK, Calls
<1>2. RecorderInv'
  BY DEF IInv, RecorderInv, Finished
<1>3. QueueInv'
  BY DEF IInv, QueueInv
<1>4. \A j : TsByte(j)' = TsByte(j)
  BY DEF TsByte
<1>5. SenderInv'
  BY <1>4 DEF IInv, SenderInv
<1>6. FileReadInv' /\ EofInv'
  BY DEF IInv, FileReadInv, EofInv
<1> QED
  BY <1>1, <1>2, <1>3, <1>5, <1>6 DEF IInv

\* No block at fpos_read and the recording goes on: all blocks lie behind it.
LEMMA GetNextMissIInv ==
  ASSUME IInv, GetNextMiss
  PROVE  IInv'
<1> USE DEF GetNextMiss, fileVars, buffVars
<1>0. \A i \in 1..Len(que) : que[i].fpos \in Nat /\ Len(que[i].data) \in Nat
  BY BlockTypes DEF IInv, TypeOK
<1>1. ASSUME ~TS_FinishWrite
      PROVE  /\ readable_fpos' \in Int
             /\ fpos_read <= readable_fpos'
             /\ readable_fpos' < fpos_write
             /\ \A i \in 1..Len(que) : readable_fpos' < que[i].fpos
  <2>1. que # <<>> /\ Len(que) \in Nat /\ 1 \in 1..Len(que) /\ 1 \in DOMAIN que
    BY <1>1 DEF IInv, TypeOK
  <2>2. readable_fpos' = que[1].fpos - 1
    BY <1>1, <2>1 DEF ReadableFpos, GetTopPos
  <2>3. fpos_read # que[1].fpos
    BY <2>1 DEF HasBlockAt, StartingAt
  <2>4. fpos_read <= que[1].fpos
    BY <1>1, <2>1 DEF IInv, TypeOK, SenderInv
  <2>5. \A i \in 1..Len(que) : que[1].fpos <= que[i].fpos
    BY <1>0, <2>1 DEF IInv, QueueInv
  <2>6. que[1].fpos <= fpos_write
    BY <1>0, <2>1 DEF IInv, TypeOK, QueueInv
  <2>7. fpos_read \in Nat /\ fpos_write \in Nat /\ que[1].fpos \in Nat
    BY <1>0, <2>1 DEF IInv, TypeOK
  <2> QED
    BY <1>0, <2>2, <2>3, <2>4, <2>5, <2>6, <2>7
<1>2. TS_FinishWrite => readable_fpos' = -1
  BY DEF ReadableFpos
<1>3. TypeOK'
  BY <1>1, <1>2 DEF IInv, TypeOK, Calls
<1>4. RecorderInv' /\ QueueInv'
  BY DEF IInv, RecorderInv, QueueInv
<1>5. \A j : TsByte(j)' = TsByte(j)
  BY DEF TsByte
<1>6. SenderInv'
  BY <1>5 DEF IInv, SenderInv
<1>7. FileReadInv' /\ EofInv'
  BY <1>1, <1>2 DEF IInv, FileReadInv, EofInv
<1> QED
  BY <1>3, <1>4, <1>6, <1>7 DEF IInv

\* The block found starts at fpos_read; those left lie behind it.
LEMMA GetNextFromBuffIInv ==
  ASSUME IInv, GetNextFromBuff
  PROVE  IInv'
<1> USE DEF GetNextFromBuff, fileVars
<1>0. \A i \in 1..Len(que) : que[i].fpos \in Nat /\ Len(que[i].data) \in Nat
  BY BlockTypes DEF IInv, TypeOK
<1>1. PICK k \in 1..Len(que) : /\ que[k].fpos = fpos_read
                               /\ ret_data' = que[k].data
                               /\ que' = Drop(que, k)
  <2>1. que \in Seq(Block) /\ fpos_read \in Nat /\ HasBlockAt(que, fpos_read)
    BY DEF IInv, TypeOK
  <2>2. \E k \in 1..Len(que) : /\ que[k].fpos = fpos_read
                               /\ BuffGetData(que, fpos_read) = que[k].data
                               /\ BuffAfterGet(que, fpos_read) = Drop(que, k)
    BY <2>1, BuffGetBlock
  <2>3. ret_data' = BuffGetData(que, fpos_read) /\ que' = BuffAfterGet(que, fpos_read)
    OBVIOUS
  <2> QED
    BY <2>2, <2>3, Zenon
<1>2. /\ que' \in Seq(Block)
      /\ \A i \in 1..Len(que') : /\ i + k \in 1..Len(que)
                                 /\ que'[i] = que[i + k]
  <2>1. que \in Seq(Block) /\ k \in 0..Len(que) /\ que' = Drop(que, k)
    BY <1>1 DEF IInv, TypeOK
  <2>2. /\ Drop(que, k) \in Seq(Block)
        /\ \A i \in 1..Len(Drop(que, k)) : /\ i + k \in 1..Len(que)
                                           /\ Drop(que, k)[i] = que[i + k]
    BY <2>1, DropBlocks
  <2> QED
    BY <2>1, <2>2, Zenon
<1>3. ret_data' \in Seq(Bytes) /\ Len(ret_data') = Len(que[k].data)
  BY <1>1, BlockTypes DEF IInv, TypeOK
<1>4. readable_fpos' \in Int
  <2>1. CASE que = <<>> \/ TS_FinishWrite
    BY <2>1 DEF ReadableFpos, GetTopPos
  <2>2. CASE que # <<>> /\ ~TS_FinishWrite
    <3>1. 1 \in 1..Len(que) /\ Head(que) = que[1]
      BY <2>2 DEF IInv, TypeOK
    <3> QED
      BY <1>0, <2>2, <3>1 DEF ReadableFpos, GetTopPos
  <2> QED
    BY <2>1, <2>2
<1>5. TypeOK'
  BY <1>2, <1>3, <1>4 DEF IInv, TypeOK, Calls
<1>6. RecorderInv'
  BY DEF IInv, RecorderInv
<1>7. QueueInv'
  <2>1. \A i \in 1..Len(que') : \A j \in 1..Len(que'[i].data) :
          que'[i].data[j] = recorded[que'[i].fpos + j]
    BY <1>2 DEF IInv, QueueInv
  <2>2. \A i \in 1..Len(que') : /\ 0 < Len(que'[i].data)
                               /\ que'[i].fpos + Len(que'[i].data) <= fpos_write
    BY <1>2 DEF IInv, QueueInv
  <2>3. \A i, m \in 1..Len(que') :
          i < m => que'[i].fpos + Len(que'[i].data) <= que'[m].fpos
    <3>1. ASSUME NEW i \in 1..Len(que'), NEW m \in 1..Len(que'), i < m
          PROVE  que'[i].fpos + Len(que'[i].data) <= que'[m].fpos
      <4>1. i + k \in 1..Len(que) /\ m + k \in 1..Len(que) /\ i + k < m + k
        BY <1>2, <3>1
      <4>2. que'[i] = que[i + k] /\ que'[m] = que[m + k]
        BY <1>2
      <4> QED
        BY <4>1, <4>2 DEF IInv, QueueInv
    <3> QED
      BY <3>1
  <2> QED
    BY <2>1, <2>2, <2>3 DEF QueueInv
<1>8. /\ fpos_read + Len(ret_data') <= fpos_write
      /\ fpos_write <= Len(recorded)
      /\ Len(recorded) <= fileSize
  <2>1. que[k].fpos + Len(que[k].data) <= fpos_write
    BY <1>1 DEF IInv, QueueInv
  <2>2. fpos_write <= Len(recorded) /\ Len(recorded) <= fileSize
    BY DEF IInv, TypeOK, RecorderInv
  <2> QED
    BY <1>1, <1>3, <2>1, <2>2
<1>9. \A j \in 1..Len(ret_data') : ret_data'[j] = TsByte(fpos_read + j)
  <2>1. ASSUME NEW j \in 1..Len(ret_data')
        PROVE  ret_data'[j] = TsByte(fpos_read + j)
    <3>1. ret_data'[j] = recorded[fpos_read + j]
      BY <1>1, <1>3 DEF IInv, QueueInv
    <3>2. fpos_read + j <= Len(recorded)
      BY <1>3, <1>8 DEF IInv, TypeOK
    <3> QED
      BY <3>1, <3>2 DEF TsByte
  <2> QED
    BY <2>1
<1>10. \A i \in 1..Len(que') : fpos_read + Len(ret_data') <= que'[i].fpos
  <2>1. ASSUME NEW i \in 1..Len(que')
        PROVE  fpos_read + Len(ret_data') <= que'[i].fpos
    <3>1. i + k \in 1..Len(que) /\ k < i + k /\ que'[i] = que[i + k]
      BY <1>1, <1>2
    <3> QED
      BY <1>1, <1>3, <3>1 DEF IInv, QueueInv
  <2> QED
    BY <2>1
<1>11. SenderInv'
  <2>1. \A j : TsByte(j)' = TsByte(j)
    BY DEF TsByte
  <2>2. fpos_write \in Nat /\ fileSize \in Nat /\ Len(ret_data') \in Nat /\ fpos_read \in Nat
    BY <1>3 DEF IInv, TypeOK
  <2> QED
    BY <1>8, <1>9, <1>10, <2>1, <2>2 DEF IInv, SenderInv, RecorderInv, TypeOK
<1>12. FileReadInv' /\ EofInv'
  <2>1. FileReadInv'
    BY DEF FileReadInv
  <2>2. fp = "eof" /\ recorder # "failed" => fpos_read + Len(ret_data') = fileSize
    <3>1. ret_data = <<>> /\ Len(ret_data) = 0 /\ fpos_read \in Nat
      BY DEF IInv, TypeOK, SenderInv
    <3>2. 0 < Len(ret_data')
      BY <1>1, <1>3 DEF IInv, QueueInv
    <3> QED
      BY <1>3, <1>8, <3>1, <3>2 DEF IInv, TypeOK, EofInv
  <2> QED
    BY <2>1, <2>2 DEF IInv, EofInv
<1> QED
  BY <1>5, <1>6, <1>7, <1>11, <1>12 DEF IInv

\* What fread returns and how it leaves the stream, when the end of the file
\* is told only by a read of fewer bytes than asked for.
LEMMA FreadIInv ==
  ASSUME IInv, CanRead, NEW count \in Nat, NEW status \in {"open", "eof", "err"},
         Fread(count, status), count <= Len(TsBytes(fpos_read, ReqSize)),
         status = "eof" => /\ count = Len(TsBytes(fpos_read, ReqSize))
                           /\ count < ReqSize
  PROVE  IInv'
<1> USE DEF Fread, fileVars, buffVars, CanRead
<1>0. ReqSize \in Nat /\ fpos_read \in Nat
  BY ReadMaxAssumption DEF IInv, TypeOK, ReqSize
<1>1. ~TS_FinishWrite => fpos_read + ReqSize <= readable_fpos + 1
  BY ReadMaxAssumption DEF IInv, TypeOK, FileReadInv, ReqSize
<1>2. recorded \in Seq(Bytes) /\ fileSize \in Nat
  BY DEF IInv, TypeOK
<1> DEFINE all == TsBytes(fpos_read, ReqSize)
           got == TsBytes(fpos_read, count)
<1>3. /\ all \in Seq(Bytes)
      /\ Len(all) <= ReqSize
      /\ Len(all) = 0 \/ fpos_read + Len(all) <= fileSize
      /\ Len(all) < ReqSize => fileSize <= fpos_read + Len(all)
  BY <1>0, <1>2, TsBytesRead
<1>4. /\ got \in Seq(Bytes)
      /\ Len(got) <= count
      /\ Len(got) < count => fileSize <= fpos_read + Len(got)
      /\ \A j \in 1..Len(got) : got[j] = TsByte(fpos_read + j)
  BY <1>0, <1>2, TsBytesRead
<1> HIDE DEF all, got
<1>5. Len(got) = count
  BY <1>0, <1>2, <1>3, <1>4 DEF all
<1>6. ret_data' = got /\ Len(ret_data') = count
  BY <1>5 DEF got
<1>7. recorder # "failed" => fpos_read + count <= fileSize
  <2>1. fpos_read <= fileSize \/ recorder = "failed"
    BY <1>0, <1>2 DEF IInv, TypeOK, SenderInv
  <2> QED
    BY <1>0, <1>2, <1>3, <2>1 DEF all
<1>8. ~TS_FinishWrite =>
        /\ fpos_read + count <= fpos_write
        /\ \A i \in 1..Len(que) : fpos_read + count <= que[i].fpos
  <2>1. count <= ReqSize
    BY <1>0, <1>3 DEF all
  <2>2. \A i \in 1..Len(que) : que[i].fpos \in Nat
    BY BlockTypes DEF IInv, TypeOK
  <2>3. readable_fpos \in Int /\ fpos_write \in Nat
    BY DEF IInv, TypeOK
  <2> QED
    BY <1>0, <1>1, <2>1, <2>2, <2>3 DEF IInv, FileReadInv
<1>9. recorder # "failed"
  BY DEF IInv, RecorderInv
<1>10. TypeOK'
  BY <1>4, <1>6 DEF IInv, TypeOK, Calls
<1>11. RecorderInv' /\ QueueInv'
  BY <1>9 DEF IInv, RecorderInv, QueueInv
<1>12. \A j : TsByte(j)' = TsByte(j)
  BY DEF TsByte
<1>13. SenderInv'
  <2>1. count = 0 => ret_data' = <<>>
    BY <1>4, <1>6
  <2> QED
    BY <1>4, <1>6, <1>7, <1>8, <1>12, <2>1 DEF IInv, SenderInv
<1>14. FileReadInv'
  BY DEF FileReadInv
<1>15. EofInv'
  <2>1. ASSUME fp' = "eof"
        PROVE  TS_FinishWrite /\ fpos_read + count = fileSize
    <3>1. count = Len(all) /\ count < ReqSize
      BY <2>1 DEF all
    <3>2. fileSize <= fpos_read + count
      BY <1>3, <3>1
    <3>3. TS_FinishWrite
      <4>1. SUFFICES ASSUME ~TS_FinishWrite PROVE FALSE
        OBVIOUS
      <4>2. readable_fpos < fpos_write /\ fpos_write <= Len(recorded) /\ Len(recorded) <= fileSize
        BY <4>1 DEF IInv, TypeOK, FileReadInv, RecorderInv
      <4>3. readable_fpos \in Int /\ fpos_write \in Nat /\ Len(recorded) \in Nat
        BY DEF IInv, TypeOK
      <4> QED
        BY <1>0, <1>1, <1>2, <3>1, <3>2, <4>1, <4>2, <4>3
    <3> QED
      BY <1>0, <1>2, <1>7, <1>9, <3>2, <3>3
  <2> QED
    BY <1>6, <2>1 DEF EofInv
<1> QED
  BY <1>10, <1>11, <1>13, <1>14, <1>15 DEF IInv

LEMMA FromFileIInv ==
  ASSUME IInv, FromFile \/ FromFileError
  PROVE  IInv'
<1> DEFINE all == TsBytes(fpos_read, ReqSize)
<1>1. CanRead
  BY DEF FromFile, FromFileError
<1>2. ReqSize \in Nat /\ fpos_read \in Nat
  BY <1>1, ReadMaxAssumption DEF IInv, TypeOK, ReqSize, CanRead
<1>3. Len(all) \in Nat /\ Len(all) <= ReqSize
  <2>1. recorded \in Seq(Bytes) /\ fileSize \in Nat
    BY DEF IInv, TypeOK
  <2>2. all \in Seq(Bytes) /\ Len(all) <= ReqSize
    BY <1>2, <2>1, TsBytesRead
  <2> HIDE DEF all
  <2> QED
    BY <2>2
<1> HIDE DEF all
<1>4. CASE FromFile
  <2> DEFINE status == IF Len(all) < ReqSize THEN "eof" ELSE "open"
  <2>1. Fread(Len(all), status)
    BY <1>4 DEF FromFile, all
  <2>2. status \in {"open", "eof", "err"} /\ (status = "eof" => Len(all) < ReqSize)
    OBVIOUS
  <2> HIDE DEF status
  <2> QED
    BY <1>1, <1>3, <2>1, <2>2, FreadIInv DEF all
<1>5. CASE FromFileError
  <2>1. PICK count \in 0..Len(all) : count < ReqSize /\ Fread(count, "err")
    BY <1>5 DEF FromFileError, all
  <2>2. count \in Nat /\ count <= Len(all)
    BY <1>3
  <2> QED
    BY <1>1, <2>1, <2>2, FreadIInv DEF all
<1> QED
  BY <1>4, <1>5

\* The data in hand goes to the pipe.
LEMMA WriteDataIInv ==
  ASSUME IInv, WriteData
  PROVE  IInv'
<1> USE DEF WriteData, fileVars, buffVars
<1>1. /\ fpos_read \in Nat /\ Len(ret_data) \in Nat /\ Len(delivered) \in Nat
      /\ delivered \in Seq(Bytes) /\ ret_data \in Seq(Bytes)
      /\ fpos_read = Len(delivered)
  BY DEF IInv, TypeOK, SenderInv
<1>2. /\ delivered' \in Seq(Bytes)
      /\ Len(delivered') = Len(delivered) + Len(ret_data)
      /\ fpos_read' = Len(delivered')
      /\ Len(ret_data') = 0
  BY <1>1
<1>3. TypeOK'
  BY <1>1, <1>2 DEF IInv, TypeOK, Calls
<1>4. RecorderInv' /\ QueueInv'
  BY DEF IInv, RecorderInv, QueueInv
<1>5. \A j : TsByte(j)' = TsByte(j)
  BY DEF TsByte
<1>6. \A j \in 1..Len(delivered') : delivered'[j] = TsByte(j)
  <2>1. ASSUME NEW j \in 1..Len(delivered')
        PROVE  delivered'[j] = TsByte(j)
    <3>1. CASE j <= Len(delivered)
      <4>1. delivered'[j] = delivered[j]
        BY <1>1, <3>1
      <4> QED
        BY <1>1, <3>1, <4>1 DEF IInv, SenderInv
    <3>2. CASE Len(delivered) < j
      <4>1. j - Len(delivered) \in 1..Len(ret_data)
        BY <1>1, <1>2, <3>2
      <4>2. delivered'[j] = ret_data[j - Len(delivered)]
        BY <1>1, <1>2, <3>2
      <4>3. fpos_read + (j - Len(delivered)) = j
        BY <1>1
      <4> QED
        BY <4>1, <4>2, <4>3 DEF IInv, SenderInv
    <3> QED
      BY <1>1, <1>2, <3>1, <3>2
  <2> QED
    BY <2>1
<1>7. SenderInv'
  BY <1>1, <1>2, <1>5, <1>6 DEF IInv, SenderInv
<1>8. FileReadInv' /\ EofInv'
  BY <1>1, <1>2 DEF IInv, FileReadInv, EofInv
<1> QED
  BY <1>3, <1>4, <1>7, <1>8 DEF IInv

\* A part of it goes, and the sender ends.
LEMMA WriteFailsIInv ==
  ASSUME IInv, NEW sent \in 0..Len(ret_data), WriteFailsAt(sent)
  PROVE  IInv'
<1> USE DEF WriteFailsAt, fileVars, buffVars
<1>1. /\ fpos_read \in Nat /\ Len(ret_data) \in Nat /\ Len(delivered) \in Nat
      /\ delivered \in Seq(Bytes) /\ ret_data \in Seq(Bytes)
      /\ fpos_read = Len(delivered)
  BY DEF IInv, TypeOK, SenderInv
<1>2. delivered' = delivered \o SubSeq(ret_data, 1, sent)
  OBVIOUS
<1> DEFINE part == SubSeq(ret_data, 1, sent)
<1>3. /\ part \in Seq(Bytes)
      /\ Len(part) = sent /\ sent \in Nat
      /\ \A j \in 1..sent : part[j] = ret_data[j]
  <2>1. sent \in Nat /\ sent <= Len(ret_data)
    BY <1>1, <1>2
  <2>2. \A j \in 1..sent : j \in 1..Len(ret_data) /\ ret_data[j] \in Bytes
    BY <1>1, <2>1
  <2>3. Len(part) = sent /\ \A j \in 1..sent : part[j] = ret_data[j]
    BY <1>1, <2>1
  <2>4. part = [j \in 1..sent |-> ret_data[j]]
    BY <1>1, <2>1
  <2>5. part \in Seq(Bytes)
    <3> HIDE DEF part
    <3> QED
      BY <2>1, <2>2, <2>4
  <2> QED
    BY <2>1, <2>3, <2>5
<1> HIDE DEF part
<1>4. delivered' = delivered \o part
  BY <1>2 DEF part
<1>5. delivered' \in Seq(Bytes) /\ Len(delivered') = Len(delivered) + sent
  BY <1>1, <1>3, <1>4, ConcatBytes, Zenon
<1>6. TypeOK'
  BY <1>5 DEF IInv, TypeOK, Calls
<1>7. RecorderInv' /\ QueueInv'
  BY DEF IInv, RecorderInv, QueueInv
<1>8. \A j : TsByte(j)' = TsByte(j)
  BY DEF TsByte
<1>9. \A j \in 1..Len(delivered') : delivered'[j] = TsByte(j)
  <2>1. ASSUME NEW j \in 1..Len(delivered')
        PROVE  delivered'[j] = TsByte(j)
    <3>1. CASE j <= Len(delivered)
      <4>1. delivered'[j] = delivered[j]
        BY <1>1, <1>3, <1>4, <3>1
      <4> QED
        BY <1>1, <3>1, <4>1 DEF IInv, SenderInv
    <3>2. CASE Len(delivered) < j
      <4>1. j - Len(delivered) \in 1..sent /\ j - Len(delivered) \in 1..Len(ret_data)
        BY <1>1, <1>2, <1>5, <3>2
      <4>2. delivered'[j] = part[j - Len(delivered)]
        BY <1>1, <1>3, <1>4, <1>5, <3>2
      <4>3. fpos_read + (j - Len(delivered)) = j
        BY <1>1
      <4> QED
        BY <1>3, <4>1, <4>2, <4>3 DEF IInv, SenderInv
    <3> QED
      BY <1>1, <1>5, <3>1, <3>2
  <2> QED
    BY <2>1
<1>10. SenderInv'
  <2>1. Len(delivered') <= fpos_read + Len(ret_data)
    BY <1>1, <1>2, <1>5
  <2>2. fpos_write \in Nat /\ fileSize \in Nat /\ Len(delivered') \in Nat /\ Len(ret_data') = 0
    BY <1>5 DEF IInv, TypeOK
  <2>3. \A i \in 1..Len(que) : que[i].fpos \in Nat
    BY BlockTypes DEF IInv, TypeOK
  <2> QED
    BY <1>1, <1>8, <1>9, <2>1, <2>2, <2>3 DEF IInv, SenderInv
<1>11. FileReadInv' /\ EofInv'
  BY DEF IInv, FileReadInv, EofInv
<1> QED
  BY <1>6, <1>7, <1>10, <1>11 DEF IInv

LEMMA StutterIInv ==
  ASSUME IInv, UNCHANGED vars
  PROVE  IInv'
BY DEF vars, IInv, TypeOK, RecorderInv, QueueInv, SenderInv, FileReadInv, EofInv,
       TsByte

\* Every step preserves it.
LEMMA StepIInv ==
  ASSUME IInv, [Next]_vars
  PROVE  IInv'
<1>1. CASE \E n \in 1..MaxChunk : RecordWrite(n)
  BY <1>1, RecordWriteIInv
<1>2. CASE AppendLocked
  BY <1>2, AppendLockedIInv
<1>3. CASE AppendTimeout
  BY <1>3, AppendTimeoutIInv
<1>4. CASE RecordStop \/ RecordFail \/ RecordFailed
  BY <1>4, RecorderEndIInv
<1>5. CASE \/ LoopRecording \/ LoopFinished \/ GetNextLock \/ GetNextNothing
           \/ FromFileRefused
  BY <1>5, SenderMovesIInv
<1>6. CASE GetNextFromBuff
  BY <1>6, GetNextFromBuffIInv
<1>7. CASE GetNextMiss
  BY <1>7, GetNextMissIInv
<1>8. CASE FromFile \/ FromFileError
  BY <1>8, FromFileIInv
<1>9. CASE WriteData
  BY <1>9, WriteDataIInv
<1>10. CASE WriteFails
  BY <1>10, WriteFailsIInv DEF WriteFails
<1>11. CASE Terminated \/ UNCHANGED vars
  BY <1>11, StutterIInv DEF Terminated
<1> QED
  BY <1>1, <1>2, <1>3, <1>4, <1>5, <1>6, <1>7, <1>8, <1>9, <1>10, <1>11
     DEF Next, RecorderNext, SenderNext

\* The invariant holds in every reachable state.
THEOREM Invariance == Spec => []IInv
<1>1. Init => IInv
  BY InitIInv
<1>2. IInv /\ [Next]_vars => IInv'
  BY StepIInv
<1> QED
  BY <1>1, <1>2, PTL DEF Spec

-----------------------------------------------------------------------------
(* What follows from it.                                                   *)

\* Every variable keeps its type.
THEOREM TypeCorrect == Spec => []TypeOK
<1>1. IInv => TypeOK
  BY DEF IInv
<1> QED
  BY <1>1, Invariance, PTL

\* Two byte sequences, one at most as long and equal as far as it goes.
LEMMA PrefixByElements ==
  ASSUME NEW s \in Seq(Bytes), NEW t \in Seq(Bytes), Len(s) <= Len(t),
         \A j \in 1..Len(s) : s[j] = t[j]
  PROVE  IsPrefix(s, t)
<1>1. SubSeq(s, 1, Len(s)) = SubSeq(t, 1, Len(s))
  OBVIOUS
<1> QED
  BY <1>1 DEF IsPrefix

\* The pipe is given a prefix of the recording, while it lasts and after a
\* normal stop, for every buffer, read and chunk size and any preallocation.
THEOREM PrefixDelivered == Spec => []DeliveredIsPrefix
<1>1. IInv => DeliveredIsPrefix
  <2> SUFFICES ASSUME IInv, recorder \in {"recording", "stopped"}
               PROVE  IsPrefix(delivered, recorded)
    BY DEF DeliveredIsPrefix
  <2>1. /\ delivered \in Seq(Bytes) /\ recorded \in Seq(Bytes)
        /\ Len(delivered) \in Nat /\ Len(recorded) \in Nat
        /\ fpos_write \in Nat /\ Len(pending) \in Nat
    BY DEF IInv, TypeOK
  <2>2. Len(delivered) <= Len(recorded)
    BY <2>1 DEF IInv, SenderInv, RecorderInv
  <2>3. \A j \in 1..Len(delivered) : delivered[j] = recorded[j]
    BY <2>1, <2>2 DEF IInv, SenderInv, TsByte
  <2> QED
    BY <2>1, <2>2, <2>3, PrefixByElements
<1> QED
  BY <1>1, Invariance, PTL

\* Every block in the buffer is a piece of the file.
THEOREM BlocksMatch == Spec => []BlocksMatchFile
<1>1. IInv => BlocksMatchFile
  <2> SUFFICES ASSUME IInv, NEW i \in DOMAIN que
               PROVE  /\ que[i].fpos + Len(que[i].data) <= Len(recorded)
                      /\ que[i].data = SubSeq(recorded, que[i].fpos + 1,
                                              que[i].fpos + Len(que[i].data))
    BY DEF BlocksMatchFile
  <2> DEFINE p == que[i].fpos
             d == que[i].data
  <2>1. que \in Seq(Block) /\ i \in 1..Len(que)
    BY DEF IInv, TypeOK
  <2>2. p \in Nat /\ d \in Seq(Bytes) /\ Len(d) \in Nat
    BY <2>1, BlockTypes
  <2>3. p + Len(d) <= Len(recorded)
    BY <2>1, <2>2 DEF IInv, TypeOK, QueueInv, RecorderInv
  <2>4. \A j \in 1..Len(d) : d[j] = recorded[p + j]
    BY <2>1 DEF IInv, QueueInv
  <2>5. recorded \in Seq(Bytes)
    BY DEF IInv, TypeOK
  <2> HIDE DEF p, d
  <2>6. d = SubSeq(recorded, p + 1, p + Len(d))
    BY <2>2, <2>3, <2>4, <2>5
  <2> QED
    BY <2>3, <2>6 DEF p, d
<1> QED
  BY <1>1, Invariance, PTL

\* Until the recording is over the sender stays below every block.
THEOREM BuffAhead == Spec => []BuffAheadOfReader
<1>1. IInv => BuffAheadOfReader
  <2>1. ASSUME IInv PROVE DOMAIN que = 1..Len(que)
    BY <2>1 DEF IInv, TypeOK
  <2> QED
    BY <2>1 DEF IInv, SenderInv, BuffAheadOfReader
<1> QED
  BY <1>1, Invariance, PTL

\* The sticky end of the stream is met only on a complete file.
THEOREM EofAfterFinish == Spec => []EofOnlyAfterFinish
<1>1. IInv => EofOnlyAfterFinish
  BY DEF IInv, EofInv, EofOnlyAfterFinish
<1> QED
  BY <1>1, Invariance, PTL

\* A sender that ends at the end of the file has sent all of the recording.
THEOREM ExitComplete == Spec => []ExitSentAll
<1>1. IInv => ExitSentAll
  <2> SUFFICES ASSUME IInv, call = "exit", fp = "eof", recorder = "stopped"
               PROVE  delivered = recorded
    BY DEF ExitSentAll
  <2>1. delivered \in Seq(Bytes) /\ recorded \in Seq(Bytes)
    BY DEF IInv, TypeOK
  <2>2. ret_data = <<>> /\ fpos_read = Len(delivered) /\ Len(recorded) = fileSize
    BY DEF IInv, SenderInv, RecorderInv
  <2>3. Len(delivered) = Len(recorded)
    BY <2>1, <2>2 DEF IInv, TypeOK, EofInv
  <2>4. \A j \in 1..Len(delivered) : delivered[j] = recorded[j]
    BY <2>1, <2>3 DEF IInv, SenderInv, TsByte
  <2> QED
    BY <2>1, <2>3, <2>4
<1> QED
  BY <1>1, Invariance, PTL

-----------------------------------------------------------------------------
(* The buffer's limit.                                                     *)

\* The limit and one chunk more can be counted in a DWORD: an int limit and
\* chunks of at most 2 GiB.
NoWrap == BuffMax + MaxChunk < DWord

\* No chunk is larger than a WriteFile's, and the buffer keeps its limit.
BoundInv == Len(pending) <= MaxChunk /\ BuffBounded

LEMMA StepBoundInv ==
  ASSUME NoWrap, IInv, BoundInv, [Next]_vars
  PROVE  BoundInv'
<1>1. ASSUME NEW n \in 1..MaxChunk, RecordWrite(n)
      PROVE  BoundInv'
  <2>1. n \in Nat
    BY BoundsAssumption
  <2>2. Len(pending') = n
    BY <1>1, <2>1, FreshBytes DEF RecordWrite, IInv, TypeOK
  <2> QED
    BY <1>1, <2>1, <2>2, BoundsAssumption DEF RecordWrite, buffVars, BoundInv, BuffBounded
<1>2. CASE AppendLocked
  <2> DEFINE b == [fpos |-> fpos_write, data |-> pending]
  <2>1. que' = BuffAppend(que, b) /\ pending' = <<>>
    BY <1>2 DEF AppendLocked
  <2>2. b \in Block /\ Len(b.data) <= MaxChunk /\ que \in Seq(Block)
    BY DEF IInv, TypeOK, Block, BoundInv
  <2>3. que # <<>> => SizeSum(que) <= BuffMax
    BY DEF BoundInv, BuffBounded
  <2> HIDE DEF b
  <2>4. BuffAppend(que, b) # <<>> => SizeSum(BuffAppend(que, b)) <= BuffMax
    BY <2>2, <2>3, BuffAppendBounded DEF NoWrap
  <2>5. que' # <<>> => SizeSum(que') <= BuffMax
    BY <2>1, <2>4
  <2> QED
    BY <2>1, <2>5, BoundsAssumption DEF BoundInv, BuffBounded
<1>3. CASE GetNextFromBuff
  <2>1. pending' = pending /\ que \in Seq(Block) /\ fpos_read \in Nat
    BY <1>3 DEF GetNextFromBuff, IInv, TypeOK
  <2>2. PICK k \in 1..Len(que) : BuffAfterGet(que, fpos_read) = Drop(que, k)
    BY <1>3, <2>1, BuffGetBlock DEF GetNextFromBuff
  <2>3. que' = Drop(que, k)
    BY <1>3, <2>2 DEF GetNextFromBuff
  <2>4. SizeSum(Drop(que, k)) \in Nat /\ SizeSum(Drop(que, k)) <= SizeSum(que)
    BY <2>1, SizeSumDrop
  <2>5. SizeSum(que) \in Nat
    <3>1. Drop(que, 0) = que /\ 0 \in 0..Len(que)
      BY <2>1 DEF Drop
    <3> QED
      BY <2>1, <3>1, SizeSumDrop
  <2>6. que # <<>>
    OBVIOUS
  <2> QED
    BY <2>1, <2>3, <2>4, <2>5, <2>6, BuffMaxAssumption DEF BoundInv, BuffBounded
<1>4. CASE AppendTimeout
  BY <1>4, BoundsAssumption DEF AppendTimeout, BoundInv, BuffBounded
<1>5. CASE RecordStop \/ RecordFail \/ RecordFailed
  BY <1>5 DEF RecordStop, RecordFail, RecordFailed, buffVars, BoundInv, BuffBounded
<1>6. CASE SenderNext /\ ~GetNextFromBuff
  BY <1>6 DEF SenderNext, LoopRecording, LoopFinished, GetNextLock,
              GetNextNothing, GetNextMiss, FromFileRefused, FromFile,
              FromFileError, Fread, WriteData, WriteFails, WriteFailsAt,
              buffVars, BoundInv, BuffBounded
<1>7. CASE Terminated \/ UNCHANGED vars
  BY <1>7 DEF Terminated, vars, BoundInv, BuffBounded
<1> QED
  BY <1>1, <1>2, <1>3, <1>4, <1>5, <1>6, <1>7 DEF Next, RecorderNext

\* The buffer never holds more bytes than its limit, for every limit (also a
\* negative one, which keeps nothing), every chunking and every place where
\* the sender takes blocks out, as long as the DWORD sum cannot wrap.
THEOREM QueueBounded ==
  ASSUME NoWrap
  PROVE  Spec => []BuffBounded
<1>1. Init => BoundInv
  BY BoundsAssumption DEF Init, BoundInv, BuffBounded
<1>2. IInv /\ BoundInv /\ [Next]_vars => BoundInv'
  BY StepBoundInv
<1>3. BoundInv => BuffBounded
  BY DEF BoundInv
<1> QED
  BY <1>1, <1>2, <1>3, Invariance, PTL DEF Spec

-----------------------------------------------------------------------------
(* Without a preallocated tail, or without a failing WriteFile, nothing but *)
(* the recording is ever sent, and the reader implements the virtual file.  *)

NoTail == CreateSize = 0 \/ ~WriteErrors

\* There is no preallocated tail, or no failure.
TailInv ==
  /\ CreateSize = 0 => fileSize = Len(recorded)
  /\ ~WriteErrors => recorder \in {"recording", "stopped"}

LEMMA TailInvariance == Spec => []TailInv
<1>1. Init => TailInv
  BY DEF Init, TsCreate, TailInv
<1>2. IInv /\ TailInv /\ [Next]_vars => TailInv'
  <2> SUFFICES ASSUME IInv, TailInv, [Next]_vars PROVE TailInv'
    OBVIOUS
  <2>1. ASSUME NEW n \in 1..MaxChunk, RecordWrite(n)
        PROVE  TailInv'
    <3>1. n \in Nat /\ n > 0 /\ Len(recorded) \in Nat
      BY BoundsAssumption DEF IInv, TypeOK
    <3>2. Len(recorded') = Len(recorded) + n /\ Len(Fresh(n)) = n
      BY <2>1, <3>1, FreshBytes DEF IInv, TypeOK, RecordWrite, TsWrite
    <3>3. fileSize' = IF fileSize < Len(recorded) + n THEN Len(recorded) + n ELSE fileSize
      BY <2>1, <3>2 DEF RecordWrite, TsWrite
    <3>4. recorder' = recorder
      BY <2>1 DEF RecordWrite
    <3> QED
      BY <3>1, <3>2, <3>3, <3>4 DEF TailInv
  <2>2. CASE RecordStop \/ RecordFail \/ RecordFailed
    BY <2>2 DEF RecordStop, RecordFail, RecordFailed, TsSetEndOfFile, TailInv, fileVars
  <2>3. CASE AppendLocked \/ AppendTimeout
    BY <2>3 DEF AppendLocked, AppendTimeout, TailInv, fileVars
  <2>4. CASE SenderNext
    BY <2>4 DEF SenderNext, LoopRecording, LoopFinished, GetNextLock,
                GetNextNothing, GetNextFromBuff, GetNextMiss, FromFileRefused,
                FromFile, FromFileError, Fread, WriteData, WriteFails,
                WriteFailsAt, TailInv, fileVars
  <2>5. CASE Terminated \/ UNCHANGED vars
    BY <2>5 DEF Terminated, vars, TailInv
  <2> QED
    BY <2>1, <2>2, <2>3, <2>4, <2>5 DEF Next, RecorderNext
<1> QED
  BY <1>1, <1>2, Invariance, PTL DEF Spec

LEMMA OnlyWritten ==
  ASSUME NoTail, IInv, TailInv, recorder # "failed"
  PROVE  Len(delivered) <= Len(recorded) /\ SendsOnlyWritten
<1>1. /\ delivered \in Seq(Bytes) /\ recorded \in Seq(Bytes)
      /\ Len(delivered) \in Nat /\ Len(recorded) \in Nat
      /\ fpos_write \in Nat /\ Len(pending) \in Nat
  BY DEF IInv, TypeOK
<1>2. Len(delivered) <= Len(recorded)
  BY <1>1 DEF IInv, TypeOK, SenderInv, RecorderInv, TailInv, NoTail
<1>3. \A j \in 1..Len(delivered) : delivered[j] = recorded[j]
  BY <1>1, <1>2 DEF IInv, SenderInv, TsByte
<1> QED
  BY <1>1, <1>2, <1>3, PrefixByElements DEF SendsOnlyWritten

\* A failing WriteFile does no harm to a file without a preallocated tail, nor
\* the tail to a recording without a failure: together they do (the run
\* WriteErrorPrealloc).
THEOREM OnlyWrittenSent ==
  ASSUME NoTail
  PROVE  Spec => []SendsOnlyWritten
<1> DEFINE FailedInv == recorder = "failed" => SendsOnlyWritten
<1>1. Init => FailedInv
  BY DEF Init
<1>2. IInv /\ TailInv /\ FailedInv /\ [Next]_vars => FailedInv'
  <2> SUFFICES ASSUME IInv, TailInv, FailedInv, [Next]_vars, recorder' = "failed"
               PROVE  SendsOnlyWritten'
    OBVIOUS
  <2>1. CASE RecordFailed
    <3>1. recorder # "failed" /\ recorded' = recorded /\ delivered' = delivered
      BY <2>1 DEF RecordFailed, TsSetEndOfFile
    <3> QED
      BY <3>1, OnlyWritten DEF SendsOnlyWritten
  <2>2. CASE recorder = "failed"
    <3>1. call \in {"exit", "quit"} /\ pending = <<>>
      BY <2>2 DEF IInv, RecorderInv
    <3>2. recorded' = recorded /\ delivered' = delivered
      BY <2>2, <3>1
         DEF Next, RecorderNext, SenderNext, RecordWrite, AppendLocked, AppendTimeout,
             RecordStop, RecordFail, RecordFailed, LoopRecording, LoopFinished,
             GetNextLock, GetNextNothing, GetNextFromBuff, GetNextMiss,
             FromFileRefused, FromFile, FromFileError, CanRead, WriteData,
             WriteFails, WriteFailsAt, Terminated, vars
    <3> QED
      BY <2>2, <3>2 DEF SendsOnlyWritten
  <2>3. recorder = "failed" \/ RecordFailed
    BY DEF Next, RecorderNext, SenderNext, RecordWrite, AppendLocked, AppendTimeout,
           RecordStop, RecordFail, LoopRecording, LoopFinished,
           GetNextLock, GetNextNothing, GetNextFromBuff, GetNextMiss,
           FromFileRefused, FromFile, FromFileError, Fread, WriteData,
           WriteFails, WriteFailsAt, Terminated, vars
  <2> QED
    BY <2>1, <2>2, <2>3
<1>3. IInv /\ TailInv /\ FailedInv => SendsOnlyWritten
  BY OnlyWritten
<1> QED
  BY <1>1, <1>2, <1>3, Invariance, TailInvariance, PTL DEF Spec

\* Every sequence is a prefix of itself and of what stands behind it.
LEMMA PrefixOfConcat ==
  ASSUME NEW s \in Seq(Bytes), NEW t \in Seq(Bytes)
  PROVE  IsPrefix(s, s) /\ IsPrefix(s, s \o t)
<1>1. IsPrefix(s, s)
  BY PrefixByElements
<1>2. IsPrefix(s, s \o t)
  <2>1. s \o t \in Seq(Bytes) /\ Len(s \o t) = Len(s) + Len(t)
    BY ConcatBytes
  <2>2. \A j \in 1..Len(s) : s[j] = (s \o t)[j]
    BY ConcatBytes
  <2>3. Len(s) <= Len(s \o t)
    BY <2>1
  <2> QED
    BY <2>1, <2>2, <2>3, PrefixByElements
<1> QED
  BY <1>1, <1>2

\* A step of the recorder that moves bytes or ends the recording.
LEMMA RecorderRefines ==
  ASSUME IInv, \/ \E n \in 1..MaxChunk : RecordWrite(n)
               \/ AppendLocked \/ AppendTimeout
               \/ RecordStop \/ RecordFail \/ RecordFailed
  PROVE  [VF!Next]_VF!vars
<1> USE DEF fileVars, buffVars, readVars, VF!vars, Finished
<1>1. CASE \E n \in 1..MaxChunk : RecordWrite(n)
  <2>1. PICK n \in 1..MaxChunk : RecordWrite(n)
    BY <1>1
  <2>2. n \in Nat /\ recorded \in Seq(Bytes)
    BY BoundsAssumption DEF IInv, TypeOK
  <2>3. Fresh(n) \in Seq(Bytes) /\ recorded' = recorded \o Fresh(n)
    BY <2>1, <2>2, FreshBytes DEF RecordWrite, TsWrite
  <2>4. IsPrefix(recorded, recorded')
    BY <2>2, <2>3, PrefixOfConcat
  <2>5. VF!Record
    BY <2>1, <2>4 DEF RecordWrite, VF!Record, IsPrefix, VF!IsPrefix
  <2> QED
    BY <2>5 DEF VF!Next
<1>2. CASE AppendLocked \/ AppendTimeout
  BY <1>2 DEF AppendLocked, AppendTimeout
<1>3. CASE RecordStop \/ RecordFail
  <2>1. VF!Close
    BY <1>3 DEF RecordStop, RecordFail, TsSetEndOfFile, VF!Close
  <2> QED
    BY <2>1 DEF VF!Next
<1>4. CASE RecordFailed
  BY <1>4 DEF RecordFailed, TsSetEndOfFile
<1> QED
  BY <1>1, <1>2, <1>3, <1>4

\* A step of the sender.
LEMMA SenderRefines ==
  ASSUME IInv, SenderNext, SendsOnlyWritten, SendsOnlyWritten',
         LoopFinished /\ call' = "exit" /\ fp = "eof" => delivered = recorded
  PROVE  [VF!Next]_VF!vars
<1> USE DEF fileVars, buffVars, readVars, VF!vars, Finished
<1>1. CASE \/ LoopRecording \/ GetNextLock \/ GetNextNothing \/ GetNextFromBuff
           \/ GetNextMiss \/ FromFileRefused
  BY <1>1 DEF LoopRecording, GetNextLock, GetNextNothing, GetNextFromBuff,
              GetNextMiss, FromFileRefused
<1>2. CASE FromFile \/ FromFileError
  BY <1>2 DEF FromFile, FromFileError, Fread, CanRead
<1>3. CASE LoopFinished
  <2>1. CASE call' = "getnext"
    BY <1>3, <2>1 DEF LoopFinished
  <2>2. CASE call' = "exit" /\ fp = "eof"
    <3>1. VF!Complete
      BY <1>3, <2>2 DEF LoopFinished, VF!Complete
    <3> QED
      BY <3>1 DEF VF!Next
  <2>3. CASE call' = "exit" /\ fp # "eof"
    <3>1. IsPrefix(delivered, delivered)
      BY PrefixOfConcat DEF IInv, TypeOK
    <3>2. VF!Abandon
      BY <1>3, <2>3, <3>1 DEF LoopFinished, SendsOnlyWritten, VF!Abandon, IsPrefix, VF!IsPrefix
    <3> QED
      BY <3>2 DEF VF!Next
  <2> QED
    BY <1>3, <2>1, <2>2, <2>3 DEF LoopFinished
<1>4. CASE WriteData
  <2>1. IsPrefix(delivered, delivered')
    BY <1>4, PrefixOfConcat DEF IInv, TypeOK, WriteData
  <2>2. VF!Deliver
    BY <1>4, <2>1 DEF WriteData, SendsOnlyWritten, VF!Deliver, IsPrefix, VF!IsPrefix
  <2> QED
    BY <2>2 DEF VF!Next
<1>5. CASE WriteFails
  <2>1. PICK sent \in 0..Len(ret_data) : delivered' = delivered \o SubSeq(ret_data, 1, sent)
    BY <1>5 DEF WriteFails, WriteFailsAt
  <2>2. SubSeq(ret_data, 1, sent) \in Seq(Bytes)
    <3>1. ret_data \in Seq(Bytes) /\ sent \in Nat /\ sent <= Len(ret_data)
      BY DEF IInv, TypeOK
    <3> QED
      BY <3>1
  <2>3. IsPrefix(delivered, delivered')
    BY <2>1, <2>2, PrefixOfConcat DEF IInv, TypeOK
  <2>4. VF!Abandon
    BY <1>5, <2>3 DEF WriteFails, WriteFailsAt, SendsOnlyWritten, VF!Abandon,
                         IsPrefix, VF!IsPrefix
  <2> QED
    BY <2>4 DEF VF!Next
<1> QED
  BY <1>1, <1>2, <1>3, <1>4, <1>5 DEF SenderNext

\* The reader with its buffer, its file and its two threads implements the
\* virtual file of FileReader.h:2-4.
THEOREM Refinement ==
  ASSUME NoTail
  PROVE  Spec => ImplementsVirtualFile
<1>1. Init => VF!Init
  BY DEF Init, TsCreate, VF!Init, Finished
<1>2. IInv /\ TailInv /\ SendsOnlyWritten /\ SendsOnlyWritten' /\ [Next]_vars
        => [VF!Next]_VF!vars
  <2> SUFFICES ASSUME IInv, TailInv, SendsOnlyWritten, SendsOnlyWritten', [Next]_vars
               PROVE  [VF!Next]_VF!vars
    OBVIOUS
  <2>1. CASE RecorderNext
    BY <2>1, RecorderRefines DEF RecorderNext
  <2>2. CASE SenderNext
    <3>1. ASSUME LoopFinished, call' = "exit", fp = "eof"
          PROVE  delivered = recorded
      <4>1. recorder # "failed" /\ call = "top"
        BY <3>1 DEF LoopFinished, IInv, RecorderInv
      <4>2. delivered \in Seq(Bytes) /\ recorded \in Seq(Bytes) /\ ret_data = <<>>
        BY <4>1 DEF IInv, TypeOK, SenderInv
      <4>3. Len(delivered) = fileSize
        BY <3>1, <4>1, <4>2 DEF IInv, TypeOK, SenderInv, EofInv
      <4>4. Len(delivered) = Len(recorded)
        BY <4>1, <4>2, <4>3, OnlyWritten DEF IInv, TypeOK, RecorderInv
      <4>5. \A j \in 1..Len(delivered) : delivered[j] = recorded[j]
        BY <4>2, <4>4 DEF IInv, SenderInv, TsByte
      <4> QED
        BY <4>2, <4>4, <4>5
    <3> QED
      BY <2>2, <3>1, SenderRefines
  <2>3. CASE Terminated \/ UNCHANGED vars
    BY <2>3 DEF Terminated, vars, VF!vars, Finished
  <2> QED
    BY <2>1, <2>2, <2>3 DEF Next
<1> QED
  BY <1>1, <1>2, Invariance, TailInvariance, OnlyWrittenSent, PTL
     DEF Spec, ImplementsVirtualFile, VF!Spec
=============================================================================
