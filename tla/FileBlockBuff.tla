--------------------------- MODULE FileBlockBuff ----------------------------
(***************************************************************************)
(* FileBlockBuff (FileBlockBuff.h): the queue of recent file blocks each   *)
(* FileReader keeps, as operators on a sequence of blocks.  The three      *)
(* parallel deques Que_fpos, Que_Data and Que_Size are one sequence of     *)
(* records; the size of a block is the length of its data.                 *)
(***************************************************************************)
EXTENDS Integers, Sequences, SequencesExt

\* The buffer's limit in bytes.  PipeServer.cpp:66 casts a double to int, so
\* it can be zero or negative.
\* DWord is the number of values of a DWORD, 2^32 in the program: what the
\* sizes of the blocks are counted in.
CONSTANTS BuffMax, DWord
ASSUME BuffMaxAssumption == BuffMax \in Int
ASSUME DWordAssumption == DWord \in Nat \ {0} /\ BuffMax < DWord

\* The bytes held by the queue q.
SizeSum(q) ==
  LET sum[k \in 0..Len(q)] == IF k = 0 THEN 0 ELSE sum[k - 1] + Len(q[k].data)
  IN  sum[Len(q)]

\* What the program takes them for: the sum is a DWORD and wraps.
GetCurSize(q) == SizeSum(q) % DWord

\* The file position of the oldest block, -1 when the queue is empty.
GetTopPos(q) == IF q = <<>> THEN -1 ELSE Head(q).fpos

\* q without its first k blocks.
Drop(q, k) == SubSeq(q, k + 1, Len(q))

\* A new block of the given size can stand behind q.  DWORD + DWORD is a DWORD
\* before it is compared with the limit.
Fits(q, size) == (GetCurSize(q) + size) % DWord <= BuffMax

\* The dequeue loop of Append: the oldest blocks go, no more of them than it
\* takes for the new block to fit, all of them when it never does.
Evict(q, size) ==
  Drop(q, Min({k \in 0..Len(q) : k = Len(q) \/ Fits(Drop(q, k), size)}))

\* A wrong variant: the new block is kept whether it fits or not.
BuffAppendAlways(q, block) == Append(Evict(q, Len(block.data)), block)

\* Append(fpos, data, size).  A block larger than the buffer empties the
\* queue and is not kept.
BuffAppend(q, block) ==
  LET rest == Evict(q, Len(block.data))
  IN  IF Fits(rest, Len(block.data)) THEN Append(rest, block) ELSE rest

\* The blocks that start at file position p.
StartingAt(q, p) == {i \in DOMAIN q : q[i].fpos = p}

HasBlockAt(q, p) == StartingAt(q, p) # {}

\* GetData(req_fpos): the first such block, and the queue without it and
\* without the blocks in front of it.
BuffGetData(q, p) == q[Min(StartingAt(q, p))].data
BuffAfterGet(q, p) == Drop(q, Min(StartingAt(q, p)))
=============================================================================
