----------------------------- MODULE PipeWriter -----------------------------
(***************************************************************************)
(* What NamedPipe.h and AnonPipe.h have in common: one byte-mode pipe of   *)
(* Windows with the client process at its other end.  Both are external to *)
(* the repository; they are modelled from how the two classes use them.    *)
(*                                                                         *)
(* A write hands all of its data over at once and completes when the data  *)
(* that is not yet read fits the pipe's quota; until then it is pending.   *)
(***************************************************************************)
EXTENDS Integers, Sequences

CONSTANT PipeSize         \* the pipe's quota, 1024 * 128 in both classes
ASSUME PipeSizeAssumption == PipeSize \in Nat

VARIABLES
  client,      \* the client process and the read end, see below
  hWritePipe,  \* the write end: "none" (not created), "open" or "closed"
  pipe,        \* the bytes written and not read yet
  received,    \* history: the bytes the client has read
  op           \* the WriteFile under way, see below

pipeVars == <<client, hWritePipe, pipe, received, op>>

\* "none": no process was started; "starting": it runs and has not opened the
\* pipe; "connected": it holds the read end; "dead": it ended without having
\* opened it; "gone": it had opened it and holds it no longer; "leaked": there
\* is no client but the read end is open in this process.
Clients == {"none", "starting", "connected", "dead", "gone", "leaked"}

\* "none": no write under way; "pending" and "done" for one that was accepted;
\* "broken": the read end was closed while it was pending, which completes it
\* with an error; "refused": WriteFile itself failed, nothing is under way and
\* its event will never be signalled.
Ops == {"none", "pending", "done", "broken", "refused"}

PipeTypeOK ==
  /\ client \in Clients
  /\ hWritePipe \in {"none", "open", "closed"}
  /\ pipe \in Seq(Nat)
  /\ received \in Seq(Nat)
  /\ op \in Ops

HasReader == client \in {"connected", "leaked"}

\* The state of a write when q is what the pipe holds.
OpWith(q) == IF Len(q) <= PipeSize THEN "done" ELSE "pending"

\* WriteFile accepts the data d.
Accept(d) ==
  /\ op = "none"
  /\ hWritePipe = "open"
  /\ HasReader
  /\ pipe' = pipe \o d
  /\ op' = OpWith(pipe')
  /\ UNCHANGED <<client, hWritePipe, received>>

\* The write that has completed is reported to the caller.
Return ==
  /\ op' = "none"
  /\ UNCHANGED <<client, hWritePipe, pipe, received>>

\* The client reads n bytes.
ClientRead(n) ==
  /\ client = "connected"
  /\ n <= Len(pipe)
  /\ received' = received \o SubSeq(pipe, 1, n)
  /\ pipe' = SubSeq(pipe, n + 1, Len(pipe))
  /\ op' = IF op = "pending" THEN OpWith(pipe') ELSE op
  /\ UNCHANGED <<client, hWritePipe>>

\* The client ends, or closes its end of the pipe.
ClientExit ==
  /\ client \in {"starting", "connected"}
  /\ client' = IF client = "connected" THEN "gone" ELSE "dead"
  /\ pipe' = <<>>
  /\ op' = IF op = "pending" THEN "broken" ELSE op
  /\ UNCHANGED <<hWritePipe, received>>
=============================================================================
