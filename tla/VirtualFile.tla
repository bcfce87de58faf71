---------------------------- MODULE VirtualFile -----------------------------
(***************************************************************************)
(* What a FileReader promises its sender, whatever it does with its buffer *)
(* and the real file: "reads from a virtual TS file" (FileReader.h:2-4).   *)
(* The recording only grows until it is closed; the sender is given a      *)
(* prefix of it, that only grows; it may be cut off at any moment          *)
(* ("abandoned"), but when it is told that it has reached the end          *)
(* ("complete") the recording is closed and it was given all of it.        *)
(***************************************************************************)
EXTENDS Integers, Sequences, SequencesExt

VARIABLES
  recorded,   \* the bytes of the recording
  closed,     \* the recording is complete
  delivered,  \* the bytes given to the sender
  reading     \* "reading", "complete" or "abandoned"

vars == <<recorded, closed, delivered, reading>>

Init ==
  /\ recorded = <<>>
  /\ closed = FALSE
  /\ delivered = <<>>
  /\ reading = "reading"

Record ==
  /\ ~closed
  /\ IsPrefix(recorded, recorded')
  /\ UNCHANGED <<closed, delivered, reading>>

Close ==
  /\ ~closed
  /\ closed' = TRUE
  /\ UNCHANGED <<recorded, delivered, reading>>

Deliver ==
  /\ reading = "reading"
  /\ IsPrefix(delivered, delivered')
  /\ IsPrefix(delivered', recorded)
  /\ UNCHANGED <<recorded, closed, reading>>

Complete ==
  /\ reading = "reading"
  /\ closed
  /\ delivered = recorded
  /\ reading' = "complete"
  /\ UNCHANGED <<recorded, closed, delivered>>

\* The pipe fails in the middle of a write: a last part may have gone out.
Abandon ==
  /\ reading = "reading"
  /\ IsPrefix(delivered, delivered')
  /\ IsPrefix(delivered', recorded)
  /\ reading' = "abandoned"
  /\ UNCHANGED <<recorded, closed>>

Next == Record \/ Close \/ Deliver \/ Complete \/ Abandon

Spec == Init /\ [][Next]_vars
=============================================================================
