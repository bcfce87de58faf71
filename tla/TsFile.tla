------------------------------- MODULE TsFile -------------------------------
(***************************************************************************)
(* The recorded TS file as Win32 keeps it for the one handle CWriteMain    *)
(* writes through: the bytes written so far (the file pointer stands after *)
(* the last of them) and the file size, which CWriteMain::Start may have   *)
(* preallocated to createSize and which SetEndOfFile cuts back to the file *)
(* pointer.  The operating system is external to the repository; what is   *)
(* here is what WriteMain.cpp asks of it.                                  *)
(*                                                                         *)
(* A byte is named by a natural number.  Zero is the content of a byte     *)
(* that was preallocated and never written.                                *)
(***************************************************************************)
EXTENDS Naturals, Sequences

CONSTANT CreateSize       \* the createSize argument of CWriteMain::Start
ASSUME CreateSizeAssumption == CreateSize \in Nat

VARIABLES
  recorded,   \* the bytes written through the handle, in order
  fileSize    \* the size of the file, never less than Len(recorded)

fileVars == <<recorded, fileSize>>

Zero == 0

\* CreateFile, then the preallocation of WriteMain.cpp:82-88.
TsCreate ==
  /\ recorded = <<>>
  /\ fileSize = CreateSize

\* WriteFile of the bytes d at the file pointer.
TsWrite(d) ==
  LET end == Len(recorded) + Len(d)
  IN  /\ recorded' = recorded \o d
      /\ fileSize' = IF fileSize < end THEN end ELSE fileSize

\* SetEndOfFile: the size becomes the file pointer.
TsSetEndOfFile ==
  /\ fileSize' = Len(recorded)
  /\ UNCHANGED recorded

\* The byte a reader finds at position p (counted from 1) inside the file.
TsByte(p) == IF p <= Len(recorded) THEN recorded[p] ELSE Zero

\* What a read of at most n bytes from the 0-based offset pos returns.
TsBytes(pos, n) ==
  LET count == IF fileSize <= pos THEN 0
               ELSE IF fileSize - pos < n THEN fileSize - pos ELSE n
  IN  [i \in 1..count |-> TsByte(pos + i)]
=============================================================================
