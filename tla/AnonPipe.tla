------------------------------ MODULE AnonPipe ------------------------------
(***************************************************************************)
(* AnonPipe (AnonPipe.h): the pipe is the client's standard input and a    *)
(* write blocks its thread.  Nothing here looks at the quit order.         *)
(***************************************************************************)
EXTENDS PipeWriter

\* How RunClient may end: all well, CreateProcess fails, DuplicateHandle fails
\* (hTempPipe, the read end, is never closed), CreatePipe fails.
Launches == {"ok", "noprocess", "noduplicate", "nopipe"}

AnonRunClient(launch) ==
  /\ client = CASE launch = "ok" -> "connected"
                [] launch = "noduplicate" -> "leaked"
                [] OTHER -> "none"
  /\ hWritePipe = IF launch = "nopipe" THEN "none" ELSE "open"
  /\ pipe = <<>>
  /\ received = <<>>
  /\ op = "none"

\* Write: the blocking WriteFile of the data d is under way.
AnonWriteFile(d) == Accept(d)

\* Write returns TRUE.
AnonWriteOk == op = "done" /\ Return

\* Write returns FALSE at once: no write end, or nobody holds the read end.
AnonWriteRefused ==
  /\ op = "none"
  /\ hWritePipe = "none" \/ ~HasReader
  /\ UNCHANGED pipeVars

\* Write returns FALSE after the data was handed over.
AnonWriteBroken == op = "broken" /\ Return

\* A wrong variant: the data that was not read is discarded, as it is by
\* NamedPipe's Close.
AnonCloseDiscards ==
  /\ hWritePipe' = IF hWritePipe = "open" THEN "closed" ELSE hWritePipe
  /\ pipe' = <<>>
  /\ UNCHANGED <<client, received, op>>

\* Close: what is in the pipe can still be read.
AnonClose ==
  /\ hWritePipe' = IF hWritePipe = "open" THEN "closed" ELSE hWritePipe
  /\ UNCHANGED <<client, pipe, received, op>>
=============================================================================
