----------------------------- MODULE RemoteCall -----------------------------
(***************************************************************************)
(* What CSendCtrlCmd's pipe promises its callers, whatever becomes of      *)
(* events, pipe instances and threads: a command is executed at most once; *)
(* the caller of one that was executed returns with the answer to it, and  *)
(* not before; a failure is reported only of a command that was not        *)
(* executed and never will be.  A caller that dies may leave its command   *)
(* behind to be executed, once.                                            *)
(***************************************************************************)
CONSTANTS
  Callers,    \* the threads that send commands; an answer is named by its caller
  Failures    \* what a call returns instead of an answer

VARIABLES
  phase,      \* of each caller: "idle", "calling" or "dead"
  executed,   \* its command in progress, or its last one, was executed
  ret         \* what its last call returned

vars == <<phase, executed, ret>>

Init ==
  /\ phase = [c \in Callers |-> "idle"]
  /\ executed = [c \in Callers |-> FALSE]
  /\ ret = [c \in Callers |-> "none"]

Call(c) ==
  /\ phase[c] = "idle"
  /\ phase' = [phase EXCEPT ![c] = "calling"]
  /\ executed' = [executed EXCEPT ![c] = FALSE]
  /\ ret' = [ret EXCEPT ![c] = "none"]

\* There is no server: the call fails at once.
Refuse(c) ==
  /\ phase[c] = "idle"
  /\ executed' = [executed EXCEPT ![c] = FALSE]
  /\ \E f \in Failures : ret' = [ret EXCEPT ![c] = f]
  /\ UNCHANGED phase

Execute(c) ==
  /\ phase[c] # "idle"
  /\ ~executed[c]
  /\ executed' = [executed EXCEPT ![c] = TRUE]
  /\ UNCHANGED <<phase, ret>>

Answer(c) ==
  /\ phase[c] = "calling"
  /\ executed[c]
  /\ phase' = [phase EXCEPT ![c] = "idle"]
  /\ ret' = [ret EXCEPT ![c] = c]
  /\ UNCHANGED executed

Fail(c) ==
  /\ phase[c] = "calling"
  /\ ~executed[c]
  /\ phase' = [phase EXCEPT ![c] = "idle"]
  /\ \E f \in Failures : ret' = [ret EXCEPT ![c] = f]
  /\ UNCHANGED executed

Die(c) ==
  /\ phase[c] = "calling"
  /\ phase' = [phase EXCEPT ![c] = "dead"]
  /\ UNCHANGED <<executed, ret>>

Next ==
  \E c \in Callers :
    Call(c) \/ Refuse(c) \/ Execute(c) \/ Answer(c) \/ Fail(c) \/ Die(c)

Spec == Init /\ [][Next]_vars
=============================================================================
