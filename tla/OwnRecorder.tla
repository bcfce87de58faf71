---------------------------- MODULE OwnRecorder ----------------------------
(***************************************************************************)
(* What the plug-in promises the host, whatever it does with ids and its   *)
(* table: a loader that is ready has a recorder of its own from CreateCtrl *)
(* to DeleteCtrl, a call reaches that one and moves no other, and the host *)
(* is told what became of it.                                              *)
(***************************************************************************)
CONSTANT Loaders

VARIABLES
  recorder,  \* of each loader: "none", "stopped" or "saving"
  told       \* what its host was last told: a recording is open

vars == <<recorder, told>>

Init ==
  /\ recorder = [l \in Loaders |-> "none"]
  /\ told = [l \in Loaders |-> FALSE]

Becomes(l, state) ==
  /\ recorder' = [recorder EXCEPT ![l] = state]
  /\ told' = [told EXCEPT ![l] = (state = "saving")]

Create(l) == recorder[l] = "none" /\ Becomes(l, "stopped")

\* A recording that is open is closed with its recorder.
Delete(l) == recorder[l] # "none" /\ Becomes(l, "none")

\* The recording that is open is closed, and the new one begins or does not.
Start(l) == recorder[l] # "none" /\ \E state \in {"stopped", "saving"} : Becomes(l, state)

\* The host stops its recording, or a write to its file failed.
Stop(l) == recorder[l] # "none" /\ Becomes(l, "stopped")

Next == \E l \in Loaders : Create(l) \/ Delete(l) \/ Start(l) \/ Stop(l)

Spec == Init /\ [][Next]_vars
=============================================================================
