---------------------------- MODULE PlugInHost ----------------------------
(***************************************************************************)
(* The plug-in between its two neighbours: the host's loader objects       *)
(* (CWritePlugInUtil, Common/WritePlugInUtil.cpp), the entry points of the *)
(* DLL (Write_Default.cpp) and the table of instances they share           *)
(* (CInstanceManager, Common/InstanceManager.h).                           *)
(*                                                                         *)
(* Every loader loads the same DLL, so that Windows keeps one g_instMng    *)
(* for all of them until the last FreeLibrary destroys it.  A loader is    *)
(* used by one thread at a time, since it has no lock; the loaders of      *)
(* different threads interleave between the locks of the manager.  The     *)
(* instance a loader created is named by the loader: a loader has at most  *)
(* one.  Its inside is WriteMain.tla; here it saves or does not.           *)
(*                                                                         *)
(* Left out: Initialize when LoadLibrary or GetProcAddress fails, which    *)
(* changes nothing that stays; calls on a loader without a module, which   *)
(* return ERR_NOT_INIT; GetPlugInName, Setting.                            *)
(***************************************************************************)
EXTENDS Integers, FiniteSets, Functions

CONSTANTS
  Loaders,   \* the host's CWritePlugInUtil objects
  NoInstance,\* the empty shared_ptr
  MaxId,     \* 2^32 - 2, the largest id: 0 and INVALID_ID are skipped
  MaxTries   \* 2^16, after which the search for an id gives up

\* The comment at InstanceManager.h:79-80: one process does not create 2^16
\* instances at the same time.
ASSUME LoadersAssumption ==
  IsFiniteSet(Loaders) /\ Cardinality(Loaders) <= MaxTries
ASSUME NoInstanceAssumption == NoInstance \notin Loaders
ASSUME IdsAssumption ==
  MaxId \in Nat \ {0} /\ MaxTries \in Nat \ {0} /\ MaxTries <= MaxId

INVALID_ID == MaxId + 1

VARIABLES
  util,      \* where each loader is, see below
  id,        \* CWritePlugInUtil::id, 0 without an instance
  ptr,       \* the shared_ptr the entry point holds during a call
  m_list,    \* the manager's map from ids to instances
  m_nextID,  \* the manager's next candidate
  saving,    \* the instance has a recording open
  view       \* history: what the loader's host was last told of its recording

phVars == <<util, id, ptr, m_list, m_nextID, saving, view>>

\* "out": module is NULL; "loaded": Initialize before CreateCtrl; "ready": in no
\* call; "calling": an entry point behind its find; "leaving": before FreeLibrary.
UtilStates == {"out", "loaded", "ready", "calling", "leaving"}

Ids == 1 .. MaxId
HasInstance(l) == util[l] \in {"ready", "calling"}
HoldsModule(l) == util[l] # "out"

PHInit ==
  /\ util = [l \in Loaders |-> "out"]
  /\ id = [l \in Loaders |-> 0]
  /\ ptr = [l \in Loaders |-> NoInstance]
  /\ m_list = <<>>   \* the empty map
  /\ m_nextID = 1
  /\ saving = [l \in Loaders |-> FALSE]
  /\ view = [l \in Loaders |-> FALSE]

-----------------------------------------------------------------------------
(* CInstanceManager *)

\* A mutant: INVALID_ID is not skipped.
CandidateInvalid(n, k) == IF n + k <= MaxId + 1 THEN n + k ELSE n + k - MaxId

\* The k-th id from n on: 0 and INVALID_ID are skipped, 1 follows MaxId.
Candidate(n, k) == IF n + k <= MaxId THEN n + k ELSE n + k - MaxId

\* A mutant: the search ends one id early and takes it without looking.
CandidateOffByOne(n, used) ==
  {k \in 0 .. MaxTries - 1 : Candidate(n, k) \notin used \/ k = MaxTries - 2}

\* How far from n the ids are that getNextID finds unused.
FreeSteps(n, used) == {k \in 0 .. MaxTries - 1 : Candidate(n, k) \notin used}

FirstFree(n, used) ==
  CHOOSE k \in FreeSteps(n, used) : \A j \in FreeSteps(n, used) : k <= j

\* The id that getNextID returns, INVALID_ID after MaxTries used ones.
getNextID ==
  IF FreeSteps(m_nextID, DOMAIN m_list) = {} THEN INVALID_ID
  ELSE Candidate(m_nextID, FirstFree(m_nextID, DOMAIN m_list))

\* m_nextID after that search: it moves past the id it returns.
NextCandidate ==
  IF FreeSteps(m_nextID, DOMAIN m_list) = {} THEN Candidate(m_nextID, MaxTries)
  ELSE Candidate(m_nextID, FirstFree(m_nextID, DOMAIN m_list) + 1)

\* map::insert keeps the entry that is there.
push(l) ==
  /\ m_list' = [i \in DOMAIN m_list \cup {getNextID} |->
                  IF i \in DOMAIN m_list THEN m_list[i] ELSE l]
  /\ m_nextID' = NextCandidate

find(i) == IF i \in DOMAIN m_list THEN m_list[i] ELSE NoInstance

\* A mutant: the entry is found and stays.
PopKeeps(i) == m_list' = m_list

pop(i) == m_list' = Restrict(m_list, DOMAIN m_list \ {i})

-----------------------------------------------------------------------------
(* The loader and the entry points *)

\* Initialize up to CreateCtrl: LoadLibrary and eight GetProcAddress succeed.
Initialize(l) ==
  /\ util[l] = "out"
  /\ util' = [util EXCEPT ![l] = "loaded"]
  /\ UNCHANGED <<id, ptr, m_list, m_nextID, saving, view>>

CreateCtrl(l) ==
  /\ util[l] = "loaded"
  /\ push(l)
  /\ id' = [id EXCEPT ![l] = getNextID]
  /\ util' = [util EXCEPT ![l] = "ready"]
  /\ saving' = [saving EXCEPT ![l] = FALSE]
  /\ view' = [view EXCEPT ![l] = FALSE]
  /\ UNCHANGED ptr

\* bad_alloc before the id is chosen, or by insert behind it.
CreateCtrlFails(l) ==
  /\ util[l] = "loaded"
  /\ m_nextID' \in {m_nextID, NextCandidate}
  /\ util' = [util EXCEPT ![l] = "leaving"]
  /\ UNCHANGED <<id, ptr, m_list, saving, view>>

\* UnInitialize, with DeleteCtrl: the popped instance is destroyed.
DeleteCtrl(l) ==
  /\ util[l] = "ready"
  /\ pop(id[l])
  /\ saving' = IF find(id[l]) = NoInstance THEN saving
               ELSE [saving EXCEPT ![find(id[l])] = FALSE]
  /\ id' = [id EXCEPT ![l] = 0]
  /\ util' = [util EXCEPT ![l] = "leaving"]
  /\ view' = [view EXCEPT ![l] = FALSE]
  /\ UNCHANGED <<ptr, m_nextID>>

\* FreeLibrary at the end of UnInitialize and of a failed Initialize.  The last
\* one unloads the DLL, g_instMng with it.
FreeLibrary(l) ==
  /\ util[l] = "leaving"
  /\ util' = [util EXCEPT ![l] = "out"]
  /\ IF \E o \in Loaders \ {l} : HoldsModule(o)
       THEN UNCHANGED <<m_list, m_nextID>>
       ELSE m_list' = <<>> /\ m_nextID' = 1
  /\ UNCHANGED <<id, ptr, saving, view>>

\* StartSave, StopSave, AddTSBuff and GetSaveFilePath begin with find.
FindInstance(l) ==
  /\ util[l] = "ready"
  /\ ptr' = [ptr EXCEPT ![l] = find(id[l])]
  /\ util' = [util EXCEPT ![l] = "calling"]
  /\ UNCHANGED <<id, m_list, m_nextID, saving, view>>

\* The call returns and releases its pointer.
Returns(l) ==
  /\ ptr' = [ptr EXCEPT ![l] = NoInstance]
  /\ util' = [util EXCEPT ![l] = "ready"]
  /\ UNCHANGED <<id, m_list, m_nextID>>

\* Start on the instance: a recording that is open is stopped first, and the new
\* one begins or does not.
StartSave(l) ==
  /\ util[l] = "calling"
  /\ ptr[l] # NoInstance
  /\ \E ok \in BOOLEAN :
       /\ saving' = [saving EXCEPT ![ptr[l]] = ok]
       /\ view' = [view EXCEPT ![l] = ok]
  /\ Returns(l)

StopSave(l) ==
  /\ util[l] = "calling"
  /\ ptr[l] # NoInstance
  /\ saving' = [saving EXCEPT ![ptr[l]] = FALSE]
  /\ view' = [view EXCEPT ![l] = FALSE]
  /\ Returns(l)

\* AddTSBuff when the WriteFile behind it fails: the recording is closed, and the FALSE
\* that the host gets says so.
AddTSBuffFails(l) ==
  /\ util[l] = "calling"
  /\ ptr[l] # NoInstance
  /\ saving[ptr[l]]
  /\ saving' = [saving EXCEPT ![ptr[l]] = FALSE]
  /\ view' = [view EXCEPT ![l] = FALSE]
  /\ Returns(l)

\* Every other AddTSBuff, GetSaveFilePath, and every call that found no instance.  A
\* Write tells the host whether a recording is open, since without one it fails.
OtherCall(l) ==
  /\ util[l] = "calling"
  /\ UNCHANGED <<saving, view>>
  /\ Returns(l)

LoaderStep(l) ==
  \/ Initialize(l) \/ CreateCtrl(l) \/ CreateCtrlFails(l)
  \/ DeleteCtrl(l) \/ FreeLibrary(l)
  \/ FindInstance(l) \/ StartSave(l) \/ StopSave(l) \/ AddTSBuffFails(l) \/ OtherCall(l)

PHNext == \E l \in Loaders : LoaderStep(l)

PHSpec == PHInit /\ [][PHNext]_phVars

-----------------------------------------------------------------------------
(* Properties *)

PHTypeOK ==
  /\ util \in [Loaders -> UtilStates]
  /\ id \in [Loaders -> 0 .. INVALID_ID]
  /\ ptr \in [Loaders -> Loaders \cup {NoInstance}]
  /\ IsFiniteSet(DOMAIN m_list)
  /\ DOMAIN m_list \subseteq 1 .. INVALID_ID
  /\ m_list \in [DOMAIN m_list -> Loaders]
  /\ m_nextID \in Ids
  /\ saving \in [Loaders -> BOOLEAN]
  /\ view \in [Loaders -> BOOLEAN]

\* A loader's id is valid and leads to the instance made for it, also when the ids
\* have wrapped around and most of them are taken: no two loaders share one, and
\* a pointer held in a call is the own one (InstanceManager.h:62-85).  It is so under
\* LoadersAssumption, by which the search for an id never gives up: behind MaxTries
\* used ids in a row getNextID returns INVALID_ID, and the second loader to get that
\* would share the instance of the first.
OwnInstance ==
  \A l \in Loaders : HasInstance(l) =>
    /\ id[l] \in Ids \cap DOMAIN m_list
    /\ m_list[id[l]] = l
    /\ util[l] = "calling" => ptr[l] = l

\* Whatever is in the table belongs to a loader that has not deleted it, so that
\* the DLL is never unloaded with an instance, whose sender threads would be
\* joined while the DLL's destructors run (WritePlugInUtil.cpp:116-123).
NothingLeftBehind ==
  \A i \in DOMAIN m_list : HasInstance(m_list[i]) /\ id[m_list[i]] = i

\* The recording a host was told of is open, and no other: the calls of one loader
\* do not start or stop the recording of another (Write_Default.cpp:140, :157).  This
\* is the part of ImplementsOwnRecorder that is about single states; the proofs need it.
HostKnowsRecording ==
  \A l \in Loaders : HasInstance(l) => view[l] = saving[l]

\* A loader's recorder seen from its host.
recorder ==
  [l \in Loaders |-> IF ~HasInstance(l) THEN "none"
                     ELSE IF saving[l] THEN "saving" ELSE "stopped"]

Own == INSTANCE OwnRecorder WITH told <- view

\* Loaders, entry points and the table of instances together give every loader a
\* recorder of its own: no call starts, stops or deletes the recording of another,
\* however the calls of different threads interleave and ids wrap around, as long as
\* the search for an id does not give up (WritePlugInUtil.cpp:137-251,
\* Write_Default.cpp:91-221, InstanceManager.h:24-85).
ImplementsOwnRecorder == Own!Spec
=============================================================================
