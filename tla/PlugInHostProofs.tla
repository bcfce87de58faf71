------------------------- MODULE PlugInHostProofs -------------------------
(***************************************************************************)
(* Proofs about PlugInHost.tla.  The table leads from every id to a loader *)
(* whose own id it is, so that it holds at most one entry per loader; as a *)
(* loader without an instance is asking for an id, fewer than MaxTries are *)
(* taken, and by the pigeonhole principle the search meets a free one.     *)
(***************************************************************************)
EXTENDS PlugInHost, FiniteSetTheorems, WellFoundedInduction, TLAPS

\* A set of naturals has a least member.
LEMMA SmallestExists ==
  ASSUME NEW F \in SUBSET Nat, F # {}
  PROVE  \E k \in F : \A j \in F : k <= j
<1>1. PICK k \in F : \A j \in F : ~ (<<j, k>> \in OpToRel(<, Nat))
  BY NatLessThanWellFounded, WFMin, Zenon
<1>2. \A j \in F : <<j, k>> \notin {ss \in Nat \X Nat : ss[1] < ss[2]}
  BY <1>1, Zenon DEF OpToRel
<1>3. \A j \in F : ~ (j < k)
  BY <1>2
<1>4. \A j \in F : k <= j
  BY <1>3
<1>5. QED  BY <1>4

\* The candidates are ids.
LEMMA CandidateIsId ==
  ASSUME NEW n \in Ids, NEW k \in 0 .. MaxTries
  PROVE  Candidate(n, k) \in Ids
BY IdsAssumption, SMT DEF Candidate, Ids

\* Candidates met in one search differ.
LEMMA CandidatesDiffer ==
  ASSUME NEW n \in Ids, NEW j \in 0 .. MaxTries - 1, NEW k \in 0 .. MaxTries - 1,
         Candidate(n, j) = Candidate(n, k)
  PROVE  j = k
BY IdsAssumption, SMT DEF Candidate, Ids

\* The table is an injection into the loaders other than one without an instance:
\* the search of that one for an id succeeds.
LEMMA SearchSucceeds ==
  ASSUME PHTypeOK, NothingLeftBehind, NEW l \in Loaders, ~HasInstance(l)
  PROVE  FreeSteps(m_nextID, DOMAIN m_list) # {}
<1> SUFFICES ASSUME FreeSteps(m_nextID, DOMAIN m_list) = {} PROVE FALSE
  OBVIOUS
<1> DEFINE S == 0 .. MaxTries - 1
           T == Loaders \ {l}
           f == [k \in S |-> m_list[Candidate(m_nextID, k)]]
<1>1. m_nextID \in Ids
  BY DEF PHTypeOK
<1>2. \A k \in S : Candidate(m_nextID, k) \in DOMAIN m_list
  BY DEF FreeSteps
<1>3. f \in [S -> T]
  BY <1>2 DEF PHTypeOK, NothingLeftBehind
<1>4. IsFiniteSet(S) /\ Cardinality(S) = MaxTries
  <2>1. 0 \in Int /\ MaxTries - 1 \in Int
    BY IdsAssumption
  <2>2. QED  BY <2>1, FS_Interval, IdsAssumption
<1>5. IsFiniteSet(T) /\ Cardinality(T) < Cardinality(S)
  <2>1. IsFiniteSet(T) /\ Cardinality(T) = Cardinality(Loaders) - 1
    BY LoadersAssumption, FS_RemoveElement
  <2>2. Cardinality(Loaders) \in Nat /\ Cardinality(Loaders) <= MaxTries
    BY LoadersAssumption, FS_CardinalityType
  <2>3. QED  BY <2>1, <2>2, <1>4, IdsAssumption
<1>6. PICK j \in S, k \in S : j # k /\ f[j] = f[k]
  <2> HIDE DEF f, S, T
  <2>1. QED  BY <1>3, <1>4, <1>5, FS_PigeonHole
<1>7. Candidate(m_nextID, j) = Candidate(m_nextID, k)
  BY <1>2, <1>6 DEF NothingLeftBehind
<1>8. QED  BY <1>1, <1>6, <1>7, CandidatesDiffer

\* The first free candidate is free.
LEMMA FirstFreeIsFree ==
  ASSUME PHTypeOK, NothingLeftBehind, NEW l \in Loaders, ~HasInstance(l)
  PROVE  /\ FirstFree(m_nextID, DOMAIN m_list) \in 0 .. MaxTries - 1
         /\ Candidate(m_nextID, FirstFree(m_nextID, DOMAIN m_list)) \notin DOMAIN m_list
<1> DEFINE F == FreeSteps(m_nextID, DOMAIN m_list)
<1>1. F # {} /\ F \in SUBSET Nat
  BY SearchSucceeds, IdsAssumption DEF FreeSteps
<1>2. \E k \in F : \A j \in F : k <= j
  <2> HIDE DEF F
  <2>1. QED  BY <1>1, SmallestExists
<1>3. FirstFree(m_nextID, DOMAIN m_list) \in F
  BY <1>2 DEF FirstFree
<1>4. QED  BY <1>3 DEF FreeSteps

\* So the id given is a valid and unused one.
LEMMA GetNextID ==
  ASSUME PHTypeOK, NothingLeftBehind, NEW l \in Loaders, ~HasInstance(l)
  PROVE  getNextID \in Ids \ DOMAIN m_list
<1>1. getNextID = Candidate(m_nextID, FirstFree(m_nextID, DOMAIN m_list))
  BY SearchSucceeds DEF getNextID
<1>2. m_nextID \in Ids /\ FirstFree(m_nextID, DOMAIN m_list) \in 0 .. MaxTries
  BY FirstFreeIsFree, IdsAssumption DEF PHTypeOK
<1>3. QED  BY <1>1, <1>2, FirstFreeIsFree, CandidateIsId

\* The next candidate is an id.
LEMMA NextCandidateIsId ==
  ASSUME PHTypeOK, NothingLeftBehind, NEW l \in Loaders, ~HasInstance(l)
  PROVE  NextCandidate \in Ids
<1>1. FirstFree(m_nextID, DOMAIN m_list) + 1 \in 0 .. MaxTries
  BY FirstFreeIsFree, IdsAssumption
<1>2. QED  BY <1>1, SearchSucceeds, CandidateIsId DEF NextCandidate, PHTypeOK

\* push keeps the entries and adds the loader's under the id it returns.
LEMMA Push ==
  ASSUME PHTypeOK, NothingLeftBehind, NEW l \in Loaders, ~HasInstance(l), push(l)
  PROVE  /\ DOMAIN m_list' = DOMAIN m_list \cup {getNextID}
         /\ \A i \in DOMAIN m_list : m_list'[i] = m_list[i]
         /\ m_list'[getNextID] = l
         /\ IsFiniteSet(DOMAIN m_list')
         /\ m_nextID' \in Ids
<1>1. getNextID \notin DOMAIN m_list
  BY GetNextID
<1>2. IsFiniteSet(DOMAIN m_list \cup {getNextID})
  BY FS_AddElement DEF PHTypeOK
<1>3. NextCandidate \in Ids
  BY NextCandidateIsId
<1>4. QED  BY <1>1, <1>2, <1>3 DEF push

-----------------------------------------------------------------------------

\* The invariant: the four properties need one another.  The table being an
\* injection (NothingLeftBehind) makes the search for an id succeed, and a loader
\* reaching its own instance (OwnInstance) keeps the table and the recordings right.
PHInv == PHTypeOK /\ OwnInstance /\ NothingLeftBehind /\ HostKnowsRecording

LEMMA InitInv == PHInit => PHInv
<1> SUFFICES ASSUME PHInit PROVE PHInv
  OBVIOUS
<1>1. DOMAIN m_list = {}
  BY DEF PHInit
<1>2. m_list \in [DOMAIN m_list -> Loaders]
  BY <1>1 DEF PHInit
<1>3. PHTypeOK
  BY <1>1, <1>2, FS_EmptySet, IdsAssumption
     DEF PHInit, PHTypeOK, UtilStates, Ids, INVALID_ID
<1>4. QED
  BY <1>1, <1>3 DEF PHInit, PHInv, OwnInstance, NothingLeftBehind, HasInstance,
     HostKnowsRecording

LEMMA InitializeInv ==
  ASSUME PHInv, NEW l \in Loaders, Initialize(l)
  PROVE  PHInv'
BY DEF PHInv, Initialize, PHTypeOK, UtilStates, OwnInstance, NothingLeftBehind,
   HasInstance, HostKnowsRecording

LEMMA CreateCtrlInv ==
  ASSUME PHInv, NEW l \in Loaders, CreateCtrl(l)
  PROVE  PHInv'
<1>1. ~HasInstance(l) /\ PHTypeOK /\ NothingLeftBehind
  BY DEF CreateCtrl, HasInstance, PHInv
<1>2. /\ DOMAIN m_list' = DOMAIN m_list \cup {getNextID}
      /\ \A i \in DOMAIN m_list : m_list'[i] = m_list[i]
      /\ m_list'[getNextID] = l
      /\ IsFiniteSet(DOMAIN m_list')
      /\ m_nextID' \in Ids
  BY <1>1, Push DEF CreateCtrl
<1>3. getNextID \in Ids \ DOMAIN m_list
  BY <1>1, GetNextID
<1>4. m_list' \in [DOMAIN m_list' -> Loaders]
  <2>1. m_list' = [i \in DOMAIN m_list' |-> m_list'[i]]
    BY <1>2 DEF CreateCtrl, push
  <2>2. \A i \in DOMAIN m_list' : m_list'[i] \in Loaders
    BY <1>1, <1>2 DEF PHTypeOK
  <2>3. QED  BY <2>1, <2>2, Zenon
<1>5. DOMAIN m_list' \subseteq 1 .. INVALID_ID
  BY <1>1, <1>2, <1>3, IdsAssumption DEF PHTypeOK, Ids, INVALID_ID
<1>6. id' \in [Loaders -> 0 .. INVALID_ID]
  BY <1>1, <1>3, IdsAssumption DEF PHTypeOK, CreateCtrl, Ids, INVALID_ID
<1>7. PHTypeOK'
  BY <1>1, <1>2, <1>4, <1>5, <1>6 DEF PHTypeOK, CreateCtrl, UtilStates, Ids, INVALID_ID
<1>8. \A o \in Loaders \ {l} :
        id'[o] = id[o] /\ util'[o] = util[o] /\ ptr'[o] = ptr[o]
  BY <1>1 DEF CreateCtrl, PHTypeOK
<1>9. id'[l] = getNextID /\ util'[l] = "ready"
  BY <1>1 DEF CreateCtrl, PHTypeOK
<1>10. OwnInstance'
  BY <1>2, <1>3, <1>8, <1>9 DEF OwnInstance, HasInstance, PHInv, Ids
<1>11. NothingLeftBehind'
  BY <1>1, <1>2, <1>8, <1>9 DEF NothingLeftBehind, HasInstance, PHTypeOK
<1>12. HostKnowsRecording'
  BY <1>8 DEF HostKnowsRecording, HasInstance, PHInv, CreateCtrl, PHTypeOK
<1>13. QED  BY <1>7, <1>10, <1>11, <1>12 DEF PHInv

LEMMA CreateCtrlFailsInv ==
  ASSUME PHInv, NEW l \in Loaders, CreateCtrlFails(l)
  PROVE  PHInv'
<1>1. ~HasInstance(l)
  BY DEF CreateCtrlFails, HasInstance
<1>2. m_nextID' \in Ids
  BY <1>1, NextCandidateIsId DEF CreateCtrlFails, PHInv, PHTypeOK
<1>3. QED
  BY <1>2 DEF PHInv, CreateCtrlFails, PHTypeOK, UtilStates, OwnInstance,
     NothingLeftBehind, HasInstance, HostKnowsRecording

LEMMA DeleteCtrlInv ==
  ASSUME PHInv, NEW l \in Loaders, DeleteCtrl(l)
  PROVE  PHInv'
<1>1. HasInstance(l)
  BY DEF DeleteCtrl, HasInstance
<1>2. id[l] \in DOMAIN m_list /\ m_list[id[l]] = l /\ find(id[l]) = l
  BY <1>1 DEF PHInv, OwnInstance, find
<1>3. l # NoInstance
  BY NoInstanceAssumption
<1>4. m_list' = [i \in DOMAIN m_list \ {id[l]} |-> m_list[i]]
  BY DEF DeleteCtrl, pop, Restrict
<1>5. saving' = [saving EXCEPT ![l] = FALSE]
  BY <1>2, <1>3 DEF DeleteCtrl
<1>6. IsFiniteSet(DOMAIN m_list')
  BY <1>4, FS_RemoveElement DEF PHInv, PHTypeOK
<1>7. PHTypeOK'
  <2>1. m_list' \in [DOMAIN m_list' -> Loaders] /\ DOMAIN m_list' \subseteq 1 .. INVALID_ID
    BY <1>4 DEF PHInv, PHTypeOK
  <2>2. 0 \in 0 .. INVALID_ID
    BY IdsAssumption DEF INVALID_ID
  <2>3. id' \in [Loaders -> 0 .. INVALID_ID]
    BY <2>2 DEF PHInv, PHTypeOK, DeleteCtrl
  <2>4. saving' \in [Loaders -> BOOLEAN] /\ view' \in [Loaders -> BOOLEAN]
    BY <1>5 DEF PHInv, PHTypeOK, DeleteCtrl
  <2>5. QED
    BY <1>6, <2>1, <2>3, <2>4 DEF PHInv, PHTypeOK, DeleteCtrl, UtilStates
<1>8. \A o \in Loaders \ {l} : HasInstance(o) => id[o] # id[l]
  BY <1>2 DEF PHInv, OwnInstance
<1>9. \A o \in Loaders \ {l} :
        /\ id'[o] = id[o] /\ util'[o] = util[o] /\ ptr'[o] = ptr[o]
        /\ saving'[o] = saving[o] /\ view'[o] = view[o]
  BY <1>5 DEF DeleteCtrl, PHInv, PHTypeOK
<1>10. ~HasInstance(l)'
  BY DEF DeleteCtrl, HasInstance, PHInv, PHTypeOK
<1>11. OwnInstance'
  BY <1>4, <1>8, <1>9, <1>10 DEF PHInv, OwnInstance, HasInstance
<1>12. NothingLeftBehind'
  <2> SUFFICES ASSUME NEW i \in DOMAIN m_list'
               PROVE  (HasInstance(m_list[i]) /\ id[m_list[i]] = i)'
    BY DEF NothingLeftBehind
  <2>1. i \in DOMAIN m_list /\ i # id[l] /\ m_list'[i] = m_list[i]
    BY <1>4
  <2>2. m_list[i] \in Loaders \ {l}
    BY <2>1 DEF PHInv, PHTypeOK, NothingLeftBehind
  <2>3. QED  BY <2>1, <2>2, <1>9 DEF PHInv, NothingLeftBehind, HasInstance
<1>13. HostKnowsRecording'
  BY <1>9, <1>10 DEF PHInv, HostKnowsRecording, HasInstance
<1>14. QED  BY <1>7, <1>11, <1>12, <1>13 DEF PHInv

\* The last FreeLibrary finds the table empty: every entry's loader holds the module.
LEMMA FreeLibraryInv ==
  ASSUME PHInv, NEW l \in Loaders, FreeLibrary(l)
  PROVE  PHInv'
<1>1. ~HasInstance(l) /\ ~HasInstance(l)'
  BY DEF FreeLibrary, HasInstance, PHInv, PHTypeOK
<1>2. \A o \in Loaders \ {l} : util'[o] = util[o]
  BY DEF FreeLibrary, PHInv, PHTypeOK
<1>3. m_list' = m_list
  <2>1. CASE \E o \in Loaders \ {l} : HoldsModule(o)
    BY <2>1 DEF FreeLibrary
  <2>2. CASE ~ \E o \in Loaders \ {l} : HoldsModule(o)
    <3>1. \A i \in DOMAIN m_list : m_list[i] \in Loaders \ {l} /\ HoldsModule(m_list[i])
      BY <1>1 DEF PHInv, PHTypeOK, NothingLeftBehind, HasInstance, HoldsModule
    <3>2. DOMAIN m_list = {}
      BY <2>2, <3>1
    <3>3. DOMAIN m_list' = {}
      BY <2>2 DEF FreeLibrary
    <3>4. m_list' = [i \in {} |-> m_list[i]] /\ m_list = [i \in {} |-> m_list[i]]
      BY <2>2, <3>2, <3>3 DEF FreeLibrary, PHInv, PHTypeOK
    <3>5. QED  BY <3>4
  <2>3. QED  BY <2>1, <2>2
<1>4. m_nextID' \in Ids
  BY IdsAssumption DEF FreeLibrary, PHInv, PHTypeOK, Ids
<1>5. PHTypeOK'
  BY <1>3, <1>4 DEF PHInv, PHTypeOK, FreeLibrary, UtilStates
<1>6. QED
  BY <1>1, <1>2, <1>3, <1>5 DEF PHInv, FreeLibrary, OwnInstance, NothingLeftBehind,
     HasInstance, HostKnowsRecording, PHTypeOK

\* What an entry point finds is the loader's own instance.
LEMMA FindInstanceInv ==
  ASSUME PHInv, NEW l \in Loaders, FindInstance(l)
  PROVE  PHInv'
<1>1. find(id[l]) = l
  BY DEF PHInv, OwnInstance, find, FindInstance, HasInstance
<1>2. QED
  BY <1>1 DEF PHInv, FindInstance, PHTypeOK, UtilStates, OwnInstance,
     NothingLeftBehind, HasInstance, HostKnowsRecording

LEMMA CallInv ==
  ASSUME PHInv, NEW l \in Loaders,
         StartSave(l) \/ StopSave(l) \/ AddTSBuffFails(l) \/ OtherCall(l)
  PROVE  PHInv'
<1>1. HasInstance(l) /\ util[l] = "calling" /\ ptr[l] = l
  BY DEF StartSave, StopSave, AddTSBuffFails, OtherCall, HasInstance, PHInv, OwnInstance
<1>2. Returns(l)
  BY DEF StartSave, StopSave, AddTSBuffFails, OtherCall
<1>3. \/ \E ok \in BOOLEAN : /\ saving' = [saving EXCEPT ![l] = ok]
                             /\ view' = [view EXCEPT ![l] = ok]
      \/ UNCHANGED <<saving, view>>
  BY <1>1 DEF StartSave, StopSave, AddTSBuffFails, OtherCall
<1>4. saving' \in [Loaders -> BOOLEAN] /\ view' \in [Loaders -> BOOLEAN]
  BY <1>3 DEF PHInv, PHTypeOK
<1>5. PHTypeOK'
  BY <1>2, <1>4 DEF PHInv, PHTypeOK, Returns, UtilStates
<1>6. OwnInstance' /\ NothingLeftBehind'
  BY <1>1, <1>2 DEF PHInv, PHTypeOK, Returns, OwnInstance, NothingLeftBehind, HasInstance
<1>7. \A o \in Loaders : HasInstance(o)' => HasInstance(o)
  BY <1>1, <1>2 DEF PHInv, PHTypeOK, Returns, HasInstance
<1>8. HostKnowsRecording'
  BY <1>1, <1>3, <1>7 DEF PHInv, PHTypeOK, HostKnowsRecording
<1>9. QED  BY <1>5, <1>6, <1>8 DEF PHInv

LEMMA StepInv == PHInv /\ [PHNext]_phVars => PHInv'
<1> SUFFICES ASSUME PHInv, [PHNext]_phVars PROVE PHInv'
  OBVIOUS
<1>1. ASSUME NEW l \in Loaders, LoaderStep(l) PROVE PHInv'
  <2>1. CASE Initialize(l)  BY <2>1, InitializeInv
  <2>2. CASE CreateCtrl(l)  BY <2>2, CreateCtrlInv
  <2>3. CASE CreateCtrlFails(l)  BY <2>3, CreateCtrlFailsInv
  <2>4. CASE DeleteCtrl(l)  BY <2>4, DeleteCtrlInv
  <2>5. CASE FreeLibrary(l)  BY <2>5, FreeLibraryInv
  <2>6. CASE FindInstance(l)  BY <2>6, FindInstanceInv
  <2>7. CASE StartSave(l) \/ StopSave(l) \/ AddTSBuffFails(l) \/ OtherCall(l)
    BY <2>7, CallInv
  <2>8. QED
    BY <1>1, <2>1, <2>2, <2>3, <2>4, <2>5, <2>6, <2>7 DEF LoaderStep
<1>2. CASE UNCHANGED phVars
  BY <1>2 DEF phVars, PHInv, PHTypeOK, OwnInstance, NothingLeftBehind, HasInstance,
     HostKnowsRecording
<1>3. QED  BY <1>1, <1>2 DEF PHNext

-----------------------------------------------------------------------------

\* The invariant holds for every number of loaders up to MaxTries, the bound that
\* the comment at InstanceManager.h:79-80 relies on.
THEOREM PHInvariance == PHSpec => []PHInv
BY InitInv, StepInv, PTL DEF PHSpec

\* Every variable stays within its type.
THEOREM PHTypeCorrect == PHSpec => []PHTypeOK
<1>1. PHInv => PHTypeOK  BY DEF PHInv
<1>2. QED  BY <1>1, PHInvariance, PTL

\* However often the ids wrap around over ones in use, no loader reaches the instance
\* of another nor loses its own, for as many loaders as LoadersAssumption allows: the
\* search for an id then never gives up (InstanceManager.h:79-80).
THEOREM OwnInstanceAlways == PHSpec => []OwnInstance
<1>1. PHInv => OwnInstance  BY DEF PHInv
<1>2. QED  BY <1>1, PHInvariance, PTL

\* The DLL is never unloaded with an instance in its table.
THEOREM UnloadsEmpty == PHSpec => []NothingLeftBehind
<1>1. PHInv => NothingLeftBehind  BY DEF PHInv
<1>2. QED  BY <1>1, PHInvariance, PTL

\* What a host was told of its recording is true.
THEOREM HostKnows == PHSpec => []HostKnowsRecording
<1>1. PHInv => HostKnowsRecording  BY DEF PHInv
<1>2. QED  BY <1>1, PHInvariance, PTL

-----------------------------------------------------------------------------
(* The refinement of OwnRecorder: every step moves the recorder of the     *)
(* loader that takes it, as the abstract operation does, or no recorder.   *)

\* A step that leaves the other loaders' instances alone moves one recorder.
LEMMA OneRecorder ==
  ASSUME NEW l \in Loaders,
         \A o \in Loaders \ {l} :
           (HasInstance(o) <=> HasInstance(o)') /\ (saving'[o] <=> saving[o])
  PROVE  recorder' = [recorder EXCEPT ![l] = recorder'[l]]
<1>1. \A o \in Loaders \ {l} : recorder'[o] = recorder[o]
  BY DEF recorder
<1>2. DOMAIN recorder' = Loaders /\ DOMAIN recorder = Loaders
  BY DEF recorder
<1> QED
  BY <1>1, <1>2 DEF recorder

\* A step that neither makes nor ends an instance nor touches a recording.
LEMMA NoRecorder ==
  ASSUME \A o \in Loaders : HasInstance(o) <=> HasInstance(o)',
         UNCHANGED <<saving, view>>
  PROVE  UNCHANGED Own!vars
BY DEF Own!vars, recorder

LEMMA CreateRefines ==
  ASSUME PHInv, NEW l \in Loaders, CreateCtrl(l)
  PROVE  Own!Create(l)
<1>1. recorder[l] = "none"
  BY DEF CreateCtrl, HasInstance, recorder
<1>2. util'[l] = "ready" /\ saving'[l] = FALSE
  BY DEF CreateCtrl, PHInv, PHTypeOK
<1>3. \A o \in Loaders \ {l} : util'[o] = util[o] /\ saving'[o] = saving[o]
  BY DEF CreateCtrl, PHInv, PHTypeOK
<1>4. recorder'[l] = "stopped"
  BY <1>2 DEF recorder, HasInstance
<1>5. recorder' = [recorder EXCEPT ![l] = "stopped"]
  BY <1>3, <1>4, OneRecorder DEF HasInstance
<1> QED
  BY <1>1, <1>5 DEF Own!Create, Own!Becomes, CreateCtrl

\* DeleteCtrl pops the loader's own entry, and closes the own recording with it.
LEMMA DeleteRefines ==
  ASSUME PHInv, NEW l \in Loaders, DeleteCtrl(l)
  PROVE  Own!Delete(l)
<1>1. HasInstance(l) /\ find(id[l]) = l /\ l # NoInstance
  BY NoInstanceAssumption DEF PHInv, OwnInstance, find, DeleteCtrl, HasInstance
<1>2. recorder[l] # "none"
  BY <1>1 DEF recorder
<1>3. util'[l] = "leaving" /\ \A o \in Loaders \ {l} : util'[o] = util[o]
  BY DEF DeleteCtrl, PHInv, PHTypeOK
<1>4. \A o \in Loaders \ {l} : saving'[o] = saving[o]
  BY <1>1 DEF DeleteCtrl, PHInv, PHTypeOK
<1>5. recorder'[l] = "none"
  BY <1>3 DEF recorder, HasInstance
<1>6. recorder' = [recorder EXCEPT ![l] = "none"]
  BY <1>3, <1>4, <1>5, OneRecorder DEF HasInstance
<1> QED
  BY <1>2, <1>6 DEF Own!Delete, Own!Becomes, DeleteCtrl

\* A call works on the instance it found, which is the own one.
LEMMA CallRefines ==
  ASSUME PHInv, NEW l \in Loaders, StartSave(l) \/ StopSave(l) \/ AddTSBuffFails(l)
  PROVE  Own!Start(l) \/ Own!Stop(l)
<1>1. HasInstance(l) /\ ptr[l] = l /\ Returns(l)
  BY DEF StartSave, StopSave, AddTSBuffFails, HasInstance, PHInv, OwnInstance
<1>2. recorder[l] # "none"
  BY <1>1 DEF recorder
<1>3. util'[l] = "ready" /\ \A o \in Loaders \ {l} : util'[o] = util[o]
  BY <1>1 DEF Returns, PHInv, PHTypeOK
<1>4. ASSUME NEW ok \in BOOLEAN, saving' = [saving EXCEPT ![l] = ok],
             view' = [view EXCEPT ![l] = ok]
      PROVE  Own!Becomes(l, IF ok THEN "saving" ELSE "stopped")
  <2>1. saving'[l] = ok /\ \A o \in Loaders \ {l} : saving'[o] = saving[o]
    BY <1>4 DEF PHInv, PHTypeOK
  <2>2. recorder'[l] = IF ok THEN "saving" ELSE "stopped"
    BY <1>3, <2>1 DEF recorder, HasInstance
  <2>3. recorder' = [recorder EXCEPT ![l] = IF ok THEN "saving" ELSE "stopped"]
    BY <1>3, <2>1, <2>2, OneRecorder DEF HasInstance
  <2>4. ((IF ok THEN "saving" ELSE "stopped") = "saving") = ok
    OBVIOUS
  <2> QED
    BY <1>4, <2>3, <2>4 DEF Own!Becomes
<1>5. CASE StartSave(l)
  BY <1>1, <1>2, <1>4, <1>5 DEF StartSave, Own!Start
<1>6. CASE StopSave(l) \/ AddTSBuffFails(l)
  BY <1>1, <1>2, <1>4, <1>6 DEF StopSave, AddTSBuffFails, Own!Stop
<1> QED
  BY <1>5, <1>6

\* The id table is an implementation of a recorder per loader, for every number of
\* loaders up to MaxTries and every number of ids.
THEOREM OwnRecorderImplemented == PHSpec => ImplementsOwnRecorder
<1>1. PHInit => Own!Init
  BY DEF PHInit, Own!Init, recorder, HasInstance
<1>2. PHInv /\ [PHNext]_phVars => [Own!Next]_Own!vars
  <2> SUFFICES ASSUME PHInv, [PHNext]_phVars
               PROVE  [Own!Next]_Own!vars
    OBVIOUS
  <2>1. ASSUME NEW l \in Loaders, LoaderStep(l)
        PROVE  [Own!Next]_Own!vars
    <3>1. CASE CreateCtrl(l)
      BY <3>1, CreateRefines DEF Own!Next
    <3>2. CASE DeleteCtrl(l)
      BY <3>2, DeleteRefines DEF Own!Next
    <3>3. CASE StartSave(l) \/ StopSave(l) \/ AddTSBuffFails(l)
      BY <3>3, CallRefines DEF Own!Next
    <3>4. CASE Initialize(l) \/ CreateCtrlFails(l) \/ FreeLibrary(l) \/ FindInstance(l)
               \/ OtherCall(l)
      <4>1. UNCHANGED <<saving, view>>
        BY <3>4 DEF Initialize, CreateCtrlFails, FreeLibrary, FindInstance, OtherCall
      <4>2. \A o \in Loaders : HasInstance(o) <=> HasInstance(o)'
        BY <3>4 DEF Initialize, CreateCtrlFails, FreeLibrary, FindInstance, OtherCall,
           Returns, HasInstance, PHInv, PHTypeOK
      <4> QED
        BY <4>1, <4>2, NoRecorder
    <3> QED
      BY <2>1, <3>1, <3>2, <3>3, <3>4 DEF LoaderStep
  <2>2. CASE UNCHANGED phVars
    BY <2>2 DEF phVars, Own!vars, recorder, HasInstance
  <2> QED
    BY <2>1, <2>2 DEF PHNext
<1> QED
  BY <1>1, <1>2, PHInvariance, PTL DEF PHSpec, ImplementsOwnRecorder, Own!Spec
=============================================================================
