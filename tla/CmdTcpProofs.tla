---------------------------- MODULE CmdTcpProofs ----------------------------
(***************************************************************************)
(* Proofs about CmdTcp for every number of connections, list of rules and  *)
(* limit of events.                                                        *)
(***************************************************************************)
EXTENDS CmdTcp, TLAPS

-----------------------------------------------------------------------------
(* The inductive invariant.                                                *)

\* Where the thread is and what it has in its hands there.
PlaceInv ==
  /\ ~m_hThread => tThread = "off"
  /\ tThread = "off" => waitList = <<>>
  /\ tThread # "poll" => i = 0
  /\ cur \in TcpCalls <=> tThread \in {"recv", "call", "push", "close"}

\* The connections that are not accepted, the one that is served and the held ones
\* are different calls, and have begun.
ConnectionsInv ==
  /\ \A j, k \in DOMAIN backlog : backlog[j] = backlog[k] => j = k
  /\ \A j \in DOMAIN backlog : call[backlog[j]] # "idle" /\ backlog[j] # cur
  /\ cur \in TcpCalls => call[cur] # "idle"
  /\ \A k \in DOMAIN waitList :
       /\ call[waitList[k].sock] # "idle"
       /\ waitList[k].sock # cur
       /\ \A j \in DOMAIN backlog : waitList[k].sock # backlog[j]

\* The two lists are parallel, element by element.
ListsInv ==
  /\ Len(hEventList) <= MaxEvents
  /\ tThread # "off" =>
       /\ Len(hEventList) = Len(waitList) + 2
       /\ hEventList[1] = "notify" /\ hEventList[2] = "accept"
       /\ \A k \in DOMAIN waitList : hEventList[k + 2] = waitList[k].sock
  /\ \A j, k \in DOMAIN waitList : waitList[j].sock = waitList[k].sock => j = k

\* A change is to be announced, or announced.
Pending == changed \/ notify

\* A held command for a status that has passed is met by a pass: by one that is
\* announced or to be announced, or by the one that is under way.
NotifyInv ==
  /\ \A k \in DOMAIN waitList : waitList[k].cmd =>
       \/ known[waitList[k].sock] = status
       \/ Pending
       \/ tThread = "poll" /\ i <= k
  /\ tThread = "push" => known[cur] = status \/ Pending

CTInv ==
  /\ CTTypeOK
  /\ PlaceInv
  /\ ConnectionsInv
  /\ ListsInv
  /\ NotifyInv

-----------------------------------------------------------------------------
(* Lemmas about sequences.                                                 *)

\* RemoveAt takes out one element.
LEMMA RemoveAtFacts ==
  ASSUME NEW S, NEW s \in Seq(S), NEW k \in 1 .. Len(s)
  PROVE  /\ RemoveAt(s, k) \in Seq(S)
         /\ Len(RemoveAt(s, k)) = Len(s) - 1
         /\ \A j \in 1 .. Len(s) - 1 :
              RemoveAt(s, k)[j] = IF j < k THEN s[j] ELSE s[j + 1]
<1> DEFINE h == SubSeq(s, 1, k - 1)
           t == SubSeq(s, k + 1, Len(s))
<1>0. RemoveAt(s, k) = h \o t
  BY DEF RemoveAt
<1>1. h \in Seq(S) /\ Len(h) = k - 1 /\ \A j \in 1 .. k - 1 : h[j] = s[j]
  OBVIOUS
<1>2. t \in Seq(S) /\ Len(t) = Len(s) - k
  OBVIOUS
<1>3. \A j \in 1 .. Len(s) - k : t[j] = s[k + j]
  OBVIOUS
<1> HIDE DEF h, t
<1> DEFINE r == h \o t
<1>4. r \in Seq(S) /\ Len(r) = Len(s) - 1
  BY <1>1, <1>2
<1>5. ASSUME NEW j \in 1 .. Len(s) - 1
      PROVE  r[j] = IF j < k THEN s[j] ELSE s[j + 1]
  <2>1. CASE j < k
    BY <1>1, <1>2, <2>1
  <2>2. CASE ~(j < k)
    <3>1. r[j] = t[j - (k - 1)] /\ j - (k - 1) \in 1 .. Len(s) - k
      BY <1>1, <1>2, <2>2
    <3>2. k + (j - (k - 1)) = j + 1
      OBVIOUS
    <3> QED
      BY <1>3, <2>2, <3>1, <3>2
  <2> QED
    BY <2>1, <2>2
<1> HIDE DEF r
<1>6. RemoveAt(s, k) = r
  BY <1>0 DEF r
<1> QED
  BY <1>4, <1>5, <1>6

-----------------------------------------------------------------------------
LEMMA EmptyType ==
  ASSUME NEW S
  PROVE  <<>> \in Seq(S) /\ Len(<<>>) = 0
OBVIOUS

\* What is appended behind the others.
LEMMA AppendFacts ==
  ASSUME NEW S, NEW s \in Seq(S), NEW e \in S
  PROVE  /\ Append(s, e) \in Seq(S)
         /\ Len(Append(s, e)) = Len(s) + 1
         /\ \A j \in 1 .. Len(s) : Append(s, e)[j] = s[j]
         /\ Append(s, e)[Len(s) + 1] = e
OBVIOUS

LEMMA EntryType ==
  ASSUME NEW s \in Seq(Entries), NEW k \in DOMAIN s
  PROVE  /\ s[k] \in Entries
         /\ s[k].sock \in TcpCalls
         /\ s[k].cmd \in BOOLEAN
<1>1. s[k] \in Entries
  OBVIOUS
<1> QED
  BY <1>1 DEF Entries

\* An entry that is given up or answered, or that gets late, stays where it is.
LEMMA EntryChanged ==
  ASSUME NEW s \in Seq(Entries), NEW k \in DOMAIN s, NEW e \in Entries,
         e.sock = s[k].sock
  PROVE  /\ [s EXCEPT ![k] = e] \in Seq(Entries)
         /\ Len([s EXCEPT ![k] = e]) = Len(s)
         /\ \A j \in DOMAIN s : [s EXCEPT ![k] = e][j].sock = s[j].sock
         /\ \A j \in DOMAIN s : j # k => [s EXCEPT ![k] = e][j] = s[j]
         /\ [s EXCEPT ![k] = e][k] = e
OBVIOUS

LEMMA InitCTInv == CTInit => CTInv
<1> SUFFICES ASSUME CTInit
             PROVE  CTInv
  OBVIOUS
<1> USE CallsAssumption, MaxEventsAssumption DEF CTInit
<1>1. CTTypeOK
  <2>1. \A S : <<>> \in Seq(S)
    OBVIOUS
  <2>2. status \in Nat /\ i \in 0 .. Len(waitList) + 1
    OBVIOUS
  <2>3. call \in [TcpCalls -> Calls] /\ sock \in [TcpCalls -> Socks]
    BY DEF Calls, Socks
  <2>4. known \in [TcpCalls -> Int]
    OBVIOUS
  <2> QED
    BY <2>1, <2>2, <2>3, <2>4 DEF CTTypeOK, TThreads
<1>2. PlaceInv /\ ConnectionsInv /\ ListsInv /\ NotifyInv
  BY DEF PlaceInv, ConnectionsInv, ListsInv, NotifyInv
<1> QED
  BY <1>1, <1>2 DEF CTInv

LEMMA TcpStartServerCTInv ==
  ASSUME CTInv, TcpStartServer
  PROVE  CTInv'
<1> USE CallsAssumption, MaxEventsAssumption
    DEF CTInv, TcpStartServer, ownerVars, threadVars, connVars
<1>1. CTTypeOK'
  <2>1. hEventList' \in Seq(TcpCalls \cup {"notify", "accept"})
    OBVIOUS
  <2> QED
    BY <2>1 DEF CTTypeOK, TThreads, Calls, Socks
<1>2. PlaceInv'
  BY DEF PlaceInv
<1>3. ConnectionsInv'
  BY DEF ConnectionsInv
<1>4. ListsInv'
  BY DEF PlaceInv, ListsInv
<1>5. NotifyInv'
  BY DEF PlaceInv, NotifyInv
<1> QED
  BY <1>1, <1>2, <1>3, <1>4, <1>5

LEMMA TcpStopRequestCTInv ==
  ASSUME CTInv, TcpStopRequest
  PROVE  CTInv'
<1> USE CallsAssumption, MaxEventsAssumption
    DEF CTInv, TcpStopRequest, ownerVars, threadVars, connVars
<1>1. CTTypeOK'
  BY DEF CTTypeOK
<1>2. PlaceInv'
  BY DEF PlaceInv
<1>3. ConnectionsInv'
  BY DEF ConnectionsInv
<1>4. ListsInv'
  BY DEF ListsInv
<1>5. NotifyInv'
  BY DEF NotifyInv, Pending
<1> QED
  BY <1>1, <1>2, <1>3, <1>4, <1>5

LEMMA TcpStopServerCTInv ==
  ASSUME CTInv, TcpStopServer
  PROVE  CTInv'
<1> USE CallsAssumption, MaxEventsAssumption
    DEF CTInv, TcpStopServer, CloseListener, ownerVars, threadVars, connVars
<1>1. CTTypeOK'
  <2>1. backlog' \in Seq(TcpCalls)
    BY EmptyType
  <2>2. sock' \in [TcpCalls -> Socks]
    BY DEF CTTypeOK, Socks
  <2> QED
    BY <2>1, <2>2 DEF CTTypeOK, TThreads, Calls, Socks
<1>2. PlaceInv'
  BY DEF PlaceInv
<1>3. ConnectionsInv'
  BY DEF ConnectionsInv
<1>4. ListsInv'
  BY DEF ListsInv
<1>5. NotifyInv'
  BY DEF PlaceInv, NotifyInv
<1> QED
  BY <1>1, <1>2, <1>3, <1>4, <1>5

LEMMA TcpStopTerminatesCTInv ==
  ASSUME CTInv, TcpStopTerminates
  PROVE  CTInv'
<1> USE CallsAssumption, MaxEventsAssumption
    DEF CTInv, TcpStopTerminates, CloseListener, ownerVars, threadVars, connVars
<1>1. CTTypeOK'
  <2>1. /\ backlog' \in Seq(TcpCalls)
        /\ waitList' \in Seq(Entries)
        /\ hEventList' \in Seq(TcpCalls \cup {"notify", "accept"})
    BY EmptyType
  <2>2. sock' \in [TcpCalls -> Socks]
    BY DEF CTTypeOK, Socks
  <2>3. i' \in 0 .. Len(waitList') + 1
    BY EmptyType
  <2> QED
    BY <2>1, <2>2, <2>3 DEF CTTypeOK, TThreads, Calls, Socks
<1>2. PlaceInv'
  BY DEF PlaceInv
<1>3. ConnectionsInv'
  BY DEF ConnectionsInv
<1>4. ListsInv'
  BY DEF ListsInv
<1>5. NotifyInv'
  BY DEF NotifyInv
<1> QED
  BY <1>1, <1>2, <1>3, <1>4, <1>5

LEMMA StatusChangesCTInv ==
  ASSUME CTInv, StatusChanges
  PROVE  CTInv'
<1> USE CallsAssumption, MaxEventsAssumption
    DEF CTInv, StatusChanges, ownerVars, threadVars, connVars
<1>1. CTTypeOK'
  BY DEF CTTypeOK
<1>2. PlaceInv'
  BY DEF PlaceInv
<1>3. ConnectionsInv'
  BY DEF ConnectionsInv
<1>4. ListsInv'
  BY DEF ListsInv
<1>5. NotifyInv'
  BY DEF NotifyInv, Pending
<1> QED
  BY <1>1, <1>2, <1>3, <1>4, <1>5

LEMMA NotifyUpdateCTInv ==
  ASSUME CTInv, NotifyUpdate
  PROVE  CTInv'
<1> USE CallsAssumption, MaxEventsAssumption
    DEF CTInv, NotifyUpdate, ownerVars, threadVars, connVars
<1>1. CTTypeOK'
  BY DEF CTTypeOK
<1>2. PlaceInv'
  BY DEF PlaceInv
<1>3. ConnectionsInv'
  BY DEF ConnectionsInv
<1>4. ListsInv'
  BY DEF ListsInv
<1>5. NotifyInv'
  BY DEF CTTypeOK, PlaceInv, NotifyInv, Pending
<1> QED
  BY <1>1, <1>2, <1>3, <1>4, <1>5

LEMMA CleanupCTInv ==
  ASSUME CTInv, Cleanup
  PROVE  CTInv'
<1> USE CallsAssumption, MaxEventsAssumption
    DEF CTInv, Cleanup, ownerVars, threadVars, connVars
<1>1. CTTypeOK'
  BY DEF CTTypeOK, PlaceInv, TThreads, Socks
<1>2. PlaceInv'
  BY DEF PlaceInv
<1>3. ConnectionsInv'
  BY DEF ConnectionsInv
<1>4. ListsInv'
  BY DEF ListsInv
<1>5. NotifyInv'
  BY DEF NotifyInv
<1> QED
  BY <1>1, <1>2, <1>3, <1>4, <1>5

LEMMA LoopCTInv ==
  ASSUME CTInv, Loop
  PROVE  CTInv'
<1> USE CallsAssumption, MaxEventsAssumption
    DEF CTInv, Loop, ownerVars, threadVars, connVars
<1>1. CTTypeOK'
  BY DEF CTTypeOK, TThreads
<1>2. PlaceInv'
  BY DEF PlaceInv
<1>3. ConnectionsInv'
  BY DEF ConnectionsInv
<1>4. ListsInv'
  BY DEF ListsInv
<1>5. NotifyInv'
  BY DEF NotifyInv, Pending
<1> QED
  BY <1>1, <1>2, <1>3, <1>4, <1>5

LEMMA BeginPassCTInv ==
  ASSUME CTInv, BeginPass
  PROVE  CTInv'
<1> USE CallsAssumption, MaxEventsAssumption
    DEF CTInv, BeginPass, ownerVars, threadVars, connVars
<1>1. CTTypeOK'
  <2>1. i' \in 0 .. Len(waitList') + 1
    BY DEF CTTypeOK
  <2> QED
    BY <2>1 DEF CTTypeOK, TThreads, Calls, Socks
<1>2. PlaceInv'
  BY DEF PlaceInv
<1>3. ConnectionsInv'
  BY DEF ConnectionsInv
<1>4. ListsInv'
  BY DEF ListsInv
<1>5. NotifyInv'
  BY DEF CTTypeOK, NotifyInv
<1> QED
  BY <1>1, <1>2, <1>3, <1>4, <1>5

LEMMA PollEntryCTInv ==
  ASSUME CTInv, PollEntry
  PROVE  CTInv'
<1> USE CallsAssumption, MaxEventsAssumption
    DEF CTInv, PollEntry, ownerVars, threadVars, connVars
<1>1. /\ waitList' \in Seq(Entries)
      /\ Len(waitList') = Len(waitList)
      /\ \A j \in DOMAIN waitList : waitList'[j].sock = waitList[j].sock
      /\ \A j \in DOMAIN waitList : j # i => waitList'[j] = waitList[j]
      /\ waitList'[i].cmd => known[waitList[i].sock] = status
  <2>1. waitList \in Seq(Entries) /\ i \in DOMAIN waitList /\ waitList[i] \in Entries
    BY EntryType DEF CTTypeOK
  <2>2. CASE waitList[i].cmd /\ (known[waitList[i].sock] # status \/ waitList[i].late)
    <3> DEFINE e == [sock |-> waitList[i].sock, cmd |-> FALSE, late |-> FALSE]
    <3>1. waitList' = [waitList EXCEPT ![i] = e]
      BY <2>2, <2>1 DEF Entries
    <3>2. e \in Entries /\ e.sock = waitList[i].sock /\ e.cmd = FALSE
      BY <2>1 DEF Entries
    <3> HIDE DEF e
    <3> QED
      BY <2>1, <3>1, <3>2, EntryChanged
  <2>3. CASE ~(waitList[i].cmd /\ (known[waitList[i].sock] # status \/ waitList[i].late))
    BY <2>3, <2>1
  <2> QED
    BY <2>2, <2>3
<1>2. CTTypeOK'
  <2>1. waitList' \in Seq(Entries) /\ i' \in 0 .. Len(waitList') + 1
    BY <1>1 DEF CTTypeOK
  <2>2. sock' \in [TcpCalls -> Socks]
    BY DEF CTTypeOK, Socks
  <2> QED
    BY <2>1, <2>2 DEF CTTypeOK, TThreads, Calls, Socks
<1>3. PlaceInv'
  BY DEF PlaceInv
<1>4. ConnectionsInv'
  <2>1. DOMAIN waitList' = DOMAIN waitList
    BY <1>1 DEF CTTypeOK
  <2> QED
    BY <1>1, <2>1 DEF ConnectionsInv
<1>5. ListsInv'
  BY <1>1 DEF CTTypeOK, ListsInv
<1>6. NotifyInv'
  <2>1. /\ DOMAIN waitList' = DOMAIN waitList
        /\ \A j \in DOMAIN waitList : j # i /\ i <= j => i + 1 <= j
        /\ i' = i + 1 /\ tThread' = "poll"
    BY <1>1 DEF CTTypeOK
  <2>2. ASSUME NEW j \in DOMAIN waitList, waitList'[j].cmd
        PROVE  \/ known[waitList'[j].sock] = status
               \/ Pending
               \/ i' <= j
    <3>1. CASE j = i
      BY <1>1, <2>2, <3>1
    <3>2. CASE j # i
      BY <1>1, <2>1, <2>2, <3>2 DEF NotifyInv
    <3> QED
      BY <3>1, <3>2
  <2> QED
    BY <2>1, <2>2 DEF NotifyInv, Pending
<1> QED
  BY <1>2, <1>3, <1>4, <1>5, <1>6

LEMMA EndPassCTInv ==
  ASSUME CTInv, EndPass
  PROVE  CTInv'
<1> USE CallsAssumption, MaxEventsAssumption
    DEF CTInv, EndPass, ownerVars, threadVars, connVars
<1>1. CTTypeOK'
  BY DEF CTTypeOK, TThreads
<1>2. PlaceInv'
  BY DEF PlaceInv
<1>3. ConnectionsInv'
  BY DEF ConnectionsInv
<1>4. ListsInv'
  BY DEF ListsInv
<1>5. NotifyInv'
  BY DEF CTTypeOK, NotifyInv, Pending
<1> QED
  BY <1>1, <1>2, <1>3, <1>4, <1>5

LEMMA CloseEntryCTInv ==
  ASSUME CTInv, CloseEntry
  PROVE  CTInv'
<1> USE CallsAssumption, MaxEventsAssumption
    DEF CTInv, CloseEntry, EventOf, ownerVars, threadVars, connVars
<1>1. PICK k \in DOMAIN waitList :
        IF Closed(waitList[k].sock)
          THEN /\ sock' = [sock EXCEPT ![waitList[k].sock] = "closed"]
               /\ waitList' = RemoveAt(waitList, k)
               /\ hEventList' = RemoveAt(hEventList, k + 2)
          ELSE UNCHANGED <<sock, waitList, hEventList>>
  OBVIOUS
<1>2. CASE UNCHANGED <<sock, waitList, hEventList>>
  BY <1>2 DEF CTTypeOK, TThreads, PlaceInv, ConnectionsInv, ListsInv, NotifyInv, Pending
<1> SUFFICES ASSUME waitList' = RemoveAt(waitList, k),
                    hEventList' = RemoveAt(hEventList, k + 2),
                    sock' = [sock EXCEPT ![waitList[k].sock] = "closed"]
             PROVE  CTInv'
  BY <1>1, <1>2
<1> DEFINE n == Len(waitList)
           at(j) == IF j < k THEN j ELSE j + 1
<1>3. /\ waitList \in Seq(Entries) /\ DOMAIN waitList = 1 .. n
      /\ hEventList \in Seq(TcpCalls \cup {"notify", "accept"})
      /\ Len(hEventList) = n + 2 /\ n \in Nat /\ k \in 1 .. n
  BY DEF CTTypeOK, ListsInv
<1>4. /\ waitList' \in Seq(Entries)
      /\ DOMAIN waitList' = 1 .. n - 1 /\ Len(waitList') = n - 1
      /\ \A j \in 1 .. n - 1 : waitList'[j] = waitList[at(j)]
  <2> DEFINE s == RemoveAt(waitList, k)
  <2>1. /\ s \in Seq(Entries) /\ Len(s) = n - 1
        /\ \A j \in 1 .. n - 1 : s[j] = IF j < k THEN waitList[j] ELSE waitList[j + 1]
    BY <1>3, RemoveAtFacts
  <2>2. s = waitList'
    OBVIOUS
  <2> HIDE DEF s
  <2> QED
    BY <2>1, <2>2
<1>5. /\ hEventList' \in Seq(TcpCalls \cup {"notify", "accept"})
      /\ Len(hEventList') = n + 1
      /\ \A j \in 1 .. n + 1 : hEventList'[j] = IF j < k + 2 THEN hEventList[j] ELSE hEventList[j + 1]
  <2> DEFINE S == TcpCalls \cup {"notify", "accept"}
             m == k + 2
  <2>1. hEventList \in Seq(S) /\ m \in 1 .. Len(hEventList) /\ Len(hEventList) - 1 = n + 1
    BY <1>3
  <2> HIDE DEF S, m
  <2>2. /\ RemoveAt(hEventList, m) \in Seq(S)
        /\ Len(RemoveAt(hEventList, m)) = Len(hEventList) - 1
        /\ \A j \in 1 .. Len(hEventList) - 1 :
             RemoveAt(hEventList, m)[j] = IF j < m THEN hEventList[j] ELSE hEventList[j + 1]
    BY <2>1, RemoveAtFacts
  <2>3. hEventList' = RemoveAt(hEventList, m)
    BY DEF m
  <2> QED
    BY <2>1, <2>2, <2>3 DEF S, m
<1>6. \A j \in 1 .. n - 1 : at(j) \in 1 .. n
  BY <1>3
<1>7. \A j, m \in 1 .. n - 1 : at(j) = at(m) => j = m
  BY <1>3
<1> HIDE DEF n
<1>8. CTTypeOK'
  <2>1. i = 0 /\ i' \in 0 .. Len(waitList') + 1
    BY <1>3, <1>4 DEF CTTypeOK, PlaceInv
  <2>2. sock' \in [TcpCalls -> Socks]
    BY DEF CTTypeOK, Socks
  <2>3. waitList' \in Seq(Entries) /\ hEventList' \in Seq(TcpCalls \cup {"notify", "accept"})
    BY <1>4, <1>5
  <2> QED
    BY <2>1, <2>2, <2>3 DEF CTTypeOK, TThreads, Calls, Socks
<1>9. PlaceInv'
  BY DEF PlaceInv
<1>10. ConnectionsInv'
  <2>1. \A j \in DOMAIN waitList' : at(j) \in DOMAIN waitList /\ waitList'[j] = waitList[at(j)]
    BY <1>3, <1>4, <1>6
  <2> HIDE DEF at
  <2> QED
    BY <2>1 DEF ConnectionsInv
<1>11. ListsInv'
  <2>1. Len(hEventList') <= MaxEvents /\ Len(hEventList') = Len(waitList') + 2
    BY <1>3, <1>4, <1>5 DEF CTTypeOK, ListsInv
  <2>2. hEventList'[1] = "notify" /\ hEventList'[2] = "accept"
    BY <1>3, <1>5 DEF CTTypeOK, ListsInv
  <2>3. ASSUME NEW j \in 1 .. n - 1
        PROVE  hEventList'[j + 2] = waitList'[j].sock
    <3>1. hEventList'[j + 2] = hEventList[at(j) + 2]
      BY <1>3, <1>5
    <3>2. hEventList[at(j) + 2] = waitList[at(j)].sock
      BY <1>3, <1>6 DEF ListsInv
    <3> QED
      BY <1>4, <3>1, <3>2
  <2>4. ASSUME NEW j \in 1 .. n - 1, NEW m \in 1 .. n - 1,
               waitList'[j].sock = waitList'[m].sock
        PROVE  j = m
    <3>1. at(j) \in DOMAIN waitList /\ at(m) \in DOMAIN waitList
      BY <1>3, <1>6
    <3>2. waitList[at(j)].sock = waitList[at(m)].sock
      BY <1>4, <2>4
    <3> HIDE DEF at
    <3>3. at(j) = at(m)
      BY <3>1, <3>2 DEF ListsInv
    <3> QED
      BY <1>7, <3>3
  <2> QED
    BY <1>4, <2>1, <2>2, <2>3, <2>4 DEF ListsInv
<1>12. NotifyInv'
  <2>1. \A j \in DOMAIN waitList' : at(j) \in DOMAIN waitList /\ waitList'[j] = waitList[at(j)]
    BY <1>3, <1>4, <1>6
  <2> HIDE DEF at
  <2> QED
    BY <2>1 DEF NotifyInv, Pending
<1> QED
  BY <1>8, <1>9, <1>10, <1>11, <1>12

LEMMA AcceptCTInv ==
  ASSUME CTInv, Accept
  PROVE  CTInv'
<1> USE CallsAssumption, MaxEventsAssumption
    DEF CTInv, Accept, ownerVars, threadVars, connVars
<1>1. /\ backlog' \in Seq(TcpCalls)
      /\ Head(backlog) = backlog[1] /\ 1 \in DOMAIN backlog /\ backlog[1] \in TcpCalls
      /\ \A j \in DOMAIN backlog' : /\ j + 1 \in DOMAIN backlog /\ j + 1 # 1
                                    /\ backlog'[j] = backlog[j + 1]
  BY DEF CTTypeOK
<1>2. \A j, k \in DOMAIN backlog' : j + 1 = k + 1 => j = k
  BY <1>1
<1>3. CTTypeOK'
  <2>1. sock' \in [TcpCalls -> Socks]
    BY <1>1 DEF CTTypeOK, Socks
  <2>2. cur' \in TcpCalls \cup {NoCall}
    BY <1>1 DEF CTTypeOK
  <2>3. tThread' \in TThreads
    BY DEF TThreads
  <2>4. i' \in 0 .. Len(waitList') + 1
    BY DEF CTTypeOK
  <2> QED
    BY <1>1, <2>1, <2>2, <2>3, <2>4 DEF CTTypeOK
<1>4. PlaceInv'
  BY DEF CTTypeOK, PlaceInv
<1>5. ConnectionsInv'
  <2>1. \A j, k \in DOMAIN backlog' : backlog'[j] = backlog'[k] => j = k
    <3> SUFFICES ASSUME NEW j \in DOMAIN backlog', NEW k \in DOMAIN backlog',
                        backlog'[j] = backlog'[k]
                 PROVE  j + 1 = k + 1
      BY <1>2
    <3>1. j + 1 \in DOMAIN backlog /\ k + 1 \in DOMAIN backlog /\ backlog[j + 1] = backlog[k + 1]
      BY <1>1
    <3> QED
      BY <3>1 DEF ConnectionsInv
  <2>2. \A j \in DOMAIN backlog' : backlog'[j] # backlog[1]
    BY <1>1 DEF ConnectionsInv
  <2>3. cur' \in {cur, backlog[1]}
    BY <1>1
  <2> QED
    BY <1>1, <2>1, <2>2, <2>3 DEF ConnectionsInv
<1>6. ListsInv'
  BY DEF ListsInv
<1>7. NotifyInv'
  BY DEF NotifyInv, Pending
<1> QED
  BY <1>3, <1>4, <1>5, <1>6, <1>7

LEMMA RecvCTInv ==
  ASSUME CTInv, Recv
  PROVE  CTInv'
<1> USE CallsAssumption, MaxEventsAssumption
    DEF CTInv, Recv, ownerVars, threadVars, connVars
<1>1. CTTypeOK'
  BY DEF CTTypeOK, TThreads
<1>2. PlaceInv'
  BY DEF PlaceInv
<1>3. ConnectionsInv'
  BY DEF ConnectionsInv
<1>4. ListsInv'
  BY DEF ListsInv
<1>5. NotifyInv'
  BY DEF NotifyInv, Pending
<1> QED
  BY <1>1, <1>2, <1>3, <1>4, <1>5

LEMMA CallbackCTInv ==
  ASSUME CTInv, Callback
  PROVE  CTInv'
<1> USE CallsAssumption, MaxEventsAssumption
    DEF CTInv, Callback, ownerVars, threadVars, connVars
<1>1. CTTypeOK'
  BY DEF CTTypeOK, TThreads, Socks
<1>2. PlaceInv'
  BY DEF PlaceInv
<1>3. ConnectionsInv'
  BY DEF ConnectionsInv
<1>4. ListsInv'
  BY DEF ListsInv
<1>5. NotifyInv'
  BY DEF NotifyInv, Pending
<1> QED
  BY <1>1, <1>2, <1>3, <1>4, <1>5

LEMMA PushCTInv ==
  ASSUME CTInv, Push
  PROVE  CTInv'
<1> USE CallsAssumption, MaxEventsAssumption
    DEF CTInv, Push, ownerVars, threadVars, connVars
<1>1. CASE ~(Len(hEventList) < MaxEvents)
  BY <1>1 DEF CTTypeOK, TThreads, PlaceInv, ConnectionsInv, ListsInv, NotifyInv, Pending
<1> SUFFICES ASSUME Len(hEventList) < MaxEvents
             PROVE  CTInv'
  BY <1>1
<1> DEFINE e == [sock |-> cur, cmd |-> TRUE, late |-> FALSE]
           n == Len(waitList)
<1>2. /\ cur \in TcpCalls
      /\ e \in Entries /\ e.sock = cur /\ e.cmd = TRUE
  BY DEF PlaceInv, Entries
<1>3. waitList' = Append(waitList, e) /\ hEventList' = Append(hEventList, cur)
  OBVIOUS
<1> HIDE DEF e
<1>4. /\ waitList \in Seq(Entries) /\ n \in Nat /\ DOMAIN waitList = 1 .. n
      /\ waitList' \in Seq(Entries) /\ Len(waitList') = n + 1
      /\ DOMAIN waitList' = 1 .. n + 1
      /\ \A j \in 1 .. n : waitList'[j] = waitList[j]
      /\ waitList'[n + 1] = e
  BY <1>2, <1>3, AppendFacts DEF CTTypeOK
<1>5. /\ hEventList \in Seq(TcpCalls \cup {"notify", "accept"})
      /\ Len(hEventList) = n + 2
      /\ hEventList' \in Seq(TcpCalls \cup {"notify", "accept"})
      /\ Len(hEventList') = n + 3
      /\ \A j \in 1 .. n + 2 : hEventList'[j] = hEventList[j]
      /\ hEventList'[n + 3] = cur
  <2>1. hEventList \in Seq(TcpCalls \cup {"notify", "accept"}) /\ Len(hEventList) = n + 2
    BY DEF CTTypeOK, ListsInv
  <2> QED
    BY <1>2, <1>3, <1>4, <2>1, AppendFacts
<1>6. \A j \in DOMAIN waitList' : j \in 1 .. n \/ j = n + 1
  BY <1>4
<1> HIDE DEF n
<1>7. CTTypeOK'
  <2>1. i' \in 0 .. Len(waitList') + 1
    BY <1>4 DEF CTTypeOK
  <2>2. tThread' \in TThreads
    BY DEF TThreads
  <2> QED
    BY <1>4, <1>5, <2>1, <2>2 DEF CTTypeOK
<1>8. PlaceInv'
  BY DEF PlaceInv
<1>9. ConnectionsInv'
  <2>1. \A j \in DOMAIN backlog : backlog[j] \in TcpCalls
    BY DEF CTTypeOK
  <2>2. \A k \in 1 .. n : waitList[k].sock \in TcpCalls
    BY <1>4, EntryType
  <2>3. \A k \in 1 .. n : /\ call[waitList[k].sock] # "idle"
                          /\ \A j \in DOMAIN backlog : waitList[k].sock # backlog[j]
    BY <1>4 DEF ConnectionsInv
  <2>4. call[cur] # "idle" /\ \A j \in DOMAIN backlog : cur # backlog[j]
    BY <1>2 DEF ConnectionsInv
  <2>5. ASSUME NEW k \in DOMAIN waitList'
        PROVE  /\ call[waitList'[k].sock] # "idle"
               /\ waitList'[k].sock # NoCall
               /\ \A j \in DOMAIN backlog : waitList'[k].sock # backlog[j]
    BY <1>2, <1>4, <1>6, <2>2, <2>3, <2>4
  <2> QED
    BY <1>2, <2>1, <2>5 DEF ConnectionsInv
<1>10. ListsInv'
  <2>1. Len(hEventList') <= MaxEvents /\ Len(hEventList') = Len(waitList') + 2
    BY <1>4, <1>5
  <2>2. hEventList'[1] = "notify" /\ hEventList'[2] = "accept"
    BY <1>4, <1>5 DEF ListsInv
  <2>3. ASSUME NEW j \in DOMAIN waitList'
        PROVE  hEventList'[j + 2] = waitList'[j].sock
    BY <1>2, <1>4, <1>5, <1>6 DEF ListsInv
  <2>4. \A j \in 1 .. n : waitList[j].sock # cur
    BY <1>4 DEF ConnectionsInv
  <2>5. ASSUME NEW j \in DOMAIN waitList', NEW k \in DOMAIN waitList',
               waitList'[j].sock = waitList'[k].sock
        PROVE  j = k
    BY <1>2, <1>4, <1>6, <2>4, <2>5 DEF ListsInv
  <2> QED
    BY <2>1, <2>2, <2>3, <2>5 DEF ListsInv
<1>11. NotifyInv'
  <2>1. ASSUME NEW k \in DOMAIN waitList', waitList'[k].cmd
        PROVE  known[waitList'[k].sock] = status \/ Pending
    BY <1>2, <1>4, <1>6, <2>1 DEF NotifyInv
  <2> QED
    BY <2>1 DEF NotifyInv, Pending
<1> QED
  BY <1>7, <1>8, <1>9, <1>10, <1>11

LEMMA CloseConnectionCTInv ==
  ASSUME CTInv, CloseConnection
  PROVE  CTInv'
<1> USE CallsAssumption, MaxEventsAssumption
    DEF CTInv, CloseConnection, ownerVars, threadVars, connVars
<1>1. CTTypeOK'
  BY DEF CTTypeOK, TThreads, Socks
<1>2. PlaceInv'
  BY DEF PlaceInv
<1>3. ConnectionsInv'
  <2>1. \A j \in DOMAIN backlog : backlog[j] # NoCall
    BY DEF CTTypeOK
  <2>2. \A k \in DOMAIN waitList : waitList[k].sock # NoCall
    BY EntryType DEF CTTypeOK
  <2> QED
    BY <2>1, <2>2 DEF ConnectionsInv
<1>4. ListsInv'
  BY DEF ListsInv
<1>5. NotifyInv'
  BY DEF NotifyInv, Pending
<1> QED
  BY <1>1, <1>2, <1>3, <1>4, <1>5

LEMMA TooLateCTInv ==
  ASSUME CTInv, NEW k \in DOMAIN waitList, TooLate(k)
  PROVE  CTInv'
<1> USE CallsAssumption, MaxEventsAssumption
    DEF CTInv, TooLate, ownerVars, threadVars, connVars
<1>1. /\ waitList' \in Seq(Entries)
      /\ Len(waitList') = Len(waitList)
      /\ \A j \in DOMAIN waitList : waitList'[j].sock = waitList[j].sock
      /\ \A j \in DOMAIN waitList : j # k => waitList'[j] = waitList[j]
      /\ waitList'[k].cmd = waitList[k].cmd
  <2>1. /\ waitList \in Seq(Entries) /\ waitList[k] \in Entries
        /\ waitList[k].cmd \in BOOLEAN
    BY EntryType DEF CTTypeOK
  <2> DEFINE e == [waitList[k] EXCEPT !.late = TRUE]
  <2>2. e \in Entries /\ e.sock = waitList[k].sock /\ e.cmd = waitList[k].cmd
    BY <2>1 DEF Entries
  <2>3. waitList' = [waitList EXCEPT ![k] = e]
    BY <2>1
  <2> HIDE DEF e
  <2> DEFINE s == [waitList EXCEPT ![k] = e]
  <2>4. waitList' \in Seq(Entries) /\ Len(waitList') = Len(waitList)
    <3>1. s \in Seq(Entries) /\ Len(s) = Len(waitList)
      BY <2>1, <2>2, EntryChanged, Zenon
    <3>2. waitList' = s
      BY <2>3
    <3> HIDE DEF s
    <3> QED
      BY <3>1, <3>2
  <2>5. /\ \A j \in DOMAIN waitList : waitList'[j].sock = waitList[j].sock
        /\ \A j \in DOMAIN waitList : j # k => waitList'[j] = waitList[j]
        /\ waitList'[k] = e
    BY <2>1, <2>2, <2>3, EntryChanged
  <2> QED
    BY <2>2, <2>4, <2>5
<1>2. CTTypeOK'
  <2>1. waitList' \in Seq(Entries) /\ Len(waitList') = Len(waitList)
    BY <1>1
  <2> QED
    BY <2>1 DEF CTTypeOK, TThreads, Calls, Socks
<1>3. PlaceInv'
  BY DEF PlaceInv
<1>4. ConnectionsInv'
  BY DEF ConnectionsInv
<1>5. ListsInv'
  BY <1>1 DEF CTTypeOK, ListsInv
<1>6. NotifyInv'
  BY DEF NotifyInv, Pending
<1> QED
  BY <1>2, <1>3, <1>4, <1>5, <1>6

LEMMA TcpConnectCTInv ==
  ASSUME CTInv, NEW c \in TcpCalls, TcpConnect(c)
  PROVE  CTInv'
<1> USE CallsAssumption, MaxEventsAssumption
    DEF CTInv, TcpConnect, TcpClientUnchanged, ownerVars, threadVars, connVars
<1>1. /\ call' \in [TcpCalls -> Calls] /\ known' \in [TcpCalls -> Int]
      /\ \A d \in TcpCalls \ {c} : call'[d] = call[d] /\ known'[d] = known[d]
      /\ call'[c] # "idle"
  <2>1. status \in Int
    BY DEF CTTypeOK
  <2>2. CASE m_hThread
    <3>1. PICK s \in {"recv", "stalled"} : call' = [call EXCEPT ![c] = s]
      BY <2>2
    <3>2. known' = [known EXCEPT ![c] = status] \/ known' = known
      BY <2>2
    <3> QED
      BY <2>1, <3>1, <3>2 DEF CTTypeOK, Calls
  <2>3. CASE ~m_hThread
    BY <2>3 DEF CTTypeOK, Calls
  <2> QED
    BY <2>2, <2>3
<1>2. /\ \A j \in DOMAIN backlog : backlog[j] \in TcpCalls \ {c}
      /\ \A k \in DOMAIN waitList : waitList[k].sock \in TcpCalls \ {c}
      /\ cur # c
  <2>1. \A k \in DOMAIN waitList : waitList[k].sock \in TcpCalls
    BY EntryType DEF CTTypeOK
  <2> QED
    BY <2>1 DEF CTTypeOK, ConnectionsInv
<1>3. /\ backlog' \in Seq(TcpCalls)
      /\ \A j \in DOMAIN backlog' :
           \/ j \in DOMAIN backlog /\ backlog'[j] = backlog[j]
           \/ j = Len(backlog) + 1 /\ backlog'[j] = c
  <2>1. backlog \in Seq(TcpCalls)
    BY DEF CTTypeOK
  <2>2. backlog' \in {backlog, Append(backlog, c)}
    OBVIOUS
  <2> QED
    BY <2>1, <2>2
<1>4. CTTypeOK'
  <2>1. sock' \in [TcpCalls -> Socks]
    BY DEF CTTypeOK, Socks
  <2> QED
    BY <1>1, <1>3, <2>1 DEF CTTypeOK
<1>5. PlaceInv'
  BY DEF PlaceInv
<1>6. ConnectionsInv'
  <2>1. \A j, k \in DOMAIN backlog' : backlog'[j] = backlog'[k] => j = k
    BY <1>2, <1>3 DEF ConnectionsInv
  <2>2. \A j \in DOMAIN backlog' : call'[backlog'[j]] # "idle" /\ backlog'[j] # cur
    BY <1>1, <1>2, <1>3 DEF ConnectionsInv
  <2>3. \A k \in DOMAIN waitList : \A j \in DOMAIN backlog' : waitList[k].sock # backlog'[j]
    BY <1>2, <1>3 DEF ConnectionsInv
  <2>4. /\ cur \in TcpCalls => call'[cur] # "idle"
        /\ \A k \in DOMAIN waitList : call'[waitList[k].sock] # "idle"
    BY <1>1, <1>2 DEF ConnectionsInv
  <2> QED
    BY <2>1, <2>2, <2>3, <2>4 DEF ConnectionsInv
<1>7. ListsInv'
  BY DEF ListsInv
<1>8. NotifyInv'
  <2>1. \A k \in DOMAIN waitList : known'[waitList[k].sock] = known[waitList[k].sock]
    BY <1>1, <1>2
  <2>2. tThread = "push" => known'[cur] = known[cur]
    BY <1>1, <1>2 DEF PlaceInv
  <2> QED
    BY <2>1, <2>2 DEF NotifyInv, Pending
<1> QED
  BY <1>4, <1>5, <1>6, <1>7, <1>8

LEMMA TcpReturnCTInv ==
  ASSUME CTInv, NEW c \in TcpCalls, TcpReturn(c)
  PROVE  CTInv'
<1> USE CallsAssumption, MaxEventsAssumption
    DEF CTInv, TcpReturn, TcpClientUnchanged, ownerVars, threadVars, connVars
<1>1. CTTypeOK'
  BY DEF CTTypeOK, Calls
<1>2. PlaceInv'
  BY DEF PlaceInv
<1>3. ConnectionsInv'
  BY DEF ConnectionsInv
<1>4. ListsInv'
  BY DEF ListsInv
<1>5. NotifyInv'
  BY DEF NotifyInv, Pending
<1> QED
  BY <1>1, <1>2, <1>3, <1>4, <1>5

LEMMA TcpDiesCTInv ==
  ASSUME CTInv, NEW c \in TcpCalls, TcpDies(c)
  PROVE  CTInv'
<1> USE CallsAssumption, MaxEventsAssumption
    DEF CTInv, TcpDies, TcpClientUnchanged, ownerVars, threadVars, connVars
<1>1. CTTypeOK'
  BY DEF CTTypeOK, Calls
<1>2. PlaceInv'
  BY DEF PlaceInv
<1>3. ConnectionsInv'
  BY DEF ConnectionsInv
<1>4. ListsInv'
  BY DEF ListsInv
<1>5. NotifyInv'
  BY DEF NotifyInv, Pending
<1> QED
  BY <1>1, <1>2, <1>3, <1>4, <1>5

LEMMA StutterCTInv ==
  ASSUME CTInv, UNCHANGED ctVars
  PROVE  CTInv'
BY DEF CTInv, ctVars, ownerVars, threadVars, connVars, CTTypeOK, PlaceInv, ConnectionsInv,
       ListsInv, NotifyInv, Pending

-----------------------------------------------------------------------------
\* Every step preserves the invariant.
LEMMA StepCTInv ==
  ASSUME CTInv, [CTNext]_ctVars
  PROVE  CTInv'
<1>1. CASE \/ TcpStartServer \/ TcpStopRequest \/ TcpStopServer \/ TcpStopTerminates
           \/ StatusChanges \/ NotifyUpdate
  BY <1>1, TcpStartServerCTInv, TcpStopRequestCTInv, TcpStopServerCTInv,
     TcpStopTerminatesCTInv, StatusChangesCTInv, NotifyUpdateCTInv
<1>2. CASE TcpServerThread
  BY <1>2, CleanupCTInv, LoopCTInv, BeginPassCTInv, PollEntryCTInv, EndPassCTInv,
     CloseEntryCTInv, AcceptCTInv, RecvCTInv, CallbackCTInv, PushCTInv,
     CloseConnectionCTInv
     DEF TcpServerThread
<1>3. CASE \E k \in DOMAIN waitList : TooLate(k)
  BY <1>3, TooLateCTInv
<1>4. CASE \E c \in TcpCalls : TcpConnect(c) \/ TcpReturn(c) \/ TcpDies(c)
  BY <1>4, TcpConnectCTInv, TcpReturnCTInv, TcpDiesCTInv
<1>5. CASE UNCHANGED ctVars
  BY <1>5, StutterCTInv
<1> QED
  BY <1>1, <1>2, <1>3, <1>4, <1>5 DEF CTNext

\* The invariant holds in every reachable state of the server and its clients.
THEOREM CTInvariance == CTSpec => []CTInv
<1>1. CTInit => CTInv
  BY InitCTInv
<1>2. CTInv /\ [CTNext]_ctVars => CTInv'
  BY StepCTInv
<1> QED
  BY <1>1, <1>2, PTL DEF CTSpec

\* However changes of the status, passes over the list, new commands and closed
\* connections interleave, no held command sleeps over a change
\* (TCPServer.cpp:166-176, :271-287).
THEOREM NotifyReachesAll == CTSpec => []NoMissedNotify
<1>1. CTInv => NoMissedNotify
  BY DEF CTInv, NotifyInv, NoMissedNotify, Pending
<1> QED
  BY <1>1, CTInvariance, PTL

\* The two lists stay parallel and no socket is in them twice, whatever is removed
\* in the middle; the limit of one wait is kept (TCPServer.cpp:204-214, :275-285).
THEOREM ListsParallel == CTSpec => []WaitAligned
<1>1. CTInv => WaitAligned
  <2> SUFFICES ASSUME CTInv, tThread # "off"
               PROVE  hEventList = <<"notify", "accept">> \o
                                     [k \in DOMAIN waitList |-> waitList[k].sock]
    BY DEF CTInv, ListsInv, WaitAligned
  <2> DEFINE S == TcpCalls \cup {"notify", "accept"}
             n == Len(waitList)
             socks == [k \in DOMAIN waitList |-> waitList[k].sock]
             both == <<"notify", "accept">> \o socks
  <2>1. n \in Nat /\ DOMAIN waitList = 1 .. n /\ hEventList \in Seq(S)
    BY DEF CTInv, CTTypeOK
  <2>2. /\ Len(hEventList) = n + 2
        /\ hEventList[1] = "notify" /\ hEventList[2] = "accept"
        /\ \A k \in 1 .. n : hEventList[k + 2] = waitList[k].sock
    BY <2>1 DEF CTInv, ListsInv
  <2>3. socks \in Seq(S) /\ Len(socks) = n /\ \A k \in 1 .. n : socks[k] = waitList[k].sock
    <3>1. \A k \in 1 .. n : waitList[k].sock \in S
      BY <2>1, EntryType DEF CTInv, CTTypeOK
    <3> QED
      BY <2>1, <3>1
  <2> HIDE DEF socks, n
  <2>4. /\ both \in Seq(S) /\ Len(both) = n + 2
        /\ both[1] = "notify" /\ both[2] = "accept"
        /\ \A k \in 1 .. n : both[k + 2] = socks[k]
    BY <2>1, <2>3
  <2> HIDE DEF both, S
  <2>5. \A j \in 1 .. n + 2 : hEventList[j] = both[j]
    <3> SUFFICES ASSUME NEW j \in 1 .. n + 2
                 PROVE  hEventList[j] = both[j]
      OBVIOUS
    <3>1. j \in {1, 2} \/ (j - 2 \in 1 .. n /\ (j - 2) + 2 = j)
      BY <2>1
    <3> QED
      BY <2>2, <2>3, <2>4, <3>1
  <2>6. hEventList = both
    BY <2>1, <2>2, <2>4, <2>5
  <2> QED
    BY <2>6 DEF both, socks
<1> QED
  BY <1>1, CTInvariance, PTL

=============================================================================
