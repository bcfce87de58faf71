----------------------------- MODULE TsSection -----------------------------
(***************************************************************************)
(* Reassembly of PSI sections and PES packets from TS packets of one PID   *)
(* (Common/TSPacketUtil.cpp, Common/TSBuffUtil.cpp).  A sender cuts a      *)
(* stream into packets; a packet may be lost, damaged or scrambled, a      *)
(* packet of another PID may come between; CTSBuffUtil puts the sections   *)
(* together again.  A byte is <<i, k>>, byte k of section i; what a        *)
(* section's first bytes say of its length is in SectionSizes.             *)
(***************************************************************************)
EXTENDS Integers, SequencesExt

CONSTANTS
  SectionSizes,  \* SectionSizes[i]: the bytes of section or PES packet i, its header included
  Unbounded,     \* the PES packets with PES_packet_length 0
  PayloadSize,   \* 184: the bytes of a packet behind its header
  FieldSizes,    \* bytes that an adaptation field with flags in it takes
  CounterMod,    \* 16: continuity_counter goes round
  MaxLost        \* bound: packets lost in a row

ASSUME TsAssumption ==
  /\ \A i \in DOMAIN SectionSizes : SectionSizes[i] \in Nat /\ SectionSizes[i] >= 6
  /\ CounterMod \in Nat /\ MaxLost < CounterMod - 1
  /\ \A n \in FieldSizes : n \in 0 .. PayloadSize - 6

VARIABLES
  stream,        \* "psi" or "pes": what the PID carries
  supportPES,
  rx,            \* the members of CTSBuffUtil, see Fresh
  answer,        \* what the last Add188TS returned
  sectionsOut,   \* history: what GetSectionBuff has given out
  pos, counter,  \* the sender: bytes sent, continuity_counter of the next packet
  lost,          \* packets lost since the last one that was added
  latest,        \* the last packet that was added
  damaged        \* history: sections that do not have to come out

sectionVars ==
  <<stream, supportPES, rx, answer, sectionsOut, pos, counter, lost, latest, damaged>>

NoPID == "0xFFFF"
NoCounter == 255
MAXDWORD == 1000
Stuffing == <<255, 0>>
Pointer(n) == <<n, 0>>

-----------------------------------------------------------------------------
(* CTSPacketUtil *)

\* Set188TS: FALSE for a packet without sync byte or with transport_error_indicator, and
\* the payload that is left behind the adaptation field.
Set188TS(packet) ==
  /\ ~packet.transport_error_indicator
  /\ packet.adaptation_field_control \in {1, 3}
       => PayloadSize - packet.adaptation_field_length >= Len(packet.data)

HasPayload(packet) == packet.adaptation_field_control \in {1, 3}
HasField(packet) == packet.adaptation_field_control \in {2, 3}

-----------------------------------------------------------------------------
(* CTSBuffUtil *)

Fresh == [sectionSize |-> 0, sectionBuff |-> <<>>, carryPacket |-> <<>>, lastPID |-> NoPID,
          lastCounter |-> NoCounter, duplicateFlag |-> FALSE, PESMode |-> FALSE]

\* Everything but duplicateFlag.
Clear(r) == [Fresh EXCEPT !.duplicateFlag = r.duplicateFlag]

Initial(r) == r.lastPID = NoPID /\ r.lastCounter = NoCounter

Pending(r) == r.sectionSize # 0 /\ r.sectionSize # Len(r.sectionBuff)

Discontinuity(packet) == HasField(packet) /\ packet.discontinuity_indicator

\* A mutant: a step of two goes unnoticed.
JumpOverTwo(r, packet) ==
  /\ packet.continuity_counter > r.lastCounter + 2
  /\ r.lastCounter # CounterMod - 1 /\ packet.continuity_counter # 0

\* The counter after the last one; a step from 15 and a step to 0 are always taken for one.
Jump(r, packet) ==
  /\ packet.continuity_counter # r.lastCounter + 1
  /\ r.lastCounter # CounterMod - 1 /\ packet.continuity_counter # 0

\* CheckCounter: whether the packet continues the last one, and the new duplicateFlag.
CheckCounter(r, packet) ==
  LET Verdict(continues, flag) == [continues |-> continues, flag |-> flag]
      same == r.lastCounter = packet.continuity_counter
      clear == packet.transport_scrambling_control = 0
  IN  CASE packet.PID = "null" -> Verdict(TRUE, FALSE)
        [] packet.PID # "null" /\ Initial(r) -> Verdict(TRUE, r.duplicateFlag)
        [] packet.PID # "null" /\ ~Initial(r) /\ r.lastPID # packet.PID -> Verdict(FALSE, FALSE)
        [] OTHER ->
             IF ~HasPayload(packet) THEN Verdict(~(clear /\ Discontinuity(packet)), FALSE)
             ELSE IF same /\ clear /\ r.duplicateFlag THEN Verdict(FALSE, FALSE)
             ELSE IF same /\ clear THEN Verdict(~Discontinuity(packet), TRUE)
             ELSE IF same THEN Verdict(TRUE, r.duplicateFlag)
             ELSE Verdict(~Jump(r, packet), r.duplicateFlag)

Result(r, ret) == [rx |-> r, ret |-> ret]

\* The length that the header at the start of these bytes gives.
LengthIn(bytes) == SectionSizes[bytes[1][1]]

UpTo(bytes, n) == SubSeq(bytes, 1, IF n < Len(bytes) THEN n ELSE Len(bytes))

Behind(bytes, n) == SubSeq(bytes, n + 1, Len(bytes))

Continues(r, bytes) ==
  LET more == [r EXCEPT !.sectionBuff =
                  @ \o UpTo(bytes, r.sectionSize - Len(r.sectionBuff))]
  IN  Result(more, IF Pending(more) THEN "ADD_NEXT" ELSE "TRUE")

\* A section starts behind pointer_field bytes; the first byte is pointer_field.
StartsSection(r, bytes, carried) ==
  LET rest == Behind(bytes, bytes[1][1] + 1)
      size == LengthIn(rest)
      read == [r EXCEPT !.sectionSize = size, !.sectionBuff = UpTo(rest, size)]
      more == <<Pointer(0)>> \o Behind(rest, size)
  IN  IF Len(rest) < 3 \/ UpTo(rest, 3) = <<Stuffing, Stuffing, Stuffing>>
      THEN Result(r, "ADD_NEXT")
      ELSE IF Pending(read) THEN Result(read, "ADD_NEXT")
      ELSE Result([read EXCEPT !.carryPacket = more], IF carried THEN "again" ELSE "TRUE")

AddSectionBuff(r, start, bytes, carried) ==
  LET left == r.sectionSize - Len(r.sectionBuff)
      last == [r EXCEPT !.sectionBuff = @ \o SubSeq(bytes, 2, left + 1),
                        !.carryPacket = <<Pointer(0)>> \o Behind(bytes, left + 1)]
  IN  IF bytes = <<>> \/ (~start /\ ~Pending(r)) THEN Result(r, "ADD_NEXT")
      ELSE IF ~start THEN Continues(r, bytes)
      ELSE IF bytes[1][1] + 1 > Len(bytes) THEN Result([r EXCEPT !.sectionSize = 0], "FALSE")
      ELSE IF Pending(r) /\ left = bytes[1][1] THEN Result(last, "TRUE")
      ELSE StartsSection(IF Pending(r) THEN [r EXCEPT !.sectionSize = 0] ELSE r, bytes, carried)

PESStart(bytes) == Len(bytes) >= 6 /\ bytes[1][2] = 1

AddPESBuff(r, start, bytes) ==
  LET size == IF bytes[1][1] \in Unbounded THEN MAXDWORD ELSE LengthIn(bytes)
      read == [r EXCEPT !.sectionSize = size, !.sectionBuff = UpTo(bytes, size)]
  IN  IF bytes = <<>> \/ (~start /\ ~Pending(r)) THEN Result(r, "ADD_NEXT")
      ELSE IF ~start THEN Continues(r, bytes)
      ELSE IF ~PESStart(bytes) THEN Result([r EXCEPT !.sectionSize = 0], "FALSE")
      \* the start of the next one ends a packet of unknown size
      ELSE IF Pending(r)
           THEN Result([r EXCEPT !.sectionSize = Len(r.sectionBuff), !.carryPacket = bytes],
                       "TRUE")
      ELSE Result(read, IF Pending(read) THEN "ADD_NEXT" ELSE "TRUE")

\* What GetSectionBuff does with the carried bytes before it looks for a section.
TakeCarry(r) ==
  LET section == AddSectionBuff(r, TRUE, r.carryPacket, TRUE)
      pes == AddPESBuff(r, TRUE, r.carryPacket).rx
      NoCarry(s) == [s EXCEPT !.carryPacket = <<>>]
  IN  IF r.sectionSize # 0 \/ r.carryPacket = <<>> THEN r
      ELSE IF r.PESMode THEN NoCarry(pes)
      ELSE IF section.ret = "again" THEN section.rx ELSE NoCarry(section.rx)

\* What it gives: a section, or nothing.
GetSectionBuff(r) ==
  LET s == TakeCarry(r)
  IN  IF s.sectionSize = 0 \/ Pending(s)
      THEN [rx |-> [s EXCEPT !.carryPacket = <<>>], got |-> <<>>]
      ELSE [rx |-> [s EXCEPT !.sectionSize = 0], got |-> <<s.sectionBuff>>]

\* GetSectionBuff until it fails.
RECURSIVE Drain(_)
Drain(r) ==
  LET g == GetSectionBuff(r)
      d == Drain(g.rx)
  IN  IF g.got = <<>> THEN g ELSE [rx |-> d.rx, got |-> g.got \o d.got]

\* What a first packet tells of its payload.
IsPES(packet) == PESStart(packet.data) \/ packet.flag = "random_access"
IsClock(packet) == packet.flag \in {"PCR", "OPCR"}

Collect(r, packet) ==
  LET known == [r EXCEPT !.lastPID = packet.PID, !.lastCounter = packet.continuity_counter]
      start == packet.payload_unit_start_indicator
  IN  IF Initial(r) /\ ~start THEN Result(r, "ADD_NEXT")
      ELSE IF r.PESMode THEN AddPESBuff(known, start, packet.data)
      ELSE AddSectionBuff(known, start, packet.data, FALSE)

\* What CheckCounter leaves of what was collected before.
Checked(r, packet) ==
  LET v == CheckCounter(r, packet)
      flagged == [r EXCEPT !.duplicateFlag = v.flag]
  IN  IF v.continues THEN flagged ELSE Clear(flagged)

\* The body of Add188TS behind CheckCounter.
AddPacket(s, packet) ==
  LET start == packet.payload_unit_start_indicator
  IN  IF packet.transport_scrambling_control # 0 THEN Result(Clear(s), "NOT_SUPPORT")
      ELSE IF start /\ Len(packet.data) < 3 THEN Result(s, "FALSE")
      ELSE IF start /\ IsPES(packet) /\ ~supportPES THEN Result(Clear(s), "NOT_SUPPORT")
      ELSE IF start /\ IsPES(packet) THEN Collect([s EXCEPT !.PESMode = TRUE], packet)
      ELSE IF start /\ IsClock(packet) THEN Result(Clear(s), "NOT_SUPPORT")
      ELSE Collect(s, packet)

-----------------------------------------------------------------------------
(* The sender.  Sections follow each other without a gap or with stuffing  *)
(* up to the end of the packet; pointer_field says where the first one     *)
(* starts.  A PES packet starts with its TS packet.                        *)

Sent == FlattenSeq([i \in DOMAIN SectionSizes |-> [k \in 1 .. SectionSizes[i] |-> <<i, k>>]])

Boundary(p) == p = 0 \/ Sent[p][2] = SectionSizes[Sent[p][1]]

\* The bytes of the section under way that are still to be sent.
Remaining(p) == IF p = 0 THEN 0 ELSE SectionSizes[Sent[p][1]] - Sent[p][2]

Smaller(a, b) == IF a < b THEN a ELSE b

Filled(bytes, room) == bytes \o [i \in 1 .. room - Len(bytes) |-> Stuffing]

\* The payloads that may come next: whether one starts, its bytes, how many are of the stream.
Payloads(room) ==
  LET Take(n) == SubSeq(Sent, pos + 1, pos + n)
      r == Remaining(pos)
      end == Len(Sent) - pos
      continued == IF r = 0 THEN {}
                   ELSE LET n == Smaller(r, room)
                        IN  {[start |-> FALSE, n |-> n,
                              data |-> IF stream = "psi" THEN Filled(Take(n), room) ELSE Take(n)]}
      psi == {[start |-> TRUE, n |-> n, data |-> Filled(<<Pointer(r)>> \o Take(n), room)] :
                n \in {m \in r + 1 .. Smaller(end, room - 1) : m = room - 1 \/ Boundary(pos + m)}}
      pes == IF r # 0 \/ end = 0 THEN {}
             ELSE LET n == Smaller(SectionSizes[Sent[pos + 1][1]], room)
                  IN  {[start |-> TRUE, n |-> n, data |-> Take(n)]}
  IN  continued \cup (IF stream = "psi" THEN psi ELSE pes)

Packet(payload, size, flag) ==
  [PID |-> "this", transport_error_indicator |-> FALSE, transport_scrambling_control |-> 0,
   payload_unit_start_indicator |-> payload.start, continuity_counter |-> counter,
   adaptation_field_control |-> IF size = 0 THEN 1 ELSE 3, adaptation_field_length |-> size,
   discontinuity_indicator |-> FALSE, flag |-> flag, data |-> payload.data]

\* A clock reference or a random access point only where a PES packet starts.
Flags(payload, size) ==
  IF payload.start /\ stream = "pes" /\ size # 0 THEN {"none", "random_access", "PCR"} ELSE {"none"}

Touched(n) == {Sent[q][1] : q \in pos + 1 .. pos + n}

\* What is under way at the receiver: the section being sent, and a PES packet of unknown
\* size until the next one starts.
UnderWay ==
  IF pos = 0 THEN {}
  ELSE {i \in {Sent[pos][1]} : ~Boundary(pos) \/ (stream = "pes" /\ i \in Unbounded)}

\* A section whose first three bytes lie in two packets is not found.
HeaderSplit(n) ==
  {i \in Touched(n) : stream = "psi" /\ pos + n < Len(Sent) /\ Sent[pos + n][1] = i
                      /\ Sent[pos + n][2] \in {1, 2}}

\* Add188TS: takes what has not been taken, then looks at the packet.
Take188TS(packet) ==
  \E p \in {packet}, d \in {Drain(rx)} : \E s \in {Checked(d.rx, p)} :
    LET a == AddPacket(s, p)
    IN  /\ rx' = a.rx /\ answer' = a.ret
        /\ sectionsOut' = sectionsOut \o d.got

Advance(n) == pos' = pos + n /\ counter' = (counter + 1) % CounterMod

SectionInit ==
  /\ stream \in {"psi", "pes"} /\ supportPES \in BOOLEAN
  /\ rx = Fresh /\ answer = "none" /\ sectionsOut = <<>>
  /\ pos = 0 /\ counter \in 0 .. CounterMod - 1 /\ lost = 0 /\ latest = <<>>
  /\ damaged = IF stream = "pes" /\ ~supportPES THEN DOMAIN SectionSizes ELSE {}

\* The caller adds the next packet of the stream.  Steps of the counter from 15 and to 0
\* that hide a loss are left out: CheckCounter cannot see them.
Add188TS ==
  /\ lost = 0 \/ Initial(rx) \/ (counter # 0 /\ rx.lastCounter # CounterMod - 1)
  /\ \E size \in {0} \cup FieldSizes : \E payload \in Payloads(PayloadSize - size) :
       \E flag \in Flags(payload, size) :
         LET packet == Packet(payload, size, flag)
         IN  /\ Set188TS(packet) /\ Take188TS(packet)
             /\ latest' = <<packet>>
             /\ damaged' = damaged \cup HeaderSplit(payload.n)
             /\ Advance(payload.n)
  /\ lost' = 0
  /\ UNCHANGED <<stream, supportPES>>

\* The next packet never comes, or Set188TS refuses it.
LosePacket ==
  /\ lost < MaxLost /\ lost' = lost + 1
  /\ \E payload \in Payloads(PayloadSize) :
       /\ damaged' = damaged \cup Touched(payload.n) \cup UnderWay
       /\ Advance(payload.n)
  /\ UNCHANGED <<stream, supportPES, rx, answer, sectionsOut, latest>>

\* A packet comes scrambled.
AddScrambled ==
  /\ \E payload \in Payloads(PayloadSize) :
       /\ Take188TS([Packet(payload, 0, "none") EXCEPT !.transport_scrambling_control = 2])
       /\ damaged' = damaged \cup Touched(payload.n) \cup UnderWay
       /\ Advance(payload.n)
  /\ lost' = 0 /\ latest' = <<>>
  /\ UNCHANGED <<stream, supportPES>>

\* A packet without a payload; its counter is the last one's.
NoPayload(discontinuity) ==
  [Packet([start |-> FALSE, data |-> <<>>], 0, "none") EXCEPT
     !.adaptation_field_control = 2, !.discontinuity_indicator = discontinuity,
     !.continuity_counter = (counter + CounterMod - 1) % CounterMod]

AddNoPayload ==
  /\ lost = 0
  /\ \E discontinuity \in BOOLEAN :
       /\ Take188TS(NoPayload(discontinuity))
       /\ damaged' = IF discontinuity THEN damaged \cup UnderWay ELSE damaged
  /\ latest' = <<>>
  /\ UNCHANGED <<stream, supportPES, pos, counter, lost>>

\* A packet of another PID gets to this object.
AddOtherPID ==
  /\ lost = 0
  /\ Take188TS([Packet([start |-> FALSE, data |-> Filled(<<>>, PayloadSize)], 0, "none")
                  EXCEPT !.PID = "other"])
  /\ damaged' = damaged \cup UnderWay /\ latest' = <<>>
  /\ UNCHANGED <<stream, supportPES, pos, counter, lost>>

\* The last packet is sent again.  In the middle of a section its payload would be added
\* twice, and the sections that start in it would come out twice: those two are left out.
AddDuplicate ==
  /\ lost = 0 /\ latest # <<>> /\ UnderWay = {}
  /\ ~latest[1].payload_unit_start_indicator
  /\ Take188TS(latest[1])
  /\ UNCHANGED <<stream, supportPES, pos, counter, lost, latest, damaged>>

Get ==
  /\ LET g == GetSectionBuff(rx)
     IN  rx' = g.rx /\ sectionsOut' = sectionsOut \o g.got /\ rx' # rx
  /\ answer' = "none"
  /\ UNCHANGED <<stream, supportPES, pos, counter, lost, latest, damaged>>

SectionNext ==
  \/ Add188TS \/ LosePacket \/ AddScrambled \/ AddNoPayload \/ AddOtherPID \/ AddDuplicate
  \/ Get

-----------------------------------------------------------------------------

\* The sections that have arrived: all bytes, and of a PES packet of unknown size the
\* start of the next one.
Arrived(i) ==
  LET end == CHOOSE q \in DOMAIN Sent : Sent[q] = <<i, SectionSizes[i]>>
  IN  IF stream = "pes" /\ i \in Unbounded THEN pos > end ELSE pos >= end

Expected ==
  LET whole == SelectSeq([i \in DOMAIN SectionSizes |-> i],
                         LAMBDA i : Arrived(i) /\ i \notin damaged)
  IN  [j \in DOMAIN whole |-> [k \in 1 .. SectionSizes[whole[j]] |-> <<whole[j], k>>]]

\* A section is there to be taken, or GetSectionBuff has nothing more to give.
Complete(r) == r.sectionSize # 0 /\ ~Pending(r)
AllTaken(r) == ~Complete(r) /\ r.carryPacket = <<>>

\* Through packets that are lost, scrambled or put between, what comes out is every
\* section that came in whole, byte for byte, once and in order, and nothing that was not
\* sent; and when Add188TS returns TRUE the next GetSectionBuff succeeds (TSBuffUtil.h:13,
\* TSBuffUtil.cpp:28-173, 180-330).  It is not claimed of what the actions leave out
\* because the code cannot notice it: a loss hidden behind a step of the counter from 15
\* or to 0, or as long as the counter's round (Add188TS, LosePacket), and a packet sent
\* again in the middle of a section or with the start of one (AddDuplicate).  A section
\* whose header lies in two packets counts as damaged (HeaderSplit).
SectionsAsSent ==
  /\ IsPrefix(sectionsOut, Expected)
  /\ AllTaken(rx) => sectionsOut = Expected
  /\ answer = "TRUE" => Complete(rx)
=============================================================================
