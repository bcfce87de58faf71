----------------------------- MODULE TextStore -----------------------------
(***************************************************************************)
(* The lists that are kept in text files (Common/ParseText.h and the       *)
(* classes of Common/ParseTextInstances.cpp): a map in memory that is      *)
(* loaded from a file of one line per item, changed, and saved by writing  *)
(* a second file that then replaces the first.  One instance of one of the *)
(* classes, the file, and a process that may die at any moment.            *)
(***************************************************************************)
EXTENDS Integers, FiniteSets, SequencesExt

NoText == ""

CONSTANTS
  Absent,       \* no file
  Classes,      \* the classes that are instantiated
  LastID,       \* 100000000: ids go round from 1 to it
  HalfID,       \* 50000000: ids further apart are on different rounds
  Samples,      \* Samples[c]: the items the program adds to a list of class c
  When,         \* When[n]: the start time of the item named n, its place in a sorted list
  Folders,      \* the folders of a recording, as they are written: never empty
  BrokenNames,  \* names of the items with a line break in a text
  KeepCount,    \* how many entries CParseRecInfoText and CParseRecInfo2Text keep
  MaxItems      \* bound: items in the map when one is added

ASSUME TextAssumption ==
  /\ HalfID \in Nat \ {0} /\ LastID = 2 * HalfID
  /\ MaxItems \in Nat /\ KeepCount \in Nat
  /\ When \in [DOMAIN When -> Nat] /\ NoText \notin Folders

VARIABLES
  class,        \* which class this is
  itemMap, nextID, saveNextID, sortByEventCache,
  file,         \* the lines of the file, Absent when there is none
  tmpFile,      \* the lines of the file with .tmp, while SaveText is under way
  step,         \* "new" before the first load, "idle", "move": SaveText before MoveFileEx
  saved         \* history: the contents of the map in the last save that succeeded

txVars == <<class, itemMap, nextID, saveNextID, sortByEventCache, file, tmpFile, step, saved>>

-----------------------------------------------------------------------------
(* The lines: the fields in the order SaveLine prints and ParseLine reads  *)
(* them, and how many separators SaveLine insists on, not counting those   *)
(* of the folder lists.  ID is the key of the item, FIRST its first        *)
(* folder, FOLDERS, REST and PARTIAL a list of folders with its length in  *)
(* front, PAD a field that is no longer used, END what is behind the last  *)
(* separator.                                                              *)

Columns(separators, fields) == [separators |-> separators, save |-> fields, parse |-> fields]

ChText4 == Columns(11,
  <<"chName", "serviceName", "networkName", "space", "ch", "originalNetworkID",
    "transportStreamID", "serviceID", "serviceType", "partialFlag", "useViewFlag",
    "remoconID">>)

ChText5 == Columns(8,
  <<"serviceName", "networkName", "originalNetworkID", "transportStreamID", "serviceID",
    "serviceType", "partialFlag", "epgCapFlag", "searchFlag">>)

RecInfoText == Columns(17,
  <<"recFilePath", "title", "startDate", "startTime", "durationSecond", "serviceName",
    "originalNetworkID", "transportStreamID", "serviceID", "eventID", "drops",
    "scrambles", "recStatus", "startDateEpg", "startTimeEpg", "comment", "protectFlag",
    "END">>)

RecInfo2Text == Columns(5,
  <<"originalNetworkID", "transportStreamID", "serviceID", "startDate", "startTime",
    "eventName">>)

ReserveText == Columns(33,
  <<"startDate", "startTime", "durationSecond", "title", "stationName",
    "originalNetworkID", "transportStreamID", "serviceID", "eventID", "priority",
    "tuijyuuFlag", "ID", "recMode", "pittariFlag", "batFilePath", "PAD", "comment",
    "FIRST", "suspendMode", "rebootFlag", "PAD", "useMargineFlag", "startMargine",
    "endMargine", "serviceMode", "startDateEpg", "startTimeEpg", "REST",
    "continueRecFlag", "partialRecFlag", "tunerID", "reserveStatus", "PARTIAL", "END">>)

EpgAutoAddText == Columns(30,
  <<"ID", "andKey", "notKey", "regExpFlag", "titleOnlyFlag", "contentList", "dateList",
    "serviceList", "recMode", "priority", "tuijyuuFlag", "serviceMode", "pittariFlag",
    "batFilePath", "suspendMode", "rebootFlag", "useMargineFlag", "startMargine",
    "endMargine", "FOLDERS", "continueRecFlag", "partialRecFlag", "tunerID", "aimaiFlag",
    "notContetFlag", "notDateFlag", "freeCAFlag", "PARTIAL", "chkRecEnd", "chkRecDay",
    "END">>)

ManualAutoAddText == Columns(25,
  <<"ID", "dayOfWeekFlag", "startTime", "durationSecond", "title", "stationName",
    "originalNetworkID", "transportStreamID", "serviceID", "recMode", "priority",
    "tuijyuuFlag", "serviceMode", "pittariFlag", "batFilePath", "suspendMode",
    "rebootFlag", "useMargineFlag", "startMargine", "endMargine", "FOLDERS",
    "continueRecFlag", "partialRecFlag", "tunerID", "PARTIAL", "END">>)

LineOf ==
  [ChText4 |-> ChText4, ChText5 |-> ChText5, RecInfoText |-> RecInfoText,
   RecInfo2Text |-> RecInfo2Text, ReserveText |-> ReserveText,
   EpgAutoAddText |-> EpgAutoAddText, ManualAutoAddText |-> ManualAutoAddText]

Item ==
  [name : DOMAIN When, folders : Seq(Folders), partial : Seq(Folders), flag : BOOLEAN,
   unsaved : {0, 1}]

\* The classes whose keys are ids that outlive the process, with a footer line.
Persistent == {"ReserveText", "EpgAutoAddText", "ManualAutoAddText"}

ASSUME SamplesAssumption ==
  /\ Classes \subseteq DOMAIN LineOf
  /\ \A c \in Classes : Samples[c] \subseteq Item
  /\ \A c \in Classes \cap Persistent : \E x \in Samples[c] : x.name \notin BrokenNames

Token(f, v) == [f |-> f, v |-> v]

\* What a line is made of: a number, a text or a flag in one of the fields.
Tokens ==
  LET fields == {"number", "folder", "NextID"} \cup
                UNION {Range(LineOf[c].save) : c \in DOMAIN LineOf}
  IN  [f : fields, v : Nat] \cup [f : fields, v : BOOLEAN] \cup
      [f : fields, v : DOMAIN When \cup Folders \cup {NoText}]

\* No file is not a file.
ASSUME FileAssumption == Absent \notin Seq(Seq(Tokens))

Counted(folders) ==
  <<Token("number", Len(folders))>> \o
  [i \in DOMAIN folders |-> Token("folder", folders[i])]

Rest(folders) == IF folders = <<>> THEN <<>> ELSE Tail(folders)

Column(f, id, x) ==
  CASE f = "ID"      -> <<Token(f, id)>>
    [] f = "FIRST"   -> <<Token("folder", IF x.folders = <<>> THEN NoText ELSE Head(x.folders))>>
    [] f = "REST"    -> Counted(Rest(x.folders))
    [] f = "FOLDERS" -> Counted(x.folders)
    [] f = "PARTIAL" -> Counted(x.partial)
    [] f \in {"PAD", "END"} -> <<Token(f, NoText)>>
    [] f \in {"protectFlag", "epgCapFlag"} -> <<Token(f, x.flag)>>
    [] OTHER         -> <<Token(f, x.name)>>

Line(c, id, x) ==
  LET fields == LineOf[c].save
  IN  FlattenSeq([i \in DOMAIN fields |-> Column(fields[i], id, x)])

\* FinalizeField counts the separators; a line break in a text counts as one more.
FinalizeField(x, line) == Len(line) - 1 + (IF x.name \in BrokenNames THEN 1 ELSE 0)

Listed(c, x) ==
  CASE c = "ReserveText" -> Len(Rest(x.folders)) + Len(x.partial)
    [] c \in Persistent \ {"ReserveText"} -> Len(x.folders) + Len(x.partial)
    [] OTHER -> 0

\* SaveLine: an item whose line would not read back is left out of the file.
SaveLine(c, id, x) ==
  LET line == Line(c, id, x)
  IN  IF FinalizeField(x, line) = LineOf[c].separators + Listed(c, x) THEN <<line>> ELSE <<>>

\* One column of ParseLine: r is the item so far and the place in the line.
ParseColumn(line, r, f) ==
  LET t == IF r.at <= Len(line) THEN line[r.at] ELSE Token("END", NoText)
      listed == IF t.f # "number" THEN <<>>
                ELSE [i \in 1 .. t.v |-> line[r.at + i].v]
      past == [r EXCEPT !.at = @ + 1]
  IN  CASE f \in {"PAD", "END"} -> past
        [] f = "ID" -> [past EXCEPT !.id = IF t.f = f THEN t.v ELSE 0]
        [] f = "FIRST" -> [past EXCEPT !.folders = IF t.v = NoText THEN <<>> ELSE <<t.v>>]
        [] f \in {"REST", "FOLDERS"} ->
             [r EXCEPT !.at = @ + 1 + Len(listed), !.folders = @ \o listed]
        [] f = "PARTIAL" -> [r EXCEPT !.at = @ + 1 + Len(listed), !.partial = listed]
        [] f \in {"protectFlag", "epgCapFlag"} -> [past EXCEPT !.flag = (t.f = f /\ t.v)]
        [] OTHER -> [past EXCEPT !.name = IF t.f = f /\ @ \in {NoText, t.v} THEN t.v
                                          ELSE "mixed"]

NewItem ==
  [at |-> 1, id |-> 0, name |-> NoText, folders |-> <<>>, partial |-> <<>>, flag |-> FALSE]

ParsedLine(c, line) ==
  LET fields == LineOf[c].parse
      read[k \in 0 .. Len(fields)] ==
        IF k = 0 THEN NewItem ELSE ParseColumn(line, read[k - 1], fields[k])
  IN  read[Len(fields)]

\* What is not in the file starts anew: presentFlag, overlapMode, addCount.
ItemOf(r) ==
  [name |-> r.name, folders |-> r.folders, partial |-> r.partial,
   flag |-> r.flag, unsaved |-> 0]

-----------------------------------------------------------------------------
(* Keys. *)

MaxOf(a, b) == IF a > b THEN a ELSE b

Following(id) == (id % LastID) + 1

\* nextID behind an item with this id, which may be from the round before.
AfterItem(next, id) ==
  IF next > id + HalfID THEN id + 1 ELSE ((MaxOf(id + 1, next) - 1) % LastID) + 1

\* nextID behind the footer line.
AfterFooter(next, id) ==
  IF id = 0 \/ id > LastID THEN next
  ELSE IF next > id + HalfID THEN id ELSE MaxOf(id, next)

LastKey(map) == CHOOSE k \in DOMAIN map : \A j \in DOMAIN map : j <= k

KeyBehind(map) == IF map = <<>> THEN 1 ELSE LastKey(map) + 1

With(map, key, x) == [k \in DOMAIN map \cup {key} |-> IF k = key THEN x ELSE map[k]]

Without(map, keys) == [k \in DOMAIN map \ keys |-> map[k]]

\* std::map::insert does not replace.
Inserted(map, key, x) == IF key \in DOMAIN map THEN map ELSE With(map, key, x)

\* The keys by a time that each has, and by themselves where it is the same: at place n
\* the one that has n - 1 others before it.
KeysBy(time) ==
  LET Before(i) == {j \in DOMAIN time : time[j] < time[i] \/ (time[j] = time[i] /\ j < i)}
  IN  [n \in 1 .. Cardinality(DOMAIN time) |->
         CHOOSE i \in DOMAIN time : Cardinality(Before(i)) = n - 1]

Ascending(keys) == KeysBy([i \in keys |-> 0])

\* Sorted by start time (CParseChText4: space and channel, CParseChText5: network).
ByTime(map) == KeysBy([i \in DOMAIN map |-> When[map[i].name]])

\* Once ids have gone round the older round comes first.
OldRoundFirst(map) ==
  IF map # <<>> /\ \E i, j \in DOMAIN map : j >= i + HalfID
  THEN Ascending({i \in DOMAIN map : i > HalfID}) \o
       Ascending({i \in DOMAIN map : i <= HalfID})
  ELSE Ascending(DOMAIN map)

Latest(keys, n) == {i \in keys : Cardinality({j \in keys : j >= i}) <= n}

SelectIDToSave(c, map, save) ==
  CASE c = "ReserveText" /\ save = 0 -> ByTime(map)
    [] c \in Persistent /\ (c # "ReserveText" \/ save # 0) -> OldRoundFirst(map)
    [] c = "RecInfo2Text" -> Ascending(Latest(DOMAIN map, KeepCount))
    [] OTHER -> ByTime(map)

-----------------------------------------------------------------------------
(* The whole file. *)

Footer(id) == Token("NextID", id)

SaveFooterLine(c, save, next) ==
  IF c \in Persistent /\ save # 0 THEN << <<Footer(next)>> >> ELSE <<>>

TextOf(c, map, save, next) ==
  LET ids == SelectIDToSave(c, map, save)
  IN  FlattenSeq([i \in DOMAIN ids |-> SaveLine(c, ids[i], map[ids[i]])])
      \o SaveFooterLine(c, save, next)

NewObject == [map |-> <<>>, next |-> 1, save |-> 1]

\* Any line of an existing file, an empty one too, settles that the file has no
\* footer; the footer takes it back.
Seen(o) == IF o.save = 1 THEN 0 ELSE o.save

ParseLine(c, o, line) ==
  LET r == ParsedLine(c, line)
      x == ItemOf(r)
  IN  CASE c \in Persistent /\ line[1].f = "NextID" ->
             [o EXCEPT !.next = AfterFooter(@, line[1].v), !.save = 2]
        [] c \in Persistent /\ line[1].f # "NextID" /\ r.id \notin 1 .. LastID ->
             [o EXCEPT !.save = Seen(o)]
        [] c \in Persistent /\ line[1].f # "NextID" /\ r.id \in 1 .. LastID ->
             [map |-> Inserted(o.map, r.id, x), next |-> AfterItem(o.next, r.id),
              save |-> Seen(o)]
        [] c = "RecInfoText" ->
             [o EXCEPT !.map = Inserted(@, o.next, x), !.next = @ + 1]
        [] c = "ChText5" -> [o EXCEPT !.map = Inserted(@, When[x.name], x)]
        [] OTHER -> [o EXCEPT !.map = Inserted(@, KeyBehind(@), x)]

\* ParseText clears the map, and only the map, before it reads.
Parsed(c, o, lines) ==
  LET start == [map |-> <<>>, next |-> o.next,
                save |-> IF c \in Persistent THEN Seen(o) ELSE o.save]
      read[n \in 0 .. Len(lines)] ==
        IF n = 0 THEN start ELSE ParseLine(c, read[n - 1], lines[n])
  IN  read[Len(lines)]

-----------------------------------------------------------------------------

\* What of an item its line holds.
AsReloaded(c, x) ==
  [name |-> x.name,
   folders |-> IF c \in Persistent THEN x.folders ELSE <<>>,
   partial |-> IF c \in Persistent THEN x.partial ELSE <<>>,
   flag |-> c \in {"RecInfoText", "ChText5"} /\ x.flag, unsaved |-> 0]

\* What of a map a file can hold: the items that can be written, as many as are kept.
Contents(c, map) ==
  LET keys == {i \in DOMAIN map : map[i].name \notin BrokenNames}
      kept == IF c # "RecInfo2Text" THEN keys ELSE Latest(DOMAIN map, KeepCount) \cap keys
      held == [i \in kept |-> AsReloaded(c, map[i])]
  IN  IF c \in Persistent \cup {"ChText5"} THEN held
      ELSE [x \in {held[i] : i \in kept} |-> Cardinality({i \in kept : held[i] = x})]

\* A file from before footers were written, or none.
OldFile(c) ==
  IF c \in Persistent THEN <<Line(c, 1, CHOOSE x \in Samples[c] : x.name \notin BrokenNames)>>
  ELSE <<>>

NothingSaved == [items |-> <<>>, next |-> 1]

SavedNow == [items |-> Contents(class, itemMap), next |-> nextID]

TXInit ==
  /\ class \in Classes
  /\ itemMap = <<>> /\ nextID = 1 /\ saveNextID = 1 /\ sortByEventCache = <<>>
  /\ file \in {Absent, OldFile(class)} /\ tmpFile = <<>> /\ step = "new"
  /\ saved = IF file = Absent THEN NothingSaved
             ELSE LET o == Parsed(class, NewObject, file)
                  IN  [items |-> Contents(class, o.map), next |-> o.next]

Object == [map |-> itemMap, next |-> nextID, save |-> saveNextID]

Become(o) == itemMap' = o.map /\ nextID' = o.next /\ saveNextID' = o.save

\* Bound: CParseRecInfoText numbers its items from 1 on in every process.
MayNumber == class = "RecInfoText" => nextID + MaxItems <= LastID + 1

\* ParseText.  It fails and leaves the map empty when the file cannot be opened in six
\* attempts; then the program does not go on with this object.
ParseText ==
  /\ step \in {"new", "idle"} /\ step' = "idle" /\ MayNumber
  /\ IF file = Absent THEN Become([Object EXCEPT !.map = <<>>])
     ELSE Become(Parsed(class, Object, file))
  \* every line with an item clears the cache of CParseReserveText
  /\ sortByEventCache' =
       IF file # Absent /\ \E i \in DOMAIN file : file[i][1].f # "NextID" THEN <<>>
       ELSE sortByEventCache
  /\ UNCHANGED <<class, file, tmpFile, saved>>

\* ParseText with a read error, which counts as the end of the file: the lines behind
\* it are gone.
ReadError ==
  /\ step \in {"new", "idle"} /\ step' = "idle" /\ MayNumber /\ file # Absent
  /\ \E n \in 0 .. Len(file) - 1 :
       /\ Become(Parsed(class, Object, SubSeq(file, 1, n)))
       /\ sortByEventCache' =
            IF \E i \in 1 .. n : file[i][1].f # "NextID" THEN <<>> ELSE sortByEventCache
  /\ UNCHANGED <<class, file, tmpFile, saved>>

Idle == step = "idle" /\ UNCHANGED <<class, file, tmpFile, step, saved>>

\* Bound: no id is in use from more than half a round ago (a round of a hundred million
\* ids takes more than two hundred years, ParseTextInstances.h:143).
Near(id, next) == ((next - id) % LastID) \in 1 .. HalfID

Add(x) ==
  LET keys == DOMAIN itemMap
      new == CASE class \in Persistent -> nextID
               [] class = "RecInfoText" -> nextID
               [] class = "ChText5" -> When[x.name]
               [] OTHER -> KeyBehind(itemMap)
      added == IF class \in {"ChText5", "RecInfoText"} THEN With(itemMap, new, x)
               ELSE Inserted(itemMap, new, x)
      open == {i \in DOMAIN added : ~added[i].flag}
  IN  /\ Idle /\ Cardinality(keys) < MaxItems /\ MayNumber
      /\ nextID' = CASE class \in Persistent -> Following(nextID)
                     [] class = "RecInfoText" -> nextID + 1
                     [] OTHER -> nextID
      /\ class \in Persistent => \A i \in keys : Near(i, nextID')
      /\ class \notin Persistent => new <= LastID \* bound
      \* AddRecInfo: the oldest entries go until KeepCount unprotected ones are left
      /\ itemMap' = IF class = "RecInfoText"
                    THEN Without(added, open \ Latest(open, KeepCount))
                    ELSE added
      /\ sortByEventCache' = <<>>
      /\ UNCHANGED saveNextID

\* A mutant: the cache is forgotten.
ChgKeepsCache(id, x) ==
  /\ Idle /\ class \in Persistent /\ id \in DOMAIN itemMap
  /\ itemMap' = With(itemMap, id, x)
  /\ UNCHANGED <<nextID, saveNextID, sortByEventCache>>

Chg(id, x) ==
  /\ Idle /\ class \in Persistent /\ id \in DOMAIN itemMap
  /\ itemMap' = With(itemMap, id, x)
  /\ sortByEventCache' = <<>>
  /\ UNCHANGED <<nextID, saveNextID>>

\* SetPresentFlag, SetOverlapMode, SetAddCount: not in the file, not in the cache.
SetUnsaved(id) ==
  /\ Idle /\ class \in {"ReserveText", "EpgAutoAddText"} /\ id \in DOMAIN itemMap
  /\ itemMap' = [itemMap EXCEPT ![id].unsaved = 1]
  /\ UNCHANGED <<nextID, saveNextID, sortByEventCache>>

ChangeFlag(id, flag) ==
  /\ Idle /\ id \in DOMAIN itemMap
  /\ itemMap' = [itemMap EXCEPT ![id].flag = flag]
  /\ UNCHANGED <<nextID, saveNextID, sortByEventCache>>

ChgProtectRecInfo(id, flag) == class = "RecInfoText" /\ ChangeFlag(id, flag)

SetEpgCapMode(id, flag) == class = "ChText5" /\ ChangeFlag(id, flag)

SetNextID(id) ==
  /\ Idle /\ class = "RecInfoText" /\ id + MaxItems <= LastID + 1
  /\ nextID' = MaxOf(id, nextID)
  /\ UNCHANGED <<itemMap, saveNextID, sortByEventCache>>

\* CParseChText4 deletes every entry of the service.
Del(id) ==
  /\ Idle /\ class \notin {"RecInfo2Text", "ChText5"} /\ id \in DOMAIN itemMap
  /\ ~itemMap[id].flag
  /\ itemMap' = Without(itemMap,
                  IF class # "ChText4" THEN {id}
                  ELSE {i \in DOMAIN itemMap : itemMap[i].name = itemMap[id].name})
  /\ sortByEventCache' = <<>>
  /\ UNCHANGED <<nextID, saveNextID>>

\* The ids sorted by event; an event is the item's name.
GetSortByEventList ==
  /\ Idle /\ class = "ReserveText"
  /\ sortByEventCache' = IF sortByEventCache = <<>> \/ itemMap = <<>> THEN ByTime(itemMap)
                         ELSE sortByEventCache
  /\ UNCHANGED <<itemMap, nextID, saveNextID>>

\* The two ends of writing the file with .tmp: every WriteFile succeeds, or one fails.
Written(text) ==
  {[ret |-> TRUE, text |-> text]} \cup
  {[ret |-> FALSE, text |-> SubSeq(text, 1, n)] : n \in {0, Len(text) - 1} \cap Nat}

\* A mutant: a file that is not whole is moved too.
MoveAnyway(ret) == "move"

\* Only a file that is whole is moved.
AfterWrite(ret) == IF ret THEN "move" ELSE "idle"

SaveText ==
  /\ step = "idle"
  /\ \E w \in Written(TextOf(class, itemMap, saveNextID, nextID)) :
       /\ step' = AfterWrite(w.ret)
       /\ tmpFile' = IF step' = "move" THEN w.text ELSE <<>>
  /\ UNCHANGED <<class, itemMap, nextID, saveNextID, sortByEventCache, file, saved>>

\* MoveFileEx replaces the file or, after six attempts, does not.
MoveFile ==
  /\ step = "move" /\ step' = "idle" /\ tmpFile' = <<>>
  /\ \/ file' = tmpFile /\ saved' = SavedNow
     \/ UNCHANGED <<file, saved>>
  /\ UNCHANGED <<class, itemMap, nextID, saveNextID, sortByEventCache>>

\* The process dies; the files stay.  What is left of the one with .tmp is overwritten
\* by the next save.
Crash ==
  /\ step # "new" /\ step' = "new" /\ tmpFile' = <<>>
  /\ Become(NewObject) /\ sortByEventCache' = <<>>
  /\ UNCHANGED <<class, file, saved>>

TXNext ==
  \/ ParseText \/ ReadError \/ SaveText \/ MoveFile \/ Crash \/ GetSortByEventList
  \/ \E x \in Samples[class] : Add(x)
  \/ \E id \in DOMAIN itemMap :
       \/ \E x \in Samples[class] : Chg(id, x)
       \/ SetUnsaved(id) \/ Del(id)
       \/ \E flag \in BOOLEAN : ChgProtectRecInfo(id, flag) \/ SetEpgCapMode(id, flag)
  \/ \E id \in 1 .. LastID : SetNextID(id)

TXSpec == TXInit /\ [][TXNext]_txVars

-----------------------------------------------------------------------------

Restart == IF file = Absent THEN NewObject ELSE Parsed(class, NewObject, file)

HasFooter == file # Absent /\ file # <<>> /\ Last(file)[1].f = "NextID"

\* Whenever the process dies, the next one finds in the file what the last successful
\* save put there: the same items, under the same ids where ids are to last; and where
\* the file has a footer the same next id, so that no id is given out twice
\* (ParseText.h:124-155, ParseTextInstances.cpp:549-555, 656, 729-752).
ReloadRestores ==
  LET o == Restart
  IN  /\ Contents(class, o.map) = saved.items
      /\ HasFooter => o.next = saved.next /\ o.next \notin DOMAIN o.map

\* The list sorted by event that CParseReserveText keeps is never older than the map
\* it was made from (ParseTextInstances.cpp:778: it is reused as long as it is not
\* empty, and each operation has to remember to empty it).
EventListIsCurrent ==
  sortByEventCache # <<>> /\ itemMap # <<>> => sortByEventCache = ByTime(itemMap)

\* The file is never seen half written, nor with the items of two moments: it changes
\* only by being replaced as a whole, with the text of all that is in memory when it
\* is replaced, whatever writes and moves have failed before (ParseText.h:104-154).
FileReplacedWhole ==
  [][file' # file => file' = TextOf(class, itemMap, saveNextID, nextID)]_txVars
=============================================================================
