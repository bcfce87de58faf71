# Write_PF, modelled, checked and proved

Write_PF.dll is an output plug-in for EpgTimer: it writes the transport stream it is
given to a TS file and, at the same time, sends the stream through a pipe to a client
process. The recording must never wait for the client, so the sender works from "a
virtual TS file" (`FileReader.h:2-4`): recent blocks come from a bounded buffer and
everything that fell out of it comes from the file on disk, which is still growing.
The repository also holds `Common/`, the library of the programs around it: the loader
of the plug-in, command servers and clients, time-shift playback, text lists and the
reassembly of TS packets. This directory holds TLA+ modules of both, TLC runs over
them, and TLAPS proofs.

Paths are relative to `src/Write_PF/Write_PF/` unless they start with `Common/`.

## 1. The system

| component | state | operations | talks to |
|---|---|---|---|
| `CWriteMain` (WriteMain.cpp) | TS file handle, write buffer, position | Start, Write, Stop | ServerManager: Init, Append, Stop |
| `ServerManager`, `PipeServer` (PF/PipeServer.*) | TS_FinishWrite, quit event, thread, reader, writer | constructor, Append, Stop, SendMain | one sender thread per server |
| `FileReader` (PF/FileReader) | mutex, buffer, fpos_read, fpos_write, stdio stream | Append (caller), GetNext, Seek, Notify, IsEOF (sender) | the TS file, opened a second time |
| `FileBlockBuff` | queue of blocks | Append, GetData, GetTopPos | - |
| `NamedPipe`, `AnonPipe` (PF/Pipe) | pipe handle, quit event | RunClient, Connect, Write, Close | the client process |
| `SettingA` (PF/Setting.h) | values of the ini file | Read, Create | - |
| plug-in entry points (Write_Default.cpp), `CInstanceManager` | id -> CWriteMain, next id | CreateCtrl, StartSave, AddTSBuff, StopSave, DeleteCtrl; push, find, pop | the host, `CWriteMain` |
| `CWritePlugInUtil` (Common/) | DLL handle, id | Initialize, UnInitialize, calls passed on | the entry points |
| `CPipeServer`, `CTCPServer`, `CSendCtrlCmd` (Common/) | server thread, stop event, pipe; wait list; nothing in the client | StartServer, StopServer, NotifyUpdate; SendPipe, SendTCP | each other, through a pipe with a named event or a socket; the owner's callback |
| `CtrlCmdUtil`, StructDef.h (Common/) | - | WriteVALUE, ReadVALUE per structure and version | commands of `CSendCtrlCmd` |
| `CTimeShiftUtil` (Common/) | position, sizes, read thread | Open, Start, Stop, SetAvailableSize, SetFilePos | a file another process extends |
| `CParseText` and its lists (Common/) | map, next id, sort cache, file | ParseText, SaveText, Add, Chg, Del | text files |
| `CTSBuffUtil`, `CTSPacketUtil` (Common/) | section under way, carried bytes, counter | Add188TS, GetSectionBuff | a TS stream |

Two threads meet per server. The **recorder** is the host's thread in CWriteMain: for
each chunk it calls WriteFile and then Append for each server, so that the file is
ahead of the buffer; Append waits for the mutex for at most 10 ms and then drops the
block. The **sender** runs SendMain: GetNext takes the block at fpos_read from the
buffer, or else learns under the lock how far the file may be read and reads the file
outside the lock. Stop sets a flag, then (named pipe) an event, and joins the sender.
A third party, the **client**, reads, stops reading, exits, or never opens the pipe.

What makes this hard to test, and which property is about it:

* the limit for the file read is used after the lock is released (`BuffAheadOfReader`);
* a dropped block must still move fpos_write (`BlocksMatchFile`);
* the stream's end is sticky, so it must not be met while the file grows
  (`EofOnlyAfterFinish`), and it must not end the sending early (`ExitSentAll`);
* after Stop the sender drains and ends (`FinishEndsSender`, `StopReturns`);
* the completion of a write, the quit order and the client's exit race in one wait
  (`ClientSeesCursor`, `QuitHandleLive`);
* the sizes of the blocks are summed in 32 bits and compared with the limit
  (`BuffBounded`);
* overall: what goes out is the recording from its first byte (`DeliveredIsPrefix`), and
  so is what the client reads (`ClientReadsPrefix`), all of it when the sending ended by
  itself (`ClientLeftAll`).

In the library the hard parts are these:

* ids of the plug-in's instances wrap around over ones in use and come back while other
  threads hold pointers (`OwnInstance`, `NothingLeftBehind`, `ImplementsOwnRecorder`);
* the turn to open the command pipe is an event that one client consumes, and clients
  die, time out or outlive a restart of the server (`PipeReachable`); an answer must not
  be thrown away by the disconnect behind it (`ExecutedIsAnswered`); a command must be
  executed once, and not at all when its caller is told of a failure
  (`ImplementsRemoteCall`);
* one thread holds back answers of TCP clients in two parallel vectors and hears of
  changes by an event that it resets (`WaitAligned`, `NoMissedNotify`);
* calls without a timeout must return all the same (`PipeCallReturns`, `TcpCallReturns`);
* the time-shift thread reads sizes without a lock, subtracts them unsigned and has to
  tell a pause from the end (`ReadFitsBuffer`, `SentWithinAvailable`, `AllAvailableSent`,
  and `WholeFileSent`, which fails);
* programs of different versions exchange nested structures (`CommandsDeliver`);
* a process dies between two steps of a save (`ReloadRestores`), and a cache has to be
  emptied by every operation (`EventListIsCurrent`); the file is replaced as a whole or
  not at all (`FileReplacedWhole`);
* packets are lost, repeated, scrambled, and a counter with 16 values has to show it
  (`SectionsArrive`).

PROJECT.json lists all hazards with their lines, the uncovered ones with the reason.
Some of those are things the code allows and the models have, each as a variable that the
properties name as their exception (`lost`, `early`, `leaked`, `stalled`, `raced`): behind
them nothing is claimed, and the runs do not say that they go well.

## 2. The modules

| module | models |
|---|---|
| `TsFile` | the TS file as Win32 keeps it for the writing handle: bytes written, file size with preallocation |
| `FileBlockBuff` | the buffer, as operators on a sequence of blocks |
| `FileReader` | FileReader with the recorder and the sender around it; the pipe is a write that succeeds or fails |
| `VirtualFile` | abstract: the sender is given growing prefixes of a growing recording, and "complete" means all of it |
| `PipeWriter` | the Windows pipe and the client process, shared by the two pipes |
| `NamedPipe`, `AnonPipe` | the two writers |
| `PipeServer` | FileReader + writer + SendMain around the loop + Stop + client |
| `WriteMain` | CWriteMain behind the entry points: write buffer, file, servers seen from outside, from CreateCtrl to DeleteCtrl |
| `PlugInHost` | loaders (CWritePlugInUtil), entry points and CInstanceManager, one action per call or lock scope |
| `OwnRecorder` | abstract: each loader has a recorder of its own, and its host knows what it does |
| `CmdPipe`, `CmdTcp` | a command server, its thread step by step, its owner and its clients, over a pipe and over TCP |
| `RemoteCall` | abstract: a call executes its command at most once and returns its answer, or fails and does not execute it |
| `CmdLink`, `MCCmdLink` | SendCmdStream: a client uses the one or the other; its small instance |
| `StructDef`, `CtrlCmdUtil`, `CmdData` | members of the structures; order and format in which they are written and read; the commands, and one call from the caller to the server and back |
| `TimeShift` | CTimeShiftUtil: owner, read thread, growing file |
| `TextStore` | CParseText and the seven lists that are saved, with the file on disk, failing saves and crashes |
| `TsSection` | CTSBuffUtil with a sender that cuts sections or PES packets into TS packets |
| `DataLibs`, `MCDataLibs` | `CmdData`, `TextStore`, `TsSection` and `TimeShift` side by side: one run checks all four, which share no state |
| `FileReaderProofs`, `PipeServerProofs`, `WriteMainProofs`, `PlugInHostProofs`, `CmdPipeProofs`, `CmdTcpProofs`, `TimeShiftProofs`, `TextStoreProofs` | the theorems |

State and code correspond as follows. `recorded` is what WriteFile accepted and
`fileSize` the file's size; `que`, `fpos_read`, `fpos_write`, `TS_FinishWrite`, `fp` are
the members of the same names (`fp` reduced to usable, null, end, error). `call` is the
sender's place in SendMain and GetNext; the mutex is held while it is `"locked"`, so
that an Append in that state is the one that times out and any other succeeds. The
value of PipeServer::TS_FinishWrite is `Finished`. `pending` is the chunk between
WriteFile and Append. `thread` is the place outside the loop (connect, closing),
`stopping` the place of the caller in Stop, `op` the WriteFile under way on the pipe.
`delivered` and `received` are history: what the sender handed to the pipe and what
the client read. Bytes are named by their place in the recording, so that a gap, a
repetition or a misplaced byte is visible; 0 is a preallocated byte never written.

GetNext is two steps (lock scope, file read) because the recorder can step in between.
File read and end of file are one step: a read that gets less than it asked for sets
the end. A pipe takes a write at once and completes it when what is unread fits the
pipe's quota; on the anonymous pipe the thread blocks until then, on the named pipe it
waits for the completion or the quit order, and the quit order wins when both are set.
A WriteFile that fails at once on the named pipe sets no event.

In `WriteMain` one call of the host is one or two steps: `AddTSBuff` up to line 180 or
207, then `Flush`, `WriteThrough`, `Buffer` or `WriteError`; `StartSave` with its Stop,
then `StartCreate` or `StartFails`. `saved` counts what writeSize reported, and the host
goes on from there after TRUE and FALSE alike, as `WriteMain.h:47-49` asks. `kept` is what
the files of earlier recordings hold. The servers are one variable each for "runs" and
for the bytes appended; that those bytes are the file's is what `FileReader` takes for
granted of its recorder and `ServersFollowFile` shows. Bytes in the buffer may be lost
only with the object. wrotePos is left out, since only the dead TeeThread reads it, and
each recording has a file of its own (a host that overwrites its own file gets what it
asked for).

`PlugInHost`: `m_list`, `m_nextID`, `find`, `push` and `pop` are CInstanceManager's, `util` is
a loader's place between Initialize and UnInitialize, `ptr` the shared pointer that a call
holds. An AddTSBuff whose WriteFile fails closes the recording (`AddTSBuffFails`). `saving` is whether the instance records and `view` whether its host thinks so.

`CmdPipe`: `thread` is the line of ServerThread, `waitEvent` the named event, `client` the
line of each SendPipe. The pipe has one instance, which is not there, created, listening,
open or disconnected. `leaked` says that a terminated thread left its handles, `early`
that a client which kept the event alive over a restart opened the new pipe before
ConnectNamedPipe, so that the wait for it never ends, and `lost` that a client died with
the turn. These are things the code allows; the properties name them as their exceptions
and hold otherwise. `CmdTcp`: `waitList` and `hEventList` are the two vectors, `i` the
index of the pass over them, `notify` the event.

`TimeShift` counts in units of which `CHUNK` make a read; every unlocked access to
availableFileSize is a step of its own. `raced`, `moved`, `failed`, `wrapped` record
that the owner changed the limit between two of them, moved the position of a running thread,
opened a file that was not there, or that the PCR fell back, and `quit` that the thread ended
because the file was gone or had not grown for 10 s; the properties name them where the code's
promise ends.

`CtrlCmdUtil`: a buffer is a sequence of base values with their widths, and a value is
named by the member it comes from, so that one that lands in another member shows.
`TextStore`: a line is a sequence of columns, an item has a name and what distinguishes the
lists: folders, a flag, and what is not saved. Samples are the items a program adds, When
their times, Folders the folders they may name, which are never empty texts; the assumptions
say that, and that a file is not the sign that there is none. `TsSection`: byte k of section i is `<<i, k>>`;
`damaged` is which sections need not come out.

The C runtime's own read buffer is left out: every read is preceded by a seek, which
is taken to discard it.

## 3. The runs

| run | question | size |
|---|---|---|
| `FileReader.cfg` | safety of the virtual file, and the sender's end | 6 bytes in chunks of 1..3, buffer 2, reads of 2, 2 bytes preallocated, failing WriteFile |
| `WriteErrorPrealloc.cfg` | are only written bytes sent when WriteFile fails? **no** | 3 bytes, 2 preallocated |
| `WriteMain.cfg` | is every saved byte in one place, do the servers follow the file? | 7 bytes in calls of 1..5, buffer 2, 2 bytes preallocated, every outcome of WriteFile and CreateFile |
| `StopSilent.cfg` | does a host whose StopSave returned TRUE have its bytes in files when it deletes the object? **no** | 2 bytes |
| `PipeServerNamed.cfg` | the server with a named pipe and any client | 5 bytes, chunks of 1..2, buffer 3, quota 2 |
| `PipeServerAnon.cfg` | the server with an anonymous pipe and a client that reads | 5 bytes, chunks of 1..2, buffer 3, quota 1 |
| `AnonStopBlocked.cfg` | does Stop return with any client? **no** | 2 bytes |
| `NamedWriteError.cfg` | does a failed write end the sending? **no** | 2 bytes |
| `PlugInHost.cfg` | does a call reach the right recording (a refinement of `OwnRecorder`), is nothing left at unload? | 3 loaders, 4 ids, 3 tries |
| `CmdLink.cfg` | are servers reachable, commands answered and executed once (a refinement of `RemoteCall`), changes told, do calls return? | pipe: 2 clients, 2 calls each, 2 starts; TCP: 3 calls, room for 2 held ones, 1 status change |
| `TimeShiftTail.cfg` | is a file that was given free as a whole (-1) sent to its end? **no** | a file of up to 3 units, reads of 2, 3 looks |
| `DataLibs.cfg` | do commands, text lists and sections survive the way out and back, is a file replaced as a whole? Does the time-shift thread read, send and wait within its limits? | every command with every member distinct and vectors of 0 and 2 elements, between version 5 and each from 2 on; lists of 2 items, 4 ids; 6 sections of 6 to 24 bytes in payloads of 20, counter of 4; time shift: a file of up to 4 units, reads of 2, 32-bit range of 4, 4 calls of the owner |

`MaxFile` and `MaxChunk`, `MaxSaved` and `MaxSize` bound the recording; the other constants are the program's own
parameters made small. They are enough for the cases that matter: two chunks of 1 fill the
buffer, the next one evicts, a chunk of 3 never fits, AppendTimeout makes gaps in front of, between and
behind blocks, a gap of 3 takes two reads of 2, and a pipe of 1 or 2 bytes blocks the
next block. In `PipeServerNamed` nothing preallocated meets a failing WriteFile and in
`PipeServerAnon` nothing is preallocated, because of the first finding below.

**Fairness.** Each thread is scheduled: `WF(SenderNext)`, and in the server
`WF(SenderThread)` and `WF(Stopping)`. The loop polls with Sleep(50) and no step of it
depends on the recorder except the short lock, so weak fairness of the whole thread is
what the scheduler gives. The recording need not go on and need not stop. Nothing is
assumed of the client, except in `PipeServerAnon`, where it reads on as long as it has
the pipe (`ClientFairSpec`): a blocking write needs it, as `AnonStopBlocked` shows.

In `CmdLink` the server's thread and each client in a call are scheduled, callbacks
return, and on TCP time passes (`TooLate`: m_dwResponseTimeout) and StopServer returns. No
fairness is given to the owner's starting and stopping, nor to dying. In `TimeShift` the
thread and the owner's wait for it are scheduled; the file need not grow.

In `WriteMain` calls of 1 to 5 bytes on a buffer of 2 reach each
branch: fits, fills with no rest, with a rest that fits, with one that goes through.
In `PlugInHost` three loaders on four ids meet the wrap, up to two used ids in a row, and with
`MaxTries` 3 the search succeeds as long as the code's 2^16 tries exceed the number of
instances; a table of 2^16 recordings is out of a process's reach, and the assumption
that says so is named in the module. In `CmdLink` a second start meets clients of the first, and
three connections meet a list that has room for two. In `TimeShift` 4 units stand for 2^32
bytes, so that a negative difference wraps to more than a read, to less than the file and to
what looks like a length that is left; the largest file has 2^32 bytes, where the code's
protection ends and the properties, which name that condition, claim nothing. In `DataLibs` the counter of 4 has steps that look like none (from the last to
the first), so that a lost packet behind it goes unnoticed in the code; the sender does
not lose packets just there, and it loses fewer in a row than the counter has values.

**Deadlock** is checked in the passing runs of the plug-in's threads and in `PlugInHost`. Their end is the explicit
stutter `Terminated` / `PSTerminated`. In `WriteMain` nothing follows DeleteCtrl, so the
run says `CHECK_DEADLOCK FALSE`; in `CmdLink` and `DataLibs` the calls are bounded or
the data come to an end, so they say it too.

### What disagrees with the source's own words

1. `WriteErrorPrealloc`: after a failed WriteFile the servers are stopped before the
   preallocated file is cut (`WriteMain.cpp:185`, `:189`; also `:212`, `:216`). The
   sender, told that the file is complete, sends the tail that was never written,
   against the comments at `WriteMain.cpp:195` and `:222`. CWriteMain::Stop cuts first.
2. `AnonStopBlocked`: `AnonPipe::Write` blocks and Stop joins; a client that does not
   read holds up Stop, against `PipeServer.cpp:117` and `:109`.
3. `NamedWriteError`: `NamedPipe.h:143` waits after every failure of WriteFile, so that
   a client that has gone does not end the sending, against `PipeServer.cpp:181`.
4. `StopSilent`: CWriteMain::Stop returns TRUE also when its WriteFile failed
   (`WriteMain.cpp:122`, `:157`), against `Write_PlugIn.h:96-97`. The rest waits in the
   buffer for the next Start; when DeleteCtrl comes instead, which is the order of calls in
   `Write_PlugIn.h:48-55`, bytes reported as saved are gone and every call returned TRUE.
5. `TimeShiftTail`: with a size of -1 and no file mode `Common/TimeShiftUtil.cpp:289-312`
   never reads the last part of a file that is smaller than its buffer of 48128 bytes. It
   opens the file again for 10 s and then ends, against `Common/TimeShiftUtil.h:38` and `:58`,
   which say that with -1 the file's size as it is counts.

## 4. The proofs

The proofs hold for every buffer limit (also zero and negative), read size, quota,
preallocation, chunking and number of bytes, under the assumptions the modules name.

The properties are not inductive: that a file read gives the right bytes depends on
where the buffer starts, which depends on what was appended and dropped. `IInv`
(FileReaderProofs) has five parts beside the types:

* `RecorderInv`: fpos_write and the pending chunk together are the recording;
* `QueueInv`: blocks lie in order below fpos_write and hold what the file holds;
* `SenderInv`: what was delivered and what is held are the file's bytes from the first
  on, and while the recording goes on they lie below every block and below fpos_write;
* `FileReadInv`: the limit carried out of the lock lies below every block, also those
  appended since, and below fpos_write;
* `EofInv`: the end was met only on the complete file, at the read position.

There is one lemma per action; lemmas about Min, Drop, BuffAppend, BuffGetData, TsBytes
and concatenation carry the data. The safety properties of the run follow,
as do `OnlyWrittenSent` (finding 1 needs both a preallocated tail and a failing write,
`NoTail` excludes them) and `Refinement` (FileReader implements VirtualFile).
`QueueBounded` says that the queue never holds more than its limit, and nothing when that is negative.
The code sums in 32 bits, and so does the model (`DWord` values); the theorem assumes that
the limit and one block together are below 2^32 (`NoWrap`), which an int and a block of
less than 2 GiB are, and its lemmas show that the wrapping sum is then the true one.

PipeServerProofs shows that each step of the server is a step of FileReader or leaves
it alone (`ServerImplementsReader`), so all of the above holds in the server; then
`QuitHandle`, which is inductive by itself, and `ClientCursor`, by way of `CursorInv`:
what the client read and what is in the pipe is what was delivered and the write under
way. From it follow `ClientPrefix`, also behind a write that was given up on the quit order and
may yet be read, and `ClientAll`: closing an anonymous pipe takes nothing from a client.

WriteMainProofs has `EverySavedByteOnce` and `FileAndServers` for every buffer size, size
of a call and number of recordings. `WMInv` adds two parts to the properties: the data a
call has not yet taken is what follows in the stream (`RestNext`), and line 207 is reached
only with an empty buffer (`CallInv`), without which data would overtake the buffer. The
lemmas are about concatenation: bytes that move from the buffer's head to the file's end
keep their place (`MoveBytes`).

PlugInHostProofs has `OwnInstanceAlways`, `UnloadsEmpty` and `HostKnows` for any number of
loaders and ids, as long as there are no more loaders than tries of the search for an id
(`LoadersAssumption`): a search that gives up stores under INVALID_ID, and two of those share
an instance. The invariant says that the table and the loaders' ids are inverse to each
other on the loaders that have an instance; that a new id is free needs that the search, which looks at
`MaxTries` candidates in a row around the wrap, meets one that is not used, which is a
counting argument over a finite table and that assumption. `OwnRecorderImplemented` is the refinement of
`OwnRecorder`: a loader's recorder is the saving state of the entry under its id, told is
`view`; each call of a loader maps to a step of its own recorder and every other step to a stutter.

CmdPipeProofs has `ServerReachable` and `AnswersArrive` for any number of clients, calls
and restarts. `ServerInv` says where the pipe instance is at each place of the thread, also
behind a thread that was terminated; `ConnectionInv` that the request, the command in the
thread's hands and the answer are the peer's or a dead client's; `CommandInv` that a command
executed for a client that waits is about to be answered or its answer is in the pipe.
`RemoteCallImplemented` is the refinement of `RemoteCall`, where a caller is idle, calling or dead.
Besides `CPInv` it needs `CallOnce`: the command that the callback is about to see was not
executed before, also when the thread came to it over CMD_NEXT.

CmdTcpProofs has `NotifyReachesAll` and `ListsParallel` for any number of connections and
events. `NotifyInv` carries the first: a held command for a status that has passed is
still to be met, by a pass that is announced or to be announced, or by the one under way,
which has not come to its index; the same holds of the command between the callback and its entry in
the list. `ConnectionsInv` keeps the connections apart: not accepted, served, held. Lemmas
about RemoveAt carry the lists.

TimeShiftProofs has `ReadsFit` and `SendsWithin` for every size of a read, of 2^32 and of the
file. `DwordWraps` is the argument behind line 289: a negative difference becomes larger by
2^32 at least, so that such a read ends behind all of a smaller file, and `LengthInv` takes that
from the subtraction to ReadFile.

TextStoreProofs has `EventListCurrent`, `FileWhole`, `ReloadAlways` and `NewIDIsFree` for every class, number
of items and round of ids, and for every file that saving can leave. `TXInv` says that only CParseReserveText caches, that the
cache agrees with the map, that the map is a finite map of items and the file a sequence, and that
what waits to replace the file is the text of what is in memory, which is not an
invariant of `tmpFile` by itself: it needs that nothing runs between the two. The case that needs
an argument is ParseText: it empties the map at once and the cache at the first line with
an item, so that a file of footers alone would leave the cache behind, and it does no harm
only because the map is then empty (`ParsedObject`).

`ReloadAlways` says that the process that comes after a crash finds what the last successful
save wrote. `StoreInv` carries it: the object in memory is `Good` (its keys are ids, and where they are saved by
rounds, all at most half a round behind nextID; an entry of CParseChText5 is under its network), and the
file, when there is one, is the text of some object that was good, had the contents of the last
save and, where it has a footer, its next id. The theorem then rests on three arguments.

* A line reads back (`LinesReadBack`). Folder lists have any length, so that the place of a
  column depends on the item. `LineLayout` says where each column lies, `LineRead` follows
  ParseLine over it column by column, and one lemma per class (`ReserveClass`, ...) says which
  columns it has; SaveLine then leaves out no item but one with a line break (`SavedLine`).
* Ids go round. Items are written oldest round first, and each id that is read is at most half a
  round ahead of the one before (`EarlierAhead`), so that AfterItem ends behind
  the last one (`AfterEarlier`) and the footer puts nextID where it was (`AfterFooterShape`),
  which is free (`NextIsFree`). It needs that the object does not take a
  file without a footer for one with a footer (`Expects`), so that saveNextID is part of the invariant.
* Contents are the same although keys are not: in the lists without ids the items are numbered anew,
  and the bijection between old and new numbers keeps how often each item occurs (`SameTally`,
  `NumberedContents`); CParseRecInfo2Text keeps the latest entries only, and what it wrote it keeps
  whole (`LatestBound`, `LatestAll`).

From the same invariant follows `NewIDIsFree`: an id in use is not given out again. It
leaves out a list of reservations whose file has no footer: that is written in the order of time,
and once ids are half a round apart AfterItem cannot tell from it which came first.

`ReadsWhole` puts them together for a whole file, `ReadsPart` for one that a read error cuts
short, after which memory and file differ and the next save writes less: that is what the
code does, and the theorem is about the file. The proof found that two cases of ParseColumn in the
model overlapped, a field with another name than the one expected and a field read before; TLC takes the
first case that holds, the prover cannot know which one that is, and the two are one case now.

Four operators are recursive functions over a sequence: the sum of the sizes in the queue,
FlattenSeq for a line and for the text of a file, the reading of a line column by column and
that of a file line by line. No induction
theorem can be used on them here; what is claimed of them is proved by the smallest
counterexample instead (`Smallest`: a nonempty set of naturals has a least element), which
gives both that the function exists and what holds of each of its values.

Only model-checked: liveness (`FinishEndsSender`, `StopReturns`, `ClientGetsAll`,
`PipeCallReturns`, `TcpCallReturns`, `AllAvailableSent`), which is beyond the prover;
and `CommandsDeliver` and `SectionsArrive`, whose modules are recursive where the data are
nested.

## 5. What is not modelled

* The log (disabled), TeeThread (dead code: its command is never set), the settings dialog and the
  ini file, whose values are constants here.
* CtrlCmdUtil.cpp:1464-1711, the format of an earlier program, called only by a server that
  is not in this repository; constructors in StructDef.h.
* Of CTimeShiftUtil the two senders and what packets hold; of the text lists
  the two that are only read, the files next to a recording and edits through the pointers
  that GetChDataList gives out; CTSPacketUtil::Get188TS, which has no caller.
* The remaining wrappers (EpgDataCap3Util, SendTSTCPDllUtil, ReNamePlugInUtil) only load a
  DLL that is elsewhere and pass calls on; EpgTimerUtil and the string, path, time and
  service helpers have no state; TVTestPlugin.h is a vendored header.
* getNextID giving up after 2^16 used ids; StartServer and the wait of CTCPServer failing, and a
  TCP client that dies between send and recv. A command left in the pipe by a client that died
  is executed, but counted for nobody. The cast of Buff_MiB to int (`PF/PipeServer.cpp:66`).
* Losses that the counter of the TS packets cannot show, and what `TsSection` names at its
  actions: duplicates of start packets and headers that are split.
* Below the model's level: memory lifetime of an abandoned overlapped write, 32-bit sums
  of sizes outside FileBlockBuff, CWriteMain and TimeShift, torn reads of a bool, and how a request is cut into several
  reads and writes where nobody can come in between.
