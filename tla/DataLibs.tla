------------------------------ MODULE DataLibs ------------------------------
(***************************************************************************)
(* Four libraries of Common: the values of a command (CmdData.tla), the    *)
(* lists in text files (TextStore.tla), the sections of a TS stream        *)
(* (TsSection.tla) and the playback of a recording (TimeShift.tla).  They  *)
(* share no state and none calls another; a behaviour uses one of them.    *)
(***************************************************************************)
EXTENDS CmdData, TextStore, TsSection, TimeShift

VARIABLE library

dataVars == <<library, cdVars, txVars, sectionVars, tsVars>>

Unused == "unused"

CDUnused ==
  /\ call = Unused /\ stage = Unused /\ wire = Unused /\ argument = Unused
  /\ answered = Unused /\ result = Unused /\ ret = Unused

TXUnused ==
  /\ class = Unused /\ itemMap = <<>> /\ nextID = 0 /\ saveNextID = 0
  /\ sortByEventCache = <<>> /\ file = Absent /\ tmpFile = <<>> /\ step = Unused
  /\ saved = NothingSaved

SectionUnused ==
  /\ stream = Unused /\ supportPES = FALSE /\ rx = Unused /\ answer = Unused
  /\ sectionsOut = <<>> /\ pos = 0 /\ counter = 0 /\ lost = 0 /\ latest = <<>>
  /\ damaged = {}

\* An object that was made and is not called, with no file: it has no thread.
TSUnused == TSInit /\ size = 0

DataInit ==
  \/ library = "CtrlCmdUtil" /\ CDInit /\ TXUnused /\ SectionUnused /\ TSUnused
  \/ library = "ParseText" /\ CDUnused /\ TXInit /\ SectionUnused /\ TSUnused
  \/ library = "TSBuffUtil" /\ CDUnused /\ TXUnused /\ SectionInit /\ TSUnused
  \/ library = "TimeShiftUtil" /\ CDUnused /\ TXUnused /\ SectionUnused /\ TSInit

DataNext ==
  /\ UNCHANGED library
  /\ \/ library = "CtrlCmdUtil" /\ CDNext /\ UNCHANGED <<txVars, sectionVars, tsVars>>
     \/ library = "ParseText" /\ TXNext /\ UNCHANGED <<cdVars, sectionVars, tsVars>>
     \/ library = "TSBuffUtil" /\ SectionNext /\ UNCHANGED <<cdVars, txVars, tsVars>>
     \/ library = "TimeShiftUtil" /\ TSNext /\ UNCHANGED <<cdVars, txVars, sectionVars>>

\* Where the time shift is not used nothing its fairness speaks of is ever enabled.
DataSpec == DataInit /\ [][DataNext]_dataVars /\ TSFairness

-----------------------------------------------------------------------------

\* The properties of two of them, each where its library is used; their statements and
\* the code they are about are in the modules.

\* SendCtrlCmd.h:1042-1139, CtrlCmdUtil.cpp, CtrlCmdUtil.h:219-341.
CommandsDeliver == library = "CtrlCmdUtil" => CallDelivers

\* TSBuffUtil.cpp:28-330.
SectionsArrive == library = "TSBuffUtil" => SectionsAsSent
=============================================================================
