------------------------------ MODULE CmdData ------------------------------
(***************************************************************************)
(* What a command carries (Common/SendCtrlCmd.h): each Send function of    *)
(* CSendCtrlCmd with the types of its argument and of its result, and one  *)
(* call of it, from the caller through the server and back.  The link is   *)
(* CmdLink.tla; the server that answers is a program outside this          *)
(* repository, built from the same library but perhaps from an older       *)
(* version of it.                                                          *)
(***************************************************************************)
EXTENDS CtrlCmdUtil

CONSTANTS CMD_VER, Lengths
ASSUME CDAssumption == CMD_VER \in Nat /\ CMD_VER >= 2 /\ Lengths \subseteq Nat

None == "none"

Command(sends, gets, versioned) == [sends |-> sends, gets |-> gets, versioned |-> versioned]

SendCmdWithoutData == Command(None, None, FALSE)
SendCmdData(T) == Command(T, None, FALSE)
SendCmdData2(T) == Command(T, None, TRUE)
ReceiveCmdData(T) == Command(None, T, FALSE)
ReceiveCmdData2(T) == Command(None, T, TRUE)
SendAndReceiveCmdData(T, U) == Command(T, U, FALSE)
SendAndReceiveCmdData2(T, U) == Command(T, U, TRUE)

ServerCommands ==
  "SendAddloadReserve" :> SendCmdWithoutData @@
  "SendReloadEpg" :> SendCmdWithoutData @@
  "SendReloadSetting" :> SendCmdWithoutData @@
  "SendClose" :> SendCmdWithoutData @@
  "SendRegistGUI" :> SendCmdData("DWORD") @@
  "SendUnRegistGUI" :> SendCmdData("DWORD") @@
  "SendRegistTCP" :> SendCmdData("DWORD") @@
  "SendUnRegistTCP" :> SendCmdData("DWORD") @@
  "SendEnumReserve" :> ReceiveCmdData("vector<RESERVE_DATA>") @@
  "SendGetReserve" :> SendAndReceiveCmdData("DWORD", "RESERVE_DATA") @@
  "SendAddReserve" :> SendCmdData("vector<RESERVE_DATA>") @@
  "SendDelReserve" :> SendCmdData("vector<DWORD>") @@
  "SendChgReserve" :> SendCmdData("vector<RESERVE_DATA>") @@
  "SendEnumTunerReserve" :> ReceiveCmdData("vector<TUNER_RESERVE_INFO>") @@
  "SendEnumRecInfo" :> ReceiveCmdData("vector<REC_FILE_INFO>") @@
  "SendDelRecInfo" :> SendCmdData("vector<DWORD>") @@
  "SendEnumService" :> ReceiveCmdData("vector<EPGDB_SERVICE_INFO>")

EpgCommands ==
  "SendEnumPgInfo" :> SendAndReceiveCmdData("ULONGLONG", "vector<EPGDB_EVENT_INFO>") @@
  "SendGetPgInfo" :> SendAndReceiveCmdData("ULONGLONG", "EPGDB_EVENT_INFO") @@
  "SendSearchPg" :> SendAndReceiveCmdData("vector<EPGDB_SEARCH_KEY_INFO>", "vector<EPGDB_EVENT_INFO>") @@
  "SendEnumPgAll" :> ReceiveCmdData("vector<EPGDB_SERVICE_EVENT_INFO>") @@
  "SendEnumEpgAutoAdd" :> ReceiveCmdData("vector<EPG_AUTO_ADD_DATA>") @@
  "SendAddEpgAutoAdd" :> SendCmdData("vector<EPG_AUTO_ADD_DATA>") @@
  "SendDelEpgAutoAdd" :> SendCmdData("vector<DWORD>") @@
  "SendChgEpgAutoAdd" :> SendCmdData("vector<EPG_AUTO_ADD_DATA>") @@
  "SendEnumManualAdd" :> ReceiveCmdData("vector<MANUAL_AUTO_ADD_DATA>") @@
  "SendAddManualAdd" :> SendCmdData("vector<MANUAL_AUTO_ADD_DATA>") @@
  "SendDelManualAdd" :> SendCmdData("vector<DWORD>") @@
  "SendChgManualAdd" :> SendCmdData("vector<MANUAL_AUTO_ADD_DATA>")

PlayCommands ==
  "SendChkSuspend" :> SendCmdWithoutData @@
  "SendSuspend" :> SendCmdData("WORD") @@
  "SendReboot" :> SendCmdWithoutData @@
  "SendEpgCapNow" :> SendCmdWithoutData @@
  "SendFileCopy" :> SendAndReceiveCmdData("wstring", "raw") @@
  "SendEnumPlugIn" :> SendAndReceiveCmdData("WORD", "vector<wstring>") @@
  "SendGetChgChTVTest" :> SendAndReceiveCmdData("ULONGLONG", "TVTEST_CH_CHG_INFO") @@
  "SendNwTVSetCh" :> SendCmdData("SET_CH_INFO") @@
  "SendNwTVClose" :> SendCmdWithoutData @@
  "SendNwTVMode" :> SendCmdData("DWORD")

TimeShiftCommands ==
  "SendNwPlayOpen" :> SendAndReceiveCmdData("wstring", "DWORD") @@
  "SendNwPlayClose" :> SendCmdData("DWORD") @@
  "SendNwPlayStart" :> SendCmdData("DWORD") @@
  "SendNwPlayStop" :> SendCmdData("DWORD") @@
  "SendNwPlayGetPos" :> SendAndReceiveCmdData("NWPLAY_POS_CMD", "NWPLAY_POS_CMD") @@
  "SendNwPlaySetPos" :> SendCmdData("NWPLAY_POS_CMD") @@
  "SendNwPlaySetIP" :> SendAndReceiveCmdData("NWPLAY_PLAY_INFO", "NWPLAY_PLAY_INFO") @@
  "SendNwTimeShiftOpen" :> SendAndReceiveCmdData("DWORD", "NWPLAY_TIMESHIFT_INFO")

VersionedReserveCommands ==
  "SendEnumReserve2" :> ReceiveCmdData2("vector<RESERVE_DATA>") @@
  "SendGetReserve2" :> SendAndReceiveCmdData2("DWORD", "RESERVE_DATA") @@
  "SendAddReserve2" :> SendCmdData2("vector<RESERVE_DATA>") @@
  "SendChgReserve2" :> SendCmdData2("vector<RESERVE_DATA>") @@
  "SendAddChkReserve2" :> SendAndReceiveCmdData2("RESERVE_DATA", "WORD") @@
  "SendGetEpgFileTime2" :> SendAndReceiveCmdData2("wstring", "__int64") @@
  "SendGetEpgFile2" :> SendAndReceiveCmdData2("wstring", "raw")

VersionedListCommands ==
  "SendEnumEpgAutoAdd2" :> ReceiveCmdData2("vector<EPG_AUTO_ADD_DATA>") @@
  "SendAddEpgAutoAdd2" :> SendCmdData2("vector<EPG_AUTO_ADD_DATA>") @@
  "SendChgEpgAutoAdd2" :> SendCmdData2("vector<EPG_AUTO_ADD_DATA>") @@
  "SendEnumManualAdd2" :> ReceiveCmdData2("vector<MANUAL_AUTO_ADD_DATA>") @@
  "SendAddManualAdd2" :> SendCmdData2("vector<MANUAL_AUTO_ADD_DATA>") @@
  "SendChgManualAdd2" :> SendCmdData2("vector<MANUAL_AUTO_ADD_DATA>") @@
  "SendEnumRecInfo2" :> ReceiveCmdData2("vector<REC_FILE_INFO>") @@
  "SendChgProtectRecInfo2" :> SendCmdData2("vector<REC_FILE_INFO>")

GuiCommands ==
  "SendGUIShowDlg" :> SendCmdWithoutData @@
  "SendGUIUpdateReserve" :> SendCmdWithoutData @@
  "SendGUIUpdateEpgData" :> SendCmdWithoutData @@
  "SendGUINotifyInfo2" :> SendCmdData2("NOTIFY_SRV_INFO") @@
  "SendGUIExecute" :> SendAndReceiveCmdData("wstring", "DWORD") @@
  "SendGUIQuerySuspend" :> SendCmdData("WORD") @@
  "SendGUIQueryReboot" :> SendCmdData("WORD") @@
  "SendGUIStatusChg" :> SendCmdData("WORD")

ViewCommands ==
  "SendViewSetBonDrivere" :> SendCmdData("wstring") @@
  "SendViewGetBonDrivere" :> ReceiveCmdData("wstring") @@
  "SendViewSetCh" :> SendCmdData("SET_CH_INFO") @@
  "SendViewGetDelay" :> ReceiveCmdData("int") @@
  "SendViewGetStatus" :> ReceiveCmdData("DWORD") @@
  "SendViewAppClose" :> SendCmdWithoutData @@
  "SendViewSetID" :> SendCmdData("int") @@
  "SendViewGetID" :> ReceiveCmdData("int") @@
  "SendViewSetStandbyRec" :> SendCmdData("DWORD") @@
  "SendViewCreateCtrl" :> ReceiveCmdData("DWORD") @@
  "SendViewDeleteCtrl" :> SendCmdData("DWORD") @@
  "SendViewSetCtrlMode" :> SendCmdData("SET_CTRL_MODE") @@
  "SendViewStartRec" :> SendCmdData("SET_CTRL_REC_PARAM")

RecordingCommands ==
  "SendViewStopRec" :> SendAndReceiveCmdData("SET_CTRL_REC_STOP_PARAM", "SET_CTRL_REC_STOP_RES_PARAM") @@
  "SendViewGetRecFilePath" :> SendAndReceiveCmdData("DWORD", "wstring") @@
  "SendViewStopRecAll" :> SendCmdWithoutData @@
  "SendViewGetWriteSize" :> SendAndReceiveCmdData("DWORD", "__int64") @@
  "SendViewEpgCapStart" :> SendCmdData("vector<SET_CH_INFO>") @@
  "SendViewEpgCapStop" :> SendCmdWithoutData @@
  "SendViewSearchEvent" :> SendAndReceiveCmdData("SEARCH_EPG_INFO_PARAM", "EPGDB_EVENT_INFO") @@
  "SendViewGetEventPF" :> SendAndReceiveCmdData("GET_EPG_PF_INFO_PARAM", "EPGDB_EVENT_INFO") @@
  "SendViewExecViewApp" :> SendCmdWithoutData @@
  "SendViewSetStreamingInfo" :> SendCmdData("TVTEST_STREAMING_INFO")

Commands ==
  ServerCommands @@ EpgCommands @@ PlayCommands @@ TimeShiftCommands @@
  VersionedReserveCommands @@ VersionedListCommands @@ GuiCommands @@ ViewCommands @@
  RecordingCommands

-----------------------------------------------------------------------------
(* Sample values: every vector has n elements, and every event information *)
(* that may be missing is there or not.                                    *)

RECURSIVE Sample(_, _, _)
Sample(type, name, shape) ==
  CASE type \in DOMAIN VectorOf ->
         [i \in 1 .. shape.n |-> Sample(VectorOf[type], Append(name, ToString(i)), shape)]
    [] type \in DOMAIN PointerTo ->
         IF shape.present THEN <<Sample(PointerTo[type], name, shape)>> ELSE <<>>
    [] type \in DOMAIN MembersOf ->
         [m \in DOMAIN MembersOf[type] |->
            Sample(MembersOf[type][m], Append(name, m), shape)]
    [] OTHER -> name

\* What is left of a value between two sides that both know version v.  presentFlag
\* is never sent; addCount came with version 5, though StructDef.h does not say so.
Since(type, m) ==
  CASE <<type, m>> = <<"EPG_AUTO_ADD_DATA", "addCount">> -> 5
    [] <<type, m>> \in DOMAIN CameWith -> CameWith[<<type, m>>]
    [] OTHER -> 0

RECURSIVE Known(_, _, _)
Known(type, val, v) ==
  CASE type \in DOMAIN VectorOf -> [i \in DOMAIN val |-> Known(VectorOf[type], val[i], v)]
    [] type \in DOMAIN PointerTo -> [i \in DOMAIN val |-> Known(PointerTo[type], val[i], v)]
    [] type \in DOMAIN MembersOf ->
         [m \in {x \in DOMAIN MembersOf[type] :
                   Since(type, x) <= v /\ <<type, x>> # <<"RESERVE_DATA", "presentFlag">>} |->
            Known(MembersOf[type][m], val[m], v)]
    [] OTHER -> val

-----------------------------------------------------------------------------

VARIABLES
  call,      \* the function called, the server's version, the shape of the values
  stage,     \* "called", "sent", "served", "done"
  wire,      \* the data of the command or of the reply under way
  argument,  \* what the server read
  answered,  \* history: the server has answered
  result,    \* what the caller reads from the reply
  ret        \* the return value

cdVars == <<call, stage, wire, argument, answered, result, ret>>

Cmd == Commands[call.name]

Argument == Sample(Cmd.sends, <<"argument">>, call)
Answer == Sample(Cmd.gets, <<"answer">>, call)

CDInit ==
  /\ call \in [name : DOMAIN Commands, lib : 2 .. CMD_VER, n : Lengths, present : BOOLEAN]
  /\ stage = "called" /\ wire = <<>> /\ argument = Failed /\ answered = FALSE
  /\ result = Failed /\ ret = "none"

Encode(type, val) == IF type = "raw" THEN <<Base(0, val)>> ELSE NewWriteVALUE(type, val)

SendCmd ==
  /\ stage = "called" /\ stage' = "sent"
  /\ wire' = CASE Cmd.sends = None /\ ~Cmd.versioned -> <<>>
               [] Cmd.sends = None /\ Cmd.versioned -> <<Version(CMD_VER)>>
               [] Cmd.sends # None /\ ~Cmd.versioned -> Encode(Cmd.sends, Argument)
               [] OTHER -> NewWriteVALUE2WithVersion(CMD_VER, Cmd.sends, Argument, CMD_VER)
  /\ UNCHANGED <<call, argument, answered, result, ret>>

\* The value behind a version, or Failed when there is no version to read.
ReadVersioned(type, buf, lib) ==
  IF buf = <<>> \/ buf[1].w # SizeOf.WORD THEN Failed
  ELSE IF type = "raw" THEN IF Len(buf) <= 1 THEN Failed ELSE Got(3, buf[2].v)
  ELSE ReadVALUE2(buf[1].num, type, buf, 2, lib)

ReadPlain(type, buf) ==
  IF buf = <<>> THEN Failed
  ELSE IF type = "raw" THEN Got(2, buf[1].v)
  ELSE ReadAll(type, buf, 1, 0)

\* The server reads the argument as its own version knows it, and answers in it.
ServerAnswers ==
  /\ stage = "sent" /\ stage' = "served"
  /\ argument' = CASE Cmd.sends = None -> Failed
                   [] Cmd.versioned -> ReadVersioned(Cmd.sends, wire, call.lib)
                   [] OTHER -> ReadPlain(Cmd.sends, wire)
  /\ wire' = CASE Cmd.gets = None -> <<>>
               [] ~Cmd.versioned -> Encode(Cmd.gets, Answer)
               [] Cmd.gets = "raw" -> <<Version(call.lib), Base(0, Answer)>>
               [] OTHER -> NewWriteVALUE2WithVersion(call.lib, Cmd.gets, Answer, call.lib)
  /\ answered' = TRUE /\ ret' = "CMD_SUCCESS"
  /\ UNCHANGED <<call, result>>

\* It refuses, or reports success and sends nothing.
ServerHasNothing ==
  /\ stage = "sent" /\ stage' = "served"
  /\ wire' = <<>> /\ argument' = Failed
  /\ ret' \in {"CMD_SUCCESS", "CMD_ERR"}
  /\ UNCHANGED <<call, answered, result>>

\* The reply is read only after success and only by a function with a result.
ReceiveReply ==
  /\ stage = "served" /\ stage' = "done"
  /\ LET read == IF Cmd.versioned THEN ReadVersioned(Cmd.gets, wire, CMD_VER)
                 ELSE ReadPlain(Cmd.gets, wire)
     IN  IF ret = "CMD_SUCCESS" /\ Cmd.gets # None
         THEN /\ result' = read
              /\ ret' = IF read.ok THEN "CMD_SUCCESS" ELSE "CMD_ERR"
         ELSE UNCHANGED <<result, ret>>
  /\ wire' = <<>>
  /\ UNCHANGED <<call, argument, answered>>

CDNext == SendCmd \/ ServerAnswers \/ ServerHasNothing \/ ReceiveReply

-----------------------------------------------------------------------------

\* The version both sides of the call know; commands without a version carry none of
\* the later members.
Common == IF Cmd.versioned THEN call.lib ELSE 0

\* A command delivers what it carries, whichever version the other side has: the
\* server reads the caller's argument, the caller the server's answer, in every member
\* that both versions know and nothing else; every answer gets through, and only an
\* answer makes a call with a result succeed.  (CtrlCmdUtil.cpp writes the fields of some
\* forty structures in one function and reads them in another; SendCtrlCmd.h:1080, 1095:
\* a reply that cannot be read is CMD_ERR.)
CallDelivers ==
  LET served == stage \in {"served", "done"} /\ answered
  IN  /\ served /\ Cmd.sends # None =>
           argument.ok /\ argument.val = Known(Cmd.sends, Argument, Common)
      /\ stage = "done" /\ Cmd.gets # None =>
           /\ answered <=> ret = "CMD_SUCCESS"
           /\ answered => result.ok /\ result.val = Known(Cmd.gets, Answer, Common)
=============================================================================
