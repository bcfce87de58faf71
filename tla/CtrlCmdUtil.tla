---------------------------- MODULE CtrlCmdUtil ----------------------------
(***************************************************************************)
(* How values travel in a command (Common/CtrlCmdUtil.h, CtrlCmdUtil.cpp). *)
(* A buffer is a sequence of base values, each with its width in bytes;    *)
(* sizes count base values instead of bytes, and the characters of a       *)
(* string are one of them.  A value is the name of where it comes from, a  *)
(* sequence of strings, so that one that lands elsewhere shows; a vector   *)
(* is a sequence, a pointer a sequence of at most one value, a structure a *)
(* record.                                                                 *)
(***************************************************************************)
EXTENDS StructDef, Integers, SequencesExt

SizeOf ==
  [BYTE |-> 1, WORD |-> 2, DWORD |-> 4, INT |-> 4, int |-> 4, BOOL |-> 4,
   __int64 |-> 8, ULONGLONG |-> 8, SYSTEMTIME |-> 16]

\* Fields that are written as zero and read into a local variable.
PaddingType == [bPadding |-> "BYTE", strPadding |-> "wstring", dwPadding |-> "DWORD"]

TypeOf(struct, member) ==
  IF member \in DOMAIN PaddingType THEN PaddingType[member]
  ELSE MembersOf[struct][member]

\* The members in the order WriteVALUE writes and ReadVALUE reads them.  A library
\* of version v has the fields that came with a version up to v.
From(k, v, s) == IF v >= k THEN s ELSE <<>>

Both(s) == [write |-> s, read |-> s]

REC_FILE_SET_INFO_VALUE == Both(
  <<"recFolder", "writePlugIn", "recNamePlugIn", "recFileName">>)

REC_SETTING_DATA_VALUE(v) == Both(
  <<"recMode", "priority", "tuijyuuFlag", "serviceMode", "pittariFlag", "batFilePath",
    "recFolderList", "suspendMode", "rebootFlag", "useMargineFlag", "startMargine",
    "endMargine", "continueRecFlag", "partialRecFlag", "tunerID">>
  \o From(2, v, <<"partialRecFolder">>))

RESERVE_DATA_VALUE(v) == Both(
  <<"title", "startTime", "durationSecond", "stationName", "originalNetworkID",
    "transportStreamID", "serviceID", "eventID", "comment", "reserveID", "bPadding",
    "overlapMode", "strPadding", "startTimeEpg", "recSetting", "reserveStatus">>
  \o From(5, v, <<"recFileNameList", "dwPadding">>))

REC_FILE_INFO_VALUE(v) == Both(
  <<"id", "recFilePath", "title", "startTime", "durationSecond", "serviceName",
    "originalNetworkID", "transportStreamID", "serviceID", "eventID", "drops",
    "scrambles", "recStatus", "startTimeEpg", "comment", "programInfo", "errInfo">>
  \o From(4, v, <<"protectFlag">>))

TUNER_RESERVE_INFO_VALUE == Both(
  <<"tunerID", "tunerName", "reserveList">>)

REGIST_TCP_INFO_VALUE == Both(
  <<"ip", "port">>)

EPGDB_SHORT_EVENT_INFO_VALUE == Both(
  <<"event_name", "text_char">>)

EPGDB_EXTENDED_EVENT_INFO_VALUE == Both(
  <<"text_char">>)

EPGDB_CONTENT_DATA_VALUE == Both(
  <<"content_nibble_level_1", "content_nibble_level_2", "user_nibble_1",
    "user_nibble_2">>)

EPGDB_CONTEN_INFO_VALUE == Both(
  <<"nibbleList">>)

EPGDB_COMPONENT_INFO_VALUE == Both(
  <<"stream_content", "component_type", "component_tag", "text_char">>)

EPGDB_AUDIO_COMPONENT_INFO_DATA_VALUE == Both(
  <<"stream_content", "component_type", "component_tag", "stream_type",
    "simulcast_group_tag", "ES_multi_lingual_flag", "main_component_flag",
    "quality_indicator", "sampling_rate", "text_char">>)

EPGDB_AUDIO_COMPONENT_INFO_VALUE == Both(
  <<"componentList">>)

EPGDB_EVENT_DATA_VALUE == Both(
  <<"original_network_id", "transport_stream_id", "service_id", "event_id">>)

EPGDB_EVENTGROUP_INFO_VALUE == Both(
  <<"group_type", "eventDataList">>)

EPGDB_EVENT_INFO_VALUE == Both(
  <<"original_network_id", "transport_stream_id", "service_id", "event_id",
    "StartTimeFlag", "start_time", "DurationFlag", "durationSec", "shortInfo", "extInfo",
    "contentInfo", "componentInfo", "audioInfo", "eventGroupInfo", "eventRelayInfo",
    "freeCAFlag">>)

EPGDB_SERVICE_INFO_VALUE == Both(
  <<"ONID", "TSID", "SID", "service_type", "partialReceptionFlag",
    "service_provider_name", "service_name", "network_name", "ts_name",
    "remote_control_key_id">>)

EPGDB_SERVICE_EVENT_INFO_VALUE == Both(
  <<"serviceInfo", "eventList">>)

EPGDB_SEARCH_DATE_INFO_VALUE == Both(
  <<"startDayOfWeek", "startHour", "startMin", "endDayOfWeek", "endHour", "endMin">>)

EPGDB_SEARCH_KEY_INFO_VALUE(v) == Both(
  <<"andKey", "notKey", "regExpFlag", "titleOnlyFlag", "contentList", "dateList",
    "serviceList", "videoList", "audioList", "aimaiFlag", "notContetFlag", "notDateFlag",
    "freeCAFlag">>
  \o From(3, v, <<"chkRecEnd", "chkRecDay">>))

EPG_AUTO_ADD_DATA_VALUE(v) == Both(
  <<"dataID", "searchInfo", "recSetting">>
  \o From(5, v, <<"addCount">>))

MANUAL_AUTO_ADD_DATA_VALUE == Both(
  <<"dataID", "dayOfWeekFlag", "startTime", "durationSecond", "title", "stationName",
    "originalNetworkID", "transportStreamID", "serviceID", "recSetting">>)

SET_CH_INFO_VALUE == Both(
  <<"useSID", "ONID", "TSID", "SID", "useBonCh", "space", "ch">>)

SET_CTRL_MODE_VALUE == Both(
  <<"ctrlID", "SID", "enableScramble", "enableCaption", "enableData">>)

SET_CTRL_REC_PARAM_VALUE == Both(
  <<"ctrlID", "fileName", "overWriteFlag", "createSize", "saveFolder", "pittariFlag",
    "pittariONID", "pittariTSID", "pittariSID", "pittariEventID">>)

SET_CTRL_REC_STOP_PARAM_VALUE == Both(
  <<"ctrlID", "saveErrLog">>)

SET_CTRL_REC_STOP_RES_PARAM_VALUE == Both(
  <<"recFilePath", "drop", "scramble", "subRecFlag">>)

SEARCH_EPG_INFO_PARAM_VALUE == Both(
  <<"ONID", "TSID", "SID", "eventID", "pfOnlyFlag">>)

GET_EPG_PF_INFO_PARAM_VALUE == Both(
  <<"ONID", "TSID", "SID", "pfNextFlag">>)

TVTEST_CH_CHG_INFO_VALUE == Both(
  <<"bonDriver", "chInfo">>)

TVTEST_STREAMING_INFO_VALUE == Both(
  <<"enableMode", "ctrlID", "serverIP", "serverPort", "filePath", "udpSend", "tcpSend",
    "timeShiftMode">>)

NWPLAY_PLAY_INFO_VALUE == Both(
  <<"ctrlID", "ip", "udp", "tcp", "udpPort", "tcpPort">>)

NWPLAY_POS_CMD_VALUE == Both(
  <<"ctrlID", "currentPos", "totalPos">>)

NWPLAY_TIMESHIFT_INFO_VALUE == Both(
  <<"ctrlID", "filePath">>)

NOTIFY_SRV_INFO_VALUE == Both(
  <<"notifyID", "time", "param1", "param2", "param3", "param4", "param5", "param6">>)

ValueOrder(v) ==
  [REC_FILE_SET_INFO |-> REC_FILE_SET_INFO_VALUE,
   REC_SETTING_DATA |-> REC_SETTING_DATA_VALUE(v),
   RESERVE_DATA |-> RESERVE_DATA_VALUE(v), REC_FILE_INFO |-> REC_FILE_INFO_VALUE(v),
   TUNER_RESERVE_INFO |-> TUNER_RESERVE_INFO_VALUE,
   REGIST_TCP_INFO |-> REGIST_TCP_INFO_VALUE,
   EPGDB_SHORT_EVENT_INFO |-> EPGDB_SHORT_EVENT_INFO_VALUE,
   EPGDB_EXTENDED_EVENT_INFO |-> EPGDB_EXTENDED_EVENT_INFO_VALUE,
   EPGDB_CONTENT_DATA |-> EPGDB_CONTENT_DATA_VALUE,
   EPGDB_CONTEN_INFO |-> EPGDB_CONTEN_INFO_VALUE,
   EPGDB_COMPONENT_INFO |-> EPGDB_COMPONENT_INFO_VALUE,
   EPGDB_AUDIO_COMPONENT_INFO_DATA |-> EPGDB_AUDIO_COMPONENT_INFO_DATA_VALUE,
   EPGDB_AUDIO_COMPONENT_INFO |-> EPGDB_AUDIO_COMPONENT_INFO_VALUE,
   EPGDB_EVENT_DATA |-> EPGDB_EVENT_DATA_VALUE,
   EPGDB_EVENTGROUP_INFO |-> EPGDB_EVENTGROUP_INFO_VALUE,
   EPGDB_EVENT_INFO |-> EPGDB_EVENT_INFO_VALUE,
   EPGDB_SERVICE_INFO |-> EPGDB_SERVICE_INFO_VALUE,
   EPGDB_SERVICE_EVENT_INFO |-> EPGDB_SERVICE_EVENT_INFO_VALUE,
   EPGDB_SEARCH_DATE_INFO |-> EPGDB_SEARCH_DATE_INFO_VALUE,
   EPGDB_SEARCH_KEY_INFO |-> EPGDB_SEARCH_KEY_INFO_VALUE(v),
   EPG_AUTO_ADD_DATA |-> EPG_AUTO_ADD_DATA_VALUE(v),
   MANUAL_AUTO_ADD_DATA |-> MANUAL_AUTO_ADD_DATA_VALUE,
   SET_CH_INFO |-> SET_CH_INFO_VALUE, SET_CTRL_MODE |-> SET_CTRL_MODE_VALUE,
   SET_CTRL_REC_PARAM |-> SET_CTRL_REC_PARAM_VALUE,
   SET_CTRL_REC_STOP_PARAM |-> SET_CTRL_REC_STOP_PARAM_VALUE,
   SET_CTRL_REC_STOP_RES_PARAM |-> SET_CTRL_REC_STOP_RES_PARAM_VALUE,
   SEARCH_EPG_INFO_PARAM |-> SEARCH_EPG_INFO_PARAM_VALUE,
   GET_EPG_PF_INFO_PARAM |-> GET_EPG_PF_INFO_PARAM_VALUE,
   TVTEST_CH_CHG_INFO |-> TVTEST_CH_CHG_INFO_VALUE,
   TVTEST_STREAMING_INFO |-> TVTEST_STREAMING_INFO_VALUE,
   NWPLAY_PLAY_INFO |-> NWPLAY_PLAY_INFO_VALUE, NWPLAY_POS_CMD |-> NWPLAY_POS_CMD_VALUE,
   NWPLAY_TIMESHIFT_INFO |-> NWPLAY_TIMESHIFT_INFO_VALUE,
   NOTIFY_SRV_INFO |-> NOTIFY_SRV_INFO_VALUE]

-----------------------------------------------------------------------------
(* Writing. *)

Base(width, val) == [w |-> width, v |-> val, num |-> 0]

Size(k) == [w |-> SizeOf.DWORD, v |-> <<"size">>, num |-> k]

\* The size in front counts itself.
Sized(tokens) == <<Size(Len(tokens) + 1)>> \o tokens

RECURSIVE WriteVALUE(_, _, _)

WriteString(val) == Sized(<<Base(0, val)>>)

WriteVectorVALUE(type, val, v) ==
  Sized(<<Size(Len(val))>> \o
        FlattenSeq([i \in DOMAIN val |-> WriteVALUE(type, val[i], v)]))

\* NULL is a size that counts nothing but itself.
WritePointer(type, val, v) ==
  IF val = <<>> THEN <<Size(1)>> ELSE WriteVALUE(type, val[1], v)

WriteStruct(type, val, v) ==
  LET order == ValueOrder(v)[type].write
      field(m) == WriteVALUE(TypeOf(type, m),
                             IF m \in DOMAIN PaddingType THEN <<>> ELSE val[m], v)
  IN  Sized(FlattenSeq([i \in DOMAIN order |-> field(order[i])]))

WriteVALUE(type, val, v) ==
  CASE type \in DOMAIN SizeOf -> <<Base(SizeOf[type], val)>>
    [] type = "wstring" -> WriteString(val)
    [] type \in DOMAIN VectorOf -> WriteVectorVALUE(VectorOf[type], val, v)
    [] type \in DOMAIN PointerTo -> WritePointer(PointerTo[type], val, v)
    [] type \in DOMAIN MembersOf -> WriteStruct(type, val, v)

-----------------------------------------------------------------------------
(* Reading from position at; stop is the first position behind the buffer. *)

Failed == [ok |-> FALSE, at |-> 0, val |-> <<>>]

Got(at, val) == [ok |-> TRUE, at |-> at, val |-> val]

\* A base value that was written with another width or as something else reads as
\* garbage and puts all that follows out of step: it counts as a failure.
HasSize(buf, at, stop) == at < stop /\ buf[at].v = <<"size">>

\* A sized value may not be shorter than its header nor reach behind the buffer.
SizeFits(buf, at, stop, header) ==
  HasSize(buf, at, stop) /\ buf[at].num >= header /\ at + buf[at].num <= stop

\* A mutant: reading goes on behind the last field that is known.
NextAfterFields(buf, at, fieldsEnd) == fieldsEnd

\* Reading goes on behind the size that was read, whatever the fields took: this is
\* how a reader skips the fields that came with a later version.
NextAfter(buf, at, fieldsEnd) == at + buf[at].num

RECURSIVE ReadVALUE(_, _, _, _, _)

ReadBase(width, buf, at, stop) ==
  IF at < stop /\ buf[at].w = width THEN Got(at + 1, buf[at].v) ELSE Failed

ReadString(buf, at, stop) ==
  IF ~SizeFits(buf, at, stop, 1) THEN Failed
  ELSE Got(NextAfter(buf, at, at + 2), IF buf[at].num > 1 THEN buf[at + 1].v ELSE <<>>)

\* The elements are appended to what the caller's vector holds; every caller passes an
\* empty one.
ReadVectorVALUE(type, buf, at, stop, v) ==
  LET next(r, i) ==
        IF ~r.ok THEN r
        ELSE LET e == ReadVALUE(type, buf, r.at, at + buf[at].num, v)
             IN  IF e.ok THEN Got(e.at, Append(r.val, e.val)) ELSE Failed
  IN  IF at + 1 >= stop \/ ~SizeFits(buf, at, stop, 2) \/ ~HasSize(buf, at + 1, stop)
      THEN Failed
      ELSE LET r == FoldLeft(next, Got(at + 2, <<>>), [i \in 1 .. buf[at + 1].num |-> i])
           IN  IF r.ok THEN Got(NextAfter(buf, at, r.at), r.val) ELSE Failed

\* What cannot be read as the structure must be the NULL of WritePointer.
ReadPointer(type, buf, at, stop, v) ==
  LET r == ReadVALUE(type, buf, at, stop, v)
  IN  IF r.ok THEN Got(r.at, <<r.val>>)
      ELSE IF HasSize(buf, at, stop) /\ buf[at].num = 1 THEN Got(at + 1, <<>>)
      ELSE Failed

ReadStruct(type, buf, at, stop, v) ==
  LET next(r, m) ==
        IF ~r.ok THEN r
        ELSE LET f == ReadVALUE(TypeOf(type, m), buf, r.at, at + buf[at].num, v)
             IN  IF ~f.ok THEN Failed
                 ELSE Got(f.at, IF m \in DOMAIN PaddingType THEN r.val
                                ELSE (m :> f.val) @@ r.val)
  IN  IF ~SizeFits(buf, at, stop, 1) THEN Failed
      ELSE LET r == FoldLeft(next, Got(at + 1, <<>>), ValueOrder(v)[type].read)
           IN  IF r.ok THEN Got(NextAfter(buf, at, r.at), r.val) ELSE Failed

ReadVALUE(type, buf, at, stop, v) ==
  CASE type \in DOMAIN SizeOf -> ReadBase(SizeOf[type], buf, at, stop)
    [] type = "wstring" -> ReadString(buf, at, stop)
    [] type \in DOMAIN VectorOf -> ReadVectorVALUE(VectorOf[type], buf, at, stop, v)
    [] type \in DOMAIN PointerTo -> ReadPointer(PointerTo[type], buf, at, stop, v)
    [] type \in DOMAIN MembersOf -> ReadStruct(type, buf, at, stop, v)

-----------------------------------------------------------------------------
(* Whole buffers. *)

\* No member that came with a version is written or read.
NewWriteVALUE(type, val) == WriteVALUE(type, val, 0)

ReadAll(type, buf, at, v) == ReadVALUE(type, buf, at, Len(buf) + 1, v)

Version(ver) == [w |-> SizeOf.WORD, v |-> <<"version">>, num |-> ver]

\* A version below 2 counts as 2.
AtLeast2(ver) == IF ver < 2 THEN 2 ELSE ver

\* A library whose own version is lib knows no fields that came later.
Older(ver, lib) == IF lib < ver THEN lib ELSE ver

NewWriteVALUE2WithVersion(ver, type, val, lib) ==
  <<Version(AtLeast2(ver))>> \o WriteVALUE(type, val, Older(AtLeast2(ver), lib))

ReadVALUE2(ver, type, buf, at, lib) == ReadAll(type, buf, at, Older(AtLeast2(ver), lib))
=============================================================================
