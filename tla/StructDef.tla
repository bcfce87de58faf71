----------------------------- MODULE StructDef -----------------------------
(***************************************************************************)
(* The structures that commands carry (Common/StructDef.h): for each the   *)
(* names of its members with their types.  Constructors, which give        *)
(* members their first values, are left out.                               *)
(***************************************************************************)
EXTENDS TLC

REC_FILE_SET_INFO ==
  [recFolder |-> "wstring", writePlugIn |-> "wstring", recNamePlugIn |-> "wstring",
   recFileName |-> "wstring"]

REC_SETTING_DATA ==
  [recMode |-> "BYTE", priority |-> "BYTE", tuijyuuFlag |-> "BYTE",
   serviceMode |-> "DWORD", pittariFlag |-> "BYTE", batFilePath |-> "wstring",
   recFolderList |-> "vector<REC_FILE_SET_INFO>", suspendMode |-> "BYTE",
   rebootFlag |-> "BYTE", useMargineFlag |-> "BYTE", startMargine |-> "INT",
   endMargine |-> "INT", continueRecFlag |-> "BYTE", partialRecFlag |-> "BYTE",
   tunerID |-> "DWORD", partialRecFolder |-> "vector<REC_FILE_SET_INFO>"]

RESERVE_DATA ==
  [title |-> "wstring", startTime |-> "SYSTEMTIME", durationSecond |-> "DWORD",
   stationName |-> "wstring", originalNetworkID |-> "WORD", transportStreamID |-> "WORD",
   serviceID |-> "WORD", eventID |-> "WORD", comment |-> "wstring",
   reserveID |-> "DWORD", presentFlag |-> "BYTE", overlapMode |-> "BYTE",
   startTimeEpg |-> "SYSTEMTIME", recSetting |-> "REC_SETTING_DATA",
   reserveStatus |-> "DWORD", recFileNameList |-> "vector<wstring>"]

REC_FILE_INFO ==
  [id |-> "DWORD", recFilePath |-> "wstring", title |-> "wstring",
   startTime |-> "SYSTEMTIME", durationSecond |-> "DWORD", serviceName |-> "wstring",
   originalNetworkID |-> "WORD", transportStreamID |-> "WORD", serviceID |-> "WORD",
   eventID |-> "WORD", drops |-> "__int64", scrambles |-> "__int64",
   recStatus |-> "DWORD", startTimeEpg |-> "SYSTEMTIME", comment |-> "wstring",
   programInfo |-> "wstring", errInfo |-> "wstring", protectFlag |-> "BYTE"]

TUNER_RESERVE_INFO ==
  [tunerID |-> "DWORD", tunerName |-> "wstring", reserveList |-> "vector<DWORD>"]

REGIST_TCP_INFO ==
  [ip |-> "wstring", port |-> "DWORD"]

EPGDB_SHORT_EVENT_INFO ==
  [event_name |-> "wstring", text_char |-> "wstring"]

EPGDB_EXTENDED_EVENT_INFO ==
  [text_char |-> "wstring"]

EPGDB_CONTENT_DATA ==
  [content_nibble_level_1 |-> "BYTE", content_nibble_level_2 |-> "BYTE",
   user_nibble_1 |-> "BYTE", user_nibble_2 |-> "BYTE"]

EPGDB_CONTEN_INFO ==
  [nibbleList |-> "vector<EPGDB_CONTENT_DATA>"]

EPGDB_COMPONENT_INFO ==
  [stream_content |-> "BYTE", component_type |-> "BYTE", component_tag |-> "BYTE",
   text_char |-> "wstring"]

EPGDB_AUDIO_COMPONENT_INFO_DATA ==
  [stream_content |-> "BYTE", component_type |-> "BYTE", component_tag |-> "BYTE",
   stream_type |-> "BYTE", simulcast_group_tag |-> "BYTE",
   ES_multi_lingual_flag |-> "BYTE", main_component_flag |-> "BYTE",
   quality_indicator |-> "BYTE", sampling_rate |-> "BYTE", text_char |-> "wstring"]

EPGDB_AUDIO_COMPONENT_INFO ==
  [componentList |-> "vector<EPGDB_AUDIO_COMPONENT_INFO_DATA>"]

EPGDB_EVENT_DATA ==
  [original_network_id |-> "WORD", transport_stream_id |-> "WORD", service_id |-> "WORD",
   event_id |-> "WORD"]

EPGDB_EVENTGROUP_INFO ==
  [group_type |-> "BYTE", eventDataList |-> "vector<EPGDB_EVENT_DATA>"]

EPGDB_EVENT_INFO ==
  [original_network_id |-> "WORD", transport_stream_id |-> "WORD", service_id |-> "WORD",
   event_id |-> "WORD", StartTimeFlag |-> "BYTE", start_time |-> "SYSTEMTIME",
   DurationFlag |-> "BYTE", durationSec |-> "DWORD",
   shortInfo |-> "unique_ptr<EPGDB_SHORT_EVENT_INFO>",
   extInfo |-> "unique_ptr<EPGDB_EXTENDED_EVENT_INFO>",
   contentInfo |-> "unique_ptr<EPGDB_CONTEN_INFO>",
   componentInfo |-> "unique_ptr<EPGDB_COMPONENT_INFO>",
   audioInfo |-> "unique_ptr<EPGDB_AUDIO_COMPONENT_INFO>",
   eventGroupInfo |-> "unique_ptr<EPGDB_EVENTGROUP_INFO>",
   eventRelayInfo |-> "unique_ptr<EPGDB_EVENTGROUP_INFO>", freeCAFlag |-> "BYTE"]

EPGDB_SERVICE_INFO ==
  [ONID |-> "WORD", TSID |-> "WORD", SID |-> "WORD", service_type |-> "BYTE",
   partialReceptionFlag |-> "BYTE", service_provider_name |-> "wstring",
   service_name |-> "wstring", network_name |-> "wstring", ts_name |-> "wstring",
   remote_control_key_id |-> "BYTE"]

EPGDB_SERVICE_EVENT_INFO ==
  [serviceInfo |-> "EPGDB_SERVICE_INFO", eventList |-> "vector<EPGDB_EVENT_INFO>"]

EPGDB_SEARCH_DATE_INFO ==
  [startDayOfWeek |-> "BYTE", startHour |-> "WORD", startMin |-> "WORD",
   endDayOfWeek |-> "BYTE", endHour |-> "WORD", endMin |-> "WORD"]

EPGDB_SEARCH_KEY_INFO ==
  [andKey |-> "wstring", notKey |-> "wstring", regExpFlag |-> "BOOL",
   titleOnlyFlag |-> "BOOL", contentList |-> "vector<EPGDB_CONTENT_DATA>",
   dateList |-> "vector<EPGDB_SEARCH_DATE_INFO>", serviceList |-> "vector<__int64>",
   videoList |-> "vector<WORD>", audioList |-> "vector<WORD>", aimaiFlag |-> "BYTE",
   notContetFlag |-> "BYTE", notDateFlag |-> "BYTE", freeCAFlag |-> "BYTE",
   chkRecEnd |-> "BYTE", chkRecDay |-> "WORD"]

EPG_AUTO_ADD_DATA ==
  [dataID |-> "DWORD", searchInfo |-> "EPGDB_SEARCH_KEY_INFO",
   recSetting |-> "REC_SETTING_DATA", addCount |-> "DWORD"]

MANUAL_AUTO_ADD_DATA ==
  [dataID |-> "DWORD", dayOfWeekFlag |-> "BYTE", startTime |-> "DWORD",
   durationSecond |-> "DWORD", title |-> "wstring", stationName |-> "wstring",
   originalNetworkID |-> "WORD", transportStreamID |-> "WORD", serviceID |-> "WORD",
   recSetting |-> "REC_SETTING_DATA"]

SET_CH_INFO ==
  [useSID |-> "BOOL", ONID |-> "WORD", TSID |-> "WORD", SID |-> "WORD",
   useBonCh |-> "BOOL", space |-> "DWORD", ch |-> "DWORD"]

SET_CTRL_MODE ==
  [ctrlID |-> "DWORD", SID |-> "WORD", enableScramble |-> "BYTE",
   enableCaption |-> "BYTE", enableData |-> "BYTE"]

SET_CTRL_REC_PARAM ==
  [ctrlID |-> "DWORD", fileName |-> "wstring", overWriteFlag |-> "BYTE",
   createSize |-> "ULONGLONG", saveFolder |-> "vector<REC_FILE_SET_INFO>",
   pittariFlag |-> "BYTE", pittariONID |-> "WORD", pittariTSID |-> "WORD",
   pittariSID |-> "WORD", pittariEventID |-> "WORD"]

SET_CTRL_REC_STOP_PARAM ==
  [ctrlID |-> "DWORD", saveErrLog |-> "BOOL"]

SET_CTRL_REC_STOP_RES_PARAM ==
  [recFilePath |-> "wstring", drop |-> "ULONGLONG", scramble |-> "ULONGLONG",
   subRecFlag |-> "BYTE"]

SEARCH_EPG_INFO_PARAM ==
  [ONID |-> "WORD", TSID |-> "WORD", SID |-> "WORD", eventID |-> "WORD",
   pfOnlyFlag |-> "BYTE"]

GET_EPG_PF_INFO_PARAM ==
  [ONID |-> "WORD", TSID |-> "WORD", SID |-> "WORD", pfNextFlag |-> "BYTE"]

TVTEST_CH_CHG_INFO ==
  [bonDriver |-> "wstring", chInfo |-> "SET_CH_INFO"]

TVTEST_STREAMING_INFO ==
  [enableMode |-> "BOOL", ctrlID |-> "DWORD", serverIP |-> "DWORD",
   serverPort |-> "DWORD", filePath |-> "wstring", udpSend |-> "BOOL",
   tcpSend |-> "BOOL", timeShiftMode |-> "BOOL"]

NWPLAY_PLAY_INFO ==
  [ctrlID |-> "DWORD", ip |-> "DWORD", udp |-> "BYTE", tcp |-> "BYTE",
   udpPort |-> "DWORD", tcpPort |-> "DWORD"]

NWPLAY_POS_CMD ==
  [ctrlID |-> "DWORD", currentPos |-> "__int64", totalPos |-> "__int64"]

NWPLAY_TIMESHIFT_INFO ==
  [ctrlID |-> "DWORD", filePath |-> "wstring"]

NOTIFY_SRV_INFO ==
  [notifyID |-> "DWORD", time |-> "SYSTEMTIME", param1 |-> "DWORD", param2 |-> "DWORD",
   param3 |-> "DWORD", param4 |-> "wstring", param5 |-> "wstring", param6 |-> "wstring"]

-----------------------------------------------------------------------------

MembersOf ==
  [REC_FILE_SET_INFO |-> REC_FILE_SET_INFO, REC_SETTING_DATA |-> REC_SETTING_DATA,
   RESERVE_DATA |-> RESERVE_DATA, REC_FILE_INFO |-> REC_FILE_INFO,
   TUNER_RESERVE_INFO |-> TUNER_RESERVE_INFO, REGIST_TCP_INFO |-> REGIST_TCP_INFO,
   EPGDB_SHORT_EVENT_INFO |-> EPGDB_SHORT_EVENT_INFO,
   EPGDB_EXTENDED_EVENT_INFO |-> EPGDB_EXTENDED_EVENT_INFO,
   EPGDB_CONTENT_DATA |-> EPGDB_CONTENT_DATA, EPGDB_CONTEN_INFO |-> EPGDB_CONTEN_INFO,
   EPGDB_COMPONENT_INFO |-> EPGDB_COMPONENT_INFO,
   EPGDB_AUDIO_COMPONENT_INFO_DATA |-> EPGDB_AUDIO_COMPONENT_INFO_DATA,
   EPGDB_AUDIO_COMPONENT_INFO |-> EPGDB_AUDIO_COMPONENT_INFO,
   EPGDB_EVENT_DATA |-> EPGDB_EVENT_DATA,
   EPGDB_EVENTGROUP_INFO |-> EPGDB_EVENTGROUP_INFO,
   EPGDB_EVENT_INFO |-> EPGDB_EVENT_INFO, EPGDB_SERVICE_INFO |-> EPGDB_SERVICE_INFO,
   EPGDB_SERVICE_EVENT_INFO |-> EPGDB_SERVICE_EVENT_INFO,
   EPGDB_SEARCH_DATE_INFO |-> EPGDB_SEARCH_DATE_INFO,
   EPGDB_SEARCH_KEY_INFO |-> EPGDB_SEARCH_KEY_INFO,
   EPG_AUTO_ADD_DATA |-> EPG_AUTO_ADD_DATA,
   MANUAL_AUTO_ADD_DATA |-> MANUAL_AUTO_ADD_DATA, SET_CH_INFO |-> SET_CH_INFO,
   SET_CTRL_MODE |-> SET_CTRL_MODE, SET_CTRL_REC_PARAM |-> SET_CTRL_REC_PARAM,
   SET_CTRL_REC_STOP_PARAM |-> SET_CTRL_REC_STOP_PARAM,
   SET_CTRL_REC_STOP_RES_PARAM |-> SET_CTRL_REC_STOP_RES_PARAM,
   SEARCH_EPG_INFO_PARAM |-> SEARCH_EPG_INFO_PARAM,
   GET_EPG_PF_INFO_PARAM |-> GET_EPG_PF_INFO_PARAM,
   TVTEST_CH_CHG_INFO |-> TVTEST_CH_CHG_INFO,
   TVTEST_STREAMING_INFO |-> TVTEST_STREAMING_INFO,
   NWPLAY_PLAY_INFO |-> NWPLAY_PLAY_INFO, NWPLAY_POS_CMD |-> NWPLAY_POS_CMD,
   NWPLAY_TIMESHIFT_INFO |-> NWPLAY_TIMESHIFT_INFO, NOTIFY_SRV_INFO |-> NOTIFY_SRV_INFO]

\* The element type of each vector type, and what each pointer type points to.
VectorOf ==
  "vector<DWORD>" :> "DWORD" @@
  "vector<EPGDB_AUDIO_COMPONENT_INFO_DATA>" :> "EPGDB_AUDIO_COMPONENT_INFO_DATA" @@
  "vector<EPGDB_CONTENT_DATA>" :> "EPGDB_CONTENT_DATA" @@
  "vector<EPGDB_EVENT_DATA>" :> "EPGDB_EVENT_DATA" @@
  "vector<EPGDB_EVENT_INFO>" :> "EPGDB_EVENT_INFO" @@
  "vector<EPGDB_SEARCH_DATE_INFO>" :> "EPGDB_SEARCH_DATE_INFO" @@
  "vector<EPGDB_SEARCH_KEY_INFO>" :> "EPGDB_SEARCH_KEY_INFO" @@
  "vector<EPGDB_SERVICE_EVENT_INFO>" :> "EPGDB_SERVICE_EVENT_INFO" @@
  "vector<EPGDB_SERVICE_INFO>" :> "EPGDB_SERVICE_INFO" @@
  "vector<EPG_AUTO_ADD_DATA>" :> "EPG_AUTO_ADD_DATA" @@
  "vector<MANUAL_AUTO_ADD_DATA>" :> "MANUAL_AUTO_ADD_DATA" @@
  "vector<REC_FILE_INFO>" :> "REC_FILE_INFO" @@
  "vector<REC_FILE_SET_INFO>" :> "REC_FILE_SET_INFO" @@
  "vector<RESERVE_DATA>" :> "RESERVE_DATA" @@
  "vector<SET_CH_INFO>" :> "SET_CH_INFO" @@
  "vector<TUNER_RESERVE_INFO>" :> "TUNER_RESERVE_INFO" @@
  "vector<WORD>" :> "WORD" @@
  "vector<__int64>" :> "__int64" @@
  "vector<wstring>" :> "wstring"

PointerTo ==
  "unique_ptr<EPGDB_AUDIO_COMPONENT_INFO>" :> "EPGDB_AUDIO_COMPONENT_INFO" @@
  "unique_ptr<EPGDB_COMPONENT_INFO>" :> "EPGDB_COMPONENT_INFO" @@
  "unique_ptr<EPGDB_CONTEN_INFO>" :> "EPGDB_CONTEN_INFO" @@
  "unique_ptr<EPGDB_EVENTGROUP_INFO>" :> "EPGDB_EVENTGROUP_INFO" @@
  "unique_ptr<EPGDB_EXTENDED_EVENT_INFO>" :> "EPGDB_EXTENDED_EVENT_INFO" @@
  "unique_ptr<EPGDB_SHORT_EVENT_INFO>" :> "EPGDB_SHORT_EVENT_INFO"

\* The comments "CMD_VER k on" on members that came later (lines 29, 68, 107, 401).
CameWith ==
  <<"REC_SETTING_DATA", "partialRecFolder">> :> 2 @@
  <<"RESERVE_DATA", "recFileNameList">> :> 5 @@
  <<"REC_FILE_INFO", "protectFlag">> :> 4 @@
  <<"EPGDB_SEARCH_KEY_INFO", "chkRecEnd">> :> 3 @@
  <<"EPGDB_SEARCH_KEY_INFO", "chkRecDay">> :> 3

=============================================================================
