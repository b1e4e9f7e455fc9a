------------------------- MODULE OperationTimeouts -------------------------
(***************************************************************************)
(* src/src/request-timeouts.generated.ts: the table in which the SDK looks *)
(* up the server's default timeout of the operation it is about to call.   *)
(* It is generated from the API description apart from the endpoints, and  *)
(* transcribed apart from them.  A row has the method, the path template,  *)
(* split at its slashes, and the seconds.                                  *)
(***************************************************************************)
EXTENDS Naturals, Sequences

\* A {parameter} segment of a template.
Parameter == "{}"

\* Templates of n segments behind the operation's name.
Rows(method, ns, n, seconds, operations) ==
  {[method |-> method, seconds |-> seconds,
    template |-> <<"api", "v2", ns, Parameter, o>> \o [i \in 1..n |-> Parameter]] :
     o \in operations}

AdministrationTimeouts ==
  Rows("GET", "MT4", 0, 10, {"AdmBalanceCheck"})
  \cup Rows("GET", "MT4", 1, 10, {"AdmBalanceCheck"})
  \cup Rows("POST", "MT4", 0, 5, {"AdmBalanceFix", "AdmTradesDelete"})
  \cup Rows("POST", "MT4", 1, 5, {"AdmTradeRecordModify"})
  \cup Rows("GET", "MT4", 1, 30, {"AdmTradesRequest", "AdmUsersRequestSafe",
      "BackupInfoOrders", "BackupInfoUsers", "BackupRequestOrders",
      "BackupRequestUsers"})
  \cup Rows("POST", "MT4", 0, 60, {"BackupRestoreOrders", "BackupRestoreUsers"})
  \cup Rows("POST", "MT4", 1, 15, {"CfgDeleteAccess", "CfgDeleteDataServer",
      "CfgDeleteFeeder", "CfgDeleteGatewayAccount", "CfgDeleteGatewayMarkup",
      "CfgDeleteGatewayRule", "CfgDeleteHoliday", "CfgDeleteLiveUpdate",
      "CfgDeleteManager", "CfgDeleteSymbol", "CfgDeleteSync"})

CfgRequestTimeouts ==
  Rows("GET", "MT4", 0, 10, {"CfgRequestAccess", "CfgRequestBackup",
      "CfgRequestCommon", "CfgRequestDataServer", "CfgRequestFeeder",
      "CfgRequestGatewayAccount", "CfgRequestGatewayMarkup", "CfgRequestGatewayRule",
      "CfgRequestHoliday", "CfgRequestLiveUpdate", "CfgRequestManager",
      "CfgRequestPlugin", "CfgRequestSymbol", "CfgRequestSync", "CfgRequestTime"})
  \cup Rows("GET", "MT4", 1, 10, {"CfgRequestSymbol"})

CfgShiftTimeouts ==
  Rows("POST", "MT4", 1, 15, {"CfgShiftAccess", "CfgShiftDataServer", "CfgShiftFeeder",
      "CfgShiftGatewayAccount", "CfgShiftGatewayMarkup", "CfgShiftGatewayRule",
      "CfgShiftGroup", "CfgShiftHoliday", "CfgShiftLiveUpdate", "CfgShiftManager",
      "CfgShiftPlugin", "CfgShiftSymbol", "CfgShiftSync"})

CfgUpdateTimeouts ==
  Rows("POST", "MT4", 1, 15, {"CfgUpdateAccess", "CfgUpdateDataServer",
      "CfgUpdateHoliday", "CfgUpdateSymbol", "CfgUpdateSymbolGroup"})
  \cup Rows("POST", "MT4", 0, 15, {"CfgUpdateBackup", "CfgUpdateCommon", "CfgUpdateFeeder",
      "CfgUpdateGatewayAccount", "CfgUpdateGatewayMarkup", "CfgUpdateGatewayRule",
      "CfgUpdateLiveUpdate", "CfgUpdateManager", "CfgUpdatePlugin", "CfgUpdateSync",
      "CfgUpdateTime"})

ChartToMarginTimeouts ==
  Rows("POST", "MT4", 1, 15, {"ChartAdd", "ChartDelete", "ChartUpdate",
      "GroupRecordUpdate"})
  \cup Rows("GET", "MT4", 1, 30, {"ChartRequest"})
  \cup Rows("GET", "MT4", 0, 30, {"DailyReportsRequest", "DailyReportsRequestEx",
      "JournalRequest", "MailsRequest"})
  \cup Rows("POST", "MT4", 0, 30, {"DailySyncRead"})
  \cup Rows("POST", "MT4", 0, 60, {"DailySyncStart", "ExternalCommandBinary",
      "ExternalCommandJSON"})
  \cup Rows("GET", "MT4", 1, 10, {"EnsureGroupNameExist", "GroupRecordGet",
      "GroupSecGroupsGet", "GroupSecMarginsGet", "LicenseCheck", "MarginLevelGet",
      "MarginLevelRequest"})
  \cup Rows("PATCH", "MT4", 1, 15, {"GroupRecord"})
  \cup Rows("GET", "MT4", 0, 10, {"GroupsGet", "GroupsRequest", "MailLast", "ManagerCommon",
      "MarginsGet"})
  \cup Rows("POST", "MT4", 1, 60, {"HistoryCorrect"})
  \cup Rows("POST", "MT4", 0, 15, {"MailSend"})

NewsToSymbolsTimeouts ==
  Rows("GET", "MT4", 1, 10, {"NewsBodyGet", "NewsTopicGet", "PluginParamGet",
      "SymbolSessionsGet"})
  \cup Rows("POST", "MT4", 1, 15, {"NewsBodyRequest", "SymbolAdd", "SymbolHide"})
  \cup Rows("GET", "MT4", 0, 10, {"NewsGet", "NewsTotal", "OnlineGet", "OnlineRequest",
      "PluginsGet", "ServerTime", "SrvFeeders", "SymbolInfoGet", "SymbolInfoUpdated",
      "SymbolsGroupsGet"})
  \cup Rows("POST", "MT4", 0, 15, {"NewsSend", "NotificationsSend", "PluginUpdate",
      "SymbolChange", "SymbolSendTick"})
  \cup Rows("GET", "MT4", 0, 30, {"PerformanceRequest", "ReportsRequest"})
  \cup Rows("POST", "MT4", 0, 60, {"SrvChartsSync", "SrvFeedsRestart", "SrvLiveUpdateStart",
      "SrvRestart", "SymbolsRefresh"})
  \cup Rows("GET", "MT4", 1, 30, {"SrvFeederLog"})
  \cup Rows("PATCH", "MT4", 1, 15, {"SymbolConfig"})

TickAndTradeTimeouts ==
  Rows("GET", "MT4", 0, 10, {"TickInfoLast", "TradeRecordsRequest", "TradesGet",
      "TradesGetByMarket", "TradesGetBySymbol", "TradesRequest"})
  \cup Rows("GET", "MT4", 1, 10, {"TickInfoLast", "TradeRecordGet", "TradeRecordRequest",
      "TradesGet"})
  \cup Rows("GET", "MT4", 1, 30, {"TicksRequest", "TradesUserHistory"})
  \cup Rows("POST", "MT4", 0, 5, {"TradeCheckStops", "TradeTransaction"})
  \cup Rows("POST", "MT4", 1, 5, {"TradeClearRollback"})
  \cup Rows("GET", "MT4", 2, 10, {"TradesGetByLogin"})
  \cup Rows("GET", "MT4", 0, 30, {"TradesSnapshot", "TradesSyncRead"})
  \cup Rows("POST", "MT4", 0, 60, {"TradesSyncStart"})

UserTimeouts ==
  Rows("POST", "MT4", 1, 15, {"UserPasswordCheck", "UserPasswordSet",
      "UserRecordUpdate"})
  \cup Rows("PATCH", "MT4", 1, 15, {"UserRecord"})
  \cup Rows("GET", "MT4", 1, 10, {"UserRecordGet", "UserRecordRequest"})
  \cup Rows("POST", "MT4", 0, 15, {"UserRecordNew"})
  \cup Rows("GET", "MT4", 0, 10, {"UserRecordsRequest", "UsersRequest"})
  \cup Rows("POST", "MT4", 0, 60, {"UsersGroupOp", "UsersSyncStart"})
  \cup Rows("GET", "MT4", 0, 30, {"UsersSnapshot", "UsersSyncRead"})

MT5Timeouts ==
  Rows("GET", "MT5", 1, 30, {"ChartRequest", "DealByGroup", "TicksHistory"})
  \cup Rows("GET", "MT5", 1, 10, {"GroupGet", "OrderByGroup", "PositionByGroup",
      "SymbolGet", "UserGet"})
  \cup Rows("PATCH", "MT5", 1, 15, {"GroupRecord", "SymbolRecord", "UserRecord"})
  \cup Rows("GET", "MT5", 0, 10, {"ManagerCurrent", "ServerTime", "TimeGet"})

OPERATION_TIMEOUTS ==
  AdministrationTimeouts \cup CfgRequestTimeouts \cup CfgShiftTimeouts
  \cup CfgUpdateTimeouts \cup ChartToMarginTimeouts \cup NewsToSymbolsTimeouts
  \cup TickAndTradeTimeouts \cup UserTimeouts \cup MT5Timeouts
=============================================================================
