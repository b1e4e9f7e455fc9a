--------------------------- MODULE MT4Endpoints ---------------------------
(*************************************************************************)
(* The generated endpoint functions of the MT4 tag modules: src/src/     *)
(* generated/mt4-v2-*.ts.  A definition describes neighbouring functions *)
(* of one file; Endpoints says what a row means.                         *)
(*************************************************************************)
EXTENDS Endpoints

\* mt4-v2-authentication.ts
UserPasswords ==
  Changes("MT4", "", {<<"postUserPasswordCheckLogin", "UserPasswordCheck", 1, 1>>,
      <<"postUserPasswordSetLogin", "UserPasswordSet", 1, 2>>})

\* mt4-v2-backup-destructive.ts
BackupRestores ==
  Maintenance("MT4", "", {<<"postBackupRestoreUsers", "BackupRestoreUsers", 0, 2>>,
      <<"postBackupRestoreOrders", "BackupRestoreOrders", 0, 2>>})

\* mt4-v2-backup.ts
BackupInfos ==
  HistoryReads("MT4", "", {<<"getBackupInfoUsersMode", "BackupInfoUsers", 1, 0>>,
      <<"getBackupInfoOrdersMode", "BackupInfoOrders", 1, 0>>})
BackupRequests ==
  HistoryReads("MT4", "", {<<"getBackupRequestUsersFile", "BackupRequestUsers", 1, 1>>,
      <<"getBackupRequestOrdersFile", "BackupRequestOrders", 1, 1>>})

\* mt4-v2-common.ts
ServerInformation ==
  Reads("MT4", "MT4", {<<"getServerTime", "ServerTime", 0, 0>>})
  \cup Reads("MT4", "", {<<"getManagerCommon", "ManagerCommon", 0, 0>>})
  \cup HistoryReads("MT4", "", {<<"getJournalRequest", "JournalRequest", 0, 1>>})

\* mt4-v2-config.ts
CommonSettings ==
  Reads("MT4", "", {<<"getCfgRequestCommon", "CfgRequestCommon", 0, 0>>})
  \cup Changes("MT4", "", {<<"postCfgUpdateCommon", "CfgUpdateCommon", 0, 1>>})
HolidaysAndManagers ==
  Reads("MT4", "", {<<"getCfgRequestHoliday", "CfgRequestHoliday", 0, 1>>,
      <<"getCfgRequestManager", "CfgRequestManager", 0, 1>>})
TimeSettings ==
  Reads("MT4", "", {<<"getCfgRequestTime", "CfgRequestTime", 0, 0>>})
  \cup Changes("MT4", "", {<<"postCfgUpdateTime", "CfgUpdateTime", 0, 1>>})
AccessAndBackup ==
  Reads("MT4", "", {<<"getCfgRequestAccess", "CfgRequestAccess", 0, 1>>,
      <<"getCfgRequestBackup", "CfgRequestBackup", 0, 0>>})
BackupAndSyncUpdates ==
  Changes("MT4", "", {<<"postCfgUpdateBackup", "CfgUpdateBackup", 0, 1>>,
      <<"postCfgUpdateSync", "CfgUpdateSync", 0, 1>>})
FeederAndGatewayAccount ==
  Changes("MT4", "", {<<"postCfgUpdateFeeder", "CfgUpdateFeeder", 0, 1>>,
      <<"postCfgUpdateGatewayAccount", "CfgUpdateGatewayAccount", 0, 1>>})
GatewayMarkupAndRule ==
  Changes("MT4", "", {<<"postCfgUpdateGatewayMarkup", "CfgUpdateGatewayMarkup", 0, 1>>,
      <<"postCfgUpdateGatewayRule", "CfgUpdateGatewayRule", 0, 1>>})
LiveUpdateAndManager ==
  Changes("MT4", "", {<<"postCfgUpdateLiveUpdate", "CfgUpdateLiveUpdate", 0, 1>>,
      <<"postCfgUpdateManager", "CfgUpdateManager", 0, 1>>})
AccessAndDataServerAt ==
  Changes("MT4", "", {<<"postCfgUpdateAccessPos", "CfgUpdateAccess", 1, 1>>,
      <<"postCfgUpdateDataServerPos", "CfgUpdateDataServer", 1, 1>>})
HolidayAndSymbolGroupAt ==
  Changes("MT4", "", {<<"postCfgUpdateHolidayPos", "CfgUpdateHoliday", 1, 1>>,
      <<"postCfgUpdateSymbolGroupPos", "CfgUpdateSymbolGroup", 1, 1>>})
GatewayRequests ==
  Reads("MT4", "", {<<"getCfgRequestGatewayAccount", "CfgRequestGatewayAccount", 0, 1>>,
      <<"getCfgRequestGatewayMarkup", "CfgRequestGatewayMarkup", 0, 1>>})
RuleAndDataServerRequests ==
  Reads("MT4", "", {<<"getCfgRequestGatewayRule", "CfgRequestGatewayRule", 0, 1>>,
      <<"getCfgRequestDataServer", "CfgRequestDataServer", 0, 1>>})
FeederAndLiveUpdateRequests ==
  Reads("MT4", "", {<<"getCfgRequestFeeder", "CfgRequestFeeder", 0, 1>>,
      <<"getCfgRequestLiveUpdate", "CfgRequestLiveUpdate", 0, 1>>})
SyncRequests ==
  Reads("MT4", "", {<<"getCfgRequestSync", "CfgRequestSync", 0, 1>>})
DeleteAccessToFeeder ==
  Changes("MT4", "", {<<"postCfgDeleteAccessPos", "CfgDeleteAccess", 1, 0>>,
      <<"postCfgDeleteDataServerPos", "CfgDeleteDataServer", 1, 0>>,
      <<"postCfgDeleteFeederPos", "CfgDeleteFeeder", 1, 0>>})
DeleteGateway ==
  Changes("MT4", "", {<<"postCfgDeleteGatewayAccountPos", "CfgDeleteGatewayAccount", 1, 0>>,
      <<"postCfgDeleteGatewayMarkupPos", "CfgDeleteGatewayMarkup", 1, 0>>,
      <<"postCfgDeleteGatewayRulePos", "CfgDeleteGatewayRule", 1, 0>>})
DeleteHolidayToManager ==
  Changes("MT4", "", {<<"postCfgDeleteHolidayPos", "CfgDeleteHoliday", 1, 0>>,
      <<"postCfgDeleteLiveUpdatePos", "CfgDeleteLiveUpdate", 1, 0>>,
      <<"postCfgDeleteManagerPos", "CfgDeleteManager", 1, 0>>})
DeleteSymbolAndSync ==
  Changes("MT4", "", {<<"postCfgDeleteSymbolPos", "CfgDeleteSymbol", 1, 0>>,
      <<"postCfgDeleteSyncPos", "CfgDeleteSync", 1, 0>>})
ShiftAccessToFeeder ==
  Changes("MT4", "", {<<"postCfgShiftAccessPos", "CfgShiftAccess", 1, 1>>,
      <<"postCfgShiftDataServerPos", "CfgShiftDataServer", 1, 1>>,
      <<"postCfgShiftFeederPos", "CfgShiftFeeder", 1, 1>>})
ShiftGateway ==
  Changes("MT4", "", {<<"postCfgShiftGatewayAccountPos", "CfgShiftGatewayAccount", 1, 1>>,
      <<"postCfgShiftGatewayMarkupPos", "CfgShiftGatewayMarkup", 1, 1>>,
      <<"postCfgShiftGatewayRulePos", "CfgShiftGatewayRule", 1, 1>>})
ShiftGroupToLiveUpdate ==
  Changes("MT4", "", {<<"postCfgShiftGroupPos", "CfgShiftGroup", 1, 1>>,
      <<"postCfgShiftHolidayPos", "CfgShiftHoliday", 1, 1>>,
      <<"postCfgShiftLiveUpdatePos", "CfgShiftLiveUpdate", 1, 1>>})
ShiftManagerToSymbol ==
  Changes("MT4", "", {<<"postCfgShiftManagerPos", "CfgShiftManager", 1, 1>>,
      <<"postCfgShiftPluginPos", "CfgShiftPlugin", 1, 1>>,
      <<"postCfgShiftSymbolPos", "CfgShiftSymbol", 1, 1>>})
ShiftSync ==
  Changes("MT4", "", {<<"postCfgShiftSyncPos", "CfgShiftSync", 1, 1>>})

\* mt4-v2-groups.ts
GroupReads ==
  Reads("MT4", "", {<<"getGroupsGet", "GroupsGet", 0, 0>>,
      <<"getGroupRecordGetGroup", "GroupRecordGet", 1, 0>>,
      <<"getGroupsRequest", "GroupsRequest", 0, 1>>})
GroupSecurityReads ==
  Reads("MT4", "", {<<"getGroupSecGroupsGetGroup", "GroupSecGroupsGet", 1, 0>>,
      <<"getGroupSecMarginsGetGroup", "GroupSecMarginsGet", 1, 0>>})
GroupUpdates ==
  Changes("MT4", "", {<<"postGroupRecordUpdateGroup", "GroupRecordUpdate", 1, 1>>})
  \cup Patches("MT4", "MT4", {<<"patchGroupRecordGroup", "GroupRecord", 1, 1>>})
GroupNames ==
  Reads("MT4", "", {<<"getEnsureGroupNameExistGroup", "EnsureGroupNameExist", 1, 0>>})

\* mt4-v2-history.ts
TradeHistory ==
  HistoryReads("MT4", "", {<<"getTradesUserHistoryLogin", "TradesUserHistory", 1, 1>>})

\* mt4-v2-mail.ts
LastMail ==
  Reads("MT4", "", {<<"getMailLast", "MailLast", 0, 0>>})

\* mt4-v2-margins.ts
MarginReads ==
  Reads("MT4", "", {<<"getMarginsGet", "MarginsGet", 0, 0>>,
      <<"getMarginLevelGetLogin", "MarginLevelGet", 1, 0>>,
      <<"getMarginLevelRequestLogin", "MarginLevelRequest", 1, 0>>})

\* mt4-v2-news.ts
NewsReads ==
  Reads("MT4", "", {<<"getNewsTotal", "NewsTotal", 0, 0>>,
      <<"getNewsBodyGetKey", "NewsBodyGet", 1, 0>>, <<"getNewsGet", "NewsGet", 0, 0>>})
NewsTopicsAndBodies ==
  Reads("MT4", "", {<<"getNewsTopicGetPos", "NewsTopicGet", 1, 0>>})
  \cup Changes("MT4", "", {<<"postNewsBodyRequestKey", "NewsBodyRequest", 1, 0>>})

\* mt4-v2-online.ts
OnlineReads ==
  Reads("MT4", "", {<<"getOnlineGet", "OnlineGet", 0, 1>>,
      <<"getOnlineRequest", "OnlineRequest", 0, 1>>})

\* mt4-v2-plugins.ts
ExternalCommands ==
  Maintenance("MT4", "", {<<"postExternalCommandJSON", "ExternalCommandJSON", 0, 1>>})

\* mt4-v2-prices.ts
ChartReadAndAdd ==
  HistoryReads("MT4", "MT4", {<<"getChartRequestSymbol", "ChartRequest", 1, 1>>})
  \cup Changes("MT4", "", {<<"postChartAddSymbol", "ChartAdd", 1, 2>>})
ChartUpdateAndDelete ==
  Changes("MT4", "", {<<"postChartUpdateSymbol", "ChartUpdate", 1, 2>>,
      <<"postChartDeleteSymbol", "ChartDelete", 1, 2>>})
HistoryAndTicks ==
  Maintenance("MT4", "", {<<"postHistoryCorrectSymbol", "HistoryCorrect", 1, 0>>})
  \cup HistoryReads("MT4", "", {<<"getTicksRequestSymbol", "TicksRequest", 1, 1>>})
LastTicks ==
  Reads("MT4", "", {<<"getTickInfoLastSymbol", "TickInfoLast", 1, 0>>,
      <<"getTickInfoLast", "TickInfoLast", 0, 0>>})

\* mt4-v2-reports.ts
PerformanceAndReports ==
  HistoryReads("MT4", "", {<<"getPerformanceRequest", "PerformanceRequest", 0, 1>>,
      <<"getReportsRequest", "ReportsRequest", 0, 1>>})
DailyReports ==
  HistoryReads("MT4", "", {<<"getDailyReportsRequest", "DailyReportsRequest", 0, 1>>,
      <<"getDailyReportsRequestEx", "DailyReportsRequestEx", 0, 1>>})
DailySync ==
  Maintenance("MT4", "", {<<"postDailySyncStart", "DailySyncStart", 0, 1>>})
  \cup SafePosts("MT4", "", {<<"postDailySyncRead", "DailySyncRead", 0, 0>>})

\* mt4-v2-server-admin-destructive.ts
RestartAndChartsSync ==
  Maintenance("MT4", "", {<<"postSrvRestart", "SrvRestart", 0, 1>>,
      <<"postSrvChartsSync", "SrvChartsSync", 0, 1>>})
LiveUpdateAndFeedsRestart ==
  Maintenance("MT4", "", {<<"postSrvLiveUpdateStart", "SrvLiveUpdateStart", 0, 1>>,
      <<"postSrvFeedsRestart", "SrvFeedsRestart", 0, 1>>})

\* mt4-v2-server-admin.ts
FeedersAndLicense ==
  Reads("MT4", "", {<<"getSrvFeeders", "SrvFeeders", 0, 1>>,
      <<"getLicenseCheckLicenseName", "LicenseCheck", 1, 0>>})
NotificationsAndFeederLog ==
  Changes("MT4", "", {<<"postNotificationsSend", "NotificationsSend", 0, 1>>})
  \cup HistoryReads("MT4", "", {<<"getSrvFeederLogName", "SrvFeederLog", 1, 0>>})

\* mt4-v2-symbols.ts
SymbolInfos ==
  Reads("MT4", "", {<<"getSymbolInfoGet", "SymbolInfoGet", 0, 1>>,
      <<"getSymbolInfoUpdated", "SymbolInfoUpdated", 0, 1>>,
      <<"getSymbolsGroupsGet", "SymbolsGroupsGet", 0, 0>>})
SymbolReads ==
  Reads("MT4", "", {<<"getCfgRequestSymbol", "CfgRequestSymbol", 0, 0>>,
      <<"getCfgRequestSymbolSymbol", "CfgRequestSymbol", 1, 0>>,
      <<"getSymbolSessionsGetSymbol", "SymbolSessionsGet", 1, 0>>})
SymbolUpdates ==
  Changes("MT4", "", {<<"postCfgUpdateSymbolSymbol", "CfgUpdateSymbol", 1, 1>>})
  \cup Patches("MT4", "", {<<"patchSymbolConfigSymbol", "SymbolConfig", 1, 1>>})
SymbolSelection ==
  Changes("MT4", "", {<<"postSymbolAddSymbol", "SymbolAdd", 1, 0>>,
      <<"postSymbolHideSymbol", "SymbolHide", 1, 0>>})
  \cup Maintenance("MT4", "", {<<"postSymbolsRefresh", "SymbolsRefresh", 0, 0>>})
SymbolQuotes ==
  Changes("MT4", "", {<<"postSymbolChange", "SymbolChange", 0, 1>>,
      <<"postSymbolSendTick", "SymbolSendTick", 0, 1>>})

\* mt4-v2-trades.ts
OpenTrades ==
  Reads("MT4", "", {<<"getTradesGet", "TradesGet", 0, 1>>,
      <<"getTradesGetTicket", "TradesGet", 1, 0>>,
      <<"getTradesGetByLoginLoginGroup", "TradesGetByLogin", 2, 0>>})
TradesBySymbolMarketOrder ==
  Reads("MT4", "", {<<"getTradesGetBySymbol", "TradesGetBySymbol", 0, 1>>,
      <<"getTradesGetByMarket", "TradesGetByMarket", 0, 0>>,
      <<"getTradeRecordGetOrder", "TradeRecordGet", 1, 0>>})
StopsAndRollback ==
  TradeChanges("MT4", "", {<<"postTradeCheckStops", "TradeCheckStops", 0, 2>>,
      <<"postTradeClearRollbackOrder", "TradeClearRollback", 1, 0>>})
TradeRequests ==
  Reads("MT4", "", {<<"getTradeRecordRequestOrder", "TradeRecordRequest", 1, 0>>,
      <<"getTradesRequest", "TradesRequest", 0, 1>>})
TradeEdits ==
  TradeChanges("MT4", "", {<<"postAdmTradeRecordModifyTicket", "AdmTradeRecordModify", 1, 1>>,
      <<"postTradeTransaction", "TradeTransaction", 0, 1>>})
TradeRecordReads ==
  Reads("MT4", "", {<<"getTradeRecordsRequest", "TradeRecordsRequest", 0, 1>>})
  \cup HistoryReads("MT4", "", {<<"getAdmTradesRequestGroup", "AdmTradesRequest", 1, 1>>})
TradesDeleteAndSync ==
  TradeChanges("MT4", "", {<<"postAdmTradesDelete", "AdmTradesDelete", 0, 1>>})
  \cup Maintenance("MT4", "", {<<"postTradesSyncStart", "TradesSyncStart", 0, 1>>})

\* mt4-v2-users.ts
UserReads ==
  Reads("MT4", "", {<<"getUserRecordGetLogin", "UserRecordGet", 1, 0>>,
      <<"getUserRecordRequestLogin", "UserRecordRequest", 1, 0>>})
UserListAndBalance ==
  Reads("MT4", "", {<<"getUserRecordsRequest", "UserRecordsRequest", 0, 1>>,
      <<"getAdmBalanceCheckLogin", "AdmBalanceCheck", 1, 0>>})
BalanceListAndFix ==
  Reads("MT4", "", {<<"getAdmBalanceCheck", "AdmBalanceCheck", 0, 1>>})
  \cup TradeChanges("MT4", "", {<<"postAdmBalanceFix", "AdmBalanceFix", 0, 1>>})
UserListAndNew ==
  Reads("MT4", "", {<<"getUsersRequest", "UsersRequest", 0, 1>>})
  \cup Changes("MT4", "", {<<"postUserRecordNew", "UserRecordNew", 0, 1>>})
UserRecordEdits ==
  Changes("MT4", "", {<<"postUserRecordUpdateLogin", "UserRecordUpdate", 1, 1>>})
  \cup Patches("MT4", "MT4", {<<"patchUserRecordLogin", "UserRecord", 1, 1>>})
SafeUsersAndSync ==
  HistoryReads("MT4", "", {<<"getAdmUsersRequestSafeGroup", "AdmUsersRequestSafe", 1, 0>>})
  \cup Maintenance("MT4", "", {<<"postUsersSyncStart", "UsersSyncStart", 0, 1>>})
GroupOperations ==
  Maintenance("MT4", "", {<<"postUsersGroupOp", "UsersGroupOp", 0, 1>>})

\* mt4-v2-sidecar-messaging.ts
NewsAndMailSend ==
  Changes("MT4", "", {<<"postNewsSend", "NewsSend", 0, 1>>,
      <<"postMailSend", "MailSend", 0, 1>>})
MailsRequest ==
  HistoryReads("MT4", "", {<<"getMailsRequest", "MailsRequest", 0, 0>>})

\* mt4-v2-sidecar-plugins.ts
PluginReadsAndUpdate ==
  Reads("MT4", "", {<<"getPluginsGet", "PluginsGet", 0, 0>>,
      <<"getPluginParamGetPos", "PluginParamGet", 1, 0>>})
  \cup Changes("MT4", "", {<<"postPluginUpdate", "PluginUpdate", 0, 1>>})
PluginSettings ==
  Reads("MT4", "", {<<"getCfgRequestPlugin", "CfgRequestPlugin", 0, 0>>})
  \cup Changes("MT4", "", {<<"postCfgUpdatePlugin", "CfgUpdatePlugin", 0, 1>>})

\* mt4-v2-sidecar-batch-reads.ts
UserBatches ==
  HistoryReads("MT4", "", {<<"getUsersSnapshot", "UsersSnapshot", 0, 1>>,
      <<"getUsersSyncRead", "UsersSyncRead", 0, 1>>})
TradeBatches ==
  HistoryReads("MT4", "", {<<"getTradesSnapshot", "TradesSnapshot", 0, 1>>,
      <<"getTradesSyncRead", "TradesSyncRead", 0, 1>>})

\* mt4-v2-sidecar-externalcommand.ts
BinaryCommands ==
  Maintenance("MT4", "", {<<"postExternalCommandBinary", "ExternalCommandBinary", 0, 1>>})

\* The modules spread into client.mt4, in the order of the constructor.
MT4Modules == <<
    UserPasswords,
    BackupRestores,
    BackupInfos \cup BackupRequests,
    ServerInformation,
    CommonSettings \cup HolidaysAndManagers \cup TimeSettings \cup AccessAndBackup \cup
      BackupAndSyncUpdates \cup FeederAndGatewayAccount \cup GatewayMarkupAndRule \cup
      LiveUpdateAndManager \cup AccessAndDataServerAt \cup HolidayAndSymbolGroupAt \cup
      GatewayRequests \cup RuleAndDataServerRequests \cup FeederAndLiveUpdateRequests \cup
      SyncRequests \cup DeleteAccessToFeeder \cup DeleteGateway \cup DeleteHolidayToManager \cup
      DeleteSymbolAndSync \cup ShiftAccessToFeeder \cup ShiftGateway \cup
      ShiftGroupToLiveUpdate \cup ShiftManagerToSymbol \cup ShiftSync,
    GroupReads \cup GroupSecurityReads \cup GroupUpdates \cup GroupNames,
    TradeHistory,
    LastMail,
    MarginReads,
    NewsReads \cup NewsTopicsAndBodies,
    OnlineReads,
    ExternalCommands,
    ChartReadAndAdd \cup ChartUpdateAndDelete \cup HistoryAndTicks \cup LastTicks,
    PerformanceAndReports \cup DailyReports \cup DailySync,
    RestartAndChartsSync \cup LiveUpdateAndFeedsRestart,
    FeedersAndLicense \cup NotificationsAndFeederLog,
    SymbolInfos \cup SymbolReads \cup SymbolUpdates \cup SymbolSelection \cup SymbolQuotes,
    OpenTrades \cup TradesBySymbolMarketOrder \cup StopsAndRollback \cup TradeRequests \cup
      TradeEdits \cup TradeRecordReads \cup TradesDeleteAndSync,
    UserReads \cup UserListAndBalance \cup BalanceListAndFix \cup UserListAndNew \cup
      UserRecordEdits \cup SafeUsersAndSync \cup GroupOperations,
    NewsAndMailSend \cup MailsRequest,
    PluginReadsAndUpdate \cup PluginSettings,
    UserBatches \cup TradeBatches,
    BinaryCommands>>
===========================================================================
