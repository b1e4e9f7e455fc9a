--------------------------- MODULE MT5Endpoints ---------------------------
(*************************************************************************)
(* The generated endpoint functions of the MT5 tag modules: src/src/     *)
(* generated/mt5-v2-*.ts.                                                *)
(*************************************************************************)
EXTENDS Endpoints

\* mt5-v2-common.ts
ServerTimes ==
  Reads("MT5", "MT5", {<<"getServerTime", "ServerTime", 0, 0>>})
  \cup Reads("MT5", "", {<<"getTimeGet", "TimeGet", 0, 0>>})

\* mt5-v2-groups.ts
Groups ==
  Reads("MT5", "", {<<"getGroupGetGroup", "GroupGet", 1, 0>>})
  \cup Patches("MT5", "MT5", {<<"patchGroupRecordGroup", "GroupRecord", 1, 1>>})

\* mt5-v2-history-data.ts
ChartsAndTicks ==
  HistoryReads("MT5", "MT5", {<<"getChartRequestSymbol", "ChartRequest", 1, 1>>})
  \cup HistoryReads("MT5", "", {<<"getTicksHistorySymbol", "TicksHistory", 1, 1>>})

\* mt5-v2-managers.ts
Managers ==
  Reads("MT5", "", {<<"getManagerCurrent", "ManagerCurrent", 0, 0>>})

\* mt5-v2-symbols.ts
Symbols ==
  Reads("MT5", "", {<<"getSymbolGetSymbol", "SymbolGet", 1, 0>>})
  \cup Patches("MT5", "", {<<"patchSymbolRecordSymbol", "SymbolRecord", 1, 1>>})

\* mt5-v2-trades.ts
PositionsOrdersDeals ==
  Reads("MT5", "", {<<"getPositionByGroupMask", "PositionByGroup", 1, 1>>,
      <<"getOrderByGroupMask", "OrderByGroup", 1, 1>>})
  \cup HistoryReads("MT5", "", {<<"getDealByGroupMask", "DealByGroup", 1, 1>>})

\* mt5-v2-users.ts
Users ==
  Reads("MT5", "", {<<"getUserGetLogin", "UserGet", 1, 0>>})
  \cup Patches("MT5", "MT5", {<<"patchUserRecordLogin", "UserRecord", 1, 1>>})

\* The modules spread into client.mt5, in the order of the constructor.
MT5Modules == <<
    ServerTimes,
    Groups,
    ChartsAndTicks,
    Managers,
    Symbols,
    PositionsOrdersDeals,
    Users>>
===========================================================================
