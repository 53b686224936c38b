------------------------------ MODULE Histories ------------------------------
(***************************************************************************)
(* The histories that are kept beside the daily prices of DailyPrices: the  *)
(* stores of companies, news and macro series, and in the market store the  *)
(* catalog with the option captures that rest on it, and the FMP bars, with *)
(* tables of their own.  Each part has one writer at a time (StoreLocks)    *)
(* and shares nothing with the others, so their steps interleave only       *)
(* trivially: part names the one a behaviour is about.                      *)
(***************************************************************************)
EXTENDS Company, News, Macro, Options

CONSTANTS Date, None, Importer, Response, MaxClock

VARIABLES fmp, prepared, receipt, clock, part

Bars == INSTANCE FmpPrices

barVars == <<fmp, prepared, receipt, clock>>

historyVars == <<company, news, macro, optionVars, barVars, part>>

HistoriesInit ==
  /\ CompanyInit /\ NewsInit /\ MacroInit /\ OptionsInit /\ Bars!Init
  /\ part \in {"company", "news", "macro", "catalog", "bars"}

CompanyStep ==
  part = "company" /\ CompanyNext /\ UNCHANGED <<news, macro, optionVars, barVars, part>>
NewsStep ==
  part = "news" /\ NewsNext /\ UNCHANGED <<company, macro, optionVars, barVars, part>>
MacroStep ==
  part = "macro" /\ MacroNext /\ UNCHANGED <<company, news, optionVars, barVars, part>>
CatalogStep ==
  part = "catalog" /\ OptionsNext /\ UNCHANGED <<company, news, macro, barVars, part>>
BarsStep ==
  part = "bars" /\ Bars!Next /\ UNCHANGED <<company, news, macro, optionVars, part>>

HistoriesNext == CompanyStep \/ NewsStep \/ MacroStep \/ CatalogStep \/ BarsStep

HistoriesSpec == HistoriesInit /\ [][HistoriesNext]_historyVars

-----------------------------------------------------------------------------
\* The versions of each store as a log, and when its publications say that what
\* they say was available.
CompanyTimes(id) == {r.available : r \in CompanySays(Filed[id])}
NewsTimes(id) == {Reported[id].captured}
MacroTimes(id) == {r.available : r \in Observed[id].releases}
ClassTimes(b) == {k.available : k \in Content[b].classes}
MemberTimes(b) == {Content[b].available}

CompanyLog == INSTANCE VersionLog WITH
  Publication <- CompanyCapture, Times <- CompanyTimes,
  log <- company.chains, published <- company.published
NewsLog == INSTANCE VersionLog WITH
  Publication <- NewsSnapshot, Times <- NewsTimes, log <- news.items, published <- news.published
MacroLog == INSTANCE VersionLog WITH
  Publication <- MacroCapture, Times <- MacroTimes, log <- macro.chains, published <- macro.published
ClassLog == INSTANCE VersionLog WITH
  Publication <- Batch, Times <- ClassTimes,
  log <- catalog.classes, published <- DOMAIN catalog.published
MemberLog == INSTANCE VersionLog WITH
  Publication <- Batch, Times <- MemberTimes,
  log <- catalog.members, published <- DOMAIN catalog.published

\* The stores are logs: whatever captures correct, end or retract, and whatever
\* they leave out, no version that was published is changed or lost, none is
\* dated by anything but its own capture, and none is published twice.
StoresAreLogs ==
  CompanyLog!Spec /\ NewsLog!Spec /\ MacroLog!Spec /\ ClassLog!Spec /\ MemberLog!Spec

-----------------------------------------------------------------------------
\* A backtest that asks as of a cutoff gets the answer it got before, whatever
\* was published since that was not available by then: of issuers, filings and
\* fundamentals, of news, of macro series, of symbols, classifications and
\* universes, and of option captures.
HistoriesAsOfStable ==
  /\ CompanyAsOfStable /\ NewsAsOfStable /\ MacroAsOfStable
  /\ CatalogAsOfStable /\ OptionsAsOfStable

\* The FMP bars are, all of them, those of one captured response, whichever
\* importer published last; and each bar's history is numbered without a gap,
\* every version names a capture that says what it says, and none repeats the
\* one before.
BarsAreCaptured == Bars!BarsAreOneCapture /\ Bars!HistoryIsCaptured
=============================================================================
