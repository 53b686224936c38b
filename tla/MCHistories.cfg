SPECIFICATION HistoriesSpec
CONSTANTS
  CompanyCapture <- MCCompanyCapture
  Filed <- MCFiled
  CompanyCutoff <- Cutoffs
  NewsSnapshot <- MCNewsSnapshot
  Reported <- MCReported
  NewsCutoff <- Cutoffs
  MacroCapture <- MCMacroCapture
  Observed <- MCAllObserved
  MacroCutoff <- Cutoffs
  Batch <- MCBatch
  Content <- MCContent
  Index <- MCIndex
  Asked <- MCAsked
  Forever = 4
  Capture <- MCCapture
  Surface <- MCSurface
  Date = {1, 2}
  None = None
  Importer = {i1, i2}
  Response <- MCResponse
  MaxClock = 4
INVARIANTS
  SymbolOneIssuer
  FundamentalRests
  CurrentIsLatest
  CurrentIsAsOfEnd
  CaptureReadWhole
  BarsAreCaptured
PROPERTIES
  HistoriesAsOfStable
  FirstReleaseStands
  StoresAreLogs
CHECK_DEADLOCK FALSE
