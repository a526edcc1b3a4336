\* SIGINT while a buy or sell is between its change and its save.
CONSTANTS
  NumWorkers = 2
  SbufSize = 1
  ClientNum = 2
  StockFile <- MCStockFile
  Script <- MCScript
  Sigint = TRUE
  FopenMayFail = FALSE
SPECIFICATION Spec
INVARIANT SavedOnExit
CHECK_DEADLOCK FALSE
