\* SIGINT delivered to a thread that holds file_mutex inside update_stock_data.
CONSTANTS
  NumWorkers = 2
  SbufSize = 1
  ClientNum = 2
  StockFile <- MCStockFile
  Script <- MCScript
  Sigint = TRUE
  FopenMayFail = FALSE
SPECIFICATION Spec
PROPERTY SigintExits
CHECK_DEADLOCK FALSE
