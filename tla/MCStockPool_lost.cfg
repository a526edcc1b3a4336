\* Workers created before sbuf_init may wait on a semaphore that is then re-initialised.
CONSTANTS
  NumWorkers = 2
  SbufSize = 1
  ClientNum = 2
  StockFile <- MCStockFile
  Script <- MCScript
  Sigint = FALSE
  FopenMayFail = FALSE
SPECIFICATION Spec
PROPERTY EveryConnectionServedStrict
CHECK_DEADLOCK FALSE
