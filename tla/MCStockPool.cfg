CONSTANTS
  NumWorkers = 2
  SbufSize = 2
  ClientNum = 2
  StockFile <- MCStockFile
  Script <- MCScriptMixed
  Sigint = TRUE
  FopenMayFail = TRUE
SPECIFICATION Spec
INVARIANT TypeOK
INVARIANT RWExclusion
INVARIANT ReadersHoldWrite
INVARIANT FileMatchesWhenQuiet
PROPERTY SbufIsQueue
PROPERTY EveryConnectionServed
\* Two connections, CLIENTNUM of them, so one batch is timed.
\* The server blocks in accept once every client is served, and stops
\* after exit(0) on SIGINT: both are real ends of a behaviour.
CHECK_DEADLOCK FALSE
