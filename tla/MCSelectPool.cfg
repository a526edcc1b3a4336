\* Three clients over a scaled FD_SETSIZE of 7, failing fopen possible.
CONSTANTS
  FdSetSize = 7
  StockFile <- MCStockFile
  Script <- MCScript
  FopenMayFail = TRUE
SPECIFICATION Spec
INVARIANT TypeOK
INVARIANT PoolConsistent
PROPERTY EveryClientServed
\* Once every client is closed the server blocks in Select.
CHECK_DEADLOCK FALSE
