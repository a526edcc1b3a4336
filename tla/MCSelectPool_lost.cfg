\* A client whose two lines reach the server in one read(2).
CONSTANTS
  FdSetSize = 5
  StockFile <- MCStockFile
  Script <- MCScriptPipelined
  FopenMayFail = FALSE
SPECIFICATION Spec
INVARIANT NoLineLost
\* Once every client is closed the server blocks in Select.
CHECK_DEADLOCK FALSE
