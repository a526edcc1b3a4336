CONSTANTS
  Script <- MCScriptJobs
  MaxKeys = 1
  PipeLen = 2
SPECIFICATION Spec
INVARIANT TypeOK
INVARIANT AtMostOneForeground
PROPERTY EveryChildReaped
PROPERTY PipelineEnds
\* After the last command line the shell blocks in fgets.
CHECK_DEADLOCK FALSE
