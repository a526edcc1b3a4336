\* Ctrl-C while a foreground pipeline runs.
CONSTANTS
  Script <- MCScriptPipe
  MaxKeys = 1
  PipeLen = 2
SPECIFICATION Spec
INVARIANT ShellSurvives
CHECK_DEADLOCK FALSE
