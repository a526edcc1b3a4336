\* No key is pressed: nothing but SIGCHLD can wake waitfg.
CONSTANTS
  Script <- MCScript
  MaxKeys = 0
  PipeLen = 2
SPECIFICATION Spec
PROPERTY ForegroundWaitEnds
CHECK_DEADLOCK FALSE
