CONSTANTS
  Cap = 10
  list0 = list0
  list1 = list1
  hash0 = hash0
  bm0 = bm0
  other0 = other0
  Names <- MCNames
  Prefix <- MCPrefix
  Data = {1, 2000}
  Pos = {0, 1}
  Sizes = {2}
  MaxLen = 3
  MaxBits = 3
  MaxCmds = 5
  MallocMayFail = TRUE
  NoName = NoName
  NULL = NULL
SPECIFICATION Spec
INVARIANT TypeOK
PROPERTY NoLiveSlotOverwritten
\* The loop ends at quit, at the first undefined behaviour and after MaxCmds lines.
CHECK_DEADLOCK FALSE
