CONSTANTS
  HeapLo <- MCHeapLo
  MaxHeap <- MCMaxHeap
  Requests <- MCRequests
  MaxOps <- MCMaxOps

SPECIFICATION Spec

INVARIANT NoCrashOnExhaustion

CHECK_DEADLOCK FALSE
