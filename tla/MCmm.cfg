CONSTANTS
  HeapLo <- MCHeapLo
  MaxHeap <- MCMaxHeap
  Requests <- MCRequests
  MaxOps <- MCMaxOps

SPECIFICATION Spec

INVARIANT TypeOK
INVARIANT HeapConsistent
INVARIANT FreeIndexExact
INVARIANT NoAdjacentFree
INVARIANT ClientBlocksIntact

PROPERTY GrowOnlyWhenNoFit
PROPERTY AllocatorRefined

\* A failed heap extension makes mm_malloc fault (see NoCrashOnExhaustion):
\* the process stops there.
CHECK_DEADLOCK FALSE
