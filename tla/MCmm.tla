-------------------------------- MODULE MCmm --------------------------------
(* Model-checking instance of mm: a small arena, a few request sizes.     *)
EXTENDS mm

\* 4000 bytes need a second 4096-byte chunk; 8192 bytes leave room for one
\* extension past mm_init's 80 bytes, so a later one fails.
MCHeapLo == 8
MCMaxHeap == 8192
MCRequests == {8, 24, 48, 4000}
MCMaxOps == 6
=============================================================================
