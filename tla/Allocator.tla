------------------------------ MODULE Allocator ------------------------------
(***************************************************************************)
(* What the allocator promises its caller (spec.md 4.5, 6 and 7), with no *)
(* blocks, buckets or words: the regions it has handed out, each a       *)
(* payload address with a capacity in bytes, inside an arena that only    *)
(* grows at its end.  Every step is one public call, recorded in call:     *)
(*   allocate(n): 0 gives "no region"; otherwise "no region" (exhaustion) *)
(*     or a fresh region of at least n bytes apart from every held one;   *)
(*   release(p): the region p is no longer held;                          *)
(*   resize(p, n): n = 0 releases p; "no region" leaves p held; otherwise *)
(*     p is replaced by a region (possibly at p) of at least n bytes.     *)
(* A call that faults ends the process with the regions as they were;     *)
(* the contract says exhaustion never does this, which mm's run           *)
(* mm_exhaustion checks on its own.                                       *)
(***************************************************************************)
EXTENDS Integers

CONSTANTS Lo, NULL

VARIABLES
  regions,   \* payload address -> capacity in bytes, of the regions held
  top,       \* end of the arena
  call,      \* the last call: [op, n, ptr, ret]
  up         \* FALSE once a call faulted

vars == <<regions, top, call, up>>

Apart(p, c, q, d) == p + c <= q \/ q + d <= p

\* p with capacity c is a new region inside [Lo, t) overlapping none of R.
Fresh(R, p, c, t) ==
  /\ p # NULL /\ p \notin DOMAIN R
  /\ Lo <= p /\ p + c <= t
  /\ \A q \in DOMAIN R : Apart(p, c, q, R[q])

Without(R, p) == [q \in DOMAIN R \ {p} |-> R[q]]

\* R2 is R plus a fresh region at p of at least n bytes.
Adds(R, R2, t2, p, n) ==
  /\ DOMAIN R2 = DOMAIN R \cup {p}
  /\ \A q \in DOMAIN R : R2[q] = R[q]
  /\ R2[p] >= n
  /\ Fresh(R, p, R2[p], t2)

Start(R, R2, c) == c.op = "init" /\ R2 = R

Allocate(R, R2, t2, c) ==
  /\ c.op = "malloc"
  /\ c.n = 0 => c.ret = NULL
  /\ IF c.ret = NULL THEN R2 = R ELSE Adds(R, R2, t2, c.ret, c.n)

Release(R, R2, c) ==
  /\ c.op = "free" /\ c.ptr \in DOMAIN R
  /\ R2 = Without(R, c.ptr)

Resize(R, R2, t2, c) ==
  /\ c.op = "realloc" /\ (c.ptr = NULL \/ c.ptr \in DOMAIN R)
  /\ CASE c.n = 0      -> c.ret = NULL /\ R2 = Without(R, c.ptr)
       [] c.ret = NULL -> R2 = R
       [] OTHER        -> Adds(Without(R, c.ptr), R2, t2, c.ret, c.n)

Fault(c) == c.op \in {"malloc", "realloc"}

Init ==
  /\ regions = [p \in {} |-> 0]
  /\ top = Lo
  /\ call.op = "none"
  /\ up = TRUE

Next ==
  /\ up /\ top' >= top
  /\ \/ Start(regions, regions', call') /\ up' = up
     \/ Allocate(regions, regions', top', call') /\ up' = up
     \/ Release(regions, regions', call') /\ up' = up
     \/ Resize(regions, regions', top', call') /\ up' = up
     \/ Fault(call') /\ regions' = regions /\ top' = top /\ up' = FALSE

Spec == Init /\ [][Next]_vars

=============================================================================
