--------------------------------- MODULE mm ---------------------------------
(***************************************************************************)
(* The segregated-free-list allocator of src/pj4/20200152/mm.c.            *)
(*                                                                         *)
(* The heap is modelled at the granularity the code works at: a word      *)
(* memory `mem` from byte addresses (multiples of 4) to the 32-bit words  *)
(* written there.  Headers, footers and the intrusive free-list links are *)
(* ordinary words of `mem`, exactly as the macros of mm.c read and write  *)
(* them, so block boundaries, neighbours and free lists are all computed  *)
(* from memory contents, never from a side table.  Only addresses that    *)
(* were ever written are in DOMAIN mem; stale words stay where they were. *)
(*                                                                         *)
(* Each public call (mm_init, mm_malloc, mm_free, mm_realloc) runs to     *)
(* completion without yielding, so each is ONE action; the helpers it     *)
(* calls are operators from a heap record [mem, fl, brk] to a new one,    *)
(* composed in the order the C code calls them.                           *)
(*                                                                         *)
(* The caller is the trace driver: it only frees or reallocates pointers  *)
(* it holds, and writes a marker word at the first and at the last word   *)
(* of every region it owns, so that an allocator write into live payload  *)
(* is visible.                                                             *)
(***************************************************************************)
EXTENDS Integers, FiniteSets, Sequences, TLC, Bitwise

CONSTANTS
  HeapLo,    \* mem_heap_lo(): first address of the arena (8-aligned, > 0)
  MaxHeap,   \* memlib's MAX_HEAP: mem_sbrk fails past HeapLo + MaxHeap
  Requests,  \* request sizes (bytes) the driver passes to malloc/realloc
  MaxOps     \* bound on driver calls

ASSUME HeapLo \in Nat /\ HeapLo > 0 /\ HeapLo % 8 = 0
ASSUME MaxHeap \in Nat /\ MaxHeap >= 16 + 64   \* mm_init's two sbrk calls succeed
ASSUME Requests \subseteq Nat \ {0}
ASSUME MaxOps \in Nat

VARIABLES
  mem,       \* the words of the arena
  fl,        \* segregated_free_lists[0..19]
  brk,       \* memlib's mem_brk: first address past the arena
  live,      \* driver: payload pointer -> [n |-> bytes requested, tag |-> marker]
  status,    \* "init" before mm_init, "ready", "crashed" after a fault
  ops,       \* number of driver calls made
  last       \* the last driver call, a history variable for properties

vars == <<mem, fl, brk, live, status, ops, last>>

(***************************************************************************)
(* Constants and macros of mm.c.                                           *)
(***************************************************************************)
WORD_SIZE == 4
DWORD_SIZE == 8
INITIAL_CHUNK_SIZE == 4096
MIN_CHUNK_SIZE == 64
NUM_FREE_LISTS == 20
NULL == 0

MAX_VALUE(x, y) == IF x > y THEN x ELSE y
MIN_VALUE(x, y) == IF x < y THEN x ELSE y

PACK_SIZE_AND_ALLOC(size, alloc) == size | alloc

\* A word never written holds whatever the arena held; reads of it do not
\* occur in a well-formed heap (HeapConsistent checks the words it reads).
READ_WORD(m, p) == IF p \in DOMAIN m THEN m[p] ELSE 0
READ_SIZE(m, p) == READ_WORD(m, p) - (READ_WORD(m, p) % 8)    \* & ~0x7
READ_ALLOC(m, p) == READ_WORD(m, p) % 2                       \* & 0x1
READ_TAG(m, p) == (READ_WORD(m, p) \div 2) % 2                \* & 0x2

GET_HEADER(bp) == bp - WORD_SIZE
GET_FOOTER(m, bp) == bp + READ_SIZE(m, GET_HEADER(bp)) - DWORD_SIZE
GET_NEXT_BLOCK(m, bp) == bp + READ_SIZE(m, GET_HEADER(bp))
GET_PREV_BLOCK(m, bp) == bp - READ_SIZE(m, bp - DWORD_SIZE)

GET_NEXT_FREE_PTR(bp) == bp
GET_PREV_FREE_PTR(bp) == bp + WORD_SIZE

\* The requested size rounded up to a block size (mm_malloc, mm_realloc).
AdjustSize(size) ==
  IF size <= DWORD_SIZE THEN 2 * DWORD_SIZE
  ELSE DWORD_SIZE * ((size + DWORD_SIZE + (DWORD_SIZE - 1)) \div DWORD_SIZE)

(***************************************************************************)
(* Heap records and word writes.                                           *)
(***************************************************************************)
WRITE_WORD(h, p, v) == [h EXCEPT !.mem = (p :> v) @@ @]

\* Mutant of WriteHeaderFooter: footer written first, at the old size.
WriteFooterFirst(h, bp, size, alloc) ==
  LET h1 == WRITE_WORD(h, GET_FOOTER(h.mem, bp), PACK_SIZE_AND_ALLOC(size, alloc))
  IN  WRITE_WORD(h1, GET_HEADER(bp), PACK_SIZE_AND_ALLOC(size, alloc))

\* Header first, then the footer found through the header just written.
WriteHeaderFooter(h, bp, size, alloc) ==
  LET h1 == WRITE_WORD(h, GET_HEADER(bp), PACK_SIZE_AND_ALLOC(size, alloc))
  IN  WRITE_WORD(h1, GET_FOOTER(h1.mem, bp), PACK_SIZE_AND_ALLOC(size, alloc))

\* memlib's mem_sbrk: the old break, or NULL standing for (void *)-1.
SbrkFits(h, incr) == h.brk + incr <= HeapLo + MaxHeap

(***************************************************************************)
(* find_list_index: halve the size until it is 1 or index 19 is reached.  *)
(***************************************************************************)
RECURSIVE FindListIndexLoop(_, _)
FindListIndexLoop(size, index) ==
  IF size > 1 /\ index < NUM_FREE_LISTS - 1
  THEN FindListIndexLoop(size \div 2, index + 1)
  ELSE index

find_list_index(size) == FindListIndexLoop(size, 0)

\* Every list walk is bounded by the number of words of the arena, so a
\* corrupted (cyclic) list ends the walk instead of TLC's stack.
Fuel(h) == (h.brk - HeapLo) \div WORD_SIZE + 1

(***************************************************************************)
(* insert_free_block: walk bucket find_list_index(size) past every entry  *)
(* smaller than size, and splice ptr in between prev and next.            *)
(***************************************************************************)
RECURSIVE InsertPos(_, _, _, _, _)
InsertPos(m, size, prev, next, fuel) ==
  IF next # NULL /\ size > READ_SIZE(m, GET_HEADER(next)) /\ fuel > 0
  THEN InsertPos(m, size, next, READ_WORD(m, GET_NEXT_FREE_PTR(next)), fuel - 1)
  ELSE <<prev, next>>

\* The four branches of the splice at pos = <<prev, next>>: ptr's own two
\* links always, a neighbour's link where that neighbour exists, and the
\* bucket head when ptr becomes first.  The words written are distinct.
Splice(h, ptr, index, pos) ==
  LET prev == pos[1]
      next == pos[2]
      own  == (GET_NEXT_FREE_PTR(ptr) :> next) @@ (GET_PREV_FREE_PTR(ptr) :> prev)
      nbrs == [a \in {GET_NEXT_FREE_PTR(q) : q \in {prev} \ {NULL}}
                     \cup {GET_PREV_FREE_PTR(q) : q \in {next} \ {NULL}} |-> ptr]
  IN  [h EXCEPT !.mem = (own @@ nbrs) @@ @,
                !.fl[index] = IF prev = NULL THEN ptr ELSE @]

insert_free_block(h, ptr, size) ==
  LET index == find_list_index(size)
  IN  Splice(h, ptr, index, InsertPos(h.mem, size, NULL, h.fl[index], Fuel(h)))

(***************************************************************************)
(* delete_free_block: unlink ptr through its own links; the bucket is     *)
(* the one of the size in its header.                                     *)
(***************************************************************************)
\* Mutant of delete_free_block: the bucket head is not advanced.
DeleteKeepsHead(h, ptr) ==
  LET next == READ_WORD(h.mem, GET_NEXT_FREE_PTR(ptr))
      prev == READ_WORD(h.mem, GET_PREV_FREE_PTR(ptr))
      links == (IF prev # NULL THEN GET_NEXT_FREE_PTR(prev) :> next ELSE << >>)
               @@ (IF next # NULL THEN GET_PREV_FREE_PTR(next) :> prev ELSE << >>)
  IN  [h EXCEPT !.mem = links @@ @]

delete_free_block(h, ptr) ==
  LET index == find_list_index(READ_SIZE(h.mem, GET_HEADER(ptr)))
      next  == READ_WORD(h.mem, GET_NEXT_FREE_PTR(ptr))
      prev  == READ_WORD(h.mem, GET_PREV_FREE_PTR(ptr))
      links == (IF prev # NULL THEN GET_NEXT_FREE_PTR(prev) :> next ELSE << >>)
               @@ (IF next # NULL THEN GET_PREV_FREE_PTR(next) :> prev ELSE << >>)
  IN  [h EXCEPT !.mem = links @@ @,
                !.fl[index] = IF prev = NULL THEN next ELSE @]

(***************************************************************************)
(* coalesce and its two helpers.  The block ptr is free and already in    *)
(* its bucket.  A tagged previous block counts as allocated.  The NULL    *)
(* checks of the helpers cannot fire: ptr and its neighbours are arena    *)
(* addresses.  delete_free_block writes link words only, and those lie in *)
(* payloads, so the neighbours and sizes the code reads after its deletes *)
(* are read here before them.  Result: [h, ptr, size] of the merged block.*)
(***************************************************************************)
coalesce_with_next(h, ptr, size0) ==
  LET next_ptr == GET_NEXT_BLOCK(h.mem, ptr)
      size == size0 + READ_SIZE(h.mem, GET_HEADER(next_ptr))
  IN  [h |-> WriteHeaderFooter(delete_free_block(delete_free_block(h, ptr), next_ptr),
                               ptr, size, 0),
       ptr |-> ptr, size |-> size]

coalesce_with_prev(h, ptr, size0) ==
  LET prev_ptr == GET_PREV_BLOCK(h.mem, ptr)
      size == size0 + READ_SIZE(h.mem, GET_HEADER(prev_ptr))
  IN  [h |-> WriteHeaderFooter(delete_free_block(delete_free_block(h, ptr), prev_ptr),
                               prev_ptr, size, 0),
       ptr |-> prev_ptr, size |-> size]

coalesce_both(h, ptr, size0) ==
  LET prev_ptr == GET_PREV_BLOCK(h.mem, ptr)
      next_ptr == GET_NEXT_BLOCK(h.mem, ptr)
      size == size0 + READ_SIZE(h.mem, GET_HEADER(prev_ptr))
                    + READ_SIZE(h.mem, GET_HEADER(next_ptr))
      h3 == delete_free_block(delete_free_block(delete_free_block(h, ptr), prev_ptr),
                              next_ptr)
  IN  [h |-> WriteHeaderFooter(h3, prev_ptr, size, 0), ptr |-> prev_ptr, size |-> size]

\* The tail of coalesce: insert_free_block(new_ptr, size); return new_ptr.
Reinsert(merged) ==
  [h |-> insert_free_block(merged.h, merged.ptr, merged.size), ptr |-> merged.ptr]

\* Mutant of coalesce: the next block's status is never looked at.
CoalescePrevOnly(h, ptr) ==
  LET m == h.mem
      prev_alloc == READ_ALLOC(m, GET_HEADER(GET_PREV_BLOCK(m, ptr)))
  IN  IF prev_alloc = 1 THEN [h |-> h, ptr |-> ptr]
      ELSE Reinsert(coalesce_with_prev(h, ptr, READ_SIZE(m, GET_HEADER(ptr))))

coalesce(h, ptr) ==
  LET m == h.mem
      size == READ_SIZE(m, GET_HEADER(ptr))
      prev_hdr == GET_HEADER(GET_PREV_BLOCK(m, ptr))
      prev_alloc == IF READ_TAG(m, prev_hdr) = 1 THEN 1 ELSE READ_ALLOC(m, prev_hdr)
      next_alloc == READ_ALLOC(m, GET_HEADER(GET_NEXT_BLOCK(m, ptr)))
  IN  IF prev_alloc = 1 /\ next_alloc = 1
      THEN [h |-> h, ptr |-> ptr]
      ELSE Reinsert(CASE prev_alloc = 1 -> coalesce_with_next(h, ptr, size)
                      [] next_alloc = 1 -> coalesce_with_prev(h, ptr, size)
                      [] OTHER          -> coalesce_both(h, ptr, size))

(***************************************************************************)
(* place: take ptr off its list; split off the remainder as a new free    *)
(* block unless it is smaller than the 16-byte minimum block.  After the  *)
(* header write of asize, GET_NEXT_BLOCK(ptr) is ptr + asize.             *)
(***************************************************************************)
place(h, ptr, asize) ==
  LET size       == READ_SIZE(h.mem, GET_HEADER(ptr))
      free_size  == size - asize
      next_block == ptr + asize
  IN  IF free_size < 2 * DWORD_SIZE
      THEN WriteHeaderFooter(delete_free_block(h, ptr), ptr, size, 1)
      ELSE insert_free_block(
             WriteHeaderFooter(WriteHeaderFooter(delete_free_block(h, ptr), ptr, asize, 1),
                               next_block, free_size, 0),
             next_block, free_size)

(***************************************************************************)
(* find_fit: from bucket find_list_index(asize) upward, scan a whole      *)
(* bucket for the entry with the smallest size - asize >= 0 (first one on *)
(* ties); return it as soon as a bucket yields one.  NULL if none does.   *)
(* The initial smallest_diff (size_t)-1 is represented by best = NULL.    *)
(***************************************************************************)
RECURSIVE ScanBucket(_, _, _, _, _, _)
ScanBucket(m, p, asize, best, diff, fuel) ==
  IF p = NULL \/ fuel = 0 THEN best
  ELSE LET p_size == READ_SIZE(m, GET_HEADER(p))
           better == p_size >= asize /\ (best = NULL \/ p_size - asize < diff)
       IN  ScanBucket(m, READ_WORD(m, GET_NEXT_FREE_PTR(p)), asize,
                      IF better THEN p ELSE best,
                      IF better THEN p_size - asize ELSE diff, fuel - 1)

RECURSIVE FindFitFrom(_, _, _)
FindFitFrom(h, asize, i) ==
  IF i >= NUM_FREE_LISTS THEN NULL
  ELSE LET best == ScanBucket(h.mem, h.fl[i], asize, NULL, 0, Fuel(h))
       IN  IF best # NULL THEN best ELSE FindFitFrom(h, asize, i + 1)

\* Mutant of find_fit: the search starts one bucket too high.
FindFitSkipsOwnBucket(h, asize) == FindFitFrom(h, asize, find_list_index(asize) + 1)

find_fit(h, asize) == FindFitFrom(h, asize, find_list_index(asize))

(***************************************************************************)
(* extend_heap: sbrk(size); the new block's header overwrites the old     *)
(* epilogue, a new epilogue follows it at GET_HEADER(GET_NEXT_BLOCK(ptr)) *)
(* = ptr + size - 4; insert, then coalesce.  Result: the heap and the     *)
(* (possibly merged) block, or ptr = NULL on failure.                     *)
(***************************************************************************)
\* Mutant of extend_heap: the epilogue is written at the next block's
\* payload address instead of its header, one word past the arena.
ExtendEpiloguePastEnd(h, size) ==
  IF ~SbrkFits(h, size)
  THEN [h |-> h, ptr |-> NULL]
  ELSE coalesce(insert_free_block(
         WRITE_WORD(WriteHeaderFooter([h EXCEPT !.brk = @ + size], h.brk, size, 0),
                    h.brk + size, PACK_SIZE_AND_ALLOC(0, 1)),
         h.brk, size), h.brk)

extend_heap(h, size) ==
  IF ~SbrkFits(h, size)
  THEN [h |-> h, ptr |-> NULL]
  ELSE coalesce(insert_free_block(
         WRITE_WORD(WriteHeaderFooter([h EXCEPT !.brk = @ + size], h.brk, size, 0),
                    GET_HEADER(h.brk + size), PACK_SIZE_AND_ALLOC(0, 1)),
         h.brk, size), h.brk)

(***************************************************************************)
(* The public operations, as functions of the heap record.  mm_malloc and *)
(* mm_realloc return [h, ret, crash]; crash means the call faulted.       *)
(***************************************************************************)
\* initialize_free_list, initialize_prologue_block, extend_heap(64).  The
\* exits on a failed malloc/sbrk and the -1 return cannot happen: MaxHeap
\* leaves room for both sbrk calls.
mm_init(h) ==
  LET pro == h.brk
      h0 == [mem |-> (pro :> 0)
                     @@ (pro + 1 * WORD_SIZE :> PACK_SIZE_AND_ALLOC(DWORD_SIZE, 1))
                     @@ (pro + 2 * WORD_SIZE :> PACK_SIZE_AND_ALLOC(DWORD_SIZE, 1))
                     @@ (pro + 3 * WORD_SIZE :> PACK_SIZE_AND_ALLOC(0, 1)),
             fl |-> [i \in 0 .. NUM_FREE_LISTS - 1 |-> NULL],
             brk |-> h.brk + 4 * WORD_SIZE]
  IN  extend_heap(h0, MIN_CHUNK_SIZE).h

\* Mutant of mm_free: the NULL test inverted, so every free returns at once.
mm_freeReturnsEarly(h, ptr) == h

\* mark the block free, insert it, coalesce.
mm_free(h, ptr) ==
  IF ptr = NULL THEN h
  ELSE LET size == READ_SIZE(h.mem, GET_HEADER(ptr))
       IN  coalesce(insert_free_block(WriteHeaderFooter(h, ptr, size, 0), ptr, size), ptr).h

\* The tail of mm_malloc once find_fit has not found a block: the
\* extend_heap result ext.  A failed extend_heap returns NULL but the code
\* tests for (void *)-1, so it goes on to place(NULL, asize), whose
\* READ_SIZE(GET_HEADER(NULL)) faults.
PlaceExtended(ext, asize) ==
  IF ext.ptr = NULL
  THEN [h |-> ext.h, ret |-> NULL, crash |-> TRUE]
  ELSE [h |-> place(ext.h, ext.ptr, asize), ret |-> ext.ptr, crash |-> FALSE]

\* The rest of mm_malloc given find_fit's answer fit.
MallocFrom(h, asize, fit) ==
  IF fit # NULL
  THEN [h |-> place(h, fit, asize), ret |-> fit, crash |-> FALSE]
  ELSE PlaceExtended(extend_heap(h, MAX_VALUE(asize, INITIAL_CHUNK_SIZE)), asize)

mm_malloc(h, size) ==
  IF size = 0 THEN [h |-> h, ret |-> NULL, crash |-> FALSE]
  ELSE MallocFrom(h, AdjustSize(size), find_fit(h, AdjustSize(size)))

\* memcpy(dst, src, n) at word granularity: every written word of the
\* source range [src, src + n) is copied (a partial last word is copied
\* whole; its extra bytes lie inside the destination's payload).
MemCopy(h, dst, src, n) ==
  LET offs == {o \in 0 .. n - 1 : o % WORD_SIZE = 0 /\ src + o \in DOMAIN h.mem}
  IN  [h EXCEPT !.mem = [o \in {dst + x : x \in offs} |-> @[src + (o - dst)]] @@ @]

\* Mutant of ReallocMove: the old block is freed before it is copied.
ReallocFreeBeforeCopy(h, ptr, size, asize, new) ==
  IF new.crash THEN new
  ELSE [h |-> MemCopy(mm_free(new.h, ptr), new.ret, ptr, MIN_VALUE(size, asize)),
        ret |-> new.ret, crash |-> FALSE]

\* The end of mm_realloc: new = mm_malloc(asize); copy, then free ptr.
ReallocMove(h, ptr, size, asize, new) ==
  IF new.crash THEN new
  ELSE [h |-> mm_free(MemCopy(new.h, new.ret, ptr, MIN_VALUE(size, asize)), ptr),
        ret |-> new.ret, crash |-> FALSE]

\* mm_realloc past its size = 0 and ptr = NULL cases: keep the block, grow
\* it into a free (or size-0) next block, or move it.
ReallocBlock(h, ptr, size, asize) ==
  LET cur        == READ_SIZE(h.mem, GET_HEADER(ptr))
      next_block == GET_NEXT_BLOCK(h.mem, ptr)
      total      == cur + READ_SIZE(h.mem, GET_HEADER(next_block))
      absorb     == /\ \/ READ_ALLOC(h.mem, GET_HEADER(next_block)) = 0
                       \/ READ_SIZE(h.mem, GET_HEADER(next_block)) = 0
                    /\ total >= asize
  IN  CASE cur >= asize -> [h |-> h, ret |-> ptr, crash |-> FALSE]
        [] absorb       -> [h |-> WriteHeaderFooter(delete_free_block(h, next_block),
                                                    ptr, total, 1),
                            ret |-> ptr, crash |-> FALSE]
        [] OTHER        -> ReallocMove(h, ptr, size, asize, mm_malloc(h, asize))

mm_realloc(h, ptr, size) ==
  CASE size = 0   -> [h |-> mm_free(h, ptr), ret |-> NULL, crash |-> FALSE]
    [] ptr = NULL -> mm_malloc(h, size)
    [] OTHER      -> ReallocBlock(h, ptr, size, AdjustSize(size))

(***************************************************************************)
(* The driver.  After a call returns a region of n bytes it writes its    *)
(* marker at the first and at the last word of the region.                *)
(***************************************************************************)
LastWord(p, n) == p + WORD_SIZE * ((n - 1) \div WORD_SIZE)

Heap == [mem |-> mem, fl |-> fl, brk |-> brk]

\* Commit a heap record, the driver's new ledger and the call's record.
Commit(h, newLive, call) ==
  /\ mem' = h.mem
  /\ fl' = h.fl
  /\ brk' = h.brk
  /\ live' = newLive
  /\ ops' = ops + 1
  /\ last' = call

\* Driver writes for the region r of n bytes tagged t.
Fill(h, r, n, t, first) ==
  IF first THEN WRITE_WORD(WRITE_WORD(h, r, t), LastWord(r, n), t)
  ELSE WRITE_WORD(h, LastWord(r, n), t)

Init ==
  /\ mem = << >>
  /\ fl = [i \in 0 .. NUM_FREE_LISTS - 1 |-> NULL]
  /\ brk = HeapLo
  /\ live = << >>
  /\ status = "init"
  /\ ops = 0
  /\ last = [op |-> "none", n |-> 0, ptr |-> NULL, ret |-> NULL]

MmInit ==
  /\ status = "init"
  /\ Commit(mm_init(Heap), live, [op |-> "init", n |-> 0, ptr |-> NULL, ret |-> NULL])
  /\ status' = "ready"

Ready == status = "ready" /\ ops < MaxOps

\* The driver's bookkeeping after malloc(n) returned r.
Malloced(n, r) ==
  LET call == [op |-> "malloc", n |-> n, ptr |-> NULL, ret |-> r.ret]
  IN  IF r.crash
      THEN /\ Commit(r.h, live, call) /\ status' = "crashed"
      ELSE /\ Commit(Fill(r.h, r.ret, n, -r.ret, TRUE),
                     (r.ret :> [n |-> n, tag |-> -r.ret]) @@ live, call)
           /\ UNCHANGED status

Malloc(n) == Ready /\ Malloced(n, mm_malloc(Heap, n))

Free(p) ==
  /\ Ready
  /\ Commit(mm_free(Heap, p),
            [q \in DOMAIN live \ {p} |-> live[q]],
            [op |-> "free", n |-> 0, ptr |-> p, ret |-> NULL])
  /\ UNCHANGED status

\* mm_free(NULL) returns at once: a call that changes nothing.
FreeNull ==
  /\ status = "ready"
  /\ UNCHANGED vars

\* The driver's bookkeeping after realloc(p, n) returned r.  A region
\* held before (p # NULL) keeps its tag: its first word is the driver's
\* data, copied or left in place, and only its last word is refilled.
Realloced(p, n, r) ==
  LET call == [op |-> "realloc", n |-> n, ptr |-> p, ret |-> r.ret]
      rest == [q \in DOMAIN live \ {p} |-> live[q]]
      tag  == IF p # NULL THEN live[p].tag ELSE -r.ret
  IN  CASE r.crash      -> Commit(r.h, live, call) /\ status' = "crashed"
        [] r.ret = NULL -> Commit(r.h, rest, call) /\ UNCHANGED status
        [] OTHER        -> /\ Commit(Fill(r.h, r.ret, n, tag, p = NULL),
                                     (r.ret :> [n |-> n, tag |-> tag]) @@ rest, call)
                           /\ UNCHANGED status

Realloc(p, n) == Ready /\ Realloced(p, n, mm_realloc(Heap, p, n))

\* realloc(NULL, n) is malloc(n); realloc(NULL, 0) frees NULL.
ReallocNull(n) == Ready /\ Realloced(NULL, n, mm_realloc(Heap, NULL, n))

Next ==
  \/ MmInit
  \/ \E n \in Requests : Malloc(n)
  \/ \E p \in DOMAIN live : Free(p)
  \/ FreeNull
  \/ \E p \in DOMAIN live, n \in Requests \cup {0} : Realloc(p, n)
  \/ \E n \in Requests \cup {0} : ReallocNull(n)

Spec == Init /\ [][Next]_vars

(***************************************************************************)
(* Views of the heap used by the properties.                               *)
(***************************************************************************)
\* The prologue's payload pointer and the first regular block after it.
PrologueBlock == HeapLo + 2 * WORD_SIZE
FirstBlock == HeapLo + 4 * WORD_SIZE

\* The implicit list: follow sizes from FirstBlock up to the size-0 header.
RECURSIVE Walk(_, _, _, _)
Walk(m, bp, acc, fuel) ==
  IF READ_SIZE(m, GET_HEADER(bp)) = 0 \/ fuel = 0
  THEN [blocks |-> acc, end |-> bp]
  ELSE Walk(m, GET_NEXT_BLOCK(m, bp), Append(acc, bp), fuel - 1)

HeapWalk == Walk(mem, FirstBlock, << >>, Fuel(Heap))
Blocks == {HeapWalk.blocks[k] : k \in DOMAIN HeapWalk.blocks}
BlockSize(b) == READ_SIZE(mem, GET_HEADER(b))
IsFree(b) == READ_ALLOC(mem, GET_HEADER(b)) = 0
FreeBlocks == {b \in Blocks : IsFree(b)}

\* The payload addresses of the implicit list of memory m below top (a
\* recursive function, so that each step's address is a value).
ImplicitList(m, top) ==
  LET from[bp \in Nat] ==
        IF bp >= top \/ READ_SIZE(m, GET_HEADER(bp)) = 0 THEN {}
        ELSE {bp} \cup from[GET_NEXT_BLOCK(m, bp)]
  IN  from[FirstBlock]

\* The regions the allocator has handed out in memory m with break top:
\* each allocated block by payload address, with its payload (the block
\* less its header and footer).
AllocatedRegions(m, top) ==
  [b \in {x \in ImplicitList(m, top) : READ_ALLOC(m, GET_HEADER(x)) = 1}
     |-> READ_SIZE(m, GET_HEADER(b)) - DWORD_SIZE]

AbstractAllocator == INSTANCE Allocator
  WITH Lo <- HeapLo, regions <- AllocatedRegions(mem, brk), top <- brk,
       call <- last, up <- status # "crashed"

\* The explicit list of bucket i, following next links from its head.
RECURSIVE ListWalk(_, _, _, _)
ListWalk(m, p, acc, fuel) ==
  IF p = NULL \/ fuel = 0 THEN acc
  ELSE ListWalk(m, READ_WORD(m, GET_NEXT_FREE_PTR(p)), Append(acc, p), fuel - 1)

Buckets == 0 .. NUM_FREE_LISTS - 1
BucketLists == [i \in Buckets |-> ListWalk(mem, fl[i], << >>, Fuel(Heap))]

(***************************************************************************)
(* Invariants.                                                             *)
(***************************************************************************)
TypeOK ==
  /\ brk \in Nat /\ brk % DWORD_SIZE = 0 /\ HeapLo <= brk /\ brk <= HeapLo + MaxHeap
  /\ DOMAIN mem \subseteq {a \in HeapLo .. brk - 1 : a % WORD_SIZE = 0}
  /\ fl \in [Buckets -> {NULL} \cup (HeapLo .. brk - 1)]
  /\ status \in {"init", "ready", "crashed"}
  /\ \A p \in DOMAIN live : live[p] \in [n : Requests, tag : Int]
  /\ ops \in 0 .. MaxOps

\* The arena stays a gapless sequence of blocks from the prologue to an
\* epilogue in the arena's last word, every block's header equal to its
\* footer (the layout macros, extend_heap, place, coalesce, mm_realloc).
HeapConsistent ==
  status # "init" =>
    /\ READ_WORD(mem, GET_HEADER(PrologueBlock)) = PACK_SIZE_AND_ALLOC(DWORD_SIZE, 1)
    /\ READ_WORD(mem, PrologueBlock) = PACK_SIZE_AND_ALLOC(DWORD_SIZE, 1)
    /\ HeapWalk.end = brk
    /\ READ_WORD(mem, GET_HEADER(brk)) = PACK_SIZE_AND_ALLOC(0, 1)
    /\ \A b \in Blocks :
         /\ BlockSize(b) >= 2 * DWORD_SIZE
         /\ BlockSize(b) % DWORD_SIZE = 0
         /\ GET_FOOTER(mem, b) \in DOMAIN mem
         /\ mem[GET_FOOTER(mem, b)] = mem[GET_HEADER(b)]

\* The segregated lists hold exactly the free blocks of the arena, each
\* once, in the bucket find_list_index gives its size, sorted by size, with
\* prev links mirroring next links (insert_free_block, delete_free_block,
\* and every caller that rewrites a listed block's header).
FreeIndexExact ==
  status # "init" =>
    LET L == BucketLists
        entries == UNION {{<<i, k>> : k \in DOMAIN L[i]} : i \in Buckets}
    IN  /\ \A e \in entries :
             LET i == e[1]
                 k == e[2]
             IN
             /\ L[i][k] \in FreeBlocks
             /\ find_list_index(BlockSize(L[i][k])) = i
             /\ READ_WORD(mem, GET_PREV_FREE_PTR(L[i][k])) = IF k = 1 THEN NULL ELSE L[i][k - 1]
             /\ k > 1 => BlockSize(L[i][k - 1]) <= BlockSize(L[i][k])
        /\ Cardinality(entries) = Cardinality(FreeBlocks)
        /\ \A b \in FreeBlocks : \E e \in entries : L[e[1]][e[2]] = b

\* Coalescing is immediate: after every call no two neighbouring blocks of
\* the arena are both free (coalesce after mm_free and extend_heap; place's
\* remainder and mm_realloc's absorption must not create such a pair).
NoAdjacentFree ==
  status # "init" =>
    LET W == HeapWalk.blocks
    IN  \A k \in 1 .. Len(W) - 1 : ~(IsFree(W[k]) /\ IsFree(W[k + 1]))

\* Every region the driver holds is an allocated block of the arena, at
\* least as large as requested, and the allocator never wrote into it: the
\* driver's first and last words are intact, across splits, merges, moves
\* by mm_realloc (memcpy then mm_free) and in-place growth.
ClientBlocksIntact ==
  \A p \in DOMAIN live :
    /\ p \in Blocks
    /\ ~IsFree(p)
    /\ BlockSize(p) - DWORD_SIZE >= live[p].n
    /\ READ_WORD(mem, p) = live[p].tag
    /\ READ_WORD(mem, LastWord(p, live[p].n)) = live[p].tag

(***************************************************************************)
(* Action properties.                                                      *)
(***************************************************************************)
\* The block size find_fit was asked for by the call c: mm_realloc's
\* fallback passes its already adjusted size to mm_malloc.
FitSize(c) ==
  IF c.op = "malloc" \/ c.ptr = NULL THEN AdjustSize(c.n)
  ELSE AdjustSize(AdjustSize(c.n))

\* The arena only grows when no free block could hold the request:
\* find_fit's bucket search (starting at find_list_index(asize), stopping
\* at the first bucket with a candidate) never misses a fitting free block.
GrowOnlyWhenNoFit ==
  [][ (status = "ready" /\ brk' > brk) =>
        \A b \in FreeBlocks : BlockSize(b) < FitSize(last') ]_vars

(***************************************************************************)
(* Refinement.                                                             *)
(***************************************************************************)
\* mm implements the caller's contract of Allocator: each call changes the
\* set of allocated blocks exactly as the call promises (malloc adds one
\* fresh block of at least n payload bytes apart from the others, free
\* removes exactly p, realloc replaces p, NULL leaves them all), and the
\* arena never shrinks.  It fails on a free that leaves the block allocated
\* (a leak no client still sees) or a split/merge that changes an
\* allocated neighbour.
AllocatorRefined == AbstractAllocator!Spec

(***************************************************************************)
(* The allocator's failure contract (spec section 7): an exhausted arena  *)
(* is reported as a NULL result, it never faults.                         *)
(***************************************************************************)
NoCrashOnExhaustion == status # "crashed"

=============================================================================
