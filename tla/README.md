# TLA+ models of kyubiin/SystemProgramming

This directory holds TLA+ models of the repository's C programs, the TLC configurations
that check them, and `PROJECT.json`, which maps every model definition to the source
lines it translates. It also lists the runs, the mutants, the findings and the hazards.

## 1. Inventory

### Components

| Component | Source | State it keeps | Operations |
|---|---|---|---|
| Allocator: block layout | `src/pj4/20200152/mm.c` 33-75 | header/footer words `size \| alloc` at both ends of every block | `READ_*`, `WRITE_WORD`, `GET_HEADER/FOOTER`, `GET_NEXT/PREV_BLOCK` |
| Allocator: free-list index | mm.c 104-225 | `segregated_free_lists[20]`; next/prev links in the first two payload words of each free block | `find_list_index`, `insert_free_block` (kept sorted by size), `delete_free_block` |
| Allocator: coalescing | mm.c 227-311 | (none of its own) | `coalesce` with 4 cases, `coalesce_with_next`, `coalesce_with_prev` |
| Allocator: placement | mm.c 313-365 | (none) | `find_fit` (best fit in the first bucket that has a candidate), `place` (splits when the remainder is at least 16 bytes) |
| Allocator: public operations | mm.c 119-142, 367-487 | the arena `[mem_heap_lo, mem_brk)`, prologue, epilogue | `mm_init`, `mm_malloc`, `mm_free`, `mm_realloc`, `extend_heap` |
| Arena extension (`mem_sbrk`, memlib) | not in the repository | the break `mem_brk` and the limit `MAX_HEAP` | `mem_sbrk(incr)` |
| Thread-pool stock server | `src/pj3/.../task_2/stockserver.c` | `sbuf` (a bounded queue with mutex/slots/items semaphores), a BST of stocks each with `read_count`/`mutex`/`write`, `file_mutex`, `time_mutex`, `client_count`, `timing_flag`, `byte_count` | main thread accepts and `sbuf_insert`s; NTHREADS workers `sbuf_remove`, then `show`/`buy`/`sell`/`exit`, then `update_stock_data`; a SIGINT handler saves and exits |
| Select-based stock server | `src/pj3/.../task_1/stockserver.c` | `ClientPool` (`clientfd[]`, `clientrio[]`, `read_set`, `maxfd`, `maxi`, `nready`), the stock BST | `add_client`, `check_client`, `close_client_connection`, show/buy/sell |
| Shell, phase 3 | `src/pj2/20200152/phase3/myshell.c` | linked job list (`pid`, `job_idx`, FG/BG, running/stopped), `next_job_index` | `eval` (fork, then `addjob`, then `waitfg`), builtins `jobs/bg/fg/kill`, SIGCHLD/SIGINT/SIGTSTP handlers |
| Shell, phases 1-2 | `src/pj2/.../phase1,2/myshell.c` | none across commands | builtins, fork/exec/wait, pipelines |
| Container front end | `src/pj1/20200152/main.c` | named lists, hash tables and bitmaps (the library code is not in the repository) | command dispatch |
| Process/signal exercises | `src/ecf_signals/*.c` | none | fork/wait/print demos |

The spec (`spec.md`) names the allocator as the core. The other programs are
independent lab exercises that share no code or data with it.

### How the allocator's parts interact

Everything is a direct call on a single thread. `mm_malloc` calls `find_fit`. On a miss it
calls `extend_heap`, which calls `mem_sbrk`, `insert_free_block` and `coalesce`. It then
calls `place`, which calls `delete_free_block` and, after a split, `insert_free_block`.
`mm_free` calls `insert_free_block` and then `coalesce`, which unlinks and relinks blocks.
`mm_realloc` either absorbs the next free block in place (via `delete_free_block`) or
moves the data: it calls `mm_malloc`, `memcpy` and `mm_free`.

All of these parts share one piece of state: the arena memory itself. Block sizes and
link pointers are words inside the arena, so a wrong write at any step corrupts every
later traversal.

### What is hard

- **Allocator.** There is no concurrency. The difficulty is long call sequences, where
  each step rewrites words that later steps read as metadata. Examples are the write
  order of header and footer, which bucket a block is unlinked from, whether the search
  can miss a fitting block, boundary remainders, and heap growth merging with a free
  tail. Failure handling is hard too: `mem_sbrk` can fail.
- **Thread-pool server.** It has real concurrency: 100 workers plus the main thread.
  Threads are created before the semaphores they use are initialised. There is a
  reader/writer protocol on each node. Counters are shared without a lock. A file
  snapshot is written while other threads write the tree. A signal handler takes a
  mutex that the interrupted thread may already hold.
- **Shell phase 3.** Asynchronous signal handlers run in the middle of main-loop list
  operations. The fork/`addjob` race can leave a dead job in the list, and then `waitfg`
  waits forever.
- **Select server.** It is a single-threaded event loop. Its pool bookkeeping and the
  `rio_t` buffer, which is copied by value, can lose buffered input.

### What makes each component correct

- Allocator: the arena is a gapless chain of blocks from the prologue to an epilogue in
  the last word, and every header equals its footer. The free lists hold exactly the free
  blocks, each in its own bucket, sorted by size and correctly doubly linked. No two
  neighbouring blocks are both free. Returned regions are large enough and never written
  by the allocator while live. The arena grows only when nothing fits. Running out of
  memory returns NULL and does not crash.
- Thread-pool server: the queue keeps FIFO order without loss or duplication. Readers
  and writers of a stock exclude each other. `left_stock` never goes negative for valid
  input. The file equals the tree once the workers are idle. The timing counter reaches
  zero exactly once per batch. No thread deadlocks.
- Shell: every reaped child's job is removed. `waitfg` returns once the foreground job
  ends. Job ids are unique.

## 2. Plan

1. **`mm` (done in this sitting).** The whole allocator as a word memory, with the
   trace driver as its environment. Module `MCmm` and runs `mm_core` and `mm_exhaustion`.
2. **`StockPool` (done in the second sitting; section 4).** The task_2 thread pool: `sbuf` with its three semaphores, per-stock
   reader/writer semaphores, `file_mutex`, `time_mutex` and the timing counters. The
   main thread, 2-3 workers and 2 stocks are processes with program counters, at the
   granularity of each P/V and each shared read or write. Liveness will be checked under
   weak fairness of each thread's steps, since POSIX semaphores wake a waiter. Also an
   abstract `BoundedQueue` spec, with `sbuf` shown to refine it via INSTANCE ... WITH.
3. **`JobControl` (done in the third sitting; section 5).** Shell phase 3: main loop (`eval`, `addjob`, `waitfg`) against
   SIGCHLD/SIGTSTP handler invocations at every point where signals are not blocked,
   and child processes that exit or stop. Properties: job-list integrity, and that
   `waitfg` terminates (expected to be violated by the fork/addjob race).
4. **`SelectPool` (done in the third sitting; section 6).** The task_1 client pool and the copied `rio_t`.
5. **`Allocator` (abstract) and its refinement by `mm` (done in the fourth sitting;
   section 3).** A set of disjoint regions in a growing arena. `mm` refines it through
   the mapping from allocated blocks to regions. The `size + 15` overflow stays a hazard:
   its requests lie beyond TLC's integers.
5a. **`execute_commands` in `JobControl` (done in the fourth sitting; section 5).** The
   pipeline child's pipe/fork/close loop, its stages and its `wait(NULL)` loop.
6. **`Containers` (done in the fifth sitting; section 6a).** The pj1 command front end,
   every command of its loop, with the library calls by the Pintos library's semantics.
   The `ecf_signals` programs stay unmodelled (section 8).

## 3. The allocator model: `mm.tla`

**State.**

| Variable | Meaning |
|---|---|
| `mem` | A partial function from word addresses to 32-bit words. Only words the code has written are present; stale words remain. |
| `fl` | `segregated_free_lists` |
| `brk` | memlib's break |
| `live` | The driver's ledger: region → bytes requested, and the marker written there |
| `status` | `"init"`, `"ready"` or `"crashed"` |
| `ops` | Number of calls made so far |
| `last` | The last call, a history variable |

**Operators translate mm.c function by function.**
- The macros keep their names (`READ_SIZE`, `GET_FOOTER`, ...). `READ_SIZE` is `w - w % 8`.
  `PACK_SIZE_AND_ALLOC` uses the community module `Bitwise`'s `|`.
- Every helper is a function of a heap record `[mem, fl, brk]`. Helpers are composed in
  the order the C code calls them:
  - `WriteHeaderFooter` writes the header first, then locates the footer through the new
    header, as in the code.
  - `insert_free_block` and `delete_free_block` read and write link words in `mem`.
  - `coalesce` reads the neighbours' allocation bits and the previous block's tag bit.
- Loops become RECURSIVE operators: `FindListIndexLoop`, `InsertPos`, `ScanBucket` and
  `FindFitFrom`. List walks are bounded by the number of words in the arena, so a
  corrupted (cyclic) list ends the walk instead of overflowing the stack.
- Where C code continues after a call with that call's result, the model passes the
  result as an argument to a named helper for the rest of the function:
  - `Splice` does the four link cases of `insert_free_block`.
  - `Reinsert` is the tail of `coalesce`.
  - `MallocFrom` and `PlaceExtended` are the tail of `mm_malloc` after `find_fit` and
    after `extend_heap`.
  - `ReallocBlock` and `ReallocMove` are the two halves of `mm_realloc`.
  - `Malloced` and `Realloced` are the driver's bookkeeping of a returned pointer.

  Each result is then evaluated once, which keeps TLC's per-expression coverage
  accounting small.
- `delete_free_block` writes only link words, and those lie in free payloads. So the
  coalescing helpers read neighbour sizes before their deletes; the code reads them after.
  The two orders give the same values.
- `mm_malloc` keeps the code's failure path: a failed `extend_heap` returns NULL, the
  `(void *)-1` test does not catch it, and `place(NULL, …)` faults. The model records
  this as `status = "crashed"`, a terminal state.

**Actions.** Each public call runs to completion without yielding, so each call is one
action: `MmInit`, `Malloc(n)`, `Free(p)`, `FreeNull`, `Realloc(p, n)` and
`ReallocNull(n)`.

The environment is the trace driver. It frees and reallocates only regions it holds.
After each call it writes a marker word (minus the region's original address) at the
first and the last word of the region. After `mm_realloc` it writes only the new last
word. The first word must therefore have survived the copy or the in-place growth.

**Properties** (run `mm_core`):

| Property | What it checks | Kind |
|---|---|---|
| `TypeOK` | Types, and no word written outside `[HeapLo, brk)` | invariant |
| `HeapConsistent` | Prologue intact; following block sizes from the first block lands exactly on the epilogue at `brk - 4`; every block's footer equals its header; sizes are at least 16 and multiples of 8 | invariant |
| `FreeIndexExact` | The free-list entries are exactly the free blocks, each listed once, in bucket `find_list_index(size)`, ascending by size, with prev links mirroring next links | invariant |
| `NoAdjacentFree` | Coalescing is immediate: no two neighbouring blocks are both free | invariant |
| `ClientBlocksIntact` | Every held region is an allocated block with at least `n` payload bytes, and both marker words are intact | invariant |
| `GrowOnlyWhenNoFit` | Whenever a call grows the arena, no free block in the pre-state was large enough for the size `find_fit` was asked for | action property |

Each property has a mutant in `mm.tla` that breaks it, named in `PROJECT.json`:

| Mutant | Breaks |
|---|---|
| Epilogue written one word past the arena | `TypeOK` |
| Footer written before the header | `HeapConsistent` |
| Bucket head not advanced on unlink | `FreeIndexExact` |
| `coalesce` ignoring the next block | `NoAdjacentFree` |
| `mm_realloc` freeing before copying | `ClientBlocksIntact` |
| `find_fit` starting one bucket too high | `GrowOnlyWhenNoFit` |

**Bounds** (`MCmm.tla`).

| Constant | Value | Why |
|---|---|---|
| `HeapLo` | 8 | Start of the arena |
| `MaxHeap` | 8192 | Fits `mm_init`'s 80 bytes plus one 4096-byte chunk, so a second extension fails |
| Requests | 8, 24, 48, 4000 (and 0 for realloc) | See below |
| Calls | 6 | 51,407 distinct states, about 90 s |

The request sizes cover these cases:
- 8 takes the minimum-block rounding.
- 24 splits the initial 64-byte block into two 32-byte halves.
- 48 leaves a remainder of 8 in a 64-byte block, so that block is not split.
- 4000 forces `extend_heap`, which merges with a free tail. A second 4000 exhausts the arena.

With six calls the model reaches all four coalesce cases, splits and non-splits, both
`mm_realloc` paths (in-place absorption and move), and growth merging with a free tail.
Each was confirmed reachable with witness properties while building the model.

Deadlock is not checked in `MCmm.cfg`. The crash state is terminal because the process
really does stop there. When the call bound is reached, the driver can still call
`mm_free(NULL)`, which changes nothing.

**Fairness and liveness.** None. Every call finishes in a bounded number of loop
iterations, and there is nothing to wait for.

**Run `mm_exhaustion`** (`MCmm_oom.cfg`, expected violation) checks
`NoCrashOnExhaustion`, the spec's statement that arena exhaustion surfaces as NULL.
TLC finds the fault: `mm_init`, `malloc(4000)`, `malloc(4000)`. The second call's
`extend_heap` fails, and `mm_malloc` goes on to `place(NULL, 4008)`. This is a code bug
at mm.c:420 (see `findings`).

**Not modelled in `mm`.**
- The payload bytes the driver does not mark.
- The 64-bit build. The model assumes 4-byte pointers, which the 16-byte minimum block
  requires.
- Requests near `SIZE_MAX`. `size + 15` wraps for a request within 15 of 2^32, but such
  sizes are beyond TLC's integers (2^31 - 1). The driver's requests are small, and
  `AdjustSize` is unbounded.
- Misuse: double free and foreign pointers.
- `mem_sbrk` itself is modelled from the spec, since memlib is not in the repository.

### The caller's contract: `Allocator.tla` and the refinement

`Allocator` states what the spec (sections 4.5, 6 and 7) promises a caller, with no
blocks or lists. `regions` maps each payload address handed out to its capacity; `top` is
the end of the arena, which never shrinks; `call` records the last call. Each step is one
call:
- `Allocate`: `malloc(0)` gives NULL. Otherwise the result is NULL (exhaustion) or a new
  region of at least `n` bytes, inside the arena and apart from every held region.
- `Release`: exactly the region `p` is no longer held.
- `Resize`: `realloc(p, 0)` releases `p`. Otherwise `p` is replaced by one region (possibly
  at `p`) of at least `n` bytes, or NULL leaves `p` held.
- `Fault`: a call ends the process with the regions as they were. The contract excludes
  it; `mm_exhaustion` checks that separately.

`mm` maps onto it as follows:
- `regions` is `AllocatedRegions(mem, brk)`: every block on the implicit list
  (`ImplicitList`) whose header has its alloc bit set, with the block size less header
  and footer.
- `top` is `brk`, `call` is `last`, and `up` is `status # "crashed"`.
- `AllocatorRefined` (the abstract `Spec` as a property of `mm_core`) checks that every
  step of `mm`, with its splits, merges, moves and growth, changes the set of allocated
  blocks only as the call allows.
- It catches what the driver cannot see: a block left allocated after its `free` (a leak),
  a block a split or merge changed under another caller, or a region handed out that
  overlaps another. Its mutant makes `mm_free` return at once. `ClientBlocksIntact`
  misses this, because the driver has already dropped the pointer.

`ImplicitList` is a recursive function rather than a recursive operator. Under the prime
of the refinement mapping, TLC re-evaluates an operator's lazy arguments at each level
of the recursion; a function's argument is a value.

## 4. The thread-pool server model: `StockPool.tla`, `BoundedQueue.tla`

**Threads and steps.** The main thread is thread 0 and the workers are `1..NumWorkers`.
Each thread has a program counter `pc`. A step runs from one semaphore P, the only
place a thread blocks, up to the next P. The V operations on the way are part of the step.
Unlocked shared reads and writes that race are steps of their own:
- main's `timing_flag = 0` and `client_count = CLIENTNUM`;
- a worker's load and store of `client_count--`.

| Code | Actions |
|---|---|
| `init_server` | `Init` is the state after stock.txt is loaded: the tree (`Tree`, built by `insert_stock` over the lines in order). Then `Create` (one worker per step), `SbufInit` and `TimeInit` |
| `main` loop | `Accept`, `TimingFlag`, `TimingCount`, `InsertSlots`, `InsertMutex`, `InsertPut` |
| `thread`, `sbuf_remove` | `Start`, `RemoveItems`, `RemoveMutex`, `Take`, and after the client: `Close`, `CountLock`, `CountLoad`, `CountStore` |
| `handle_client` | `Read` (EOF ends the script), `ByteLock`, `Dispatch` (show / buy, sell / exit / invalid command) |
| `show_stock` | `ShowLock`, `ShowEnter`, `ShowWriteLock`, `ShowRead`, `ShowLock2`, `ShowLeave`, over the traversal stack (`PopPush`) |
| `buy_stock`, `sell_stock` | `WriteLock`, `WriteDo` (refusal, or change and then the save), `WriteUnlock` |
| `update_stock_data` | `UpdateLock`, `UpdateOpen` (truncates, or fails and returns), `UpdateWrite` (one line per step, unlocked reads of `left_stock`), `UpdateClose`. `uret` says where it returns: to `buy`/`sell`, or to `exit(0)` in the handler |
| `sigint_handler` | `Signal(t)`: any created thread may take the one SIGINT and enter `update_stock_data` from its current point, whatever it holds |

**Abstractions.**
- Clients are connection descriptors. Each has a script of commands (`Script`), which
  stands for `Rio_readlineb` and `parse_command`.
- Reply texts, the log and `byte_count`'s value are left out. `time_mutex` around
  `byte_count` is kept.
- The file is its sequence of `<<id, left, price>>` lines.
- `sbuf_init` after the workers already wait on `items` is undefined by POSIX. glibc
  resets the waiter count, so `SbufInit` nondeterministically chooses which waiting
  workers are lost (`lost`).
- A failed `fopen` is a nondeterministic choice when `FopenMayFail` is set.

**Properties.**

| Property | Kind | What it says |
|---|---|---|
| `TypeOK` | invariant | Types and semaphore ranges; `sbuf.front <= sbuf.rear` within `SbufSize` |
| `RWExclusion` | invariant | While a worker changes or saves a stock, no other worker reads or changes it |
| `ReadersHoldWrite` | invariant | While any reader formats a stock, its `write` semaphore is taken (first reader takes it, last gives it back) |
| `FileMatchesWhenQuiet` | invariant | With no save in progress (and no failed `fopen`, no SIGINT), stock.txt lists every stock with its current `left_stock` |
| `SbufIsQueue` | refinement | `sbuf` implements `BoundedQueue`, a FIFO queue whose `Get` hands its head to one consumer: `SQ == INSTANCE BoundedQueue WITH q <- SbufContents, held <- [t \in Workers \|-> cur[t]], Cap <- SbufSize, ...`. A worker that takes any connection but the oldest, or a slot read twice or skipped, breaks it |
| `EveryConnectionServed` | liveness | Every accepted connection is eventually closed, unless `sbuf_init` lost every worker or a SIGINT arrived |
| `EveryConnectionServedStrict`, `SigintExits`, `SavedOnExit` | liveness / invariant | What the code intends; used only by the violation runs |

**Fairness.** Each thread has weak fairness on its own steps (`WF_vars(MainStep \/
UpdateStep(Main))`, and the same for each worker). The server's threads are kernel threads
that the scheduler keeps running. A V on a semaphore wakes a waiter, so a step that stays
enabled is eventually taken. The SIGINT has no fairness: it may never arrive.

**Bounds** (`MCStockPool.tla`).
- Two workers: enough for two clients to be served at once, and for a reader and a
  writer, or two writers, to meet on one stock.
- Two buffer slots, so the ring index wraps (`rear % n`) and two connections can wait
  in the buffer at once, which is what FIFO order is about; the main thread still blocks
  on `slots` when a third arrives before any is taken.
- Two stocks (2 at the root, 1 to its left), so traversals visit two nodes.
- Two scripted clients (`MCScriptMixed`): one sends show, an invalid command, a buy of
  stock 2 and exit; the other sends show, a sell of stock 1 and a refused buy of stock 2,
  then hangs up. Their `show`s overlap, so two readers meet and a reader meets a writer;
  their changes give concurrent saves of different stocks, and two writers on stock 2.
- SIGINT and a failing `fopen` are both enabled.

`pool_safety` checks the safety properties, the refinement and `EveryConnectionServed`
in one run: 172,291 states (about 60 s with coverage). The violation runs use the
older three-client `MCScript`.

**Deadlock.** It is not checked in these cfgs. After the last client the server blocks
in `accept`, and after SIGINT it has exited. Both are real ends of a behaviour, and
`EveryConnectionServed` is the liveness check that replaces the deadlock check.

**Findings** (violation runs, see `PROJECT.json`).

- `pool_lost_workers` (stockserver.c:245/248). The workers are created before
  `sbuf_init`. A worker already blocked in `P(&sbuf.items)` is lost when the semaphore is
  re-initialised. If every worker is lost, accepted connections are never served.
- `pool_sigint_hang` (stockserver.c:70/420). The thread that takes SIGINT may be inside
  `update_stock_data`, holding `file_mutex`. The handler then blocks on that mutex forever.
- `pool_exit_stale` (stockserver.c:71). `buy`/`sell` reply before saving. The handler
  saves the tree and calls `exit(0)` while a worker with an acknowledged change waits for
  `file_mutex`, so the change is lost.
- Timing race (stockserver.c:125/149), listed as a hazard with no property. A worker
  loads `client_count` (0 at the end of a batch). Main then starts a new batch and resets
  it to CLIENTNUM, and the worker stores -1, so that batch is never reported. Reaching it
  needs more connections than CLIENTNUM, which the bounds of `pool_safety` do not give
  room for, and the race only loses a printed time, so no run states it.

**Not modelled.** Socket I/O and its errors (`Accept` failure, `Malloc` of `connfd`),
`byte_count`'s arithmetic, reply formatting, negative quantities (left_stock has no
bound to check), and the 100 threads and `SBUFSIZE` 100 of the build (the protocol
does not depend on the counts).

## 5. The job-control shell model: `JobControl.tla`

`src/pj2/20200152/phase3/myshell.c` keeps a linked list of jobs that two kinds of actor
change. The main loop runs `eval` (fork, `addjob`, `waitfg`) and the builtins `jobs`,
`kill`, `bg` and `fg`. The three signal handlers (`schld_handler`, `sint_handler`,
`ststp_handler`) interrupt the main loop, and each other, wherever nothing is blocked.
The children change state under them: they run `Setpgid(0, 0)`, exit, stop and are
continued. So do the terminal's Ctrl-C and Ctrl-Z, which go to the terminal's foreground
group. That group is the shell's own, and it also holds pipelines (which never call
`setpgid`) and any child that has not yet reached its `Setpgid`.

### State

| Variable | Code |
|---|---|
| `mpc`, `ln`, `nj`, `nidx`, `acur`, `wpid` | Where the main loop is in `eval`, `addjob` and `waitfg`. `ln` is the next line of the script; `acur` is `addjob`'s `current` after the walk; `wpid` is `waitfg`'s `pid`. |
| `jobs`, `next_job_index` | The job list, as a sequence in list order, and its counter. |
| `child` | Per pid: run / stopped / zombie / reaped; whether it has its own group; whether its stop was reported; a SIGINT pending while stopped; pipeline or not. For a pipeline this is the process running `execute_commands`. |
| `ecpc`, `stage`, `wend` | Per pipeline: how many commands `execute_commands` has forked (its `i`); each stage's process state; for each pipe, which processes hold its write end (0 is `execute_commands` itself). |
| `sigs` | Signals pending for the shell. |
| `hs` | A stack of running handler frames, innermost last, each with its step and local `pid`. |
| `inside` | `ststp_handler`'s static `inside_handler`. |
| `shell` | `"exited"` once a csapp `Kill` fails: `unix_error` calls `exit`. |

### Actions

| Action | Code |
|---|---|
| `Fork` | `eval`: parse, `Fork`. The child starts in the shell's group. |
| `AddWalk`, `AddLink` | `addjob`: `job_idx = next_job_index++` and the walk to the last node, then `current->next = new_job`. If a handler freed `current` in between, the job is linked to a freed node and lost. |
| `WfCheck`, `WfSuspend` | `waitfg`'s `while (fgpid(jobs) == pid)` test, then the call of `Sigsuspend(&prev)`. A handler may run between the two (state `wf_sigsuspend`); once suspended (`wf_suspend`), only a signal delivered afterwards goes back to the test. |
| `Jobs`, `NoSuchJob`, `KillJob`, `Resume` | `builtin_command`: `listjobs`, the "No Such Job" path, `Kill(-pid, SIGKILL)`, and `bg`/`fg` with `Kill(-pid, SIGCONT)` and the job's new state. |
| `Deliver(s)` | The kernel runs handler `s` on top of whatever runs. Signal `s` stays blocked until its handler returns. A shell suspended in `waitfg` goes back to its test. |
| `ChldWait`, `ChldProc` | One turn of `schld_handler`'s `waitpid(-1, WNOHANG \| WUNTRACED)` loop, then its block under `Sigfillset` (`deletejob` or `r_state = S`). |
| `IntFg`, `IntKill` | `sint_handler`: `fgpid`, then `Kill(-pid, SIGINT)`. |
| `TstpEnter`, `TstpAct` | `ststp_handler`: the `inside_handler` test and `fgpid` before any signal is blocked, then `Kill(pid, SIGTSTP)` and the job's switch to stopped/BG. |
| `SetPgid(p)`, `ChildExit(p)` | The child's `Setpgid(0, 0)`, and the end of its command. |
| `EcFork(p)` | One turn of `execute_commands`' loop: `pipe(fd)` unless last, `fork` (the stage inherits every write end the parent holds and keeps `fd[1]` as stdout), then the parent's `close(in_fd)` and `close(fd[1])`. |
| `StageExit(p, j)` | Stage `j`'s command reads its input to EOF: the first at any time, a later one once no process holds the write end of the pipe before it. Its exit closes its write end. |
| `EcReap(p, j)`, `EcExit(p)` | `while (wait(NULL) > 0)` reaps the stages. Once none is left, `exit(0)`: the shell gets its SIGCHLD. |
| `KeyPress(s)` | Ctrl-C or Ctrl-Z: the signal goes to the shell, to every child still in its group, and to every pipeline stage. |

Abstractions:
- A command line is a record (run with `bg`/`pipe`, or a builtin with a job index). Parsing, `cmdline` text and `listjobs`' formatting are left out.
- A pipeline child never gets its own group, nor do its stages. Read ends of pipes are left out: only write ends decide EOF. A stage's command is a filter that ends at EOF (`spec_modelled`). The `schld_handler` that the pipeline child inherits only reaps stages, like its `wait` loop, so it is folded into `EcReap`.
- A failing `kill(2)` and the default actions of SIGINT, SIGKILL, SIGTSTP and SIGCONT on a child (`HitDefault`) come from the kernel and from csapp, which is not in the repository. Both are marked `spec_modelled`.
- A child forked by `eval` inherits `sint_handler` and `ststp_handler` (installed at lines 356-358) until it calls `execvp`. A pipeline child never calls it, nor does a child before `Setpgid` in the model's granularity (`Inherits`). `Hit` models this: for such a child SIGINT and SIGTSTP run the inherited handler, which finds no FG job in the child's copy of `jobs` and returns; under csapp's `SA_RESTART` its `wait` goes on, so the signal has no effect on it.

### Properties

- `AtMostOneForeground`: the list never holds two FG jobs.
- `EveryChildReaped`: every child that ends is reaped, unless the shell exited. This is what `schld_handler`'s `while` loop over `waitpid` is for, since one SIGCHLD can stand for several children.
- `ForegroundWaitEnds`: `waitfg` returns.
- `ShellSurvives`: no `Kill` fails.
- `PipelineEnds`: a running pipeline ends on its own unless a signal kills it, or Ctrl-Z stopped one of its stages (`StageStopped`): the pipeline child ignores SIGTSTP, and nothing continues the stopped stage, so it then waits forever (a hazard with no property).
  This depends on `execute_commands` closing the parent's write end of every pipe before
  the next fork. A copy left open means the last stage never sees EOF. The pipeline
  child's `wait(NULL)` then never returns, and neither does the shell's `waitfg`. The
  mutant `EcForkKeepsWrite` drops the `close(fd[1])`.

Fairness is weak fairness of the main loop and of the handlers, of the delivery of each
pending unblocked signal, and of each child's steps. The kernel schedules a runnable
process and delivers a pending unblocked signal, and the commands modelled end. The user
need never press a key, so `KeyPress` has no fairness.

### Findings

- **`waitfg` hang (`shell_waitfg_hang`, lines 258-260 and 425).** `waitfg` tests `fgpid(jobs) == pid` with SIGCHLD unblocked, then calls `Sigsuspend`. TLC's trace: the foreground child ends after the test, `schld_handler` deletes its job before `Sigsuspend`, and the shell then suspends with no signal left to come. The same wait is reached when `eval`, which does not block SIGCHLD around fork and `addjob`, lists a child already reaped.
- **Ctrl-C kills the shell (`shell_pipe_sigint`, line 315).** During a foreground pipeline, `sint_handler`'s `Kill(-pid, SIGINT)` finds no group, so csapp exits the shell. The same happens for a single command before its `Setpgid`.

Bounds: the script `MCScriptJobs` of `shell_jobs` has 7 lines:
- one background command, one foreground pipeline of `PipeLen = 2` commands, and one
  foreground single command;
- `jobs`;
- `fg %1`, `bg %1` and `kill %1`;
- one key press (`MaxKeys = 1`), at any point.

It has 26,191 states (about 30 s).

This reaches nested handlers, a stop by Ctrl-Z and a continue by `fg` or `bg`, and two
children reaped by one SIGCHLD. It also reaches a Ctrl-C or Ctrl-Z that hits a
pipeline between its forks. `shell_waitfg_hang` runs the older 6-line `MCScript` (no single foreground command) with no key presses.
`shell_pipe_sigint` runs one pipeline and one key, the shortest script that shows its bug.
Two stages are enough for `PipelineEnds`: the second stage waits on the first stage's pipe.

Not modelled:
- the `cd` and `exit` builtins (no job state);
- pipe read ends, `dup2` onto stdin and stdout, and `execvp` failing in a stage;
- SIGINT/SIGTSTP to a child's own group from outside the terminal.

## 6. The select-based server model: `SelectPool.tla`

`src/pj3/20200152/task_1/stockserver.c` runs on a single thread. Its only concurrency is
with its clients: they connect, send lines and hang up at any time, and the kernel
buffers what they send.

### State

| Variable | Code |
|---|---|
| `spc`, `ready_set`, `nready`, `ci` | Where `main`'s loop is, and `check_client`'s loop index `i`. |
| `maxfd`, `maxi`, `clientfd`, `read_set`, `clientrio` | The `ClientPool`. |
| `client_count`, `timing_flag` | The batch timing globals. |
| `left`, `file` | `left_stock` per stock, and the lines of stock.txt. |
| `conn`, `fd` | Per client: not connected, in `listenfd`'s backlog, open or closed; and its `connfd`. |
| `sock` | The lines sent and not yet read. |
| `eof` | Whether the client has hung up. |
| `sent`, `done` | History: the lines each client sent, and the lines the server ran. |

### Actions

| Action | Code |
|---|---|
| `Select` | `ready_set = read_set`, `Select(maxfd + 1, ...)`, `timing_flag = 0`. It is enabled only when a watched fd below `maxfd + 1` is readable. |
| `Accept` | `Accept` (the lowest free fd), `client_count++`, `add_client`. |
| `CheckSkip` | One turn of `check_client`'s loop for an empty or not-ready slot. |
| `CheckEof` | One turn for a ready slot where `Rio_readlineb` returns 0: `close_client_connection`. |
| `CheckLine` | One turn that reads a line and runs it. A `read(2)` takes any number of whole lines into the *copy* `rio`, whose extra lines are then dropped. `show`; `buy` and `sell` with `update_stock_data` (whose `fopen` may fail); `exit`; an invalid line. |
| `CheckDone` | The end of the loop, and the end-of-batch test. |
| `Connect(c)`, `Send(c)`, `HangUp(c)` | The clients, marked `spec_modelled`. A client never waits for a reply. |

FD_SETSIZE is scaled to 7. fds 0-2 are the standard streams and `listenfd` is 3, so three
clients get fds 4-6. Accept returns the lowest free fd, so a new client reuses a freed
fd and the first free slot.

### Properties

- `PoolConsistent` holds after any order of accepts and closes:
  - `read_set` is `listenfd` plus exactly the slots' fds, which are the open connections;
  - every used slot is within `maxi`;
  - `maxfd` is the largest watched fd;
  - `client_count` counts the used slots.

  This matters because `close_client_connection` lowers `maxi` only for the last slot and
  recomputes `maxfd` only over `0..maxi`.
- `EveryClientServed`: a client that hangs up is eventually closed.
- `NoLineLost` (violated): every line a client sent has been run or still waits in its
  socket.

Fairness is weak fairness of the server's steps. It is one thread, and `Select` returns
when a watched fd is readable. Clients have no fairness.

**Finding (`select_line_lost`, line 168).** `check_client` reads through
`rio = p->clientrio[i]`, a copy. When one `read(2)` returns two lines, the second stays
in the copy and is lost. Select does not report the fd again, because the socket is
empty. Any client that sends its next command before reading the reply loses commands.

Not modelled:
- `signal_handler`: the same save-then-exit as task_2, shown there by `pool_sigint_hang`.
- Lines split across reads: a half line blocks the whole server in `Rio_readlineb`.
- Running out of fds: `Accept` fails before `add_client`'s "Too many clients", and the
  clients are bounded below it.
- Reply text, `byte_cnt`, and the elapsed-time arithmetic.

## 6a. The container front end: `Containers.tla`

`src/pj1/20200152/main.c` reads commands in a loop and applies them to named containers:
up to ten lists, ten hash tables and ten bitmaps, kept in three arrays with the counters
`l_cnt`, `h_cnt` and `b_cnt`. The list, hash and bitmap functions it calls are not in the
repository. Their names and signatures are those of the Pintos kernel library, so the
model gives each call that library's behaviour, including its `ASSERT`s.

**State.**
- `tab[k][i]`: slot `i` of array `k` (`"l"`, `"h"`, `"b"`), a record of name and link.
  A link is an id of the container it points to, or `NULL`.
- `cnt[k]`: the counter of array `k`.
- `lists`, `hashes`, `bitmaps`: the containers by id. A list is a sequence, a hash is the
  set of its data, a bitmap is a sequence of booleans.
- `freed`: the hashes and bitmaps that `delete` destroyed.
- `fault`: `"none"` until a command does something undefined (array overflow, use after
  free, a failed `ASSERT`, signed overflow, a read past a list, a corrupting splice, an
  endless `list_unique`). A fault ends the behaviour.
- `last`, `ncmd`, `quit`: the last command, the number read, and `quit`.

**Actions.** Each command is one step, `Read` then the handler:
`Create`, `Delete`, `Dumpdata`, `Quit`, and under `ListCommand`, `HashCommand` and
`BitmapCommand` every `list_*`, `hash_*` and `bitmap_*` branch of `main`. `Handle`
models the shared prologue: `findStructureIndex` (`-1` prints "not found"), then the
container. Every branch keeps main's early returns and the order of its calls.
Commands are records over small sets: names, data `{1, 2000}`, positions `{0, 1}`,
bit sizes `{2}`. `create` accepts any name for any kind; the model offers each kind the
names of that kind and the name of no kind (`CreateNames`), so a name that is not
`list*`/`hash*`/`bm*` can be created as a list, a hash or a bitmap. Two names of one
kind as another kind are left out to keep the run short: the prefix plays no part in
the code, only the name's equality does. `malloc` of a container (and `bitmap_create`)
returning NULL is not modelled: main.c does not test it, and the fault would be a
NULL dereference in library code that is not in the repository.

**Property.**
- `NoLiveSlotOverwritten` (action). `create` writes slot `cnt[k]`, although `delete`
  never decrements it: list slots shift down, hash and bitmap slots keep their name.
  The property says this write never overwrites a slot that names a container.
  A `delete` that empties the list's slot and decrements `l_cnt`, without shifting
  the later slots down, breaks it: the next `create` overwrites the last live list.

**Bounds.** Two list names, one hash and one bitmap name, and a name of no kind. The
arrays keep their ten slots. Five commands (`MaxCmds`), lists up to three elements,
bitmaps up to three bits. That is enough to reach every fault except the slot overflow,
which needs eleven creates. `front_commands` has 179,272 states (about 2.5 min with coverage). Deadlock is
not checked: after `quit`, a fault or the last command, nothing is enabled.

**Hazards found** (listed in `PROJECT.json` with the lines; each is reached as a fault):
- `delete` never decrements `l_cnt`. Nine creates, a delete and two creates write
  `listContainers[10]` with nine lists live.
- `delete` of a hash or bitmap leaves its name: any later command uses freed memory.
- `dumpdata`'s `size_t b_idx` makes `b_idx < 0` false, so a missing bitmap is read at
  index `SIZE_MAX`.
- `square`/`triple` overflow `int` on data above 46340 (1290).
- `list_splice` with a reversed range, or into its own range.
- `list_unique L L` never ends.
- `list_front`/`list_back` on an empty list fail their `ASSERT`.
- `list_min`/`list_max` on an empty list return `list_end`, whose data is read.

The hash table is modelled as the set of its data. So `hash_apply` changing the data
of items already in their buckets, after which `hash_find` looks in the wrong bucket,
is out of the model.

## 7. Runs

| Run | Module / cfg | Expect | Shows |
|---|---|---|---|
| `mm_core` | `MCmm` / `MCmm.cfg` | pass | Heap, free lists and caller data stay consistent over every six-call sequence, the arena grows only when nothing fits, and `mm` refines `Allocator` |
| `mm_exhaustion` | `MCmm` / `MCmm_oom.cfg` | violation | A failed heap extension crashes `mm_malloc` instead of returning NULL |
| `pool_safety` | `MCStockPool` / `MCStockPool.cfg` | pass | Reader/writer exclusion (overlapping readers keep `write` taken), the file matches the tree when quiet, `sbuf` refines a FIFO `BoundedQueue`, and every accepted connection is served under weak fairness unless every worker was lost or SIGINT arrived; SIGINT and fopen failures possible |
| `pool_lost_workers` | `MCStockPool` / `MCStockPool_lost.cfg` | violation | Workers created before `sbuf_init` can be lost |
| `pool_sigint_hang` | `MCStockPool` / `MCStockPool_hang.cfg` | violation | SIGINT during a save self-deadlocks on `file_mutex` |
| `pool_exit_stale` | `MCStockPool` / `MCStockPool_stale.cfg` | violation | exit on SIGINT loses an acknowledged change |
| `shell_jobs` | `MCJobControl` / `MCJobControl.cfg` | pass | At most one FG job, every ended child is reaped, and a pipeline ends on its own, with handlers nesting anywhere |
| `shell_waitfg_hang` | `MCJobControl` / `MCJobControl_hang.cfg` | violation | A SIGCHLD handled between `waitfg`'s test and its `Sigsuspend` (or a child reaped before `addjob`) leaves `waitfg` suspended forever |
| `shell_pipe_sigint` | `MCJobControl` / `MCJobControl_pipe.cfg` | violation | Ctrl-C during a pipeline exits the shell |
| `front_commands` | `MCContainers` / `MCContainers.cfg` | pass | Every run of up to five pj1 commands, malloc failures included: the slot `create` writes never names a live container, although `delete` never lowers the counters |
| `select_pool` | `MCSelectPool` / `MCSelectPool.cfg` | pass | The pool's `read_set`, `maxfd`, `maxi` and `client_count` agree with its slots, and every client that hangs up is closed |
| `select_line_lost` | `MCSelectPool` / `MCSelectPool_lost.cfg` | violation | A second line read in the same `read(2)` is dropped with `check_client`'s copy of the `rio_t` |

Every property of a passing run has a mutant in its module that TLC catches, listed in
`PROJECT.json`.

## 8. Not modelled

- **Shell phases 1 and 2.** Both run one command at a time and wait for it with
  `waitpid`. Phase 2's `execute_commands` is the code that phase 3 runs in its pipeline
  child, which section 5 models. Two behaviours are specific to these phases and are
  recorded as hazards, not modelled:
  - Phase 2 runs that loop in the shell itself, so its `wait(NULL)` also waits for every
    earlier background command.
  - Neither phase reaps a background child, so each one stays a zombie.
- **Parts of the pj1 front end** (section 6a): the command text (parsing, the
  `char tmp1[10]` buffers a long name overflows, `fgets` at end of input), the printed
  output, and the hash table's buckets.
- **The `ecf_signals` exercises.** These are single fork/wait/print programs. Their only
  behaviour is the set of orders in which lines are printed, with nothing shared and
  nothing to go wrong.
