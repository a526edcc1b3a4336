----------------------------- MODULE StockPool -----------------------------
(***************************************************************************)
(* The thread-pool stock server of src/pj3/20200152/task_2/stockserver.c.  *)
(*                                                                         *)
(* Threads: the main thread (0) and the workers 1..NumWorkers.  Each has  *)
(* a program counter; one action per step, where a step is one semaphore  *)
(* P (the only places a thread blocks), or the code from there up to the  *)
(* next P, V's included.  Shared data: the buffer sbuf with its mutex,    *)
(* slots and items semaphores; the stock tree, whose shape is fixed once  *)
(* init_server has loaded stock.txt and whose nodes carry left_stock,     *)
(* read_count and the mutex and write semaphores; file_mutex and the file *)
(* stock.txt; time_mutex with timing_flag and client_count.               *)
(*                                                                         *)
(* Clients are connection descriptors, each with the script of command    *)
(* lines it sends; end of the script is EOF.  The text of replies and of  *)
(* the log is left out; the file is its sequence of lines.  A SIGINT, if  *)
(* enabled, arrives once and is handled by any existing thread.           *)
(***************************************************************************)
EXTENDS Integers, Sequences, FiniteSets

CONSTANTS
  NumWorkers,   \* NTHREADS
  SbufSize,     \* SBUFSIZE
  ClientNum,    \* CLIENTNUM
  StockFile,    \* stock.txt at start: a sequence of <<id, left_stock, price>>
  Script,       \* connfd -> the sequence of commands its client sends
  Sigint,       \* TRUE: one SIGINT may arrive
  FopenMayFail  \* TRUE: fopen(file_path, "w") may fail

Main == 0
Workers == 1 .. NumWorkers
Threads == {Main} \cup Workers
Conns == DOMAIN Script
NULL == 0
Ids == {StockFile[i][1] : i \in DOMAIN StockFile}
Price(s) == StockFile[CHOOSE i \in DOMAIN StockFile : StockFile[i][1] = s][3]

ASSUME NumWorkers \in Nat \ {0} /\ SbufSize \in Nat \ {0} /\ ClientNum \in Nat
ASSUME Conns \subseteq Nat \ {0} /\ Ids \subseteq Nat \ {0}

VARIABLES
  pc,          \* thread -> its current step
  cur,         \* thread -> the connfd it serves (main: the one accepted)
  line,        \* worker -> index of the next command line of cur
  stack,       \* thread -> the Stock *stack of show_stock / update_stock_data
  tmp,         \* worker -> client_count as loaded by client_count--
  uret,        \* thread -> where update_stock_data returns ("exit": the handler)
  sbuf,        \* [buf, n, front, rear, mutex, slots, items]
  smutex,      \* stock -> its mutex semaphore
  swrite,      \* stock -> its write semaphore
  read_count,  \* stock -> read_count
  left,        \* stock -> left_stock
  file_owner,  \* holder of file_mutex, or NULL (thread 0 is Main: see FREE)
  file,        \* the lines of stock.txt
  fopen_failed,\* history: the last update_stock_data could not open the file
  time_mutex, timing_flag, client_count,
  reports,     \* history: elapsed times printed
  lost,        \* workers whose wait on sbuf.items was wiped by sbuf_init
  pending,     \* connections not yet accepted
  closed,      \* connections closed by a worker
  sig          \* "none"; "handling" while sigint_handler runs; "exited"

vars == <<pc, cur, line, stack, tmp, uret, sbuf, smutex, swrite, read_count, left,
          file_owner, file, fopen_failed, time_mutex, timing_flag, client_count,
          reports, lost, pending, closed, sig>>
thr == <<pc, cur, line, stack, tmp, uret>>
stk == <<smutex, swrite, read_count, left>>
fil == <<file_owner, file, fopen_failed>>
tim == <<time_mutex, timing_flag, client_count, reports>>
env == <<lost, pending, closed, sig>>

\* file_mutex is free.  (Main is thread 0, so "no owner" is a distinct value.)
FREE == -1

(***************************************************************************)
(* The stock tree: create_stock_item and insert_stock over the lines of   *)
(* stock.txt in order (init_server), and find_stock.                      *)
(***************************************************************************)
RECURSIVE Descend(_, _, _)
Descend(t, id, current) ==
  LET next == IF id < current THEN t.l[current] ELSE t.r[current]
  IN  IF next = NULL THEN current ELSE Descend(t, id, next)

insert_stock(t, id) ==
  IF t.root = NULL THEN [t EXCEPT !.root = id]
  ELSE LET parent == Descend(t, id, t.root)
       IN  IF id < parent THEN [t EXCEPT !.l[parent] = id]
                          ELSE [t EXCEPT !.r[parent] = id]

RECURSIVE LoadStocks(_, _)
LoadStocks(t, i) ==
  IF i > Len(StockFile) THEN t ELSE LoadStocks(insert_stock(t, StockFile[i][1]), i + 1)

Tree == LoadStocks([root |-> NULL, l |-> [s \in Ids |-> NULL], r |-> [s \in Ids |-> NULL]], 1)

RECURSIVE FindFrom(_, _)
FindFrom(id, current) ==
  IF current = NULL \/ id = current THEN current
  ELSE FindFrom(id, IF id > current THEN Tree.r[current] ELSE Tree.l[current])

find_stock(id) == FindFrom(id, Tree.root)

\* The traversal stack of show_stock and update_stock_data: pop the top,
\* push its left, then its right child.
Top(s) == s[Len(s)]
PopPush(s) ==
  LET iter == Top(s)
  IN  SubSeq(s, 1, Len(s) - 1)
      \o (IF Tree.l[iter] # NULL THEN <<Tree.l[iter]>> ELSE << >>)
      \o (IF Tree.r[iter] # NULL THEN <<Tree.r[iter]>> ELSE << >>)

\* The line update_stock_data writes for stock s.
StockLine(s) == <<s, left[s], Price(s)>>

Cmd(t) == Script[cur[t]][line[t]]

(***************************************************************************)
(* Step helpers.                                                           *)
(***************************************************************************)
Alive == sig # "exited"
At(t, l) == Alive /\ pc[t] = l
Goto(t, l) == pc' = [pc EXCEPT ![t] = l]
\* Past the current command: read the next line.
NextLine(t) == Goto(t, "read") /\ line' = [line EXCEPT ![t] = @ + 1]

(***************************************************************************)
(* init_server and main.  Init is the state after stock.txt is loaded and *)
(* the SIGINT handler installed; the threads are not yet created.         *)
(***************************************************************************)
Init ==
  /\ pc = [t \in Threads |-> IF t = Main THEN "create" ELSE "unborn"]
  /\ cur = [t \in Threads |-> NULL]
  /\ line = [t \in Threads |-> 1]
  /\ stack = [t \in Threads |-> << >>]
  /\ tmp = [t \in Threads |-> 0]
  /\ uret = [t \in Threads |-> "w_unlock"]
  /\ sbuf = [buf |-> [i \in 0 .. SbufSize - 1 |-> NULL], n |-> 0, front |-> 0, rear |-> 0,
             mutex |-> 0, slots |-> 0, items |-> 0]
  /\ smutex = [s \in Ids |-> 1]
  /\ swrite = [s \in Ids |-> 1]
  /\ read_count = [s \in Ids |-> 0]
  /\ left = [s \in Ids |-> StockFile[CHOOSE i \in DOMAIN StockFile : StockFile[i][1] = s][2]]
  /\ file_owner = FREE
  /\ file = StockFile
  /\ fopen_failed = FALSE
  /\ time_mutex = 0
  /\ timing_flag = 1
  /\ client_count = 0
  /\ reports = 0
  /\ lost = {}
  /\ pending = Conns
  /\ closed = {}
  /\ sig = "none"

\* Pthread_create, NumWorkers times, before sbuf_init.
Create ==
  /\ At(Main, "create")
  /\ LET w == NumWorkers - Cardinality({v \in Workers : pc[v] = "unborn"}) + 1
     IN  pc' = [pc EXCEPT ![w] = "start",
                          ![Main] = IF w = NumWorkers THEN "sbuf_init" ELSE "create"]
  /\ UNCHANGED <<cur, line, stack, tmp, uret, sbuf, stk, fil, tim, env>>

\* sbuf_init re-initialises items while workers may already be blocked on
\* it.  Undefined by POSIX; with glibc the waiter count is reset, so no
\* later V wakes a worker that was already asleep: any subset of the
\* workers waiting on items is lost.
SbufInit ==
  /\ At(Main, "sbuf_init")
  /\ sbuf' = [buf |-> [i \in 0 .. SbufSize - 1 |-> NULL], n |-> SbufSize, front |-> 0,
              rear |-> 0, mutex |-> 1, slots |-> SbufSize, items |-> 0]
  /\ \E L \in SUBSET {w \in Workers : pc[w] = "items"} : lost' = L
  /\ Goto(Main, "time_init")
  /\ UNCHANGED <<cur, line, stack, tmp, uret, stk, fil, tim, pending, closed, sig>>

\* Sem_init(&time_mutex, 0, 1); pthread_mutex_init(&file_mutex).
TimeInit ==
  /\ At(Main, "time_init")
  /\ time_mutex' = 1
  /\ Goto(Main, "accept")
  /\ UNCHANGED <<cur, line, stack, tmp, uret, sbuf, stk, fil, timing_flag, client_count,
                 reports, env>>

\* Accept; the first connection of a batch starts the clock.
Accept ==
  /\ At(Main, "accept")
  /\ \E c \in pending :
       /\ pending' = pending \ {c}
       /\ cur' = [cur EXCEPT ![Main] = c]
  /\ Goto(Main, IF timing_flag = 1 THEN "t_flag" ELSE "i_slots")
  /\ UNCHANGED <<line, stack, tmp, uret, sbuf, stk, fil, tim, lost, closed, sig>>

\* timing_flag = 0 and client_count = CLIENTNUM: two plain stores, made
\* without time_mutex.
TimingFlag ==
  /\ At(Main, "t_flag")
  /\ timing_flag' = 0
  /\ Goto(Main, "t_count")
  /\ UNCHANGED <<cur, line, stack, tmp, uret, sbuf, stk, fil, time_mutex, client_count,
                 reports, env>>

TimingCount ==
  /\ At(Main, "t_count")
  /\ client_count' = ClientNum
  /\ Goto(Main, "i_slots")
  /\ UNCHANGED <<cur, line, stack, tmp, uret, sbuf, stk, fil, time_mutex, timing_flag,
                 reports, env>>

(***************************************************************************)
(* sbuf_insert and sbuf_remove.                                            *)
(***************************************************************************)
InsertSlots ==
  /\ At(Main, "i_slots") /\ sbuf.slots > 0
  /\ sbuf' = [sbuf EXCEPT !.slots = @ - 1]
  /\ Goto(Main, "i_mutex")
  /\ UNCHANGED <<cur, line, stack, tmp, uret, stk, fil, tim, env>>

InsertMutex ==
  /\ At(Main, "i_mutex") /\ sbuf.mutex > 0
  /\ sbuf' = [sbuf EXCEPT !.mutex = @ - 1]
  /\ Goto(Main, "i_put")
  /\ UNCHANGED <<cur, line, stack, tmp, uret, stk, fil, tim, env>>

\* Mutant of InsertPut: V(&sp->items) forgotten.
InsertPutNoItems ==
  /\ At(Main, "i_put")
  /\ sbuf' = [sbuf EXCEPT !.buf[sbuf.rear % sbuf.n] = cur[Main], !.rear = @ + 1,
                          !.mutex = @ + 1]
  /\ Goto(Main, "accept")
  /\ UNCHANGED <<cur, line, stack, tmp, uret, stk, fil, tim, env>>

InsertPut ==
  /\ At(Main, "i_put")
  /\ sbuf' = [sbuf EXCEPT !.buf[sbuf.rear % sbuf.n] = cur[Main], !.rear = @ + 1,
                          !.mutex = @ + 1, !.items = @ + 1]
  /\ Goto(Main, "accept")
  /\ UNCHANGED <<cur, line, stack, tmp, uret, stk, fil, tim, env>>

\* thread(): Pthread_detach, Free(vargp).
Start(t) ==
  /\ At(t, "start")
  /\ Goto(t, "items")
  /\ UNCHANGED <<cur, line, stack, tmp, uret, sbuf, stk, fil, tim, env>>

RemoveItems(t) ==
  /\ At(t, "items") /\ t \notin lost /\ sbuf.items > 0
  /\ sbuf' = [sbuf EXCEPT !.items = @ - 1]
  /\ Goto(t, "r_mutex")
  /\ UNCHANGED <<cur, line, stack, tmp, uret, stk, fil, tim, env>>

RemoveMutex(t) ==
  /\ At(t, "r_mutex") /\ sbuf.mutex > 0
  /\ sbuf' = [sbuf EXCEPT !.mutex = @ - 1]
  /\ Goto(t, "take")
  /\ UNCHANGED <<cur, line, stack, tmp, uret, stk, fil, tim, env>>

\* Mutant of Take: the newest slot, buf[(rear - 1) % n], is taken.
TakeNewest(t) ==
  /\ At(t, "take")
  /\ cur' = [cur EXCEPT ![t] = sbuf.buf[(sbuf.rear - 1) % sbuf.n]]
  /\ sbuf' = [sbuf EXCEPT !.front = @ + 1, !.mutex = @ + 1, !.slots = @ + 1]
  /\ line' = [line EXCEPT ![t] = 1]
  /\ Goto(t, "read")
  /\ UNCHANGED <<stack, tmp, uret, stk, fil, tim, env>>

\* Mutant of Take: V(&sp->items) where V(&sp->slots) belongs.
TakeSignalsItems(t) ==
  /\ At(t, "take")
  /\ cur' = [cur EXCEPT ![t] = sbuf.buf[sbuf.front % sbuf.n]]
  /\ sbuf' = [sbuf EXCEPT !.front = @ + 1, !.mutex = @ + 1, !.items = @ + 1]
  /\ line' = [line EXCEPT ![t] = 1]
  /\ Goto(t, "read")
  /\ UNCHANGED <<stack, tmp, uret, stk, fil, tim, env>>

\* The slot read, front++, V(mutex), V(slots); handle_client begins.
Take(t) ==
  /\ At(t, "take")
  /\ cur' = [cur EXCEPT ![t] = sbuf.buf[sbuf.front % sbuf.n]]
  /\ sbuf' = [sbuf EXCEPT !.front = @ + 1, !.mutex = @ + 1, !.slots = @ + 1]
  /\ line' = [line EXCEPT ![t] = 1]
  /\ Goto(t, "read")
  /\ UNCHANGED <<stack, tmp, uret, stk, fil, tim, env>>

(***************************************************************************)
(* handle_client: per line, byte_count under time_mutex, then dispatch.   *)
(***************************************************************************)
\* Rio_readlineb: 0 at EOF ends the loop.
Read(t) ==
  /\ At(t, "read")
  /\ Goto(t, IF line[t] > Len(Script[cur[t]]) THEN "close" ELSE "b_lock")
  /\ UNCHANGED <<cur, line, stack, tmp, uret, sbuf, stk, fil, tim, env>>

ByteLock(t) ==
  /\ At(t, "b_lock") /\ time_mutex > 0
  /\ time_mutex' = time_mutex - 1
  /\ Goto(t, "b_count")
  /\ UNCHANGED <<cur, line, stack, tmp, uret, sbuf, stk, fil, timing_flag, client_count,
                 reports, env>>

\* byte_count += n; V(&time_mutex); then show / buy / sell / exit / other.
Dispatch(t) ==
  /\ At(t, "b_count")
  /\ time_mutex' = time_mutex + 1
  /\ LET c == Cmd(t) IN
     CASE c.op = "show" /\ Tree.root = NULL -> NextLine(t) /\ UNCHANGED stack
       [] c.op = "show" -> Goto(t, "s_lock") /\ stack' = [stack EXCEPT ![t] = <<Tree.root>>]
                           /\ UNCHANGED line
       [] c.op \in {"buy", "sell"} /\ find_stock(c.id) # NULL ->
                           Goto(t, "w_lock") /\ UNCHANGED <<line, stack>>
       [] c.op = "exit" -> Goto(t, "close") /\ UNCHANGED <<line, stack>>
       [] OTHER         -> NextLine(t) /\ UNCHANGED stack
  /\ UNCHANGED <<cur, tmp, uret, sbuf, stk, fil, timing_flag, client_count, reports, env>>

(***************************************************************************)
(* show_stock: for each node, the first reader takes write, the last one  *)
(* gives it back; read_count is guarded by the node's mutex.              *)
(***************************************************************************)
ShowLock(t) ==
  /\ At(t, "s_lock") /\ smutex[Top(stack[t])] > 0
  /\ smutex' = [smutex EXCEPT ![Top(stack[t])] = @ - 1]
  /\ Goto(t, "s_inc")
  /\ UNCHANGED <<cur, line, stack, tmp, uret, sbuf, swrite, read_count, left, fil, tim, env>>

ShowEnter(t) ==
  LET s == Top(stack[t]) IN
  /\ At(t, "s_inc")
  /\ read_count' = [read_count EXCEPT ![s] = @ + 1]
  /\ IF read_count[s] + 1 = 1
     THEN Goto(t, "s_wlock") /\ UNCHANGED smutex
     ELSE Goto(t, "s_read") /\ smutex' = [smutex EXCEPT ![s] = @ + 1]
  /\ UNCHANGED <<cur, line, stack, tmp, uret, sbuf, swrite, left, fil, tim, env>>

ShowWriteLock(t) ==
  LET s == Top(stack[t]) IN
  /\ At(t, "s_wlock") /\ swrite[s] > 0
  /\ swrite' = [swrite EXCEPT ![s] = @ - 1]
  /\ smutex' = [smutex EXCEPT ![s] = @ + 1]
  /\ Goto(t, "s_read")
  /\ UNCHANGED <<cur, line, stack, tmp, uret, sbuf, read_count, left, fil, tim, env>>

\* sprintf of id, left_stock and price into the reply.
ShowRead(t) ==
  /\ At(t, "s_read")
  /\ Goto(t, "s_lock2")
  /\ UNCHANGED <<cur, line, stack, tmp, uret, sbuf, stk, fil, tim, env>>

ShowLock2(t) ==
  /\ At(t, "s_lock2") /\ smutex[Top(stack[t])] > 0
  /\ smutex' = [smutex EXCEPT ![Top(stack[t])] = @ - 1]
  /\ Goto(t, "s_dec")
  /\ UNCHANGED <<cur, line, stack, tmp, uret, sbuf, swrite, read_count, left, fil, tim, env>>

\* read_count--, the last reader's V(write), V(mutex), push the children;
\* an empty stack ends the loop and Rio_writen sends the reply.
\* Mutant of ShowLeave: every reader gives write back, not only the last.
ShowLeaveReleases(t) ==
  LET s == Top(stack[t])
      rest == PopPush(stack[t])
  IN  /\ At(t, "s_dec")
      /\ read_count' = [read_count EXCEPT ![s] = @ - 1]
      /\ swrite' = [swrite EXCEPT ![s] = 1]
      /\ smutex' = [smutex EXCEPT ![s] = @ + 1]
      /\ stack' = [stack EXCEPT ![t] = rest]
      /\ IF rest = << >> THEN NextLine(t) ELSE Goto(t, "s_lock") /\ UNCHANGED line
      /\ UNCHANGED <<cur, tmp, uret, sbuf, left, fil, tim, env>>

ShowLeave(t) ==
  LET s == Top(stack[t])
      rest == PopPush(stack[t])
  IN  /\ At(t, "s_dec")
      /\ read_count' = [read_count EXCEPT ![s] = @ - 1]
      /\ swrite' = IF read_count[s] - 1 = 0 THEN [swrite EXCEPT ![s] = @ + 1] ELSE swrite
      /\ smutex' = [smutex EXCEPT ![s] = @ + 1]
      /\ stack' = [stack EXCEPT ![t] = rest]
      /\ IF rest = << >> THEN NextLine(t) ELSE Goto(t, "s_lock") /\ UNCHANGED line
      /\ UNCHANGED <<cur, tmp, uret, sbuf, left, fil, tim, env>>

(***************************************************************************)
(* buy_stock and sell_stock: under the stock's write semaphore; a change  *)
(* is saved with update_stock_data before V(write).                       *)
(***************************************************************************)
\* Mutant of WriteLock: P(&stock->write) left out.
WriteLockSkipped(t) ==
  /\ At(t, "w_lock")
  /\ Goto(t, "w_do")
  /\ UNCHANGED <<cur, line, stack, tmp, uret, sbuf, stk, fil, tim, env>>

WriteLock(t) ==
  /\ At(t, "w_lock") /\ swrite[Cmd(t).id] > 0
  /\ swrite' = [swrite EXCEPT ![Cmd(t).id] = @ - 1]
  /\ Goto(t, "w_do")
  /\ UNCHANGED <<cur, line, stack, tmp, uret, sbuf, smutex, read_count, left, fil, tim, env>>

\* buy: take quantity if left_stock >= quantity, else refuse; sell: add it.
WriteDo(t) ==
  LET c == Cmd(t)
      ok == c.op = "sell" \/ left[c.id] >= c.q
  IN  /\ At(t, "w_do")
      /\ left' = IF ~ok THEN left
                 ELSE [left EXCEPT ![c.id] = IF c.op = "buy" THEN @ - c.q ELSE @ + c.q]
      /\ Goto(t, IF ok THEN "u_lock" ELSE "w_unlock")
      /\ uret' = [uret EXCEPT ![t] = "w_unlock"]
      /\ UNCHANGED <<cur, line, stack, tmp, sbuf, smutex, swrite, read_count, fil, tim, env>>

WriteUnlock(t) ==
  /\ At(t, "w_unlock")
  /\ swrite' = [swrite EXCEPT ![Cmd(t).id] = @ + 1]
  /\ NextLine(t)
  /\ UNCHANGED <<cur, stack, tmp, uret, sbuf, smutex, read_count, left, fil, tim, env>>

(***************************************************************************)
(* update_stock_data: under file_mutex, truncate the file and write one   *)
(* line per node in traversal order.  left_stock is read without the      *)
(* node's lock.                                                            *)
(***************************************************************************)
\* Mutant of UpdateLock: pthread_mutex_lock(&file_mutex) left out.
UpdateLockSkipped(t) ==
  /\ At(t, "u_lock")
  /\ file_owner' = t
  /\ Goto(t, "u_open")
  /\ UNCHANGED <<cur, line, stack, tmp, uret, sbuf, stk, file, fopen_failed, tim, env>>

UpdateLock(t) ==
  /\ At(t, "u_lock") /\ file_owner = FREE
  /\ file_owner' = t
  /\ Goto(t, "u_open")
  /\ UNCHANGED <<cur, line, stack, tmp, uret, sbuf, stk, file, fopen_failed, tim, env>>

\* fopen(file_path, "w") truncates; if it fails, unlock and return.
UpdateOpen(t) ==
  /\ At(t, "u_open")
  /\ \/ /\ file' = << >>
        /\ fopen_failed' = FALSE
        /\ IF Tree.root = NULL THEN Goto(t, "u_close") /\ UNCHANGED stack
           ELSE Goto(t, "u_write") /\ stack' = [stack EXCEPT ![t] = <<Tree.root>>]
        /\ UNCHANGED <<file_owner, sig>>
     \/ /\ FopenMayFail
        /\ fopen_failed' = TRUE
        /\ file_owner' = FREE
        /\ Goto(t, uret[t])
        /\ sig' = IF uret[t] = "exit" THEN "exited" ELSE sig
        /\ UNCHANGED <<stack, file>>
  /\ UNCHANGED <<cur, line, tmp, uret, sbuf, stk, tim, lost, pending, closed>>

UpdateWrite(t) ==
  LET s == Top(stack[t]) IN
  /\ At(t, "u_write")
  /\ file' = Append(file, StockLine(s))
  /\ stack' = [stack EXCEPT ![t] = PopPush(@)]
  /\ Goto(t, IF PopPush(stack[t]) = << >> THEN "u_close" ELSE "u_write")
  /\ UNCHANGED <<cur, line, tmp, uret, sbuf, stk, file_owner, fopen_failed, tim, env>>

\* fclose, unlock, return; in the SIGINT handler, exit(0).
UpdateClose(t) ==
  /\ At(t, "u_close")
  /\ file_owner' = FREE
  /\ Goto(t, uret[t])
  /\ sig' = IF uret[t] = "exit" THEN "exited" ELSE sig
  /\ UNCHANGED <<cur, line, stack, tmp, uret, sbuf, stk, file, fopen_failed, tim, lost,
                 pending, closed>>

(***************************************************************************)
(* After handle_client: Close, then client_count-- under time_mutex; the  *)
(* decrement is a load and a store.                                       *)
(***************************************************************************)
Close(t) ==
  /\ At(t, "close")
  /\ closed' = closed \cup {cur[t]}
  /\ Goto(t, "c_lock")
  /\ UNCHANGED <<cur, line, stack, tmp, uret, sbuf, stk, fil, tim, lost, pending, sig>>

CountLock(t) ==
  /\ At(t, "c_lock") /\ time_mutex > 0
  /\ time_mutex' = time_mutex - 1
  /\ Goto(t, "c_load")
  /\ UNCHANGED <<cur, line, stack, tmp, uret, sbuf, stk, fil, timing_flag, client_count,
                 reports, env>>

CountLoad(t) ==
  /\ At(t, "c_load")
  /\ tmp' = [tmp EXCEPT ![t] = client_count]
  /\ Goto(t, "c_store")
  /\ UNCHANGED <<cur, line, stack, uret, sbuf, stk, fil, tim, env>>

\* Store, and at 0 with timing_flag clear: set it and print the time.
CountStore(t) ==
  LET report == tmp[t] - 1 = 0 /\ timing_flag = 0 IN
  /\ At(t, "c_store")
  /\ client_count' = tmp[t] - 1
  /\ timing_flag' = IF report THEN 1 ELSE timing_flag
  /\ reports' = IF report THEN reports + 1 ELSE reports
  /\ time_mutex' = time_mutex + 1
  /\ Goto(t, "items")
  /\ UNCHANGED <<cur, line, stack, tmp, uret, sbuf, stk, fil, env>>

(***************************************************************************)
(* SIGINT: sigint_handler runs in whichever thread receives it, calls     *)
(* update_stock_data, then exit(0).                                       *)
(***************************************************************************)
Signal(t) ==
  /\ Sigint /\ sig = "none" /\ pc[t] # "unborn"
  /\ sig' = "handling"
  /\ Goto(t, "u_lock")
  /\ uret' = [uret EXCEPT ![t] = "exit"]
  /\ UNCHANGED <<cur, line, stack, tmp, sbuf, stk, fil, tim, lost, pending, closed>>

MainStep ==
  Create \/ SbufInit \/ TimeInit \/ Accept \/ TimingFlag \/ TimingCount
  \/ InsertSlots \/ InsertMutex \/ InsertPut

WorkerStep(t) ==
  \/ Start(t) \/ RemoveItems(t) \/ RemoveMutex(t) \/ Take(t) \/ Read(t)
  \/ ByteLock(t) \/ Dispatch(t) \/ ShowLock(t) \/ ShowEnter(t) \/ ShowWriteLock(t)
  \/ ShowRead(t) \/ ShowLock2(t) \/ ShowLeave(t) \/ WriteLock(t) \/ WriteDo(t)
  \/ WriteUnlock(t) \/ Close(t) \/ CountLock(t) \/ CountLoad(t) \/ CountStore(t)

UpdateStep(t) == UpdateLock(t) \/ UpdateOpen(t) \/ UpdateWrite(t) \/ UpdateClose(t)

Next ==
  \/ MainStep
  \/ \E w \in Workers : WorkerStep(w)
  \/ \E t \in Threads : UpdateStep(t)
  \/ \E t \in Threads : Signal(t)

\* Every thread that can run eventually runs: the scheduler runs a thread
\* that stays runnable, and a V on a semaphore wakes a waiter.  SIGINT is
\* an event of the environment and need never come.
Fairness ==
  /\ WF_vars(MainStep \/ UpdateStep(Main))
  /\ \A w \in Workers : WF_vars(WorkerStep(w) \/ UpdateStep(w))

Spec == Init /\ [][Next]_vars /\ Fairness

(***************************************************************************)
(* Views.                                                                  *)
(***************************************************************************)
UpdatePcs == {"u_lock", "u_open", "u_write", "u_close"}
WritePcs == {"w_do", "w_unlock"} \cup UpdatePcs

\* t holds s's write semaphore as a buyer or seller.
Writing(t, s) ==
  /\ t \in Workers /\ pc[t] \in WritePcs /\ uret[t] = "w_unlock"
  /\ line[t] <= Len(Script[cur[t]]) /\ Cmd(t).op \in {"buy", "sell"} /\ Cmd(t).id = s

\* t is between taking and releasing the reader side of s.
Reading(t, s) == pc[t] = "s_read" /\ Top(stack[t]) = s

\* The contents of sbuf in order, oldest first.
SbufContents ==
  [i \in 1 .. sbuf.rear - sbuf.front |-> sbuf.buf[(sbuf.front + i - 1) % sbuf.n]]

\* The file holds one line for every stock, with its current left_stock.
FileCurrent == Len(file) = Cardinality(Ids) /\ {file[i] : i \in DOMAIN file} = {StockLine(s) : s \in Ids}

\* No thread is between a change of left_stock and the end of its save.
Quiet == \A t \in Threads : pc[t] \notin UpdatePcs

(***************************************************************************)
(* Properties.                                                             *)
(***************************************************************************)
TypeOK ==
  /\ pc \in [Threads -> STRING]
  /\ sbuf.front <= sbuf.rear /\ sbuf.rear - sbuf.front <= SbufSize
  /\ sbuf.mutex \in 0 .. 1 /\ sbuf.slots \in 0 .. SbufSize /\ sbuf.items \in 0 .. SbufSize
  /\ smutex \in [Ids -> 0 .. 1] /\ swrite \in [Ids -> 0 .. 1]
  /\ read_count \in [Ids -> 0 .. NumWorkers]
  /\ file_owner \in Threads \cup {FREE}
  /\ lost \subseteq Workers /\ pending \subseteq Conns /\ closed \subseteq Conns

\* The reader/writer protocol of show_stock with P(&stock->write) in
\* buy_stock and sell_stock: while a worker changes or saves a stock, no
\* other worker reads or changes that stock.
RWExclusion ==
  \A s \in Ids, t \in Workers, u \in Workers :
    t # u /\ Writing(t, s) => ~Reading(u, s) /\ ~Writing(u, s)

\* show_stock's reader protocol: while any worker formats a stock into its
\* reply, the stock's write semaphore is held (taken by the first reader,
\* given back only by the last), so no buy_stock or sell_stock can change it.
ReadersHoldWrite ==
  \A s \in Ids : (\E t \in Workers : Reading(t, s)) => swrite[s] = 0

\* Whenever no update_stock_data is in progress, stock.txt lists every
\* stock with its current left_stock, unless the last fopen failed: every
\* change made by buy_stock or sell_stock is saved before the next one is
\* visible, whatever the interleaving of the saves.
FileMatchesWhenQuiet == Quiet /\ ~fopen_failed /\ sig = "none" => FileCurrent

\* Every accepted connection is eventually served and closed, as long as
\* some worker still waits on sbuf (sbuf_init did not lose them all) and
\* no SIGINT ended the process (sigint_handler's exit(0), or its hang,
\* which SigintExits is about).
EveryConnectionServed ==
  \A c \in Conns : c \notin pending ~> (c \in closed \/ lost = Workers \/ sig # "none")

\* Every accepted connection is eventually served and closed.
EveryConnectionServedStrict ==
  \A c \in Conns : c \notin pending ~> c \in closed

\* A SIGINT saves the stocks and ends the process (sigint_handler).
SigintExits == sig = "handling" ~> sig = "exited"

\* When the process exits on SIGINT, stock.txt holds every stock's
\* current left_stock: no change acknowledged to a client is lost.
SavedOnExit == sig = "exited" /\ ~fopen_failed => FileCurrent

\* sbuf implements the bounded FIFO queue of BoundedQueue: sbuf_insert
\* appends within n slots, and sbuf_remove hands each worker the oldest
\* connection, through buf[front % n] and the three semaphores.
SQ == INSTANCE BoundedQueue WITH q <- SbufContents, held <- [t \in Workers |-> cur[t]],
                                 Cap <- SbufSize, Items <- Conns, Consumers <- Workers,
                                 NoItem <- NULL
SbufIsQueue == SQ!Spec

=============================================================================
