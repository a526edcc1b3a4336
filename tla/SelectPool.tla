----------------------------- MODULE SelectPool -----------------------------
(***************************************************************************)
(* The select-based stock server of src/pj3/20200152/task_1/stockserver.c.*)
(*                                                                         *)
(* One thread runs main's loop: Select over read_set, accept and          *)
(* add_client when listenfd is ready, then check_client's scan of the     *)
(* slots 0..maxi, which reads one line from each ready client, runs it on *)
(* the stock tree and, for buy and sell, rewrites stock.txt.  The clients *)
(* are the environment: each connects, sends the lines of its script with *)
(* no wait for the replies, and hangs up.  sock[c] is what the kernel     *)
(* holds for the server from client c; one read(2) returns any nonempty   *)
(* prefix of it (whole lines: a line split across reads is left out).     *)
(*                                                                         *)
(* File descriptors are numbers: 0-2 are the standard streams, listenfd   *)
(* is 3, accept returns the lowest free one.  FdSetSize is FD_SETSIZE,    *)
(* scaled: the pool has that many slots and fds stay below it (the MC     *)
(* module bounds the clients so that they do).                            *)
(***************************************************************************)
EXTENDS Integers, Sequences, FiniteSetsExt

CONSTANTS
  FdSetSize,    \* FD_SETSIZE: the slots of clientfd and clientrio
  Script,       \* client -> the sequence of commands it sends
  StockFile,    \* stock.txt at start: a sequence of <<id, left_stock, price>>
  FopenMayFail  \* TRUE: fopen(file_path, "w") may fail

Conns == DOMAIN Script
Slots == 0 .. FdSetSize - 1
listenfd == 3
NULL == 0
Ids == {StockFile[i][1] : i \in DOMAIN StockFile}
Price(s) == StockFile[CHOOSE i \in DOMAIN StockFile : StockFile[i][1] = s][3]

\* accept(2) fails (EMFILE, and csapp's Accept exits) once the default
\* RLIMIT_NOFILE of FD_SETSIZE descriptors is used up; the clients are
\* bounded so that it never is.
ASSUME FdSetSize > listenfd /\ Cardinality(Conns) <= FdSetSize - 4 /\ Ids \subseteq Nat \ {0}

VARIABLES
  spc,          \* main's step: "select", "accept", "check"
  ready_set, nready, ci,   \* ci: check_client's loop index i
  maxfd, maxi, clientfd, read_set, clientrio,
  client_count, timing_flag,
  left,         \* stock -> left_stock
  file,         \* the lines of stock.txt
  conn,         \* client -> "none", "backlog" (connected, not accepted), "open", "closed"
  fd,           \* client -> its connfd once accepted
  sock,         \* client -> lines sent and not yet read by the server
  eof,          \* client -> it has hung up
  sent, done    \* history: lines a client sent, lines the server ran

vars == <<spc, ready_set, nready, ci, maxfd, maxi, clientfd, read_set, clientrio,
          client_count, timing_flag, left, file, conn, fd, sock, eof, sent, done>>
pool == <<maxfd, maxi, clientfd, read_set, clientrio, client_count>>
net == <<conn, fd, sock, eof, sent>>

(***************************************************************************)
(* The stock tree of init_stock_data, insert_stock and find_stock, and    *)
(* the stack walk of show_stock and update_stock_data.                    *)
(***************************************************************************)
RECURSIVE Descend(_, _, _)
Descend(t, id, current) ==
  LET next == IF id < current THEN t.l[current] ELSE t.r[current]
  IN  IF next = NULL THEN current ELSE Descend(t, id, next)

insert_stock(t, id) ==
  IF t.root = NULL THEN [t EXCEPT !.root = id]
  ELSE LET parent == Descend(t, id, t.root)
       IN  IF id < parent THEN [t EXCEPT !.l[parent] = id] ELSE [t EXCEPT !.r[parent] = id]

RECURSIVE LoadStocks(_, _)
LoadStocks(t, i) ==
  IF i > Len(StockFile) THEN t ELSE LoadStocks(insert_stock(t, StockFile[i][1]), i + 1)

Tree == LoadStocks([root |-> NULL, l |-> [s \in Ids |-> NULL], r |-> [s \in Ids |-> NULL]], 1)

RECURSIVE FindFrom(_, _)
FindFrom(id, current) ==
  IF current = NULL \/ id = current THEN current
  ELSE FindFrom(id, IF id > current THEN Tree.r[current] ELSE Tree.l[current])

find_stock(id) == FindFrom(id, Tree.root)

\* Pop the top of the stack, emit its line, push its left then its right child.
RECURSIVE Walk(_, _)
Walk(stack, lf) ==
  IF stack = << >> THEN << >>
  ELSE LET iter == stack[Len(stack)]
       IN  << <<iter, lf[iter], Price(iter)>> >>
           \o Walk(SubSeq(stack, 1, Len(stack) - 1)
                   \o (IF Tree.l[iter] # NULL THEN <<Tree.l[iter]>> ELSE << >>)
                   \o (IF Tree.r[iter] # NULL THEN <<Tree.r[iter]>> ELSE << >>), lf)

\* The lines update_stock_data writes for left_stock lf.
StockLines(lf) == IF Tree.root = NULL THEN << >> ELSE Walk(<<Tree.root>>, lf)

\* buy_stock and sell_stock on left_stock: the new left_stock.
Apply(cmd) ==
  CASE cmd.op = "buy" /\ find_stock(cmd.id) # NULL /\ left[cmd.id] >= cmd.q
         -> [left EXCEPT ![cmd.id] = @ - cmd.q]
    [] cmd.op = "sell" /\ find_stock(cmd.id) # NULL
         -> [left EXCEPT ![cmd.id] = @ + cmd.q]
    [] OTHER -> left

\* Both call update_stock_data once the stock was found.
Saves(cmd) == cmd.op \in {"buy", "sell"} /\ find_stock(cmd.id) # NULL

\* update_stock_data: fopen "w" (which may fail: the file is left as is),
\* the walk, fclose.  file_lock is uncontended in this one thread.
update_stock_data(lf) ==
  \/ file' = StockLines(lf)
  \/ FopenMayFail /\ UNCHANGED file

(***************************************************************************)
(* File descriptors and the pool.                                          *)
(***************************************************************************)
OpenFds == {0, 1, 2, listenfd} \cup {fd[c] : c \in {d \in Conns : conn[d] = "open"}}
LowestFree == CHOOSE x \in 0 .. FdSetSize : x \notin OpenFds /\ \A y \in 0 .. x - 1 : y \in OpenFds
Owner(x) == CHOOSE c \in Conns : conn[c] = "open" /\ fd[c] = x
Readable ==
  (IF \E c \in Conns : conn[c] = "backlog" THEN {listenfd} ELSE {})
  \cup {fd[c] : c \in {d \in Conns : conn[d] = "open" /\ (sock[d] # << >> \/ eof[d])}}

\* Mutant of close_client_connection: the slot is reset to 0, not -1.
close_client_connectionZero(connfd, i) ==
  LET cfd  == [clientfd EXCEPT ![i] = 0]
      mi   == IF i = maxi THEN maxi - 1 ELSE maxi
      c    == Owner(connfd)
  IN  /\ client_count' = client_count - 1
      /\ read_set' = read_set \ {connfd}
      /\ clientfd' = cfd
      /\ maxi' = mi
      /\ maxfd' = IF connfd = maxfd THEN Max({listenfd} \cup {cfd[j] : j \in 0 .. mi}) ELSE maxfd
      /\ conn' = [conn EXCEPT ![c] = "closed"]
      /\ sock' = [sock EXCEPT ![c] = << >>]

\* close_client_connection(connfd, i, p).
close_client_connection(connfd, i) ==
  LET cfd  == [clientfd EXCEPT ![i] = -1]
      mi   == IF i = maxi THEN maxi - 1 ELSE maxi
      c    == Owner(connfd)
  IN  /\ client_count' = client_count - 1
      /\ read_set' = read_set \ {connfd}
      /\ clientfd' = cfd
      /\ maxi' = mi
      /\ maxfd' = IF connfd = maxfd THEN Max({listenfd} \cup {cfd[j] : j \in 0 .. mi}) ELSE maxfd
      /\ conn' = [conn EXCEPT ![c] = "closed"]
      /\ sock' = [sock EXCEPT ![c] = << >>]

Init ==
  /\ spc = "select" /\ ready_set = {} /\ nready = 0 /\ ci = 0
  /\ maxfd = listenfd /\ maxi = -1 /\ clientfd = [i \in Slots |-> -1]
  /\ read_set = {listenfd} /\ clientrio = [i \in Slots |-> << >>]
  /\ client_count = 0 /\ timing_flag = 1
  /\ left = [s \in Ids |-> StockFile[CHOOSE i \in DOMAIN StockFile : StockFile[i][1] = s][2]]
  /\ file = StockFile
  /\ conn = [c \in Conns |-> "none"] /\ fd = [c \in Conns |-> -1]
  /\ sock = [c \in Conns |-> << >>] /\ eof = [c \in Conns |-> FALSE]
  /\ sent = [c \in Conns |-> 0] /\ done = [c \in Conns |-> 0]

(***************************************************************************)
(* main's loop.                                                            *)
(***************************************************************************)
\* ready_set = read_set; Select(maxfd + 1, ...) blocks until a watched fd is
\* readable; then timing_flag = 0 (the start time of a batch).
Select ==
  LET rs == Readable \cap read_set \cap 0 .. maxfd IN
  /\ spc = "select" /\ rs # {}
  /\ ready_set' = rs /\ nready' = Cardinality(rs)
  /\ timing_flag' = 0
  /\ ci' = 0
  /\ spc' = IF listenfd \in rs THEN "accept" ELSE "check"
  /\ UNCHANGED <<pool, left, file, net, done>>

\* Mutant of add_client: maxi = i without the i > maxi test.
add_clientMaxiAlways(x) ==
  LET i == Min({j \in Slots : clientfd[j] < 0}) IN
  /\ clientfd' = [clientfd EXCEPT ![i] = x]
  /\ read_set' = read_set \cup {x}
  /\ clientrio' = [clientrio EXCEPT ![i] = << >>]
  /\ maxfd' = IF x > maxfd THEN x ELSE maxfd
  /\ maxi' = i
  /\ nready' = nready - 1

\* add_client(x, p): the first free slot takes the fd, read_set, a fresh
\* clientrio, maxfd and maxi; nready--.  (Its "Too many clients" error is
\* unreachable: the fds run out first, see the ASSUME.)
add_client(x) ==
  LET i == Min({j \in Slots : clientfd[j] < 0}) IN
  /\ clientfd' = [clientfd EXCEPT ![i] = x]
  /\ read_set' = read_set \cup {x}
  /\ clientrio' = [clientrio EXCEPT ![i] = << >>]
  /\ maxfd' = IF x > maxfd THEN x ELSE maxfd
  /\ maxi' = IF i > maxi THEN i ELSE maxi
  /\ nready' = nready - 1

\* Accept returns the lowest free fd; client_count++; add_client.
Accept ==
  /\ spc = "accept"
  /\ \E c \in Conns :
       /\ conn[c] = "backlog"
       /\ conn' = [conn EXCEPT ![c] = "open"]
       /\ fd' = [fd EXCEPT ![c] = LowestFree]
  /\ client_count' = client_count + 1
  /\ add_client(LowestFree)
  /\ spc' = "check"
  /\ UNCHANGED <<ready_set, ci, timing_flag, left, file, sock, eof, sent, done>>

\* Mutant of Scanning: i < p->maxi.
ScanningOffByOne == spc = "check" /\ nready > 0 /\ ci < maxi

\* check_client's loop test: (p->nready > 0) && (i <= p->maxi).
Scanning == spc = "check" /\ nready > 0 /\ ci <= maxi

\* Slot i is empty, or its fd is not in ready_set.
CheckSkip ==
  /\ Scanning
  /\ clientfd[ci] < 0 \/ clientfd[ci] \notin ready_set
  /\ ci' = ci + 1
  /\ UNCHANGED <<spc, ready_set, nready, pool, timing_flag, left, file, net, done>>

\* Rio_readlineb on the copy rio = p->clientrio[i] returns 0: the client hung
\* up and nothing is buffered; close_client_connection.
CheckEof ==
  /\ Scanning
  /\ clientfd[ci] >= 0 /\ clientfd[ci] \in ready_set
  /\ clientrio[ci] = << >> /\ sock[Owner(clientfd[ci])] = << >>
  /\ nready' = nready - 1 /\ ci' = ci + 1
  /\ close_client_connection(clientfd[ci], ci)
  /\ UNCHANGED <<spc, ready_set, clientrio, timing_flag, left, file, fd, eof, sent, done>>

\* Rio_readlineb on the copy: with its buffer empty, one read(2) takes k
\* lines into it; the first is returned and the rest stay in the copy,
\* which check_client drops.  The line is parsed and run: show writes a
\* reply, buy and sell change left_stock and save, exit closes.
CheckLine ==
  LET c == Owner(clientfd[ci]) IN
  /\ Scanning
  /\ clientfd[ci] >= 0 /\ clientfd[ci] \in ready_set
  /\ \E k \in (IF clientrio[ci] = << >> THEN 1 .. Len(sock[c]) ELSE {0}) :
       LET cmd == Head(clientrio[ci] \o SubSeq(sock[c], 1, k)) IN
       IF cmd.op = "exit"
       THEN /\ close_client_connection(clientfd[ci], ci)
            /\ UNCHANGED <<left, file>>
       ELSE /\ sock' = [sock EXCEPT ![c] = SubSeq(@, k + 1, Len(@))]
            /\ left' = Apply(cmd)
            /\ IF Saves(cmd) THEN update_stock_data(Apply(cmd)) ELSE UNCHANGED file
            /\ UNCHANGED <<maxfd, maxi, clientfd, read_set, client_count, conn>>
  /\ nready' = nready - 1 /\ ci' = ci + 1
  /\ done' = [done EXCEPT ![c] = @ + 1]
  /\ UNCHANGED <<spc, ready_set, clientrio, timing_flag, fd, eof, sent>>

\* The loop ends; a batch is over when no client is left.
CheckDone ==
  /\ spc = "check" /\ ~Scanning
  /\ timing_flag' = IF client_count = 0 /\ timing_flag = 0 THEN 1 ELSE timing_flag
  /\ spc' = "select"
  /\ UNCHANGED <<ready_set, nready, ci, pool, left, file, net, done>>

(***************************************************************************)
(* The clients.                                                            *)
(***************************************************************************)
Connect(c) ==
  /\ conn[c] = "none"
  /\ conn' = [conn EXCEPT ![c] = "backlog"]
  /\ UNCHANGED <<spc, ready_set, nready, ci, pool, timing_flag, left, file, fd, sock, eof, sent, done>>

\* The next line; once the server has closed the connection it is dropped.
Send(c) ==
  /\ conn[c] # "none" /\ ~eof[c] /\ sent[c] < Len(Script[c])
  /\ sent' = [sent EXCEPT ![c] = @ + 1]
  /\ sock' = IF conn[c] = "closed" THEN sock ELSE [sock EXCEPT ![c] = Append(@, Script[c][sent[c] + 1])]
  /\ UNCHANGED <<spc, ready_set, nready, ci, pool, timing_flag, left, file, conn, fd, eof, done>>

HangUp(c) ==
  /\ conn[c] # "none" /\ ~eof[c] /\ sent[c] = Len(Script[c])
  /\ eof' = [eof EXCEPT ![c] = TRUE]
  /\ UNCHANGED <<spc, ready_set, nready, ci, pool, timing_flag, left, file, conn, fd, sock, sent, done>>

Server == Select \/ Accept \/ CheckSkip \/ CheckEof \/ CheckLine \/ CheckDone
Client(c) == Connect(c) \/ Send(c) \/ HangUp(c)

Next == Server \/ \E c \in Conns : Client(c)

\* The one server thread runs whenever select has something for it; the
\* clients need not do anything.
Spec == Init /\ [][Next]_vars /\ WF_vars(Server)

(***************************************************************************)
(* Properties.                                                             *)
(***************************************************************************)
Cmds == [op : {"show", "exit", "bad"}] \cup [op : {"buy", "sell"}, id : Nat, q : Nat]

TypeOK ==
  /\ spc \in {"select", "accept", "check"}
  /\ clientfd \in [Slots -> {-1} \cup 4 .. FdSetSize - 1]
  /\ clientrio \in [Slots -> Seq(Cmds)]
  /\ conn \in [Conns -> {"none", "backlog", "open", "closed"}]
  /\ sock \in [Conns -> Seq(Cmds)]
  /\ maxi \in -1 .. FdSetSize - 1 /\ nready \in Nat

\* The pool's bookkeeping agrees with its slots after any sequence of
\* add_client and close_client_connection: read_set holds listenfd and
\* exactly the slots' fds, which are the open connections; every used slot
\* is within maxi (check_client scans 0..maxi); maxfd is the largest fd
\* watched (Select watches 0..maxfd); client_count counts the slots.
PoolConsistent ==
  LET used == {i \in Slots : clientfd[i] >= 0} IN
  /\ read_set = {listenfd} \cup {clientfd[i] : i \in used}
  /\ {clientfd[i] : i \in used} = {fd[c] : c \in {d \in Conns : conn[d] = "open"}}
  /\ \A i \in used : i <= maxi
  /\ maxfd = Max(read_set)
  /\ client_count = Cardinality(used)

\* A client that hangs up is eventually closed by check_client, whatever
\* the order of connects, lines and hang-ups: Select watches its fd and the
\* scan reaches its slot.
EveryClientServed == \A c \in Conns : eof[c] ~> conn[c] = "closed"

\* Each line a client sent is run by the server or still waits in its
\* socket: check_client's Rio_readlineb loses none.
NoLineLost ==
  spc = "select" =>
    \A c \in Conns : conn[c] # "closed" => done[c] + Len(sock[c]) = sent[c]
====
