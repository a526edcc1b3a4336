---------------------------- MODULE MCSelectPool ----------------------------
(***************************************************************************)
(* Instances of SelectPool for TLC.  FD_SETSIZE is scaled to 7: fds 4-6    *)
(* and seven slots for three clients, so that clients open and close in   *)
(* any order, a later client reuses a freed fd and a freed low slot, and  *)
(* close_client_connection meets both a slot below maxi and the fd that  *)
(* is maxfd.  stock.txt holds two stocks, 2 at the root and 1 as its left *)
(* child.                                                                  *)
(***************************************************************************)
EXTENDS SelectPool, TLC

MCStockFile == << <<2, 3, 100>>, <<1, 5, 200>> >>

\* Client 1 buys; client 2 shows and exits; client 3 sends a line that is
\* no command and sells.
MCScript ==
  << << [op |-> "buy", id |-> 1, q |-> 1] >>,
     << [op |-> "show"], [op |-> "exit"] >>,
     << [op |-> "bad"], [op |-> "sell", id |-> 2, q |-> 1] >> >>

\* One client that sends two lines before the server reads.
MCScriptPipelined ==
  << << [op |-> "buy", id |-> 1, q |-> 1], [op |-> "sell", id |-> 2, q |-> 1] >> >>
====
