---------------------------- MODULE MCStockPool ----------------------------
(***************************************************************************)
(* Instances of StockPool for TLC.  Two workers stand for NTHREADS: two   *)
(* are enough for two connections to be served at once and for a reader  *)
(* and a writer, or two writers, to meet on one stock.  Two buffer slots  *)
(* (SBUFSIZE is 100) let both connections wait in sbuf at once, so the    *)
(* order in which workers take them is observable.  stock.txt holds two   *)
(* stocks, 2 at the root and 1 as its left child, so traversals visit two *)
(* nodes.                                                                 *)
(***************************************************************************)
EXTENDS StockPool, TLC

MCStockFile == << <<2, 3, 100>>, <<1, 5, 200>> >>

\* Connection 4 buys from stock 1 and sells to stock 2; connection 5 shows
\* the stocks, sends a line that is no command, and exits.
MCScript ==
  (4 :> << [op |-> "buy", id |-> 1, q |-> 2], [op |-> "sell", id |-> 2, q |-> 1] >>)
  @@ (5 :> << [op |-> "show"], [op |-> "other"], [op |-> "exit"] >>)

\* Two clients show the stocks at once.  Then connection 4 sends a line
\* that is no command and buys from stock 2, while connection 5 sells to
\* stock 1 (so two saves may run at once) and is refused a buy of more of
\* stock 2 than is left (a second writer on stock 2).
MCScriptMixed ==
  (4 :> << [op |-> "show"], [op |-> "other"], [op |-> "buy", id |-> 2, q |-> 1], [op |-> "exit"] >>)
  @@ (5 :> << [op |-> "show"], [op |-> "sell", id |-> 1, q |-> 1], [op |-> "buy", id |-> 2, q |-> 9] >>)
=============================================================================
