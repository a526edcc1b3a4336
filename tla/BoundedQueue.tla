---------------------------- MODULE BoundedQueue ----------------------------
(***************************************************************************)
(* What the thread-pool server's shared buffer sbuf promises: a FIFO      *)
(* queue of connection descriptors that holds at most Cap of them.  A     *)
(* producer appends when there is room; a consumer takes the oldest one,  *)
(* and held[c] is the item consumer c took last.  Nothing is lost,        *)
(* duplicated or reordered, and every consumer gets the head of the queue.*)
(***************************************************************************)
EXTENDS Naturals, Sequences

CONSTANTS Cap, Items, Consumers, NoItem

VARIABLES q, held

Init == q = << >> /\ held = [c \in Consumers |-> NoItem]

Put(x) == Len(q) < Cap /\ q' = Append(q, x) /\ UNCHANGED held

Get(c) == q # << >> /\ held' = [held EXCEPT ![c] = Head(q)] /\ q' = Tail(q)

Next == (\E x \in Items : Put(x)) \/ (\E c \in Consumers : Get(c))

Spec == Init /\ [][Next]_<<q, held>>

=============================================================================
