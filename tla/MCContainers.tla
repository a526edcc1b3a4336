--------------------------- MODULE MCContainers ---------------------------
(***************************************************************************)
(* Instances of Containers for TLC.  Two list names, one hash and one     *)
(* bitmap name, in the naming main's dumpdata expects ("list", "hash", "bm"),  *)
(* and one name of no kind.  The arrays keep main's ten slots.            *)
(***************************************************************************)
EXTENDS Containers, TLC

CONSTANTS list0, list1, hash0, bm0, other0

MCNames == {list0, list1, hash0, bm0, other0}
MCPrefix == (list0 :> "list") @@ (list1 :> "list") @@ (hash0 :> "hash") @@ (bm0 :> "bm") @@ (other0 :> "other")

=============================================================================
