----------------------------- MODULE MCLRUCache -----------------------------
(* LRUCache on four keys, at every capacity from none to one too many. *)
EXTENDS LRUCache

MCCapacities == 0..5
=============================================================================
