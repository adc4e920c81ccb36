--------------------------- MODULE MCOnionFailover --------------------------
(* Small instances of OnionFailover. *)
EXTENDS OnionFailover, TLC

NodeSymmetry == Permutations(Node)
=============================================================================
