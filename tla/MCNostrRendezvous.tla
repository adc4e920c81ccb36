------------------------- MODULE MCNostrRendezvous --------------------------
(* Small instances of NostrRendezvous. *)
EXTENDS NostrRendezvous
=============================================================================
