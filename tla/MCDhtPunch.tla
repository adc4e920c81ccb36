----------------------------- MODULE MCDhtPunch -----------------------------
(* Small instances of DhtPunch.  Peers, endpoints and rooms are symmetric, *)
(* except where a configuration singles some of them out.                  *)
EXTENDS DhtPunch, TLC

EndpointSymmetry == Permutations(Endpoint)

=============================================================================
