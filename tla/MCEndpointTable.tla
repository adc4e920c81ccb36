--------------------------- MODULE MCEndpointTable --------------------------
(* A small instance of EndpointTable; one tick stands for 15 seconds. *)
EXTENDS EndpointTable, TLC

EndpointSymmetry == Permutations(Endpoint)
=============================================================================
