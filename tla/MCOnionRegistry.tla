-------------------------- MODULE MCOnionRegistry ---------------------------
(* Small instances of OnionRegistry: two peers, on no LAN, or such that    *)
(* only one of them reaches the other's LAN address.                       *)
EXTENDS OnionRegistry, TLC

CONSTANTS n1, n2, e1, e2

OneHost == {{n1}}
AnyHost == SUBSET Node
NoLan   == {}
OneLan  == {<<n1, n2>>}
OneSlow == n1 :> 1 @@ n2 :> 0
NoneSlow == n1 :> 0 @@ n2 :> 0
TwoHomes == n1 :> e1 @@ n2 :> e2
=============================================================================
