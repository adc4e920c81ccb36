------------------------------ MODULE PeerTable -----------------------------
(***************************************************************************)
(* What dht/ promises about the endpoints of one remote peer, whatever the *)
(* clock says: candidates are only added, an active endpoint is chosen as  *)
(* soon as there is a candidate, it is always a candidate, and it changes  *)
(* only when a candidate is added.  DhtPunch.tla keeps one such table per  *)
(* peer; EndpointTable.tla implements this specification.                  *)
(***************************************************************************)
CONSTANTS Endpoint, None

VARIABLES cands, active

vars == <<cands, active>>

Init == cands = {} /\ active = None

Add(e) == /\ cands' = cands \union {e}
          /\ active' \in cands' \union ({active} \ {None})

Next == \E e \in Endpoint : Add(e)

Spec == Init /\ [][Next]_vars
=============================================================================
