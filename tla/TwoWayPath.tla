----------------------------- MODULE TwoWayPath -----------------------------
(***************************************************************************)
(* What the HELLO / REPLY / ACK exchange of dht/ promises: a peer declares *)
(* an endpoint confirmed only when datagrams have crossed in both          *)
(* directions between that endpoint and an endpoint the peer has owned     *)
(* itself.  Who sends what, how often, and what gets lost is left open.    *)
(* DhtPunch.tla implements this specification.                             *)
(***************************************************************************)
CONSTANTS Node, Endpoint

VARIABLES owned,      \* owned[n]: the external endpoints n has had so far
          crossed,    \* pairs <<src, dst>> between which a datagram arrived
          confirmed   \* confirmed[n]: endpoints n believes it can talk to

vars == <<owned, crossed, confirmed>>

Init == /\ owned \in [Node -> SUBSET Endpoint]
        /\ crossed = {}
        /\ confirmed = [n \in Node |-> {}]

(* n gets a new external endpoint. *)
Acquire(n, e) == /\ owned' = [owned EXCEPT ![n] = @ \union {e}]
                 /\ UNCHANGED <<crossed, confirmed>>

(* A datagram gets through from s to d. *)
Deliver(s, d) == /\ crossed' = crossed \union {<<s, d>>}
                 /\ UNCHANGED <<owned, confirmed>>

(* n accepts e on a datagram that has just come from e to its own f, and   *)
(* only when one of n's own has reached e before.                          *)
Confirm(n, e, f) == /\ f \in owned[n]
                    /\ <<f, e>> \in crossed
                    /\ crossed' = crossed \union {<<e, f>>}
                    /\ confirmed' = [confirmed EXCEPT ![n] = @ \union {e}]
                    /\ UNCHANGED owned

(* The process is restarted: it forgets what it had confirmed. *)
Forget(n) == /\ confirmed' = [confirmed EXCEPT ![n] = {}]
             /\ UNCHANGED <<owned, crossed>>

Next == \/ \E n \in Node, e \in Endpoint : Acquire(n, e)
        \/ \E s, d \in Endpoint : Deliver(s, d)
        \/ \E n \in Node, e, f \in Endpoint : Confirm(n, e, f)
        \/ \E n \in Node : Forget(n)

Spec == Init /\ [][Next]_vars
=============================================================================
