----------------------------- MODULE LossyQueue -----------------------------
(***************************************************************************)
(* What a consumer behind the shared UDP socket is promised: of what is    *)
(* sent to it, one thing after the other, it gets each at most once and in *)
(* order, and what it does not get was sent while Cap others were waiting. *)
(* Nothing is said of the other consumers, nor of the WireGuard device     *)
(* going up and down, which must not be seen here.                         *)
(***************************************************************************)
EXTENDS Naturals, FiniteSets

CONSTANTS Cap,    \* how many may wait
          Items   \* numbers of what may be sent

VARIABLES waiting, \* sent, and neither received nor lost
          got,     \* received
          lost     \* sent in vain

vars == <<waiting, got, lost>>

Init == waiting = {} /\ got = {} /\ lost = {}

Send(i) ==
  /\ \A j \in waiting \union got \union lost : j < i
  /\ IF Cardinality(waiting) < Cap
     THEN waiting' = waiting \union {i} /\ UNCHANGED lost
     ELSE lost' = lost \union {i} /\ UNCHANGED waiting
  /\ UNCHANGED got

Receive(i) ==
  /\ i \in waiting
  /\ \A j \in waiting : i <= j
  /\ waiting' = waiting \ {i}
  /\ got' = got \union {i}
  /\ UNCHANGED lost

Next == \E i \in Items : Send(i) \/ Receive(i)

Spec == Init /\ [][Next]_vars
=============================================================================
