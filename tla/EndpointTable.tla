--------------------------- MODULE EndpointTable ----------------------------
(***************************************************************************)
(* dht/state.go and the second half of handleConfirmedPeer, with the       *)
(* clock: the candidate endpoints of one remote peer, their scores, the    *)
(* failover rule, and the calls of wgUpsertPeer made outside the lock.     *)
(*                                                                         *)
(* Time is kept as the age of each candidate's last success.  Ages count   *)
(* up to WarmAge: the code does not tell older ones apart, so time itself  *)
(* is unbounded.  FailCount is never incremented by the program: its       *)
(* penalty is left out of the score.                                       *)
(***************************************************************************)
EXTENDS Naturals

CONSTANTS
  Endpoint,
  None,           \* the empty endpoint key
  Never,          \* the zero LastSuccess (no success yet)
  FreshAge,       \* 30 s: younger successes score 50
  FailoverAfter,  \* 45 s: endpointFailoverAfter
  WarmAge         \* 2 min: younger successes score 10

ASSUME TableAssumption ==
  /\ None \notin Endpoint
  /\ FreshAge \in Nat /\ FailoverAfter \in Nat /\ WarmAge \in Nat
  /\ FreshAge < FailoverAfter /\ FailoverAfter < WarmAge
  /\ Never \notin Nat

VARIABLES
  cands,        \* the keys of Candidates
  age,          \* time since Candidates[e].LastSuccess
  active,       \* Active
  upserts,      \* goroutines between the unlock and the end of IpcSet
  device,       \* the peer's endpoint in the WireGuard device
  failed,       \* history: an IpcSet has failed
  overlapped    \* history: two of the goroutines were in IpcSet at once

vars == <<cands, age, active, upserts, device, failed, overlapped>>

Init ==
  /\ cands = {}
  /\ age = [e \in Endpoint |-> Never]
  /\ active = None
  /\ upserts = {}
  /\ device = None
  /\ failed = FALSE
  /\ overlapped = FALSE

-----------------------------------------------------------------------------
(* Mutant of Score: the success of the endpoint being confirmed counts. *)
MutScoreNewFirst(e) == IF age[e] = Never \/ age[e] < FreshAge THEN 50
                       ELSE IF age[e] < WarmAge THEN 10
                       ELSE 0

(* bestCandidateKey: the score of a candidate, ... *)
Score(e) == IF age[e] = Never THEN 0
            ELSE IF age[e] < FreshAge THEN 50
            ELSE IF age[e] < WarmAge THEN 10
            ELSE 0

(* Mutant of BestCandidates: endpoints of other peers are ranked too. *)
MutBestOfAll(cs) == {b \in Endpoint : \A e \in cs : Score(e) <= Score(b)}

(* ... and those it may return: Go ranges over a map in any order, so any  *)
(* candidate of the highest score may come first.                          *)
BestCandidates(cs) == {b \in cs : \A e \in cs : Score(e) <= Score(b)}

ShouldSwitchEndpoint(new) ==
  /\ active # new
  /\ \/ age[active] = Never
     \/ age[active] > FailoverAfter

(* Mutant of MarkSuccess: the success is not recorded. *)
MutMarkNothing(e) == age

(* markSuccess *)
MarkSuccess(e) == [age EXCEPT ![e] = 0]

(* handleConfirmedPeer up to the unlock.  The read loop confirms an        *)
(* endpoint once, so it runs once for each; the success of e is recorded   *)
(* only after the best candidate has been determined.                      *)
HandleConfirmed(e, best) ==
  LET switchNow == active = None \/ ShouldSwitchEndpoint(best)
  IN /\ e \notin cands
     /\ cands' = cands \union {e}
     /\ best \in BestCandidates(cands')
     /\ age' = MarkSuccess(e)
     /\ active' = IF switchNow THEN best ELSE active
     /\ upserts' = IF switchNow
                   THEN upserts \union {[task |-> e, best |-> best]}
                   ELSE upserts
     /\ overlapped' = (overlapped \/ (switchNow /\ upserts # {}))
     /\ UNCHANGED <<device, failed>>

(* Mutant of WgUpsert: the endpoint just confirmed is installed. *)
MutWgUpsertConfirmed(u) ==
  /\ upserts' = upserts \ {u}
  /\ device' = u.task
  /\ UNCHANGED <<cands, age, active, failed, overlapped>>

(* wgUpsertPeer, by the goroutine that has switched. *)
WgUpsert(u) ==
  /\ upserts' = upserts \ {u}
  /\ device' = u.best
  /\ UNCHANGED <<cands, age, active, failed, overlapped>>

(* wgUpsertPeer returns an error: Active stays as it is. *)
WgUpsertFails(u) ==
  /\ upserts' = upserts \ {u}
  /\ failed' = TRUE
  /\ UNCHANGED <<cands, age, active, device, overlapped>>

(* Time passes. *)
Older(a) == IF a = Never \/ a = WarmAge THEN a ELSE a + 1

Tick ==
  /\ age' = [e \in Endpoint |-> Older(age[e])]
  /\ UNCHANGED <<cands, active, upserts, device, failed, overlapped>>

Next ==
  \/ \E e, best \in Endpoint : HandleConfirmed(e, best)
  \/ \E u \in upserts : WgUpsert(u) \/ WgUpsertFails(u)
  \/ Tick

Spec == Init /\ [][Next]_vars

-----------------------------------------------------------------------------
Types ==
  /\ cands \in SUBSET Endpoint
  /\ age \in [Endpoint -> 0 .. WarmAge \union {Never}]
  /\ active \in Endpoint \union {None}
  /\ upserts \in SUBSET [task : Endpoint, best : Endpoint]
  /\ device \in Endpoint \union {None}
  /\ failed \in BOOLEAN
  /\ overlapped \in BOOLEAN

(* Outside the lock every candidate has a success on record: the zero      *)
(* LastSuccess, which ranks below all others and is always replaced, is    *)
(* seen only inside handleConfirmedPeer.                                   *)
CandsHaveSuccess == \A e \in Endpoint : e \in cands <=> age[e] # Never

(* Active is a key of Candidates, and is set as soon as there is one. *)
ActiveIsCand == IF active = None THEN cands = {} ELSE active \in cands

(* The fields of peerState keep to their types and agree with each other. *)
TypeOK == Types /\ CandsHaveSuccess /\ ActiveIsCand

Switch == active # None /\ active' # active

(* endpointFailoverAfter: the active endpoint is replaced only when its    *)
(* last success is more than 45 s old.  This rests on every candidate      *)
(* having a success on record before the lock is released.                 *)
SwitchOnlyFromStale ==
  [][Switch => age[active] # Never /\ age[active] > FailoverAfter]_vars

(* The score works against the endpoint that has just been confirmed: its  *)
(* success is not yet recorded, so it replaces the active endpoint only    *)
(* when that one is cold, after 2 minutes and not after 45 s.              *)
NewEndpointWaitsForCold ==
  [][Switch /\ active' \notin cands => age[active] >= WarmAge]_vars

(* Once no goroutine is inside wgUpsertPeer, the device uses the active    *)
(* endpoint, unless a call failed or two calls overlapped.                 *)
DeviceIsActive ==
  upserts = {} /\ ~failed /\ ~overlapped => device = active

Peer == INSTANCE PeerTable

(* The table with its clock implements the table without. *)
ImplementsPeerTable == Peer!Spec
=============================================================================
