------------------------ MODULE EndpointTable_proofs ------------------------
(***************************************************************************)
(* Proofs about EndpointTable.tla for any set of endpoints and any three   *)
(* thresholds in the order of the code's 30 s, 45 s and 2 min.             *)
(***************************************************************************)
EXTENDS EndpointTable, TLAPS

(* Without overlap there is at most one goroutine in IpcSet, and it        *)
(* installs the active endpoint.                                           *)
OneUpsert == ~overlapped => /\ \A u, v \in upserts : u = v
                            /\ \A u \in upserts : u.best = active

TableInv == TypeOK /\ OneUpsert /\ DeviceIsActive

LEMMA InitTable == Init => TableInv
BY TableAssumption
   DEF Init, TableInv, TypeOK, Types, CandsHaveSuccess, ActiveIsCand,
       OneUpsert, DeviceIsActive

LEMMA HandleConfirmedTable ==
  ASSUME TableInv, NEW e \in Endpoint, NEW best \in Endpoint,
         HandleConfirmed(e, best)
  PROVE  TableInv'
<1> USE TableAssumption DEF TableInv, TypeOK
<1>1. active' \in {active, best} /\ best \in cands' /\ cands' # {}
  BY DEF HandleConfirmed, BestCandidates
<1>2. Types'
  <2>1. age' \in [Endpoint -> 0 .. WarmAge \union {Never}]
    BY DEF HandleConfirmed, MarkSuccess, Types
  <2>2. upserts' \in SUBSET [task : Endpoint, best : Endpoint]
    BY DEF HandleConfirmed, Types
  <2> QED
    BY <1>1, <2>1, <2>2 DEF HandleConfirmed, Types
<1>3. CandsHaveSuccess'
  BY DEF HandleConfirmed, MarkSuccess, CandsHaveSuccess, Types
<1>4. ActiveIsCand'
  <2>1. active' # None
    BY DEF HandleConfirmed
  <2>2. active' \in cands'
    BY <1>1, <2>1 DEF HandleConfirmed, ActiveIsCand
  <2> QED
    BY <2>1, <2>2 DEF ActiveIsCand
<1>5. CASE active' = active /\ UNCHANGED <<upserts, overlapped>>
  BY <1>2, <1>3, <1>4, <1>5 DEF HandleConfirmed, OneUpsert, DeviceIsActive
<1>6. CASE /\ active' = best
           /\ upserts' = upserts \union {[task |-> e, best |-> best]}
           /\ overlapped' = (overlapped \/ upserts # {})
  <2>1. ASSUME ~overlapped'
        PROVE  upserts' = {[task |-> e, best |-> best]}
    <3>1. upserts = {}
      BY <1>6, <2>1
    <3> QED
      BY <1>6, <3>1
  <2>2. OneUpsert'
    BY <1>6, <2>1 DEF OneUpsert
  <2> QED
    BY <1>2, <1>3, <1>4, <1>6, <2>2 DEF DeviceIsActive
<1> QED
  BY <1>5, <1>6 DEF HandleConfirmed, Types

LEMMA NextTable == TableInv /\ [Next]_vars => TableInv'
<1> SUFFICES ASSUME TableInv, [Next]_vars
             PROVE  TableInv'
  OBVIOUS
<1> USE TableAssumption DEF TableInv, TypeOK
<1>1. ASSUME NEW u \in upserts, WgUpsert(u)
      PROVE  TableInv'
  <2>1. Types' /\ CandsHaveSuccess' /\ ActiveIsCand' /\ OneUpsert'
    BY <1>1 DEF WgUpsert, Types, CandsHaveSuccess, ActiveIsCand, OneUpsert
  <2>2. ~overlapped => device' = active
    BY <1>1 DEF WgUpsert, OneUpsert
  <2> QED
    BY <1>1, <2>1, <2>2 DEF WgUpsert, DeviceIsActive
<1>2. ASSUME NEW u \in upserts, WgUpsertFails(u)
      PROVE  TableInv'
  BY <1>2 DEF WgUpsertFails, Types, CandsHaveSuccess, ActiveIsCand,
              OneUpsert, DeviceIsActive
<1>3. CASE Tick
  <2>1. Types'
    BY <1>3 DEF Tick, Older, Types
  <2>2. CandsHaveSuccess'
    BY <1>3 DEF Tick, Older, Types, CandsHaveSuccess
  <2> QED
    BY <1>3, <2>1, <2>2 DEF Tick, ActiveIsCand, OneUpsert, DeviceIsActive
<1>4. CASE UNCHANGED vars
  BY <1>4 DEF vars, Types, CandsHaveSuccess, ActiveIsCand, OneUpsert,
              DeviceIsActive
<1> QED
  BY <1>1, <1>2, <1>3, <1>4, HandleConfirmedTable DEF Next

LEMMA TableInvariant == Spec => []TableInv
BY InitTable, NextTable, PTL DEF Spec

(* The fields of peerState and the arguments of the goroutines keep to     *)
(* their types, every candidate has a success on record outside the lock,  *)
(* and the active endpoint is one of the candidates.                       *)
THEOREM TableType == Spec => []TypeOK
BY TableInvariant, PTL DEF TableInv, TypeOK

(* With no IpcSet running, none failed and none overlapped, WireGuard uses *)
(* the endpoint the table calls active.                                    *)
THEOREM DeviceFollows == Spec => []DeviceIsActive
BY TableInvariant, PTL DEF TableInv, TypeOK

(* Only HandleConfirmed moves the active endpoint. *)
LEMMA Switching ==
  ASSUME TableInv, [Next]_vars, Switch
  PROVE  \E e, best \in Endpoint :
           /\ HandleConfirmed(e, best)
           /\ active' = best
           /\ ShouldSwitchEndpoint(best)
BY DEF Next, HandleConfirmed, WgUpsert, WgUpsertFails, Tick, vars, Switch

(* No endpoint with a success in the last 45 s is given up: the branch of  *)
(* shouldSwitchEndpoint for a zero LastSuccess is never taken, because     *)
(* every candidate is marked before the lock is released.                  *)
THEOREM StaleOnly == Spec => SwitchOnlyFromStale
<1>1. ASSUME TableInv, [Next]_vars, Switch
      PROVE  age[active] # Never /\ age[active] > FailoverAfter
  <2>1. active \in cands /\ active \in Endpoint
    BY <1>1 DEF TableInv, TypeOK, ActiveIsCand, Types, Switch
  <2>2. age[active] # Never
    BY <1>1, <2>1 DEF TableInv, TypeOK, CandsHaveSuccess
  <2> QED
    BY <1>1, <2>2, Switching DEF ShouldSwitchEndpoint
<1>2. TableInv /\ [Next]_vars
        => [Switch => age[active] # Never /\ age[active] > FailoverAfter]_vars
  BY <1>1
<1> QED
  BY <1>2, TableInvariant, PTL DEF Spec, SwitchOnlyFromStale

(* A newly confirmed endpoint replaces only one whose score has dropped to *)
(* 0: the 45 s failover takes effect after 2 minutes.                      *)
THEOREM ColdOnly == Spec => NewEndpointWaitsForCold
<1>1. ASSUME TableInv, [Next]_vars, Switch, active' \notin cands
      PROVE  age[active] >= WarmAge
  <2>1. PICK e \in Endpoint, best \in Endpoint :
          HandleConfirmed(e, best) /\ active' = best
    BY <1>1, Switching
  <2>2. active \in cands /\ active \in Endpoint
    BY <1>1 DEF TableInv, TypeOK, ActiveIsCand, Types, Switch
  <2>3. age[best] = Never
    BY <1>1, <2>1 DEF TableInv, TypeOK, CandsHaveSuccess
  <2>4. Score(active) <= Score(best)
    BY <2>1, <2>2 DEF HandleConfirmed, BestCandidates
  <2>5. age[active] \in 0 .. WarmAge
    BY <1>1, <2>2 DEF TableInv, TypeOK, CandsHaveSuccess, Types
  <2> QED
    BY <2>3, <2>4, <2>5, TableAssumption DEF Score
<1>2. TableInv /\ [Next]_vars
        => [Switch /\ active' \notin cands => age[active] >= WarmAge]_vars
  BY <1>1
<1> QED
  BY <1>2, TableInvariant, PTL DEF Spec, NewEndpointWaitsForCold

(* What the clock decides stays within PeerTable: the steps of             *)
(* handleConfirmedPeer add a candidate and may move the active endpoint to *)
(* a candidate, and no other step is visible.                              *)
THEOREM ImplementsTable == Spec => ImplementsPeerTable
<1>1. Init => Peer!Init
  BY DEF Init, Peer!Init
<1>2. TableInv /\ [Next]_vars => [Peer!Next]_(Peer!vars)
  <2> SUFFICES ASSUME TableInv, [Next]_vars
               PROVE  Peer!Next \/ UNCHANGED Peer!vars
    BY DEF Peer!vars
  <2>1. ASSUME NEW e \in Endpoint, NEW best \in Endpoint,
               HandleConfirmed(e, best)
        PROVE  Peer!Add(e)
    BY <2>1 DEF HandleConfirmed, BestCandidates, Peer!Add
  <2>2. CASE \E e, best \in Endpoint : HandleConfirmed(e, best)
    BY <2>1, <2>2 DEF Peer!Next
  <2>3. CASE ~\E e, best \in Endpoint : HandleConfirmed(e, best)
    BY <2>3 DEF Next, WgUpsert, WgUpsertFails, Tick, vars, Peer!vars
  <2> QED
    BY <2>2, <2>3
<1> QED
  BY <1>1, <1>2, TableInvariant, PTL
     DEF Spec, Peer!Spec, ImplementsPeerTable
=============================================================================
