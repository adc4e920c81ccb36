------------------------ MODULE NostrRendezvous_proofs ----------------------
(***************************************************************************)
(* Proofs about NostrRendezvous.tla for any set of relays and endpoints,   *)
(* any cooldown and any number of faults.                                  *)
(***************************************************************************)
EXTENDS NostrRendezvous, TLAPS

LEMMA FaultType ==
  ASSUME TypeOK, NEW kind, Fault(kind)
  PROVE  faults' \in 0 .. MaxFaults
BY NostrAssumption DEF TypeOK, Fault, NostrAssumption

LEMMA TaskMoves ==
  ASSUME NEW t \in Task
  PROVE  /\ t.ep \in Endpoint
         /\ [t EXCEPT !.pc = "mark"] \in Task
         /\ [t EXCEPT !.pc = "mark"].ep = t.ep
         /\ [t EXCEPT !.pc = "mark"].pc = "mark"
BY DEF Task

LEMMA OlderType ==
  ASSUME NEW age \in 0 .. Cooldown + 1
  PROVE  Older(age) \in 0 .. Cooldown + 1
BY NostrAssumption DEF Older, NostrAssumption

LEMMA InitType == Init => TypeOK
<1> SUFFICES ASSUME Init PROVE TypeOK
  OBVIOUS
<1> USE NostrAssumption DEF NostrAssumption
<1>1. seenAge \in 0 .. Cooldown + 1 /\ faults \in 0 .. MaxFaults
  BY DEF Init
<1>2. stored \in [Relay -> Endpoint \union {None}]
  BY DEF Init
<1> QED
  BY <1>1, <1>2 DEF Init, TypeOK, Thread

LEMMA PublisherType ==
  ASSUME TypeOK,
         \/ ReadAddress \/ Keepalive \/ StartLoops \/ RestartPublisher
         \/ \E t \in Thread : Sign(t)
         \/ \E t \in Thread, r \in Relay : Publishing(t, r)
  PROVE  TypeOK'
<1> USE NostrAssumption DEF NostrAssumption
<1>0. "ticker" \in Thread /\ "keepalive" \in Thread
  BY DEF Thread
<1>1. CASE ReadAddress \/ Keepalive \/ StartLoops
  BY <1>0, <1>1
     DEF ReadAddress, Keepalive, StartLoops, TypeOK, subscriber
<1>2. CASE RestartPublisher
  <2>1. faults' \in 0 .. MaxFaults
    BY <1>2, FaultType DEF RestartPublisher
  <2> QED
    BY <1>2, <2>1 DEF RestartPublisher, TypeOK, subscriber
<1>3. ASSUME NEW t \in Thread, Sign(t) PROVE TypeOK'
  <2>1. addr[t] \in Endpoint
    BY <1>3 DEF Sign, TypeOK
  <2> QED
    BY <1>3, <2>1 DEF Sign, TypeOK, subscriber
<1>4. ASSUME NEW t \in Thread, NEW r \in Relay, Publish(t, r) PROVE TypeOK'
  <2>1. Sent(t, r) \in [Thread -> SUBSET Relay]
    BY DEF Sent, TypeOK
  <2>2. ev[t] \in Endpoint
    BY DEF TypeOK
  <2>3. /\ stored' \in [Relay -> Endpoint \union {None}]
        /\ inbox' \in [Relay -> Endpoint \union {None}]
    BY <1>4, <2>2 DEF Publish, TypeOK
  <2> QED
    BY <1>4, <2>1, <2>3 DEF Publish, TypeOK
<1>5. ASSUME NEW t \in Thread, NEW r \in Relay, PublishFails(t, r)
      PROVE  TypeOK'
  <2>1. faults' \in 0 .. MaxFaults
    BY <1>5, FaultType DEF PublishFails, TypeOK
  <2> QED
    BY <1>5, <2>1 DEF PublishFails, TypeOK, subscriber
<1> QED
  BY <1>1, <1>2, <1>3, <1>4, <1>5 DEF Publishing

LEMMA SubscriberType ==
  ASSUME TypeOK, Punching \/ \E r \in Relay : Subscription(r)
  PROVE  TypeOK'
<1> USE NostrAssumption DEF NostrAssumption
<1>1. ASSUME NEW r \in Relay, Subscribe(r) PROVE TypeOK'
  <2>1. sub' \in [Relay -> {None} \union 0 .. SubLife]
    BY <1>1 DEF Subscribe, TypeOK
  <2>2. /\ inbox' \in [Relay -> Endpoint \union {None}]
        /\ \A q \in Relay : sub'[q] = None => inbox'[q] = None
    <3>1. /\ sub' = [sub EXCEPT ![r] = 0]
          /\ inbox' = [inbox EXCEPT ![r] = stored[r]]
      BY <1>1 DEF Subscribe
    <3>2. 0 # None
      OBVIOUS
    <3>3. ASSUME NEW q \in Relay, sub'[q] = None PROVE inbox'[q] = None
      BY <3>1, <3>2, <3>3 DEF TypeOK
    <3> QED
      BY <3>1, <3>3 DEF TypeOK
  <2> QED
    BY <1>1, <2>1, <2>2 DEF Subscribe, TypeOK, publisher
<1>2. ASSUME NEW r \in Relay, SubEnds(r) PROVE TypeOK'
  <2>1. faults' \in 0 .. MaxFaults
    BY <1>2, FaultType DEF SubEnds, TypeOK
  <2> QED
    BY <1>2, <2>1 DEF SubEnds, TypeOK, publisher
<1>3. ASSUME NEW r \in Relay, Receive(r) PROVE TypeOK'
  <2>1. inbox[r] \in Endpoint
    BY <1>3 DEF Receive, TypeOK
  <2>2. [ep |-> inbox[r], pc |-> "upsert"] \in Task
    BY <2>1 DEF Task
  <2>3. seenAge' \in 0 .. Cooldown + 1
    BY <1>3 DEF Receive, TypeOK
  <2>4. tasks' \in SUBSET Task
    BY <1>3, <2>2 DEF Receive, TypeOK
  <2> QED
    BY <1>3, <2>3, <2>4 DEF Receive, TypeOK, publisher
<1>4. ASSUME NEW t \in tasks, WgUpsert(t) \/ MarkConfigured(t) PROVE TypeOK'
  <2>1. t \in Task
    BY DEF TypeOK
  <2> QED
    BY <1>4, <2>1, TaskMoves
       DEF WgUpsert, MarkConfigured, TypeOK, publisher
<1>5. ASSUME NEW t \in tasks, WgUpsertFails(t) PROVE TypeOK'
  <2>1. faults' \in 0 .. MaxFaults
    BY <1>5, FaultType DEF WgUpsertFails
  <2> QED
    BY <1>5, <2>1 DEF WgUpsertFails, TypeOK, publisher
<1> QED
  BY <1>1, <1>2, <1>3, <1>4, <1>5 DEF Punching, Subscription

LEMMA TickType ==
  ASSUME TypeOK, Tick
  PROVE  TypeOK'
<1> USE NostrAssumption DEF NostrAssumption
<1>1. ASSUME NEW r \in Relay
      PROVE  (IF sub[r] = None THEN None ELSE sub[r] + 1)
               \in {None} \union 0 .. SubLife
  <2>1. sub[r] \in {None} \union 0 .. SubLife /\ sub[r] # SubLife
    BY DEF TypeOK, Tick
  <2> QED
    BY <2>1
<1>2. sub' \in [Relay -> {None} \union 0 .. SubLife]
  BY <1>1 DEF Tick
<1>3. seenAge' \in 0 .. Cooldown + 1
  BY OlderType DEF Tick, TypeOK
<1> QED
  BY <1>2, <1>3 DEF Tick, TypeOK

LEMMA EnvironmentType ==
  ASSUME TypeOK, Environment
  PROVE  TypeOK'
<1> USE NostrAssumption DEF NostrAssumption
<1>1. ASSUME NEW e \in Endpoint, Rebind(e) PROVE TypeOK'
  BY <1>1, FaultType DEF Rebind, TypeOK, publisher, subscriber
<1>2. ASSUME NEW r \in Relay, CutOff(r) PROVE TypeOK'
  BY <1>2, FaultType DEF CutOff, TypeOK, publisher, subscriber
<1>3. ASSUME NEW gone \in SUBSET Relay, Restart(gone) PROVE TypeOK'
  <2>1. faults' \in 0 .. MaxFaults
    BY <1>3, FaultType DEF Restart
  <2>2. /\ stored' \in [Relay -> Endpoint \union {None}]
        /\ sub' \in [Relay -> {None} \union 0 .. SubLife]
        /\ inbox' \in [Relay -> Endpoint \union {None}]
    BY <1>3 DEF Restart, TypeOK
  <2>3. seenAge' \in 0 .. Cooldown + 1
    BY <1>3 DEF Restart
  <2> QED
    BY <1>3, <2>1, <2>2, <2>3 DEF Restart, TypeOK, publisher
<1> QED
  BY <1>1, <1>2, <1>3, TickType, PublisherType DEF Environment

LEMMA NextType == TypeOK /\ [Next]_vars => TypeOK'
<1> SUFFICES ASSUME TypeOK, [Next]_vars
             PROVE  TypeOK'
  OBVIOUS
<1>1. CASE UNCHANGED vars
  BY <1>1 DEF vars, publisher, subscriber, TypeOK
<1>2. "ticker" \in Thread /\ "keepalive" \in Thread
  BY DEF Thread
<1> QED
  BY <1>1, <1>2, PublisherType, SubscriberType, EnvironmentType
     DEF Next, Main, Stun

(* The types of publisher, relays and subscriber; the keepalive and the    *)
(* publisher have one idea of the address, and a relay sends events only   *)
(* to a subscription that is open.                                         *)
THEOREM RendezvousType == Spec => []TypeOK
BY InitType, NextType, PTL DEF Spec

-----------------------------------------------------------------------------
(* While a goroutine runs, the event it was started for is recent: the     *)
(* tick that would end the cooldown waits for the goroutine.               *)
Cooling == tasks # {} => seenAge <= Cooldown

(* A goroutine that has not installed its endpoint yet leaves the map in   *)
(* step with the device; one that has is about to bring it up to date.     *)
InStep ==
  \A t \in tasks :
    /\ t.pc = "upsert" => configured = device
    /\ t.pc = "mark" => device = t.ep

RendezvousInv ==
  TypeOK /\ Cooling /\ OneGoroutine /\ InStep /\ ConfiguredIsDevice

LEMMA InitRendezvous == Init => RendezvousInv
<1>1. ASSUME Init
      PROVE  Cooling /\ OneGoroutine /\ InStep /\ ConfiguredIsDevice
  BY <1>1
     DEF Init, Cooling, OneGoroutine, InStep, ConfiguredIsDevice
<1> QED
  BY <1>1, InitType DEF RendezvousInv

(* Nothing but an event, a goroutine, the passing of time and a restart    *)
(* touches what the invariant is about.                                    *)
LEMMA Elsewhere ==
  ASSUME RendezvousInv, TypeOK',
         UNCHANGED <<seenAge, tasks, configured, device>>
  PROVE  RendezvousInv'
BY DEF RendezvousInv, Cooling, OneGoroutine, InStep, ConfiguredIsDevice

(* An event accepted outside the cooldown finds no goroutine running.      *)
LEMMA ReceiveKeeps ==
  ASSUME RendezvousInv, TypeOK', NEW r \in Relay, Receive(r)
  PROVE  RendezvousInv'
<1> DEFINE t == [ep |-> inbox[r], pc |-> "upsert"]
<1>0. seenAge \in Nat /\ Cooldown \in Nat
  BY NostrAssumption DEF NostrAssumption, RendezvousInv, TypeOK
<1>1. CASE Fresh
  <2>1. tasks = {} /\ configured = device
    BY <1>0, <1>1 DEF Fresh, RendezvousInv, Cooling, ConfiguredIsDevice
  <2>2. seenAge' = 0 /\ tasks' \subseteq {t}
    BY <1>1, <2>1 DEF Receive
  <2>3. configured' = configured /\ device' = device
    BY DEF Receive
  <2>4. t.pc = "upsert" /\ Cooling' /\ OneGoroutine'
    BY <1>0, <2>2 DEF Cooling, OneGoroutine, Receive
  <2>5. InStep' /\ ConfiguredIsDevice'
    BY <2>1, <2>2, <2>3, <2>4 DEF InStep, ConfiguredIsDevice
  <2> QED
    BY <2>4, <2>5 DEF RendezvousInv
<1>2. CASE ~Fresh
  BY <1>2, Elsewhere DEF Receive
<1> QED
  BY <1>1, <1>2

(* The only goroutine goes on or ends. *)
LEMMA PunchingKeeps ==
  ASSUME RendezvousInv, TypeOK', Punching
  PROVE  RendezvousInv'
<1>1. PICK t \in tasks : WgUpsert(t) \/ WgUpsertFails(t) \/ MarkConfigured(t)
  BY DEF Punching
<1>2. t \in Task /\ tasks = {t}
  BY DEF RendezvousInv, TypeOK, OneGoroutine
<1>3. Cooling'
  BY <1>1, <1>2
     DEF RendezvousInv, Cooling, WgUpsert, WgUpsertFails, MarkConfigured
<1>4. CASE WgUpsert(t)
  <2> DEFINE u == [t EXCEPT !.pc = "mark"]
  <2>1. tasks' = {u} /\ device' = t.ep
    BY <1>2, <1>4 DEF WgUpsert
  <2>2. u.pc = "mark" /\ u.ep = t.ep
    BY <1>2, TaskMoves
  <2>3. OneGoroutine' /\ InStep' /\ ConfiguredIsDevice'
    BY <2>1, <2>2 DEF OneGoroutine, InStep, ConfiguredIsDevice
  <2> QED
    BY <1>3, <2>3 DEF RendezvousInv
<1>5. CASE WgUpsertFails(t) \/ MarkConfigured(t)
  <2>1. tasks' = {} /\ device' = device
    BY <1>2, <1>5 DEF WgUpsertFails, MarkConfigured
  <2>2. configured' = device
    BY <1>5
       DEF RendezvousInv, InStep, WgUpsertFails, MarkConfigured
  <2>3. OneGoroutine' /\ InStep' /\ ConfiguredIsDevice'
    BY <2>1, <2>2 DEF OneGoroutine, InStep, ConfiguredIsDevice
  <2> QED
    BY <1>3, <2>3 DEF RendezvousInv
<1> QED
  BY <1>1, <1>4, <1>5

LEMMA NextRendezvous == RendezvousInv /\ [Next]_vars => RendezvousInv'
<1> SUFFICES ASSUME RendezvousInv, [Next]_vars
             PROVE  RendezvousInv'
  OBVIOUS
<1>0. TypeOK'
  BY NextType DEF RendezvousInv
<1>1. CASE Punching
  BY <1>0, <1>1, PunchingKeeps
<1>2. ASSUME NEW r \in Relay, Receive(r) PROVE RendezvousInv'
  BY <1>0, <1>2, ReceiveKeeps
<1>3. ASSUME Tick \/ \E gone \in SUBSET Relay : Restart(gone)
      PROVE  RendezvousInv'
  <2>1. tasks' = {} /\ configured' = device'
    BY <1>3 DEF Tick, Restart, RendezvousInv, ConfiguredIsDevice
  <2> QED
    BY <1>0, <2>1
       DEF RendezvousInv, Cooling, OneGoroutine, InStep, ConfiguredIsDevice
<1>4. CASE Main \/ Stun
  BY <1>0, <1>4, Elsewhere
     DEF Main, Stun, ReadAddress, Sign, StartLoops, Keepalive, subscriber
<1>5. ASSUME NEW t \in Thread, NEW r \in Relay, Publishing(t, r)
      PROVE  RendezvousInv'
  BY <1>0, <1>5, Elsewhere DEF Publishing, Publish, PublishFails, subscriber
<1>6. ASSUME NEW r \in Relay, Subscribe(r) \/ SubEnds(r)
      PROVE  RendezvousInv'
  BY <1>0, <1>6, Elsewhere DEF Subscribe, SubEnds
<1>7. ASSUME \/ \E e \in Endpoint : Rebind(e)
             \/ \E r \in Relay : CutOff(r)
             \/ RestartPublisher
      PROVE  RendezvousInv'
  BY <1>0, <1>7, Elsewhere DEF Rebind, CutOff, RestartPublisher, subscriber
<1>8. CASE UNCHANGED vars
  BY <1>0, <1>8, Elsewhere DEF vars, subscriber
<1> QED
  BY <1>1, <1>2, <1>3, <1>4, <1>5, <1>6, <1>7, <1>8
     DEF Next, Subscription, Environment

LEMMA RendezvousInvariant == Spec => []RendezvousInv
BY InitRendezvous, NextRendezvous, PTL DEF Spec

(* The cooldown, longer than a punch, is what keeps two events of one peer *)
(* from being installed at once, over any number of relays.                *)
THEOREM CooldownSerialises == Spec => []OneGoroutine
BY RendezvousInvariant, PTL DEF RendezvousInv

(* Because goroutines do not overlap, the map says what the device has,    *)
(* whatever fails.                                                         *)
THEOREM MapIsDevice == Spec => []ConfiguredIsDevice
BY RendezvousInvariant, PTL DEF RendezvousInv
=============================================================================
