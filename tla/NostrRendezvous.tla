--------------------------- MODULE NostrRendezvous --------------------------
(***************************************************************************)
(* nostr/: a publisher keeps telling the relays where it is, a subscriber  *)
(* listens to all of them and installs in its WireGuard device what it     *)
(* hears.  Every peer is both, but the two roles share nothing that one of *)
(* them changes: each direction between two peers is this specification.   *)
(*                                                                         *)
(* A tick is an interval of the publisher's 30 s ticker.                   *)
(*                                                                         *)
(* External: the relays.  A presence event is replaceable: a relay keeps   *)
(* the last created one, sends it to whoever subscribes, and sends each    *)
(* new one to its subscribers.                                             *)
(***************************************************************************)
EXTENDS Naturals

CONSTANTS
  Relay,
  Endpoint,  \* the publisher's external endpoints, as STUN reports them
  Home,      \* its first one
  None,
  Cooldown,  \* ticks for which a peer is not looked at again (5 min)
  SubLife,   \* ticks after which a subscription is renewed (5 min)
  Faults,    \* the faults that may happen (see FaultKind)
  MaxFaults  \* bound: how many of them happen in one behaviour

FaultKind == {"publish", "sub", "ipc", "rebind", "restart", "cutoff",
              "republish"}

Thread == {"ticker", "keepalive"}

ASSUME NostrAssumption ==
  /\ Home \in Endpoint
  /\ None \notin Endpoint \union Nat
  /\ Cooldown \in Nat \ {0}
  /\ SubLife \in Nat \ {0}
  /\ Faults \subseteq FaultKind
  /\ MaxFaults \in Nat

VARIABLES
  at,          \* the publisher's external endpoint
  current,     \* currentAddr
  last,        \* what the keepalive found last, None at first
  addr,        \* addr[t]: the address thread t is about to publish, or None
  ev,          \* ev[t]: the address in the event thread t has signed
  left,        \* left[t]: relays that event still has to be sent to
  newest,      \* the thread whose event was created last
  due,         \* the ticker has fired
  running,     \* ticker and keepalive have been started
  reach,       \* relays that accept the publisher's events
  stored,      \* stored[r]: the address in the event that relay r keeps
  sub,         \* sub[r]: age of the subscription at r, None if there is none
  inbox,       \* inbox[r]: the event on its way from r (bound: one), or None
  seenAge,     \* time since seen[publisher]; Cooldown + 1 when never
  tasks,       \* punchAndConnect's goroutines
  configured,  \* configured[publisher]
  device,      \* the publisher's endpoint in the WireGuard device
  faults       \* faults that may still happen

publisher  == <<current, last, addr, ev, left, newest, due, running>>
subscriber == <<sub, inbox, seenAge, tasks, configured, device>>
vars == <<at, publisher, reach, stored, subscriber, faults>>

Task == [ep : Endpoint, pc : {"upsert", "mark"}]

(* The publisher has sent its first event, to those relays it got through  *)
(* to; its ticker and its keepalive are running.                           *)
Init ==
  /\ at = Home /\ current = Home
  /\ last = None
  /\ addr = [t \in Thread |-> None]
  /\ ev = [t \in Thread |-> Home]
  /\ left = [t \in Thread |-> {}]
  /\ newest = "ticker"
  /\ due = FALSE /\ running = TRUE
  /\ reach = Relay
  /\ stored \in [Relay -> {None, Home}]
  /\ sub = [r \in Relay |-> None]
  /\ inbox = [r \in Relay |-> None]
  /\ seenAge = Cooldown + 1
  /\ tasks = {}
  /\ configured = None
  /\ device = None
  /\ faults = MaxFaults

Fault(kind) == /\ kind \in Faults
               /\ faults > 0
               /\ faults' = faults - 1

-----------------------------------------------------------------------------
(* A thread is done with its last event, and may take up another one. *)
Idle(t) == addr[t] = None /\ left[t] = {}

(* The ticker has fired: the main thread reads the current address. *)
ReadAddress ==
  /\ due /\ Idle("ticker")
  /\ due' = FALSE
  /\ addr' = [addr EXCEPT !["ticker"] = current]
  /\ UNCHANGED <<at, current, last, ev, left, newest, running, reach, stored,
                 subscriber, faults>>

(* Mutant of Keepalive: the ticker goes on with the old address. *)
MutKeepaliveLocal ==
  /\ running /\ last # at /\ Idle("keepalive")
  /\ last' = at
  /\ addr' = [addr EXCEPT !["keepalive"] = at]
  /\ UNCHANGED <<at, current, ev, left, newest, due, running, reach, stored,
                 subscriber, faults>>

(* startSTUNKeepalive: an address other than the last one, or the first    *)
(* one, becomes the current one and is published at once.  While STUN      *)
(* fails, this step does not happen.                                       *)
Keepalive ==
  /\ running /\ last # at /\ Idle("keepalive")
  /\ last' = at
  /\ current' = at
  /\ addr' = [addr EXCEPT !["keepalive"] = at]
  /\ UNCHANGED <<at, ev, left, newest, due, running, reach, stored,
                 subscriber, faults>>

(* The first event has been sent: ticker and keepalive are started.        *)
StartLoops ==
  /\ ~running /\ Idle("ticker")
  /\ running' = TRUE
  /\ UNCHANGED <<at, current, last, addr, ev, left, newest, due, reach, stored,
                 subscriber, faults>>

(* publishPresence dates and signs the event, ... *)
Sign(t) ==
  /\ addr[t] # None
  /\ ev' = [ev EXCEPT ![t] = addr[t]]
  /\ left' = [left EXCEPT ![t] = Relay]
  /\ newest' = t
  /\ addr' = [addr EXCEPT ![t] = None]
  /\ UNCHANGED <<at, current, last, due, running, reach, stored, subscriber,
                 faults>>

(* Thread t has sent its event to r.  An older event of the other thread,  *)
(* arriving there later, changes nothing any more.                         *)
Sent(t, r) ==
  [u \in Thread |-> IF u = t \/ t = newest THEN left[u] \ {r} ELSE left[u]]

(* ... sends it to each relay in a goroutine; the relay keeps it and       *)
(* passes it on to the subscriber, ...                                     *)
Publish(t, r) ==
  /\ r \in left[t] \intersect reach
  /\ sub[r] # None => inbox[r] = None
  /\ left' = Sent(t, r)
  /\ stored' = [stored EXCEPT ![r] = ev[t]]
  /\ inbox' = IF sub[r] = None THEN inbox ELSE [inbox EXCEPT ![r] = ev[t]]
  /\ UNCHANGED <<at, current, last, addr, ev, newest, due, running, reach, sub,
                 seenAge, tasks, configured, device, faults>>

(* ... or the goroutine gives up, after 8 s at most. *)
PublishFails(t, r) ==
  /\ r \in left[t]
  /\ \/ r \notin reach /\ UNCHANGED faults
     \/ Fault("publish")
  /\ left' = [left EXCEPT ![t] = @ \ {r}]
  /\ UNCHANGED <<at, current, last, addr, ev, newest, due, running, reach,
                 stored, subscriber>>

-----------------------------------------------------------------------------
(* subscribePeers: the goroutine of relay r connects and subscribes; the   *)
(* relay sends what it has stored.                                         *)
Subscribe(r) ==
  /\ sub[r] = None
  /\ sub' = [sub EXCEPT ![r] = 0]
  /\ inbox' = [inbox EXCEPT ![r] = stored[r]]
  /\ UNCHANGED <<at, publisher, reach, stored, seenAge, tasks, configured,
                 device, faults>>

(* The subscription times out, or the connection breaks. *)
SubEnds(r) ==
  /\ sub[r] # None
  /\ \/ sub[r] = SubLife /\ UNCHANGED faults
     \/ Fault("sub")
  /\ sub' = [sub EXCEPT ![r] = None]
  /\ inbox' = [inbox EXCEPT ![r] = None]
  /\ UNCHANGED <<at, publisher, reach, stored, seenAge, tasks, configured,
                 device>>

(* Mutant of Fresh: a peer is looked at whenever an event arrives. *)
MutFreshAlways == TRUE

(* The cooldown of the seen map. *)
Fresh == seenAge > Cooldown

(* An event arrives from r: within the cooldown it is ignored, whatever it *)
(* says; otherwise punchAndConnect starts a goroutine, unless the endpoint *)
(* is configured already.                                                  *)
Receive(r) ==
  /\ inbox[r] # None
  /\ inbox' = [inbox EXCEPT ![r] = None]
  /\ seenAge' = IF Fresh THEN 0 ELSE seenAge
  /\ tasks' = IF Fresh /\ configured # inbox[r]
              THEN tasks \union {[ep |-> inbox[r], pc |-> "upsert"]}
              ELSE tasks
  /\ UNCHANGED <<at, publisher, reach, stored, sub, configured, device,
                 faults>>

(* The goroutine calls wgUpsertPeer, which may fail, ... *)
WgUpsert(t) ==
  /\ t.pc = "upsert"
  /\ tasks' = (tasks \ {t}) \union {[t EXCEPT !.pc = "mark"]}
  /\ device' = t.ep
  /\ UNCHANGED <<at, publisher, reach, stored, sub, inbox, seenAge, configured,
                 faults>>

(* Mutant of WgUpsertFails: the error is only logged. *)
MutWgUpsertFailsMarks(t) ==
  /\ t.pc = "upsert"
  /\ Fault("ipc")
  /\ tasks' = (tasks \ {t}) \union {[t EXCEPT !.pc = "mark"]}
  /\ UNCHANGED <<at, publisher, reach, stored, sub, inbox, seenAge, configured,
                 device>>

WgUpsertFails(t) ==
  /\ t.pc = "upsert"
  /\ Fault("ipc")
  /\ tasks' = tasks \ {t}
  /\ UNCHANGED <<at, publisher, reach, stored, sub, inbox, seenAge, configured,
                 device>>

(* ... and then markConfigured. *)
MarkConfigured(t) ==
  /\ t.pc = "mark"
  /\ tasks' = tasks \ {t}
  /\ configured' = t.ep
  /\ UNCHANGED <<at, publisher, reach, stored, sub, inbox, seenAge, device,
                 faults>>

-----------------------------------------------------------------------------
(* Ages beyond the cooldown are not told apart. *)
Older(age) == IF age > Cooldown THEN age ELSE age + 1

(* 30 s pass.  Publishing (8 s at most), punching (half a second) and the  *)
(* delivery of an event take less; a subscription ends when it times out.  *)
Tick ==
  /\ running /\ ~due /\ \A t \in Thread : Idle(t)
  /\ tasks = {} /\ \A r \in Relay : inbox[r] = None /\ sub[r] # SubLife
  /\ due' = TRUE
  /\ seenAge' = Older(seenAge)
  /\ sub' = [r \in Relay |-> IF sub[r] = None THEN None ELSE sub[r] + 1]
  /\ UNCHANGED <<at, current, last, addr, ev, left, newest, running, reach,
                 stored, inbox, tasks, configured, device, faults>>

(* The publisher's NAT gives it another endpoint. *)
Rebind(e) ==
  /\ Fault("rebind")
  /\ e # at
  /\ at' = e
  /\ UNCHANGED <<publisher, reach, stored, subscriber>>

(* A relay no longer accepts the publisher's events, but keeps its last.   *)
CutOff(r) ==
  /\ Fault("cutoff")
  /\ reach' = reach \ {r}
  /\ UNCHANGED <<at, publisher, stored, subscriber>>

(* The subscriber is started anew.  Its filter leaves out what was created *)
(* ten minutes ago or earlier, which only a relay that has been cut off    *)
(* can still have; for this subscriber such a record is gone.              *)
Restart(gone) ==
  /\ Fault("restart")
  /\ gone \subseteq Relay \ reach
  /\ stored' = [r \in Relay |-> IF r \in gone THEN None ELSE stored[r]]
  /\ sub' = [r \in Relay |-> None]
  /\ inbox' = [r \in Relay |-> None]
  /\ seenAge' = Cooldown + 1
  /\ tasks' = {}
  /\ configured' = None
  /\ device' = None
  /\ UNCHANGED <<at, publisher, reach>>

(* The publisher is started anew: STUN finds its address, which it then    *)
(* publishes, under the identity it has kept (see Startup.tla).            *)
RestartPublisher ==
  /\ Fault("republish")
  /\ current' = at
  /\ last' = None
  /\ addr' = [t \in Thread |-> IF t = "ticker" THEN at ELSE None]
  /\ left' = [t \in Thread |-> {}]
  /\ due' = FALSE
  /\ running' = FALSE
  /\ UNCHANGED <<at, ev, newest, reach, stored, subscriber>>

-----------------------------------------------------------------------------
Main == ReadAddress \/ Sign("ticker") \/ StartLoops

Stun == Keepalive \/ Sign("keepalive")

Publishing(t, r) == Publish(t, r) \/ PublishFails(t, r)

Subscription(r) == Subscribe(r) \/ SubEnds(r) \/ Receive(r)

Punching == \E t \in tasks :
              WgUpsert(t) \/ WgUpsertFails(t) \/ MarkConfigured(t)

Environment ==
  \/ Tick
  \/ \E e \in Endpoint : Rebind(e)
  \/ \E r \in Relay : CutOff(r)
  \/ \E gone \in SUBSET Relay : Restart(gone)
  \/ RestartPublisher

Next == \/ Main \/ Stun \/ Punching
        \/ \E t \in Thread, r \in Relay : Publishing(t, r)
        \/ \E r \in Relay : Subscription(r)
        \/ Environment

Spec == Init /\ [][Next]_vars

(* Tickers fire, goroutines run, and relays that are reached answer.  STUN *)
(* is asked every 20 s and answers in the end.                             *)
Fairness ==
  /\ WF_vars(Main) /\ WF_vars(Stun) /\ WF_vars(Punching) /\ WF_vars(Tick)
  /\ \A t \in Thread, r \in Relay : WF_vars(Publishing(t, r))
  /\ \A r \in Relay : WF_vars(Subscription(r))

FairSpec == Spec /\ Fairness

-----------------------------------------------------------------------------
(* The types of publisher, relays and subscriber.  The publisher's two     *)
(* threads have one idea of its address: what the keepalive has found last *)
(* is what the ticker goes on to publish; and an event is on its way to    *)
(* the subscriber only over a subscription.                                *)
TypeOK ==
  /\ at \in Endpoint /\ current \in Endpoint
  /\ last \in {None, current}
  /\ addr \in [Thread -> Endpoint \union {None}]
  /\ ev \in [Thread -> Endpoint]
  /\ left \in [Thread -> SUBSET Relay]
  /\ newest \in Thread
  /\ due \in BOOLEAN /\ running \in BOOLEAN
  /\ reach \in SUBSET Relay
  /\ stored \in [Relay -> Endpoint \union {None}]
  /\ sub \in [Relay -> {None} \union 0 .. SubLife]
  /\ inbox \in [Relay -> Endpoint \union {None}]
  /\ \A r \in Relay : sub[r] = None => inbox[r] = None
  /\ seenAge \in 0 .. Cooldown + 1
  /\ tasks \in SUBSET Task
  /\ configured \in Endpoint \union {None}
  /\ device \in Endpoint \union {None}
  /\ faults \in 0 .. MaxFaults

(* The cooldown serialises the goroutines: two events of one peer, from    *)
(* one relay or from two, never have their endpoints installed at once.    *)
OneGoroutine == \A s, t \in tasks : s = t

(* configured holds "wgPub -> current endpoint": with no goroutine running *)
(* it is what the device has.  (tor/ keeps the same map without a          *)
(* cooldown; see OnionRegistry.tla.)                                       *)
ConfiguredIsDevice == tasks = {} => configured = device

(* "If the endpoint differs from the previous one (e.g. after a STUN       *)
(* address change) the peer is re-configured": the subscriber settles on   *)
(* the endpoint the publisher has in the end, with the cooldown and events *)
(* out of order, as long as a relay accepts the publisher's events.  One   *)
(* that no longer does must not serve an old one: records are taken in the *)
(* order they arrive in, not by their dates.                               *)
FollowsPublisher ==
  <>[](/\ reach # {}
       /\ \A r \in Relay \ reach : stored[r] \in {None, at})
    => <>[](device = at)
=============================================================================
