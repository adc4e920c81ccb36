------------------------- MODULE OnionRegistry_proofs -----------------------
(***************************************************************************)
(* Proofs about OnionRegistry.tla for any set of peers, endpoints and LAN  *)
(* relation, any lifetime of entries and any number of faults.             *)
(***************************************************************************)
EXTENDS OnionRegistry, TLAPS

LEMMA FaultType ==
  ASSUME TypeOK, NEW kind, Fault(kind)
  PROVE  faults' \in 0 .. MaxFaults
BY RegistryAssumption DEF TypeOK, Fault, RegistryAssumption

LEMMA UpsertedType ==
  ASSUME TypeOK, NEW h \in Node, NEW n \in Node, NEW e \in Endpoint
  PROVE  Upserted(h, n, e) \in [Node -> [Endpoint -> Entry \union {Gone}]]
<1>1. [pub |-> n, age |-> 0] \in Entry
  BY RegistryAssumption DEF Entry, RegistryAssumption
<1> QED
  BY <1>1 DEF Upserted, TypeOK

LEMMA RegistrationType ==
  ASSUME TypeOK, NEW h \in Node, NEW n \in Node, NEW e \in Endpoint,
         Registration(h, n, e)
  PROVE  /\ entries' \in [Node -> [Endpoint -> Entry \union {Gone}]]
         /\ faults' \in 0 .. MaxFaults
<1>1. faults' \in 0 .. MaxFaults
  BY FaultType DEF Registration, TypeOK
<1>2. CASE entries' = Upserted(h, n, e)
  BY <1>1, <1>2, UpsertedType
<1>3. CASE entries' = entries
  BY <1>1, <1>3 DEF TypeOK
<1> QED
  BY <1>2, <1>3 DEF Registration

LEMMA OlderEntry ==
  ASSUME NEW x \in Entry \union {Gone}, x.age + 1 < TTL
  PROVE  /\ x \in Entry
         /\ [x EXCEPT !.age = @ + 1] \in Entry
         /\ [x EXCEPT !.age = @ + 1].pub = x.pub
BY RegistryAssumption DEF Entry, Gone, RegistryAssumption

(* list() never returns a record that has been removed. *)
LEMMA ListedType ==
  ASSUME TypeOK, NEW h \in Node
  PROVE  /\ Listed(h) \in SUBSET Peer
         /\ \A p \in Listed(h) : /\ entries[h][p.ep].pub = p.pub
                                 /\ entries[h][p.ep].age < TTL
<1> SUFFICES ASSUME NEW e \in Endpoint, entries[h][e].age < TTL
             PROVE  [pub |-> entries[h][e].pub, ep |-> e] \in Peer
  BY DEF Listed, Peer
<1>1. entries[h][e] \in Entry \union {Gone}
  BY DEF TypeOK
<1>2. entries[h][e] \in Entry
  BY <1>1, RegistryAssumption DEF Gone, RegistryAssumption
<1> QED
  BY <1>2 DEF Entry, Peer

LEMMA PunchTargetType ==
  ASSUME NEW n \in Node, NEW p \in Peer
  PROVE  PunchTarget(n, p) \in Target
BY DEF PunchTarget, Peer, Target

LEMMA TaskMoves ==
  ASSUME NEW t \in Task
  PROVE  /\ t.node \in Node /\ t.pub \in Node /\ t.ep \in Target
         /\ [t EXCEPT !.pc = "mark"] \in Task
         /\ [t EXCEPT !.pc = "mark"].node = t.node
         /\ [t EXCEPT !.pc = "mark"].pub = t.pub
         /\ [t EXCEPT !.pc = "mark"].ep = t.ep
         /\ [t EXCEPT !.pc = "mark"].pc = "mark"
BY DEF Task

-----------------------------------------------------------------------------
LEMMA InitType == Init => TypeOK
<1> SUFFICES ASSUME Init PROVE TypeOK
  OBVIOUS
<1> USE RegistryAssumption DEF RegistryAssumption
<1>1. hosts \in SUBSET Node /\ onion \in Node
  BY DEF Init
<1>2. faults \in 0 .. MaxFaults
  BY DEF Init
<1>3. entries \in [Node -> [Endpoint -> Entry \union {Gone}]]
  BY DEF Init
<1>4. /\ configured \in [Node -> [Node -> Target \union {None}]]
      /\ device \in [Node -> [Node -> Target \union {None}]]
  BY DEF Init
<1> QED
  BY <1>1, <1>2, <1>3, <1>4 DEF Init, TypeOK

LEMMA RegistryType ==
  ASSUME TypeOK, NEW n \in Node
  PROVE  Registry(n) \in Node /\ Asked(n) \in Node
BY DEF Registry, Asked, TypeOK

LEMMA MainType ==
  ASSUME TypeOK, NEW n \in Node, Main(n)
  PROVE  TypeOK'
<1>1. CASE Join(n)
  <2>1. current[n] \in Endpoint
    BY DEF TypeOK
  <2>2. entries' \in [Node -> [Endpoint -> Entry \union {Gone}]]
    BY <1>1, <2>1, RegistryType, UpsertedType DEF Join
  <2> QED
    BY <1>1, <2>2 DEF Join, TypeOK, place
<1>2. CASE StartRound(n)
  BY <1>2 DEF StartRound, TypeOK, place
<1>3. CASE Register(n)
  <2>1. a[n] \in Endpoint
    BY DEF TypeOK
  <2>2. /\ entries' \in [Node -> [Endpoint -> Entry \union {Gone}]]
        /\ faults' \in 0 .. MaxFaults
    BY <1>3, <2>1, RegistryType, RegistrationType DEF Register
  <2> QED
    BY <1>3, <2>2 DEF Register, TypeOK, place
<1>4. CASE Fetch(n)
  <2>1. todo' \in [Node -> SUBSET Peer]
    <3>1. Asked(n) \in Node
      BY RegistryType
    <3>2. Listed(Asked(n)) \in SUBSET Peer
      BY <3>1, ListedType
    <3> QED
      BY <1>4, <3>2 DEF Fetch, TypeOK
  <2>2. faults' \in 0 .. MaxFaults
    BY <1>4, FaultType DEF Fetch, TypeOK
  <2> QED
    BY <1>4, <2>1, <2>2 DEF Fetch, TypeOK, place
<1>5. ASSUME NEW p \in todo[n], Punch(n, p) PROVE TypeOK'
  <2>1. p \in Peer
    BY DEF TypeOK
  <2>2. /\ [node |-> n, pub |-> p.pub, ep |-> PunchTarget(n, p),
            pc |-> "upsert"] \in Task
        /\ <<n, p.pub>> \in Node \X Node
    BY <2>1, PunchTargetType DEF Task, Peer
  <2>3. tasks' \in SUBSET Task /\ overlapped' \in SUBSET (Node \X Node)
    BY <1>5, <2>2 DEF Punch, TypeOK
  <2>4. todo' \in [Node -> SUBSET Peer]
    BY <1>5 DEF Punch, TypeOK
  <2> QED
    BY <1>5, <2>3, <2>4 DEF Punch, TypeOK, place
<1> QED
  BY <1>1, <1>2, <1>3, <1>4, <1>5 DEF Main

LEMMA DeviceSet ==
  ASSUME NEW f \in [Node -> [Node -> Target \union {None}]], NEW t \in Task
  PROVE  [f EXCEPT ![t.node][t.pub] = t.ep]
           \in [Node -> [Node -> Target \union {None}]]
BY TaskMoves

LEMMA GoroutinesType ==
  ASSUME TypeOK, NEW t \in tasks,
         WgUpsert(t) \/ WgUpsertFails(t) \/ MarkConfigured(t)
  PROVE  TypeOK'
<1>0. t \in Task
  BY DEF TypeOK
<1>1. CASE WgUpsert(t)
  <2>1. tasks' \in SUBSET Task
    BY <1>0, <1>1, TaskMoves DEF WgUpsert, TypeOK
  <2>2. device' \in [Node -> [Node -> Target \union {None}]]
    BY <1>0, <1>1, DeviceSet DEF WgUpsert, TypeOK
  <2> QED
    BY <1>1, <2>1, <2>2 DEF WgUpsert, TypeOK, place
<1>2. CASE WgUpsertFails(t)
  <2>1. faults' \in 0 .. MaxFaults
    BY <1>2, FaultType DEF WgUpsertFails
  <2> QED
    BY <1>2, <2>1 DEF WgUpsertFails, TypeOK, place
<1>3. CASE MarkConfigured(t)
  <2>1. configured' \in [Node -> [Node -> Target \union {None}]]
    BY <1>0, <1>3, DeviceSet DEF MarkConfigured, TypeOK
  <2> QED
    BY <1>3, <2>1 DEF MarkConfigured, TypeOK, place
<1> QED
  BY <1>1, <1>2, <1>3

LEMMA StunType ==
  ASSUME TypeOK, NEW n \in Node, Stun(n)
  PROVE  TypeOK'
<1>1. CASE Keepalive(n)
  BY <1>1 DEF Keepalive, TypeOK, place
<1>2. CASE Reregister(n)
  <2>1. rereg[n] \in Endpoint
    BY <1>2 DEF Reregister, TypeOK
  <2>2. /\ entries' \in [Node -> [Endpoint -> Entry \union {Gone}]]
        /\ faults' \in 0 .. MaxFaults
    BY <1>2, <2>1, RegistryType, RegistrationType DEF Reregister
  <2> QED
    BY <1>2, <2>2 DEF Reregister, TypeOK, place
<1> QED
  BY <1>1, <1>2 DEF Stun

LEMMA HostsType ==
  ASSUME TypeOK, NEW n \in Node, Hosts(n)
  PROVE  /\ hosts' \in SUBSET Node
         /\ entries' \in [Node -> [Endpoint -> Entry \union {Gone}]]
<1>1. current[n] \in Endpoint
  BY DEF TypeOK
<1>2. UNCHANGED entries \/ entries' = Upserted(n, n, current[n])
  BY Zenon DEF Hosts, Upserted
<1>3. entries' \in [Node -> [Endpoint -> Entry \union {Gone}]]
  <2>1. /\ Upserted(n, n, current[n])
              \in [Node -> [Endpoint -> Entry \union {Gone}]]
        /\ entries \in [Node -> [Endpoint -> Entry \union {Gone}]]
    BY <1>1, UpsertedType DEF TypeOK
  <2> QED
    BY <1>2, <2>1
<1>4. hosts' \in SUBSET Node
  BY DEF Hosts, TypeOK
<1> QED
  BY <1>3, <1>4

LEMMA EnvironmentType ==
  ASSUME TypeOK, Environment
  PROVE  TypeOK'
<1>1. CASE Tick
  <2>1. ASSUME NEW h \in Node, NEW e \in Endpoint
        PROVE  (IF entries[h][e].age + 1 < TTL
                THEN [entries[h][e] EXCEPT !.age = @ + 1] ELSE Gone)
                  \in Entry \union {Gone}
    <3>1. entries[h][e] \in Entry \union {Gone}
      BY DEF TypeOK
    <3> QED
      BY <3>1, OlderEntry
  <2>2. entries' \in [Node -> [Endpoint -> Entry \union {Gone}]]
    BY <1>1, <2>1 DEF Tick
  <2> QED
    BY <1>1, <2>2 DEF Tick, TypeOK, place
<1>2. ASSUME NEW n \in Node, Restart(n) PROVE TypeOK'
  <2>1. faults' \in 0 .. MaxFaults
    BY <1>2, FaultType DEF Restart
  <2>2. hosts' \in SUBSET Node /\ onion' \in Node
    BY <1>2 DEF Restart, TypeOK
  <2>3. entries' \in [Node -> [Endpoint -> Entry \union {Gone}]]
    BY <1>2 DEF Restart, TypeOK
  <2>4. /\ configured' \in [Node -> [Node -> Target \union {None}]]
        /\ device' \in [Node -> [Node -> Target \union {None}]]
    BY <1>2 DEF Restart, TypeOK
  <2>5. /\ current' \in [Node -> Endpoint] /\ a' \in [Node -> Endpoint]
        /\ last' \in [Node -> Endpoint \union {None}]
        /\ rereg' \in [Node -> Endpoint \union {None}]
        /\ pc' \in [Node -> {"join", "idle", "register", "fetch"}]
        /\ url' \in [Node -> BOOLEAN]
    BY <1>2 DEF Restart, TypeOK
  <2>6. tasks' \in SUBSET Task /\ todo' \in [Node -> SUBSET Peer]
    BY <1>2 DEF Restart, TypeOK
  <2> QED
    BY <1>2, <2>1, <2>2, <2>3, <2>4, <2>5, <2>6 DEF Restart, TypeOK
<1>3. ASSUME NEW n \in Node, TakeOver(n) \/ Split(n) PROVE TypeOK'
  <2>1. Hosts(n) /\ onion' \in Node
    BY <1>3 DEF TakeOver, Split, TypeOK
  <2>2. faults' \in 0 .. MaxFaults
    BY <1>3, FaultType DEF TakeOver, Split, TypeOK
  <2> QED
    BY <2>1, <2>2, HostsType DEF Hosts, TypeOK, client
<1>4. ASSUME NEW n \in Node, NEW e \in Endpoint, Rebind(n, e) PROVE TypeOK'
  <2>1. faults' \in 0 .. MaxFaults
    BY <1>4, FaultType DEF Rebind
  <2> QED
    BY <1>4, <2>1 DEF Rebind, TypeOK, client
<1> QED
  BY <1>1, <1>2, <1>3, <1>4 DEF Environment

LEMMA NextType == TypeOK /\ [Next]_vars => TypeOK'
<1> SUFFICES ASSUME TypeOK, [Next]_vars
             PROVE  TypeOK'
  OBVIOUS
<1>1. CASE UNCHANGED vars
  BY <1>1 DEF vars, place, client, TypeOK
<1> QED
  BY <1>1, MainType, GoroutinesType, StunType, EnvironmentType
     DEF Next, Goroutines

(* The types of peers and registries: entries are of peers, and removed    *)
(* ones are never listed.                                                  *)
THEOREM RegistryStateType == Spec => []TypeOK
BY InitType, NextType, PTL DEF Spec
-----------------------------------------------------------------------------
(* What holds of the goroutines of n for m as long as no two have          *)
(* overlapped: there is at most one, and until it has installed its        *)
(* endpoint map and device agree, on something else.                       *)
Lone(s) == <<s.node, s.pub>> \notin overlapped

Alone ==
  \A s, t \in tasks :
    Lone(s) /\ s.node = t.node /\ s.pub = t.pub => s = t

InStep ==
  \A t \in tasks :
    Lone(t) /\ t.pub # t.node
      => /\ t.pc = "upsert"
             => /\ configured[t.node][t.pub] = device[t.node][t.pub]
                /\ device[t.node][t.pub] # t.ep
         /\ t.pc = "mark" => device[t.node][t.pub] = t.ep

PairInv == TypeOK /\ Alone /\ InStep /\ ConfiguredUnlessOverlap

LEMMA InitPair == Init => PairInv
<1>1. ASSUME Init
      PROVE  Alone /\ InStep /\ ConfiguredUnlessOverlap
  BY <1>1 DEF Init, Alone, InStep, ConfiguredUnlessOverlap
<1> QED
  BY <1>1, InitType DEF PairInv

(* Everything else leaves the goroutines, the map and the device alone. *)
LEMMA ElsewherePair ==
  ASSUME PairInv, TypeOK',
         UNCHANGED <<tasks, configured, device, overlapped>>
  PROVE  PairInv'
BY DEF PairInv, Alone, InStep, Lone, ConfiguredUnlessOverlap, Busy

LEMMA Written ==
  ASSUME NEW S, NEW f \in [Node -> [Node -> S]], NEW t \in Task,
         NEW n \in Node, NEW m \in Node
  PROVE  [f EXCEPT ![t.node][t.pub] = t.ep][n][m]
           = IF n = t.node /\ m = t.pub THEN t.ep ELSE f[n][m]
BY TaskMoves

(* A goroutine is started for a peer that has one: from now on the two are *)
(* told apart from the rest.  Otherwise the map is the device's when it    *)
(* starts.                                                                 *)
LEMMA PunchPair ==
  ASSUME PairInv, TypeOK', NEW n \in Node, NEW p \in todo[n], Punch(n, p)
  PROVE  PairInv'
<1> DEFINE m == p.pub
<1> DEFINE u == [node |-> n, pub |-> m, ep |-> PunchTarget(n, p),
                 pc |-> "upsert"]
<1>0. /\ u.node = n /\ u.pub = m /\ u.pc = "upsert"
      /\ UNCHANGED <<configured, device>>
  BY DEF Punch
<1>1. m \in Node
  BY DEF PairInv, TypeOK, Peer
<1>2. CASE Skips(n, p)
  BY <1>2, ElsewherePair DEF Punch
<1>3. CASE ~Skips(n, p) /\ Busy(n, m)
  <2>1. /\ tasks' = tasks \union {u}
        /\ overlapped' = overlapped \union {<<n, m>>}
    BY <1>3 DEF Punch, Busy
  <2>2. ASSUME NEW s \in tasks', Lone(s)'
        PROVE  s \in tasks /\ Lone(s)
    BY <1>0, <2>1, <2>2 DEF Lone
  <2>3. Alone'
    <3> SUFFICES ASSUME NEW s \in tasks', NEW t \in tasks', Lone(s)',
                        s.node = t.node, s.pub = t.pub
                 PROVE  s = t
      BY DEF Alone
    <3>1. Lone(t)'
      BY DEF Lone
    <3> QED
      BY <2>2, <3>1 DEF PairInv, Alone
  <2>4. InStep'
    BY <1>0, <2>2 DEF PairInv, InStep
  <2>5. ConfiguredUnlessOverlap'
    BY <1>0, <2>1 DEF PairInv, ConfiguredUnlessOverlap, Busy
  <2> QED
    BY <2>3, <2>4, <2>5 DEF PairInv
<1>4. CASE ~Skips(n, p) /\ ~Busy(n, m)
  <2>1. tasks' = tasks \union {u} /\ overlapped' = overlapped
    BY <1>4 DEF Punch, Busy
  <2>2. \A s \in tasks : ~(s.node = n /\ s.pub = m)
    BY <1>4 DEF Busy
  <2>3. Alone'
    BY <1>0, <2>1, <2>2 DEF PairInv, Alone, Lone
  <2>4. Lone(u) /\ m # n => configured[n][m] = device[n][m]
    BY <1>0, <1>1, <1>4 DEF PairInv, ConfiguredUnlessOverlap, Lone
  <2>5. InStep'
    <3>1. configured[n][m] # u.ep
      BY <1>4 DEF Skips
    <3> QED
      BY <1>0, <2>1, <2>4, <3>1 DEF PairInv, InStep, Lone
  <2>6. ConfiguredUnlessOverlap'
    BY <1>0, <2>1 DEF PairInv, ConfiguredUnlessOverlap, Busy
  <2> QED
    BY <2>3, <2>5, <2>6 DEF PairInv
<1> QED
  BY <1>2, <1>3, <1>4

(* A goroutine for a peer other than itself that overlaps no other has the *)
(* peer's entries of map and device to itself.                             *)
LEMMA GoroutinePair ==
  ASSUME PairInv, TypeOK', NEW t \in tasks,
         WgUpsert(t) \/ WgUpsertFails(t) \/ MarkConfigured(t)
  PROVE  PairInv'
<1>0. /\ t \in Task /\ t.node \in Node /\ t.pub \in Node
      /\ UNCHANGED overlapped
  BY TaskMoves
     DEF PairInv, TypeOK, WgUpsert, WgUpsertFails, MarkConfigured
<1>a. \A s \in tasks : s.node \in Node /\ s.pub \in Node
  BY TaskMoves DEF PairInv, TypeOK
<1>b. /\ configured \in [Node -> [Node -> Target \union {None}]]
      /\ device \in [Node -> [Node -> Target \union {None}]]
  BY DEF PairInv, TypeOK
<1>c. ASSUME NEW s \in tasks, s # t, Lone(s)
      PROVE  ~(s.node = t.node /\ s.pub = t.pub)
  BY <1>c DEF PairInv, Alone
<1>1. CASE WgUpsert(t)
  <2> DEFINE u == [t EXCEPT !.pc = "mark"]
  <2>1. /\ u.node = t.node /\ u.pub = t.pub /\ u.ep = t.ep
        /\ u.pc = "mark" /\ Lone(u) = Lone(t)
    BY <1>0, TaskMoves DEF Lone
  <2>2. /\ tasks' = (tasks \ {t}) \union {u}
        /\ UNCHANGED configured
    BY <1>1 DEF WgUpsert
  <2>3. ASSUME NEW n \in Node, NEW m \in Node, m # n
        PROVE  device'[n][m] = IF n = t.node /\ m = t.pub THEN t.ep
                               ELSE device[n][m]
    <3>1. CASE t.pub = t.node
      BY <1>1, <2>3, <3>1 DEF WgUpsert
    <3>2. CASE t.pub # t.node
      <4>1. device' = [device EXCEPT ![t.node][t.pub] = t.ep]
        BY <1>1, <3>2 DEF WgUpsert
      <4> QED
        BY <1>0, <1>b, <4>1, Written
    <3> QED
      BY <3>1, <3>2
  <2>4. Alone'
    <3> SUFFICES ASSUME NEW s \in tasks', NEW r \in tasks', Lone(s)',
                        s.node = r.node, s.pub = r.pub
                 PROVE  s = r
      BY DEF Alone
    <3>1. Lone(s) /\ Lone(r)
      BY <1>0 DEF Lone
    <3> QED
      BY <1>c, <2>1, <2>2, <3>1 DEF PairInv, Alone
  <2>5. InStep'
    <3> SUFFICES ASSUME NEW s \in tasks', Lone(s)', s.pub # s.node
                 PROVE  /\ s.pc = "upsert"
                            => /\ configured'[s.node][s.pub]
                                    = device'[s.node][s.pub]
                               /\ device'[s.node][s.pub] # s.ep
                        /\ s.pc = "mark" => device'[s.node][s.pub] = s.ep
      BY DEF InStep
    <3>1. Lone(s)
      BY <1>0 DEF Lone
    <3>2. CASE s = u
      BY <1>0, <2>1, <2>3, <3>2
    <3>3. CASE s # u
      <4>1. s \in tasks /\ s # t /\ s.node \in Node /\ s.pub \in Node
        BY <1>a, <2>2, <3>3
      <4>2. device'[s.node][s.pub] = device[s.node][s.pub]
        BY <1>c, <2>3, <3>1, <4>1
      <4> QED
        BY <2>2, <3>1, <4>1, <4>2 DEF PairInv, InStep
    <3> QED
      BY <3>2, <3>3
  <2>6. ConfiguredUnlessOverlap'
    <3> SUFFICES ASSUME NEW n \in Node, NEW m \in Node, m # n,
                        ~Busy(n, m)', <<n, m>> \notin overlapped'
                 PROVE  configured'[n][m] = device'[n][m]
      BY DEF ConfiguredUnlessOverlap
    <3>1. u \in tasks' /\ ~(n = t.node /\ m = t.pub)
      BY <2>1, <2>2 DEF Busy
    <3>2. ~Busy(n, m)
      BY <2>2, <3>1 DEF Busy
    <3> QED
      BY <1>0, <2>2, <2>3, <3>1, <3>2 DEF PairInv, ConfiguredUnlessOverlap
  <2> QED
    BY <2>4, <2>5, <2>6 DEF PairInv
<1>2. CASE WgUpsertFails(t) \/ MarkConfigured(t)
  <2>1. tasks' = tasks \ {t} /\ UNCHANGED device
    BY <1>2 DEF WgUpsertFails, MarkConfigured
  <2>2. ASSUME NEW n \in Node, NEW m \in Node,
               ~(n = t.node /\ m = t.pub)
        PROVE  configured'[n][m] = configured[n][m]
    <3>1. CASE WgUpsertFails(t)
      BY <3>1 DEF WgUpsertFails
    <3>2. CASE MarkConfigured(t)
      <4>1. configured' = [configured EXCEPT ![t.node][t.pub] = t.ep]
        BY <3>2 DEF MarkConfigured
      <4> QED
        BY <1>0, <1>b, <2>2, <4>1, Written
    <3> QED
      BY <1>2, <3>1, <3>2
  <2>3. ASSUME Lone(t), t.pub # t.node
        PROVE  configured'[t.node][t.pub] = device[t.node][t.pub]
    <3>1. CASE WgUpsertFails(t)
      BY <2>3, <3>1 DEF WgUpsertFails, PairInv, InStep
    <3>2. CASE MarkConfigured(t)
      <4>1. configured' = [configured EXCEPT ![t.node][t.pub] = t.ep]
        BY <3>2 DEF MarkConfigured
      <4>2. configured'[t.node][t.pub] = t.ep
        BY <1>0, <1>b, <4>1, Written
      <4> QED
        BY <2>3, <3>2, <4>2 DEF MarkConfigured, PairInv, InStep
    <3> QED
      BY <1>2, <3>1, <3>2
  <2>4. Alone'
    BY <1>0, <2>1 DEF PairInv, Alone, Lone
  <2>5. InStep'
    <3> SUFFICES ASSUME NEW s \in tasks', Lone(s)', s.pub # s.node
                 PROVE  /\ s.pc = "upsert"
                            => /\ configured'[s.node][s.pub]
                                    = device'[s.node][s.pub]
                               /\ device'[s.node][s.pub] # s.ep
                        /\ s.pc = "mark" => device'[s.node][s.pub] = s.ep
      BY DEF InStep
    <3>1. Lone(s) /\ s \in tasks /\ s # t
      BY <1>0, <2>1 DEF Lone
    <3>2. configured'[s.node][s.pub] = configured[s.node][s.pub]
      BY <1>a, <1>c, <2>2, <3>1
    <3> QED
      BY <2>1, <3>1, <3>2 DEF PairInv, InStep
  <2>6. ConfiguredUnlessOverlap'
    <3> SUFFICES ASSUME NEW n \in Node, NEW m \in Node, m # n,
                        ~Busy(n, m)', <<n, m>> \notin overlapped'
                 PROVE  configured'[n][m] = device'[n][m]
      BY DEF ConfiguredUnlessOverlap
    <3>1. CASE n = t.node /\ m = t.pub
      BY <1>0, <2>1, <2>3, <3>1 DEF Lone
    <3>2. CASE ~(n = t.node /\ m = t.pub)
      <4>1. ~Busy(n, m)
        BY <2>1, <3>2 DEF Busy
      <4> QED
        BY <1>0, <2>1, <2>2, <3>2, <4>1
           DEF PairInv, ConfiguredUnlessOverlap
    <3> QED
      BY <3>1, <3>2
  <2> QED
    BY <2>4, <2>5, <2>6 DEF PairInv
<1> QED
  BY <1>1, <1>2

LEMMA RestartPair ==
  ASSUME PairInv, TypeOK', NEW n \in Node, Restart(n)
  PROVE  PairInv'
<1>1. /\ tasks' = {t \in tasks : t.node # n}
      /\ UNCHANGED overlapped
  BY DEF Restart
<1>2. ASSUME NEW k \in Node, NEW m \in Node
      PROVE  /\ k = n => configured'[k][m] = device'[k][m]
             /\ k # n => /\ configured'[k][m] = configured[k][m]
                         /\ device'[k][m] = device[k][m]
  BY DEF Restart, PairInv, TypeOK
<1>3. Alone'
  BY <1>1 DEF PairInv, Alone, Lone
<1>4. InStep'
  <2> SUFFICES ASSUME NEW s \in tasks', Lone(s)', s.pub # s.node
               PROVE  /\ s.pc = "upsert"
                          => /\ configured'[s.node][s.pub]
                                  = device'[s.node][s.pub]
                             /\ device'[s.node][s.pub] # s.ep
                      /\ s.pc = "mark" => device'[s.node][s.pub] = s.ep
    BY DEF InStep
  <2>1. Lone(s) /\ s \in tasks /\ s.node # n
    BY <1>1 DEF Lone
  <2>2. s.node \in Node /\ s.pub \in Node
    BY <2>1, TaskMoves DEF PairInv, TypeOK
  <2> QED
    BY <1>2, <2>1, <2>2 DEF PairInv, InStep
<1>5. ConfiguredUnlessOverlap'
  <2> SUFFICES ASSUME NEW k \in Node, NEW m \in Node, m # k,
                      ~Busy(k, m)', <<k, m>> \notin overlapped'
               PROVE  configured'[k][m] = device'[k][m]
    BY DEF ConfiguredUnlessOverlap
  <2>1. k # n => ~Busy(k, m)
    BY <1>1 DEF Busy
  <2> QED
    BY <1>1, <1>2, <2>1 DEF PairInv, ConfiguredUnlessOverlap
<1> QED
  BY <1>3, <1>4, <1>5 DEF PairInv

LEMMA NextPair == PairInv /\ [Next]_vars => PairInv'
<1> SUFFICES ASSUME PairInv, [Next]_vars
             PROVE  PairInv'
  OBVIOUS
<1>0. TypeOK'
  BY NextType DEF PairInv
<1>1. ASSUME NEW n \in Node,
             Join(n) \/ StartRound(n) \/ Register(n) \/ Fetch(n) \/ Stun(n)
      PROVE  PairInv'
  BY <1>0, <1>1, ElsewherePair
     DEF Join, StartRound, Register, Fetch, Stun, Keepalive, Reregister
<1>2. ASSUME NEW n \in Node, NEW p \in todo[n], Punch(n, p) PROVE PairInv'
  BY <1>0, <1>2, PunchPair
<1>3. ASSUME NEW n \in Node, Goroutines(n) PROVE PairInv'
  BY <1>0, <1>3, GoroutinePair DEF Goroutines
<1>4. ASSUME NEW n \in Node, Restart(n) PROVE PairInv'
  BY <1>0, <1>4, RestartPair
<1>5. ASSUME NEW n \in Node, TakeOver(n) \/ Split(n) PROVE PairInv'
  BY <1>0, <1>5, ElsewherePair DEF TakeOver, Split, Hosts, client
<1>6. ASSUME Tick \/ \E n \in Node, e \in Endpoint : Rebind(n, e)
      PROVE  PairInv'
  BY <1>0, <1>6, ElsewherePair DEF Tick, Rebind, client
<1>7. CASE UNCHANGED vars
  BY <1>0, <1>7, ElsewherePair DEF vars, client
<1> QED
  BY <1>1, <1>2, <1>3, <1>4, <1>5, <1>6, <1>7 DEF Next, Main, Environment

LEMMA PairInvariant == Spec => []PairInv
BY InitPair, NextPair, PTL DEF Spec

(* configuredPeers says what the device has for every peer whose           *)
(* goroutines have never overlapped: that is all that can part the two.    *)
THEOREM OnlyOverlapParts == Spec => []ConfiguredUnlessOverlap
BY PairInvariant, PTL DEF PairInv

(* A goroutine that no other one for its peer has overlapped installs      *)
(* something the device does not have: the check of punchAndConnect, made  *)
(* by the main thread, still holds when the goroutine it has started calls *)
(* wgUpsertPeer, over rebindings, restarts, splits and failures.           *)
THEOREM NeverTwice == Spec => []InstalledOnce
<1>1. PairInv => InstalledOnce
  BY DEF PairInv, InStep, Lone, InstalledOnce
<1> QED
  BY <1>1, PairInvariant, PTL
=============================================================================
