---------------------------- MODULE OnionRegistry ---------------------------
(***************************************************************************)
(* What tor/ does once a registry is reachable: every peer registers its   *)
(* external endpoint there in rounds, fetches the other peers, and for     *)
(* each of them starts a goroutine that punches, calls wgUpsertPeer and    *)
(* marks the peer as configured.  How a peer comes to host the registry is *)
(* the subject of OnionFailover.tla; here it happens in one step, whenever *)
(* the onion leads nowhere, and also when some peer only thinks so: from   *)
(* then on there are two registries, as OnionFailover shows there may be.  *)
(***************************************************************************)
EXTENDS Naturals, FiniteSets

CONSTANTS
  Node,      \* peers; a peer stands for its WireGuard public key too
  Endpoint,  \* external address:port pairs, as STUN reports them
  Home,      \* Home[n]: the endpoint that n's NAT gives it at first
  FirstHosts, \* the sets of peers that may host a registry at first
  Lan,       \* <<n, m>>: n reaches the LocalIP that m advertises
  None,
  TTL,       \* lifetime of an entry, in ticks (10 min in the code)
  Backlog,   \* bound: Backlog[n] goroutines of n still work as a round starts
  Faults,    \* the faults that may happen (see FaultKind)
  MaxFaults  \* bound: how many of them happen in one behaviour

FaultKind == {"net", "ipc", "rebind", "restart", "split"}

ASSUME RegistryAssumption ==
  /\ Lan \subseteq Node \X Node
  /\ \A n \in Node : <<n, n>> \notin Lan
  /\ Home \in [Node -> Endpoint]
  /\ FirstHosts \subseteq SUBSET Node
  /\ \A m, n \in Node : m # n => Home[m] # Home[n]
  /\ None \notin Endpoint
  /\ None \notin Node
  /\ TTL \in Nat \ {0}
  /\ Backlog \in [Node -> Nat]
  /\ Faults \subseteq FaultKind
  /\ MaxFaults \in Nat

VARIABLES
  at,          \* at[n]: n's external endpoint
  current,     \* current[n]: currentAddr
  last,        \* last[n]: what the keepalive found last, None at first
  rereg,       \* rereg[n]: what onAddrChange is about to register, or None
  hosts,       \* the peers that have set localURL
  onion,       \* the peer the onion leads to
  entries,     \* entries[h][e]: the entry with key e in h's registry
  pc,          \* pc[n]: the main thread: "join", "idle", "register", "fetch"
  a,           \* a[n]: the address its round has started with
  url,         \* url[n]: the round has started with n's own localURL
  todo,        \* todo[n]: peers fetched and not yet looked at
  tasks,       \* the punching goroutines (two that are alike count as one)
  configured,  \* configured[n][m]: configuredPeers
  device,      \* device[n][m]: endpoint of peer m in n's WireGuard device
  due,         \* due[n]: n has finished no round since the last tick
  overlapped,  \* history: <<n, m>> when n has run two goroutines for m
  faults       \* faults that may still happen

client == <<current, last, rereg, pc, a, url, todo, tasks, configured,
            device, due>>
place  == <<at, hosts, onion>>
vars   == <<place, client, entries, overlapped, faults>>

LanEndpoint(m) == <<"lan", m>>
Target == Endpoint \union {LanEndpoint(m) : m \in Node}
Entry  == [pub : Node, age : 0 .. TTL]
Gone   == [pub |-> None, age |-> TTL]
Peer   == [pub : Node, ep : Endpoint]
Task   == [node : Node, pub : Node, ep : Target, pc : {"upsert", "mark"}]

Init ==
  /\ at = Home
  /\ current = at
  /\ last = [n \in Node |-> None]
  /\ rereg = [n \in Node |-> None]
  /\ hosts \in FirstHosts
  /\ onion \in IF hosts = {} THEN Node ELSE hosts
  /\ entries = [h \in Node |-> [e \in Endpoint |-> Gone]]
  /\ pc = [n \in Node |-> "join"]
  /\ a = at
  /\ url = [n \in Node |-> FALSE]
  /\ todo = [n \in Node |-> {}]
  /\ tasks = {}
  /\ configured = [n \in Node |-> [m \in Node |-> None]]
  /\ device = [n \in Node |-> [m \in Node |-> None]]
  /\ due = [n \in Node |-> FALSE]
  /\ overlapped = {}
  /\ faults = MaxFaults

Fault(kind) == /\ kind \in Faults
               /\ faults > 0
               /\ faults' = faults - 1

-----------------------------------------------------------------------------
(* registryClient: a host asks its own registry, whatever the onion does.  *)
Registry(n) == IF n \in hosts THEN n ELSE onion

(* A round asks the registry it has started with. *)
Asked(n) == IF url[n] THEN n ELSE onion

(* upsert on the server: entries are keyed by ip:port, not by public key.  *)
Upserted(h, n, e) == [entries EXCEPT ![h][e] = [pub |-> n, age |-> 0]]

(* Registering n at e with host h, which may be none any more, or fail. *)
Registration(h, n, e) ==
  \/ h \in hosts /\ entries' = Upserted(h, n, e) /\ UNCHANGED faults
  \/ h \notin hosts /\ UNCHANGED <<entries, faults>>
  \/ Fault("net") /\ UNCHANGED entries

(* The first registration; it is tried again until it succeeds. *)
Join(n) ==
  /\ pc[n] = "join" /\ Registry(n) \in hosts
  /\ entries' = Upserted(Registry(n), n, current[n])
  /\ pc' = [pc EXCEPT ![n] = "idle"]
  /\ UNCHANGED <<place, current, last, rereg, a, url, todo, tasks, configured,
                 device, due, overlapped, faults>>

(* doRound: the address is read once, ...  The ticker fires every 20 s and *)
(* keeps one tick while a round runs: after a slow round the next one      *)
(* starts at once, with goroutines of the last one still at work.          *)
StartRound(n) ==
  /\ pc[n] = "idle" /\ todo[n] = {}
  /\ Cardinality({t \in tasks : t.node = n}) <= Backlog[n]
  /\ a' = [a EXCEPT ![n] = current[n]]
  /\ url' = [url EXCEPT ![n] = n \in hosts]
  /\ pc' = [pc EXCEPT ![n] = "register"]
  /\ UNCHANGED <<place, current, last, rereg, entries, todo, tasks, configured,
                 device, due, overlapped, faults>>

(* ... registered, ... *)
Register(n) ==
  /\ pc[n] = "register"
  /\ Registration(Asked(n), n, a[n])
  /\ pc' = [pc EXCEPT ![n] = "fetch"]
  /\ UNCHANGED <<place, current, last, rereg, a, url, todo, tasks, configured,
                 device, due, overlapped>>

(* list on the server: the entries that have not expired. *)
Listed(h) == {[pub |-> entries[h][e].pub, ep |-> e] :
                e \in {d \in Endpoint : entries[h][d].age < TTL}}

(* ... and the peers are fetched, whether or not the registration failed.  *)
Fetch(n) ==
  /\ pc[n] = "fetch"
  /\ \/ /\ Asked(n) \in hosts
        /\ todo' = [todo EXCEPT ![n] = Listed(Asked(n))]
        /\ UNCHANGED faults
     \/ Asked(n) \notin hosts /\ UNCHANGED <<todo, faults>>
     \/ Fault("net") /\ UNCHANGED todo
  /\ url' = [url EXCEPT ![n] = FALSE]
  /\ pc' = [pc EXCEPT ![n] = "idle"]
  /\ due' = [due EXCEPT ![n] = FALSE]
  /\ UNCHANGED <<place, current, last, rereg, entries, a, tasks, configured,
                 device, overlapped>>

(* punchAndConnect, its cases: the LAN address of a peer on the same LAN,  *)
(* and otherwise the registered one, through a hairpin or not.             *)
PunchTarget(n, p) == IF <<n, p.pub>> \in Lan THEN LanEndpoint(p.pub) ELSE p.ep

(* Mutant of Skips: peers are configured again in every round. *)
MutSkipsOnlySelf(n, p) == p.ep = a[n]

(* This peer's own address, or a peer configured there already. *)
Skips(n, p) == \/ p.ep = a[n]
               \/ configured[n][p.pub] = PunchTarget(n, p)

(* punchAndConnect, for the next peer of the list, in the order of a map.  *)
Punch(n, p) ==
  LET t == [node |-> n, pub |-> p.pub, ep |-> PunchTarget(n, p),
            pc |-> "upsert"]
  IN /\ todo' = [todo EXCEPT ![n] = @ \ {p}]
     /\ tasks' = IF Skips(n, p) THEN tasks ELSE tasks \union {t}
     /\ overlapped' = IF ~Skips(n, p) /\ \E s \in tasks : /\ s.node = n
                                                          /\ s.pub = p.pub
                      THEN overlapped \union {<<n, p.pub>>} ELSE overlapped
     /\ UNCHANGED <<place, current, last, rereg, entries, pc, a, url,
                    configured, device, due, faults>>

(* The goroutine calls wgUpsertPeer; the device ignores its own key.       *)
WgUpsert(t) ==
  /\ t.pc = "upsert"
  /\ tasks' = (tasks \ {t}) \union {[t EXCEPT !.pc = "mark"]}
  /\ device' = IF t.pub = t.node THEN device
               ELSE [device EXCEPT ![t.node][t.pub] = t.ep]
  /\ UNCHANGED <<place, current, last, rereg, entries, pc, a, url, todo,
                 configured, due, overlapped, faults>>

(* Mutant of WgUpsertFails: the peer is marked although IpcSet failed. *)
MutWgUpsertFailsMarks(t) ==
  /\ t.pc = "upsert"
  /\ Fault("ipc")
  /\ tasks' = tasks \ {t}
  /\ configured' = [configured EXCEPT ![t.node][t.pub] = t.ep]
  /\ UNCHANGED <<place, current, last, rereg, entries, pc, a, url, todo,
                 device, due, overlapped>>

WgUpsertFails(t) ==
  /\ t.pc = "upsert"
  /\ Fault("ipc")
  /\ tasks' = tasks \ {t}
  /\ UNCHANGED <<place, current, last, rereg, entries, pc, a, url, todo,
                 configured, device, due, overlapped>>

MarkConfigured(t) ==
  /\ t.pc = "mark"
  /\ tasks' = tasks \ {t}
  /\ configured' = [configured EXCEPT ![t.node][t.pub] = t.ep]
  /\ UNCHANGED <<place, current, last, rereg, entries, pc, a, url, todo,
                 device, due, overlapped, faults>>

-----------------------------------------------------------------------------
(* startSTUNKeepalive, running once n has joined: an address other than    *)
(* the last one, or the first one, becomes the current one, ...            *)
Keepalive(n) ==
  /\ pc[n] # "join" /\ rereg[n] = None
  /\ last[n] # at[n]
  /\ last' = [last EXCEPT ![n] = at[n]]
  /\ current' = [current EXCEPT ![n] = at[n]]
  /\ rereg' = [rereg EXCEPT ![n] = at[n]]
  /\ UNCHANGED <<place, entries, pc, a, url, todo, tasks, configured, device,
                 due, overlapped, faults>>

(* ... and is registered, beside what a round may be registering.          *)
Reregister(n) ==
  /\ rereg[n] # None
  /\ Registration(Registry(n), n, rereg[n])
  /\ rereg' = [rereg EXCEPT ![n] = None]
  /\ UNCHANGED <<place, current, last, pc, a, url, todo, tasks, configured,
                 device, due, overlapped>>

-----------------------------------------------------------------------------
(* Mutant of Tick: expireLoop is gone. *)
MutTickNoExpiry ==
  /\ \A n \in Node : ~due[n]
  /\ entries' = [h \in Node |-> [e \in Endpoint |->
                   [entries[h][e] EXCEPT !.age = @ + 1]]]
  /\ due' = [n \in Node |-> TRUE]
  /\ UNCHANGED <<place, current, last, rereg, pc, a, url, todo, tasks,
                 configured, device, overlapped, faults>>

(* Time: every peer gets through a round between two ticks.  expireLoop is *)
(* part of it: an entry that list() leaves out may as well be gone.        *)
Tick ==
  /\ \A n \in Node : ~due[n]
  /\ entries' = [h \in Node |-> [e \in Endpoint |->
                   IF entries[h][e].age + 1 < TTL
                   THEN [entries[h][e] EXCEPT !.age = @ + 1] ELSE Gone]]
  /\ due' = [n \in Node |-> TRUE]
  /\ UNCHANGED <<place, current, last, rereg, pc, a, url, todo, tasks,
                 configured, device, overlapped, faults>>

(* n's NAT gives it another external endpoint, one nobody has now. *)
Rebind(n, e) ==
  /\ Fault("rebind")
  /\ \A m \in Node : at[m] # e
  /\ at' = [at EXCEPT ![n] = e]
  /\ UNCHANGED <<hosts, onion, client, entries, overlapped>>

(* n's process is started anew, with an empty registry that it does not    *)
(* host; STUN tells it where it is.  The onion leads to another host, if   *)
(* there is one, whose tor goes on publishing.                             *)
Restart(n) ==
  /\ Fault("restart")
  /\ hosts' = hosts \ {n}
  /\ onion' \in IF onion = n /\ hosts' # {} THEN hosts' ELSE {onion}
  /\ entries' = [entries EXCEPT ![n] = [e \in Endpoint |-> Gone]]
  /\ current' = [current EXCEPT ![n] = at[n]]
  /\ last' = [last EXCEPT ![n] = None]
  /\ rereg' = [rereg EXCEPT ![n] = None]
  /\ pc' = [pc EXCEPT ![n] = "join"]
  /\ a' = [a EXCEPT ![n] = at[n]]
  /\ url' = [url EXCEPT ![n] = FALSE]
  /\ todo' = [todo EXCEPT ![n] = {}]
  /\ tasks' = {t \in tasks : t.node # n}
  /\ configured' = [configured EXCEPT ![n] = [m \in Node |-> None]]
  /\ device' = [device EXCEPT ![n] = [m \in Node |-> None]]
  /\ UNCHANGED <<at, due, overlapped>>

(* becomeOnionServer succeeds, in the goroutine of the start or after some *)
(* failed rounds; what follows it, a registration, may fail.               *)
Hosts(n) ==
  /\ hosts' = hosts \union {n}
  /\ \/ UNCHANGED entries
     \/ /\ pc[n] = "idle"
        /\ entries' = [entries EXCEPT ![n][current[n]] =
                                        [pub |-> n, age |-> 0]]
  /\ UNCHANGED <<at, client, overlapped>>

(* A peer takes over: the onion leads nowhere, ... *)
TakeOver(n) ==
  /\ onion \notin hosts
  /\ Hosts(n)
  /\ onion' = n
  /\ UNCHANGED faults

(* ... or the peer could not reach it, and there are two registries now.   *)
Split(n) ==
  /\ Fault("split")
  /\ onion \in hosts \ {n}
  /\ n \notin hosts
  /\ Hosts(n)
  /\ onion' \in {onion, n}

-----------------------------------------------------------------------------
Main(n) == \/ Join(n) \/ StartRound(n) \/ Register(n) \/ Fetch(n)
           \/ \E p \in todo[n] : Punch(n, p)

Goroutines(n) ==
  \E t \in tasks :
    /\ t.node = n
    /\ WgUpsert(t) \/ WgUpsertFails(t) \/ MarkConfigured(t)

Stun(n) == Keepalive(n) \/ Reregister(n)

Environment ==
  \/ Tick
  \/ \E n \in Node : Restart(n) \/ TakeOver(n) \/ Split(n)
  \/ \E n \in Node, e \in Endpoint : Rebind(n, e)

Next == \/ \E n \in Node : Main(n) \/ Goroutines(n) \/ Stun(n)
        \/ Environment

Spec == Init /\ [][Next]_vars

(* Tickers fire and goroutines run; when the onion leads nowhere, some     *)
(* peer takes over in the end (FailoverHappens in OnionFailover.tla).      *)
Fairness == /\ \A n \in Node : /\ WF_vars(Main(n))
                               /\ WF_vars(Goroutines(n))
                               /\ WF_vars(Stun(n))
            /\ WF_vars(Tick)
            /\ WF_vars(\E n \in Node : TakeOver(n))

FairSpec == Spec /\ Fairness

-----------------------------------------------------------------------------
TypeOK ==
  /\ at \in [Node -> Endpoint]
  /\ current \in [Node -> Endpoint]
  /\ last \in [Node -> Endpoint \union {None}]
  /\ rereg \in [Node -> Endpoint \union {None}]
  /\ hosts \in SUBSET Node /\ onion \in Node
  /\ entries \in [Node -> [Endpoint -> Entry \union {Gone}]]
  /\ pc \in [Node -> {"join", "idle", "register", "fetch"}]
  /\ a \in [Node -> Endpoint]
  /\ url \in [Node -> BOOLEAN]
  /\ todo \in [Node -> SUBSET Peer]
  /\ tasks \in SUBSET Task
  /\ configured \in [Node -> [Node -> Target \union {None}]]
  /\ device \in [Node -> [Node -> Target \union {None}]]
  /\ due \in [Node -> BOOLEAN]
  /\ overlapped \in SUBSET (Node \X Node)
  /\ faults \in 0 .. MaxFaults

Busy(n, m) == \E t \in tasks : t.node = n /\ t.pub = m

(* isConfigured "returns the currently configured endpoint for a pubkey":  *)
(* with no goroutine running for a peer it is the device's, as long as no  *)
(* two goroutines for that peer have overlapped.  What fails is never      *)
(* marked, what is marked is what was installed.                           *)
ConfiguredUnlessOverlap ==
  \A n, m \in Node :
    m # n /\ ~Busy(n, m) /\ <<n, m>> \notin overlapped
      => configured[n][m] = device[n][m]

(* A goroutine never installs what the device has already, unless two for  *)
(* its peer have overlapped: what it leaves behind, in the map and in the  *)
(* device, is what the next round of this process compares with, after     *)
(* failures, moves, restarts and double entries of the registry too.       *)
(* Two that overlap may: configuredPeers "prevents redundant IpcSet calls  *)
(* when the same peer appears in successive registry polls" (state.go)     *)
(* only as long as a round starts when the last one's goroutines are done. *)
InstalledOnce ==
  \A t \in tasks :
    t.pc = "upsert" /\ t.pub # t.node /\ <<t.node, t.pub>> \notin overlapped
      => device[t.node][t.pub] # t.ep

Reaches(n, m) ==
  device[n][m] = IF <<n, m>> \in Lan THEN LanEndpoint(m) ELSE at[m]

(* Any two peers settle on configuring each other where they are now,      *)
(* through any number of moves of the registry, unless two of them host    *)
(* one each for ever: while that is so, they need not meet.                *)
PeersMeet ==
  <>[](\A m, n \in hosts : m = n)
    => \A m, n \in Node : m # n => <>[]Reaches(n, m)
=============================================================================
