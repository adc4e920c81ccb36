------------------------------ MODULE DhtPunch ------------------------------
(***************************************************************************)
(* The dht/ program: peers announce their room in the BitTorrent DHT,      *)
(* discover each other there, punch through their NATs with HELLO probes,  *)
(* confirm endpoints with REPLY and ACK, and install each confirmed peer   *)
(* in their WireGuard device.                                              *)
(*                                                                         *)
(* One step per critical section of netState.mu or per datagram handled.   *)
(* The endpoint table of one peer is kept here without its clock: which    *)
(* candidate is best, and whether to switch to it, is left open within the *)
(* bounds of PeerTable.tla, which EndpointTable.tla (with the clock)       *)
(* implements.                                                             *)
(***************************************************************************)
EXTENDS Naturals, FiniteSets

CONSTANTS
  Node,        \* peers; a peer stands for its WireGuard public key too
  Endpoint,    \* external IPv4 address:port pairs
  Room,        \* room secrets; a room stands for its info hash too
  LongRoom,    \* rooms whose payload exceeds the 900 bytes pack() accepts
  Public,      \* peers whose NAT accepts datagrams from anyone
  KnowsSelf,   \* peers whose publicIP:wgPort is their external endpoint
  Attempts,    \* HELLO probes per discovered endpoint (260 in the code)
  NoPayload,   \* the nil *payload
  None,        \* the empty endpoint key
  Faults,      \* the environment faults that may happen (see FaultKind)
  MaxFaults    \* bound: how many of them happen in one behaviour

FaultKind == {"lose", "duplicate", "expire", "rebind", "restart",
              "announce", "ipc"}

ASSUME DhtAssumption ==
  /\ LongRoom \subseteq Room
  /\ Public \subseteq Node
  /\ KnowsSelf \subseteq Node
  /\ Attempts \in Nat \ {0}
  /\ NoPayload \notin [pub : Node, room : Room]
  /\ None \notin Endpoint
  /\ Faults \subseteq FaultKind
  /\ MaxFaults \in Nat

VARIABLES
  at,         \* at[n]: n's current external endpoint
  room,       \* room[n]: the ROOM n was started with
  selfAddr,   \* selfAddr[n]: publicIP:wgPort, None if no publicIP
  opened,     \* opened[n]: endpoints n's NAT lets through
  announced,  \* what the DHT stores: <<room, endpoint>>
  annCur,     \* annCur[n]: n has an announce traversal running
  tried,      \* tried[n]: triedByEndpoint
  punch,      \* punch[n][e]: the goroutine sending HELLOs from n to e
  pending,    \* pending[n][e]: pendingByEndpoint[e].Remote
  confirmed,  \* confirmed[n]: confirmedEndpoint
  confirming, \* goroutines running onConfirmed, before the critical section
  cands,      \* cands[n][m]: peersByPub[m].Candidates, their keys
  active,     \* active[n][m]: peersByPub[m].Active
  upserts,    \* the same goroutines, about to call wgUpsertPeer
  device,     \* device[n][m]: endpoint of peer m in n's WireGuard device
  net,        \* datagrams in flight
  faults,     \* how many more faults may happen
  crossed,    \* history: <<src, dst>> of the datagrams that got through
  lived       \* history: <<n, e, r>> when n has run at e in room r

table   == <<cands, active, upserts, device>>
process == <<annCur, tried, punch, pending, confirmed, confirming>>
nat     == <<at, room, selfAddr, lived>>
vars    == <<at, room, selfAddr, opened, announced, annCur, tried, punch,
             pending, confirmed, confirming, cands, active, upserts, device,
             net, faults, crossed, lived>>

Payload  == [pub : Node, room : Room]
Remote   == Payload \union {NoPayload}
Packet   == [type : {"HELLO", "REPLY", "ACK"}, src : Endpoint, dst : Endpoint,
             ts : 0 .. Attempts, payload : Remote]
Confirm  == [node : Node, ep : Endpoint, remote : Remote]
Upsert   == [node : Node, pub : Node, best : Endpoint, task : Endpoint]
PunchState == [pc : {"none", "check", "send", "over"}, sent : 0 .. Attempts]
NotTried == [pc |-> "none", sent |-> 0]

-----------------------------------------------------------------------------
(* What publicIP:wgPort may be.  It is the external endpoint of n only if  *)
(* the lookup succeeds and n's NAT keeps the port; it may be the endpoint  *)
(* of another peer, behind the same address.                               *)
SelfAddrs(n) == IF n \in KnowsSelf THEN {at[n]}
                ELSE (Endpoint \ {at[n]}) \union {None}

Init ==
  /\ at \in [Node -> Endpoint]
  /\ \A m, n \in Node : m # n => at[m] # at[n]
  /\ room \in [Node -> Room]
  /\ selfAddr \in [Node -> Endpoint \union {None}]
  /\ \A n \in Node : selfAddr[n] \in SelfAddrs(n)
  /\ opened = [n \in Node |-> {}]
  /\ announced = {}
  /\ annCur = [n \in Node |-> FALSE]
  /\ tried = [n \in Node |-> {}]
  /\ punch = [n \in Node |-> [e \in Endpoint |-> NotTried]]
  /\ pending = [n \in Node |-> [e \in Endpoint |-> NoPayload]]
  /\ confirmed = [n \in Node |-> {}]
  /\ confirming = {}
  /\ cands = [n \in Node |-> [m \in Node |-> {}]]
  /\ active = [n \in Node |-> [m \in Node |-> None]]
  /\ upserts = {}
  /\ device = [n \in Node |-> [m \in Node |-> None]]
  /\ net = {}
  /\ faults = MaxFaults
  /\ crossed = {}
  /\ lived = {<<n, at[n], room[n]>> : n \in Node}

(* One fault of the given kind happens. *)
Fault(kind) == /\ kind \in Faults
               /\ faults > 0
               /\ faults' = faults - 1

-----------------------------------------------------------------------------
(* startAnnounce: the old traversal is closed and a new one started, now   *)
(* and on every tick of the 20 s ticker.  ImpliedPort makes the DHT store  *)
(* the endpoint the announce comes from.                                   *)
StartAnnounce(n) ==
  /\ annCur' = [annCur EXCEPT ![n] = TRUE]
  /\ announced' = announced \union {<<room[n], at[n]>>}
  /\ UNCHANGED <<nat, opened, tried, punch, pending, confirmed, confirming,
                 table, net, faults, crossed>>

(* startAnnounce when AnnounceTraversal returns an error. *)
AnnounceFails(n) ==
  /\ Fault("announce")
  /\ annCur' = [annCur EXCEPT ![n] = FALSE]
  /\ UNCHANGED <<nat, opened, announced, tried, punch, pending, confirmed,
                 confirming, table, net, crossed>>

(* Mutant of Skips: a peer does not filter itself out. *)
MutSkipsNotSelf(n, e) == e \in confirmed[n] \union tried[n]

(* The endpoints handleDiscoveredFromDHT does nothing about: n's own, and  *)
(* those confirmed or tried.                                               *)
Skips(n, e) == e = selfAddr[n] \/ e \in confirmed[n] \union tried[n]

(* handleDiscoveredFromDHT: the traversal delivers e as a member of n's    *)
(* room, and a goroutine is started to send it HELLOs.                     *)
Discover(n, e) ==
  /\ annCur[n]
  /\ <<room[n], e>> \in announced
  /\ ~Skips(n, e)
  /\ tried' = [tried EXCEPT ![n] = @ \union {e}]
  /\ punch' = [punch EXCEPT ![n][e] = [pc |-> "check", sent |-> 0]]
  /\ UNCHANGED <<nat, opened, announced, annCur, pending, confirmed,
                 confirming, table, net, faults, crossed>>

(* Mutants of PunchOver: one probe too many, one too few. *)
MutPunchOneMore(n, e) == punch[n][e].sent > Attempts \/ e \in confirmed[n]
MutPunchOneLess(n, e) == punch[n][e].sent + 1 = Attempts \/ e \in confirmed[n]

(* The HELLO loop ends after so many probes, or once e is confirmed. *)
PunchOver(n, e) == punch[n][e].sent = Attempts \/ e \in confirmed[n]

(* The goroutine looks at confirmedEndpoint under the lock, ... *)
PunchCheck(n, e) ==
  /\ punch[n][e].pc = "check"
  /\ punch' = [punch EXCEPT ![n][e].pc =
                 IF PunchOver(n, e) THEN "over" ELSE "send"]
  /\ UNCHANGED <<nat, opened, announced, annCur, tried, pending, confirmed,
                 confirming, table, net, faults, crossed>>

(* localPayload and pack: an oversized payload is left out. *)
LocalPayload(n) == IF room[n] \in LongRoom THEN NoPayload
                   ELSE [pub |-> n, room |-> room[n]]

(* ts only tells the probes, and the answers to them, apart. *)
Datagram(type, n, e, ts) ==
  [type |-> type, src |-> at[n], dst |-> e, ts |-> ts,
   payload |-> LocalPayload(n)]

(* Mutant of Probed: the probe is not counted. *)
MutProbedUncounted(p) == [p EXCEPT !.pc = "check"]

(* Back to the head of the loop, with one more probe sent. *)
Probed(p) == [pc |-> "check", sent |-> p.sent + 1]

(* ... releases the lock and sends; sending opens n's NAT towards e. *)
PunchSend(n, e) ==
  /\ punch[n][e].pc = "send"
  /\ punch' = [punch EXCEPT ![n][e] = Probed(@)]
  /\ net' = net \union {Datagram("HELLO", n, e, punch[n][e].sent)}
  /\ opened' = [opened EXCEPT ![n] = @ \union {e}]
  /\ UNCHANGED <<nat, announced, annCur, tried, pending, confirmed,
                 confirming, table, faults, crossed>>

-----------------------------------------------------------------------------
(* n's NAT hands a datagram to n. *)
Admits(n, p) == at[n] = p.dst /\ (n \in Public \/ p.src \in opened[n])

(* mergePayload: what a datagram says about its sender replaces what the   *)
(* earlier ones said; one without payload changes nothing.                 *)
MergePayload(old, new) == IF new = NoPayload THEN old ELSE new

(* The common part of udpReadLoop: p is read, its payload merged, and      *)
(* answers are written.  The loop is the only writer of pending and        *)
(* confirmed, so its two critical sections are one step here.              *)
Read(n, p, answers) ==
  /\ Admits(n, p)
  /\ crossed' = crossed \union {<<p.src, p.dst>>}
  /\ pending' = [pending EXCEPT ![n][p.src] = MergePayload(@, p.payload)]
  /\ opened' = [opened EXCEPT ![n] = @ \union {a.dst : a \in answers}]
  /\ \/ net' = (net \ {p}) \union answers /\ UNCHANGED faults
     \/ Fault("duplicate") /\ net' = net \union answers
  /\ UNCHANGED <<nat, announced, annCur, tried, punch, table>>

(* REPLY and ACK confirm the endpoint they come from, once; the goroutine  *)
(* running onConfirmed is given the payload merged so far.                 *)
ConfirmOnce(n, p) ==
  IF p.src \in confirmed[n]
  THEN UNCHANGED <<confirmed, confirming>>
  ELSE /\ confirmed' = [confirmed EXCEPT ![n] = @ \union {p.src}]
       /\ confirming' = confirming \union
            {[node |-> n, ep |-> p.src,
              remote |-> MergePayload(pending[n][p.src], p.payload)]}

(* Mutant of ReceiveHello: a HELLO already confirms where it comes from. *)
MutReceiveHelloConfirms(n, p) ==
  /\ p.type = "HELLO"
  /\ Read(n, p, {Datagram("REPLY", n, p.src, p.ts)})
  /\ ConfirmOnce(n, p)

ReceiveHello(n, p) ==
  /\ p.type = "HELLO"
  /\ Read(n, p, {Datagram("REPLY", n, p.src, p.ts)})
  /\ UNCHANGED <<confirmed, confirming>>

(* Mutant of ReceiveReply: no ACK is sent. *)
MutReceiveReplySilent(n, p) ==
  /\ p.type = "REPLY"
  /\ Read(n, p, {})
  /\ ConfirmOnce(n, p)

ReceiveReply(n, p) ==
  /\ p.type = "REPLY"
  /\ Read(n, p, {Datagram("ACK", n, p.src, p.ts)})
  /\ ConfirmOnce(n, p)

ReceiveAck(n, p) ==
  /\ p.type = "ACK"
  /\ Read(n, p, {})
  /\ ConfirmOnce(n, p)

(* A datagram nobody's NAT lets in is discarded. *)
Discard(p) ==
  /\ \A n \in Node : ~Admits(n, p)
  /\ net' = net \ {p}
  /\ UNCHANGED <<nat, opened, announced, process, table, faults, crossed>>

(* The network loses a datagram. *)
Lose(p) ==
  /\ Fault("lose")
  /\ net' = net \ {p}
  /\ UNCHANGED <<nat, opened, announced, process, table, crossed>>

-----------------------------------------------------------------------------
(* Mutant of Accepts: the room is not compared. *)
MutAcceptsAnyRoom(n, remote) == remote # NoPayload

(* handleConfirmedPeer gives up on a nil payload or another room.  It also *)
(* accepts an empty room, which no peer sends: localPayload takes the ROOM *)
(* that main insists on.                                                   *)
Accepts(n, remote) == remote # NoPayload /\ remote.room = room[n]

ConfirmIgnored(t) ==
  /\ ~Accepts(t.node, t.remote)
  /\ confirming' = confirming \ {t}
  /\ UNCHANGED <<nat, opened, announced, annCur, tried, punch, pending,
                 confirmed, table, net, faults, crossed>>

(* addCandidate, for the peer with key m in the table of n. *)
AddCandidate(n, m, e) == [cands EXCEPT ![n][m] = @ \union {e}]

(* handleConfirmedPeer, its critical section: the endpoint becomes a       *)
(* candidate, and the best candidate the active one if there was none, or  *)
(* if the present one has gone stale (shouldSwitchEndpoint; no clock here).*)
ConfirmPeer(t, best, switchNow) ==
  LET n == t.node
      m == t.remote.pub
  IN /\ Accepts(n, t.remote)
     /\ cands' = AddCandidate(n, m, t.ep)
     /\ best \in cands'[n][m]
     /\ active[n][m] = None => switchNow
     /\ switchNow => best # active[n][m]
     /\ active' = IF switchNow THEN [active EXCEPT ![n][m] = best] ELSE active
     /\ upserts' = IF switchNow
                   THEN upserts \union
                          {[node |-> n, pub |-> m, best |-> best,
                            task |-> t.ep]}
                   ELSE upserts
     /\ confirming' = confirming \ {t}
     /\ UNCHANGED <<nat, opened, announced, annCur, tried, punch, pending,
                    confirmed, device, net, faults, crossed>>

(* ... and, outside the lock, wgUpsertPeer.  The device ignores a peer     *)
(* with its own key.                                                       *)
WgUpsert(u) ==
  /\ upserts' = upserts \ {u}
  /\ device' = IF u.pub = u.node THEN device
               ELSE [device EXCEPT ![u.node][u.pub] = u.best]
  /\ UNCHANGED <<nat, opened, announced, process, cands, active, net, faults,
                 crossed>>

(* IpcSet returns an error: nothing is undone and nothing tried again. *)
WgUpsertFails(u) ==
  /\ Fault("ipc")
  /\ upserts' = upserts \ {u}
  /\ UNCHANGED <<nat, opened, announced, process, cands, active, device, net,
                 crossed>>

-----------------------------------------------------------------------------
(* The process of n is stopped and started again, in room r.  Its state is *)
(* all in memory; what the DHT, the NAT and the network hold stays.        *)
Restart(n, r) ==
  /\ Fault("restart")
  /\ room' = [room EXCEPT ![n] = r]
  /\ \E a \in SelfAddrs(n) : selfAddr' = [selfAddr EXCEPT ![n] = a]
  /\ annCur' = [annCur EXCEPT ![n] = FALSE]
  /\ tried' = [tried EXCEPT ![n] = {}]
  /\ punch' = [punch EXCEPT ![n] = [e \in Endpoint |-> NotTried]]
  /\ pending' = [pending EXCEPT ![n] = [e \in Endpoint |-> NoPayload]]
  /\ confirmed' = [confirmed EXCEPT ![n] = {}]
  /\ confirming' = {t \in confirming : t.node # n}
  /\ cands' = [cands EXCEPT ![n] = [m \in Node |-> {}]]
  /\ active' = [active EXCEPT ![n] = [m \in Node |-> None]]
  /\ upserts' = {u \in upserts : u.node # n}
  /\ device' = [device EXCEPT ![n] = [m \in Node |-> None]]
  /\ lived' = lived \union {<<n, at[n], r>>}
  /\ UNCHANGED <<at, opened, announced, net, crossed>>

(* n's NAT gives it another external endpoint, one nobody has now. *)
Rebind(n, e) ==
  /\ Fault("rebind")
  /\ n \notin Public
  /\ \A m \in Node : at[m] # e
  /\ at' = [at EXCEPT ![n] = e]
  /\ opened' = [opened EXCEPT ![n] = {}]
  /\ lived' = lived \union {<<n, e, room[n]>>}
  /\ UNCHANGED <<room, selfAddr, announced, process, table, net, crossed>>

(* n's NAT closes towards e. *)
Expire(n, e) ==
  /\ Fault("expire")
  /\ e \in opened[n]
  /\ opened' = [opened EXCEPT ![n] = @ \ {e}]
  /\ UNCHANGED <<nat, announced, process, table, net, crossed>>

-----------------------------------------------------------------------------
Announcer(n) == StartAnnounce(n) \/ \E e \in Endpoint : Discover(n, e)

Puncher(n, e) == PunchCheck(n, e) \/ PunchSend(n, e)

ReadLoop(n) ==
  \E p \in net : ReceiveHello(n, p) \/ ReceiveReply(n, p) \/ ReceiveAck(n, p)

HandleConfirmed(n) ==
  \/ \E t \in confirming :
       /\ t.node = n
       /\ \/ ConfirmIgnored(t)
          \/ \E best \in Endpoint, switchNow \in BOOLEAN :
               ConfirmPeer(t, best, switchNow)
  \/ \E u \in upserts : u.node = n /\ WgUpsert(u)

Environment ==
  \/ \E p \in net : Discard(p) \/ Lose(p)
  \/ \E u \in upserts : WgUpsertFails(u)
  \/ \E n \in Node : AnnounceFails(n)
  \/ \E n \in Node, r \in Room : Restart(n, r)
  \/ \E n \in Node, e \in Endpoint : Rebind(n, e) \/ Expire(n, e)

Next ==
  \/ \E n \in Node : Announcer(n) \/ ReadLoop(n) \/ HandleConfirmed(n)
  \/ \E n \in Node, e \in Endpoint : Puncher(n, e)
  \/ Environment

Spec == Init /\ [][Next]_vars

(* Every goroutine keeps running, and the network delivers what it does    *)
(* not lose: the ticker, the read loop and the goroutines wait for nothing *)
(* but the mutex, which each holds for a bounded time.                     *)
Fairness ==
  /\ \A n \in Node :
       /\ WF_vars(StartAnnounce(n))
       /\ WF_vars(ReadLoop(n))
       /\ WF_vars(HandleConfirmed(n))
  /\ \A n \in Node, e \in Endpoint :
       /\ WF_vars(Discover(n, e))
       /\ WF_vars(Puncher(n, e))
  /\ WF_vars(\E p \in net : Discard(p))

FairSpec == Spec /\ Fairness
-----------------------------------------------------------------------------
TypeOK ==
  /\ at \in [Node -> Endpoint]
  /\ room \in [Node -> Room]
  /\ selfAddr \in [Node -> Endpoint \union {None}]
  /\ opened \in [Node -> SUBSET Endpoint]
  /\ announced \in SUBSET (Room \X Endpoint)
  /\ annCur \in [Node -> BOOLEAN]
  /\ tried \in [Node -> SUBSET Endpoint]
  /\ punch \in [Node -> [Endpoint -> PunchState]]
  /\ pending \in [Node -> [Endpoint -> Remote]]
  /\ confirmed \in [Node -> SUBSET Endpoint]
  /\ confirming \in SUBSET Confirm
  /\ cands \in [Node -> [Node -> SUBSET Endpoint]]
  /\ active \in [Node -> [Node -> Endpoint \union {None}]]
  /\ upserts \in SUBSET Upsert
  /\ device \in [Node -> [Node -> Endpoint \union {None}]]
  /\ net \in SUBSET Packet
  /\ faults \in 0 .. MaxFaults
  /\ crossed \in SUBSET (Endpoint \X Endpoint)
  /\ lived \in SUBSET (Node \X Endpoint \X Room)

(* The endpoints n has had. *)
Owned(n) == {e \in Endpoint : \E r \in Room : <<n, e, r>> \in lived}

(* REPLY and ACK are two-way evidence: an endpoint is confirmed only when  *)
(* datagrams have crossed between it and an endpoint of this peer in both  *)
(* directions, whatever was lost, duplicated, restarted or rebound.        *)
PathBothWays ==
  \A n \in Node : \A e \in confirmed[n] :
     \E f \in Owned(n) : {<<f, e>>, <<e, f>>} \subseteq crossed

(* handleConfirmedPeer installs a key only at an endpoint confirmed in     *)
(* this process, and at which that key's owner has run in this very room.  *)
DeviceIsRoomMember ==
  \A n, m \in Node :
    device[n][m] # None => /\ device[n][m] \in confirmed[n]
                           /\ <<m, device[n][m], room[n]>> \in lived

(* The self filter of handleDiscoveredFromDHT is enough for every peer     *)
(* that learns its external endpoint at startup and keeps it: it never     *)
(* confirms itself, although it finds itself in the DHT.                   *)
NeverConfirmsItself ==
  \A n \in KnowsSelf : Owned(n) = {at[n]} => at[n] \notin confirmed[n]

Path == INSTANCE TwoWayPath
          WITH owned <- [n \in Node |-> Owned(n)]

(* The exchange implements the two-way check of TwoWayPath. *)
ImplementsTwoWayPath == Path!Spec

(* Two peers behind one address are lost to each other when the port one   *)
(* of them listens on is the external port of the other.                   *)
SeeEachOther(m, n) == selfAddr[n] # at[m] /\ selfAddr[m] # at[n]

(* "it sends repeated UDP HELLO probes to punch through NAT and then       *)
(* configures WireGuard for the peer": two peers that end up in one room   *)
(* install each other, as long as no datagram is lost, and neither takes   *)
(* the other's endpoint for its own.                                       *)
Configures ==
  \A m, n \in Node :
    m # n /\ <>[](room[m] = room[n] /\ SeeEachOther(m, n))
      => <>(device[n][m] # None)

(* With more probes than lost datagrams, at least one of two such peers    *)
(* installs the other.                                                     *)
OneSideConfigures ==
  \A m, n \in Node :
    m # n /\ <>[](room[m] = room[n] /\ SeeEachOther(m, n))
      => <>(device[n][m] # None \/ device[m][n] # None)

(* The HELLO goroutines end: 260 probes, or the endpoint is confirmed. *)
PunchersStop ==
  \A n \in Node, e \in Endpoint :
    [](punch[n][e].pc \in {"check", "send"}
         => <>(punch[n][e].pc \in {"none", "over"}))
=============================================================================
