# A TLA+ model of decentralizingVPN

The repository holds three programs that build the same WireGuard VPN and
differ in how peers find each other: `dht/` (the BitTorrent DHT), `tor/` (a
registry behind a shared onion address, hosted by one of the peers) and
`nostr/` (presence events at Nostr relays). This directory holds TLA+ modules
for their logic, TLC configurations that check them on small instances, and
proofs of the main safety properties that TLAPS checks for all instances.

`PROJECT.json` lists for every definition the lines of `src/` it stands for,
for every property the run that checks it and a plausible bug of the code
(`Mut...` in the modules) that the run finds, and the hazards of the code with
the properties that cover them.

## 1. The system

| Part | State | Operations | Talks to |
|---|---|---|---|
| `dht/`: announce and discovery (`main.go`, `dht_logic.go`) | the running traversal, `triedByEndpoint` | announce every 20 s, take delivered addresses, 260 `HELLO` probes per new address | DHT library, read loop (shared `confirmedEndpoint`) |
| `dht/`: read loop (`udp_logic.go`, `punch_proto.go`) | `pendingByEndpoint`, `confirmedEndpoint` | answer `HELLO` with `REPLY`, `REPLY` with `ACK`; `REPLY` and `ACK` confirm | other peers, confirmation goroutines |
| `dht/`: endpoint table (`state.go`, `handleConfirmedPeer`) | `peersByPub`: candidates, `LastSuccess`, `Active` | add candidate, score, decide on failover, `wgUpsertPeer` after the unlock | WireGuard device |
| UDP demultiplexer (`udp_logic.go`, `udp_wireguard_demux.go`) | queues `sharedWGBind.rx` and `demuxConn.rx`, the channel `closed` | classify each datagram, enqueue or drop; the bind's `Open`, `Close`, receive function | wireguard-go, DHT server |
| `tor/`: hosting (`onion_server.go`, `static_onion.go`, `tor_logic.go`) | `localURL`, HTTP listener, `staticOnionProcess.cmd`, `consecutiveFailures` | probe, listen, start tor, publish, failover after three failed rounds, tear down on a signal | tor network, local tor process |
| `tor/`: registry and rounds (`onion_server.go`, `tor_logic.go`, `state.go`) | `entries` with their expiry, `currentAddr`, `configuredPeers` | register, list, expire; rounds; `punchAndConnect`; re-registration on a new address | HTTP through tor, WireGuard device |
| `nostr/` (`nostr_logic.go`, `state.go`) | `currentAddr`, `seen`, `configured` | publish, subscribe, cooldown, `punchAndConnect` | relays, WireGuard device |
| STUN client (`stun.go` in `tor/` and `nostr/`) | `stunRxTable`, `last`, `currentAddr` | query one server after the other, parse and deliver answers, report changes | STUN servers, read loop |
| WireGuard configuration (`wireguard.go`) | the device's peers, the interface, the UAPI socket's path | `wgUpsertPeer` (IpcSet), `CreateTUN`, `startUAPI`, `ip` commands | wireguard-go, the system |
| Configuration and identity (`config.go`, `wireguard.go`, `main.go`, `nostr_identity.go`, `validate.go`, `vpnaddr.go`) | `.env.punchwg`, the wg-quick file, the Nostr key file | lay shell, file and defaults over each other, find the key pair, read or make the identity, derive IPv6 addresses | the system |
| `tor_control.go` | none | an `ADD_ONION` client nobody calls | - |
| `testing/` | none | start the programs, parse logs, write CSV | - |

**What is hard here.** Nearly every decision is made under a mutex and acted
on after it is released, by a goroutine nobody waits for. Peers act on
addresses that were right when they were written down. UDP loses and
duplicates; NATs let in only those they have been opened to, and change
endpoints. The tor program runs the hosting code from two threads in one
process, and starts a child process that survives it. Relays and the registry
serve old records, and there may be more than one registry. Programs that share
a machine take ports, interfaces, sockets and files from it one after the
other, and may be killed between any two of them.

**What makes it correct.** `dht/`: an endpoint is confirmed only on evidence
that both directions work; only members of one's own room are installed; two
peers in a room do install each other; the device uses the active endpoint and
the active endpoint changes only when it is stale. Hosting: a peer that
believes it is the server is able to serve; the two threads do not start tor
twice; a lost host is replaced. Rounds and `nostr/`: what is marked as
configured is what the device has, and peers end up with each other's present
endpoint. STUN: a result is recent, and handing it over never stops the read
loop. Demultiplexer: WireGuard's datagrams reach WireGuard, in order, however
often the bind is reopened, and neither side hangs. Start-up: what the user has
set is what is used, the key announced belongs to the device's key, an identity
survives restarts, and a program comes up over whatever the last one has left.

## 2. Modules

| Module | Models | Actions and code |
|---|---|---|
| `TwoWayPath` | abstract: what the `HELLO`/`REPLY`/`ACK` exchange promises | `Confirm` needs a delivery in both directions |
| `DhtPunch` | `dht/` from discovery to the device, several peers, NATs and a faulty network | one action per critical section of `netState.mu`, per datagram handled and per IpcSet: `StartAnnounce`, `Discover`, `PunchCheck`/`PunchSend` (the `HELLO` goroutine), `ReceiveHello`/`Reply`/`Ack`, `ConfirmPeer`, `WgUpsert` |
| `PeerTable` | abstract: the endpoint table of one peer, without time | `Add` |
| `EndpointTable` | the endpoint table of one peer with its clock | `HandleConfirmed` (critical section of `handleConfirmedPeer`), `WgUpsert`, `Tick` |
| `OnionFailover` | who hosts the registry | `Round` actions are the main thread's loop, `BecomeOnionServer` the steps of `becomeOnionServer`, for each of the two threads; `TearDown` and `CloseRegistry`, the two steps of its clean-up on a signal; exits, the tor child and the onion's descriptor |
| `OnionRegistry` | a registry on every host, one, several or none of them reached; rounds, `punchAndConnect`, keepalive | `Join`, `StartRound`, `Register`, `Fetch`, `Punch`, `WgUpsert`, `MarkConfigured`, `Keepalive`, `Reregister`, `Tick`; `Restart`, `TakeOver` and `Split` change who hosts |
| `NostrRendezvous` | one publisher, several relays, one subscriber | `ReadAddress`, `Keepalive`, `StartLoops`, `Sign`, `Publish`, `Subscribe`, `SubEnds`, `Receive`, `WgUpsert`, `MarkConfigured`, `Tick`; `Restart` and `RestartPublisher` |
| `StunMessage` | `parseSTUNResponse` as a recursive function, with its 16-bit lengths and its slice bounds | `Parse`; `Turn` is one turn of the loop over the attributes, `Walk` all of them |
| `StunClient` | `discoverExternalAddr`, `stunQuery`, `stunRxTable`, the read loop's hand-over; extends `StunMessage` | `Register`, `Send`, `Take`, `Timeout`, `NextServer`, `Report`, `Lookup`, `Put` |
| `LossyQueue` | abstract: what a consumer behind the shared socket is promised | `Send`, `Receive` |
| `UdpDemux` | the single UDP reader of each program with its tests of a datagram's first bytes and length, its queues, the WireGuard bind and the device that reopens it | `Arrive`, `Dispatch`, `ReadFrom`, `RecvLoop`/`RecvPacket`/`RecvClosed`, `CloseBind`, `StayDown`, `OpenBind` |
| `Settings` | `loadEnvFile`, `getEnvTrim`, `getEnvInt`, `readWGConf` and the choice of the key pair, as operators | |
| `Startup` | `main` of `nostr/` until it publishes, several programs on one machine; extends `Settings` | `Start`; `LoadKey`, `MakeKey`, `UnreadKey`, `CreateFile`, `WriteFile` (the identity); `BindUdp`, `CreateTun`, `RemoveSocket`, `ListenUnix`, `AddRoute`; `StoreFails`, `StepFails`, `Kill` |
| `DhtPunch_proofs`, `EndpointTable_proofs`, `OnionFailover_proofs`, `OnionRegistry_proofs`, `NostrRendezvous_proofs`, `StunClient_proofs`, `UdpDemux_proofs`, `Startup_proofs` | theorems | |
| `MC...` | instances for TLC (`StunClient` needs none) | |

How they fit together. `DhtPunch` implements `TwoWayPath`, and leaves open,
within the bounds of `PeerTable`, which candidate is best and when to switch;
`EndpointTable` implements `PeerTable` and decides it by the clock. In `tor/`
hosting and rounds meet in three places: a round fails when no registry
answers (`RegistryAnswers` in `OnionFailover`; in `OnionRegistry` the fault
`net` and a peer that finds no host); a registry that moves starts empty
(`Hosts` and `TakeOver`); and there may be several hosts, each of which asks
its own registry while the others ask the one the onion leads to (`FirstHosts`,
`Split`, `Asked`). How peers become hosts is `OnionFailover`'s matter; that two
of them do is shown there by `OnionAtMostOneServer`, and what it means for
their rounds is shown by `OnionRegistryStable`. Both queues of `UdpDemux`
implement `LossyQueue`, and WireGuard's does so over any closing and reopening
of its bind. `StunClient` is the source of the addresses whose changes
are `Rebind` followed by `Keepalive` in `OnionRegistry` and `NostrRendezvous`.
In `NostrRendezvous` one direction between two peers is enough, because the
publishing and the subscribing half of a process share no variable that either
changes for the other.

**Faults.** Each of the modules that know faults has a constant `Faults`, the kinds
of faults that may happen, and `MaxFaults`, how many of them in one behaviour.
The theorems hold for any number. Loss, duplication and refusal are faults;
delay and reordering are not limited.

**External parts.** The NATs and the network of `DhtPunch`, the tor network
(the onion leads to the tor that published last), the relays (an event
replaces the older one of its author and is replayed to new subscribers), the
STUN servers, wireguard-go (it closes the bind, waits for its receive
routine, and only then opens it again) and the operating system (a port or an
interface has one owner, a socket's path outlives its program, a file is
created before it is written) are modelled as far as `src/` relies on them.

## 3. What is checked

All instances have two peers where peers are symmetric to each other: every
protocol here is between pairs.

| Run | Properties | Instance, and why it is enough |
|---|---|---|
| `DhtPunchSafe` | `ImplementsTwoWayPath`, `NeverConfirmsItself`, `DeviceIsRoomMember` | two peers, three endpoints (one to move to), two rooms, one whose payload does not fit in a packet, one fault of any of the seven kinds. Both peers find their endpoint at start-up (`KnowsSelf`): the instances in which one does not are too large for TLC, and the theorems cover them |
| `DhtPunchLive` | `Configures`, `PunchersStop` | one probe per endpoint, so nothing is repaired by repetition; a duplicate, a restart or a failed announce |
| `DhtPunchLossy` | `OneSideConfigures` | two probes and one lost datagram. Both sides need not succeed: when the last `ACK` is lost one side stays unconfigured. |
| `EndpointTable` | `DeviceIsActive`, `SwitchOnlyFromStale`, `NewEndpointWaitsForCold`, `ImplementsPeerTable` | four candidates; ages 2, 3 and 8 are 30 s, 45 s and 2 min in units of 15 s; the code keeps times and compares them with these limits only, so the model counts no further than the last of them |
| `OnionFailover` | `OneThreadStarts`, `ServerHasRegistry`, `TorHasRegistry`, `FailoverHappens` | the real limit of three failures, two faults of five kinds |
| `OnionRegistrySafe` | `ConfiguredUnlessOverlap`, `InstalledOnce` | three endpoints, an entry lives for one tick, one fault of five kinds, a rebinding among them; a round of n1 may start while a goroutine of its last one is at work, one of n2 does not (`Backlog`) |
| `OnionRegistryStable` | `PeersMeet` | endpoints do not change; from no host, one or two on, one fault of four kinds, a further split among them; n1 reaches n2's LAN address and not the other way round |
| `NostrRendezvous` | `ConfiguredIsDevice`, `OneGoroutine`, `FollowsPublisher` | two relays, two faults of seven kinds, restarts of both sides among them; cooldown and subscription of two ticks, so that a renewal may fall inside or outside the cooldown |
| `StunClient` | `TableIsRunningQuery`, `ResultIsRecent`, `OnlyUnpaddedOverruns`, `FindsAddress` | one dead server of two, three transactions, so that answers of earlier queries are still around, four faults; answers with up to three attributes of every kind in every order, stated lengths up to 65535, truncated ones, and ones whose last attribute is not padded |
| `UdpDemux` | `NothingStrays`, `RoutineWatchesBind`, `ImplementsLossyQueues`, `NothingHangs` | either program; queues of two and four datagrams, so that they overflow; lengths at and below the limits of the message types; three closings |
| `Startup` | `SettingsHold`, `IdentityKept`, `UapiIsOwn`, `ComesUp` | two programs; four shells, two `.env.punchwg`, with and without a wg-quick file and the command `wg`, chosen so that shells and files contradict each other and the programs share all, some or none of port, interface and key file; two faults of four kinds, a read error among them, so that a program can be killed and the next one fail |
| `OnionAtMostOneServer` | `AtMostOneServer`, violated | see below |

Each of the passing runs has its module's `TypeOK` as well, but for the
liveness runs of `DhtPunch` and `OnionRegistryStable`, which share their
module with a safety run. Symmetry of endpoints is used in the safety run of
`DhtPunch` and in `EndpointTable`, which check no liveness. `StunClient`,
`UdpDemux` and `Startup` are run without the deadlock check: when the program
has panicked, when the last datagram has been handled and the device is down,
or when all programs are up and no fault is left, nothing is left to do.

Some properties state less than one might hope for, because the code does less:

- `ConfiguredUnlessOverlap` excepts peers for which two goroutines have
  overlapped. A peer that has moved is listed at two addresses until the old
  entry expires, both are punched at once, and since wgUpsertPeer and
  markConfigured are separate steps the map can end up with one address and
  the device with the other; later rounds then see nothing to do. For the same
  reason `PeersMeet` is checked only while endpoints do not change.
- `PeersMeet` has a premise: from some time on there is at most one host. Two
  peers that host at the same time, each asking its own registry, never hear
  of each other, and nothing in the program ends this but the end of one of
  the two. Without the premise TLC finds `PeersMeet` violated; with it the
  property says that peers do meet once the split is over, from whatever the
  two registries and the maps of configured peers have become meanwhile.
- `FollowsPublisher` assumes that a relay that no longer accepts the
  publisher's events does not serve an old one. Records are taken in the order
  of their arrival, not by `created_at`; such a relay's record is installed
  again whenever it is the first one after the cooldown.
- `InstalledOnce` excepts the same overlaps. Besides a moved peer, a slow round
  gives rise to them: the ticker keeps one tick (`tor/tor_logic.go:397`), so
  that the next round starts at once, while the last one's goroutines still
  punch, and installs what they are about to install. `Backlog` bounds how many
  goroutines of a peer a new round may find; with none the map does prevent
  redundant calls.
- `NeverConfirmsItself` speaks of peers whose address and port at start-up are
  their external endpoint: the filter compares the public address with the
  local port (`dht/dht_logic.go:22`), and where a NAT rewrites the port it lets
  the peer discover itself. The other way round it passes over a peer behind
  the same address whose external port is this one's local port:
  `Configures` and `OneSideConfigures` except such pairs (`SeeEachOther`).
- `FailoverHappens` excepts a peer that takes itself for the server with no tor
  behind it (`FalseServer`): its rounds succeed against its own registry, so it
  never fails over. Two ways lead there, and the second is the program's own
  doing. The tor may die by itself. Or the startup thread's `ensureRunning`
  fails, it closes its HTTP server, the main thread, whose failover has found
  the port free, starts tor and sets `localURL`, and only then the startup
  thread calls `service.shutdown()`, which kills the tor the main thread has
  just started (`tor/onion_server.go:157-162`; `CloseServer`, then `Listen` to
  `BecomeServer` by the other thread, then `ShutdownTor`).
- `IdentityKept` has two exceptions. Any error in reading the key file counts
  as a missing file (`nostr/nostr_identity.go:31`), and the new identity
  replaces the one in it (line 55): the property speaks of the identities used
  since then. And two programs that make an identity for one file at the same
  time each go on with their own, and the file has one of them. `ComesUp`
  excepts a key file torn by a kill between its creation and its writing, which
  every later start refuses until somebody removes it, or a read error does.
- `SettingsHold` asks for a matching pair of keys only if no public key is
  given: one that is given is announced, whatever the private key is.
- `OnlyUnpaddedOverruns` excepts answers whose last attribute is not padded to
  four bytes, against RFC 5389: the guard (`stun.go:82`) looks at an
  attribute's length without its padding, and the slice expression
  (`stun.go:107`) panics, which ends the program. `FindsAddress` speaks of
  programs this does not happen to. The fault `odd` makes servers send such
  answers in the run.

**Fairness.** Every goroutine that is not blocked runs on (weak fairness of
its actions); tickers fire; what the network does not lose arrives. The
program justifies this by waiting for nothing but mutexes held for a bounded
time, timers, and channels with a default case. Strong fairness is used twice,
both times for a Go `select` with more than one ready case, which picks one at
random: `Exit` (the context is done and the ticker has fired) and `RecvClosed`
(the bind is closed and a datagram is there). Nothing is assumed of the DHT
server in `UdpDemux`, of crashes, or of a signalled process finishing its
clean-up before it exits. In `Startup` a program that has ended is started
again, as a service manager or a patient user would.

**A disagreement between the code and its comments**

- `OnionAtMostOneServer`: `becomeOnionServer` says it probes with retries lest
  all peers become the server, and asks for one attempt. Two peers that start
  together both become servers, and each uses its own registry only.

Others were met while modelling. The properties above except them or follow the
code, so none has a run that shows it violated.

- `README.md:16` says the programs "load configuration from `.env.punchwg` [...],
  then fall back to process environment variables". They do the opposite, as
  `README.md:90` has it: a variable set in both keeps the shell's value
  (`config.go`). `SettingsHold` is about exactly this case.
- The Nostr identity is "generated locally on first run and reused afterwards"
  (`nostr/nostr_identity.go:23`): not after a read error, see `IdentityKept`.
- `localURL` is "set when this peer is the server" (`tor/onion_server.go:20`),
  but stays set when the tor behind it has died, or has been killed by the
  other thread, see `FailoverHappens`.
- `configuredPeers` "prevents redundant IpcSet calls when the same peer appears
  in successive registry polls" (`tor/state.go:8`): not after a slow round, see
  `InstalledOnce`.
- An answer the parser's guard lets through may panic it, see
  `OnlyUnpaddedOverruns`.
- The loop that waits for a peer's first registration has no failover, so
  `FailoverHappens` speaks of peers past it.
- In `dht/` an endpoint confirmed while its peer was in another room is never
  looked at again after the peer has come to this one, so `Configures` is
  checked with one room.
- The tor process is "always" cleaned up on exit (`tor/onion_server.go:125`),
  but by a goroutine that waits for the same `ctx.Done` as `main` and that
  nobody waits for, so tor may outlive the program (`Exit` before `CleanUpTor`
  in `OnionFailover`).
- The program tries to derive a missing `WG_PUBKEY` from the private key of the
  environment or of the WireGuard configuration (`README.md:84`), but only
  after a wg-quick file has been read (`nostr/main.go:55`), so a program given
  nothing but `WG_PRIVKEY` on a machine without the file ends at once
  (`KeyPair` in `Settings`).

## 4. What is proved

For every number of peers, endpoints, rooms, probes, candidates and faults,
from the assumptions named in the modules (`DhtAssumption`, `TableAssumption`,
`OnionAssumption`, `RegistryAssumption`, `NostrAssumption`, `StunAssumption`,
`MessageAssumption`, `DemuxAssumption`, `StartupAssumption`),
which say no more than that constants are of their kind, that bounds are not
zero, that in `EndpointTable` 30 s < 45 s < 2 min, and that in `Startup` an
environment has its variables and a file a number of lines. Every invariant the runs check is
stated by one of these theorems, and so is every safety property of theirs.

| Theorem | States | Argument |
|---|---|---|
| `DhtPunch_proofs!TypeCorrect` | types | `TypeOK` with `ProbesLeft`: a goroutine about to send has a probe left, without which the counter's bound is not inductive |
| `DhtPunch_proofs!SelfFilter` | `NeverConfirmsItself` | `SelfInv`: for a peer that knows its endpoint and has never had another one, no goroutine probes that endpoint (`Quiet`) and nothing in flight goes from it to itself (`NoneToSelf`); since no two peers have one endpoint (`Apart`), only the peer itself could send from it |
| `DhtPunch_proofs!TwoWay` | `PathBothWays` | `PathInv`: every `REPLY` or `ACK` in flight was caused by a datagram that got through the other way (`AnswersHaveCause`), and each peer's endpoint is one it has owned (`OwnsItsEndpoint`). `PathBothWays` alone is not inductive: it says nothing of what is in flight. |
| `DhtPunch_proofs!Refinement` | `ImplementsTwoWayPath` | under `PathInv` each step is a step of `TwoWayPath` or a stutter |
| `DhtPunch_proofs!RoomMembers` | `DeviceIsRoomMember` | `MemberInv` follows a payload through the program: what a datagram, `pending`, a confirmation, a candidate and a running IpcSet say of an endpoint is true of a peer that has run there |
| `EndpointTable_proofs!TableType` | types; every candidate has a success on record, the active endpoint is a candidate | `TableInv` |
| `EndpointTable_proofs!DeviceFollows` | `DeviceIsActive` | `TableInv`: without overlap there is at most one goroutine in IpcSet and it carries the active endpoint |
| `EndpointTable_proofs!StaleOnly`, `ColdOnly` | `SwitchOnlyFromStale`, `NewEndpointWaitsForCold` | outside the critical section exactly the candidates have a success on record, so the "no success yet" branch of `shouldSwitchEndpoint` is never taken |
| `EndpointTable_proofs!ImplementsTable` | `ImplementsPeerTable` | each step is `Add` or a stutter |
| `OnionFailover_proofs!TypeCorrect` | types; the failed rounds are counted anew after every attempt (`FailsCounted`) | inductive as it stands |
| `OnionFailover_proofs!OneThread`, `ServerReachesItself`, `TorServesRegistry` | `OneThreadStarts`, `ServerHasRegistry`, `TorHasRegistry` | `HostInv` with `WindowHasPort`: between Listen and the end of ensureRunning the port belongs to the thread and `localURL` is not set; and `TearingHasPort`: until the teardown goroutine has closed the server it is up |
| `OnionRegistry_proofs!RegistryStateType` | `TypeOK` | inductive as it stands |
| `OnionRegistry_proofs!OnlyOverlapParts` | `ConfiguredUnlessOverlap` | `PairInv`, for each pair whose goroutines have not overlapped: there is at most one (`Alone`), map and device agree until it has called IpcSet, and then the device has the endpoint it is about to mark (`InStep`) |
| `OnionRegistry_proofs!NeverTwice` | `InstalledOnce` | the same `PairInv`: `InStep` says of a goroutine on its own that the endpoint it is about to install is not the device's. It holds for any `Backlog`, over rebindings too. |
| `NostrRendezvous_proofs!RendezvousType` | types; the keepalive and the publisher have one idea of the address, and a relay sends only to an open subscription | inductive as it stands |
| `NostrRendezvous_proofs!CooldownSerialises`, `MapIsDevice` | `OneGoroutine`, `ConfiguredIsDevice` | `RendezvousInv`: while a goroutine runs the cooldown is not over (`Cooling`), so no second one is started; being alone, it finds the map in step with the device and leaves it so (`InStep`) |
| `StunClient_proofs!WalkNeverPanics` | - | for any attributes and any lengths of 16 bits, by induction over the attributes: with `Words` bytes left, a multiple of four, the guard keeps both slices in range in 16-bit arithmetic (`WalkStaysInside`), and what is left is again a multiple of four |
| `StunClient_proofs!ParserReads` | - | for any number of attributes: of an answer that is whole each attribute is read in turn (`WholeIsRead`), and the address found so far is the server's as soon as an XOR-MAPPED-ADDRESS has been read, or a MAPPED-ADDRESS if no middlebox has rewritten one; of one whose last attribute is not padded, what comes before is read, and that attribute panics (`LaterOddIsRead`) |
| `StunClient_proofs!TableOfOne` | `TableIsRunningQuery` | `TableInv`: besides, a transaction is running exactly while a query is |
| `StunClient_proofs!StunType`, `RecentResult`, `OnlyUnpaddedEnds` | `TypeOK`, `ResultIsRecent`, `OnlyUnpaddedOverruns` | `RecentInv`: what is in flight or buffered for the running transaction carries an endpoint of `since`; what the parser makes of it is `ParserReads` |
| `UdpDemux_proofs!RoutineWatches` | `RoutineWatchesBind` | `BindInv`: channels are not used twice |
| `UdpDemux_proofs!NoneStrays` | `NothingStrays` | `HeldIsPossible`: what is dispatched is in one of the formats; then a case for each protocol, for datagrams of any length |
| `UdpDemux_proofs!QueuesAreLossyQueues` | `ImplementsLossyQueues` | `QueueInv`: queues are sorted by arrival and everything a consumer has to do with came before the datagram held; being sorted, a queue has as many elements as it is long, which is what `LossyQueue` counts |
| `UdpDemux_proofs!DemuxType` | `TypeOK` | `QueueInv` with `ChannelInv`: a channel is replaced at most once for each closing |
| `Startup_proofs!StartupType` | `TypeOK` | `Shape` |
| `Startup_proofs!SocketIsOwn` | `UapiIsOwn` | `SocketInv` with `OwnIface`: two programs past `CreateTun` have different interfaces, so the one that removes a path removes nobody's |
| `Startup_proofs!IdentityIsStored` | `IdentityKept` | `IdentityInv` with `AloneWithFile` and `NotUsed`: two programs that both store an identity in one file have raced for it, and while only one does, nobody has gone on with another one since the file was given up |
| `Startup_proofs!ShellTakesPrecedence` | `SettingsHold` | `LoadEnvFileKeeps`: whatever lines follow, a variable that has a value keeps it, by induction over the lines; from there `SettingsInv`, that a program that runs has usable keys |

Some of these rest on what a recursive function computes for arguments of any
size: `LoadEnvFile` over the lines of a file, `PaddedSize` and `Walk` over the
attributes of an answer. The induction theorems of the library have an operator
as their parameter, which the provers cannot instantiate, so these proofs use a
set instead: `SetInduction` says that a set with 0 that is closed under the
successor contains the natural numbers, and follows from the well-foundedness
of `<` (`WFMin`, `NatLessThanWellFounded`). That the recursive functions exist,
so that their equations hold, is proved in the same way (`ReadingExists`,
`SizesExists`, `TurnsExists`).

Model-checked only: the liveness properties (`Configures`, `PunchersStop`,
`OneSideConfigures`, `FailoverHappens`, `PeersMeet`, `FollowsPublisher`,
`FindsAddress`, `NothingHangs`, `ComesUp`), which rest on fairness and are
outside the prover's reach.

## 5. What is not modelled

- Session IDs and time stamps of packets, which the program writes and never
  reads, and `FailCount`, which it reads and never increments.
- The bytes of packets, events, HTTP bodies and configuration files: a payload
  is the pair it carries, a line of a file its key and value. That `pack`
  leaves out a payload for its size is modelled (`LongRoom`), and so are the
  first four bytes of datagrams (`UdpDemux`) and the layout of STUN attributes
  (`StunMessage`).
- The LAN detection of `tor/` (`isLocallyReachable`): which peer reaches
  which LAN address is the constant `Lan`.
- WireGuard itself: handshakes, keepalives, and roaming, by which a device
  follows a peer that moves; the device's endpoint here is the one the program
  has set last.
- Events of one relay dated the same second: the relay orders them by
  identifier, the model by their creation.
- Addresses, prefixes and tags derived from hashes (`vpnaddr.go`) and the
  regular expressions of `validate.go`: a hash is a name here, and that peers
  with different keys have different addresses is a matter of SHA-256.
- What the `ip` commands do to the system, and the conversion of keys between
  base64 and hex. The program does not learn whether `ip` succeeded.
- The handshake watcher and the UAPI parser behind it (`wireguard.go`), which
  only write to the log.
- Sending: `demuxConn.WriteTo` and the bind's `Send` pass a datagram on to the
  socket. `demuxConn.Close` is called when the program ends.
- `tor_control.go`, a client that nothing calls, and `testing/`, scripts that
  start the programs and read their logs.
- The main functions of `dht/` and `tor/` as start-up: they take the same steps
  in the same order as that of `nostr/`, without an identity.

- A presence event whose `wg_pub` is shorter than eight characters panics where
  the log abbreviates it (`nostr/nostr_logic.go:167` and 286): the events of
  `NostrRendezvous` come from programs, whose keys are 44 characters long.
- The second test of the transaction ID, in `parseSTUNResponse` itself
  (`stun.go:67`): `deliverSTUNPacket` has tested it already, and without the
  second one the model does more than the code, so that `ResultIsRecent` rests
  on the first alone.
- On which address something other than the program listens: that the fixed
  local port is taken is part of the fault `start` (`ListenFails`).

## 6. Plan

Done, in this order: `DhtPunch` and `EndpointTable` with their abstract
specifications and proofs; `OnionFailover` with proofs; `OnionRegistry`;
`NostrRendezvous`; `StunClient`; `UdpDemux`; then `StunMessage`, `LossyQueue`,
`Settings` and `Startup`, restarts of the publisher, several registries at
once, and the proofs of `StunClient`, `UdpDemux` and `Startup`.

No further model is planned: section 5 says why what is left out is left out.

Proved since: the invariants of `OnionRegistry` and `NostrRendezvous`, the self
filter of `DhtPunch`, and what reading a file and parsing an answer give.

Next: an abstract specification of a table of configured peers and its device, which
`EndpointTable`, `OnionRegistry` and `NostrRendezvous` implement as far as
their goroutines do not overlap; what the queries of `StunClient` owe each
other as an action property.
