------------------------------ MODULE UdpDemux ------------------------------
(***************************************************************************)
(* The one UDP socket of a program and its consumers.  udpReadLoop is the  *)
(* only reader; it hands datagrams to WireGuard and, in dht/, to the DHT   *)
(* server through bounded queues, and handles hole punching or, in tor/    *)
(* and nostr/, the answers of STUN servers itself.  WireGuard gets its     *)
(* datagrams from sharedWGBind, which it closes and reopens.               *)
(*                                                                         *)
(* External: wireguard-go, which calls Close, waits until its receive      *)
(* routine has seen it, and only then calls Open; and the formats of what  *)
(* the peers, the STUN servers and the DHT's nodes send.                   *)
(***************************************************************************)
EXTENDS Naturals, Sequences

CONSTANTS
  Cap,      \* room in each queue (4096 in the code)
  Arrivals, \* bound: datagrams that arrive
  Length,   \* lengths of datagrams
  Reopens   \* bound: how often the bind is closed

Program == {"dht", "stun"}   \* dht/; tor/ or nostr/

ASSUME DemuxAssumption ==
  /\ Cap \in Nat \ {0}
  /\ Arrivals \in Nat /\ Reopens \in Nat
  /\ Length \subseteq Nat

(* Behind the socket: "punch" and "stun" are functions the loop calls.     *)
Consumer == {"wg", "punch", "dht", "stun"}
Queues   == {"wg", "dht"}

VARIABLES
  program,  \* which of the programs this is
  arrived,  \* number of datagrams read from the socket
  held,     \* the datagram the read loop is dispatching, if any
  queue,    \* queue["wg"]: sharedWGBind.rx; queue["dht"]: demuxConn.rx
  got,      \* got[c]: the datagrams consumer c has got, by number
  dropped,  \* history: dropped[c]: those dropped for want of room
  strayed,  \* history: those that went where they were not meant to go
  gen,      \* sharedWGBind.closed: its channels are numbered
  closed,   \* the channels among them that have been closed
  dev,      \* the device: "down", "closing" or "up"
  recv,     \* the receive routine: "off", "loop" or "wait"
  watched,  \* the channel it watches while it waits
  reopens   \* times the bind may still be closed

socket == <<program, arrived, held, got, dropped, strayed>>
bind == <<gen, closed, dev, recv, watched, reopens>>
vars == <<socket, queue, bind>>

Init ==
  /\ program \in Program
  /\ arrived = 0
  /\ held = {}
  /\ queue = [c \in Queues |-> <<>>]
  /\ got = [c \in Consumer |-> {}]
  /\ dropped = [c \in Queues |-> {}]
  /\ strayed = {}
  /\ gen = 0 /\ closed = {}
  /\ dev = "down" /\ recv = "off" /\ watched = 0
  /\ reopens = Reopens

-----------------------------------------------------------------------------
(* External: the four bytes that a datagram begins with.  A WireGuard      *)
(* message has its type there, in little-endian order.  A STUN answer has  *)
(* its type, 0x0101, and its length without the header, both big-endian; a *)
(* message of the DHT is a bencoded dictionary.  A magic word marks those  *)
(* of punch_proto.go.  Strangers may send anything.                        *)
Heads(proto, len) ==
  CASE proto = "wireguard" -> {<<t, 0, 0, 0>> : t \in 1 .. 4}
    [] proto = "stun"      -> {<<1, 1, (len - 20) \div 256, (len - 20) % 256>>}
    [] proto = "punch"     -> {<<80, 85, 78, 67>>}
    [] proto = "dht"       -> {<<100, 49, 58, 97>>}
    [] proto = "junk"      -> {<<4, 0, 0, 0>>, <<0, 0, 0, 0>>}

(* Their lengths: three of WireGuard's messages have a fixed one.          *)
Fixed == <<148, 92, 64>>

Possible(proto, head, len) ==
  CASE proto = "wireguard" -> IF head[1] = 4 THEN len >= 32
                              ELSE len = Fixed[head[1]]
    [] proto = "stun"      -> len >= 20 /\ (len - 20) % 4 = 0
    [] OTHER               -> TRUE

(* The protocols spoken to a program, and who is meant to get each. *)
Meant(prog) ==
  IF prog = "dht" THEN [wireguard |-> "wg", punch |-> "punch", dht |-> "dht"]
                  ELSE [wireguard |-> "wg", stun |-> "stun"]

-----------------------------------------------------------------------------
(* The least length of each type of WireGuard message. *)
MinLength == <<148, 92, 64, 32>>

(* Mutant of LooksLikeWireGuard: the type is taken for one byte. *)
MutLooksByte(head, len) == head[1] \in 1 .. 4 /\ len >= MinLength[head[1]]

(* looksLikeWireGuard: of the values of a little-endian word, four count.  *)
LooksLikeWireGuard(head, len) ==
  /\ head \in {<<t, 0, 0, 0>> : t \in 1 .. 4}
  /\ len >= MinLength[head[1]]

(* Where the read loop of dht/ sends a datagram: unpack wants the magic.   *)
RouteDht(d) ==
  IF LooksLikeWireGuard(d.head, d.len) THEN "wg"
  ELSE IF d.proto = "punch" THEN "punch" ELSE "dht"

(* Where that of tor/ and nostr/ does: deliverSTUNPacket wants the type,   *)
(* the magic cookie and the length of a header.                            *)
RouteStun(d) ==
  IF LooksLikeWireGuard(d.head, d.len) THEN "wg"
  ELSE IF /\ d.proto = "stun" /\ d.len >= 20
          /\ <<d.head[1], d.head[2]>> = <<1, 1>>
       THEN "stun" ELSE "nobody"

Route(d) == IF program = "dht" THEN RouteDht(d) ELSE RouteStun(d)

(* ReadFromUDP returns a datagram. *)
Arrive(proto, len) ==
  /\ held = {}
  /\ arrived < Arrivals
  /\ arrived' = arrived + 1
  /\ \E head \in Heads(proto, len) :
       /\ Possible(proto, head, len)
       /\ held' = {[id |-> arrived', proto |-> proto, head |-> head,
                    len |-> len]}
  /\ UNCHANGED <<program, queue, got, dropped, strayed, bind>>

(* Mutant of Enqueue: the queue has room for one more. *)
MutEnqueueOneMore(c, id) ==
  IF Len(queue[c]) <= Cap
  THEN queue' = [queue EXCEPT ![c] = Append(@, id)] /\ UNCHANGED dropped
  ELSE dropped' = [dropped EXCEPT ![c] = @ \union {id}] /\ UNCHANGED queue

(* The send of the read loop: what does not fit is dropped. *)
Enqueue(c, id) ==
  IF Len(queue[c]) < Cap
  THEN queue' = [queue EXCEPT ![c] = Append(@, id)] /\ UNCHANGED dropped
  ELSE dropped' = [dropped EXCEPT ![c] = @ \union {id}] /\ UNCHANGED queue

(* The datagram is queued, or handled by the read loop itself, or dropped. *)
Dispatch(d) ==
  /\ held' = {}
  /\ LET to == Route(d)
         m  == Meant(program)
     IN /\ CASE to \in Queues -> Enqueue(to, d.id) /\ UNCHANGED got
             [] to \in Consumer \ Queues ->
                  /\ got' = [got EXCEPT ![to] = @ \union {d.id}]
                  /\ UNCHANGED <<queue, dropped>>
             [] OTHER -> UNCHANGED <<queue, got, dropped>>
        /\ strayed' = IF d.proto \in DOMAIN m /\ m[d.proto] # to
                      THEN strayed \union {d.id} ELSE strayed
  /\ UNCHANGED <<program, arrived, bind>>

(* A consumer takes a datagram from its queue. *)
Dequeue(c) ==
  /\ queue[c] # <<>>
  /\ got' = [got EXCEPT ![c] = @ \union {Head(queue[c])}]
  /\ queue' = [queue EXCEPT ![c] = Tail(@)]

(* demuxConn.ReadFrom, called by the DHT server. *)
ReadFrom ==
  /\ Dequeue("dht")
  /\ UNCHANGED <<program, arrived, held, dropped, strayed, bind>>

-----------------------------------------------------------------------------
(* The receive function looks up the closed channel, without the lock, ... *)
RecvLoop ==
  /\ recv = "loop"
  /\ recv' = "wait"
  /\ watched' = gen
  /\ UNCHANGED <<socket, queue, gen, closed, dev, reopens>>

(* ... and waits for a datagram, ...                                       *)
RecvPacket ==
  /\ recv = "wait"
  /\ Dequeue("wg")
  /\ recv' = "loop"
  /\ UNCHANGED <<program, arrived, held, dropped, strayed, gen, closed, dev,
                 watched, reopens>>

(* ... or for the channel to be closed, whereupon the routine ends.        *)
RecvClosed ==
  /\ recv = "wait" /\ watched \in closed
  /\ recv' = "off"
  /\ UNCHANGED <<socket, queue, gen, closed, dev, watched, reopens>>

(* Mutant of Close: a sync.Once in place of the select. *)
MutCloseOnce == closed' = IF closed = {} THEN {gen} ELSE closed

(* sharedWGBind.Close: the second of two calls does nothing. *)
Close == closed' = closed \union {gen}

(* The device goes down, or takes up a new port, or goes up the first time:*)
(* it closes the bind in any case.                                         *)
CloseBind ==
  /\ dev # "closing"
  /\ reopens > 0
  /\ reopens' = reopens - 1
  /\ Close
  /\ dev' = "closing"
  /\ UNCHANGED <<socket, queue, gen, recv, watched>>

(* Mutants of Open: the closed channel is used again; both are replaced.   *)
MutOpenSame == UNCHANGED <<gen, queue>>
MutOpenEmpties ==
  /\ gen' = IF gen \in closed THEN gen + 1 ELSE gen
  /\ queue' = [queue EXCEPT !["wg"] = <<>>]

(* sharedWGBind.Open: a closed channel is replaced, and rx is kept. *)
Open ==
  /\ gen' = IF gen \in closed THEN gen + 1 ELSE gen
  /\ UNCHANGED queue

(* The receive routine has ended; the device stays down, ... *)
StayDown ==
  /\ dev = "closing" /\ recv = "off"
  /\ dev' = "down"
  /\ UNCHANGED <<socket, queue, gen, closed, recv, watched, reopens>>

(* ... or opens the bind and starts a new routine. *)
OpenBind ==
  /\ dev = "closing" /\ recv = "off"
  /\ Open
  /\ dev' = "up"
  /\ recv' = "loop"
  /\ UNCHANGED <<socket, closed, watched, reopens>>

-----------------------------------------------------------------------------
Dispatches == \E d \in held : Dispatch(d)

ReadLoop ==
  \/ Dispatches
  \/ \E proto \in DOMAIN Meant(program) \union {"junk"}, len \in Length :
       Arrive(proto, len)

Receiver == RecvLoop \/ RecvPacket \/ RecvClosed

Device == CloseBind \/ StayDown \/ OpenBind

Next == ReadLoop \/ ReadFrom \/ Receiver \/ Device

Spec == Init /\ [][Next]_vars

(* The read loop and the receive routine go on, and so does a device that  *)
(* is closing; a select with two ready cases does not take the same one    *)
(* for ever.  Nothing is assumed of the DHT server.                        *)
Fairness == /\ WF_vars(Dispatches) /\ WF_vars(Receiver)
            /\ WF_vars(StayDown \/ OpenBind)
            /\ SF_vars(RecvClosed)

FairSpec == Spec /\ Fairness

-----------------------------------------------------------------------------
TypeOK ==
  /\ program \in Program
  /\ arrived \in 0 .. Arrivals
  /\ \A d \in held : d.id \in 1 .. Arrivals
  /\ \A c \in Queues : /\ queue[c] \in Seq(1 .. Arrivals)
                       /\ Len(queue[c]) <= Cap
  /\ got \in [Consumer -> SUBSET (1 .. Arrivals)]
  /\ dropped \in [Queues -> SUBSET (1 .. Arrivals)]
  /\ strayed \in SUBSET (1 .. Arrivals)
  /\ gen \in 0 .. Reopens
  /\ closed \in SUBSET (0 .. Reopens)
  /\ dev \in {"down", "closing", "up"}
  /\ recv \in {"off", "loop", "wait"}
  /\ watched \in 0 .. Reopens
  /\ reopens \in 0 .. Reopens

(* The formats tell the protocols apart on the one socket: WireGuard's     *)
(* keepalives of 32 bytes are let through, a long STUN answer is not taken *)
(* for a handshake, nor the one thing for the other in any other way.      *)
NothingStrays == strayed = {}

Queued(c) == {queue[c][i] : i \in 1 .. Len(queue[c])}

Wg == INSTANCE LossyQueue
        WITH Items <- 1 .. Arrivals, waiting <- Queued("wg"),
             got <- got["wg"], lost <- dropped["wg"]

Dht == INSTANCE LossyQueue
         WITH Items <- 1 .. Arrivals, waiting <- Queued("dht"),
              got <- got["dht"], lost <- dropped["dht"]

(* Both queues keep what LossyQueue promises, WireGuard's also while the   *)
(* device reopens its bind: nothing is lost, reordered or delivered twice. *)
ImplementsLossyQueues == Wg!Spec /\ Dht!Spec

(* While the device is up, the channel its routine watches is open, and is *)
(* the one the next Close closes: the routine neither ends early nor       *)
(* misses the end.                                                         *)
RoutineWatchesBind ==
  dev = "up" => /\ gen \notin closed
                /\ recv # "off"
                /\ recv = "wait" => watched = gen

(* The read loop handles what it reads whatever the queues' state, with    *)
(* the device down and the DHT server stuck; and Close ends the receive    *)
(* routine, even while datagrams keep coming.                              *)
NothingHangs == /\ [](held # {} => <>(held = {}))
                /\ [](dev = "closing" => <>(dev # "closing"))
=============================================================================
