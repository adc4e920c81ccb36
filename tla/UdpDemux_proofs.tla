--------------------------- MODULE UdpDemux_proofs --------------------------
(***************************************************************************)
(* Proofs about UdpDemux.tla for queues of any length, any number of       *)
(* datagrams of any lengths, and a bind closed any number of times.        *)
(***************************************************************************)
EXTENDS UdpDemux, FiniteSetTheorems, FunctionTheorems, TLAPS

-----------------------------------------------------------------------------
(* While a bind is being closed its channel is closed, and so it is after  *)
(* every Close until the next Open: channels are not used twice.           *)
BindInv ==
  /\ gen \in Nat
  /\ closed \subseteq 0 .. gen
  /\ dev \in {"down", "closing", "up"}
  /\ dev = "down" => recv = "off"
  /\ RoutineWatchesBind

LEMMA NextBind == BindInv /\ [Next]_vars => BindInv'
<1> SUFFICES ASSUME BindInv, [Next]_vars PROVE BindInv'
  OBVIOUS
<1> USE DEF BindInv, RoutineWatchesBind
<1>1. CASE ReadLoop \/ ReadFrom \/ UNCHANGED vars
  BY <1>1 DEF ReadLoop, Dispatches, Dispatch, Arrive, ReadFrom, bind, vars
<1>2. CASE RecvLoop
  BY <1>2 DEF RecvLoop
<1>3. CASE RecvPacket
  BY <1>3 DEF RecvPacket
<1>4. CASE RecvClosed
  BY <1>4 DEF RecvClosed
<1>5. CASE CloseBind
  BY <1>5 DEF CloseBind, Close
<1>6. CASE StayDown
  BY <1>6 DEF StayDown
<1>7. CASE OpenBind
  <2>1. gen' \in Nat /\ gen' \notin closed /\ closed \subseteq 0 .. gen'
    BY <1>7 DEF OpenBind, Open
  <2> QED
    BY <1>7, <2>1 DEF OpenBind
<1> QED
  BY <1>1, <1>2, <1>3, <1>4, <1>5, <1>6, <1>7 DEF Next, Receiver, Device

(* The receive routine of a device that is up watches the very channel the *)
(* next Close closes.                                                      *)
THEOREM RoutineWatches == Spec => []RoutineWatchesBind
<1>1. Init => BindInv
  BY DEF Init, BindInv, RoutineWatchesBind
<1>2. BindInv => RoutineWatchesBind
  BY DEF BindInv
<1> QED
  BY <1>1, <1>2, NextBind, PTL DEF Spec

-----------------------------------------------------------------------------
(* What the read loop holds is in one of the formats. *)
HeldIsPossible ==
  \A d \in held :
    /\ d.proto \in DOMAIN Meant(program) \union {"junk"}
    /\ d.head \in Heads(d.proto, d.len)
    /\ d.len \in Length
    /\ Possible(d.proto, d.head, d.len)

LEMMA NextHeld == HeldIsPossible /\ [Next]_vars => HeldIsPossible'
<1> SUFFICES ASSUME HeldIsPossible, [Next]_vars PROVE HeldIsPossible'
  OBVIOUS
<1>1. ASSUME NEW proto \in DOMAIN Meant(program) \union {"junk"},
             NEW len \in Length, Arrive(proto, len)
      PROVE  HeldIsPossible'
  BY <1>1 DEF Arrive, HeldIsPossible
<1>2. CASE Dispatches
  BY <1>2 DEF Dispatches, Dispatch, HeldIsPossible
<1>3. CASE ReadFrom \/ Receiver \/ Device \/ UNCHANGED vars
  <2>1. UNCHANGED <<program, held>>
    BY <1>3 DEF ReadFrom, Receiver, RecvLoop, RecvPacket, RecvClosed, Device,
         CloseBind, StayDown, OpenBind, socket, vars
  <2> QED
    BY <2>1 DEF HeldIsPossible
<1> QED
  BY <1>1, <1>2, <1>3 DEF Next, ReadLoop

(* A WireGuard message has the type and at least the length asked for, ... *)
LEMMA WireGuardLooksIt ==
  ASSUME NEW len \in Nat, NEW head \in Heads("wireguard", len),
         Possible("wireguard", head, len)
  PROVE  LooksLikeWireGuard(head, len)
<1>1. PICK t \in 1 .. 4 : head = <<t, 0, 0, 0>>
  BY DEF Heads
<1>2. t = 1 \/ t = 2 \/ t = 3 \/ t = 4
  OBVIOUS
<1>3. head[1] = t
  BY <1>1
<1>4. len >= MinLength[t]
  BY <1>2, <1>3 DEF Possible, Fixed, MinLength
<1> QED
  BY <1>1, <1>3, <1>4 DEF LooksLikeWireGuard

(* ... and nothing else that is meant for somebody has that type. *)
LEMMA OthersDoNot ==
  ASSUME NEW proto \in {"stun", "punch", "dht"}, NEW len \in Nat,
         NEW head \in Heads(proto, len)
  PROVE  ~LooksLikeWireGuard(head, len)
<1>1. head[2] # 0
  BY DEF Heads
<1>2. \A t \in 1 .. 4 : <<t, 0, 0, 0>>[2] = 0
  OBVIOUS
<1> QED
  BY <1>1, <1>2 DEF LooksLikeWireGuard

LEMMA RouteIsMeant ==
  ASSUME HeldIsPossible, program \in Program, Length \subseteq Nat,
         NEW d \in held, d.proto \in DOMAIN Meant(program)
  PROVE  Route(d) = Meant(program)[d.proto]
<1>0. /\ d.len \in Nat /\ d.head \in Heads(d.proto, d.len)
      /\ Possible(d.proto, d.head, d.len)
  BY DEF HeldIsPossible
<1>1. CASE d.proto = "wireguard"
  <2>1. LooksLikeWireGuard(d.head, d.len)
    BY <1>0, <1>1, WireGuardLooksIt
  <2> QED
    BY <1>1, <2>1 DEF Route, RouteDht, RouteStun, Meant
<1>2. CASE program = "dht" /\ d.proto # "wireguard"
  <2>1. d.proto \in {"punch", "dht"}
    BY <1>2 DEF Meant
  <2>2. ~LooksLikeWireGuard(d.head, d.len)
    BY <1>0, <2>1, OthersDoNot
  <2> QED
    BY <1>2, <2>1, <2>2 DEF Route, RouteDht, Meant
<1>3. CASE program = "stun" /\ d.proto # "wireguard"
  <2>1. d.proto = "stun"
    BY <1>3 DEF Meant
  <2>2. ~LooksLikeWireGuard(d.head, d.len)
    BY <1>0, <2>1, OthersDoNot
  <2>3. d.head[1] = 1 /\ d.head[2] = 1
    BY <1>0, <2>1 DEF Heads
  <2>4. d.len >= 20
    BY <1>0, <2>1 DEF Possible
  <2> QED
    BY <1>3, <2>1, <2>2, <2>3, <2>4 DEF Route, RouteStun, Meant
<1> QED
  BY <1>1, <1>2, <1>3 DEF Program

-----------------------------------------------------------------------------
StrayInv == HeldIsPossible /\ program \in Program /\ strayed = {}

LEMMA NextStray == StrayInv /\ [Next]_vars => StrayInv'
<1> SUFFICES ASSUME StrayInv, [Next]_vars PROVE StrayInv'
  OBVIOUS
<1>1. HeldIsPossible'
  BY NextHeld DEF StrayInv
<1>2. program' = program
  BY DEF Next, ReadLoop, Dispatches, Dispatch, Arrive, ReadFrom, Receiver,
      RecvLoop, RecvPacket, RecvClosed, Device, CloseBind, StayDown, OpenBind,
      socket, vars
<1>3. CASE Dispatches
  <2>1. PICK d \in held : Dispatch(d)
    BY <1>3 DEF Dispatches
  <2>2. d.proto \in DOMAIN Meant(program)
          => Meant(program)[d.proto] = Route(d)
    BY RouteIsMeant, DemuxAssumption DEF StrayInv
  <2>3. strayed' = strayed
    BY <2>1, <2>2 DEF Dispatch
  <2> QED
    BY <1>1, <1>2, <2>3 DEF StrayInv
<1>4. CASE ~Dispatches
  <2>1. strayed' = strayed
    BY <1>4 DEF Next, ReadLoop, Arrive, ReadFrom, Receiver, RecvLoop,
        RecvPacket, RecvClosed, Device, CloseBind, StayDown, OpenBind, socket,
        vars
  <2> QED
    BY <1>1, <1>2, <2>1 DEF StrayInv
<1> QED
  BY <1>3, <1>4

(* Whatever the lengths of the datagrams, each one that is in a format the *)
(* program speaks reaches the consumer it is meant for, or its queue.      *)
THEOREM NoneStrays == Spec => []NothingStrays
<1>1. Init => StrayInv
  BY DEF Init, StrayInv, HeldIsPossible
<1>2. StrayInv => NothingStrays
  BY DEF StrayInv, NothingStrays
<1> QED
  BY <1>1, <1>2, NextStray, PTL DEF Spec

-----------------------------------------------------------------------------
Number == 1 .. Arrivals

(* Datagrams are numbered as they arrive and handled at once: the one held *)
(* is the latest, and those a consumer has got, lost or still to get are   *)
(* earlier.                                                                *)
Earlier(c) ==
  \A i \in Queued(c) \union got[c] \union dropped[c] :
    i <= arrived /\ (held # {} => i < arrived)

Sorted(c) ==
  \A i, j \in 1 .. Len(queue[c]) : i < j => queue[c][i] < queue[c][j]

QueueInv ==
  /\ program \in Program
  /\ arrived \in 0 .. Arrivals
  /\ \A d \in held : d.id = arrived /\ d.id \in Number
  /\ queue \in [Queues -> Seq(Number)]
  /\ got \in [Consumer -> SUBSET Number]
  /\ dropped \in [Queues -> SUBSET Number]
  /\ \A c \in Queues : Len(queue[c]) <= Cap /\ Sorted(c) /\ Earlier(c)

LEMMA QueueOfTwo == Queues \subseteq Consumer /\ Queues = {"wg", "dht"}
  BY DEF Queues, Consumer

LEMMA NumberIsNat == Number \subseteq Nat
  BY DemuxAssumption DEF Number

Elements(q) == {q[i] : i \in 1 .. Len(q)}

(* What is appended to a queue joins what is queued. *)
LEMMA QueuedAppend ==
  ASSUME NEW q \in Seq(Number), NEW n \in Number
  PROVE  Elements(Append(q, n)) = Elements(q) \union {n}
<1> DEFINE r == Append(q, n)
<1>1. Len(r) = Len(q) + 1 /\ r[Len(q) + 1] = n
  OBVIOUS
<1>2. \A i \in 1 .. Len(q) : r[i] = q[i]
  OBVIOUS
<1>3. 1 .. Len(r) = (1 .. Len(q)) \union {Len(q) + 1}
  BY <1>1
<1> HIDE DEF r
<1>4. Elements(r) = Elements(q) \union {n}
  BY <1>1, <1>2, <1>3 DEF Elements
<1> QED
  BY <1>4 DEF r

(* The head of a sorted queue is its least element and not in its tail. *)
LEMMA QueuedTail ==
  ASSUME NEW q \in Seq(Number), q # <<>>,
         \A i, j \in 1 .. Len(q) : i < j => q[i] < q[j]
  PROVE  /\ Elements(Tail(q)) = Elements(q) \ {Head(q)}
         /\ Head(q) \in Elements(q)
         /\ \A j \in Elements(q) : Head(q) <= j
<1> DEFINE t == Tail(q)
           all == Elements(q)
<1>1. /\ Len(q) \in Nat \ {0} /\ Head(q) = q[1]
      /\ \A i \in 1 .. Len(q) : q[i] \in Nat
  <2>1. \A i \in 1 .. Len(q) : q[i] \in Number
    OBVIOUS
  <2>2. Len(q) \in Nat \ {0}
    OBVIOUS
  <2>3. Head(q) = q[1]
    OBVIOUS
  <2> QED
    BY <2>1, <2>2, <2>3, NumberIsNat
<1>2. Len(t) = Len(q) - 1 /\ \A i \in 1 .. Len(t) : t[i] = q[i + 1]
  OBVIOUS
<1> HIDE DEF t
<1>3. Elements(t) = {q[i] : i \in 2 .. Len(q)}
  <2>1. \A i \in 2 .. Len(q) : i - 1 \in 1 .. Len(t) /\ t[i - 1] = q[i]
    BY <1>1, <1>2
  <2>2. \A i \in 1 .. Len(t) : i + 1 \in 2 .. Len(q)
    BY <1>1, <1>2
  <2> QED
    BY <1>2, <2>1, <2>2 DEF Elements
<1>4. \A i \in 2 .. Len(q) : q[1] < q[i]
  BY <1>1
<1>5. {q[i] : i \in 2 .. Len(q)} = all \ {q[1]}
  <2>1. \A i \in 1 .. Len(q) : q[i] # q[1] => i \in 2 .. Len(q)
    BY <1>1
  <2>2. \A i \in 2 .. Len(q) : q[i] # q[1] /\ i \in 1 .. Len(q)
    BY <1>1, <1>4
  <2> QED
    BY <2>1, <2>2 DEF Elements
<1>6. q[1] \in all /\ \A j \in all : q[1] <= j
  BY <1>1, <1>4 DEF Elements
<1>7. Elements(t) = all \ {Head(q)}
  BY <1>1, <1>3, <1>5
<1> QED
  BY <1>1, <1>6, <1>7 DEF t

(* As many are waiting as the queue is long. *)
LEMMA QueuedCardinality ==
  ASSUME QueueInv, NEW c \in Queues
  PROVE  Cardinality(Queued(c)) = Len(queue[c])
<1> DEFINE q == queue[c]
<1>1. q \in Seq(Number) /\ Sorted(c)
  BY DEF QueueInv
<1>2. Len(q) \in Nat /\ \A i \in 1 .. Len(q) : q[i] \in Nat
  <2>1. Len(q) \in Nat /\ \A i \in 1 .. Len(q) : q[i] \in Number
    BY <1>1
  <2> QED
    BY <2>1, NumberIsNat
<1>3. q \in Bijection(1 .. Len(q), Queued(c))
  <2>1. q \in [1 .. Len(q) -> Queued(c)]
    BY <1>1 DEF Queued
  <2>2. ASSUME NEW i \in 1 .. Len(q), NEW j \in 1 .. Len(q), q[i] = q[j]
        PROVE  i = j
    <3>1. ~(i < j) /\ ~(j < i)
      BY <1>1, <1>2, <2>2 DEF Sorted
    <3> QED
      BY <1>2, <3>1
  <2>3. \A x \in Queued(c) : \E i \in 1 .. Len(q) : q[i] = x
    BY DEF Queued
  <2> QED
    BY <2>1, <2>2, <2>3, Fun_IsBij
<1> QED
  BY <1>2, <1>3, FS_CountingElements, Fun_ExistsBij

-----------------------------------------------------------------------------
LEMMA DispatchCases ==
  ASSUME NEW d, Dispatch(d)
  PROVE  /\ held' = {} /\ UNCHANGED <<program, arrived>>
         /\ \/ \E c \in Queues : Enqueue(c, d.id) /\ UNCHANGED got
            \/ /\ \E c \in Consumer \ Queues :
                    got' = [got EXCEPT ![c] = @ \union {d.id}]
               /\ UNCHANGED <<queue, dropped>>
            \/ UNCHANGED <<queue, got, dropped>>
  BY Zenon DEF Dispatch

LEMMA EnqueueQueue ==
  ASSUME QueueInv, NEW d \in held, NEW c \in Queues, Enqueue(c, d.id),
         held' = {}, UNCHANGED <<program, arrived, got>>
  PROVE  QueueInv'
<1>1. /\ d.id \in Number /\ d.id = arrived /\ queue[c] \in Seq(Number)
      /\ queue \in [Queues -> Seq(Number)]
      /\ dropped \in [Queues -> SUBSET Number]
  BY DEF QueueInv
<1>2. CASE Len(queue[c]) < Cap
  <2>1. /\ queue' = [queue EXCEPT ![c] = Append(@, d.id)]
        /\ dropped' = dropped
    BY <1>2 DEF Enqueue
  <2>2. queue' \in [Queues -> Seq(Number)]
    BY <1>1, <2>1
  <2>3. /\ \A b \in Queues : b # c => queue'[b] = queue[b]
        /\ queue'[c] = Append(queue[c], d.id)
    BY <1>1, <2>1
  <2>4. Len(queue'[c]) <= Cap
    BY <1>1, <1>2, <2>3, DemuxAssumption
  <2>5. Elements(queue'[c]) = Queued(c) \union {d.id}
    BY <1>1, <2>3, QueuedAppend DEF Queued, Elements
  <2>6. Sorted(c)'
    <3>1. \A i \in 1 .. Len(queue[c]) : queue[c][i] < d.id
      BY <1>1 DEF QueueInv, Earlier, Queued
    <3>2. Sorted(c)
      BY DEF QueueInv
    <3> QED
      BY <1>1, <2>3, <3>1, <3>2 DEF Sorted
  <2>7. Earlier(c)'
    BY <1>1, <2>1, <2>5, NumberIsNat DEF Earlier, QueueInv, Queued, Elements
  <2>8. \A b \in Queues : b # c => Sorted(b)' /\ Earlier(b)'
    BY <2>1, <2>3 DEF Sorted, Earlier, QueueInv, Queued
  <2> QED
    BY <2>1, <2>2, <2>3, <2>4, <2>6, <2>7, <2>8 DEF QueueInv
<1>3. CASE ~(Len(queue[c]) < Cap)
  <2>1. /\ dropped' = [dropped EXCEPT ![c] = @ \union {d.id}]
        /\ queue' = queue
    BY <1>3 DEF Enqueue
  <2>2. /\ dropped' \in [Queues -> SUBSET Number]
        /\ \A b \in Queues : dropped'[b] \subseteq dropped[b] \union {d.id}
    BY <1>1, <2>1
  <2>3. \A b \in Queues : Sorted(b)' /\ Earlier(b)'
    BY <1>1, <2>1, <2>2, NumberIsNat
        DEF Sorted, Earlier, QueueInv, Queued
  <2> QED
    BY <2>1, <2>2, <2>3 DEF QueueInv
<1> QED
  BY <1>2, <1>3

LEMMA DequeueQueue ==
  ASSUME QueueInv, NEW c \in Queues, Dequeue(c),
         UNCHANGED <<program, arrived, held, dropped>>
  PROVE  QueueInv'
<1>1. /\ queue[c] \in Seq(Number) /\ queue \in [Queues -> Seq(Number)]
      /\ got \in [Consumer -> SUBSET Number] /\ c \in Consumer
      /\ Sorted(c) /\ Len(queue[c]) <= Cap
  BY QueueOfTwo DEF QueueInv
<1>2. /\ queue[c] # <<>>
      /\ got' = [got EXCEPT ![c] = @ \union {Head(queue[c])}]
      /\ queue' = [queue EXCEPT ![c] = Tail(@)]
  BY DEF Dequeue
<1>3. /\ Elements(Tail(queue[c])) = Queued(c) \ {Head(queue[c])}
      /\ Head(queue[c]) \in Queued(c)
  BY <1>1, <1>2, QueuedTail DEF Sorted, Queued, Elements
<1>4. Tail(queue[c]) \in Seq(Number) /\ Head(queue[c]) \in Number
  BY <1>1, <1>2
<1>5. /\ queue' \in [Queues -> Seq(Number)]
      /\ queue'[c] = Tail(queue[c])
      /\ \A b \in Queues : b # c => queue'[b] = queue[b]
  BY <1>1, <1>2, <1>4
<1>6. /\ got' \in [Consumer -> SUBSET Number]
      /\ got'[c] = got[c] \union {Head(queue[c])}
      /\ \A b \in Queues : b # c => got'[b] = got[b]
  BY <1>1, <1>2, <1>4, QueueOfTwo
<1>7. Len(queue'[c]) <= Cap /\ Sorted(c)'
  <2>1. /\ Len(Tail(queue[c])) = Len(queue[c]) - 1
        /\ \A i \in 1 .. Len(Tail(queue[c])) :
             Tail(queue[c])[i] = queue[c][i + 1]
    BY <1>1, <1>2
  <2>2. Len(queue[c]) \in Nat
    BY <1>1
  <2> QED
    BY <1>1, <1>5, <2>1, <2>2, DemuxAssumption DEF Sorted
<1>8. Queued(c)' = Queued(c) \ {Head(queue[c])}
  BY <1>3, <1>5 DEF Queued, Elements
<1>9. Earlier(c)'
  BY <1>3, <1>6, <1>8 DEF Earlier, QueueInv
<1>10. \A b \in Queues : b # c => Sorted(b)' /\ Earlier(b)'
  BY <1>5, <1>6 DEF Sorted, Earlier, QueueInv, Queued
<1> QED
  BY <1>5, <1>6, <1>7, <1>9, <1>10 DEF QueueInv

LEMMA NextQueue == QueueInv /\ [Next]_vars => QueueInv'
<1> SUFFICES ASSUME QueueInv, [Next]_vars PROVE QueueInv'
  OBVIOUS
<1>1. ASSUME NEW proto, NEW len, Arrive(proto, len)
      PROVE  QueueInv'
  <2>1. /\ held = {} /\ arrived' = arrived + 1 /\ arrived < Arrivals
        /\ \A d \in held' : d.id = arrived'
        /\ UNCHANGED <<program, queue, got, dropped>>
    BY <1>1 DEF Arrive
  <2>2. arrived \in Nat /\ arrived' \in Number
    BY <2>1, DemuxAssumption DEF QueueInv, Number
  <2>3. arrived' \in 0 .. Arrivals
    BY <2>1, <2>2, DemuxAssumption
  <2>4. \A c \in Queues : Earlier(c)'
    <3> SUFFICES ASSUME NEW c \in Queues,
                        NEW i \in Queued(c) \union got[c] \union dropped[c]
                 PROVE  i <= arrived' /\ i < arrived'
      BY <2>1 DEF Earlier, Queued
    <3>1. i <= arrived
      BY DEF QueueInv, Earlier
    <3>2. i \in Nat
      <4>1. queue[c] \in Seq(Number)
        BY DEF QueueInv
      <4>2. Queued(c) \subseteq Number
        BY <4>1 DEF Queued
      <4> QED
        BY <4>2, QueueOfTwo, NumberIsNat DEF QueueInv
    <3> QED
      BY <2>1, <2>2, <3>1, <3>2
  <2> QED
    BY <2>1, <2>2, <2>3, <2>4 DEF QueueInv, Sorted
<1>2. ASSUME NEW d \in held, Dispatch(d)
      PROVE  QueueInv'
  <2>1. held' = {} /\ UNCHANGED <<program, arrived>>
    BY <1>2, DispatchCases
  <2>2. CASE \E c \in Queues : Enqueue(c, d.id) /\ UNCHANGED got
    BY <2>1, <2>2, EnqueueQueue
  <2>3. CASE /\ \E c \in Consumer \ Queues :
                  got' = [got EXCEPT ![c] = @ \union {d.id}]
             /\ UNCHANGED <<queue, dropped>>
    <3>1. d.id \in Number
      BY DEF QueueInv
    <3>2. got' \in [Consumer -> SUBSET Number]
      BY <2>3, <3>1 DEF QueueInv
    <3>3. \A c \in Queues : got'[c] = got[c]
      BY <2>3, QueueOfTwo DEF QueueInv
    <3> QED
      BY <2>1, <2>3, <3>2, <3>3 DEF QueueInv, Sorted, Earlier, Queued
  <2>4. CASE UNCHANGED <<queue, got, dropped>>
    BY <2>1, <2>4 DEF QueueInv, Sorted, Earlier, Queued
  <2> QED
    BY <1>2, <2>2, <2>3, <2>4, DispatchCases
<1>3. CASE ReadFrom
  BY <1>3, DequeueQueue DEF ReadFrom, Queues
<1>4. CASE RecvPacket
  BY <1>4, DequeueQueue DEF RecvPacket, Queues
<1>5. CASE RecvLoop \/ RecvClosed \/ Device \/ UNCHANGED vars
  <2>1. UNCHANGED <<program, arrived, held, queue, got, dropped>>
    BY <1>5 DEF RecvLoop, RecvClosed, Device, CloseBind, StayDown, OpenBind,
        Open, socket, vars
  <2> QED
    BY <2>1 DEF QueueInv, Sorted, Earlier, Queued
<1> QED
  BY <1>1, <1>2, <1>3, <1>4, <1>5 DEF Next, ReadLoop, Dispatches, Receiver

LEMMA InitQueue == Init => QueueInv
<1> SUFFICES ASSUME Init PROVE QueueInv
  OBVIOUS
<1>1. \A c \in Queues : queue[c] = <<>> /\ got[c] = {} /\ dropped[c] = {}
  BY QueueOfTwo DEF Init
<1>2. \A c \in Queues : Sorted(c) /\ Earlier(c)
  BY <1>1 DEF Sorted, Earlier, Queued
<1> QED
  BY <1>1, <1>2, DemuxAssumption DEF Init, QueueInv

-----------------------------------------------------------------------------
(* What a step of LossyQueue is, for either queue. *)
SendStep(c, i) ==
  /\ \A j \in Queued(c) \union got[c] \union dropped[c] : j < i
  /\ IF Cardinality(Queued(c)) < Cap
     THEN /\ Queued(c)' = Queued(c) \union {i}
          /\ dropped'[c] = dropped[c]
     ELSE /\ dropped'[c] = dropped[c] \union {i}
          /\ Queued(c)' = Queued(c)
  /\ got'[c] = got[c]

ReceiveStep(c, i) ==
  /\ i \in Queued(c)
  /\ \A j \in Queued(c) : i <= j
  /\ Queued(c)' = Queued(c) \ {i}
  /\ got'[c] = got[c] \union {i}
  /\ dropped'[c] = dropped[c]

Stutter(c) ==
  UNCHANGED <<Queued(c), got[c], dropped[c]>>

LEMMA EnqueueSends ==
  ASSUME QueueInv, NEW d \in held, NEW b \in Queues, Enqueue(b, d.id),
         UNCHANGED got, NEW c \in Queues
  PROVE  SendStep(c, d.id) \/ Stutter(c)
<1>1. /\ d.id \in Number /\ d.id = arrived /\ queue[b] \in Seq(Number)
      /\ queue \in [Queues -> Seq(Number)]
      /\ dropped \in [Queues -> SUBSET Number]
  BY DEF QueueInv
<1>2. CASE b # c
  BY <1>1, <1>2 DEF Enqueue, Stutter, Queued
<1>3. CASE b = c
  <2>1. \A j \in Queued(c) \union got[c] \union dropped[c] : j < d.id
    BY <1>1 DEF QueueInv, Earlier
  <2>2. CASE Len(queue[c]) < Cap
    <3>1. queue'[c] = Append(queue[c], d.id) /\ dropped' = dropped
      BY <1>1, <1>3, <2>2 DEF Enqueue
    <3>2. Elements(queue'[c]) = Elements(queue[c]) \union {d.id}
      BY <1>1, <1>3, <3>1, QueuedAppend
    <3>3. Queued(c)' = Queued(c) \union {d.id}
      BY <3>2 DEF Queued, Elements
    <3> QED
      BY <2>1, <2>2, <3>1, <3>3, QueuedCardinality DEF SendStep
  <2>3. CASE ~(Len(queue[c]) < Cap)
    <3>1. dropped'[c] = dropped[c] \union {d.id} /\ queue' = queue
      BY <1>1, <1>3, <2>3 DEF Enqueue
    <3> QED
      BY <2>1, <2>3, <3>1, QueuedCardinality DEF SendStep, Queued
  <2> QED
    BY <2>2, <2>3
<1> QED
  BY <1>2, <1>3

LEMMA DequeueReceives ==
  ASSUME QueueInv, NEW b \in Queues, Dequeue(b), UNCHANGED dropped,
         NEW c \in Queues
  PROVE  (\E i \in Number : ReceiveStep(c, i)) \/ Stutter(c)
<1>1. /\ queue[b] \in Seq(Number) /\ queue \in [Queues -> Seq(Number)]
      /\ got \in [Consumer -> SUBSET Number] /\ b \in Consumer
      /\ Sorted(b)
  BY QueueOfTwo DEF QueueInv
<1>2. /\ queue[b] # <<>>
      /\ got' = [got EXCEPT ![b] = @ \union {Head(queue[b])}]
      /\ queue' = [queue EXCEPT ![b] = Tail(@)]
  BY DEF Dequeue
<1>3. CASE b # c
  BY <1>1, <1>2, <1>3, QueueOfTwo DEF Stutter, Queued
<1>4. CASE b = c
  <2>1. /\ Elements(Tail(queue[b])) = Queued(b) \ {Head(queue[b])}
        /\ Head(queue[b]) \in Queued(b)
        /\ \A j \in Queued(b) : Head(queue[b]) <= j
    BY <1>1, <1>2, QueuedTail DEF Sorted, Queued, Elements
  <2>2. Head(queue[b]) \in Number
    BY <1>1, <1>2
  <2>3. /\ queue'[b] = Tail(queue[b])
        /\ got'[b] = got[b] \union {Head(queue[b])}
    BY <1>1, <1>2
  <2>4. Queued(b)' = Queued(b) \ {Head(queue[b])}
    BY <2>1, <2>3 DEF Queued, Elements
  <2>5. ReceiveStep(b, Head(queue[b]))
    BY <2>1, <2>3, <2>4 DEF ReceiveStep
  <2> QED
    BY <1>4, <2>2, <2>5
<1> QED
  BY <1>3, <1>4

LEMMA StepQueue ==
  ASSUME QueueInv, [Next]_vars, NEW c \in Queues
  PROVE  (\E i \in Number : SendStep(c, i) \/ ReceiveStep(c, i)) \/ Stutter(c)
<1>1. ASSUME NEW d \in held, Dispatch(d)
      PROVE  (\E i \in Number : SendStep(c, i)) \/ Stutter(c)
  <2>1. d.id \in Number
    BY DEF QueueInv
  <2>2. CASE \E b \in Queues : Enqueue(b, d.id) /\ UNCHANGED got
    BY <2>1, <2>2, EnqueueSends
  <2>3. CASE /\ \E b \in Consumer \ Queues :
                  got' = [got EXCEPT ![b] = @ \union {d.id}]
             /\ UNCHANGED <<queue, dropped>>
    <3>1. got'[c] = got[c]
      BY <2>3, QueueOfTwo DEF QueueInv
    <3> QED
      BY <2>3, <3>1 DEF Stutter, Queued
  <2>4. CASE UNCHANGED <<queue, got, dropped>>
    BY <2>4 DEF Stutter, Queued
  <2> QED
    BY <1>1, <2>2, <2>3, <2>4, DispatchCases
<1>2. CASE ReadFrom
  BY <1>2, DequeueReceives DEF ReadFrom, Queues
<1>3. CASE RecvPacket
  BY <1>3, DequeueReceives DEF RecvPacket, Queues
<1>4. CASE ~(Dispatches \/ ReadFrom \/ RecvPacket)
  <2>1. UNCHANGED <<queue, got, dropped>>
    BY <1>4 DEF Next, ReadLoop, Arrive, Receiver, RecvLoop, RecvClosed, Device,
        CloseBind, StayDown, OpenBind, Open, socket, vars
  <2> QED
    BY <2>1 DEF Stutter, Queued
<1> QED
  BY <1>1, <1>2, <1>3, <1>4 DEF Dispatches

LEMMA SameCardinality ==
  \A S : /\ Wg!Cardinality(S) = Cardinality(S)
         /\ Dht!Cardinality(S) = Cardinality(S)
  BY DEF Wg!Cardinality, Dht!Cardinality, Cardinality

(* Whatever the room and the order of events, both queues lose nothing but *)
(* for want of room and deliver in order, also over a closing of the bind. *)
THEOREM QueuesAreLossyQueues == Spec => ImplementsLossyQueues
<1>1. Init => Wg!Init /\ Dht!Init
  BY QueueOfTwo DEF Init, Wg!Init, Dht!Init, Queued
<1>2. QueueInv /\ [Next]_vars => [Wg!Next]_Wg!vars
  <2> SUFFICES ASSUME QueueInv, [Next]_vars PROVE [Wg!Next]_Wg!vars
    OBVIOUS
  <2>1. \/ \E i \in Number : SendStep("wg", i) \/ ReceiveStep("wg", i)
        \/ Stutter("wg")
    BY StepQueue, QueueOfTwo
  <2> QED
    BY <2>1, SameCardinality
        DEF Number, SendStep, ReceiveStep, Stutter, Wg!Next, Wg!Send,
        Wg!Receive, Wg!vars
<1>3. QueueInv /\ [Next]_vars => [Dht!Next]_Dht!vars
  <2> SUFFICES ASSUME QueueInv, [Next]_vars PROVE [Dht!Next]_Dht!vars
    OBVIOUS
  <2>1. \/ \E i \in Number : SendStep("dht", i) \/ ReceiveStep("dht", i)
        \/ Stutter("dht")
    BY StepQueue, QueueOfTwo
  <2> QED
    BY <2>1, SameCardinality
        DEF Number, SendStep, ReceiveStep, Stutter, Dht!Next, Dht!Send,
        Dht!Receive, Dht!vars
<1> QED
  BY <1>1, <1>2, <1>3, InitQueue, NextQueue, PTL
    DEF Spec, ImplementsLossyQueues, Wg!Spec, Dht!Spec

-----------------------------------------------------------------------------
(* A channel is replaced at most once for each closing. *)
ChannelInv ==
  /\ reopens \in 0 .. Reopens
  /\ closed \subseteq 0 .. gen
  /\ gen + reopens + (IF dev = "closing" THEN 1 ELSE 0) <= Reopens
  /\ gen \in Nat
  /\ watched \in 0 .. gen
  /\ dev \in {"down", "closing", "up"}
  /\ recv \in {"off", "loop", "wait"}

LEMMA NextChannel == ChannelInv /\ [Next]_vars => ChannelInv'
<1> SUFFICES ASSUME ChannelInv, [Next]_vars PROVE ChannelInv'
  OBVIOUS
<1> USE DemuxAssumption DEF ChannelInv
<1>1. CASE ReadLoop \/ ReadFrom \/ UNCHANGED vars
  <2>1. UNCHANGED bind
    BY <1>1 DEF ReadLoop, Dispatches, Dispatch, Arrive, ReadFrom, vars
  <2> QED
    BY <2>1 DEF bind
<1>2. CASE Receiver
  <2>1. /\ UNCHANGED <<reopens, closed, gen, dev>>
        /\ watched' \in {watched, gen}
        /\ recv' \in {"off", "loop", "wait"}
    BY <1>2 DEF Receiver, RecvLoop, RecvPacket, RecvClosed
  <2> QED
    BY <2>1
<1>3. CASE CloseBind
  BY <1>3 DEF CloseBind, Close
<1>4. CASE StayDown
  BY <1>4 DEF StayDown
<1>5. CASE OpenBind
  BY <1>5 DEF OpenBind, Open
<1> QED
  BY <1>1, <1>2, <1>3, <1>4, <1>5 DEF Next, Device

(* The types, among them the room in the queues and the channels' numbers. *)
THEOREM DemuxType == Spec => []TypeOK
<1>1. Init => ChannelInv
  BY DemuxAssumption DEF Init, ChannelInv
<1>2. Init => StrayInv
  BY DEF Init, StrayInv, HeldIsPossible
<1>3. QueueInv /\ ChannelInv /\ StrayInv => TypeOK
  <2> SUFFICES ASSUME QueueInv, ChannelInv, StrayInv PROVE TypeOK
    OBVIOUS
  <2>1. /\ gen \in 0 .. Reopens /\ closed \subseteq 0 .. Reopens
        /\ watched \in 0 .. Reopens
    BY DemuxAssumption DEF ChannelInv
  <2> QED
    BY <2>1 DEF TypeOK, QueueInv, ChannelInv, StrayInv, Number
<1> QED
  BY <1>1, <1>2, <1>3, InitQueue, NextQueue, NextChannel, NextStray, PTL
    DEF Spec
=============================================================================
