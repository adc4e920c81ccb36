--------------------------- MODULE DhtPunch_proofs --------------------------
(***************************************************************************)
(* Theorems about DhtPunch, for any peers, endpoints, rooms, number of     *)
(* probes and budget of faults.                                            *)
(***************************************************************************)
EXTENDS DhtPunch, TLAPS

USE DEF table, process, nat, vars

(* A probe is sent only while there are some left: without this, TypeOK    *)
(* would not be inductive.                                                 *)
ProbesLeft ==
  \A n \in Node, e \in Endpoint :
    punch[n][e].pc = "send" => punch[n][e].sent < Attempts

TypeInv == TypeOK /\ ProbesLeft

LEMMA DatagramType ==
  ASSUME TypeOK, NEW n \in Node, NEW e \in Endpoint, NEW ts \in 0 .. Attempts,
         NEW type \in {"HELLO", "REPLY", "ACK"}
  PROVE  Datagram(type, n, e, ts) \in Packet
BY DEF TypeOK, Datagram, LocalPayload, Packet, Payload, Remote

LEMMA PacketType ==
  ASSUME TypeOK, NEW p \in net
  PROVE  /\ p \in Packet
         /\ p.type \in {"HELLO", "REPLY", "ACK"}
         /\ p.src \in Endpoint /\ p.dst \in Endpoint
         /\ p.ts \in 0 .. Attempts
         /\ p.payload \in Remote
BY DEF TypeOK, Packet

LEMMA MergeType ==
  ASSUME NEW old \in Remote, NEW new \in Remote
  PROVE  MergePayload(old, new) \in Remote
BY DEF MergePayload, Remote

LEMMA FaultType ==
  ASSUME TypeOK, NEW kind, Fault(kind)
  PROVE  faults' \in 0 .. MaxFaults
BY DhtAssumption DEF TypeOK, Fault

LEMMA InitType == Init => TypeInv
BY DhtAssumption
   DEF Init, TypeInv, TypeOK, ProbesLeft, SelfAddrs, NotTried, PunchState,
       Remote

(* Reading a datagram keeps the types of what every handler may change. *)
LEMMA ReadType ==
  ASSUME TypeOK, NEW n \in Node, NEW p \in net,
         NEW answers \in SUBSET Packet, Read(n, p, answers)
  PROVE  /\ crossed' \in SUBSET (Endpoint \X Endpoint)
         /\ pending' \in [Node -> [Endpoint -> Remote]]
         /\ opened' \in [Node -> SUBSET Endpoint]
         /\ net' \in SUBSET Packet
         /\ faults' \in 0 .. MaxFaults
         /\ UNCHANGED <<nat, announced, annCur, tried, punch, table>>
<1>1. p.src \in Endpoint /\ p.dst \in Endpoint /\ p.payload \in Remote
  BY PacketType
<1>2. crossed' \in SUBSET (Endpoint \X Endpoint)
  BY <1>1 DEF TypeOK, Read
<1>3. pending' \in [Node -> [Endpoint -> Remote]]
  <2>1. MergePayload(pending[n][p.src], p.payload) \in Remote
    BY <1>1, MergeType DEF TypeOK
  <2> QED
    BY <1>1, <2>1 DEF TypeOK, Read
<1>4. opened' \in [Node -> SUBSET Endpoint]
  BY DEF TypeOK, Read, Packet
<1>5. net' \in SUBSET Packet
  BY DEF TypeOK, Read
<1>6. faults' \in 0 .. MaxFaults
  BY FaultType DEF TypeOK, Read
<1> QED
  BY <1>2, <1>3, <1>4, <1>5, <1>6 DEF Read

LEMMA ConfirmOnceType ==
  ASSUME TypeOK, NEW n \in Node, NEW p \in net, ConfirmOnce(n, p)
  PROVE  /\ confirmed' \in [Node -> SUBSET Endpoint]
         /\ confirming' \in SUBSET Confirm
<1>1. p.src \in Endpoint /\ p.payload \in Remote
  BY PacketType
<1>2. MergePayload(pending[n][p.src], p.payload) \in Remote
  BY <1>1, MergeType DEF TypeOK
<1>3. [node |-> n, ep |-> p.src,
       remote |-> MergePayload(pending[n][p.src], p.payload)] \in Confirm
  BY <1>1, <1>2 DEF Confirm
<1>4. CASE p.src \in confirmed[n]
  BY <1>4 DEF ConfirmOnce, TypeOK
<1>5. CASE p.src \notin confirmed[n]
  <2>1. /\ confirmed' = [confirmed EXCEPT ![n] = @ \union {p.src}]
        /\ confirming' = confirming \union
             {[node |-> n, ep |-> p.src,
               remote |-> MergePayload(pending[n][p.src], p.payload)]}
    BY <1>5 DEF ConfirmOnce
  <2> QED
    BY <1>1, <1>3, <2>1 DEF TypeOK
<1> QED
  BY <1>4, <1>5

LEMMA NextType == TypeInv /\ [Next]_vars => TypeOK'
<1> SUFFICES ASSUME TypeOK, ProbesLeft, [Next]_vars
             PROVE  TypeOK'
  BY DEF TypeInv
<1> USE DhtAssumption
<1>1. ASSUME NEW n \in Node, StartAnnounce(n)
      PROVE  TypeOK'
  BY <1>1 DEF StartAnnounce, TypeOK
<1>2. ASSUME NEW n \in Node, AnnounceFails(n)
      PROVE  TypeOK'
  BY <1>2, FaultType DEF AnnounceFails, TypeOK
<1>3. ASSUME NEW n \in Node, NEW e \in Endpoint, Discover(n, e)
      PROVE  TypeOK'
  <2>1. [pc |-> "check", sent |-> 0] \in PunchState
    BY DEF PunchState
  <2> QED
    BY <1>3, <2>1 DEF Discover, TypeOK
<1>4. ASSUME NEW n \in Node, NEW e \in Endpoint, PunchCheck(n, e)
      PROVE  TypeOK'
  <2>1. punch[n][e] \in PunchState
    BY DEF TypeOK
  <2>2. punch' \in [Node -> [Endpoint -> PunchState]]
    BY <1>4, <2>1 DEF PunchCheck, TypeOK, PunchState
  <2> QED
    BY <1>4, <2>2 DEF PunchCheck, TypeOK
<1>5. ASSUME NEW n \in Node, NEW e \in Endpoint, PunchSend(n, e)
      PROVE  TypeOK'
  <2>1. punch[n][e] \in PunchState /\ punch[n][e].sent < Attempts
    BY <1>5 DEF TypeOK, ProbesLeft, PunchSend
  <2>2. Probed(punch[n][e]) \in PunchState
    BY <2>1 DEF Probed, PunchState
  <2>3. Datagram("HELLO", n, e, punch[n][e].sent) \in Packet
    BY <2>1, DatagramType DEF PunchState
  <2>4. punch' \in [Node -> [Endpoint -> PunchState]]
    BY <1>5, <2>2 DEF PunchSend, TypeOK
  <2> QED
    BY <1>5, <2>3, <2>4 DEF PunchSend, TypeOK
<1>6. ASSUME NEW n \in Node, NEW p \in net, ReceiveHello(n, p)
      PROVE  TypeOK'
  <2>1. {Datagram("REPLY", n, p.src, p.ts)} \in SUBSET Packet
    BY PacketType, DatagramType
  <2> QED
    BY <1>6, <2>1, ReadType DEF ReceiveHello, TypeOK
<1>7. ASSUME NEW n \in Node, NEW p \in net, ReceiveReply(n, p)
      PROVE  TypeOK'
  <2>1. {Datagram("ACK", n, p.src, p.ts)} \in SUBSET Packet
    BY PacketType, DatagramType
  <2> QED
    BY <1>7, <2>1, ReadType, ConfirmOnceType DEF ReceiveReply, TypeOK
<1>8. ASSUME NEW n \in Node, NEW p \in net, ReceiveAck(n, p)
      PROVE  TypeOK'
  <2>1. {} \in SUBSET Packet
    OBVIOUS
  <2> QED
    BY <1>8, <2>1, ReadType, ConfirmOnceType DEF ReceiveAck, TypeOK
<1>9. ASSUME NEW p \in net, Discard(p)
      PROVE  TypeOK'
  BY <1>9 DEF Discard, TypeOK
<1>10. ASSUME NEW p \in net, Lose(p)
       PROVE  TypeOK'
  BY <1>10, FaultType DEF Lose, TypeOK
<1>11. ASSUME NEW t \in confirming, ConfirmIgnored(t)
       PROVE  TypeOK'
  BY <1>11 DEF ConfirmIgnored, TypeOK
<1>12. ASSUME NEW t \in confirming, NEW best \in Endpoint,
              NEW switchNow \in BOOLEAN, ConfirmPeer(t, best, switchNow)
       PROVE  TypeOK'
  <2> DEFINE n == t.node
             m == t.remote.pub
  <2>1. n \in Node /\ m \in Node /\ t.ep \in Endpoint
    BY <1>12 DEF ConfirmPeer, Accepts, TypeOK, Confirm, Remote, Payload
  <2>2. cands' \in [Node -> [Node -> SUBSET Endpoint]]
    BY <1>12, <2>1 DEF ConfirmPeer, AddCandidate, TypeOK
  <2>3. active' \in [Node -> [Node -> Endpoint \union {None}]]
    BY <1>12, <2>1 DEF ConfirmPeer, TypeOK
  <2>4. upserts' \in SUBSET Upsert
    BY <1>12, <2>1 DEF ConfirmPeer, TypeOK, Upsert
  <2> QED
    BY <1>12, <2>2, <2>3, <2>4 DEF ConfirmPeer, TypeOK
<1>13. ASSUME NEW u \in upserts, WgUpsert(u)
       PROVE  TypeOK'
  BY <1>13 DEF WgUpsert, TypeOK, Upsert
<1>14. ASSUME NEW u \in upserts, WgUpsertFails(u)
       PROVE  TypeOK'
  BY <1>14, FaultType DEF WgUpsertFails, TypeOK
<1>15. ASSUME NEW n \in Node, NEW r \in Room, Restart(n, r)
       PROVE  TypeOK'
  BY <1>15, FaultType DEF Restart, SelfAddrs, NotTried, PunchState, Remote,
                           TypeOK
<1>16. ASSUME NEW n \in Node, NEW e \in Endpoint, Rebind(n, e)
       PROVE  TypeOK'
  BY <1>16, FaultType DEF Rebind, TypeOK
<1>17. ASSUME NEW n \in Node, NEW e \in Endpoint, Expire(n, e)
       PROVE  TypeOK'
  BY <1>17, FaultType DEF Expire, TypeOK
<1>18. CASE UNCHANGED vars
  BY <1>18 DEF TypeOK
<1> QED
  BY <1>1, <1>2, <1>3, <1>4, <1>5, <1>6, <1>7, <1>8, <1>9, <1>10, <1>11,
     <1>12, <1>13, <1>14, <1>15, <1>16, <1>17, <1>18
     DEF Next, Announcer, Puncher, ReadLoop, HandleConfirmed, Environment

LEMMA NextProbes == TypeInv /\ [Next]_vars => ProbesLeft'
<1> SUFFICES ASSUME TypeOK, ProbesLeft, [Next]_vars,
                    NEW m \in Node, NEW d \in Endpoint,
                    punch'[m][d].pc = "send"
             PROVE  punch'[m][d].sent < Attempts
  BY DEF TypeInv, ProbesLeft
<1>1. CASE punch' = punch
  BY <1>1 DEF ProbesLeft
<1>2. ASSUME NEW n \in Node, NEW e \in Endpoint, Discover(n, e)
      PROVE  punch'[m][d].sent < Attempts
  BY <1>2 DEF Discover, TypeOK, ProbesLeft
<1>3. ASSUME NEW n \in Node, NEW e \in Endpoint, PunchCheck(n, e)
      PROVE  punch'[m][d].sent < Attempts
  <2>1. punch[n][e] \in PunchState
    BY DEF TypeOK
  <2>2. CASE m = n /\ d = e
    <3>1. punch'[n][e] = [punch[n][e] EXCEPT !.pc =
                            IF PunchOver(n, e) THEN "over" ELSE "send"]
      BY <1>3 DEF PunchCheck, TypeOK
    <3>2. ~PunchOver(n, e) /\ punch'[n][e].sent = punch[n][e].sent
      BY <2>1, <2>2, <3>1 DEF PunchState
    <3> QED
      BY <2>1, <2>2, <3>2, DhtAssumption DEF PunchOver, PunchState
  <2>3. CASE ~(m = n /\ d = e)
    BY <1>3, <2>3 DEF PunchCheck, TypeOK, ProbesLeft
  <2> QED
    BY <2>2, <2>3
<1>4. ASSUME NEW n \in Node, NEW e \in Endpoint, PunchSend(n, e)
      PROVE  punch'[m][d].sent < Attempts
  BY <1>4 DEF PunchSend, Probed, TypeOK, ProbesLeft
<1>5. ASSUME NEW n \in Node, NEW r \in Room, Restart(n, r)
      PROVE  punch'[m][d].sent < Attempts
  BY <1>5 DEF Restart, NotTried, TypeOK, ProbesLeft
<1>6. CASE \E n \in Node : Announcer(n)
  BY <1>1, <1>2, <1>6 DEF Announcer, StartAnnounce
<1>7. CASE \E n \in Node : ReadLoop(n)
  BY <1>1, <1>7 DEF ReadLoop, ReceiveHello, ReceiveReply, ReceiveAck, Read
<1>8. CASE \E n \in Node : HandleConfirmed(n)
  BY <1>1, <1>8 DEF HandleConfirmed, ConfirmIgnored, ConfirmPeer, WgUpsert
<1>9. CASE \E n \in Node, e \in Endpoint : Puncher(n, e)
  BY <1>3, <1>4, <1>9 DEF Puncher
<1>10. CASE Environment
  BY <1>1, <1>5, <1>10
     DEF Environment, Discard, Lose, WgUpsertFails, AnnounceFails, Rebind,
         Expire
<1>11. CASE UNCHANGED vars
  BY <1>1, <1>11
<1> QED
  BY <1>6, <1>7, <1>8, <1>9, <1>10, <1>11 DEF Next

(* Every variable keeps its type, and no goroutine of                      *)
(* handleDiscoveredFromDHT sends more than its 260 probes.                 *)
THEOREM TypeCorrect == Spec => []TypeOK
<1>1. TypeInv /\ [Next]_vars => TypeInv'
  BY NextType, NextProbes DEF TypeInv
<1>2. TypeInv => TypeOK
  BY DEF TypeInv
<1> QED
  BY InitType, <1>1, <1>2, PTL DEF Spec

-----------------------------------------------------------------------------
(* The inductive form of PathBothWays: a REPLY or an ACK in flight from s  *)
(* to d was caused by a datagram that got through from d to s, and every   *)
(* peer has owned the endpoint it has now.                                 *)
AnswersHaveCause ==
  \A p \in net : p.type \in {"REPLY", "ACK"} => <<p.dst, p.src>> \in crossed

OwnsItsEndpoint == \A n \in Node : <<n, at[n], room[n]>> \in lived

PathInv == TypeInv /\ AnswersHaveCause /\ OwnsItsEndpoint /\ PathBothWays

LEMMA InitPath == Init => PathInv
BY InitType
   DEF Init, PathInv, AnswersHaveCause, OwnsItsEndpoint, PathBothWays

(* What steps of the environment and of the program may do to the history. *)
LEMMA HistoryGrows ==
  ASSUME TypeOK, [Next]_vars
  PROVE  crossed \subseteq crossed' /\ lived \subseteq lived'
<1>1. CASE \E n \in Node : Announcer(n)
  BY <1>1 DEF Announcer, StartAnnounce, Discover
<1>2. CASE \E n \in Node : ReadLoop(n)
  BY <1>2 DEF ReadLoop, ReceiveHello, ReceiveReply, ReceiveAck, Read
<1>3. CASE \E n \in Node : HandleConfirmed(n)
  BY <1>3 DEF HandleConfirmed, ConfirmIgnored, ConfirmPeer, WgUpsert
<1>4. CASE \E n \in Node, e \in Endpoint : Puncher(n, e)
  BY <1>4 DEF Puncher, PunchCheck, PunchSend
<1>5. CASE Environment
  BY <1>5 DEF Environment, Discard, Lose, WgUpsertFails, AnnounceFails,
              Restart, Rebind, Expire
<1>6. CASE UNCHANGED vars
  BY <1>6
<1> QED
  BY <1>1, <1>2, <1>3, <1>4, <1>5, <1>6 DEF Next

(* The datagrams a step adds: probes and answers of the read loop. *)
LEMMA NextAnswers ==
  ASSUME TypeOK, AnswersHaveCause, [Next]_vars
  PROVE  AnswersHaveCause'
<1> SUFFICES ASSUME NEW q \in net', q.type \in {"REPLY", "ACK"}
             PROVE  <<q.dst, q.src>> \in crossed'
  BY DEF AnswersHaveCause
<1>1. CASE q \in net
  BY <1>1, HistoryGrows DEF AnswersHaveCause
<1>2. ASSUME q \notin net, NEW n \in Node, NEW p \in net,
             NEW type, NEW ts,
             Read(n, p, {Datagram(type, n, p.src, ts)}) \/ Read(n, p, {})
      PROVE  <<q.dst, q.src>> \in crossed'
  <2>1. q = Datagram(type, n, p.src, ts)
    BY <1>2 DEF Read
  <2>2. q.dst = p.src /\ q.src = p.dst
    BY <1>2, <2>1 DEF Datagram, Read, Admits
  <2> QED
    BY <1>2, <2>2 DEF Read
<1>3. CASE \E n \in Node : ReadLoop(n)
  BY <1>1, <1>2, <1>3 DEF ReadLoop, ReceiveHello, ReceiveReply, ReceiveAck
<1>4. CASE \E n \in Node, e \in Endpoint : Puncher(n, e)
  BY <1>1, <1>4 DEF Puncher, PunchCheck, PunchSend, Datagram
<1>5. CASE \E n \in Node : Announcer(n) \/ HandleConfirmed(n)
  BY <1>1, <1>5 DEF Announcer, StartAnnounce, Discover, HandleConfirmed,
                    ConfirmIgnored, ConfirmPeer, WgUpsert
<1>6. CASE Environment
  BY <1>1, <1>6 DEF Environment, Discard, Lose, WgUpsertFails, AnnounceFails,
                    Restart, Rebind, Expire
<1>7. CASE UNCHANGED vars
  BY <1>1, <1>7
<1> QED
  BY <1>3, <1>4, <1>5, <1>6, <1>7 DEF Next

LEMMA NextOwns ==
  ASSUME TypeOK, OwnsItsEndpoint, [Next]_vars
  PROVE  OwnsItsEndpoint'
<1> SUFFICES ASSUME NEW m \in Node
             PROVE  <<m, at'[m], room'[m]>> \in lived'
  BY DEF OwnsItsEndpoint
<1>1. CASE UNCHANGED <<at, room>>
  BY <1>1, HistoryGrows DEF OwnsItsEndpoint
<1>2. ASSUME NEW n \in Node, NEW r \in Room, Restart(n, r)
      PROVE  <<m, at'[m], room'[m]>> \in lived'
  BY <1>2 DEF Restart, TypeOK, OwnsItsEndpoint
<1>3. ASSUME NEW n \in Node, NEW e \in Endpoint, Rebind(n, e)
      PROVE  <<m, at'[m], room'[m]>> \in lived'
  BY <1>3 DEF Rebind, TypeOK, OwnsItsEndpoint
<1>4. CASE \E n \in Node : Announcer(n) \/ HandleConfirmed(n)
  BY <1>1, <1>4 DEF Announcer, StartAnnounce, Discover, HandleConfirmed,
                    ConfirmIgnored, ConfirmPeer, WgUpsert
<1>5. CASE \E n \in Node : ReadLoop(n)
  BY <1>1, <1>5 DEF ReadLoop, ReceiveHello, ReceiveReply, ReceiveAck, Read
<1>6. CASE \E n \in Node, e \in Endpoint : Puncher(n, e)
  BY <1>1, <1>6 DEF Puncher, PunchCheck, PunchSend
<1>7. CASE Environment
  BY <1>1, <1>2, <1>3, <1>7
     DEF Environment, Discard, Lose, WgUpsertFails, AnnounceFails, Expire
<1>8. CASE UNCHANGED vars
  BY <1>1, <1>8
<1> QED
  BY <1>4, <1>5, <1>6, <1>7, <1>8 DEF Next

(* The datagram on which an endpoint is confirmed. *)
Answer(n, p) == /\ p.type \in {"REPLY", "ACK"}
                /\ p.dst = at[n]
                /\ crossed' = crossed \union {<<p.src, p.dst>>}

LEMMA Confirming ==
  ASSUME TypeOK, NEW n \in Node, NEW p \in net,
         ReceiveReply(n, p) \/ ReceiveAck(n, p)
  PROVE  /\ Answer(n, p)
         /\ p.src \in Endpoint
         /\ confirmed' = [confirmed EXCEPT ![n] = @ \union {p.src}]
         /\ UNCHANGED <<at, lived>>
<1>1. p.src \in Endpoint
  BY PacketType
<1>2. confirmed' = [confirmed EXCEPT ![n] = @ \union {p.src}]
  <2>1. CASE p.src \in confirmed[n]
    <3>1. confirmed' = confirmed
      BY <2>1 DEF ReceiveReply, ReceiveAck, ConfirmOnce
    <3>2. confirmed[n] \union {p.src} = confirmed[n]
      BY <2>1
    <3> QED
      BY <3>1, <3>2 DEF TypeOK
  <2>2. CASE p.src \notin confirmed[n]
    BY <2>2 DEF ReceiveReply, ReceiveAck, ConfirmOnce
  <2> QED
    BY <2>1, <2>2
<1> QED
  BY <1>1, <1>2 DEF ReceiveReply, ReceiveAck, Answer, Read, Admits

LEMMA NextPath ==
  ASSUME PathInv, [Next]_vars
  PROVE  PathBothWays'
<1> DEFINE Reached(n, e) == \E f \in Owned(n) :
                              {<<f, e>>, <<e, f>>} \subseteq crossed
<1> SUFFICES ASSUME NEW n \in Node, NEW e \in confirmed'[n]
             PROVE  Reached(n, e)'
  BY DEF PathBothWays
<1> USE DEF PathInv, TypeInv
<1>1. CASE e \in confirmed[n]
  BY <1>1, HistoryGrows DEF PathBothWays, Owned
<1>2. ASSUME NEW m \in Node, NEW p \in net,
             ReceiveReply(m, p) \/ ReceiveAck(m, p), e \notin confirmed[n]
      PROVE  Reached(n, e)'
  <2>1. m = n /\ e = p.src
    BY <1>2, Confirming DEF TypeOK
  <2>2. at[n] \in Owned(n)'
    BY <1>2, Confirming DEF OwnsItsEndpoint, Owned, TypeOK
  <2>3. <<at[n], e>> \in crossed /\ <<e, at[n]>> \in crossed'
    BY <1>2, <2>1, Confirming DEF AnswersHaveCause, Answer
  <2> QED
    BY <2>2, <2>3, HistoryGrows
<1>3. CASE \E m \in Node : ReadLoop(m)
  BY <1>1, <1>2, <1>3 DEF ReadLoop, ReceiveHello
<1>4. CASE \E m \in Node : Announcer(m) \/ HandleConfirmed(m)
  BY <1>1, <1>4 DEF Announcer, StartAnnounce, Discover, HandleConfirmed,
                    ConfirmIgnored, ConfirmPeer, WgUpsert
<1>5. CASE \E m \in Node, d \in Endpoint : Puncher(m, d)
  BY <1>1, <1>5 DEF Puncher, PunchCheck, PunchSend
<1>6. ASSUME NEW m \in Node, NEW r \in Room, Restart(m, r)
      PROVE  Reached(n, e)'
  <2>1. e \in confirmed[n]
    BY <1>6 DEF Restart, TypeOK
  <2> QED
    BY <1>1, <2>1
<1>7. CASE Environment
  BY <1>1, <1>6, <1>7 DEF Environment, Discard, Lose, WgUpsertFails,
                          AnnounceFails, Rebind, Expire
<1>8. CASE UNCHANGED vars
  BY <1>1, <1>8
<1> QED
  BY <1>3, <1>4, <1>5, <1>7, <1>8 DEF Next

LEMMA NextPathInv == PathInv /\ [Next]_vars => PathInv'
BY NextType, NextProbes, NextAnswers, NextOwns, NextPath
   DEF PathInv, TypeInv

(* However datagrams are lost, duplicated, delayed or reordered, and       *)
(* whoever restarts or is rebound, udpReadLoop confirms only endpoints     *)
(* with which datagrams were exchanged in both directions.                 *)
THEOREM TwoWay == Spec => []PathBothWays
<1>1. PathInv => PathBothWays
  BY DEF PathInv
<1> QED
  BY InitPath, NextPathInv, <1>1, PTL DEF Spec

-----------------------------------------------------------------------------
(* DhtPunch implements TwoWayPath. *)
LEMMA InitRefines == Init => Path!Init
BY DEF Init, Path!Init, Owned

LEMMA Stutters ==
  ASSUME UNCHANGED <<crossed, lived, confirmed>>
  PROVE  UNCHANGED Path!vars
BY DEF Path!vars, Owned

LEMMA NextRefines ==
  ASSUME PathInv, [Next]_vars
  PROVE  [Path!Next]_(Path!vars)
<1> USE DEF PathInv, TypeInv
<1>1. ASSUME NEW n \in Node, NEW p \in net, ReceiveHello(n, p)
      PROVE  Path!Next
  <2>1. p.src \in Endpoint /\ p.dst \in Endpoint
    BY PacketType
  <2>2. Path!Deliver(p.src, p.dst)
    BY <1>1 DEF ReceiveHello, Read, Path!Deliver, Owned
  <2> QED
    BY <2>1, <2>2 DEF Path!Next
<1>2. ASSUME NEW n \in Node, NEW p \in net,
             ReceiveReply(n, p) \/ ReceiveAck(n, p)
      PROVE  Path!Next
  <2>1. at[n] \in Owned(n) /\ at[n] \in Endpoint
    BY DEF OwnsItsEndpoint, Owned, TypeOK
  <2>2. <<at[n], p.src>> \in crossed
    BY <1>2, Confirming DEF AnswersHaveCause, Answer
  <2>3. Path!Confirm(n, p.src, at[n])
    BY <1>2, <2>1, <2>2, Confirming DEF Answer, Path!Confirm, Owned
  <2> QED
    BY <1>2, <2>1, <2>3, Confirming DEF Path!Next
<1>3. ASSUME NEW n \in Node, NEW r \in Room, Restart(n, r)
      PROVE  Path!Next
  <2>1. at[n] \in Owned(n)
    BY DEF OwnsItsEndpoint, Owned, TypeOK
  <2>2. ASSUME NEW m \in Node
        PROVE  Owned(m)' = Owned(m)
    BY <1>3, <2>1 DEF Restart, Owned
  <2>3. Path!Forget(n)
    BY <1>3, <2>2 DEF Restart, Path!Forget
  <2> QED
    BY <2>3 DEF Path!Next
<1>4. ASSUME NEW n \in Node, NEW e \in Endpoint, Rebind(n, e)
      PROVE  Path!Next
  <2>1. room[n] \in Room
    BY DEF TypeOK
  <2>2. Owned(n)' = Owned(n) \union {e}
    BY <1>4, <2>1 DEF Rebind, Owned
  <2>3. ASSUME NEW m \in Node, m # n
        PROVE  Owned(m)' = Owned(m)
    BY <1>4, <2>3 DEF Rebind, Owned
  <2>4. Path!Acquire(n, e)
    BY <1>4, <2>2, <2>3 DEF Rebind, Path!Acquire
  <2> QED
    BY <2>4 DEF Path!Next
<1>5. CASE \E n \in Node : ReadLoop(n)
  BY <1>1, <1>2, <1>5 DEF ReadLoop
<1>6. CASE \E n \in Node : Announcer(n) \/ HandleConfirmed(n)
  BY <1>6, Stutters DEF Announcer, StartAnnounce, Discover, HandleConfirmed,
                        ConfirmIgnored, ConfirmPeer, WgUpsert
<1>7. CASE \E n \in Node, e \in Endpoint : Puncher(n, e)
  BY <1>7, Stutters DEF Puncher, PunchCheck, PunchSend
<1>8. CASE Environment
  BY <1>3, <1>4, <1>8, Stutters
     DEF Environment, Discard, Lose, WgUpsertFails, AnnounceFails, Expire
<1>9. CASE UNCHANGED vars
  BY <1>9, Stutters
<1> QED
  BY <1>5, <1>6, <1>7, <1>8, <1>9 DEF Next

(* The HELLO / REPLY / ACK exchange implements the two-way check, with     *)
(* every initial state mapped to an initial state and every step to a step *)
(* of TwoWayPath or none.                                                  *)
THEOREM Refinement == Spec => ImplementsTwoWayPath
<1>1. Init => Path!Init
  BY InitRefines
<1>2. PathInv /\ [Next]_vars => [Path!Next]_(Path!vars)
  BY NextRefines
<1>3. Spec => []PathInv
  BY InitPath, NextPathInv, PTL DEF Spec
<1> QED
  BY <1>1, <1>2, <1>3, PTL DEF Spec, Path!Spec, ImplementsTwoWayPath

-----------------------------------------------------------------------------
(* The inductive form of DeviceIsRoomMember: whatever a payload says, at   *)
(* any stage of its way into the device, was true when it was sent.        *)
Lived(pub, e, r) == <<pub, e, r>> \in lived

Member(n, m, e) == e \in confirmed[n] /\ Lived(m, e, room[n])

NetTrue ==
  \A p \in net : p.payload # NoPayload
                   => Lived(p.payload.pub, p.src, p.payload.room)

PendingTrue ==
  \A n \in Node, e \in Endpoint :
    pending[n][e] # NoPayload
      => Lived(pending[n][e].pub, e, pending[n][e].room)

ConfirmingTrue ==
  \A t \in confirming :
    /\ t.ep \in confirmed[t.node]
    /\ t.remote # NoPayload => Lived(t.remote.pub, t.ep, t.remote.room)

CandsAreMembers ==
  \A n, m \in Node : \A e \in cands[n][m] : Member(n, m, e)

UpsertsAreMembers == \A u \in upserts : Member(u.node, u.pub, u.best)

DeviceOfMembers ==
  \A n, m \in Node : device[n][m] # None => Member(n, m, device[n][m])

MemberInv ==
  /\ TypeInv /\ OwnsItsEndpoint
  /\ NetTrue /\ PendingTrue /\ ConfirmingTrue
  /\ CandsAreMembers /\ UpsertsAreMembers /\ DeviceOfMembers

LEMMA InitMember == Init => MemberInv
BY InitType
   DEF Init, MemberInv, OwnsItsEndpoint, NetTrue, PendingTrue, ConfirmingTrue,
       CandsAreMembers, UpsertsAreMembers, DeviceOfMembers

(* Only its own restart makes a peer forget an endpoint, or its room. *)
LEMMA ConfirmedStays ==
  ASSUME TypeOK, [Next]_vars, NEW n \in Node, NEW e, e \in confirmed[n]
  PROVE  \/ e \in confirmed'[n] /\ room'[n] = room[n]
         \/ \E r \in Room : Restart(n, r)
<1>1. CASE UNCHANGED <<confirmed, room>>
  BY <1>1
<1>2. ASSUME NEW k \in Node, NEW p \in net,
             ReceiveReply(k, p) \/ ReceiveAck(k, p)
      PROVE  e \in confirmed'[n] /\ room'[n] = room[n]
  <2>1. confirmed' = [confirmed EXCEPT ![k] = @ \union {p.src}]
    BY <1>2, Confirming
  <2>2. room' = room
    BY <1>2 DEF ReceiveReply, ReceiveAck, Read, nat
  <2> QED
    BY <2>1, <2>2 DEF TypeOK
<1>3. ASSUME NEW k \in Node, NEW r \in Room, Restart(k, r), k # n
      PROVE  e \in confirmed'[n] /\ room'[n] = room[n]
  BY <1>3 DEF Restart, TypeOK
<1>4. CASE \E k \in Node : ReadLoop(k)
  BY <1>1, <1>2, <1>4 DEF ReadLoop, ReceiveHello, Read, nat
<1>5. CASE \E k \in Node : Announcer(k) \/ HandleConfirmed(k)
  BY <1>1, <1>5 DEF Announcer, StartAnnounce, Discover, HandleConfirmed,
                    ConfirmIgnored, ConfirmPeer, WgUpsert, nat, process
<1>6. CASE \E k \in Node, d \in Endpoint : Puncher(k, d)
  BY <1>1, <1>6 DEF Puncher, PunchCheck, PunchSend, nat
<1>7. CASE Environment
  BY <1>1, <1>3, <1>7 DEF Environment, Discard, Lose, WgUpsertFails,
                          AnnounceFails, Rebind, Expire, nat, process
<1>8. CASE UNCHANGED vars
  BY <1>1, <1>8 DEF vars
<1> QED
  BY <1>4, <1>5, <1>6, <1>7, <1>8 DEF Next

LEMMA MemberStays ==
  ASSUME TypeOK, [Next]_vars, NEW n \in Node, NEW m, NEW e, Member(n, m, e)
  PROVE  Member(n, m, e)' \/ \E r \in Room : Restart(n, r)
<1>1. e \in confirmed[n] /\ <<m, e, room[n]>> \in lived
  BY DEF Member, Lived
<1> QED
  BY <1>1, ConfirmedStays, HistoryGrows DEF Member, Lived

(* A peer says of itself what is true. *)
LEMMA NextNetTrue ==
  ASSUME MemberInv, [Next]_vars
  PROVE  NetTrue'
<1> USE DEF MemberInv, TypeInv
<1> SUFFICES ASSUME NEW q \in net', q.payload # NoPayload
             PROVE  Lived(q.payload.pub, q.src, q.payload.room)'
  BY DEF NetTrue
<1>1. CASE q \in net
  BY <1>1, HistoryGrows DEF NetTrue, Lived
<1>2. ASSUME NEW n \in Node, NEW type, NEW e, NEW ts,
             q = Datagram(type, n, e, ts)
      PROVE  Lived(q.payload.pub, q.src, q.payload.room)'
  <2>1. q.payload = [pub |-> n, room |-> room[n]] /\ q.src = at[n]
    BY <1>2 DEF Datagram, LocalPayload
  <2> QED
    BY <2>1, HistoryGrows DEF OwnsItsEndpoint, Lived
<1>3. CASE \E n \in Node : ReadLoop(n)
  BY <1>1, <1>2, <1>3
     DEF ReadLoop, ReceiveHello, ReceiveReply, ReceiveAck, Read
<1>4. CASE \E n \in Node, e \in Endpoint : Puncher(n, e)
  BY <1>1, <1>2, <1>4 DEF Puncher, PunchCheck, PunchSend
<1>5. CASE \E n \in Node : Announcer(n) \/ HandleConfirmed(n)
  BY <1>1, <1>5 DEF Announcer, StartAnnounce, Discover, HandleConfirmed,
                    ConfirmIgnored, ConfirmPeer, WgUpsert
<1>6. CASE Environment
  BY <1>1, <1>6 DEF Environment, Discard, Lose, WgUpsertFails, AnnounceFails,
                    Restart, Rebind, Expire
<1>7. CASE UNCHANGED vars
  BY <1>1, <1>7
<1> QED
  BY <1>3, <1>4, <1>5, <1>6, <1>7 DEF Next

(* What has been merged for an endpoint was said from that endpoint. *)
Merged(n, p) == MergePayload(pending[n][p.src], p.payload)

LEMMA MergeTrue ==
  ASSUME MemberInv, NEW n \in Node, NEW p \in net,
         Merged(n, p) # NoPayload
  PROVE  Lived(Merged(n, p).pub, p.src, Merged(n, p).room)
<1>1. p.src \in Endpoint /\ NetTrue /\ PendingTrue
  BY PacketType DEF MemberInv, TypeInv
<1>2. CASE p.payload = NoPayload
  <2>1. Merged(n, p) = pending[n][p.src]
    BY <1>2 DEF Merged, MergePayload
  <2> QED
    BY <1>1, <2>1 DEF PendingTrue
<1>3. CASE p.payload # NoPayload
  <2>1. Merged(n, p) = p.payload
    BY <1>3 DEF Merged, MergePayload
  <2> QED
    BY <1>1, <1>3, <2>1 DEF NetTrue
<1> QED
  BY <1>2, <1>3

LEMMA NextPendingTrue ==
  ASSUME MemberInv, [Next]_vars
  PROVE  PendingTrue'
<1> USE DEF MemberInv, TypeInv
<1> SUFFICES ASSUME NEW m \in Node, NEW d \in Endpoint,
                    pending'[m][d] # NoPayload
             PROVE  <<pending'[m][d].pub, d, pending'[m][d].room>> \in lived'
  BY DEF PendingTrue, Lived
<1>1. CASE pending'[m][d] = pending[m][d]
  BY <1>1, HistoryGrows DEF PendingTrue, Lived
<1>2. ASSUME NEW n \in Node, NEW p \in net, NEW answers, Read(n, p, answers)
      PROVE  <<pending'[m][d].pub, d, pending'[m][d].room>> \in lived'
  <2>1. CASE m = n /\ d = p.src
    <3>1. pending'[m][d] = Merged(n, p)
      BY <1>2, <2>1 DEF Read, Merged, TypeOK
    <3>2. Merged(n, p) # NoPayload
      BY <2>1, <3>1
    <3>3. Lived(Merged(n, p).pub, p.src, Merged(n, p).room)
      BY <3>2, MergeTrue
    <3> QED
      BY <2>1, <3>1, <3>3, HistoryGrows DEF Lived
  <2>2. CASE ~(m = n /\ d = p.src)
    BY <1>1, <1>2, <2>2 DEF Read, TypeOK
  <2> QED
    BY <2>1, <2>2
<1>3. CASE \E n \in Node : ReadLoop(n)
  BY <1>2, <1>3 DEF ReadLoop, ReceiveHello, ReceiveReply, ReceiveAck
<1>4. ASSUME NEW n \in Node, NEW r \in Room, Restart(n, r)
      PROVE  <<pending'[m][d].pub, d, pending'[m][d].room>> \in lived'
  BY <1>1, <1>4 DEF Restart, TypeOK
<1>5. CASE \E n \in Node : Announcer(n) \/ HandleConfirmed(n)
  BY <1>1, <1>5 DEF Announcer, StartAnnounce, Discover, HandleConfirmed,
                    ConfirmIgnored, ConfirmPeer, WgUpsert
<1>6. CASE \E n \in Node, e \in Endpoint : Puncher(n, e)
  BY <1>1, <1>6 DEF Puncher, PunchCheck, PunchSend
<1>7. CASE Environment
  BY <1>1, <1>4, <1>7 DEF Environment, Discard, Lose, WgUpsertFails,
                          AnnounceFails, Rebind, Expire
<1>8. CASE UNCHANGED vars
  BY <1>1, <1>8
<1> QED
  BY <1>3, <1>5, <1>6, <1>7, <1>8 DEF Next

(* The goroutines of onConfirmed carry what was merged for their endpoint. *)
LEMMA NextConfirmingTrue ==
  ASSUME MemberInv, [Next]_vars
  PROVE  ConfirmingTrue'
<1>0. TypeOK /\ ConfirmingTrue
  BY DEF MemberInv, TypeInv
<1> DEFINE True(t) == /\ t.ep \in confirmed'[t.node]
                      /\ t.remote # NoPayload
                           => <<t.remote.pub, t.ep, t.remote.room>> \in lived'
<1> SUFFICES ASSUME NEW t \in confirming'
             PROVE  True(t)
  BY DEF ConfirmingTrue, Lived
<1>1. ASSUME t \in confirming, ~\E r \in Room : Restart(t.node, r)
      PROVE  True(t)
  <2>1. t.node \in Node /\ t.ep \in confirmed[t.node]
    BY <1>0, <1>1 DEF ConfirmingTrue, TypeOK, Confirm
  <2>2. t.ep \in confirmed'[t.node]
    BY <1>0, <1>1, <2>1, ConfirmedStays
  <2>3. t.remote # NoPayload
          => <<t.remote.pub, t.ep, t.remote.room>> \in lived
    BY <1>0, <1>1 DEF ConfirmingTrue, Lived
  <2> QED
    BY <1>0, <2>2, <2>3, HistoryGrows
<1>2. ASSUME NEW n \in Node, NEW p \in net,
             ReceiveReply(n, p) \/ ReceiveAck(n, p), t \notin confirming
      PROVE  True(t)
  <2>1. t = [node |-> n, ep |-> p.src, remote |-> Merged(n, p)]
    BY <1>2 DEF ReceiveReply, ReceiveAck, ConfirmOnce, Merged
  <2>2. p.src \in confirmed'[n]
    BY <1>0, <1>2, Confirming DEF TypeOK
  <2>3. ASSUME Merged(n, p) # NoPayload
        PROVE  <<Merged(n, p).pub, p.src, Merged(n, p).room>> \in lived
    BY <2>3, MergeTrue DEF Lived
  <2> QED
    BY <1>0, <2>1, <2>2, <2>3, HistoryGrows
<1>3. ASSUME NEW n \in Node, NEW r \in Room, Restart(n, r)
      PROVE  True(t)
  <2>1. t \in confirming /\ t.node # n
    BY <1>3 DEF Restart
  <2>2. t.ep \in confirmed'[t.node]
    BY <1>0, <1>3, <2>1 DEF Restart, ConfirmingTrue, TypeOK, Confirm
  <2>3. t.remote # NoPayload
          => <<t.remote.pub, t.ep, t.remote.room>> \in lived
    BY <1>0, <2>1 DEF ConfirmingTrue, Lived
  <2> QED
    BY <1>0, <2>2, <2>3, HistoryGrows
<1>4. CASE t \in confirming
  <2>1. t.node \in Node
    BY <1>0, <1>4 DEF TypeOK, Confirm
  <2> QED
    BY <1>1, <1>3, <1>4, <2>1
<1>5. CASE t \notin confirming
  <2>1. CASE \E n \in Node : ReadLoop(n)
    BY <1>2, <1>5, <2>1 DEF ReadLoop, ReceiveHello
  <2>2. CASE \E n \in Node : Announcer(n) \/ HandleConfirmed(n)
    BY <1>5, <2>2 DEF Announcer, StartAnnounce, Discover, HandleConfirmed,
                      ConfirmIgnored, ConfirmPeer, WgUpsert, process
  <2>3. CASE \E n \in Node, e \in Endpoint : Puncher(n, e)
    BY <1>5, <2>3 DEF Puncher, PunchCheck, PunchSend
  <2>4. CASE Environment
    BY <1>3, <1>5, <2>4 DEF Environment, Discard, Lose, WgUpsertFails,
                            AnnounceFails, Rebind, Expire, process
  <2>5. CASE UNCHANGED vars
    BY <1>5, <2>5 DEF vars
  <2> QED
    BY <2>1, <2>2, <2>3, <2>4, <2>5 DEF Next
<1> QED
  BY <1>4, <1>5

(* Every candidate ConfirmPeer leaves in the table is a member: those that *)
(* were in it, and the one it adds.                                        *)
LEMMA ConfirmPeerCands ==
  ASSUME MemberInv, NEW t \in confirming, NEW best \in Endpoint,
         NEW switchNow \in BOOLEAN, ConfirmPeer(t, best, switchNow),
         NEW n \in Node, NEW m \in Node, NEW e \in cands'[n][m]
  PROVE  e \in confirmed[n] /\ <<m, e, room[n]>> \in lived
<1>0. TypeOK /\ ConfirmingTrue /\ CandsAreMembers
  BY DEF MemberInv, TypeInv
<1>1. t.node \in Node /\ t.remote \in Payload
  BY <1>0 DEF ConfirmPeer, Accepts, TypeOK, Confirm, Remote
<1>2. cands' = [cands EXCEPT ![t.node][t.remote.pub] = @ \union {t.ep}]
  BY DEF ConfirmPeer, AddCandidate
<1>3. CASE e \in cands[n][m]
  BY <1>0, <1>3 DEF CandsAreMembers, Member, Lived
<1>4. CASE e \notin cands[n][m]
  <2>1. n = t.node /\ m = t.remote.pub /\ e = t.ep
    BY <1>0, <1>1, <1>2, <1>4 DEF TypeOK, Payload
  <2>2. t.remote # NoPayload /\ t.remote.room = room[n]
    BY <2>1 DEF ConfirmPeer, Accepts
  <2> QED
    BY <1>0, <2>1, <2>2 DEF ConfirmingTrue, Lived
<1> QED
  BY <1>3, <1>4

LEMMA NextCands ==
  ASSUME MemberInv, [Next]_vars
  PROVE  CandsAreMembers'
<1>0. TypeOK /\ CandsAreMembers
  BY DEF MemberInv, TypeInv
<1> SUFFICES ASSUME NEW n \in Node, NEW m \in Node, NEW e \in cands'[n][m]
             PROVE  Member(n, m, e)'
  BY DEF CandsAreMembers
<1>1. CASE e \in cands[n][m] /\ ~\E r \in Room : Restart(n, r)
  BY <1>0, <1>1, MemberStays DEF CandsAreMembers
<1>2. ASSUME NEW k \in Node, NEW r \in Room, Restart(k, r)
      PROVE  e \in cands[n][m] /\ k # n
  BY <1>0, <1>2 DEF Restart, TypeOK
<1>3. ASSUME NEW t \in confirming, NEW best \in Endpoint,
             NEW switchNow \in BOOLEAN, ConfirmPeer(t, best, switchNow)
      PROVE  Member(n, m, e)'
  <2>1. e \in confirmed[n] /\ <<m, e, room[n]>> \in lived
    BY <1>3, ConfirmPeerCands
  <2>2. UNCHANGED <<confirmed, room, lived>>
    BY <1>3 DEF ConfirmPeer, nat
  <2> QED
    BY <2>1, <2>2 DEF Member, Lived
<1>4. CASE e \in cands[n][m]
  BY <1>1, <1>2, <1>4
<1>5. CASE e \notin cands[n][m]
  <2>1. CASE \E k \in Node : ReadLoop(k)
    BY <1>5, <2>1 DEF ReadLoop, ReceiveHello, ReceiveReply, ReceiveAck, Read,
                      table
  <2>2. CASE \E k \in Node : Announcer(k) \/ HandleConfirmed(k)
    BY <1>3, <1>5, <2>2 DEF Announcer, StartAnnounce, Discover,
       HandleConfirmed, ConfirmIgnored, WgUpsert, table
  <2>3. CASE \E k \in Node, d \in Endpoint : Puncher(k, d)
    BY <1>5, <2>3 DEF Puncher, PunchCheck, PunchSend, table
  <2>4. CASE Environment
    BY <1>2, <1>5, <2>4 DEF Environment, Discard, Lose, WgUpsertFails,
                            AnnounceFails, Rebind, Expire, table
  <2>5. CASE UNCHANGED vars
    BY <1>5, <2>5 DEF vars
  <2> QED
    BY <2>1, <2>2, <2>3, <2>4, <2>5 DEF Next
<1> QED
  BY <1>4, <1>5

LEMMA NextUpserts ==
  ASSUME MemberInv, [Next]_vars
  PROVE  UpsertsAreMembers'
<1>0. TypeOK /\ UpsertsAreMembers
  BY DEF MemberInv, TypeInv
<1> SUFFICES ASSUME NEW u \in upserts'
             PROVE  Member(u.node, u.pub, u.best)'
  BY DEF UpsertsAreMembers
<1>1. CASE u \in upserts /\ ~\E r \in Room : Restart(u.node, r)
  <2>1. u.node \in Node /\ Member(u.node, u.pub, u.best)
    BY <1>0, <1>1 DEF UpsertsAreMembers, TypeOK, Upsert
  <2> QED
    BY <1>0, <1>1, <2>1, MemberStays
<1>2. ASSUME NEW k \in Node, NEW r \in Room, Restart(k, r)
      PROVE  u \in upserts /\ k # u.node
  BY <1>2 DEF Restart
<1>3. ASSUME NEW t \in confirming, NEW best \in Endpoint,
             NEW switchNow \in BOOLEAN, ConfirmPeer(t, best, switchNow),
             u \notin upserts
      PROVE  Member(u.node, u.pub, u.best)'
  <2>1. u = [node |-> t.node, pub |-> t.remote.pub, best |-> best,
             task |-> t.ep]
    BY <1>3 DEF ConfirmPeer
  <2>2. t.node \in Node /\ t.remote.pub \in Node
    BY <1>0, <1>3 DEF ConfirmPeer, Accepts, TypeOK, Confirm, Remote, Payload
  <2>3. best \in cands'[t.node][t.remote.pub]
    BY <1>3 DEF ConfirmPeer
  <2>4. /\ best \in confirmed[t.node]
        /\ <<t.remote.pub, best, room[t.node]>> \in lived
    BY <1>3, <2>2, <2>3, ConfirmPeerCands
  <2>5. UNCHANGED <<confirmed, room, lived>>
    BY <1>3 DEF ConfirmPeer, nat
  <2> QED
    BY <2>1, <2>4, <2>5 DEF Member, Lived
<1>4. CASE u \in upserts
  <2>1. u.node \in Node
    BY <1>0, <1>4 DEF TypeOK, Upsert
  <2> QED
    BY <1>1, <1>2, <1>4, <2>1
<1>5. CASE u \notin upserts
  <2>1. CASE \E k \in Node : ReadLoop(k)
    BY <1>5, <2>1 DEF ReadLoop, ReceiveHello, ReceiveReply, ReceiveAck, Read,
                      table
  <2>2. CASE \E k \in Node : Announcer(k) \/ HandleConfirmed(k)
    BY <1>3, <1>5, <2>2 DEF Announcer, StartAnnounce, Discover,
       HandleConfirmed, ConfirmIgnored, WgUpsert, table
  <2>3. CASE \E k \in Node, d \in Endpoint : Puncher(k, d)
    BY <1>5, <2>3 DEF Puncher, PunchCheck, PunchSend, table
  <2>4. CASE Environment
    BY <1>2, <1>5, <2>4 DEF Environment, Discard, Lose, WgUpsertFails,
                            AnnounceFails, Rebind, Expire, table
  <2>5. CASE UNCHANGED vars
    BY <1>5, <2>5 DEF vars
  <2> QED
    BY <2>1, <2>2, <2>3, <2>4, <2>5 DEF Next
<1> QED
  BY <1>4, <1>5

LEMMA NextDevice ==
  ASSUME MemberInv, [Next]_vars
  PROVE  DeviceOfMembers'
<1>0. TypeOK /\ UpsertsAreMembers /\ DeviceOfMembers
  BY DEF MemberInv, TypeInv
<1> SUFFICES ASSUME NEW n \in Node, NEW m \in Node, NEW d \in Endpoint,
                    d = device'[n][m]
             PROVE  Member(n, m, d)'
  <2>1. device' \in [Node -> [Node -> Endpoint \union {None}]]
    BY NextType DEF MemberInv, TypeOK
  <2> QED
    BY <2>1 DEF DeviceOfMembers, Member, Lived
<1>1. CASE d = device[n][m] /\ ~\E r \in Room : Restart(n, r)
  BY <1>0, <1>1, MemberStays, DhtAssumption DEF DeviceOfMembers, Member, Lived
<1>2. ASSUME NEW k \in Node, NEW r \in Room, Restart(k, r)
      PROVE  d = device[n][m] /\ k # n
  BY <1>0, <1>2, DhtAssumption DEF Restart, TypeOK
<1>3. ASSUME NEW u \in upserts, WgUpsert(u), d # device[n][m]
      PROVE  Member(n, m, d)'
  <2>1. u.node = n /\ u.pub = m /\ u.best = d
    BY <1>0, <1>3 DEF WgUpsert, TypeOK
  <2>2. Member(n, m, d)
    BY <1>0, <2>1 DEF UpsertsAreMembers, Member, Lived
  <2>3. UNCHANGED <<confirmed, room, lived>>
    BY <1>3 DEF WgUpsert, nat, process
  <2> QED
    BY <2>2, <2>3 DEF Member, Lived
<1>4. CASE d = device[n][m]
  BY <1>1, <1>2, <1>4
<1>5. CASE d # device[n][m]
  <2>1. CASE \E k \in Node : ReadLoop(k)
    BY <1>5, <2>1 DEF ReadLoop, ReceiveHello, ReceiveReply, ReceiveAck, Read,
                      table
  <2>2. CASE \E k \in Node : Announcer(k) \/ HandleConfirmed(k)
    BY <1>3, <1>5, <2>2 DEF Announcer, StartAnnounce, Discover,
       HandleConfirmed, ConfirmIgnored, ConfirmPeer, table
  <2>3. CASE \E k \in Node, e \in Endpoint : Puncher(k, e)
    BY <1>5, <2>3 DEF Puncher, PunchCheck, PunchSend, table
  <2>4. CASE Environment
    BY <1>2, <1>5, <2>4 DEF Environment, Discard, Lose, WgUpsertFails,
                            AnnounceFails, Rebind, Expire, table
  <2>5. CASE UNCHANGED vars
    BY <1>5, <2>5 DEF vars
  <2> QED
    BY <2>1, <2>2, <2>3, <2>4, <2>5 DEF Next
<1> QED
  BY <1>4, <1>5

(* The endpoint a peer is installed at was confirmed by this process, and  *)
(* is one the peer has run at in the same room: the room check of          *)
(* handleConfirmedPeer and the keying by endpoint and key, in any          *)
(* interleaving of the goroutines and after any restarts and rebindings.   *)
THEOREM RoomMembers == Spec => []DeviceIsRoomMember
<1>1. Init => MemberInv
  BY InitMember
<1>2. MemberInv /\ [Next]_vars => MemberInv'
  <2> SUFFICES ASSUME MemberInv, [Next]_vars
               PROVE  MemberInv'
    OBVIOUS
  <2>1. TypeInv' /\ OwnsItsEndpoint'
    BY NextType, NextProbes, NextOwns DEF MemberInv, TypeInv
  <2> QED
    BY <2>1, NextNetTrue, NextPendingTrue, NextConfirmingTrue, NextCands,
       NextUpserts, NextDevice DEF MemberInv
<1>3. MemberInv => DeviceIsRoomMember
  BY DEF MemberInv, DeviceOfMembers, DeviceIsRoomMember, Member, Lived
<1> QED
  BY <1>1, <1>2, <1>3, PTL DEF Spec

-----------------------------------------------------------------------------
(* A peer that knows its endpoint and has never had another one. *)
Kept(n) == n \in KnowsSelf /\ Owned(n) = {at[n]}

(* No two peers have the same endpoint. *)
Apart == \A m, n \in Node : m # n => at[m] # at[n]

Quiet(n) == punch[n][at[n]].pc \notin {"check", "send"}

(* Such a peer filters itself out, so that nothing travels from its        *)
(* endpoint back to it.                                                    *)
NoneToSelf(n) == \A p \in net : p.src = at[n] => p.dst # at[n]

Unconfirmed(n) == at[n] \notin confirmed[n]

SelfFiltered(n) ==
  selfAddr[n] = at[n] /\ Quiet(n) /\ NoneToSelf(n) /\ Unconfirmed(n)

SelfInv ==
  /\ TypeInv /\ OwnsItsEndpoint /\ Apart
  /\ \A n \in Node : Kept(n) => SelfFiltered(n)

LEMMA InitSelf == Init => SelfInv
<1> SUFFICES ASSUME Init PROVE SelfInv
  OBVIOUS
<1>1. TypeInv /\ OwnsItsEndpoint /\ Apart
  BY InitType DEF Init, OwnsItsEndpoint, Apart
<1>2. ASSUME NEW n \in Node, Kept(n) PROVE SelfFiltered(n)
  BY <1>2 DEF Init, Kept, SelfFiltered, Quiet, NoneToSelf, Unconfirmed,
              SelfAddrs, NotTried
<1> QED
  BY <1>1, <1>2 DEF SelfInv

LEMMA NextApart ==
  ASSUME TypeOK, Apart, [Next]_vars
  PROVE  Apart'
<1>1. CASE UNCHANGED at
  BY <1>1 DEF Apart
<1>2. ASSUME NEW n \in Node, NEW e \in Endpoint, Rebind(n, e)
      PROVE  Apart'
  BY <1>2 DEF Rebind, Apart, TypeOK
<1>3. CASE \E n \in Node : Announcer(n) \/ HandleConfirmed(n)
  BY <1>1, <1>3 DEF Announcer, StartAnnounce, Discover, HandleConfirmed,
                    ConfirmIgnored, ConfirmPeer, WgUpsert
<1>4. CASE \E n \in Node : ReadLoop(n)
  BY <1>1, <1>4 DEF ReadLoop, ReceiveHello, ReceiveReply, ReceiveAck, Read
<1>5. CASE \E n \in Node, e \in Endpoint : Puncher(n, e)
  BY <1>1, <1>5 DEF Puncher, PunchCheck, PunchSend
<1>6. CASE Environment
  BY <1>1, <1>2, <1>6
     DEF Environment, Discard, Lose, WgUpsertFails, AnnounceFails, Restart,
         Expire
<1>7. CASE UNCHANGED vars
  BY <1>1, <1>7
<1> QED
  BY <1>3, <1>4, <1>5, <1>6, <1>7 DEF Next

(* A peer that has had one endpoint only had it before the step, too. *)
LEMMA KeptBefore ==
  ASSUME SelfInv, [Next]_vars, NEW n \in Node, Kept(n)'
  PROVE  Kept(n) /\ at'[n] = at[n]
<1>1. lived \subseteq lived' /\ OwnsItsEndpoint' /\ TypeOK /\ TypeOK'
  BY HistoryGrows, NextOwns, NextType DEF SelfInv, TypeInv
<1>2. at[n] \in Owned(n)
  BY <1>1 DEF SelfInv, OwnsItsEndpoint, Owned, TypeOK
<1>3. Owned(n) \subseteq {at'[n]}
  BY <1>1 DEF Kept, Owned
<1> QED
  BY <1>2, <1>3 DEF Kept

LEMMA NextSelfAddr ==
  ASSUME TypeOK, NEW n \in Node, Kept(n), selfAddr[n] = at[n],
         [Next]_vars, at'[n] = at[n]
  PROVE  selfAddr'[n] = at'[n]
<1>1. CASE UNCHANGED selfAddr
  BY <1>1
<1>2. ASSUME NEW m \in Node, NEW r \in Room, Restart(m, r)
      PROVE  selfAddr'[n] = at'[n]
  BY <1>2 DEF Restart, SelfAddrs, Kept, TypeOK
<1>3. CASE \E m \in Node : Announcer(m) \/ HandleConfirmed(m)
  BY <1>1, <1>3 DEF Announcer, StartAnnounce, Discover, HandleConfirmed,
                    ConfirmIgnored, ConfirmPeer, WgUpsert
<1>4. CASE \E m \in Node : ReadLoop(m)
  BY <1>1, <1>4 DEF ReadLoop, ReceiveHello, ReceiveReply, ReceiveAck, Read
<1>5. CASE \E m \in Node, e \in Endpoint : Puncher(m, e)
  BY <1>1, <1>5 DEF Puncher, PunchCheck, PunchSend
<1>6. CASE Environment
  BY <1>1, <1>2, <1>6
     DEF Environment, Discard, Lose, WgUpsertFails, AnnounceFails, Rebind,
         Expire
<1>7. CASE UNCHANGED vars
  BY <1>1, <1>7
<1> QED
  BY <1>3, <1>4, <1>5, <1>6, <1>7 DEF Next

(* No goroutine is started for the own endpoint. *)
LEMMA NextQuiet ==
  ASSUME TypeOK, NEW n \in Node, selfAddr[n] = at[n], Quiet(n),
         [Next]_vars, at'[n] = at[n]
  PROVE  Quiet(n)'
<1> DEFINE e == at[n]
<1>0. e \in Endpoint
  BY DEF TypeOK
<1>1. CASE punch'[n][e] = punch[n][e]
  BY <1>1 DEF Quiet
<1>2. ASSUME NEW m \in Node, NEW d \in Endpoint, Discover(m, d)
      PROVE  Quiet(n)'
  <2>1. ~(m = n /\ d = e)
    BY <1>2 DEF Discover, Skips
  <2> QED
    BY <1>0, <1>1, <1>2, <2>1 DEF Discover, TypeOK
<1>3. ASSUME NEW m \in Node, NEW d \in Endpoint, Puncher(m, d)
      PROVE  Quiet(n)'
  <2>1. ~(m = n /\ d = e)
    BY <1>3 DEF Puncher, PunchCheck, PunchSend, Quiet
  <2> QED
    BY <1>0, <1>1, <1>3, <2>1 DEF Puncher, PunchCheck, PunchSend, TypeOK
<1>4. ASSUME NEW m \in Node, NEW r \in Room, Restart(m, r)
      PROVE  Quiet(n)'
  <2>1. CASE m = n
    BY <1>0, <1>4, <2>1 DEF Restart, NotTried, Quiet, TypeOK
  <2>2. CASE m # n
    BY <1>0, <1>1, <1>4, <2>2 DEF Restart, TypeOK
  <2> QED
    BY <2>1, <2>2
<1>5. CASE \E m \in Node : Announcer(m) \/ HandleConfirmed(m)
  BY <1>1, <1>2, <1>5 DEF Announcer, StartAnnounce, HandleConfirmed,
                          ConfirmIgnored, ConfirmPeer, WgUpsert
<1>6. CASE \E m \in Node : ReadLoop(m)
  BY <1>1, <1>6 DEF ReadLoop, ReceiveHello, ReceiveReply, ReceiveAck, Read
<1>7. CASE Environment
  BY <1>1, <1>4, <1>7
     DEF Environment, Discard, Lose, WgUpsertFails, AnnounceFails, Rebind,
         Expire
<1>8. CASE UNCHANGED vars
  BY <1>1, <1>8
<1> QED
  BY <1>3, <1>5, <1>6, <1>7, <1>8 DEF Next

(* What n sends goes elsewhere, and nobody else sends from where n is. *)
LEMMA NextNoneToSelf ==
  ASSUME TypeOK, Apart, NEW n \in Node, Quiet(n), NoneToSelf(n),
         [Next]_vars, at'[n] = at[n]
  PROVE  NoneToSelf(n)'
<1> SUFFICES ASSUME NEW q \in net', q.src = at[n]
             PROVE  q.dst # at[n]
  BY DEF NoneToSelf
<1>1. CASE q \in net
  BY <1>1 DEF NoneToSelf
<1>2. ASSUME NEW m \in Node, NEW e \in Endpoint, PunchSend(m, e),
             q \notin net
      PROVE  q.dst # at[n]
  <2>1. q.src = at[m] /\ q.dst = e
    BY <1>2 DEF PunchSend, Datagram
  <2>2. m = n
    BY <2>1 DEF Apart
  <2> QED
    BY <1>2, <2>1, <2>2 DEF PunchSend, Quiet
<1>3. ASSUME NEW m \in Node, NEW p \in net, NEW type, NEW ts,
             Read(m, p, {Datagram(type, m, p.src, ts)}) \/ Read(m, p, {}),
             q \notin net
      PROVE  q.dst # at[n]
  <2>1. q = Datagram(type, m, p.src, ts)
    BY <1>3 DEF Read
  <2>2. q.src = at[m] /\ q.dst = p.src /\ p.dst = at[m]
    BY <1>3, <2>1 DEF Datagram, Read, Admits
  <2>3. m = n
    BY <2>2 DEF Apart
  <2> QED
    BY <2>2, <2>3 DEF NoneToSelf
<1>4. CASE \E m \in Node : ReadLoop(m)
  BY <1>1, <1>3, <1>4 DEF ReadLoop, ReceiveHello, ReceiveReply, ReceiveAck
<1>5. CASE \E m \in Node, e \in Endpoint : Puncher(m, e)
  BY <1>1, <1>2, <1>5 DEF Puncher, PunchCheck
<1>6. CASE \E m \in Node : Announcer(m) \/ HandleConfirmed(m)
  BY <1>1, <1>6 DEF Announcer, StartAnnounce, Discover, HandleConfirmed,
                    ConfirmIgnored, ConfirmPeer, WgUpsert
<1>7. CASE Environment
  BY <1>1, <1>7 DEF Environment, Discard, Lose, WgUpsertFails, AnnounceFails,
                    Restart, Rebind, Expire
<1>8. CASE UNCHANGED vars
  BY <1>1, <1>8
<1> QED
  BY <1>4, <1>5, <1>6, <1>7, <1>8 DEF Next

LEMMA NextUnconfirmed ==
  ASSUME TypeOK, NEW n \in Node, NoneToSelf(n), Unconfirmed(n),
         [Next]_vars, at'[n] = at[n]
  PROVE  Unconfirmed(n)'
<1>1. CASE confirmed'[n] \subseteq confirmed[n]
  BY <1>1 DEF Unconfirmed
<1>2. ASSUME NEW m \in Node, NEW p \in net, Admits(m, p), ConfirmOnce(m, p)
      PROVE  Unconfirmed(n)'
  <2>1. CASE m = n
    <3>1. p.src # at[n]
      BY <1>2, <2>1 DEF Admits, NoneToSelf
    <3>2. confirmed'[n] \subseteq confirmed[n] \union {p.src}
      BY <1>2, <2>1 DEF ConfirmOnce, TypeOK
    <3> QED
      BY <3>1, <3>2 DEF Unconfirmed
  <2>2. CASE m # n
    BY <1>1, <1>2, <2>2 DEF ConfirmOnce, TypeOK
  <2> QED
    BY <2>1, <2>2
<1>3. CASE \E m \in Node : ReadLoop(m)
  BY <1>1, <1>2, <1>3
     DEF ReadLoop, ReceiveHello, ReceiveReply, ReceiveAck, Read
<1>4. ASSUME NEW m \in Node, NEW r \in Room, Restart(m, r)
      PROVE  Unconfirmed(n)'
  BY <1>1, <1>4 DEF Restart, TypeOK
<1>5. CASE \E m \in Node : Announcer(m) \/ HandleConfirmed(m)
  BY <1>1, <1>5 DEF Announcer, StartAnnounce, Discover, HandleConfirmed,
                    ConfirmIgnored, ConfirmPeer, WgUpsert
<1>6. CASE \E m \in Node, e \in Endpoint : Puncher(m, e)
  BY <1>1, <1>6 DEF Puncher, PunchCheck, PunchSend
<1>7. CASE Environment
  BY <1>1, <1>4, <1>7
     DEF Environment, Discard, Lose, WgUpsertFails, AnnounceFails, Rebind,
         Expire
<1>8. CASE UNCHANGED vars
  BY <1>1, <1>8
<1> QED
  BY <1>3, <1>5, <1>6, <1>7, <1>8 DEF Next

(* The self filter is enough: a peer that learns its endpoint at startup   *)
(* and keeps it is never confirmed by itself, over any restarts, losses    *)
(* and duplications, and whatever endpoints the other peers move to.       *)
THEOREM SelfFilter == Spec => []NeverConfirmsItself
<1>1. SelfInv /\ [Next]_vars => SelfInv'
  <2> SUFFICES ASSUME SelfInv, [Next]_vars
               PROVE  SelfInv'
    OBVIOUS
  <2>0. TypeOK /\ Apart
    BY DEF SelfInv, TypeInv
  <2>1. TypeInv' /\ OwnsItsEndpoint' /\ Apart'
    BY <2>0, NextType, NextProbes, NextOwns, NextApart DEF SelfInv, TypeInv
  <2>2. ASSUME NEW n \in Node, Kept(n)' PROVE SelfFiltered(n)'
    <3>1. Kept(n) /\ at'[n] = at[n] /\ SelfFiltered(n)
      BY <2>2, KeptBefore DEF SelfInv
    <3> QED
      BY <2>0, <3>1, NextSelfAddr, NextQuiet, NextNoneToSelf, NextUnconfirmed
         DEF SelfFiltered
  <2> QED
    BY <2>1, <2>2 DEF SelfInv
<1>2. SelfInv => NeverConfirmsItself
  BY DhtAssumption
     DEF SelfInv, SelfFiltered, Kept, Unconfirmed, NeverConfirmsItself
<1> QED
  BY InitSelf, <1>1, <1>2, PTL DEF Spec
=============================================================================
