----------------------------- MODULE StunClient -----------------------------
(***************************************************************************)
(* How tor/ and nostr/ learn their external endpoint (the two stun.go are  *)
(* the same).  All traffic shares one UDP socket: stunQuery registers a    *)
(* channel under a random transaction ID in stunRxTable and waits for it;  *)
(* the read loop looks the channel up and, after the unlock, puts the      *)
(* datagram there, if there is room.  Whoever starts the program waits for *)
(* a first result; from then on the keepalive asks again and again.        *)
(*                                                                         *)
(* External: the STUN servers and the network, which loses, duplicates and *)
(* delays requests and answers.                                            *)
(***************************************************************************)
EXTENDS StunMessage

CONSTANTS
  Endpoint,   \* external endpoints the NAT may give the socket
  Tx,         \* transaction IDs (bound: those in use at a time)
  Servers,    \* length of the list of servers
  Dead,       \* positions in the list that never answer
  Rewritten,  \* an address some middlebox has put in a MAPPED-ADDRESS
  Unpadded,   \* stands for an answer whose last attribute is not padded
  MaxAttrs,   \* bound: attributes in an answer
  Faults,     \* the faults that may happen (see FaultKind)
  MaxFaults   \* bound: how many of them happen in one behaviour

FaultKind == {"lose", "duplicate", "late", "rebind", "bad", "odd"}

ASSUME StunAssumption ==
  /\ {None, Panic} \intersect (Endpoint \union {Rewritten}) = {}
  /\ Rewritten \notin Endpoint
  /\ Unpadded \notin Endpoint \union {None}
  /\ None \notin Tx
  /\ MaxAttrs \in Nat
  /\ Servers \in Nat \ {0}
  /\ Dead \subseteq 1 .. Servers
  /\ Faults \subseteq FaultKind
  /\ MaxFaults \in Nat

VARIABLES
  at,       \* the socket's external endpoint
  pc,       \* "idle", "query", "send", "wait", "found", "failed", "dead"
  srv,      \* the server discoverExternalAddr is asking, from 1
  tx,       \* the transaction stunQuery waits for, or None
  open,     \* the keys of stunRxTable
  buf,      \* what is in the channel of tx, which has room for one
  rx,       \* the answer the read loop has found a channel for, if any
  result,   \* what discoverExternalAddr has returned, None at first
  current,  \* currentAddr, None until the first result
  last,     \* the keepalive's last, None at first
  net,      \* requests and answers in flight
  since,    \* history: the endpoints the socket has had since the query
  fatal,    \* history: what the answer that ended the program carried
  faults    \* faults that may still happen

caller == <<pc, srv, tx, open, result, current, last, fatal>>
vars == <<at, pc, srv, tx, open, buf, rx, result, current, last, net, since,
          fatal, faults>>

-----------------------------------------------------------------------------
(* External: the answers.  Attributes an answer may have.  A middlebox may *)
(* rewrite MAPPED-ADDRESS, which is why there is the other.                *)
Attr(type, len, ipv4, e) == [type |-> type, len |-> len, ipv4 |-> ipv4,
                             ep |-> e]
Xor(e)    == Attr("xor", 8, TRUE, e)
Plain(e)  == Attr("mapped", 8, TRUE, e)
Useless   == {Attr("xor", 20, FALSE, None), Attr("other", 5, FALSE, None)}

Body(attrs, size, avail) == [attrs |-> attrs, size |-> size, avail |-> avail]

Whole(attrs) == Body(attrs, PaddedSize(attrs), PaddedSize(attrs))

AttrsUpTo(S) == UNION {[1 .. n -> S] : n \in 0 .. MaxAttrs}

(* What a server sends that sees endpoint e: at least one address no       *)
(* middlebox has changed, and every attribute padded.                      *)
Bodies(e) ==
  {Whole(s) : s \in {t \in AttrsUpTo({Xor(e), Plain(e), Plain(Rewritten)}
                                     \union Useless) :
      LET has(a) == \E i \in 1 .. Len(t) : t[i] = a
      IN has(Xor(e)) \/ (has(Plain(e)) /\ ~has(Plain(Rewritten)))}}

(* Answers that are of no use: without an address, with a length in the    *)
(* header that ends them early, or with one that nothing has arrived for.  *)
BadBodies ==
  LET x == <<Xor(Rewritten)>>
      other(len) == <<Attr("other", len, FALSE, None)>>
  IN  {Whole(s) : s \in AttrsUpTo(Useless)}
      \union {Body(x, 4 * n, 12) : n \in 0 .. 2}
      \union {Body(x, 12, 8)}
      \union {Body(other(len), 8, 8) : len \in {8, 65531, 65535}}

(* Answers whose last attribute is not padded to four bytes, against RFC   *)
(* 5389: no guard of the parser tells them from the others.                *)
OddBodies ==
  LET odd(len) == Attr("other", len, FALSE, None)
      exact(attrs, size) == Body(attrs, size, size)
  IN  {exact(<<odd(len)>>, 4 + len) : len \in {1, 2, 3, 5}}
      \union {exact(<<Xor(Rewritten), odd(5)>>, 21)}

(* What an answer carries and what parsing it gives. *)
Read(e, bodies) == {[ep |-> e, gives |-> Parse(b)] : b \in bodies}

Parsed == (UNION {Read(e, Bodies(e)) : e \in Endpoint})
            \union Read(None, BadBodies) \union Read(Unpadded, OddBodies)

(* A request, with the endpoint it leaves the NAT from, and the answer to  *)
(* it, or None in one that is of no use, or Unpadded.                      *)
Message == [kind : {"request", "answer"}, tx : Tx,
            ep : Endpoint \union {None, Unpadded}]

Init ==
  /\ at \in Endpoint
  /\ pc = "idle" /\ srv = 1
  /\ tx = None
  /\ open = {} /\ buf = {} /\ rx = {}
  /\ result = None /\ current = None /\ last = None
  /\ net = {}
  /\ since = {}
  /\ fatal = None
  /\ faults = MaxFaults

Fault(kind) == /\ kind \in Faults
               /\ faults > 0
               /\ faults' = faults - 1

-----------------------------------------------------------------------------
(* discoverExternalAddr starts: the bootstrap's, or the keepalive's. *)
Discover ==
  /\ pc = "idle"
  /\ pc' = "query"
  /\ UNCHANGED <<at, srv, tx, open, buf, rx, result, current, last, net,
                 since, fatal, faults>>

(* stunQuery registers a new transaction with an empty channel, ... *)
Register(t) ==
  /\ pc = "query"
  /\ t \notin open \union {m.tx : m \in net \union rx}
  /\ pc' = "send"
  /\ tx' = t
  /\ open' = open \union {t}
  /\ buf' = {}
  /\ since' = {at}
  /\ UNCHANGED <<at, srv, rx, result, current, last, net, fatal, faults>>

(* ... sends the request and waits.  The request to a dead server is lost. *)
Send ==
  /\ pc = "send"
  /\ pc' = "wait"
  /\ net' = IF srv \in Dead THEN net
            ELSE net \union {[kind |-> "request", tx |-> tx, ep |-> at]}
  /\ UNCHANGED <<at, srv, tx, open, buf, rx, result, current, last, since,
                 fatal, faults>>

(* Mutant of Unregister: the deferred delete is missing. *)
MutUnregisterNot == tx' = None /\ UNCHANGED open

(* stunQuery returns, and its deferred function removes the transaction.   *)
Unregister == tx' = None /\ open' = open \ {tx}

(* WriteToUDP returns an error. *)
SendFails ==
  /\ pc = "send"
  /\ Fault("lose")
  /\ Unregister
  /\ pc' = "failed"
  /\ UNCHANGED <<at, srv, buf, rx, result, current, last, net, since, fatal>>

(* An answer is taken from the channel and parsed. *)
Take(m) ==
  /\ pc = "wait"
  /\ m \in buf
  /\ buf' = {}
  /\ Unregister
  /\ \E p \in Parsed :
       /\ p.ep = m.ep
       /\ CASE p.gives = Panic -> /\ pc' = "dead" /\ fatal' = m.ep
                                  /\ UNCHANGED result
            [] p.gives = None  -> /\ pc' = "failed"
                                  /\ UNCHANGED <<result, fatal>>
            [] OTHER           -> /\ pc' = "found" /\ result' = p.gives
                                  /\ UNCHANGED fatal
  /\ UNCHANGED <<at, srv, rx, current, last, net, since, faults>>

(* Three seconds have passed: an answer is late, or there will be none.    *)
Timeout ==
  /\ pc = "wait"
  /\ \/ /\ \A m \in net \union rx \union buf : m.tx # tx
        /\ UNCHANGED faults
     \/ Fault("late")
  /\ Unregister
  /\ pc' = "failed"
  /\ UNCHANGED <<at, srv, buf, rx, result, current, last, net, since, fatal>>

(* Mutant of NextServer: it goes on beyond the last server. *)
MutNextServerBeyond ==
  /\ pc = "failed"
  /\ pc' = "query" /\ srv' = srv + 1
  /\ UNCHANGED <<at, tx, open, buf, rx, result, current, last, net, since,
                 fatal, faults>>

(* discoverExternalAddr goes on with the next server, or gives up. *)
NextServer ==
  /\ pc = "failed"
  /\ IF srv < Servers THEN pc' = "query" /\ srv' = srv + 1
                      ELSE pc' = "idle" /\ srv' = 1
  /\ UNCHANGED <<at, tx, open, buf, rx, result, current, last, net, since,
                 fatal, faults>>

(* Mutant of NewAddress: a change is taken for the first one only. *)
MutNewAddressOnce == last = None

(* startSTUNKeepalive: the result differs from its last one. *)
NewAddress == last # result

(* The bootstrap makes the first result the current address; the keepalive *)
(* does so with one that is new to it.                                     *)
Report ==
  /\ pc = "found"
  /\ pc' = "idle" /\ srv' = 1
  /\ IF current = None
     THEN current' = result /\ UNCHANGED last
     ELSE /\ last' = IF NewAddress THEN result ELSE last
          /\ current' = IF NewAddress THEN result ELSE current
  /\ UNCHANGED <<at, tx, open, buf, rx, result, net, since, fatal, faults>>

-----------------------------------------------------------------------------
(* Mutant of Claimed: answers are not matched with transactions. *)
MutClaimedAny(m) == open # {}

(* deliverSTUNPacket finds the channel of the transaction, under the lock. *)
Claimed(m) == m.tx \in open

(* The read loop reads an answer; what nobody waits for is dropped.        *)
Lookup(m) ==
  /\ m.kind = "answer"
  /\ rx = {}
  /\ rx' = IF Claimed(m) THEN {m} ELSE {}
  /\ \/ net' = net \ {m} /\ UNCHANGED faults
     \/ Fault("duplicate") /\ UNCHANGED net
  /\ UNCHANGED <<at, caller, buf, since>>

(* After the unlock: the answer is put in the channel if there is room.    *)
(* By now stunQuery may have returned, and nobody reads the channel.       *)
Put(m) ==
  /\ rx' = {}
  /\ buf' = IF Claimed(m) /\ buf = {} THEN {m} ELSE buf
  /\ UNCHANGED <<at, caller, net, since, faults>>

-----------------------------------------------------------------------------
(* A server answers a request, ... *)
Reply(m) ==
  /\ m.kind = "request"
  /\ \/ net' = (net \ {m}) \union {[m EXCEPT !.kind = "answer"]}
        /\ UNCHANGED faults
     \/ /\ Fault("bad")
        /\ net' = (net \ {m}) \union
                    {[m EXCEPT !.kind = "answer", !.ep = None]}
     \/ /\ Fault("odd")
        /\ net' = (net \ {m}) \union
                    {[m EXCEPT !.kind = "answer", !.ep = Unpadded]}
  /\ UNCHANGED <<at, caller, buf, rx, since>>

(* ... the network loses something, ... *)
Lose(m) ==
  /\ Fault("lose")
  /\ net' = net \ {m}
  /\ UNCHANGED <<at, caller, buf, rx, since>>

(* ... and the NAT gives the socket another endpoint. *)
Rebind(e) ==
  /\ Fault("rebind")
  /\ at' = e
  /\ since' = since \union {e}
  /\ UNCHANGED <<caller, buf, rx, net>>

-----------------------------------------------------------------------------
Caller == \/ Discover \/ Send \/ SendFails
          \/ \E t \in Tx : Register(t)
          \/ \E m \in buf : Take(m)
          \/ Timeout \/ NextServer \/ Report

ReadLoop == /\ pc # "dead"
            /\ \/ \E m \in net : Lookup(m)
               \/ \E m \in rx : Put(m)

Network == \E m \in net : Reply(m) \/ Lose(m)

Next == \/ Caller \/ ReadLoop \/ Network
        \/ \E e \in Endpoint : Rebind(e)

Spec == Init /\ [][Next]_vars

(* Tickers fire and the read loop reads; what is not lost arrives.  An     *)
(* answer that is neither lost nor late arrives in time.                   *)
Fairness == WF_vars(Caller) /\ WF_vars(ReadLoop) /\ WF_vars(Network)

FairSpec == Spec /\ Fairness

-----------------------------------------------------------------------------
TypeOK ==
  /\ at \in Endpoint
  /\ pc \in {"idle", "query", "send", "wait", "found", "failed", "dead"}
  /\ srv \in 1 .. Servers
  /\ tx \in Tx \union {None}
  /\ open \in SUBSET Tx
  /\ buf \in SUBSET Message
  /\ rx \in SUBSET Message
  /\ {result, current, last} \subseteq Endpoint \union {None}
  /\ net \in SUBSET Message
  /\ since \in SUBSET Endpoint
  /\ fatal \in Endpoint \union {None, Unpadded}
  /\ faults \in 0 .. MaxFaults

(* stunRxTable holds the running query's transaction and nothing else:     *)
(* whichever way queries end, it does not grow.                            *)
TableIsRunningQuery == open = IF tx = None THEN {} ELSE {tx}

(* A result is an endpoint the socket has had since the query was made: an *)
(* answer to an earlier query, late or duplicated, is never taken for the  *)
(* answer to this one, nor is an address a middlebox has put in.           *)
ResultIsRecent == pc = "found" => result \in since

(* parseSTUNResponse slices an attribute beyond the end of an answer, and  *)
(* the program dies, only when the last attribute is not padded: whatever  *)
(* other lengths stand in an answer, the guards before the slices hold.    *)
OnlyUnpaddedOverruns == pc = "dead" => fatal = Unpadded

(* With a server that answers, the program settles on the address it has,  *)
(* unless such an answer ends it.                                          *)
FindsAddress == [](pc # "dead") => <>[](current = at)
=============================================================================
