------------------------ MODULE OnionFailover_proofs ------------------------
(***************************************************************************)
(* Proofs about OnionFailover.tla for any set of peers, any number of      *)
(* failed rounds before a failover and any bound on the faults.            *)
(***************************************************************************)
EXTENDS OnionFailover, TLAPS

(* Between Listen and the end of becomeOnionServer a thread needs its HTTP *)
(* server.                                                                 *)
Window == {"start", "starting", "publish", "close"}

(* The port belongs to the thread in the window, and nobody is the server  *)
(* yet.                                                                    *)
WindowHasPort ==
  \A n \in Node, t \in Thread :
    pc[n][t] \in Window => listener[n] = t /\ ~localURL[n]

(* Between the clearing of localURL and the closing of its server the port *)
(* is still taken, and no thread is in the window.                         *)
TearingHasPort ==
  \A n \in Node :
    tearing[n] => /\ ctxDone[n] /\ ~localURL[n] /\ listener[n] # None
                  /\ \A t \in Thread : pc[n][t] \notin Window

HostParts ==
  WindowHasPort /\ TearingHasPort /\ ServerHasRegistry /\ TorHasRegistry

HostInv == Types /\ HostParts

-----------------------------------------------------------------------------
LEMMA InitType == Init => Types
BY OnionAssumption DEF Init, Types, Fresh, Thread, PC

LEMMA GotoType ==
  ASSUME Types, NEW n \in Node, NEW t \in Thread, NEW l \in PC, Goto(n, t, l)
  PROVE  pc' \in [Node -> [Thread -> PC]]
BY DEF Types, Goto

LEMMA FaultType ==
  ASSUME Types, NEW kind, Fault(kind)
  PROVE  faults' \in 0 .. MaxFaults
BY OnionAssumption DEF Types, Fault

LEMMA ReturnType ==
  ASSUME Types, NEW n \in Node, NEW t \in Thread, Return(n, t)
  PROVE  /\ pc' \in [Node -> [Thread -> PC]]
         /\ fails' \in [Node -> 0 .. FailoverAfter]
<1>1. pc' \in [Node -> [Thread -> PC]]
  BY GotoType DEF Return, PC
<1>2. fails' \in [Node -> 0 .. FailoverAfter]
  BY OnionAssumption DEF Return, Types
<1> QED
  BY <1>1, <1>2

LEMMA GoneType ==
  ASSUME Types, NEW n \in Node, Gone(n), faults' \in 0 .. MaxFaults
  PROVE  Types'
<1>1. Fresh \in [Thread -> PC]
  BY DEF Fresh, Thread, PC
<1> QED
  BY <1>1, OnionAssumption DEF Gone, Types

LEMMA RoundType ==
  ASSUME Types, NEW n \in Node, Round(n)
  PROVE  Types'
<1>0. FailoverAfter \in Nat /\ FailoverAfter # 0 /\ MaxFaults \in Nat
  BY OnionAssumption
<1>1. "main" \in Thread /\ {"round", "jitter", "probe"} \subseteq PC
  BY DEF Thread, PC
<1>2. CASE Join(n) \/ StartFailover(n) \/ JitterEnds(n)
  <2>1. pc' \in [Node -> [Thread -> PC]]
    BY <1>1, <1>2, GotoType DEF Join, StartFailover, JitterEnds
  <2> QED
    BY <1>2, <2>1, FaultType
       DEF Join, StartFailover, JitterEnds, Unanswered, Types
<1>3. CASE JoinFails(n) \/ RoundSucceeds(n)
  BY <1>0, <1>3, FaultType DEF JoinFails, RoundSucceeds, Unanswered, Types
<1>4. CASE RoundFails(n)
  <2>1. pc' \in [Node -> [Thread -> PC]]
    <3>1. Goto(n, "main", "jitter") \/ UNCHANGED pc
      BY <1>4 DEF RoundFails
    <3>2. UNCHANGED pc => pc' \in [Node -> [Thread -> PC]]
      BY DEF Types
    <3> QED
      BY <1>1, <3>1, <3>2, GotoType
  <2>2. fails' \in [Node -> 0 .. FailoverAfter]
    <3>1. OneMore(fails[n]) \in 0 .. FailoverAfter
      <4>1. fails[n] \in 0 .. FailoverAfter
        BY DEF Types
      <4> QED
        BY <1>0, <4>1 DEF OneMore
    <3>2. fails' = [fails EXCEPT ![n] = OneMore(fails[n])]
      BY <1>4 DEF RoundFails
    <3> QED
      BY <3>1, <3>2 DEF Types
  <2> QED
    <3>1. faults' \in 0 .. MaxFaults
      BY <1>4, FaultType DEF RoundFails, Unanswered, Types
    <3> QED
      BY <1>4, <2>1, <2>2, <3>1 DEF RoundFails, Types
<1>5. CASE Recovered(n)
  <2>1. pc' \in [Node -> [Thread -> PC]]
    BY <1>1, <1>5, GotoType DEF Recovered
  <2>2. fails' \in [Node -> 0 .. FailoverAfter]
    BY <1>0, <1>5 DEF Recovered, Types
  <2> QED
    BY <1>5, <2>1, <2>2 DEF Recovered, Types
<1> QED
  BY <1>2, <1>3, <1>4, <1>5 DEF Round

LEMMA HostingType ==
  ASSUME Types, NEW n \in Node, NEW t \in Thread, BecomeOnionServer(n, t)
  PROVE  Types'
<1>1. {"listen", "start", "starting", "publish", "close", "shutdown"}
        \subseteq PC
  BY DEF PC
<1>2. CASE \/ ProbeUnanswered(n, t) \/ Listen(n, t) \/ StartTor(n, t)
           \/ StartTorFails(n, t) \/ TorReady(n, t) \/ TorNotReady(n, t)
           \/ CloseServer(n, t)
  <2>1. pc' \in [Node -> [Thread -> PC]]
    BY <1>1, <1>2, GotoType
       DEF ProbeUnanswered, Listen, StartTor, StartTorFails, TorReady,
           TorNotReady, CloseServer
  <2> QED
    BY <1>2, <2>1, FaultType
       DEF ProbeUnanswered, Listen, StartTor, StartTorFails, TorReady,
           TorNotReady, CloseServer, Unanswered, Types
<1>3. CASE \/ ProbeAnswered(n, t) \/ ListenFails(n, t) \/ ShutdownTor(n, t)
           \/ BecomeServer(n, t)
  <2>1. /\ pc' \in [Node -> [Thread -> PC]]
        /\ fails' \in [Node -> 0 .. FailoverAfter]
    BY <1>3, ReturnType
       DEF ProbeAnswered, ListenFails, ShutdownTor, BecomeServer
  <2>2. faults' \in 0 .. MaxFaults
    BY <1>3, FaultType
       DEF ProbeAnswered, ListenFails, ShutdownTor, BecomeServer, Types
  <2> QED
    BY <1>3, <2>1, <2>2
       DEF ProbeAnswered, ListenFails, ShutdownTor, KillTor, BecomeServer,
           Types
<1> QED
  BY <1>2, <1>3 DEF BecomeOnionServer

LEMMA EnvironmentType ==
  ASSUME Types, NEW n \in Node, Environment(n)
  PROVE  Types'
<1>1. CASE \/ Publish(n) \/ CleanUpTor(n) \/ TearDown(n)
           \/ CloseRegistry(n) \/ Start(n)
  BY <1>1, OnionAssumption
     DEF Publish, CleanUpTor, KillTor, TearDown, CloseRegistry, Start, Types
<1>2. CASE TorDies(n) \/ Signal(n)
  <2>1. faults' \in 0 .. MaxFaults
    BY <1>2, FaultType DEF TorDies, Signal
  <2> QED
    BY <1>2, <2>1 DEF TorDies, Signal, Types
<1>3. CASE Crash(n) \/ Exit(n)
  <2>1. faults' \in 0 .. MaxFaults
    BY <1>3, FaultType DEF Crash, Exit, Types
  <2> QED
    BY <1>3, <2>1, GoneType DEF Crash, Exit
<1> QED
  BY <1>1, <1>2, <1>3 DEF Environment

LEMMA NextType == Types /\ [Next]_vars => Types'
<1> SUFFICES ASSUME Types, [Next]_vars
             PROVE  Types'
  OBVIOUS
<1>1. CASE UNCHANGED vars
  BY <1>1 DEF vars, Types
<1> QED
  BY <1>1, RoundType, HostingType, EnvironmentType DEF Next

-----------------------------------------------------------------------------
LEMMA InitCounted == Init => FailsCounted
<1>1. ASSUME Init, NEW n \in Node
      PROVE  pc[n]["main"] = "join" /\ fails[n] = 0
  BY <1>1 DEF Init, Fresh
<1> QED
  BY <1>1 DEF FailsCounted

(* The count of n depends on what n's main thread does, and on signals. *)
LEMMA SameCount ==
  ASSUME FailsCounted, UNCHANGED fails,
         \A m \in Node : /\ pc'[m]["main"] = pc[m]["main"]
                         /\ ctxDone[m] => ctxDone'[m]
  PROVE  FailsCounted'
BY DEF FailsCounted

LEMMA RoundCounted ==
  ASSUME Types, FailsCounted, NEW n \in Node, Round(n)
  PROVE  FailsCounted'
<1>0. /\ "main" \in Thread /\ UNCHANGED ctxDone
      /\ FailoverAfter \in Nat /\ FailoverAfter # 0
      /\ \A m \in Node : fails[m] \in 0 .. FailoverAfter
  BY OnionAssumption
     DEF Types, Thread, Round, Join, JoinFails, RoundSucceeds, RoundFails,
         Recovered, StartFailover, JitterEnds
<1>1. ASSUME NEW m \in Node, m # n
      PROVE  pc'[m]["main"] = pc[m]["main"] /\ fails'[m] = fails[m]
  BY <1>1 DEF Round, Join, JoinFails, RoundSucceeds, RoundFails, Recovered,
              StartFailover, JitterEnds, Goto, Types
<1>2. CASE Join(n) \/ StartFailover(n) \/ JitterEnds(n)
  BY <1>0, <1>1, <1>2
     DEF Join, StartFailover, JitterEnds, At, Goto, Types, FailsCounted
<1>3. CASE JoinFails(n)
  BY <1>0, <1>3, SameCount DEF JoinFails
<1>4. CASE RoundSucceeds(n) \/ Recovered(n)
  BY <1>0, <1>1, <1>4
     DEF RoundSucceeds, Recovered, At, Goto, Types, FailsCounted
<1>5. CASE RoundFails(n)
  <2>1. /\ fails'[n] = OneMore(fails[n])
        /\ pc[n]["main"] = "round"
        /\ IF fails'[n] >= FailoverAfter THEN pc'[n]["main"] = "jitter"
           ELSE pc'[n]["main"] = "round"
    BY <1>0, <1>5 DEF RoundFails, At, Goto, Types
  <2>2. fails'[n] \in 0 .. FailoverAfter
    BY <1>0, <2>1 DEF OneMore
  <2>3. IF fails'[n] >= FailoverAfter THEN fails'[n] = FailoverAfter
        ELSE fails'[n] < FailoverAfter
    BY <1>0, <2>2
  <2> QED
    BY <1>0, <1>1, <2>1, <2>3 DEF FailsCounted
<1> QED
  BY <1>2, <1>3, <1>4, <1>5 DEF Round

LEMMA HostingCounted ==
  ASSUME Types, FailsCounted, NEW n \in Node, NEW t \in Thread,
         BecomeOnionServer(n, t)
  PROVE  FailsCounted'
<1>0. /\ "main" \in Thread /\ UNCHANGED ctxDone
      /\ FailoverAfter \in Nat /\ FailoverAfter # 0
  BY OnionAssumption
     DEF Thread, BecomeOnionServer, ProbeAnswered, ProbeUnanswered, Listen,
         ListenFails, StartTor, StartTorFails, TorReady, TorNotReady,
         CloseServer, ShutdownTor, BecomeServer
<1>1. pc[n][t] \notin {"join", "round"}
  BY DEF BecomeOnionServer, ProbeAnswered, ProbeUnanswered, Listen,
         ListenFails, StartTor, StartTorFails, TorReady, TorNotReady,
         CloseServer, ShutdownTor, BecomeServer, At
<1>2. \/ Return(n, t)
      \/ /\ UNCHANGED fails
         /\ \E l \in {"listen", "start", "starting", "publish", "close",
                      "shutdown"} : Goto(n, t, l)
  BY DEF BecomeOnionServer, ProbeAnswered, ProbeUnanswered, Listen,
         ListenFails, StartTor, StartTorFails, TorReady, TorNotReady,
         CloseServer, ShutdownTor, BecomeServer
<1>3. CASE Return(n, t)
  BY <1>0, <1>3 DEF Return, Goto, Types, FailsCounted
<1>4. ASSUME UNCHANGED fails,
             NEW l \in {"listen", "start", "starting", "publish", "close",
                        "shutdown"},
             Goto(n, t, l)
      PROVE  FailsCounted'
  BY <1>0, <1>1, <1>4 DEF Goto, Types, FailsCounted
<1> QED
  BY <1>2, <1>3, <1>4

LEMMA EnvironmentCounted ==
  ASSUME Types, FailsCounted, NEW n \in Node, Environment(n)
  PROVE  FailsCounted'
<1>1. CASE \/ Publish(n) \/ TorDies(n) \/ Start(n) \/ Signal(n)
           \/ CleanUpTor(n) \/ TearDown(n) \/ CloseRegistry(n)
  BY <1>1, SameCount
     DEF Publish, TorDies, Start, Signal, CleanUpTor, TearDown,
         CloseRegistry, Types
<1>2. CASE Crash(n) \/ Exit(n)
  BY <1>2 DEF Crash, Exit, Gone, Fresh, Types, FailsCounted
<1> QED
  BY <1>1, <1>2 DEF Environment

LEMMA NextCounted ==
  Types /\ FailsCounted /\ [Next]_vars => FailsCounted'
<1> SUFFICES ASSUME Types, FailsCounted, [Next]_vars
             PROVE  FailsCounted'
  OBVIOUS
<1>1. CASE UNCHANGED vars
  BY <1>1, SameCount DEF vars
<1> QED
  BY <1>1, RoundCounted, HostingCounted, EnvironmentCounted DEF Next

(* Every variable of every process keeps to its type, and the failed       *)
(* rounds are counted anew after every failover attempt.                   *)
THEOREM TypeCorrect == Spec => []TypeOK
BY InitType, NextType, InitCounted, NextCounted, PTL DEF Spec, TypeOK

-----------------------------------------------------------------------------
LEMMA InitHost == Init => HostInv
BY InitType
   DEF Init, HostInv, HostParts, WindowHasPort, TearingHasPort,
       ServerHasRegistry, TorHasRegistry, Fresh, Window, Thread

(* Where thread t goes, and that nobody else moves. *)
LEMMA Moves ==
  ASSUME Types, NEW n \in Node, NEW t \in Thread, NEW l,
         Goto(n, t, l)
  PROVE  /\ pc'[n][t] = l
         /\ \A m \in Node, s \in Thread :
              ~(m = n /\ s = t) => pc'[m][s] = pc[m][s]
BY DEF Goto, Types

LEMMA ReturnMoves ==
  ASSUME Types, NEW n \in Node, NEW t \in Thread, Return(n, t)
  PROVE  /\ pc'[n][t] \in {"round", "done"}
         /\ \A m \in Node, s \in Thread :
              ~(m = n /\ s = t) => pc'[m][s] = pc[m][s]
BY DEF Return, Goto, Types

(* Steps that leave the port, the tor and the URL alone, and bring no      *)
(* thread into the window or out of its shutdown.                          *)
LEMMA QuietHost ==
  ASSUME HostInv,
         UNCHANGED <<ctxDone, listener, cmd, localURL, tearing>>,
         \A m \in Node, s \in Thread :
           /\ pc'[m][s] \in Window => pc[m][s] \in Window
           /\ pc[m][s] = "shutdown" => pc'[m][s] = "shutdown"
  PROVE  HostParts'
<1> USE DEF HostInv, HostParts
<1>1. WindowHasPort' /\ TearingHasPort'
  BY DEF WindowHasPort, TearingHasPort
<1>2. ServerHasRegistry'
  BY DEF ServerHasRegistry
<1>3. TorHasRegistry'
  BY DEF TorHasRegistry
<1> QED
  BY <1>1, <1>2, <1>3

LEMMA RoundHost ==
  ASSUME HostInv, NEW n \in Node, Round(n)
  PROVE  HostParts'
<1>1. UNCHANGED <<ctxDone, listener, cmd, localURL, tearing>>
  BY DEF Round, Join, JoinFails, RoundSucceeds, RoundFails, Recovered,
         StartFailover, JitterEnds
<1>2. \/ UNCHANGED pc
      \/ /\ pc[n]["main"] \in {"join", "round", "jitter"}
         /\ \E l \in {"round", "jitter", "probe"} : Goto(n, "main", l)
  BY DEF Round, Join, JoinFails, RoundSucceeds, RoundFails, Recovered,
         StartFailover, JitterEnds, At
<1>3. Types /\ "main" \in Thread
  BY DEF HostInv, Thread
<1>4. \A m \in Node, t \in Thread :
        /\ pc'[m][t] \in Window => pc[m][t] \in Window
        /\ pc[m][t] = "shutdown" => pc'[m][t] = "shutdown"
  BY <1>2, <1>3, Moves DEF Window
<1> QED
  BY <1>1, <1>4, QuietHost

LEMMA HostingHost ==
  ASSUME HostInv, NEW n \in Node, NEW t \in Thread, BecomeOnionServer(n, t)
  PROVE  HostParts'
<1>0. /\ Types /\ WindowHasPort /\ TearingHasPort
      /\ ServerHasRegistry /\ TorHasRegistry
  BY DEF HostInv, HostParts
<1>1. CASE ProbeAnswered(n, t) \/ ListenFails(n, t)
  <2>1. UNCHANGED <<ctxDone, listener, cmd, localURL, tearing>>
    BY <1>1 DEF ProbeAnswered, ListenFails
  <2>2. pc[n][t] \in {"probe", "listen"} /\ Return(n, t)
    BY <1>1 DEF ProbeAnswered, ListenFails, At
  <2>3. \A m \in Node, s \in Thread :
          /\ pc'[m][s] \in Window => pc[m][s] \in Window
          /\ pc[m][s] = "shutdown" => pc'[m][s] = "shutdown"
    BY <1>0, <2>2, ReturnMoves DEF Window
  <2> QED
    BY <2>1, <2>3, QuietHost
<1>2. CASE \/ ProbeUnanswered(n, t) \/ StartTorFails(n, t)
           \/ TorReady(n, t) \/ TorNotReady(n, t)
  <2>1. UNCHANGED <<ctxDone, listener, cmd, localURL, tearing>>
    BY <1>2 DEF ProbeUnanswered, StartTorFails, TorReady, TorNotReady
  <2>2. \/ pc[n][t] = "probe" /\ Goto(n, t, "listen")
        \/ /\ pc[n][t] \in {"start", "starting"}
           /\ \E l \in {"close", "publish"} : Goto(n, t, l)
    BY <1>2 DEF ProbeUnanswered, StartTorFails, TorReady, TorNotReady, At
  <2>3. \A m \in Node, s \in Thread :
          /\ pc'[m][s] \in Window => pc[m][s] \in Window
          /\ pc[m][s] = "shutdown" => pc'[m][s] = "shutdown"
    BY <1>0, <2>2, Moves DEF Window
  <2> QED
    BY <2>1, <2>3, QuietHost
<1>3. CASE Listen(n, t)
  <2>1. /\ listener[n] = None /\ pc[n][t] = "listen"
        /\ Goto(n, t, "start")
        /\ listener' = [listener EXCEPT ![n] = t]
        /\ UNCHANGED <<ctxDone, cmd, localURL, tearing>>
    BY <1>3 DEF Listen, At
  <2>2. ~localURL[n] /\ \A s \in Thread : pc[n][s] \notin Window
    BY <1>0, <2>1, OnionAssumption DEF WindowHasPort, ServerHasRegistry
  <2>3. listener'[n] = t /\ \A m \in Node : m # n => listener'[m] = listener[m]
    BY <1>0, <2>1 DEF Types
  <2>4. \A m \in Node, s \in Thread : ~(m = n /\ s = t) => pc'[m][s] = pc[m][s]
    BY <1>0, <2>1, Moves
  <2>5. WindowHasPort'
    BY <1>0, <2>1, <2>2, <2>3, <2>4 DEF WindowHasPort
  <2>6. ServerHasRegistry'
    BY <1>0, <2>1, <2>2, <2>3 DEF ServerHasRegistry
  <2>7. t # None
    BY OnionAssumption
  <2>8. TorHasRegistry'
    BY <1>0, <2>1, <2>3, <2>4, <2>7 DEF TorHasRegistry
  <2>9. TearingHasPort'
    BY <1>0, <2>1, <2>3, <2>4 DEF TearingHasPort
  <2> QED
    BY <2>5, <2>6, <2>8, <2>9 DEF HostParts
<1>4. CASE StartTor(n, t)
  <2>1. /\ pc[n][t] = "start" /\ Goto(n, t, "starting")
        /\ cmd' = [cmd EXCEPT ![n] = TRUE]
        /\ UNCHANGED <<ctxDone, listener, localURL, tearing>>
    BY <1>4 DEF StartTor, At
  <2>2. /\ pc'[n][t] = "starting"
        /\ \A m \in Node, s \in Thread :
             ~(m = n /\ s = t) => pc'[m][s] = pc[m][s]
    BY <1>0, <2>1, Moves
  <2>3. listener[n] = t /\ ~localURL[n] /\ listener[n] # None
    BY <1>0, <2>1, OnionAssumption DEF WindowHasPort, Window
  <2>4. \A m \in Node : m # n => cmd'[m] = cmd[m]
    BY <1>0, <2>1 DEF Types
  <2>5. WindowHasPort'
    BY <1>0, <2>1, <2>2, <2>3 DEF WindowHasPort
  <2>6. ServerHasRegistry'
    BY <1>0, <2>1 DEF ServerHasRegistry
  <2>7. TorHasRegistry'
    BY <1>0, <2>1, <2>2, <2>3, <2>4 DEF TorHasRegistry
  <2>8. TearingHasPort'
    BY <1>0, <2>1, <2>2 DEF TearingHasPort, Window
  <2> QED
    BY <2>5, <2>6, <2>7, <2>8 DEF HostParts
<1>5. CASE CloseServer(n, t)
  <2>1. /\ pc[n][t] = "close" /\ Goto(n, t, "shutdown")
        /\ listener' = [listener EXCEPT ![n] = None]
        /\ UNCHANGED <<ctxDone, cmd, localURL, tearing>>
    BY <1>5 DEF CloseServer, At
  <2>2. /\ pc'[n][t] = "shutdown"
        /\ \A m \in Node, s \in Thread :
             ~(m = n /\ s = t) => pc'[m][s] = pc[m][s]
    BY <1>0, <2>1, Moves
  <2>3. /\ ~localURL[n]
        /\ \A s \in Thread : s # t => pc[n][s] \notin Window
    BY <1>0, <2>1 DEF WindowHasPort, Window
  <2>4. \A m \in Node : m # n => listener'[m] = listener[m]
    BY <1>0, <2>1 DEF Types
  <2>5. WindowHasPort'
    BY <1>0, <2>1, <2>2, <2>3, <2>4 DEF WindowHasPort, Window
  <2>6. ServerHasRegistry'
    BY <1>0, <2>1, <2>3, <2>4 DEF ServerHasRegistry
  <2>7. TorHasRegistry'
    BY <1>0, <2>1, <2>2, <2>4 DEF TorHasRegistry
  <2>8. TearingHasPort'
    BY <1>0, <2>1, <2>2, <2>4 DEF TearingHasPort, Window
  <2> QED
    BY <2>5, <2>6, <2>7, <2>8 DEF HostParts
<1>6. CASE ShutdownTor(n, t)
  <2>1. /\ pc[n][t] = "shutdown" /\ Return(n, t)
        /\ cmd' = [cmd EXCEPT ![n] = FALSE]
        /\ UNCHANGED <<ctxDone, listener, localURL, tearing>>
    BY <1>6 DEF ShutdownTor, KillTor, At
  <2>2. /\ pc'[n][t] \in {"round", "done"}
        /\ \A m \in Node, s \in Thread :
             ~(m = n /\ s = t) => pc'[m][s] = pc[m][s]
    BY <1>0, <2>1, ReturnMoves
  <2>3. ~cmd'[n] /\ \A m \in Node : m # n => cmd'[m] = cmd[m]
    BY <1>0, <2>1 DEF Types
  <2>4. WindowHasPort'
    BY <1>0, <2>1, <2>2 DEF WindowHasPort, Window
  <2>5. ServerHasRegistry'
    BY <1>0, <2>1 DEF ServerHasRegistry
  <2>6. TorHasRegistry'
    BY <1>0, <2>1, <2>2, <2>3 DEF TorHasRegistry
  <2>7. TearingHasPort'
    BY <1>0, <2>1, <2>2 DEF TearingHasPort, Window
  <2> QED
    BY <2>4, <2>5, <2>6, <2>7 DEF HostParts
<1>7. CASE BecomeServer(n, t)
  <2>1. /\ pc[n][t] = "publish" /\ Return(n, t)
        /\ localURL' = [localURL EXCEPT ![n] = TRUE]
        /\ UNCHANGED <<ctxDone, listener, cmd, tearing>>
    BY <1>7 DEF BecomeServer, At
  <2>2. /\ pc'[n][t] \in {"round", "done"}
        /\ \A m \in Node, s \in Thread :
             ~(m = n /\ s = t) => pc'[m][s] = pc[m][s]
    BY <1>0, <2>1, ReturnMoves
  <2>3. /\ listener[n] # None
        /\ \A s \in Thread : s # t => pc[n][s] \notin Window
    BY <1>0, <2>1, OnionAssumption DEF WindowHasPort, Window
  <2>4. \A m \in Node : m # n => localURL'[m] = localURL[m]
    BY <1>0, <2>1 DEF Types
  <2>5. WindowHasPort'
    BY <1>0, <2>1, <2>2, <2>3, <2>4 DEF WindowHasPort, Window
  <2>6. ServerHasRegistry'
    BY <1>0, <2>1, <2>3, <2>4 DEF ServerHasRegistry
  <2>7. TorHasRegistry'
    BY <1>0, <2>1, <2>2, <2>3 DEF TorHasRegistry
  <2>8. TearingHasPort'
    BY <1>0, <2>1, <2>2, <2>4 DEF TearingHasPort, Window
  <2> QED
    BY <2>5, <2>6, <2>7, <2>8 DEF HostParts
<1> QED
  BY <1>1, <1>2, <1>3, <1>4, <1>5, <1>6, <1>7 DEF BecomeOnionServer

LEMMA GoneHost ==
  ASSUME HostInv, NEW n \in Node, Gone(n)
  PROVE  HostParts'
<1>1. /\ \A t \in Thread : pc'[n][t] \notin Window
      /\ ~localURL'[n] /\ ~cmd'[n] /\ ~tearing'[n]
  BY DEF Gone, HostInv, Types, Fresh, Thread, Window
<1>2. \A m \in Node :
        m # n => /\ pc'[m] = pc[m] /\ localURL'[m] = localURL[m]
                 /\ cmd'[m] = cmd[m] /\ listener'[m] = listener[m]
                 /\ ctxDone'[m] = ctxDone[m]
                 /\ tearing'[m] = tearing[m]
  BY DEF Gone, HostInv, Types
<1> USE DEF HostInv, HostParts
<1>3. WindowHasPort' /\ TearingHasPort'
  BY <1>1, <1>2 DEF WindowHasPort, TearingHasPort
<1>4. ServerHasRegistry'
  BY <1>1, <1>2 DEF ServerHasRegistry
<1>5. TorHasRegistry'
  BY <1>1, <1>2 DEF TorHasRegistry
<1> QED
  BY <1>3, <1>4, <1>5

LEMMA EnvironmentHost ==
  ASSUME HostInv, NEW n \in Node, Environment(n)
  PROVE  HostParts'
<1>0. /\ Types /\ WindowHasPort /\ TearingHasPort
      /\ ServerHasRegistry /\ TorHasRegistry
  BY DEF HostInv, HostParts
<1>1. CASE Publish(n) \/ TorDies(n) \/ Start(n)
  BY <1>1, QuietHost DEF Publish, TorDies, Start
<1>2. CASE Crash(n) \/ Exit(n)
  BY <1>2, GoneHost DEF Crash, Exit
<1>3. CASE Signal(n) \/ CleanUpTor(n)
  <2>1. UNCHANGED <<pc, listener, localURL, tearing>>
    BY <1>3 DEF Signal, CleanUpTor
  <2>2. \A m \in Node : /\ cmd'[m] /\ ~ctxDone'[m] => cmd[m] /\ ~ctxDone[m]
                        /\ ctxDone[m] => ctxDone'[m]
    BY <1>0, <1>3 DEF Signal, CleanUpTor, KillTor, Types
  <2>3. WindowHasPort' /\ ServerHasRegistry'
    BY <1>0, <2>1 DEF WindowHasPort, ServerHasRegistry
  <2>4. TearingHasPort' /\ TorHasRegistry'
    BY <1>0, <2>1, <2>2 DEF TearingHasPort, TorHasRegistry
  <2> QED
    BY <2>3, <2>4 DEF HostParts
<1>4. CASE TearDown(n)
  <2>1. /\ ctxDone[n] /\ localURL[n] /\ ~localURL'[n]
        /\ UNCHANGED <<ctxDone, pc, cmd, listener>>
        /\ \A m \in Node : m # n => /\ tearing'[m] = tearing[m]
                                    /\ localURL'[m] = localURL[m]
    BY <1>0, <1>4 DEF TearDown, Types
  <2>2. /\ \A t \in Thread : pc[n][t] \notin Window
        /\ listener[n] # None
    BY <1>0, <2>1 DEF WindowHasPort, ServerHasRegistry
  <2>3. WindowHasPort'
    BY <1>0, <2>1, <2>2 DEF WindowHasPort
  <2>4. TearingHasPort'
    BY <1>0, <2>1, <2>2 DEF TearingHasPort
  <2>5. ServerHasRegistry' /\ TorHasRegistry'
    BY <1>0, <2>1 DEF ServerHasRegistry, TorHasRegistry
  <2> QED
    BY <2>3, <2>4, <2>5 DEF HostParts
<1>5. CASE CloseRegistry(n)
  <2>1. /\ tearing[n] /\ ~tearing'[n]
        /\ UNCHANGED <<ctxDone, pc, cmd, localURL>>
        /\ \A m \in Node : m # n => /\ tearing'[m] = tearing[m]
                                    /\ listener'[m] = listener[m]
    BY <1>0, <1>5 DEF CloseRegistry, Types
  <2>2. /\ ctxDone[n] /\ ~localURL[n]
        /\ \A t \in Thread : pc[n][t] \notin Window
    BY <1>0, <2>1 DEF TearingHasPort
  <2>3. WindowHasPort'
    BY <1>0, <2>1, <2>2 DEF WindowHasPort
  <2>4. TearingHasPort'
    BY <1>0, <2>1 DEF TearingHasPort
  <2>5. ServerHasRegistry' /\ TorHasRegistry'
    BY <1>0, <2>1, <2>2 DEF ServerHasRegistry, TorHasRegistry
  <2> QED
    BY <2>3, <2>4, <2>5 DEF HostParts
<1> QED
  BY <1>1, <1>2, <1>3, <1>4, <1>5 DEF Environment

LEMMA NextHost == HostInv /\ [Next]_vars => HostInv'
<1> SUFFICES ASSUME HostInv, [Next]_vars
             PROVE  HostInv'
  OBVIOUS
<1>1. Types'
  BY NextType DEF HostInv
<1>2. CASE UNCHANGED vars
  <2>1. HostParts'
    BY <1>2, QuietHost DEF vars
  <2> QED
    BY <1>1, <2>1 DEF HostInv
<1> QED
  BY <1>1, <1>2, RoundHost, HostingHost, EnvironmentHost DEF Next, HostInv

LEMMA HostInvariant == Spec => []HostInv
BY InitHost, NextHost, PTL DEF Spec

(* The fixed local port is what keeps the startup thread and the main      *)
(* thread of a peer apart.                                                 *)
THEOREM OneThread == Spec => []OneThreadStarts
<1>1. HostInv => OneThreadStarts
  <2> SUFFICES ASSUME HostInv, NEW n \in Node,
                      \A t \in Thread : pc[n][t] \in Window
               PROVE  FALSE
    BY DEF OneThreadStarts, Window
  <2>1. \A t \in Thread : listener[n] = t
    BY DEF HostInv, HostParts, WindowHasPort
  <2> QED
    BY <2>1 DEF Thread
<1> QED
  BY <1>1, HostInvariant, PTL

(* localURL is only set while the HTTP server it names is up. *)
THEOREM ServerReachesItself == Spec => []ServerHasRegistry
BY HostInvariant, PTL DEF HostInv, HostParts

(* A tor started by a running process has the registry's HTTP server       *)
(* behind it, or is about to be shut down.                                 *)
THEOREM TorServesRegistry == Spec => []TorHasRegistry
BY HostInvariant, PTL DEF HostInv, HostParts
=============================================================================
