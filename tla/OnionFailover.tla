---------------------------- MODULE OnionFailover ---------------------------
(***************************************************************************)
(* Who hosts the registry in tor/.  Every peer runs two threads that may   *)
(* call becomeOnionServer: tryStartGroupOnionServer at startup, and the    *)
(* main thread, startTorBootstrap, when its rounds keep failing.  Hosting  *)
(* takes an HTTP server on a fixed local port and a dedicated tor process, *)
(* guarded by staticOnionProcess.mu, that publishes the group's onion.     *)
(*                                                                         *)
(* External: the tor network.  The onion address leads to the peer whose   *)
(* tor published its descriptor last; any running tor may publish at any   *)
(* time.                                                                   *)
(***************************************************************************)
EXTENDS Naturals

CONSTANTS
  Node,
  None,
  FailoverAfter,  \* failed rounds before a failover (3 in the code)
  Faults,         \* the faults that may happen (see FaultKind)
  MaxFaults       \* bound: how many of them happen in one behaviour

FaultKind == {"net", "start", "torDies", "crash", "signal"}

Thread == {"startup", "main"}

ASSUME OnionAssumption ==
  /\ None \notin Node \union Thread
  /\ FailoverAfter \in Nat \ {0}
  /\ Faults \subseteq FaultKind
  /\ MaxFaults \in Nat

VARIABLES
  up,        \* up[n]: the process of n runs
  ctxDone,   \* ctxDone[n]: it has received SIGINT or SIGTERM
  pc,        \* pc[n][t]: where thread t of n is
  listener,  \* listener[n]: the thread whose HTTP server has the port
  mu,        \* mu[n]: the thread inside ensureRunning
  cmd,       \* cmd[n]: staticOnionProcess.cmd is set
  torUp,     \* torUp[n]: a dedicated tor process runs on n's machine
  localURL,  \* localURL[n]: peerRegistry.localURL is set
  tearing,   \* tearing[n]: it has been cleared, the server is to be closed
  fails,     \* fails[n]: consecutiveFailures, up to FailoverAfter
  hsdir,     \* the peer whose descriptor the onion address leads to
  faults     \* faults that may still happen

vars == <<up, ctxDone, pc, listener, mu, cmd, torUp, localURL, tearing, fails,
          hsdir, faults>>

(* "join": waiting for the first registration; "round": between rounds;    *)
(* "jitter": before a failover; the others are in becomeOnionServer, in    *)
(* the order probe, listen, start, starting, publish or close, shutdown.   *)
PC == {"join", "round", "jitter", "probe", "listen", "start", "starting",
       "publish", "close", "shutdown", "done"}

Fresh == [startup |-> "probe", main |-> "join"]

Init ==
  /\ up = [n \in Node |-> TRUE]
  /\ ctxDone = [n \in Node |-> FALSE]
  /\ pc = [n \in Node |-> Fresh]
  /\ listener = [n \in Node |-> None]
  /\ mu = [n \in Node |-> None]
  /\ cmd = [n \in Node |-> FALSE]
  /\ torUp = [n \in Node |-> FALSE]
  /\ localURL = [n \in Node |-> FALSE]
  /\ tearing = [n \in Node |-> FALSE]
  /\ fails = [n \in Node |-> 0]
  /\ hsdir = None
  /\ faults = MaxFaults

Fault(kind) == /\ kind \in Faults
               /\ faults > 0
               /\ faults' = faults - 1

(* Thread t of n is at l. *)
At(n, t, l) == up[n] /\ pc[n][t] = l

Goto(n, t, l) == pc' = [pc EXCEPT ![n][t] = l]

-----------------------------------------------------------------------------
(* GET / through tor: somebody's tor and HTTP server answer. *)
OnionReachable ==
  /\ hsdir # None
  /\ torUp[hsdir]
  /\ listener[hsdir] # None

(* registryClient: the registry on localhost if this peer is the server,   *)
(* and through tor otherwise.                                              *)
RegistryAnswers(n) == IF localURL[n] THEN listener[n] # None
                      ELSE OnionReachable

(* A request fails because nobody answers, or because of the network. *)
Unanswered(answers) == \/ ~answers /\ UNCHANGED faults
                       \/ Fault("net")

(* The register-wait loop of startTorBootstrap ends when a registration    *)
(* succeeds; there is no failover before.                                  *)
Join(n) ==
  /\ At(n, "main", "join")
  /\ RegistryAnswers(n)
  /\ Goto(n, "main", "round")
  /\ UNCHANGED <<up, ctxDone, listener, mu, cmd, torUp, localURL, tearing,
                 fails, hsdir, faults>>

JoinFails(n) ==
  /\ At(n, "main", "join")
  /\ Unanswered(RegistryAnswers(n))
  /\ UNCHANGED <<up, ctxDone, pc, listener, mu, cmd, torUp, localURL, tearing,
                 fails, hsdir>>

(* doRound: register, then fetch the peers.  One success is enough, and it *)
(* could as well have been found just before or after, so one step stands  *)
(* for both requests.                                                      *)
RoundSucceeds(n) ==
  /\ At(n, "main", "round")
  /\ RegistryAnswers(n)
  /\ fails' = [fails EXCEPT ![n] = 0]
  /\ UNCHANGED <<up, ctxDone, pc, listener, mu, cmd, torUp, localURL, tearing,
                 hsdir, faults>>

(* A failure is counted.  The code asks only whether there have been three *)
(* or more; a fourth is possible after a signal alone (see JitterEnds).    *)
OneMore(k) == IF k = FailoverAfter THEN k ELSE k + 1

RoundFails(n) ==
  /\ At(n, "main", "round")
  /\ Unanswered(RegistryAnswers(n))
  /\ fails' = [fails EXCEPT ![n] = OneMore(@)]
  /\ IF fails'[n] >= FailoverAfter THEN Goto(n, "main", "jitter")
     ELSE UNCHANGED pc
  /\ UNCHANGED <<up, ctxDone, listener, mu, cmd, torUp, localURL, tearing,
                 hsdir>>

(* After the jitter: the onion has recovered, or failover starts. *)
Recovered(n) ==
  /\ At(n, "main", "jitter")
  /\ OnionReachable
  /\ fails' = [fails EXCEPT ![n] = 0]
  /\ Goto(n, "main", "round")
  /\ UNCHANGED <<up, ctxDone, listener, mu, cmd, torUp, localURL, tearing,
                 hsdir, faults>>

StartFailover(n) ==
  /\ At(n, "main", "jitter")
  /\ Unanswered(OnionReachable)
  /\ Goto(n, "main", "probe")
  /\ UNCHANGED <<up, ctxDone, listener, mu, cmd, torUp, localURL, tearing,
                 fails, hsdir>>

(* A signal ends the jitter, and doRound, with the failures still counted; *)
(* the loop may find the ticker before it finds the context done.          *)
JitterEnds(n) ==
  /\ At(n, "main", "jitter")
  /\ ctxDone[n]
  /\ Goto(n, "main", "round")
  /\ UNCHANGED <<up, ctxDone, listener, mu, cmd, torUp, localURL, tearing,
                 fails, hsdir, faults>>

-----------------------------------------------------------------------------
(* Mutant of Return: consecutiveFailures is not reset. *)
MutReturnKeepsFails(n, t) ==
  /\ Goto(n, t, IF t = "main" THEN "round" ELSE "done")
  /\ UNCHANGED fails

(* becomeOnionServer returns: the startup thread ends, the main thread     *)
(* resets consecutiveFailures and goes on with its rounds.                 *)
Return(n, t) ==
  /\ Goto(n, t, IF t = "main" THEN "round" ELSE "done")
  /\ fails' = IF t = "main" THEN [fails EXCEPT ![n] = 0] ELSE fails

(* probeOnionWithRetry, with a single attempt. *)
ProbeAnswered(n, t) ==
  /\ At(n, t, "probe")
  /\ OnionReachable \/ ctxDone[n]
  /\ Return(n, t)
  /\ UNCHANGED <<up, ctxDone, listener, mu, cmd, torUp, localURL, tearing,
                 hsdir, faults>>

ProbeUnanswered(n, t) ==
  /\ At(n, t, "probe")
  /\ ~ctxDone[n]
  /\ Unanswered(OnionReachable)
  /\ Goto(n, t, "listen")
  /\ UNCHANGED <<up, ctxDone, listener, mu, cmd, torUp, localURL, tearing,
                 fails, hsdir>>

(* Mutant of Listen: the port can be bound twice. *)
MutListenShared(n, t) ==
  /\ At(n, t, "listen")
  /\ listener' = [listener EXCEPT ![n] = t]
  /\ Goto(n, t, "start")
  /\ UNCHANGED <<up, ctxDone, mu, cmd, torUp, localURL, tearing, fails, hsdir,
                 faults>>

(* net.Listen on the fixed port, then Serve in a goroutine. *)
Listen(n, t) ==
  /\ At(n, t, "listen")
  /\ listener[n] = None
  /\ listener' = [listener EXCEPT ![n] = t]
  /\ Goto(n, t, "start")
  /\ UNCHANGED <<up, ctxDone, mu, cmd, torUp, localURL, tearing, fails, hsdir,
                 faults>>

(* The port is taken, by the other thread or by something else. *)
ListenFails(n, t) ==
  /\ At(n, t, "listen")
  /\ \/ listener[n] # None /\ UNCHANGED faults
     \/ Fault("start")
  /\ Return(n, t)
  /\ UNCHANGED <<up, ctxDone, listener, mu, cmd, torUp, localURL, tearing,
                 hsdir>>

(* Mutant of StartTor: a leftover tor is not killed and holds the port. *)
MutStartTorKeepsOld(n, t) ==
  /\ At(n, t, "start")
  /\ mu[n] = None /\ ~torUp[n]
  /\ mu' = [mu EXCEPT ![n] = t]
  /\ cmd' = [cmd EXCEPT ![n] = TRUE]
  /\ torUp' = [torUp EXCEPT ![n] = TRUE]
  /\ Goto(n, t, "starting")
  /\ UNCHANGED <<up, ctxDone, listener, localURL, tearing, fails, hsdir,
                 faults>>

(* ensureRunning takes the mutex, kills a leftover tor, starts a new one   *)
(* and waits, still holding the mutex, for it to be ready.                 *)
StartTor(n, t) ==
  /\ At(n, t, "start")
  /\ mu[n] = None
  /\ mu' = [mu EXCEPT ![n] = t]
  /\ cmd' = [cmd EXCEPT ![n] = TRUE]
  /\ torUp' = [torUp EXCEPT ![n] = TRUE]
  /\ Goto(n, t, "starting")
  /\ UNCHANGED <<up, ctxDone, listener, localURL, tearing, fails, hsdir,
                 faults>>

(* ensureRunning fails before it starts tor: the files, or the exec, when  *)
(* a leftover tor has been killed already.                                 *)
StartTorFails(n, t) ==
  /\ At(n, t, "start")
  /\ mu[n] = None
  /\ Fault("start")
  /\ torUp' \in {torUp, [torUp EXCEPT ![n] = FALSE]}
  /\ Goto(n, t, "close")
  /\ UNCHANGED <<up, ctxDone, listener, mu, cmd, localURL, tearing, fails,
                 hsdir>>

TorReady(n, t) ==
  /\ At(n, t, "starting")
  /\ torUp[n]
  /\ mu' = [mu EXCEPT ![n] = None]
  /\ Goto(n, t, "publish")
  /\ UNCHANGED <<up, ctxDone, listener, cmd, torUp, localURL, tearing, fails,
                 hsdir, faults>>

(* tor has exited early, or is not ready within 20 s (and runs on). *)
TorNotReady(n, t) ==
  /\ At(n, t, "starting")
  /\ \/ ~torUp[n] /\ UNCHANGED faults
     \/ Fault("start")
  /\ mu' = [mu EXCEPT ![n] = None]
  /\ Goto(n, t, "close")
  /\ UNCHANGED <<up, ctxDone, listener, cmd, torUp, localURL, tearing, fails,
                 hsdir>>

(* Mutant of CloseServer: tor is not shut down afterwards. *)
MutCloseServerOnly(n, t) ==
  /\ At(n, t, "close")
  /\ listener' = [listener EXCEPT ![n] = None]
  /\ Return(n, t)
  /\ UNCHANGED <<up, ctxDone, mu, cmd, torUp, localURL, tearing, hsdir,
                 faults>>

CloseServer(n, t) ==
  /\ At(n, t, "close")
  /\ listener' = [listener EXCEPT ![n] = None]
  /\ Goto(n, t, "shutdown")
  /\ UNCHANGED <<up, ctxDone, mu, cmd, torUp, localURL, tearing, fails, hsdir,
                 faults>>

(* staticOnionProcess.shutdown. *)
KillTor(n) ==
  /\ mu[n] = None
  /\ cmd' = [cmd EXCEPT ![n] = FALSE]
  /\ torUp' = IF cmd[n] THEN [torUp EXCEPT ![n] = FALSE] ELSE torUp

ShutdownTor(n, t) ==
  /\ At(n, t, "shutdown")
  /\ KillTor(n)
  /\ Return(n, t)
  /\ UNCHANGED <<up, ctxDone, listener, mu, localURL, tearing, hsdir, faults>>

(* This peer is the server now.  The main thread registers with itself,    *)
(* which leaves the state as it is.                                        *)
BecomeServer(n, t) ==
  /\ At(n, t, "publish")
  /\ localURL' = [localURL EXCEPT ![n] = TRUE]
  /\ Return(n, t)
  /\ UNCHANGED <<up, ctxDone, listener, mu, cmd, torUp, tearing, hsdir,
                 faults>>

-----------------------------------------------------------------------------
(* A running tor publishes the onion's descriptor. *)
Publish(n) ==
  /\ torUp[n]
  /\ hsdir' = n
  /\ UNCHANGED <<up, ctxDone, pc, listener, mu, cmd, torUp, localURL, tearing,
                 fails, faults>>

(* The dedicated tor process exits by itself; nobody waits for it. *)
TorDies(n) ==
  /\ Fault("torDies")
  /\ torUp[n]
  /\ torUp' = [torUp EXCEPT ![n] = FALSE]
  /\ UNCHANGED <<up, ctxDone, pc, listener, mu, cmd, localURL, tearing, fails,
                 hsdir>>

(* The process ends.  Its HTTP server ends with it, its tor does not. *)
Gone(n) ==
  /\ up' = [up EXCEPT ![n] = FALSE]
  /\ ctxDone' = [ctxDone EXCEPT ![n] = FALSE]
  /\ pc' = [pc EXCEPT ![n] = Fresh]
  /\ listener' = [listener EXCEPT ![n] = None]
  /\ mu' = [mu EXCEPT ![n] = None]
  /\ cmd' = [cmd EXCEPT ![n] = FALSE]
  /\ localURL' = [localURL EXCEPT ![n] = FALSE]
  /\ tearing' = [tearing EXCEPT ![n] = FALSE]
  /\ fails' = [fails EXCEPT ![n] = 0]
  /\ UNCHANGED <<torUp, hsdir>>

Crash(n) == /\ up[n]
            /\ Fault("crash")
            /\ Gone(n)

(* SIGINT or SIGTERM. *)
Signal(n) ==
  /\ Fault("signal")
  /\ up[n] /\ ~ctxDone[n]
  /\ ctxDone' = [ctxDone EXCEPT ![n] = TRUE]
  /\ UNCHANGED <<up, pc, listener, mu, cmd, torUp, localURL, tearing, fails,
                 hsdir>>

(* The goroutines of becomeOnionServer that wait for ctx.Done kill tor. *)
CleanUpTor(n) ==
  /\ up[n] /\ ctxDone[n]
  /\ KillTor(n)
  /\ UNCHANGED <<up, ctxDone, pc, listener, mu, localURL, tearing, fails,
                 hsdir, faults>>

(* Mutant of TearDown: the server is closed first. *)
MutTearDownCloses(n) ==
  /\ up[n] /\ ctxDone[n] /\ localURL[n]
  /\ listener' = [listener EXCEPT ![n] = None]
  /\ tearing' = [tearing EXCEPT ![n] = TRUE]
  /\ UNCHANGED <<up, ctxDone, pc, mu, cmd, torUp, localURL, fails, hsdir,
                 faults>>

(* The goroutine of the server that waits for ctx.Done: localURL first ... *)
TearDown(n) ==
  /\ up[n] /\ ctxDone[n] /\ localURL[n]
  /\ localURL' = [localURL EXCEPT ![n] = FALSE]
  /\ tearing' = [tearing EXCEPT ![n] = TRUE]
  /\ UNCHANGED <<up, ctxDone, pc, listener, mu, cmd, torUp, fails, hsdir,
                 faults>>

(* ... and then the server behind it. *)
CloseRegistry(n) ==
  /\ up[n] /\ tearing[n]
  /\ listener' = [listener EXCEPT ![n] = None]
  /\ tearing' = [tearing EXCEPT ![n] = FALSE]
  /\ UNCHANGED <<up, ctxDone, pc, mu, cmd, torUp, localURL, fails, hsdir,
                 faults>>

(* The main thread sees ctx.Done and returns: the process exits, whatever  *)
(* the goroutines have done by then.                                       *)
Exit(n) ==
  /\ up[n] /\ ctxDone[n]
  /\ pc[n]["main"] \in {"join", "round"}
  /\ Gone(n)
  /\ UNCHANGED faults

(* The program is started again. *)
Start(n) ==
  /\ ~up[n]
  /\ up' = [up EXCEPT ![n] = TRUE]
  /\ UNCHANGED <<ctxDone, pc, listener, mu, cmd, torUp, localURL, tearing,
                 fails, hsdir, faults>>

-----------------------------------------------------------------------------
Round(n) == \/ Join(n) \/ JoinFails(n)
            \/ RoundSucceeds(n) \/ RoundFails(n)
            \/ Recovered(n) \/ StartFailover(n) \/ JitterEnds(n)

BecomeOnionServer(n, t) ==
  \/ ProbeAnswered(n, t) \/ ProbeUnanswered(n, t)
  \/ Listen(n, t) \/ ListenFails(n, t)
  \/ StartTor(n, t) \/ StartTorFails(n, t)
  \/ TorReady(n, t) \/ TorNotReady(n, t)
  \/ CloseServer(n, t) \/ ShutdownTor(n, t)
  \/ BecomeServer(n, t)

Environment(n) ==
  \/ Publish(n) \/ TorDies(n)
  \/ Crash(n) \/ Start(n)
  \/ Signal(n) \/ CleanUpTor(n) \/ TearDown(n) \/ CloseRegistry(n)
  \/ Exit(n)

Next == \E n \in Node : \/ Round(n)
                        \/ \E t \in Thread : BecomeOnionServer(n, t)
                        \/ Environment(n)

Spec == Init /\ [][Next]_vars

(* Both threads and the tor network keep working.  A process that has been *)
(* told to stop stops: each select that finds the context done may choose  *)
(* the ticker instead, but not for ever.                                   *)
Fairness ==
  \A n \in Node :
    /\ WF_vars(Round(n))
    /\ \A t \in Thread : WF_vars(BecomeOnionServer(n, t))
    /\ WF_vars(Publish(n))
    /\ SF_vars(Exit(n))

FairSpec == Spec /\ Fairness

-----------------------------------------------------------------------------
(* consecutiveFailures and the loop agree: below the limit between rounds, *)
(* at it from the jitter to the end of becomeOnionServer, and zero again   *)
(* however that ends, so that a peer which stays a client waits for        *)
(* another three failures.  A signal that cuts the jitter short leaves it. *)
FailsCounted ==
  \A n \in Node :
    CASE pc[n]["main"] = "join"  -> fails[n] = 0
      [] pc[n]["main"] = "round" -> fails[n] < FailoverAfter \/ ctxDone[n]
      [] OTHER                   -> fails[n] = FailoverAfter

Types ==
  /\ up \in [Node -> BOOLEAN]
  /\ ctxDone \in [Node -> BOOLEAN]
  /\ pc \in [Node -> [Thread -> PC]]
  /\ listener \in [Node -> Thread \union {None}]
  /\ mu \in [Node -> Thread \union {None}]
  /\ cmd \in [Node -> BOOLEAN]
  /\ torUp \in [Node -> BOOLEAN]
  /\ localURL \in [Node -> BOOLEAN]
  /\ tearing \in [Node -> BOOLEAN]
  /\ fails \in [Node -> 0 .. FailoverAfter]
  /\ hsdir \in Node \union {None}
  /\ faults \in 0 .. MaxFaults

(* Types, and the count of failed rounds. *)
TypeOK == Types /\ FailsCounted

(* The fixed local port serialises the two threads: they are never both    *)
(* between Listen and the end of ensureRunning.                            *)
OneThreadStarts ==
  \A n \in Node :
    ~ \A t \in Thread : pc[n][t] \in {"start", "starting", "publish", "close"}

(* A peer that takes itself for the server reaches its own registry: the   *)
(* HTTP server behind localURL is up, so its rounds cannot fail.           *)
ServerHasRegistry ==
  \A n \in Node : localURL[n] => listener[n] # None

(* A tor this process has started is never left running with no registry   *)
(* behind it, unless its shutdown is the next thing to happen.             *)
TorHasRegistry ==
  \A n \in Node :
    cmd[n] /\ ~ctxDone[n] =>
      \/ listener[n] # None
      \/ \E t \in Thread : pc[n][t] = "shutdown"

Serving(n) == localURL[n] /\ torUp[n]

(* "If the onion registry becomes unreachable, peers can fail over and one *)
(* of them can take over hosting it": one peer at a time hosts it.         *)
AtMostOneServer ==
  \A m, n \in Node : Serving(m) /\ Serving(n) => m = n

(* n asks its own registry, which nobody else reaches: localURL, "set when *)
(* this peer is the server", outlives the tor behind it.  That tor has     *)
(* died by itself, or the other thread of the same process has shut it     *)
(* down after a start of its own that failed, which is a fault of the      *)
(* program's own (ShutdownTor).  Either way no round of n fails any more,  *)
(* and it never takes over again.                                          *)
FalseServer(n) == localURL[n] /\ ~torUp[n]

(* As long as one peer is past its first registration, and does not take   *)
(* itself for a server it is not, somebody takes over again and again,     *)
(* whatever the others do.  Without the premise this does not hold: see    *)
(* FalseServer.                                                            *)
FailoverHappens ==
  \A n \in Node :
    <>[](up[n] /\ pc[n]["main"] # "join" /\ ~FalseServer(n))
      => []<>(\E m \in Node : Serving(m))
=============================================================================
