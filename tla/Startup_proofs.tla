--------------------------- MODULE Startup_proofs ---------------------------
(***************************************************************************)
(* Proofs about Startup.tla for any number of programs and any contents of *)
(* shells, files and environment.                                          *)
(***************************************************************************)
EXTENDS Startup, WellFoundedInduction, TLAPS

(* What a program has been told is a function of where it runs. *)
Shape ==
  /\ shell \in [Proc -> Shells] /\ envFile \in EnvFiles
  /\ pc \in [Proc -> Steps]
  /\ cfg = [p \in Proc |-> IF pc[p] = "off" THEN None ELSE Told(p)]
  /\ ident \in [Proc -> 1 .. made \union {Torn, None}]
  /\ made \in Nat
  /\ keyFile \in [Files -> 1 .. made \union {Torn, None}]
  /\ sock \in [Ifaces -> Proc \union {Stale, None}]
  /\ raced \subseteq Files
  /\ used \in [Files -> SUBSET (1 .. made \union {Torn, None})]
  /\ faults \in 0 .. MaxFaults

(* CreateTUN keeps programs with one interface apart from then on. *)
OwnIface ==
  \A p, q \in Proc :
    /\ p # q
    /\ pc[p] \in HasIface
    /\ pc[q] \in HasIface
    => cfg[p].iface # cfg[q].iface

SocketInv == Shape /\ OwnIface /\ UapiIsOwn

-----------------------------------------------------------------------------
(* The settings do not change. *)
LEMMA ToldStays ==
  ASSUME NEW p \in Proc, UNCHANGED given
  PROVE  Told(p)' = Told(p)
BY DEF given, Told, Env

LEMMA ToldFields ==
  ASSUME Shape, NEW p \in Proc
  PROVE  /\ Told(p).file \in Files
         /\ Told(p).iface \in Ifaces
         /\ Told(p).port \in Port
<1>1. Env(p) \in Environments
  BY DEF Shape, Env, Environments
<1>2. Told(p).file \in Files
  <2>1. Told(p).file = GetEnvTrim(Env(p).NOSTR_KEY_FILE, DefaultKeyFile)
    BY DEF Told
  <2> QED
    BY <1>1, <2>1 DEF Files
<1>3. Told(p).iface \in Ifaces
  <2>1. Told(p).iface = GetEnvTrim(Env(p).WG_IFACE, DefaultIface)
    BY DEF Told
  <2> QED
    BY <1>1, <2>1 DEF Ifaces
<1>4. Told(p).port \in Port
  <2>1. Told(p).port = GetEnvInt(Env(p).WG_PORT, DefaultPort)
    BY DEF Told
  <2> QED
    BY <2>1, StartupAssumption DEF GetEnvInt
<1> QED
  BY <1>2, <1>3, <1>4

LEMMA InitShape == Init => Shape
<1> SUFFICES ASSUME Init PROVE Shape
  OBVIOUS
<1>1. made \in Nat /\ faults \in 0 .. MaxFaults
  BY StartupAssumption DEF Init, StartupAssumption
<1>2. cfg = [p \in Proc |-> IF pc[p] = "off" THEN None ELSE Told(p)]
  BY DEF Init
<1> QED
  BY <1>1, <1>2 DEF Init, Shape, Steps

(* The shape that pc and cfg have after a program has ended, ... *)
LEMMA DieShape ==
  ASSUME Shape, NEW p \in Proc, Die(p),
         UNCHANGED keyFile, faults' \in 0 .. MaxFaults
  PROVE  Shape'
<1>1. \A q \in Proc : Told(q)' = Told(q)
  BY ToldStays DEF Die
<1>2. cfg' = [q \in Proc |-> IF pc'[q] = "off" THEN None ELSE Told(q)']
  BY <1>1 DEF Die, Shape, Goto
<1>3. sock' \in [Ifaces -> Proc \union {Stale, None}]
  BY DEF Die, Left, Shape
<1>4. pc' \in [Proc -> Steps]
  BY DEF Die, Goto, Shape, Steps
<1>5. ident' \in [Proc -> 1 .. made \union {Torn, None}]
  BY DEF Die, Shape
<1> QED
  BY <1>2, <1>3, <1>4, <1>5 DEF Die, Shape, given

(* ... or has gone on. *)
LEMMA GotoShape ==
  ASSUME Shape, NEW p \in Proc, NEW step \in Steps, step # "off",
         pc[p] # "off", Goto(p, step), UNCHANGED <<given, cfg>>
  PROVE  /\ pc' \in [Proc -> Steps]
         /\ cfg' = [q \in Proc |-> IF pc'[q] = "off" THEN None ELSE Told(q)']
         /\ shell' \in [Proc -> Shells] /\ envFile' \in EnvFiles
<1>1. \A q \in Proc : Told(q)' = Told(q)
  BY ToldStays
<1> QED
  BY <1>1 DEF Shape, Goto, given

LEMMA TakesShape ==
  ASSUME Shape, NEW p \in Proc, NEW what, NEW holders, NEW next \in Steps,
         next # "off", pc[p] # "off", Takes(p, what, holders, next)
  PROVE  Shape'
<1>1. faults' \in 0 .. MaxFaults /\ keyFile' = keyFile
  BY DEF Takes, Shape
<1>2. CASE Die(p)
  BY <1>1, <1>2, DieShape
<1>3. CASE ~Die(p)
  <2>1. /\ Goto(p, next)
        /\ UNCHANGED <<given, cfg, ident, made, sock, raced, used>>
    BY <1>3 DEF Takes
  <2> QED
    BY <1>1, <2>1, GotoShape DEF Shape
<1> QED
  BY <1>2, <1>3

LEMMA FaultShape ==
  ASSUME Shape, NEW kind, Fault(kind)
  PROVE  faults' \in 0 .. MaxFaults
BY StartupAssumption DEF Shape, Fault, StartupAssumption

LEMMA MainShape ==
  ASSUME Shape, NEW p \in Proc, Main(p)
  PROVE  Shape'
<1> USE DEF Steps, HasKey, HasPort, HasIface, HasSocket
<1>0. pc[p] # "off" => File(p) \in Files /\ Path(p) \in Ifaces
  BY ToldFields DEF Shape, File, Path
<1>1. CASE LoadKey(p)
  <2>1. keyFile[File(p)] \in 1 .. made \union {Torn, None}
    BY <1>0, <1>1 DEF LoadKey, Shape
  <2>2. ident' \in [Proc -> 1 .. made' \union {Torn, None}]
    BY <1>1, <2>1 DEF LoadKey, Shape
  <2>3. used' \in [Files -> SUBSET (1 .. made' \union {Torn, None})]
    BY <1>1, <2>1 DEF LoadKey, GoOn, Shape
  <2>4. raced' \subseteq Files
    BY <1>0, <1>1 DEF LoadKey, Race, Shape
  <2> QED
    BY <1>1, <2>2, <2>3, <2>4, GotoShape DEF LoadKey, GoOn, Shape
<1>2. CASE RefuseKey(p)
  BY <1>2, DieShape DEF RefuseKey, Shape
<1>3. CASE MakeKey(p) \/ UnreadKey(p)
  <2>1. /\ NewKey(p) /\ pc[p] = "read" /\ faults' \in 0 .. MaxFaults
        /\ \/ used' = used
           \/ used' = [used EXCEPT ![File(p)] = {}]
    BY <1>3, FaultShape DEF MakeKey, UnreadKey, Shape
  <2>2. made' = made + 1 /\ made' \in Nat
    BY <2>1 DEF NewKey, Shape
  <2>3. 1 .. made \subseteq 1 .. made' /\ made' \in 1 .. made'
    BY <2>2 DEF Shape
  <2>4. ident' \in [Proc -> 1 .. made' \union {Torn, None}]
    BY <2>1, <2>3 DEF NewKey, Shape
  <2>5. used' \in [Files -> SUBSET (1 .. made' \union {Torn, None})]
    BY <2>1, <2>3 DEF Shape
  <2>6. keyFile' \in [Files -> 1 .. made' \union {Torn, None}]
    BY <2>1, <2>3 DEF NewKey, Shape
  <2>7. raced' \subseteq Files
    BY <1>0, <2>1 DEF NewKey, Race, Shape
  <2> QED
    BY <2>1, <2>2, <2>4, <2>5, <2>6, <2>7, GotoShape DEF NewKey, Shape
<1>4. CASE CreateFile(p)
  BY <1>0, <1>4, GotoShape DEF CreateFile, Shape
<1>5. CASE WriteFile(p)
  <2>1. ident[p] \in 1 .. made \union {Torn, None}
    BY DEF Shape
  <2>2. keyFile' \in [Files -> 1 .. made' \union {Torn, None}]
    BY <1>5, <2>1 DEF WriteFile, Shape
  <2>3. used' \in [Files -> SUBSET (1 .. made' \union {Torn, None})]
    BY <1>5, <2>1 DEF WriteFile, GoOn, Shape
  <2> QED
    BY <1>5, <2>2, <2>3, GotoShape DEF WriteFile, GoOn, Shape
<1>6. CASE StoreFails(p)
  BY <1>6, DieShape, FaultShape DEF StoreFails
<1>7. CASE BindUdp(p)
  BY <1>7, TakesShape DEF BindUdp
<1>8. CASE CreateTun(p)
  BY <1>8, TakesShape DEF CreateTun
<1>9. CASE RemoveSocket(p)
  BY <1>0, <1>9, GotoShape DEF RemoveSocket, Shape
<1>10. CASE ListenUnix(p)
  <2>1. CASE Die(p)
    BY <1>10, <2>1, DieShape DEF ListenUnix, Shape
  <2>2. CASE ~Die(p)
    BY <1>0, <1>10, <2>2, GotoShape DEF ListenUnix, Shape
  <2> QED
    BY <2>1, <2>2
<1>11. CASE AddRoute(p)
  BY <1>11, GotoShape DEF AddRoute, Shape
<1>12. CASE StepFails(p)
  BY <1>12, DieShape, FaultShape DEF StepFails
<1> QED
  BY <1>1, <1>2, <1>3, <1>4, <1>5, <1>6, <1>7, <1>8, <1>9, <1>10, <1>11,
     <1>12 DEF Main

LEMMA NextShape == Shape /\ [Next]_vars => Shape'
<1> SUFFICES ASSUME Shape, [Next]_vars PROVE Shape'
  OBVIOUS
<1>1. ASSUME NEW p \in Proc, Start(p) PROVE Shape'
  <2>1. \A q \in Proc : Told(q)' = Told(q)
    BY <1>1, ToldStays DEF Start
  <2>2. pc' \in [Proc -> Steps]
    BY <1>1 DEF Start, Goto, Shape, Steps
  <2>3. cfg' = [q \in Proc |-> IF pc'[q] = "off" THEN None ELSE Told(q)']
    BY <1>1, <2>1 DEF Start, Goto, Shape
  <2> QED
    BY <1>1, <2>2, <2>3 DEF Start, Shape, given
<1>2. ASSUME NEW p \in Proc, Kill(p) PROVE Shape'
  BY <1>2, DieShape, FaultShape DEF Kill
<1>3. CASE UNCHANGED vars
  <2>1. \A q \in Proc : Told(q)' = Told(q)
    BY <1>3, ToldStays DEF vars
  <2> QED
    BY <1>3, <2>1 DEF vars, given, Shape
<1> QED
  BY <1>1, <1>2, <1>3, MainShape DEF Next

LEMMA ShapeInvariant == Spec => []Shape
BY InitShape, NextShape, PTL DEF Spec

(* Every program that runs has been told what its shell and the file say,  *)
(* with a port that exists.                                                *)
THEOREM StartupType == Spec => []TypeOK
<1>1. Shape => TypeOK
  BY ToldFields DEF Shape, TypeOK
<1> QED
  BY <1>1, ShapeInvariant, PTL

-----------------------------------------------------------------------------
(* Nobody else is disturbed by the end of a program, ... *)
LEMMA DieSocket ==
  ASSUME SocketInv, NEW p \in Proc, Die(p)
  PROVE  OwnIface' /\ UapiIsOwn'
<1> USE DEF HasIface, HasSocket
<1>1. \A q \in Proc : pc'[q] # "off" =>
         q # p /\ pc'[q] = pc[q] /\ cfg'[q] = cfg[q]
  BY DEF Die, Goto, SocketInv, Shape
<1>2. OwnIface'
  BY <1>1 DEF SocketInv, OwnIface
<1>3. ASSUME NEW q \in Proc, pc'[q] \in HasSocket
      PROVE  sock'[Path(q)'] = q
  <2>1. q # p /\ sock[Path(q)] = q /\ Path(q)' = Path(q)
    BY <1>1, <1>3 DEF SocketInv, UapiIsOwn, Path
  <2>2. Path(q) \in Ifaces
    BY <1>1, <1>3, ToldFields DEF SocketInv, Shape, Path
  <2> QED
    BY <2>1, <2>2 DEF Die, Left
<1> QED
  BY <1>2, <1>3 DEF UapiIsOwn

(* ... nor by a step that takes no interface and touches no socket.        *)
LEMMA QuietSocket ==
  ASSUME SocketInv, NEW p \in Proc, NEW step, Goto(p, step),
         UNCHANGED <<cfg, sock>>,
         step \in HasIface => pc[p] \in HasIface,
         step \in HasSocket => pc[p] \in HasSocket
  PROVE  OwnIface' /\ UapiIsOwn'
<1>1. \A q \in Proc : /\ pc'[q] \in HasIface => pc[q] \in HasIface
                      /\ pc'[q] \in HasSocket => pc[q] \in HasSocket
  BY DEF Goto, SocketInv, Shape
<1> QED
  BY <1>1 DEF SocketInv, OwnIface, UapiIsOwn, Path

LEMMA MainSocket ==
  ASSUME SocketInv, NEW p \in Proc, Main(p)
  PROVE  OwnIface' /\ UapiIsOwn'
<1> USE DEF HasKey, HasPort, HasIface, HasSocket
<1>0. pc[p] # "off" => Path(p) \in Ifaces
  BY ToldFields DEF SocketInv, Shape, Path
<1>1. CASE \/ LoadKey(p) \/ MakeKey(p) \/ UnreadKey(p)
           \/ CreateFile(p) \/ WriteFile(p)
  BY <1>1, QuietSocket
     DEF LoadKey, MakeKey, UnreadKey, NewKey, CreateFile, WriteFile, GoOn
<1>2. CASE RefuseKey(p) \/ StoreFails(p) \/ StepFails(p)
  BY <1>2, DieSocket DEF RefuseKey, StoreFails, StepFails
<1>3. CASE BindUdp(p)
  BY <1>3, QuietSocket, DieSocket DEF BindUdp, Takes
<1>4. CASE CreateTun(p)
  <2>1. CASE Die(p)
    BY <2>1, DieSocket
  <2>2. CASE ~Die(p)
    <3>1. /\ Free(p, "iface", HasIface)
          /\ Goto(p, "uapi") /\ UNCHANGED <<cfg, sock>>
      BY <1>4, <2>2 DEF CreateTun, Takes
    <3>2. \A q \in Proc \ {p} : pc'[q] = pc[q]
      BY <3>1 DEF Goto, SocketInv, Shape
    <3>3. \A q \in Proc \ {p} : pc[q] \in HasIface
                                  => cfg[q].iface # cfg[p].iface
      BY <3>1 DEF Free
    <3>4. OwnIface'
      BY <3>1, <3>2, <3>3 DEF SocketInv, OwnIface
    <3>5. \A q \in Proc : pc'[q] \in HasSocket => pc[q] \in HasSocket
      BY <3>1 DEF Goto, SocketInv, Shape
    <3> QED
      BY <3>1, <3>4, <3>5 DEF SocketInv, UapiIsOwn, Path
  <2> QED
    BY <2>1, <2>2
<1>5. CASE RemoveSocket(p)
  <2>1. \A q \in Proc : pc'[q] \in HasSocket
                          => q # p /\ pc[q] \in HasSocket
    BY <1>5 DEF RemoveSocket, Goto, SocketInv, Shape
  <2>2. OwnIface'
    BY <1>5 DEF RemoveSocket, Goto, SocketInv, Shape, OwnIface
  <2>3. \A q \in Proc : pc'[q] \in HasSocket => Path(q) # Path(p)
    BY <1>5, <2>1 DEF RemoveSocket, SocketInv, OwnIface, Path
  <2> QED
    BY <1>5, <2>1, <2>2, <2>3
       DEF RemoveSocket, SocketInv, Shape, UapiIsOwn, Path
<1>6. CASE ListenUnix(p)
  <2>1. CASE Die(p)
    BY <2>1, DieSocket
  <2>2. CASE ~Die(p)
    <3>1. \A q \in Proc \ {p} : pc'[q] = pc[q]
      BY <1>6, <2>2 DEF ListenUnix, Goto, SocketInv, Shape
    <3>2. OwnIface'
      BY <1>6, <2>2, <3>1 DEF ListenUnix, SocketInv, OwnIface
    <3>3. \A q \in Proc \ {p} : pc[q] \in HasSocket => Path(q) # Path(p)
      BY <1>6 DEF ListenUnix, SocketInv, OwnIface, Path
    <3>4. /\ pc[p] # "off" /\ UNCHANGED cfg
          /\ sock' = [sock EXCEPT ![Path(p)] = p]
      BY <1>6, <2>2 DEF ListenUnix
    <3>5. ASSUME NEW q \in Proc, pc'[q] \in HasSocket
          PROVE  sock'[Path(q)'] = q
      <4>1. Path(q)' = Path(q)
        BY <3>4 DEF Path
      <4>2. CASE q = p
        BY <1>0, <3>4, <4>1, <4>2 DEF SocketInv, Shape
      <4>3. CASE q # p
        <5>1. pc[q] \in HasSocket /\ Path(q) # Path(p)
          BY <3>1, <3>3, <3>5, <4>3
        <5>2. Path(q) \in Ifaces /\ sock[Path(q)] = q
          BY <5>1, ToldFields DEF SocketInv, Shape, UapiIsOwn, Path
        <5> QED
          BY <3>4, <4>1, <5>1, <5>2 DEF SocketInv, Shape
      <4> QED
        BY <4>2, <4>3
    <3> QED
      BY <3>2, <3>5 DEF UapiIsOwn
  <2> QED
    BY <2>1, <2>2
<1>7. CASE AddRoute(p)
  BY <1>7, QuietSocket DEF AddRoute
<1> QED
  BY <1>1, <1>2, <1>3, <1>4, <1>5, <1>6, <1>7 DEF Main

LEMMA NextSocket == SocketInv /\ [Next]_vars => SocketInv'
<1> SUFFICES ASSUME SocketInv, [Next]_vars
             PROVE  OwnIface' /\ UapiIsOwn'
  BY NextShape DEF SocketInv
<1>1. ASSUME NEW p \in Proc, Start(p) PROVE OwnIface' /\ UapiIsOwn'
  BY <1>1 DEF Start, Goto, SocketInv, Shape, OwnIface, UapiIsOwn, Path,
              HasIface, HasSocket
<1>2. ASSUME NEW p \in Proc, Kill(p) PROVE OwnIface' /\ UapiIsOwn'
  BY <1>2, DieSocket DEF Kill
<1>3. CASE UNCHANGED vars
  BY <1>3 DEF vars, SocketInv, OwnIface, UapiIsOwn, Path
<1> QED
  BY <1>1, <1>2, <1>3, MainSocket DEF Next

(* A running program's UAPI socket is its own: the port and the interface  *)
(* are refused to a second program before it gets to remove the path.      *)
THEOREM SocketIsOwn == Spec => []UapiIsOwn
<1>1. Init => SocketInv
  BY InitShape
     DEF Init, SocketInv, OwnIface, UapiIsOwn, HasIface, HasSocket
<1>2. SocketInv => UapiIsOwn
  BY DEF SocketInv
<1> QED
  BY <1>1, <1>2, NextSocket, PTL DEF Spec

-----------------------------------------------------------------------------
Making == {"store", "write"}

(* Two programs that are both about to store an identity have raced, ... *)
AloneWithFile ==
  \A p, q \in Proc :
    /\ p # q
    /\ pc[p] \in Making
    /\ pc[q] \in Making
    /\ File(p) = File(q)
    => File(p) \in raced

(* ... and while only one is, nobody has gone on with another from there.  *)
NotUsed ==
  \A p \in Proc : pc[p] \in Making /\ File(p) \notin raced
                    => used[File(p)] = {}

Made == /\ \A p \in Proc : pc[p] \in Making => ident[p] # None
        /\ \A f \in Files : None \notin used[f]

Identities == Made /\ AloneWithFile /\ NotUsed /\ IdentityKept

IdentityInv == Shape /\ Identities

(* A program that does not come to store one, and goes on with none, does  *)
(* not matter.                                                             *)
LEMMA QuietIdentity ==
  ASSUME IdentityInv, UNCHANGED <<keyFile, raced, used>>,
         \A q \in Proc : pc'[q] \in Making =>
           /\ pc[q] \in Making
           /\ cfg'[q] = cfg[q] /\ ident'[q] = ident[q]
  PROVE  Identities'
BY DEF IdentityInv, Identities, Made, AloneWithFile, NotUsed, IdentityKept,
       File

LEMMA DieIdentity ==
  ASSUME IdentityInv, NEW p \in Proc, Die(p), UNCHANGED keyFile
  PROVE  Identities'
<1>1. \A q \in Proc : pc'[q] \in Making =>
         /\ pc[q] \in Making
         /\ cfg'[q] = cfg[q] /\ ident'[q] = ident[q]
  BY DEF Die, Goto, IdentityInv, Shape, Making
<1> QED
  BY <1>1, QuietIdentity DEF Die

LEMMA GotoIdentity ==
  ASSUME IdentityInv, NEW p \in Proc, NEW step, step \notin Making,
         Goto(p, step), UNCHANGED <<cfg, ident, keyFile, raced, used>>
  PROVE  Identities'
<1>1. \A q \in Proc : pc'[q] \in Making =>
         /\ pc[q] \in Making
         /\ cfg'[q] = cfg[q] /\ ident'[q] = ident[q]
  BY DEF Goto, IdentityInv, Shape
<1> QED
  BY <1>1, QuietIdentity

(* If nobody else is about to replace it, what is in a file may be used.   *)
LEMMA LoadIdentity ==
  ASSUME IdentityInv, NEW p \in Proc, LoadKey(p)
  PROVE  Identities'
<1>1. /\ pc' = [pc EXCEPT ![p] = "bind"]
      /\ \A q \in Proc \ {p} : ident'[q] = ident[q]
      /\ keyFile[File(p)] # None
      /\ UNCHANGED <<cfg, keyFile>>
      /\ raced' = raced \union (IF Storing(p) THEN {File(p)} ELSE {})
      /\ used' = [used EXCEPT ![File(p)] = @ \union {keyFile[File(p)]}]
  BY DEF LoadKey, GoOn, Goto, Race, IdentityInv, Shape
<1>2. \A q \in Proc : /\ File(q)' = File(q)
                      /\ pc'[q] \in Making => q # p /\ pc[q] \in Making
  BY <1>1 DEF File, IdentityInv, Shape, Making
<1>3. Made'
  BY <1>1, <1>2 DEF IdentityInv, Identities, Shape, Made
<1>4. AloneWithFile'
  BY <1>1, <1>2 DEF IdentityInv, Identities, AloneWithFile
<1>5. ASSUME NEW q \in Proc, pc'[q] \in Making, File(q)' \notin raced'
      PROVE  used'[File(q)'] = {}
  <2>1. q # p /\ pc[q] \in Making /\ File(q) \notin raced
    BY <1>1, <1>2, <1>5
  <2>2. File(q) # File(p)
    BY <1>1, <1>2, <1>5, <2>1 DEF Storing, Making
  <2>3. used[File(q)] = {}
    BY <2>1 DEF IdentityInv, Identities, NotUsed
  <2> QED
    BY <1>1, <1>2, <2>2, <2>3 DEF IdentityInv, Shape
<1>6. IdentityKept'
  BY <1>1 DEF IdentityInv, Identities, Shape, IdentityKept
<1> QED
  BY <1>3, <1>4, <1>5, <1>6 DEF Identities, NotUsed

(* A new identity is made where none has been used, or where those that    *)
(* have been are given up.                                                 *)
LEMMA MakeIdentity ==
  ASSUME IdentityInv, NEW p \in Proc, MakeKey(p) \/ UnreadKey(p)
  PROVE  Identities'
<1>0. File(p) \in Files
  BY ToldFields DEF File, MakeKey, UnreadKey, IdentityInv, Shape
<1>1. /\ pc' = [pc EXCEPT ![p] = "store"]
      /\ ident' = [ident EXCEPT ![p] = made + 1]
      /\ UNCHANGED <<cfg, keyFile>>
      /\ raced' = raced \union (IF Storing(p) THEN {File(p)} ELSE {})
  BY DEF MakeKey, UnreadKey, NewKey, Goto, Race
<1>2. \/ used' = used /\ keyFile[File(p)] = None
      \/ used' = [used EXCEPT ![File(p)] = {}]
  BY DEF MakeKey, UnreadKey
<1>3. \A q \in Proc : /\ File(q)' = File(q)
                      /\ q # p => pc'[q] = pc[q] /\ ident'[q] = ident[q]
  BY <1>1 DEF File, IdentityInv, Shape
<1>4. Made'
  <2>1. made + 1 # None
    <3>1. made + 1 \in Nat
      BY DEF IdentityInv, Shape
    <3>2. None \notin Nat
      BY StartupAssumption DEF StartupAssumption
    <3> QED
      BY <3>1, <3>2
  <2>2. ident'[p] # None
    BY <1>1, <2>1 DEF IdentityInv, Shape
  <2>3. \A f \in Files : None \notin used'[f]
    BY <1>2 DEF IdentityInv, Identities, Shape, Made
  <2>4. \A q \in Proc : pc'[q] \in Making => ident'[q] # None
    BY <1>3, <2>2 DEF IdentityInv, Identities, Made
  <2> QED
    BY <2>3, <2>4 DEF Made
<1>5. ASSUME NEW q \in Proc, q # p, pc[q] \in Making, File(q) = File(p)
      PROVE  File(p) \in raced'
  BY <1>1, <1>5 DEF Storing, Making
<1>6. AloneWithFile'
  <2> SUFFICES ASSUME NEW q \in Proc, NEW r \in Proc, q # r,
                      pc'[q] \in Making, pc'[r] \in Making,
                      File(q)' = File(r)'
               PROVE  File(q)' \in raced'
    BY DEF AloneWithFile
  <2>1. CASE q # p /\ r # p
    BY <1>1, <1>3, <2>1 DEF IdentityInv, Identities, AloneWithFile
  <2>2. CASE q = p
    BY <1>3, <1>5, <2>2
  <2>3. CASE r = p
    BY <1>3, <1>5, <2>3
  <2> QED
    BY <2>1, <2>2, <2>3
<1>7. NotUsed'
  <2> SUFFICES ASSUME NEW q \in Proc, pc'[q] \in Making,
                      File(q)' \notin raced'
               PROVE  used'[File(q)'] = {}
    BY DEF NotUsed
  <2>1. CASE q = p
    <3>1. File(p) \notin raced
      BY <1>1, <1>3, <2>1
    <3>2. CASE used' = used /\ keyFile[File(p)] = None
      <4>1. used[File(p)] \subseteq {None} /\ None \notin used[File(p)]
        BY <1>0, <3>1, <3>2
           DEF IdentityInv, Identities, IdentityKept, Made
      <4> QED
        BY <1>3, <2>1, <3>2, <4>1
    <3>3. CASE used' = [used EXCEPT ![File(p)] = {}]
      BY <1>0, <1>3, <2>1, <3>3 DEF IdentityInv, Shape
    <3> QED
      BY <1>2, <3>2, <3>3
  <2>2. CASE q # p
    <3>1. used[File(q)] = {}
      BY <1>1, <1>3, <2>2 DEF IdentityInv, Identities, NotUsed
    <3>2. File(q) # File(p)
      BY <1>3, <1>5, <2>2
    <3>3. File(q) \in Files
      BY <1>3, <2>2, ToldFields DEF File, Making, IdentityInv, Shape
    <3> QED
      BY <1>2, <1>3, <3>1, <3>2, <3>3 DEF IdentityInv, Shape
  <2> QED
    BY <2>1, <2>2
<1>8. IdentityKept'
  BY <1>1, <1>2 DEF IdentityInv, Identities, Shape, IdentityKept
<1> QED
  BY <1>4, <1>6, <1>7, <1>8 DEF Identities

(* An empty file is made, ... *)
LEMMA CreateIdentity ==
  ASSUME IdentityInv, NEW p \in Proc, CreateFile(p)
  PROVE  Identities'
<1>1. /\ pc[p] = "store" /\ pc' = [pc EXCEPT ![p] = "write"]
      /\ keyFile' = [keyFile EXCEPT ![File(p)] = Torn]
      /\ UNCHANGED <<cfg, ident, raced, used>>
  BY DEF CreateFile, Goto
<1>2. \A q \in Proc : /\ File(q)' = File(q)
                      /\ pc'[q] \in Making => pc[q] \in Making
  BY <1>1 DEF File, IdentityInv, Shape, Making
<1>3. ASSUME NEW f \in Files, f \notin raced
      PROVE  used[f] \subseteq {keyFile'[f]}
  <2>1. CASE f = File(p)
    BY <1>1, <1>3, <2>1 DEF IdentityInv, Identities, NotUsed, Making
  <2>2. CASE f # File(p)
    BY <1>1, <1>3, <2>2 DEF IdentityInv, Identities, IdentityKept, Shape
  <2> QED
    BY <2>1, <2>2
<1> QED
  BY <1>1, <1>2, <1>3
     DEF IdentityInv, Identities, Made, AloneWithFile, NotUsed, IdentityKept

(* ... and the identity is written to it: no other has been used.          *)
LEMMA WriteIdentity ==
  ASSUME IdentityInv, NEW p \in Proc, WriteFile(p)
  PROVE  Identities'
<1>0. File(p) \in Files
  BY ToldFields DEF File, WriteFile, IdentityInv, Shape
<1>1. /\ pc[p] = "write" /\ pc' = [pc EXCEPT ![p] = "bind"]
      /\ keyFile' = [keyFile EXCEPT ![File(p)] = ident[p]]
      /\ used' = [used EXCEPT ![File(p)] = @ \union {ident[p]}]
      /\ UNCHANGED <<cfg, ident, raced>>
  BY DEF WriteFile, GoOn, Goto
<1>2. \A q \in Proc : /\ File(q)' = File(q)
                      /\ pc'[q] \in Making => q # p /\ pc[q] \in Making
  BY <1>1 DEF File, IdentityInv, Shape, Making
<1>3. Made'
  <2>1. ident[p] # None
    BY <1>1 DEF IdentityInv, Identities, Made, Making
  <2> QED
    BY <1>1, <1>2, <2>1 DEF IdentityInv, Identities, Shape, Made
<1>4. AloneWithFile'
  BY <1>1, <1>2 DEF IdentityInv, Identities, AloneWithFile
<1>5. ASSUME NEW q \in Proc, pc'[q] \in Making, File(q)' \notin raced'
      PROVE  used'[File(q)'] = {}
  <2>1. q # p /\ pc[q] \in Making /\ File(q) \notin raced
    BY <1>1, <1>2, <1>5
  <2>2. File(q) # File(p)
    BY <1>1, <2>1 DEF IdentityInv, Identities, AloneWithFile, Making
  <2>3. used[File(q)] = {}
    BY <2>1 DEF IdentityInv, Identities, NotUsed
  <2> QED
    BY <1>1, <1>2, <2>2, <2>3 DEF IdentityInv, Shape
<1>6. ASSUME NEW f \in Files, f \notin raced
      PROVE  used'[f] \subseteq {keyFile'[f]}
  <2>1. CASE f = File(p)
    <3>1. used[f] = {}
      BY <1>1, <1>6, <2>1 DEF IdentityInv, Identities, NotUsed, Making
    <3> QED
      BY <1>0, <1>1, <2>1, <3>1 DEF IdentityInv, Shape
  <2>2. CASE f # File(p)
    BY <1>1, <1>6, <2>2 DEF IdentityInv, Identities, IdentityKept, Shape
  <2> QED
    BY <2>1, <2>2
<1> QED
  BY <1>1, <1>3, <1>4, <1>5, <1>6 DEF Identities, NotUsed, IdentityKept

LEMMA MainIdentity ==
  ASSUME IdentityInv, NEW p \in Proc, Main(p)
  PROVE  Identities'
<1> USE DEF Making
<1>1. CASE RefuseKey(p) \/ StoreFails(p) \/ StepFails(p)
  BY <1>1, DieIdentity DEF RefuseKey, StoreFails, StepFails
<1>2. CASE BindUdp(p) \/ CreateTun(p)
  BY <1>2, DieIdentity, GotoIdentity DEF BindUdp, CreateTun, Takes
<1>3. CASE RemoveSocket(p) \/ AddRoute(p)
  BY <1>3, GotoIdentity DEF RemoveSocket, AddRoute
<1>4. CASE ListenUnix(p)
  BY <1>4, DieIdentity, GotoIdentity DEF ListenUnix
<1> QED
  BY <1>1, <1>2, <1>3, <1>4, LoadIdentity, MakeIdentity, CreateIdentity,
     WriteIdentity DEF Main

LEMMA NextIdentity == IdentityInv /\ [Next]_vars => IdentityInv'
<1> SUFFICES ASSUME IdentityInv, [Next]_vars
             PROVE  Identities'
  BY NextShape DEF IdentityInv
<1>1. ASSUME NEW p \in Proc, Start(p)
      PROVE  Identities'
  <2>1. \A q \in Proc : pc'[q] \in Making =>
          /\ pc[q] \in Making
          /\ cfg'[q] = cfg[q] /\ ident'[q] = ident[q]
    BY <1>1 DEF Start, Goto, IdentityInv, Shape, Making
  <2> QED
    BY <1>1, <2>1, QuietIdentity DEF Start
<1>2. ASSUME NEW p \in Proc, Kill(p)
      PROVE  Identities'
  BY <1>2, DieIdentity DEF Kill
<1>3. CASE UNCHANGED vars
  BY <1>3, QuietIdentity DEF vars
<1> QED
  BY <1>1, <1>2, <1>3, MainIdentity DEF Next

(* All programs that have gone on from one file have had the identity that *)
(* is in it now, wherever any of them was killed or failed, since a read   *)
(* error last made one replace the file, and unless two have raced for it. *)
THEOREM IdentityIsStored == Spec => []IdentityKept
<1>1. Init => IdentityInv
  BY InitShape
     DEF Init, IdentityInv, Identities, Made, AloneWithFile, NotUsed,
         IdentityKept, Making
<1>2. IdentityInv => IdentityKept
  BY DEF IdentityInv, Identities
<1> QED
  BY <1>1, <1>2, NextIdentity, PTL DEF Spec

-----------------------------------------------------------------------------
(* Induction over the lines of a file, from the well-foundedness of the    *)
(* natural numbers: a set of them with 0 that is closed under the          *)
(* successor has them all.                                                 *)
Below == OpToRel(<, Nat)

LEMMA BelowIsLess == \A x, y \in Nat : <<y, x>> \in Below <=> y < x
BY DEF Below, OpToRel

LEMMA BelowWellFounded == IsWellFoundedOn(Below, Nat)
BY NatLessThanWellFounded DEF Below

LEMMA SetInduction ==
  ASSUME NEW S, 0 \in S, \A n \in Nat : n \in S => n + 1 \in S
  PROVE  \A n \in Nat : n \in S
<1> DEFINE T == {n \in Nat : n \notin S}
<1>1. CASE T = {}
  BY <1>1
<1>2. CASE T # {}
  <2>1. PICK x \in T : \A y \in T : <<y, x>> \notin Below
    <3> T \subseteq Nat
      OBVIOUS
    <3> HIDE DEF T
    <3> QED
      BY <1>2, BelowWellFounded, WFMin
  <2>2. x # 0 /\ x \in Nat /\ x - 1 \in Nat /\ x - 1 < x
    OBVIOUS
  <2>3. <<x - 1, x>> \in Below
    BY <2>2, BelowIsLess
  <2>4. x - 1 \in S
    BY <2>1, <2>2, <2>3
  <2>5. x - 1 + 1 \in S
    BY <2>2, <2>4
  <2> QED
    BY <2>2, <2>5
<1> QED
  BY <1>1, <1>2

(* The environment after the first i lines: the recursion of LoadEnvFile. *)
After(env, line) == [env EXCEPT ![line.key] = Settled(@, line.val)]

Reading(f, env, lines, n) ==
  f = [i \in 0 .. n |->
         IF i = 0 THEN env ELSE After(f[i - 1], lines[i])]

LEMMA ReadingExists ==
  ASSUME NEW env, NEW lines
  PROVE  \A n \in Nat : \E f : Reading(f, env, lines, n)
<1> DEFINE S == {n \in Nat : \E f : Reading(f, env, lines, n)}
<1>1. 0 \in S
  <2>1. Reading([i \in 0 .. 0 |-> env], env, lines, 0)
    BY DEF Reading
  <2> QED
    BY <2>1
<1>2. ASSUME NEW n \in Nat, n \in S
      PROVE  n + 1 \in S
  <2>1. PICK f : Reading(f, env, lines, n)
    BY <1>2
  <2> DEFINE g == [i \in 0 .. n + 1 |->
                    IF i = n + 1
                    THEN After(f[n], lines[i])
                    ELSE f[i]]
  <2>2. \A i \in 0 .. n : g[i] = f[i]
    OBVIOUS
  <2>3. ASSUME NEW i \in 0 .. n + 1
        PROVE  g[i] = IF i = 0 THEN env
                      ELSE After(g[i - 1], lines[i])
    <3>1. CASE i = n + 1
      <4>1. i # 0 /\ i - 1 = n /\ g[n] = f[n]
        BY <3>1, <2>2
      <4> QED
        BY <3>1, <4>1
    <3>2. CASE i # n + 1 /\ i # 0
      <4>1. i \in 0 .. n /\ i - 1 \in 0 .. n
        BY <3>2
      <4>2. g[i] = f[i] /\ g[i - 1] = f[i - 1]
        BY <2>2, <4>1
      <4> QED
        BY <2>1, <3>2, <4>1, <4>2 DEF Reading
    <3>3. CASE i # n + 1 /\ i = 0
      BY <2>1, <2>2, <3>3 DEF Reading
    <3> QED
      BY <3>1, <3>2, <3>3
  <2>4. Reading(g, env, lines, n + 1)
    <3>1. g = [i \in 0 .. n + 1 |-> g[i]]
      OBVIOUS
    <3> HIDE DEF g
    <3> QED
      BY <2>3, <3>1 DEF Reading
  <2> QED
    BY <2>4
<1> HIDE DEF S
<1>3. \A n \in Nat : n \in S
  BY <1>1, <1>2, SetInduction
<1> QED
  BY <1>3 DEF S

LEMMA LoadEnvFileReads ==
  ASSUME NEW env, NEW lines, Len(lines) \in Nat
  PROVE  \E f : /\ Reading(f, env, lines, Len(lines))
                /\ LoadEnvFile(env, lines) = f[Len(lines)]
<1>1. \E f : Reading(f, env, lines, Len(lines))
  BY ReadingExists
<1> QED
  BY <1>1 DEF LoadEnvFile, Reading, After

(* Reading a file sets no variable that has a value. *)
LEMMA LoadEnvFileKeeps ==
  ASSUME NEW env, NEW lines, Len(lines) \in Nat,
         NEW x \in DOMAIN env, env[x] # Unset
  PROVE  LoadEnvFile(env, lines)[x] = env[x]
<1>1. PICK f : /\ Reading(f, env, lines, Len(lines))
               /\ LoadEnvFile(env, lines) = f[Len(lines)]
  BY LoadEnvFileReads
<1> DEFINE S == {i \in Nat : i <= Len(lines)
                               => x \in DOMAIN f[i] /\ f[i][x] = env[x]}
<1>2. 0 \in S
  BY <1>1 DEF Reading
<1>3. ASSUME NEW n \in Nat, n \in S
      PROVE  n + 1 \in S
  <2> SUFFICES ASSUME n + 1 <= Len(lines)
               PROVE  x \in DOMAIN f[n + 1] /\ f[n + 1][x] = env[x]
    OBVIOUS
  <2>1. x \in DOMAIN f[n] /\ f[n][x] = env[x]
    BY <1>3
  <2>2. n + 1 \in 0 .. Len(lines) /\ n + 1 # 0 /\ n + 1 - 1 = n
    OBVIOUS
  <2>3. \A i \in 0 .. Len(lines) :
          f[i] = IF i = 0 THEN env ELSE After(f[i - 1], lines[i])
    BY <1>1 DEF Reading
  <2>4. f[n + 1] = After(f[n + 1 - 1], lines[n + 1])
    BY <2>2, <2>3
  <2>5. f[n + 1] = After(f[n], lines[n + 1])
    BY <2>2, <2>4
  <2> QED
    BY <2>1, <2>5 DEF After, Settled
<1> HIDE DEF S
<1>4. \A n \in Nat : n \in S
  BY <1>2, <1>3, SetInduction
<1> QED
  BY <1>1, <1>4 DEF S

-----------------------------------------------------------------------------
(* A program that runs has been told settings with usable keys.            *)
SettingsInv ==
  Shape /\ \A p \in Proc : pc[p] # "off" => Usable(Told(p).keys)

LEMMA NextSettings == SettingsInv /\ [Next]_vars => SettingsInv'
<1> SUFFICES ASSUME SettingsInv, [Next]_vars, NEW q \in Proc, pc'[q] # "off"
             PROVE  Usable(Told(q).keys)'
  BY NextShape DEF SettingsInv
<1>1. UNCHANGED given
  BY DEF Next, Start, Kill, Main, Die, Takes, LoadKey, RefuseKey, MakeKey,
         UnreadKey, NewKey, GoOn, CreateFile, WriteFile, StoreFails,
         BindUdp, CreateTun, RemoveSocket, ListenUnix, AddRoute, StepFails,
         vars
<1>2. Usable(Told(q).keys)' <=> Usable(Told(q).keys)
  BY <1>1, ToldStays DEF Usable
<1>3. CASE pc[q] # "off"
  BY <1>2, <1>3 DEF SettingsInv
<1>4. CASE pc[q] = "off"
  BY <1>2, <1>4
     DEF SettingsInv, Shape, Next, Start, Kill, Main, Die, Takes, LoadKey,
         RefuseKey, MakeKey, UnreadKey, NewKey, GoOn, CreateFile, WriteFile,
         StoreFails, BindUdp, CreateTun, RemoveSocket, ListenUnix, AddRoute,
         StepFails, Goto, HasKey, HasPort, HasIface, HasSocket, vars
<1> QED
  BY <1>3, <1>4

(* What is set in the shell counts, for each variable but the port: the    *)
(* file cannot replace it, nor can the defaults.                           *)
LEMMA ShellCounts ==
  ASSUME Shape, NEW p \in Proc,
         NEW x \in {"ROOM", "WG_IFACE", "WG_PRIVKEY", "WG_PUBKEY"},
         Trim(shell[p][x]) # Unset
  PROVE  Env(p)[x] = shell[p][x] /\ Trim(Env(p)[x]) = shell[p][x]
<1>1. /\ x \in DOMAIN shell[p]
      /\ Len(envFile) \in Nat
  BY StartupAssumption DEF Shape, StartupAssumption
<1>2. shell[p][x] # Unset /\ Trim(shell[p][x]) = shell[p][x]
  BY DEF Trim
<1>3. Env(p)[x] = shell[p][x]
  BY <1>1, <1>2, LoadEnvFileKeeps DEF Env
<1> QED
  BY <1>2, <1>3

LEMMA ToldHolds ==
  ASSUME SettingsInv, NEW p \in Proc, pc[p] # "off"
  PROVE  /\ Trim(shell[p].ROOM) # Unset => Told(p).room = shell[p].ROOM
         /\ Trim(shell[p].WG_IFACE) # Unset
              => Told(p).iface = shell[p].WG_IFACE
         /\ Trim(shell[p].WG_PRIVKEY) # Unset
              => Told(p).keys.priv = shell[p].WG_PRIVKEY
         /\ \/ Told(p).keys.pub = PubOf(Told(p).keys.priv)
            \/ Trim(Env(p).WG_PUBKEY) # Unset
<1>0. Shape /\ Usable(Told(p).keys)
  BY DEF SettingsInv
<1>1. ASSUME Trim(shell[p].ROOM) # Unset
      PROVE  Told(p).room = shell[p].ROOM
  <2>1. /\ Env(p).ROOM = shell[p].ROOM
        /\ Trim(Env(p).ROOM) = shell[p].ROOM
    BY <1>0, <1>1, ShellCounts
  <2> QED
    BY <1>1, <2>1 DEF Told, GetEnvTrim
<1>2. ASSUME Trim(shell[p].WG_IFACE) # Unset
      PROVE  Told(p).iface = shell[p].WG_IFACE
  <2>1. /\ Env(p).WG_IFACE = shell[p].WG_IFACE
        /\ Trim(Env(p).WG_IFACE) = shell[p].WG_IFACE
    BY <1>0, <1>2, ShellCounts
  <2> QED
    BY <1>2, <2>1 DEF Told, GetEnvTrim
<1>3. ASSUME Trim(shell[p].WG_PRIVKEY) # Unset
      PROVE  Told(p).keys.priv = shell[p].WG_PRIVKEY
  <2>1. Trim(Env(p).WG_PRIVKEY) = shell[p].WG_PRIVKEY
    BY <1>0, <1>3, ShellCounts
  <2>2. shell[p].WG_PRIVKEY # Unset
    BY <1>3 DEF Trim
  <2> QED
    BY <2>1, <2>2 DEF Told, KeyPair
<1>4. ASSUME Trim(Env(p).WG_PUBKEY) = Unset
      PROVE  Told(p).keys.pub = PubOf(Told(p).keys.priv)
  <2>1. Told(p).keys.pub # Unset
    BY <1>0 DEF Usable
  <2> QED
    BY <1>4, <2>1 DEF Told, KeyPair
<1> QED
  BY <1>1, <1>2, <1>3, <1>4

(* "Values already present in the shell environment take precedence", and  *)
(* the public key a program announces is that of its private key unless it *)
(* has been given one, for any environments, files and lines.              *)
THEOREM ShellTakesPrecedence == Spec => []SettingsHold
<1>1. Init => SettingsInv
  BY InitShape DEF Init, SettingsInv
<1>2. SettingsInv => SettingsHold
  BY ToldHolds DEF SettingsInv, Shape, SettingsHold
<1> QED
  BY <1>1, <1>2, NextSettings, PTL DEF Spec
=============================================================================
