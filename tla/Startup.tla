------------------------------ MODULE Startup -------------------------------
(***************************************************************************)
(* Programs of nostr/ on one machine, from the command line until they     *)
(* publish: what they are told, the file with their Nostr identity, and    *)
(* what they take from the system on the way, the UDP port, the interface  *)
(* and the path of the UAPI socket.  Most failures end a program, it may   *)
(* be killed at any time, and it is started again.  What outlives it is    *)
(* the key file and the path of the socket.  (dht/ and tor/ start in the   *)
(* same way, without an identity.)                                         *)
(*                                                                         *)
(* External: the operating system, and whoever starts the programs.        *)
(***************************************************************************)
EXTENDS Settings

CONSTANTS
  Proc,        \* the programs, each with a shell of its own
  Shells,      \* environments a program may be started in
  EnvFiles,    \* contents the file .env.punchwg may have
  Confs,       \* contents /etc/wireguard/<iface>.conf may have
  DefaultRoom, DefaultPort, DefaultIface, DefaultKeyFile,
  Torn,        \* content of a key file that is not completely written
  Stale,       \* a socket path whose program is gone
  Faults,      \* the faults that may happen (see FaultKind)
  MaxFaults    \* bound: how many of them happen in one behaviour

FaultKind == {"kill", "read", "store", "step"}

ASSUME StartupAssumption ==
  /\ DefaultPort \in Port
  /\ \A s \in Shells : {"ROOM", "WG_IFACE", "WG_PRIVKEY", "WG_PUBKEY"}
                         \subseteq DOMAIN s
  /\ \A f \in EnvFiles : Len(f) \in Nat
  /\ Faults \subseteq FaultKind
  /\ MaxFaults \in Nat
  /\ {Torn, None} \intersect Nat = {}
  /\ {Stale, None} \intersect Proc = {} /\ Stale # None

VARIABLES
  shell,    \* the environment of each program's shell
  envFile,  \* .env.punchwg, in the directory they share
  conf,     \* the wg-quick file (bound: the same for every interface)
  wg,       \* is the command wg installed?
  pc,       \* how far a program has come, "off" if it does not run
  cfg,      \* what it has been told
  ident,    \* its Nostr identity, by number
  keyFile,  \* keyFile[path]: an identity, Torn or None
  made,     \* number of identities made so far
  sock,     \* sock[iface]: whose UAPI socket is at the path, Stale or None
  raced,    \* history: files for which two programs have raced (NewKey)
  used,     \* history: used[path]: the identities programs have gone on
            \* with since the file there was last given up (UnreadKey)
  faults    \* faults that may still happen

given == <<shell, envFile, conf, wg>>
vars ==
  <<given, pc, cfg, ident, keyFile, made, sock, raced, used, faults>>

Env(p) == LoadEnvFile(shell[p], envFile)

(* What main makes of an environment. *)
Told(p) ==
  [room  |-> GetEnvTrim(Env(p).ROOM, DefaultRoom),
   port  |-> GetEnvInt(Env(p).WG_PORT, DefaultPort),
   iface |-> GetEnvTrim(Env(p).WG_IFACE, DefaultIface),
   file  |-> GetEnvTrim(Env(p).NOSTR_KEY_FILE, DefaultKeyFile),
   keys  |-> KeyPair(Env(p), conf, wg)]

Environments == {LoadEnvFile(s, f) : s \in Shells, f \in EnvFiles}
Files  == {GetEnvTrim(e.NOSTR_KEY_FILE, DefaultKeyFile) : e \in Environments}
Ifaces == {GetEnvTrim(e.WG_IFACE, DefaultIface) : e \in Environments}

(* How far it has come, and what it has got by then. *)
HasSocket == {"route", "up"}
HasIface  == {"uapi", "listen"} \union HasSocket
HasPort   == {"tun"} \union HasIface
HasKey    == {"bind"} \union HasPort
Steps     == {"off", "read", "store", "write"} \union HasKey

Init ==
  /\ shell \in [Proc -> Shells] /\ envFile \in EnvFiles
  /\ conf \in Confs /\ wg \in BOOLEAN
  /\ pc = [p \in Proc |-> "off"]
  /\ cfg = [p \in Proc |-> None]
  /\ ident = [p \in Proc |-> None]
  /\ keyFile = [f \in Files |-> None] /\ made = 0
  /\ sock = [i \in Ifaces |-> None]
  /\ raced = {} /\ used = [f \in Files |-> {}]
  /\ faults = MaxFaults

Fault(kind) == /\ kind \in Faults
               /\ faults > 0
               /\ faults' = faults - 1

Goto(p, step) == pc' = [pc EXCEPT ![p] = step]

-----------------------------------------------------------------------------
(* The settings are read; without usable keys the program ends at once.    *)
Start(p) ==
  /\ pc[p] = "off"
  /\ Usable(Told(p).keys)
  /\ cfg' = [cfg EXCEPT ![p] = Told(p)]
  /\ Goto(p, "read")
  /\ UNCHANGED <<given, ident, keyFile, made, sock, raced, used, faults>>

(* What the end of a program leaves behind: its socket's path. *)
Left(p) == sock' = [i \in Ifaces |-> IF sock[i] = p THEN Stale ELSE sock[i]]

(* log.Fatalf. *)
Die(p) ==
  /\ Goto(p, "off")
  /\ cfg' = [cfg EXCEPT ![p] = None]
  /\ ident' = [ident EXCEPT ![p] = None]
  /\ Left(p)
  /\ UNCHANGED <<given, made, raced, used>>

Kill(p) ==
  /\ pc[p] # "off"
  /\ Fault("kill")
  /\ Die(p)
  /\ UNCHANGED keyFile

-----------------------------------------------------------------------------
File(p) == cfg[p].file

(* Is another program about to store its identity in the file of p? *)
Storing(p) == \E q \in Proc \ {p} : pc[q] \in {"store", "write"}
                                    /\ File(q) = File(p)

(* If so, the two race for the file when p reads it. *)
Race(p) == raced' = raced \union (IF Storing(p) THEN {File(p)} ELSE {})

(* With its identity a program goes on to the network. *)
GoOn(p, id) == /\ Goto(p, "bind")
               /\ used' = [used EXCEPT ![File(p)] = @ \union {id}]

(* loadOrCreatePeerNostrKeypair: an identity is in the file, ... *)
LoadKey(p) ==
  /\ pc[p] = "read"
  /\ keyFile[File(p)] # None
  /\ ident' = [ident EXCEPT ![p] = keyFile[File(p)]]
  /\ Race(p)
  /\ GoOn(p, keyFile[File(p)])
  /\ UNCHANGED <<given, cfg, keyFile, made, sock, faults>>

(* ... or what is there is refused (external: the library may also take an *)
(* empty file for a key), ...                                              *)
RefuseKey(p) ==
  /\ pc[p] = "read"
  /\ keyFile[File(p)] = Torn
  /\ Die(p)
  /\ UNCHANGED <<keyFile, faults>>

(* ... or a new identity is made, to be stored in place of what is there,  *)
NewKey(p) ==
  /\ made' = made + 1
  /\ ident' = [ident EXCEPT ![p] = made']
  /\ Race(p)
  /\ Goto(p, "store")
  /\ UNCHANGED <<given, cfg, keyFile, sock>>

(* ... because there is no file, ...                                       *)
MakeKey(p) ==
  /\ pc[p] = "read"
  /\ keyFile[File(p)] = None
  /\ NewKey(p)
  /\ UNCHANGED <<used, faults>>

(* ... or because there is one and reading it has failed, for whatever     *)
(* reason: the identity in it is given up, ...                             *)
UnreadKey(p) ==
  /\ pc[p] = "read"
  /\ keyFile[File(p)] # None
  /\ Fault("read")
  /\ NewKey(p)
  /\ used' = [used EXCEPT ![File(p)] = {}]

(* ... for which WriteFile first makes an empty file.                      *)
CreateFile(p) ==
  /\ pc[p] = "store"
  /\ keyFile' = [keyFile EXCEPT ![File(p)] = Torn]
  /\ Goto(p, "write")
  /\ UNCHANGED <<given, cfg, ident, made, sock, raced, used, faults>>

WriteFile(p) ==
  /\ pc[p] = "write"
  /\ keyFile' = [keyFile EXCEPT ![File(p)] = ident[p]]
  /\ GoOn(p, ident[p])
  /\ UNCHANGED <<given, cfg, ident, made, sock, raced, faults>>

(* Mutant of StoreFails: the program goes on with its new identity. *)
MutStoreFailsGoesOn(p) ==
  /\ pc[p] \in {"store", "write"}
  /\ Fault("store")
  /\ GoOn(p, ident[p])
  /\ UNCHANGED <<given, cfg, ident, keyFile, made, sock, raced>>

(* The directory or the file cannot be made, or not be written. *)
StoreFails(p) ==
  /\ pc[p] \in {"store", "write"}
  /\ Fault("store")
  /\ Die(p)
  /\ UNCHANGED keyFile

-----------------------------------------------------------------------------
(* What only one program may have, a port or an interface. *)
Free(p, what, holders) ==
  \A q \in Proc \ {p} : pc[q] \in holders => cfg[q][what] # cfg[p][what]

Takes(p, what, holders, next) ==
  /\ IF Free(p, what, holders)
     THEN /\ Goto(p, next)
          /\ UNCHANGED <<given, cfg, ident, made, sock, raced, used>>
     ELSE Die(p)
  /\ UNCHANGED <<keyFile, faults>>

(* ListenUDP, on all addresses. *)
BindUdp(p) == pc[p] = "bind" /\ Takes(p, "port", HasPort, "tun")

(* Mutant of CreateTun: it comes last, and its failure is ignored. *)
MutCreateTunAny(p) ==
  /\ pc[p] = "tun"
  /\ Goto(p, "uapi")
  /\ UNCHANGED <<given, cfg, ident, keyFile, made, sock, raced, used, faults>>

(* CreateTUN, and the device gets its private key. *)
CreateTun(p) == pc[p] = "tun" /\ Takes(p, "iface", HasIface, "uapi")

Path(p) == cfg[p].iface

(* Mutant of RemoveSocket: a path that is there is left alone. *)
MutRemoveSocketNot(p) ==
  /\ pc[p] = "uapi"
  /\ Goto(p, "listen")
  /\ UNCHANGED <<given, cfg, ident, keyFile, made, sock, raced, used, faults>>

(* startUAPI removes whatever is at the path of its socket, ... *)
RemoveSocket(p) ==
  /\ pc[p] = "uapi"
  /\ sock' = [sock EXCEPT ![Path(p)] = None]
  /\ Goto(p, "listen")
  /\ UNCHANGED <<given, cfg, ident, keyFile, made, raced, used, faults>>

(* ... and listens, which fails if there is something again. *)
ListenUnix(p) ==
  /\ pc[p] = "listen"
  /\ IF sock[Path(p)] = None
     THEN /\ sock' = [sock EXCEPT ![Path(p)] = p]
          /\ Goto(p, "route")
          /\ UNCHANGED <<given, cfg, ident, made, raced, used>>
     ELSE Die(p)
  /\ UNCHANGED <<keyFile, faults>>

(* The interface gets its address, as far as the command ip succeeds, and  *)
(* then the route to the room.                                             *)
AddRoute(p) ==
  /\ pc[p] = "route"
  /\ Goto(p, "up")
  /\ UNCHANGED <<given, cfg, ident, keyFile, made, sock, raced, used, faults>>

(* Any of these steps may fail for another reason, which ends the program. *)
StepFails(p) ==
  /\ pc[p] \in HasKey \ {"up"}
  /\ Fault("step")
  /\ Die(p)
  /\ UNCHANGED keyFile

-----------------------------------------------------------------------------
Main(p) ==
  \/ LoadKey(p) \/ RefuseKey(p) \/ MakeKey(p) \/ UnreadKey(p)
  \/ CreateFile(p) \/ WriteFile(p) \/ StoreFails(p)
  \/ BindUdp(p) \/ CreateTun(p) \/ RemoveSocket(p) \/ ListenUnix(p)
  \/ AddRoute(p) \/ StepFails(p)

Next == \E p \in Proc : Start(p) \/ Main(p) \/ Kill(p)

Spec == Init /\ [][Next]_vars

(* Programs go on, and one that has ended is started again. *)
FairSpec == Spec /\ \A p \in Proc : WF_vars(Start(p)) /\ WF_vars(Main(p))

-----------------------------------------------------------------------------
TypeOK ==
  /\ pc \in [Proc -> Steps]
  /\ \A p \in Proc : /\ cfg[p] = IF pc[p] = "off" THEN None ELSE Told(p)
                     /\ ident[p] \in 1 .. made \union {Torn, None}
                     /\ pc[p] # "off" => cfg[p].port \in Port
  /\ keyFile \in [Files -> 1 .. made \union {Torn, None}]
  /\ sock \in [Ifaces -> Proc \union {Stale, None}]
  /\ raced \subseteq Files
  /\ used \in [Files -> SUBSET (1 .. made \union {Torn, None})]
  /\ faults \in 0 .. MaxFaults

(* What was set in the shell holds, whatever .env.punchwg says: "Values    *)
(* already present in the shell environment take precedence"               *)
(* (src/README.md:90).  src/README.md:16 has the opposite order, "from     *)
(* .env.punchwg, then fall back to process environment variables": the two *)
(* differ for a variable set in both, and the code does the first.  A      *)
(* program announces the public key of the private key its device has,     *)
(* from whichever source this is.  (If somebody has given it a public key, *)
(* it announces that one and never compares the two.)                      *)
SettingsHold ==
  \A p \in Proc : cfg[p] # None =>
    /\ Trim(shell[p].ROOM) # Unset => cfg[p].room = shell[p].ROOM
    /\ Trim(shell[p].WG_IFACE) # Unset => cfg[p].iface = shell[p].WG_IFACE
    /\ Trim(shell[p].WG_PRIVKEY) # Unset =>
         cfg[p].keys.priv = shell[p].WG_PRIVKEY
    /\ \/ cfg[p].keys.pub = PubOf(cfg[p].keys.priv)
       \/ Trim(Env(p).WG_PUBKEY) # Unset

(* All programs that have ever gone on with an identity from one file have *)
(* gone on with that which is in it now, wherever any of them was killed   *)
(* or failed: "generated locally on first run and reused afterwards".  The *)
(* code keeps this with two exceptions.  One that cannot read the file     *)
(* puts a new identity in its place, whatever the reason: what was used    *)
(* before that is given up.  And two programs may make one for the same    *)
(* file at the same time.                                                  *)
IdentityKept == \A f \in Files \ raced : used[f] \subseteq {keyFile[f]}

(* A program that has come past startUAPI is the one whose socket is at    *)
(* its path: none takes it away from another, by being given the same      *)
(* interface, before it has failed for that.                               *)
UapiIsOwn == \A p \in Proc : pc[p] \in HasSocket => sock[Path(p)] = p

Conflict(p, q) == \/ Told(p).port = Told(q).port
                  \/ Told(p).iface = Told(q).iface

(* Started again and again, a program comes up, also over what has been    *)
(* left by the last one: unless its keys are unusable, its key file has    *)
(* been torn, or another program is up that has its port or its interface. *)
ComesUp ==
  \A p \in Proc : <>[](\/ pc[p] = "up"
                       \/ ~Usable(Told(p).keys)
                       \/ keyFile[Told(p).file] = Torn
                       \/ \E q \in Proc \ {p} : pc[q] = "up" /\ Conflict(p, q))
=============================================================================
