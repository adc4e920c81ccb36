------------------------------ MODULE Settings ------------------------------
(***************************************************************************)
(* How a program settles what it is told: config.go, readWGConf, and what  *)
(* main makes of them (the three programs do the same).  An environment is *)
(* a function from names to values, a file a sequence of its lines, in     *)
(* which blanks, quotes and comments have been stripped.                   *)
(***************************************************************************)
EXTENDS Naturals, Sequences

CONSTANTS
  Unset, \* an environment variable that is missing or empty
  Blank, \* one that holds nothing but blanks
  Junk,  \* one that is no number and no key
  None   \* a missing file

Trim(v) == IF v = Blank THEN Unset ELSE v

(* Mutant of Settled: the file counts for more than the shell. *)
MutSettledFile(old, new) == IF new = Unset THEN old ELSE new

(* The value of a variable after a line of the file has been read: only a  *)
(* variable without a value gets one.                                      *)
Settled(old, new) == IF old = Unset THEN new ELSE old

(* loadEnvFile, with a missing file as an empty one. *)
LoadEnvFile(env, lines) ==
  LET after[i \in 0 .. Len(lines)] ==
        IF i = 0 THEN env
        ELSE [after[i - 1] EXCEPT ![lines[i].key] = Settled(@, lines[i].val)]
  IN after[Len(lines)]

GetEnvTrim(v, def) == IF Trim(v) = Unset THEN def ELSE v

Port == 1 .. 65535

(* Mutant of GetEnvInt: any number will do. *)
MutGetEnvIntAny(v, def) == IF v \in 0 .. 99999 THEN v ELSE def

(* A port is a number that fits in 16 bits and is not 0. *)
GetEnvInt(v, def) == IF v \in Port THEN v ELSE def

-----------------------------------------------------------------------------
(* pubFromPriv: a public key is written as the tuple of its private key. *)
PubOf(priv) == <<priv>>

(* The lines of a wg-quick file are sections and entries. *)
InInterface(lines, i) ==
  \E j \in 1 .. i - 1 :
    /\ lines[j] = [key |-> "[interface]", val |-> Unset]
    /\ \A k \in j + 1 .. i - 1 : lines[k].key \notin {"[interface]", "[peer]"}

(* readWGConf: the first private key in a section on the interface.        *)
PrivateKey(lines) ==
  LET keys == {i \in 1 .. Len(lines) : /\ lines[i].key = "privatekey"
                                       /\ lines[i].val # Unset
                                       /\ InInterface(lines, i)}
  IN IF keys = {} THEN Unset
     ELSE lines[CHOOSE i \in keys : \A j \in keys : i <= j].val

(* The key pair.  The file is looked at only if one of the two is missing, *)
(* and without it no public key is derived; nor without the command wg.    *)
KeyPair(env, conf, wg) ==
  LET priv0 == Trim(env.WG_PRIVKEY)
      pub0  == Trim(env.WG_PUBKEY)
      read  == Unset \in {priv0, pub0} /\ conf # None
      priv  == IF read /\ priv0 = Unset THEN PrivateKey(conf) ELSE priv0
      pub   == IF read /\ pub0 = Unset /\ priv \notin {Unset, Junk} /\ wg
               THEN PubOf(priv) ELSE pub0
  IN [priv |-> priv, pub |-> pub]

(* Both keys must be there and well-formed, which is not to say a pair.    *)
Usable(keys) == {keys.priv, keys.pub} \intersect {Unset, Junk} = {}
=============================================================================
