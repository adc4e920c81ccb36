----------------------------- MODULE MCStartup ------------------------------
(* Small instances of Startup: shells, files and keys that get into each   *)
(* other's way.                                                            *)
EXTENDS Startup, TLC

CONSTANTS p1, p2, r1, r2, r3, k1, k2, wg0, wg1, file0, file1

Bare == [x \in {"ROOM", "WG_PORT", "WG_IFACE", "NOSTR_KEY_FILE",
                "WG_PRIVKEY", "WG_PUBKEY"} |-> Unset]

SomeShells ==
  {[Bare EXCEPT !.ROOM = r1, !.WG_PORT = 70000],
   [Bare EXCEPT !.ROOM = Blank, !.WG_PRIVKEY = k1, !.WG_PORT = 7],
   [Bare EXCEPT !.WG_IFACE = wg1, !.WG_PRIVKEY = k1, !.WG_PUBKEY = <<k1>>,
                !.WG_PORT = 8],
   [Bare EXCEPT !.WG_PUBKEY = <<k1>>, !.NOSTR_KEY_FILE = file1]}

Line(key, val) == [key |-> key, val |-> val]

SomeEnvFiles ==
  {<<>>,
   <<Line("ROOM", Unset), Line("ROOM", r2), Line("ROOM", r3),
     Line("WG_PRIVKEY", k2), Line("WG_IFACE", wg0)>>}

SomeConfs ==
  {None,
   <<Line("privatekey", k1), Line("[interface]", Unset),
     Line("privatekey", k2), Line("privatekey", k1)>>}
=============================================================================
