----------------------------- MODULE StunMessage ----------------------------
(***************************************************************************)
(* parseSTUNResponse (tor/ and nostr/ have the same): the walk over the    *)
(* attributes of a binding response.  Of the bytes only the layout is kept:*)
(* where an attribute begins, the length its header states, and the mapped *)
(* address in it, if there is one.                                         *)
(***************************************************************************)
EXTENDS Naturals, Sequences

CONSTANTS
  None,   \* no mapped address: an error is returned
  Panic   \* a slice expression is out of range: the program dies

ASSUME MessageAssumption == None # Panic

(* A message has its attributes, each of type "xor" (XOR-MAPPED-ADDRESS),  *)
(* "mapped" (MAPPED-ADDRESS) or "other", the length its header states for  *)
(* them together, and the number of bytes that follow the header.          *)
Uint16 == 65536

Padded(len) == ((len + 3) \div 4) * 4

(* The bytes that attributes take. *)
PaddedSize(attrs) ==
  LET size[i \in 0 .. Len(attrs)] ==
        IF i = 0 THEN 0 ELSE size[i - 1] + 4 + Padded(attrs[i].len)
  IN size[Len(attrs)]

(* The address found, after another attribute: one in MAPPED-ADDRESS       *)
(* counts only as long as there is no other.                               *)
Mapped(a, found) ==
  IF /\ a.type = "xor" \/ (a.type = "mapped" /\ found = None)
     /\ a.len >= 8 /\ a.ipv4
  THEN a.ep ELSE found

(* Mutant of Fits: the attribute's own header is forgotten. *)
MutFitsNoHeader(len, rest) == len <= rest

(* The guard before val is sliced. *)
Fits(len, rest) == len <= rest - 4

(* One of the slice expressions is out of range: attrs[4:4+aLen], whose    *)
(* bound is a uint16, or attrs[4+padded:].                                 *)
Overrun(len, rest) ==
  LET end == (4 + len) % Uint16
  IN end < 4 \/ end > rest \/ 4 + Padded(len) > rest

(* The loop: whether it goes on, the bytes left and the address so far.    *)
(* One turn of it, with a the next attribute, ...                          *)
Turn(loop, a) ==
  IF ~loop.on \/ loop.rest < 4 \/ ~Fits(a.len, loop.rest)
  THEN [loop EXCEPT !.on = FALSE]
  ELSE IF Overrun(a.len, loop.rest)
       THEN [loop EXCEPT !.on = FALSE, !.found = Panic]
       ELSE [on |-> TRUE, rest |-> loop.rest - 4 - Padded(a.len),
             found |-> Mapped(a, loop.found)]

(* ... and all of them. *)
Walk(m) ==
  LET loop[i \in 0 .. Len(m.attrs)] ==
        IF i = 0 THEN [on |-> TRUE, rest |-> m.size, found |-> None]
                 ELSE Turn(loop[i - 1], m.attrs[i])
  IN loop[Len(m.attrs)].found

(* The length in the header is checked against what has arrived. *)
Parse(m) == IF m.size > m.avail THEN None ELSE Walk(m)
=============================================================================
