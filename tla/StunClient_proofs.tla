-------------------------- MODULE StunClient_proofs -------------------------
(***************************************************************************)
(* Proofs about StunClient.tla for any number of servers, transactions,    *)
(* attributes and faults: that the parser reads what the servers send, by  *)
(* induction over the attributes of an answer, and from that what queries  *)
(* result in.                                                              *)
(***************************************************************************)
EXTENDS StunClient, WellFoundedInduction, SequenceTheorems, TLAPS

(* Induction from the well-foundedness of the natural numbers: a set of    *)
(* them with 0 that is closed under the successor has them all.            *)
Below == OpToRel(<, Nat)

LEMMA BelowIsLess == \A x, y \in Nat : <<y, x>> \in Below <=> y < x
BY DEF Below, OpToRel

LEMMA BelowWellFounded == IsWellFoundedOn(Below, Nat)
BY NatLessThanWellFounded DEF Below

LEMMA SetInduction ==
  ASSUME NEW S, 0 \in S, \A n \in Nat : n \in S => n + 1 \in S
  PROVE  \A n \in Nat : n \in S
<1> DEFINE T == {n \in Nat : n \notin S}
<1>1. CASE T = {}
  BY <1>1
<1>2. CASE T # {}
  <2>1. PICK x \in T : \A y \in T : <<y, x>> \notin Below
    <3> T \subseteq Nat
      OBVIOUS
    <3> HIDE DEF T
    <3> QED
      BY <1>2, BelowWellFounded, WFMin
  <2>2. x # 0 /\ x \in Nat /\ x - 1 \in Nat /\ x - 1 < x
    OBVIOUS
  <2>3. <<x - 1, x>> \in Below
    BY <2>2, BelowIsLess
  <2>4. x - 1 \in S
    BY <2>1, <2>2, <2>3
  <2>5. x - 1 + 1 \in S
    BY <2>2, <2>4
  <2> QED
    BY <2>2, <2>5
<1> QED
  BY <1>1, <1>2


-----------------------------------------------------------------------------
(* The recursions of PaddedSize and Walk, after the first n attributes. *)
Sizes(f, attrs, n) ==
  f = [i \in 0 .. n |->
         IF i = 0 THEN 0 ELSE f[i - 1] + 4 + Padded(attrs[i].len)]

Entry(m) == [on |-> TRUE, rest |-> m.size, found |-> None]

Turns(f, m, n) ==
  f = [i \in 0 .. n |->
         IF i = 0 THEN Entry(m) ELSE Turn(f[i - 1], m.attrs[i])]

LEMMA SizesExists ==
  ASSUME NEW attrs
  PROVE  \A n \in Nat : \E f : Sizes(f, attrs, n)
<1> DEFINE S == {n \in Nat : \E f : Sizes(f, attrs, n)}
<1>1. 0 \in S
  <2>1. Sizes([i \in 0 .. 0 |-> 0], attrs, 0)
    BY DEF Sizes
  <2> QED
    BY <2>1
<1>2. ASSUME NEW n \in Nat, n \in S
      PROVE  n + 1 \in S
  <2>1. PICK f : Sizes(f, attrs, n)
    BY <1>2
  <2> DEFINE g == [i \in 0 .. n + 1 |->
                    IF i = n + 1 THEN f[n] + 4 + Padded(attrs[i].len)
                    ELSE f[i]]
  <2>2. \A i \in 0 .. n : g[i] = f[i]
    OBVIOUS
  <2>3. ASSUME NEW i \in 0 .. n + 1
        PROVE  g[i] = IF i = 0 THEN 0
                      ELSE g[i - 1] + 4 + Padded(attrs[i].len)
    <3>1. CASE i = n + 1
      <4>1. i # 0 /\ i - 1 = n /\ g[n] = f[n]
        BY <3>1, <2>2
      <4> QED
        BY <3>1, <4>1
    <3>2. CASE i # n + 1 /\ i # 0
      <4>1. i \in 0 .. n /\ i - 1 \in 0 .. n
        BY <3>2
      <4>2. g[i] = f[i] /\ g[i - 1] = f[i - 1]
        BY <2>2, <4>1
      <4> QED
        BY <2>1, <3>2, <4>1, <4>2 DEF Sizes
    <3>3. CASE i # n + 1 /\ i = 0
      BY <2>1, <2>2, <3>3 DEF Sizes
    <3> QED
      BY <3>1, <3>2, <3>3
  <2>4. Sizes(g, attrs, n + 1)
    <3>1. g = [i \in 0 .. n + 1 |-> g[i]]
      OBVIOUS
    <3> HIDE DEF g
    <3> QED
      BY <2>3, <3>1 DEF Sizes
  <2> QED
    BY <2>4
<1> HIDE DEF S
<1>3. \A n \in Nat : n \in S
  BY <1>1, <1>2, SetInduction
<1> QED
  BY <1>3 DEF S

LEMMA TurnsExists ==
  ASSUME NEW m
  PROVE  \A n \in Nat : \E f : Turns(f, m, n)
<1> DEFINE S == {n \in Nat : \E f : Turns(f, m, n)}
<1>1. 0 \in S
  <2>1. Turns([i \in 0 .. 0 |-> Entry(m)], m, 0)
    BY DEF Turns
  <2> QED
    BY <2>1
<1>2. ASSUME NEW n \in Nat, n \in S
      PROVE  n + 1 \in S
  <2>1. PICK f : Turns(f, m, n)
    BY <1>2
  <2> DEFINE g == [i \in 0 .. n + 1 |->
                    IF i = n + 1 THEN Turn(f[n], m.attrs[i]) ELSE f[i]]
  <2>2. \A i \in 0 .. n : g[i] = f[i]
    OBVIOUS
  <2>3. ASSUME NEW i \in 0 .. n + 1
        PROVE  g[i] = IF i = 0 THEN Entry(m)
                      ELSE Turn(g[i - 1], m.attrs[i])
    <3>1. CASE i = n + 1
      <4>1. i # 0 /\ i - 1 = n /\ g[n] = f[n]
        BY <3>1, <2>2
      <4> QED
        BY <3>1, <4>1
    <3>2. CASE i # n + 1 /\ i # 0
      <4>1. i \in 0 .. n /\ i - 1 \in 0 .. n
        BY <3>2
      <4>2. g[i] = f[i] /\ g[i - 1] = f[i - 1]
        BY <2>2, <4>1
      <4> QED
        BY <2>1, <3>2, <4>1, <4>2 DEF Turns
    <3>3. CASE i # n + 1 /\ i = 0
      BY <2>1, <2>2, <3>3 DEF Turns
    <3> QED
      BY <3>1, <3>2, <3>3
  <2>4. Turns(g, m, n + 1)
    <3>1. g = [i \in 0 .. n + 1 |-> g[i]]
      OBVIOUS
    <3> HIDE DEF g
    <3> QED
      BY <2>3, <3>1 DEF Turns
  <2> QED
    BY <2>4
<1> HIDE DEF S
<1>3. \A n \in Nat : n \in S
  BY <1>1, <1>2, SetInduction
<1> QED
  BY <1>3 DEF S

LEMMA PaddedSizeAdds ==
  ASSUME NEW attrs, Len(attrs) \in Nat
  PROVE  \E f : /\ Sizes(f, attrs, Len(attrs))
                /\ PaddedSize(attrs) = f[Len(attrs)]
<1>1. \E f : Sizes(f, attrs, Len(attrs))
  BY SizesExists
<1> QED
  BY <1>1 DEF PaddedSize, Sizes

LEMMA WalkTurns ==
  ASSUME NEW m, Len(m.attrs) \in Nat
  PROVE  \E f : /\ Turns(f, m, Len(m.attrs))
                /\ Walk(m) = f[Len(m.attrs)].found
<1>1. \E f : Turns(f, m, Len(m.attrs))
  BY TurnsExists
<1> QED
  BY <1>1 DEF Walk, Turns, Entry

LEMMA SmallModulus ==
  ASSUME NEW x \in Nat, NEW m \in Nat \ {0}, x < m
  PROVE  x % m = x
OBVIOUS

(* One step of the walk: as long as attributes are padded, so that what is *)
(* left of an answer is a multiple of four bytes, the guard keeps both     *)
(* slice expressions in range, also for lengths near 65535, and what is    *)
(* left after them is such a multiple again.                               *)
LEMMA WalkStaysInside ==
  ASSUME NEW len \in 0 .. Uint16 - 1, NEW quarter \in Nat,
         4 * quarter < Uint16, Fits(len, 4 * quarter)
  PROVE  /\ ~Overrun(len, 4 * quarter)
         /\ \E k \in Nat : 4 * quarter - 4 - Padded(len) = 4 * k
<1> DEFINE n == (len + 3) \div 4
<1>1. n \in Nat /\ 4 * n <= len + 3 /\ len <= 4 * n
  OBVIOUS
<1>2. len <= 4 * quarter - 4
  BY DEF Fits
<1>3. n <= quarter - 1
  BY <1>1, <1>2
<1>4. (4 + len) % Uint16 = 4 + len
  <2>1. Uint16 \in Nat \ {0} /\ 4 + len \in Nat /\ 4 + len < Uint16
    BY <1>2 DEF Uint16
  <2> QED
    BY <2>1, SmallModulus
<1>5. ~Overrun(len, 4 * quarter)
  BY <1>1, <1>2, <1>3, <1>4 DEF Overrun, Padded
<1>6. /\ quarter - 1 - n \in Nat
      /\ 4 * quarter - 4 - Padded(len) = 4 * (quarter - 1 - n)
  BY <1>1, <1>3 DEF Padded
<1> QED
  BY <1>5, <1>6

LEMMA PaddedBounds ==
  ASSUME NEW len \in Nat
  PROVE  Padded(len) \in Nat /\ len <= Padded(len) /\ Padded(len) <= len + 3
<1> DEFINE n == (len + 3) \div 4
<1>1. n \in Nat /\ 4 * n <= len + 3 /\ len <= 4 * n
  OBVIOUS
<1>2. Padded(len) = 4 * n
  BY <1>1 DEF Padded
<1> QED
  BY <1>1, <1>2

Lengths == 0 .. Uint16 - 1

(* The loop has a number of whole words left and has not panicked. *)
Words(loop, T) ==
  /\ loop \in [on : BOOLEAN, rest : Nat, found : T]
  /\ loop.rest < Uint16
  /\ \E k \in Nat : loop.rest = 4 * k

LEMMA TurnKeepsWords ==
  ASSUME NEW T, NEW loop, Words(loop, T),
         NEW a, a.len \in Lengths, a.ep \in T
  PROVE  Words(Turn(loop, a), T)
<1>1. CASE ~loop.on \/ loop.rest < 4 \/ ~Fits(a.len, loop.rest)
  <2>1. loop \in [on : BOOLEAN, rest : Nat, found : T]
    BY DEF Words
  <2>2. /\ [loop EXCEPT !.on = FALSE].on = FALSE
        /\ [loop EXCEPT !.on = FALSE].rest = loop.rest
        /\ [loop EXCEPT !.on = FALSE]
             \in [on : BOOLEAN, rest : Nat, found : T]
    BY <2>1
  <2>3. Turn(loop, a) = [loop EXCEPT !.on = FALSE]
    BY <1>1 DEF Turn
  <2> QED
    BY <2>2, <2>3 DEF Words
<1>2. CASE ~(~loop.on \/ loop.rest < 4 \/ ~Fits(a.len, loop.rest))
  <2>1. PICK k \in Nat : loop.rest = 4 * k
    BY DEF Words
  <2>2. 4 * k < Uint16
    BY <2>1 DEF Words
  <2>3. /\ ~Overrun(a.len, 4 * k)
        /\ \E j \in Nat : 4 * k - 4 - Padded(a.len) = 4 * j
    BY <1>2, <2>1, <2>2, WalkStaysInside DEF Lengths
  <2>4. PICK j \in Nat : 4 * k - 4 - Padded(a.len) = 4 * j
    BY <2>3
  <2>5. Turn(loop, a) = [on |-> TRUE, rest |-> 4 * j,
                         found |-> Mapped(a, loop.found)]
    BY <1>2, <2>1, <2>3, <2>4 DEF Turn
  <2>6. Mapped(a, loop.found) \in T
    BY DEF Mapped, Words
  <2>7. 4 * j <= 4 * k
    <3>1. Padded(a.len) \in Nat
      <4>1. a.len \in Nat
        BY DEF Lengths
      <4> QED
        BY <4>1, PaddedBounds
    <3> QED
      BY <2>4, <3>1
  <2> QED
    BY <2>2, <2>5, <2>6, <2>7 DEF Words, Uint16
<1> QED
  BY <1>1, <1>2

(* parseSTUNResponse slices an answer nowhere beyond its end, whatever     *)
(* attributes it has and whatever lengths they state, as long as the       *)
(* length in the header is a multiple of four, as the protocol has it.     *)
THEOREM WalkNeverPanics ==
  ASSUME NEW m, Len(m.attrs) \in Nat,
         m.size \in Nat, m.size < Uint16, \E k \in Nat : m.size = 4 * k,
         \A i \in 1 .. Len(m.attrs) : /\ m.attrs[i].len \in Lengths
                                      /\ m.attrs[i].ep # Panic
  PROVE  Walk(m) # Panic
<1> DEFINE T == {None} \union {m.attrs[i].ep : i \in 1 .. Len(m.attrs)}
<1>0. /\ Panic \notin T /\ None \in T
      /\ \A i \in 1 .. Len(m.attrs) : m.attrs[i].ep \in T
  BY MessageAssumption
<1> HIDE DEF T
<1>1. PICK f : /\ Turns(f, m, Len(m.attrs))
               /\ Walk(m) = f[Len(m.attrs)].found
  BY WalkTurns
<1>2. \A i \in 0 .. Len(m.attrs) :
        f[i] = IF i = 0 THEN Entry(m) ELSE Turn(f[i - 1], m.attrs[i])
  BY <1>1 DEF Turns
<1> DEFINE S == {i \in Nat : i <= Len(m.attrs) => Words(f[i], T)}
<1>3. 0 \in S
  <2>1. f[0] = Entry(m)
    BY <1>2
  <2>2. Words(Entry(m), T)
    BY <1>0 DEF Words, Entry
  <2> QED
    BY <2>1, <2>2
<1>4. ASSUME NEW n \in Nat, n \in S
      PROVE  n + 1 \in S
  <2> SUFFICES ASSUME n + 1 <= Len(m.attrs) PROVE Words(f[n + 1], T)
    OBVIOUS
  <2>1. Words(f[n], T)
    BY <1>4
  <2>2. n + 1 \in 0 .. Len(m.attrs) /\ n + 1 # 0 /\ n + 1 - 1 = n
    OBVIOUS
  <2>3. f[n + 1] = Turn(f[n + 1 - 1], m.attrs[n + 1])
    BY <1>2, <2>2
  <2>4. f[n + 1] = Turn(f[n], m.attrs[n + 1])
    BY <2>2, <2>3
  <2>5. n + 1 \in 1 .. Len(m.attrs)
    OBVIOUS
  <2>6. m.attrs[n + 1].len \in Lengths /\ m.attrs[n + 1].ep \in T
    BY <1>0, <2>5
  <2> QED
    BY <2>1, <2>4, <2>6, TurnKeepsWords
<1> HIDE DEF S
<1>5. \A n \in Nat : n \in S
  BY <1>3, <1>4, SetInduction
<1>6. Words(f[Len(m.attrs)], T)
  BY <1>5 DEF S
<1> QED
  BY <1>0, <1>1, <1>6 DEF Words

-----------------------------------------------------------------------------
(* An attribute that is in the answer as a whole is read, and the loop     *)
(* goes on after it.                                                       *)
Fit(a) == a.len \in Nat /\ 4 + a.len < Uint16

LEMMA TurnGoesOn ==
  ASSUME NEW loop, loop.on = TRUE, loop.rest \in Nat,
         NEW a, Fit(a), 4 + Padded(a.len) <= loop.rest
  PROVE  Turn(loop, a) = [on |-> TRUE, rest |-> loop.rest - 4 - Padded(a.len),
                          found |-> Mapped(a, loop.found)]
<1>1. /\ a.len \in Nat /\ Padded(a.len) \in Nat /\ a.len <= Padded(a.len)
  BY PaddedBounds DEF Fit
<1>2. Fits(a.len, loop.rest) /\ ~(loop.rest < 4)
  BY <1>1 DEF Fits
<1>3. (4 + a.len) % Uint16 = 4 + a.len
  <2>1. Uint16 \in Nat \ {0}
    BY DEF Uint16
  <2> QED
    BY <1>1, <2>1, SmallModulus DEF Fit
<1>4. ~Overrun(a.len, loop.rest)
  BY <1>1, <1>3 DEF Overrun
<1> QED
  BY <1>2, <1>4 DEF Turn

LEMMA SizesGrow ==
  ASSUME NEW attrs, NEW n \in Nat, NEW f, Sizes(f, attrs, n),
         \A i \in 1 .. n : Fit(attrs[i])
  PROVE  \A i \in 0 .. n : \A j \in 0 .. i : f[j] \in Nat /\ f[j] <= f[i]
<1> DEFINE S == {i \in Nat : i <= n => \A j \in 0 .. i : /\ f[j] \in Nat
                                                        /\ f[j] <= f[i]}
<1>0. \A i \in 0 .. n :
        f[i] = IF i = 0 THEN 0 ELSE f[i - 1] + 4 + Padded(attrs[i].len)
  BY DEF Sizes
<1>1. 0 \in S
  BY <1>0
<1>2. ASSUME NEW i \in Nat, i \in S
      PROVE  i + 1 \in S
  <2> SUFFICES ASSUME i + 1 <= n
               PROVE  \A j \in 0 .. i + 1 : /\ f[j] \in Nat
                                             /\ f[j] <= f[i + 1]
    OBVIOUS
  <2>1. f[i] \in Nat /\ \A j \in 0 .. i : f[j] \in Nat /\ f[j] <= f[i]
    BY <1>2
  <2>2. i + 1 \in 0 .. n /\ i + 1 # 0 /\ i + 1 - 1 = i /\ i + 1 \in 1 .. n
    OBVIOUS
  <2>3. f[i + 1] = f[i + 1 - 1] + 4 + Padded(attrs[i + 1].len)
    BY <1>0, <2>2
  <2>4. f[i + 1] = f[i] + 4 + Padded(attrs[i + 1].len)
    BY <2>2, <2>3
  <2>5. Padded(attrs[i + 1].len) \in Nat
    BY <2>2, PaddedBounds DEF Fit
  <2>6. f[i + 1] \in Nat /\ f[i] <= f[i + 1]
    BY <2>1, <2>4, <2>5
  <2>7. ASSUME NEW j \in 0 .. i + 1 PROVE f[j] \in Nat /\ f[j] <= f[i + 1]
    <3>1. CASE j = i + 1
      BY <2>6, <3>1
    <3>2. CASE j \in 0 .. i
      <4>1. f[j] <= f[i] /\ f[j] \in Nat
        BY <2>1, <3>2
      <4> QED
        BY <2>1, <2>6, <4>1
    <3> QED
      BY <3>1, <3>2
  <2> QED
    BY <2>7
<1> HIDE DEF S
<1>3. \A i \in Nat : i \in S
  BY <1>1, <1>2, SetInduction
<1> QED
  BY <1>3 DEF S

(* Of an answer that has all its attributes, each is read in turn. *)
LEMMA WholeIsRead ==
  ASSUME NEW attrs, Len(attrs) \in Nat,
         \A i \in 1 .. Len(attrs) : Fit(attrs[i])
  PROVE  \E found :
           /\ found[0] = None
           /\ \A i \in 1 .. Len(attrs) :
                found[i] = Mapped(attrs[i], found[i - 1])
           /\ Parse(Whole(attrs)) = found[Len(attrs)]
<1> DEFINE n == Len(attrs)
           m == Whole(attrs)
<1>1. PICK z : Sizes(z, attrs, n) /\ PaddedSize(attrs) = z[n]
  BY PaddedSizeAdds
<1>2. \A i \in 0 .. n : \A j \in 0 .. i : z[j] \in Nat /\ z[j] <= z[i]
  BY <1>1, SizesGrow
<1>3. m.attrs = attrs /\ m.size = z[n] /\ m.avail = z[n] /\ z[n] \in Nat
  BY <1>1, <1>2 DEF Whole, Body
<1>4. PICK f : Turns(f, m, n) /\ Walk(m) = f[n].found
  BY <1>3, WalkTurns
<1> HIDE DEF m
<1>5. \A i \in 0 .. n :
        f[i] = IF i = 0 THEN Entry(m) ELSE Turn(f[i - 1], attrs[i])
  BY <1>3, <1>4 DEF Turns
<1>6. \A i \in 0 .. n :
        z[i] = IF i = 0 THEN 0 ELSE z[i - 1] + 4 + Padded(attrs[i].len)
  BY <1>1 DEF Sizes
<1> DEFINE At(i) == f[i].on = TRUE /\ f[i].rest = z[n] - z[i]
           S == {i \in Nat : i <= n => At(i)}
<1>7. ASSUME NEW i \in 1 .. n, At(i - 1)
      PROVE  At(i) /\ f[i].found = Mapped(attrs[i], f[i - 1].found)
  <2>1. /\ i \in 0 .. n /\ i # 0 /\ i - 1 \in 0 .. n /\ i - 1 \in 0 .. i
        /\ n \in 0 .. n /\ i \in 0 .. n
    OBVIOUS
  <2>2. f[i] = Turn(f[i - 1], attrs[i])
    BY <1>5, <2>1
  <2>3. z[i] = z[i - 1] + 4 + Padded(attrs[i].len)
    BY <1>6, <2>1
  <2>4. /\ z[i] \in Nat /\ z[i - 1] \in Nat /\ z[n] \in Nat
        /\ z[i] <= z[n] /\ z[i - 1] <= z[n]
    BY <1>2, <2>1
  <2>5. Fit(attrs[i]) /\ Padded(attrs[i].len) \in Nat
    BY PaddedBounds DEF Fit
  <2>6. /\ f[i - 1].on = TRUE /\ f[i - 1].rest \in Nat
        /\ 4 + Padded(attrs[i].len) <= f[i - 1].rest
    BY <1>7, <2>3, <2>4, <2>5
  <2>7. f[i] = [on |-> TRUE,
                rest |-> f[i - 1].rest - 4 - Padded(attrs[i].len),
                found |-> Mapped(attrs[i], f[i - 1].found)]
    BY <2>2, <2>5, <2>6, TurnGoesOn
  <2>8. f[i - 1].rest - 4 - Padded(attrs[i].len) = z[n] - z[i]
    BY <1>7, <2>3, <2>4, <2>5
  <2> QED
    BY <2>7, <2>8
<1>8. \A i \in Nat : i \in S
  <2>1. 0 \in S
    <3>1. f[0] = Entry(m) /\ z[0] = 0
      BY <1>5, <1>6
    <3> QED
      BY <1>3, <3>1 DEF Entry
  <2>2. ASSUME NEW i \in Nat, i \in S PROVE i + 1 \in S
    <3> HIDE DEF At
    <3> SUFFICES ASSUME i + 1 <= n PROVE At(i + 1)
      OBVIOUS
    <3>1. i + 1 \in 1 .. n /\ i + 1 - 1 = i /\ At(i)
      BY <2>2
    <3> QED
      BY <1>7, <3>1
  <2> HIDE DEF S
  <2> QED
    BY <2>1, <2>2, SetInduction
<1> DEFINE found == [i \in 0 .. n |-> f[i].found]
<1>9. found[0] = None
  BY <1>5 DEF Entry
<1>10. ASSUME NEW i \in 1 .. n
       PROVE  found[i] = Mapped(attrs[i], found[i - 1])
  <2>1. i - 1 \in Nat /\ i - 1 <= n /\ i - 1 \in 0 .. n /\ i \in 0 .. n
    OBVIOUS
  <2>2. At(i - 1)
    BY <1>8, <2>1
  <2>3. f[i].found = Mapped(attrs[i], f[i - 1].found)
    BY <1>7, <2>2
  <2> QED
    BY <2>1, <2>3
<1>11. Parse(m) = found[n]
  <2>1. ~(m.size > m.avail)
    BY <1>3
  <2>2. n \in 0 .. n
    OBVIOUS
  <2> QED
    BY <1>4, <2>1, <2>2 DEF Parse
<1> QED
  BY <1>9, <1>10, <1>11 DEF m

-----------------------------------------------------------------------------
LEMMA AttrsAreSequences ==
  ASSUME NEW K, NEW s \in AttrsUpTo(K)
  PROVE  Len(s) \in Nat /\ \A i \in 1 .. Len(s) : s[i] \in K
<1>1. PICK n \in 0 .. MaxAttrs : s \in [1 .. n -> K]
  BY DEF AttrsUpTo
<1>2. s \in Seq(K)
  BY <1>1, SeqDef
<1> QED
  BY <1>2, LenProperties

(* What each attribute makes of the address found before it. *)
LEMMA XorCounts ==
  ASSUME NEW e, NEW x
  PROVE  Fit(Xor(e)) /\ Mapped(Xor(e), x) = e
BY DEF Fit, Xor, Attr, Mapped, Uint16

LEMMA PlainCounts ==
  ASSUME NEW e, NEW x
  PROVE  Fit(Plain(e)) /\ Mapped(Plain(e), x) = IF x = None THEN e ELSE x
BY DEF Fit, Plain, Attr, Mapped, Uint16

LEMMA UselessDoesNot ==
  ASSUME NEW a \in Useless, NEW x
  PROVE  Fit(a) /\ Mapped(a, x) = x
BY DEF Fit, Useless, Attr, Mapped, Uint16

(* The address of a server's answer is the one the server has put in. *)
LEMMA BodyIsRead ==
  ASSUME NEW e \in Endpoint, NEW b \in Bodies(e)
  PROVE  Parse(b) = e
<1> DEFINE K == {Xor(e), Plain(e), Plain(Rewritten)} \union Useless
<1>1. PICK s \in AttrsUpTo(K) :
        /\ b = Whole(s)
        /\ \/ \E i \in 1 .. Len(s) : s[i] = Xor(e)
           \/ /\ \E i \in 1 .. Len(s) : s[i] = Plain(e)
              /\ ~\E i \in 1 .. Len(s) : s[i] = Plain(Rewritten)
  BY DEF Bodies
<1> DEFINE n == Len(s)
<1>2. n \in Nat /\ \A i \in 1 .. n : s[i] \in K
  BY AttrsAreSequences
<1>3. \A i \in 1 .. n : Fit(s[i])
  BY <1>2, XorCounts, PlainCounts, UselessDoesNot
<1>4. PICK found : /\ found[0] = None
                   /\ \A i \in 1 .. n : found[i] = Mapped(s[i], found[i - 1])
                   /\ Parse(Whole(s)) = found[n]
  BY <1>2, <1>3, WholeIsRead
<1> DEFINE Before(i, a) == \E j \in 1 .. i : s[j] = a
           Pure == ~Before(n, Plain(Rewritten))
           Good(i) == /\ Before(i, Xor(e)) => found[i] = e
                      /\ Pure => found[i] \in {None, e}
                      /\ Pure /\ Before(i, Plain(e)) => found[i] = e
           S == {i \in Nat : i <= n => Good(i)}
<1>5. 0 \in S
  BY <1>4
<1>6. ASSUME NEW i \in Nat, i \in S
      PROVE  i + 1 \in S
  <2> DEFINE a == s[i + 1]
             x == found[i]
  <2>1. SUFFICES ASSUME i + 1 <= n PROVE Good(i + 1)
    OBVIOUS
  <2>2. Good(i) /\ i + 1 \in 1 .. n /\ i + 1 - 1 = i
    BY <1>6, <2>1
  <2>3. found[i + 1] = Mapped(a, x)
    BY <1>4, <2>2
  <2>4. \A c : Before(i + 1, c) <=> Before(i, c) \/ a = c
    BY <2>2
  <2>5. Pure => a # Plain(Rewritten)
    BY <2>2
  <2>6. a \in K
    BY <1>2, <2>2
  <2>7. e # None
    BY StunAssumption DEF StunAssumption
  <2> HIDE DEF a, x, Before, Pure, S
  <2>8. CASE a = Xor(e)
    <3>1. found[i + 1] = e
      BY <2>3, <2>8, XorCounts
    <3> QED
      BY <3>1
  <2>9. CASE a # Xor(e) /\ a = Plain(e)
    <3>1. found[i + 1] = IF x = None THEN e ELSE x
      BY <2>3, <2>9, PlainCounts
    <3> QED
      BY <2>2, <2>4, <2>7, <2>9, <3>1 DEF x
  <2>10. CASE a # Xor(e) /\ a # Plain(e) /\ a = Plain(Rewritten)
    <3>1. found[i + 1] = IF x = None THEN Rewritten ELSE x
      BY <2>3, <2>10, PlainCounts
    <3> QED
      BY <2>2, <2>4, <2>5, <2>7, <2>10, <3>1 DEF x
  <2>11. CASE a # Xor(e) /\ a # Plain(e) /\ a \in Useless
    <3>1. found[i + 1] = x
      BY <2>3, <2>11, UselessDoesNot
    <3> QED
      BY <2>2, <2>4, <2>11, <3>1 DEF x
  <2> QED
    BY <2>6, <2>8, <2>9, <2>10, <2>11
<1>7. n \in S
  <2> HIDE DEF S
  <2> QED
    BY <1>2, <1>5, <1>6, SetInduction
<1>8. Good(n)
  BY <1>2, <1>7
<1> QED
  BY <1>1, <1>4, <1>8

(* An answer that is of no use gives no address. *)
LEMMA UselessIsRead ==
  ASSUME NEW s \in AttrsUpTo(Useless)
  PROVE  Parse(Whole(s)) = None
<1> DEFINE n == Len(s)
<1>1. n \in Nat /\ \A i \in 1 .. n : s[i] \in Useless
  BY AttrsAreSequences
<1>2. \A i \in 1 .. n : Fit(s[i])
  BY <1>1, UselessDoesNot
<1>3. PICK found : /\ found[0] = None
                   /\ \A i \in 1 .. n : found[i] = Mapped(s[i], found[i - 1])
                   /\ Parse(Whole(s)) = found[n]
  BY <1>1, <1>2, WholeIsRead
<1> DEFINE S == {i \in Nat : i <= n => found[i] = None}
<1>4. 0 \in S
  BY <1>3
<1>5. ASSUME NEW i \in Nat, i \in S
      PROVE  i + 1 \in S
  <2>1. SUFFICES ASSUME i + 1 <= n PROVE found[i + 1] = None
    OBVIOUS
  <2>2. found[i] = None /\ i + 1 \in 1 .. n /\ i + 1 - 1 = i
    BY <1>5, <2>1
  <2>3. found[i + 1] = Mapped(s[i + 1], None)
    BY <1>3, <2>2
  <2> QED
    BY <1>1, <2>2, <2>3, UselessDoesNot
<1>6. n \in S
  <2> HIDE DEF S
  <2> QED
    BY <1>1, <1>4, <1>5, SetInduction
<1> QED
  BY <1>1, <1>3, <1>6

LEMMA CutOffIsRead ==
  ASSUME NEW a, NEW m, m.attrs = <<a>>,
         m.size < 4 \/ ~Fits(a.len, m.size)
  PROVE  Parse(m) = None
<1>1. Len(m.attrs) = 1 /\ m.attrs[1] = a
  OBVIOUS
<1>2. PICK f : Turns(f, m, 1) /\ Walk(m) = f[1].found
  BY <1>1, WalkTurns
<1>3. f[0] = Entry(m) /\ f[1] = Turn(f[1 - 1], a)
  BY <1>1, <1>2 DEF Turns
<1>4. f[1] = Turn(Entry(m), a)
  BY <1>3
<1>5. Turn(Entry(m), a).found = None
  BY DEF Turn, Entry
<1> QED
  BY <1>2, <1>4, <1>5 DEF Parse

(* The header ends the answer within its only attribute. *)
LEMMA ShortIsRead ==
  ASSUME NEW a, NEW size \in Nat, size < 4 + a.len, a.len \in Nat, NEW avail
  PROVE  Parse(Body(<<a>>, size, avail)) = None
<1> DEFINE m == Body(<<a>>, size, avail)
<1>1. m.attrs = <<a>> /\ m.size = size
  BY DEF Body
<1> HIDE DEF m
<1>2. m.size < 4 \/ ~Fits(a.len, m.size)
  BY <1>1 DEF Fits
<1>3. Parse(m) = None
  BY <1>1, <1>2, CutOffIsRead
<1> QED
  BY <1>3 DEF m

LEMMA BadIsRead ==
  ASSUME NEW b \in BadBodies
  PROVE  Parse(b) = None
<1> DEFINE X == Xor(Rewritten)
           O(len) == Attr("other", len, FALSE, None)
<1>1. \/ b \in {Whole(s) : s \in AttrsUpTo(Useless)}
      \/ \E n \in 0 .. 2 : b = Body(<<X>>, 4 * n, 12)
      \/ b = Body(<<X>>, 12, 8)
      \/ \E len \in {8, 65531, 65535} : b = Body(<<O(len)>>, 8, 8)
  BY DEF BadBodies
<1>2. CASE b \in {Whole(s) : s \in AttrsUpTo(Useless)}
  BY <1>2, UselessIsRead
<1>3. ASSUME NEW n \in 0 .. 2, b = Body(<<X>>, 4 * n, 12)
      PROVE  Parse(b) = None
  <2>1. X.len = 8 /\ 4 * n \in Nat /\ 4 * n < 12
    BY DEF Xor, Attr
  <2> HIDE DEF X
  <2> QED
    BY <1>3, <2>1, ShortIsRead
<1>4. ASSUME b = Body(<<X>>, 12, 8)
      PROVE  Parse(b) = None
  BY <1>4 DEF Body, Parse
<1>5. ASSUME NEW len \in {8, 65531, 65535}, b = Body(<<O(len)>>, 8, 8)
      PROVE  Parse(b) = None
  <2>1. len \in Nat /\ 8 <= len /\ O(len).len = len
    BY DEF Attr
  <2> HIDE DEF O
  <2> QED
    BY <1>5, <2>1, ShortIsRead
<1> QED
  BY <1>1, <1>2, <1>3, <1>4, <1>5

(* An attribute that the guard lets through, and whose padding has not     *)
(* arrived, is sliced beyond the end.                                      *)
LEMMA OddTurn ==
  ASSUME NEW loop, loop.on, loop.rest >= 4,
         NEW a, Fits(a.len, loop.rest), Overrun(a.len, loop.rest),
         loop \in [on : BOOLEAN, rest : Nat, found : {None, Rewritten}]
  PROVE  Turn(loop, a).found = Panic
<1>1. Turn(loop, a) = [loop EXCEPT !.on = FALSE, !.found = Panic]
  BY DEF Turn
<1> QED
  BY <1>1

LEMMA OddLengths ==
  ASSUME NEW len \in {1, 2, 3, 5}
  PROVE  /\ Fits(len, 4 + len) /\ 4 + len >= 4
         /\ Overrun(len, 4 + len)
<1>1. 4 + Padded(len) > 4 + len
  BY DEF Padded
<1> QED
  BY <1>1 DEF Fits, Overrun

LEMMA LoneOddIsRead ==
  ASSUME NEW a, a.len \in {1, 2, 3, 5},
         NEW m, m.attrs = <<a>>, m.size = 4 + a.len, m.avail = m.size
  PROVE  Parse(m) = Panic
<1>1. Len(m.attrs) = 1 /\ m.attrs[1] = a
  OBVIOUS
<1>2. PICK f : Turns(f, m, 1) /\ Walk(m) = f[1].found
  BY <1>1, WalkTurns
<1>3. f[0] = Entry(m) /\ f[1] = Turn(f[1 - 1], a)
  BY <1>1, <1>2 DEF Turns
<1>4. f[1] = Turn(Entry(m), a)
  BY <1>3
<1>5. /\ Entry(m).on /\ Entry(m).rest = 4 + a.len
      /\ Entry(m) \in [on : BOOLEAN, rest : Nat, found : {None, Rewritten}]
  BY DEF Entry
<1>6. Turn(Entry(m), a).found = Panic
  BY <1>5, OddLengths, OddTurn
<1>7. ~(m.size > m.avail)
  OBVIOUS
<1> QED
  BY <1>2, <1>4, <1>6, <1>7 DEF Parse

LEMMA LaterOddIsRead ==
  ASSUME NEW a, a.len = 5,
         NEW m, m.attrs = <<Xor(Rewritten), a>>, m.size = 21, m.avail = 21
  PROVE  Parse(m) = Panic
<1> DEFINE X == Xor(Rewritten)
<1>0. /\ X.len = 8 /\ X.type = "xor" /\ X.ipv4 = TRUE
      /\ X.ep = Rewritten
  BY DEF Attr, Xor
<1> HIDE DEF X
<1>1. Len(m.attrs) = 2 /\ m.attrs[1] = X /\ m.attrs[2] = a
  BY DEF X
<1>2. PICK f : Turns(f, m, 2) /\ Walk(m) = f[2].found
  BY <1>1, WalkTurns
<1>3. /\ f[0] = Entry(m)
      /\ f[1] = Turn(f[1 - 1], m.attrs[1])
      /\ f[2] = Turn(f[2 - 1], m.attrs[2])
  BY <1>2 DEF Turns
<1>4. f[1] = Turn(Entry(m), X) /\ f[2] = Turn(f[1], a)
  BY <1>1, <1>3
<1>5. Entry(m) = [on |-> TRUE, rest |-> 21, found |-> None]
  BY DEF Entry
<1>6. Padded(8) = 8 /\ Fits(8, 21) /\ ~Overrun(8, 21)
  <2>1. (4 + 8) % Uint16 = 12
    BY SmallModulus DEF Uint16
  <2> QED
    BY <2>1 DEF Padded, Fits, Overrun
<1>7. Mapped(X, None) = Rewritten
  BY <1>0 DEF Mapped
<1> DEFINE second == [on |-> TRUE, rest |-> 9, found |-> Rewritten]
<1>8. Turn(Entry(m), X) = second
  <2>1. Turn(Entry(m), X)
          = [on |-> TRUE, rest |-> 21 - 4 - Padded(8),
             found |-> Mapped(X, None)]
    BY <1>0, <1>5, <1>6 DEF Turn
  <2>2. 21 - 4 - Padded(8) = 9
    BY <1>6
  <2> QED
    BY <1>7, <2>1, <2>2
<1>9. /\ second.on /\ second.rest = 9
      /\ second \in [on : BOOLEAN, rest : Nat, found : {None, Rewritten}]
      /\ Fits(a.len, 9) /\ Overrun(a.len, 9)
  BY OddLengths
<1> HIDE DEF second
<1>10. Turn(f[1], a).found = Panic
  <2>1. Turn(second, a).found = Panic
    BY <1>9, OddTurn
  <2> QED
    BY <1>4, <1>8, <2>1, Zenon
<1>11. ~(m.size > m.avail)
  OBVIOUS
<1> QED
  BY <1>2, <1>4, <1>10, <1>11 DEF Parse

LEMMA OddIsRead ==
  ASSUME NEW b \in OddBodies
  PROVE  Parse(b) = Panic
<1> DEFINE O(len) == Attr("other", len, FALSE, None)
<1>1. \/ \E len \in {1, 2, 3, 5} : b = Body(<<O(len)>>, 4 + len, 4 + len)
      \/ b = Body(<<Xor(Rewritten), O(5)>>, 21, 21)
  BY DEF OddBodies
<1>2. ASSUME NEW len \in {1, 2, 3, 5}, b = Body(<<O(len)>>, 4 + len, 4 + len)
      PROVE  Parse(b) = Panic
  <2>1. O(len).len = len
    BY DEF Attr
  <2> HIDE DEF O
  <2>2. b.attrs = <<O(len)>> /\ b.size = 4 + len /\ b.avail = 4 + len
    BY <1>2 DEF Body
  <2> QED
    BY <2>1, <2>2, LoneOddIsRead
<1>3. ASSUME b = Body(<<Xor(Rewritten), O(5)>>, 21, 21)
      PROVE  Parse(b) = Panic
  <2>1. O(5).len = 5
    BY DEF Attr
  <2> HIDE DEF O
  <2>2. /\ b.attrs = <<Xor(Rewritten), O(5)>> /\ b.size = 21
        /\ b.avail = 21
    BY <1>3 DEF Body
  <2> QED
    BY <2>1, <2>2, LaterOddIsRead
<1> QED
  BY <1>1, <1>2, <1>3

(* parseSTUNResponse finds the address the server has put in, in whatever  *)
(* place and among whatever attributes, and none in an answer of no use;   *)
(* an answer whose last attribute is not padded ends the program.          *)
THEOREM ParserReads ==
  \A p \in Parsed : p.gives = IF p.ep = Unpadded THEN Panic ELSE p.ep
<1> SUFFICES ASSUME NEW p \in Parsed
             PROVE  p.gives = IF p.ep = Unpadded THEN Panic ELSE p.ep
  OBVIOUS
<1>0. Unpadded \notin Endpoint \union {None}
  BY StunAssumption DEF StunAssumption
<1>1. \/ \E e \in Endpoint : p \in Read(e, Bodies(e))
      \/ p \in Read(None, BadBodies)
      \/ p \in Read(Unpadded, OddBodies)
  BY DEF Parsed
<1>2. ASSUME NEW e \in Endpoint, p \in Read(e, Bodies(e))
      PROVE  p.gives = p.ep /\ p.ep # Unpadded
  BY <1>0, <1>2, BodyIsRead DEF Read
<1>3. ASSUME p \in Read(None, BadBodies)
      PROVE  p.gives = p.ep /\ p.ep # Unpadded
  BY <1>0, <1>3, BadIsRead DEF Read
<1>4. ASSUME p \in Read(Unpadded, OddBodies)
      PROVE  p.gives = Panic /\ p.ep = Unpadded
  BY <1>4, OddIsRead DEF Read
<1> QED
  BY <1>1, <1>2, <1>3, <1>4

-----------------------------------------------------------------------------
(* stunQuery has a transaction exactly while it sends and waits. *)
Querying == pc \in {"send", "wait"} <=> tx # None

TableInv == TableIsRunningQuery /\ Querying

LEMMA NextTable == TableInv /\ [Next]_vars => TableInv'
<1> SUFFICES ASSUME TableInv, [Next]_vars PROVE TableInv'
  OBVIOUS
<1> USE DEF TableInv, TableIsRunningQuery, Querying
<1>1. CASE Discover
  BY <1>1 DEF Discover
<1>2. ASSUME NEW t \in Tx, Register(t) PROVE TableInv'
  BY <1>2, StunAssumption DEF Register, StunAssumption
<1>3. CASE Send
  BY <1>3 DEF Send
<1>4. CASE SendFails
  BY <1>4 DEF SendFails, Unregister
<1>5. ASSUME NEW m \in buf, Take(m) PROVE TableInv'
  <2>1. pc' \in {"dead", "failed", "found"}
    <3>1. PICK p \in Parsed :
            CASE p.gives = Panic -> /\ pc' = "dead" /\ fatal' = m.ep
                                    /\ UNCHANGED result
              [] p.gives = None  -> /\ pc' = "failed"
                                    /\ UNCHANGED <<result, fatal>>
              [] OTHER           -> /\ pc' = "found" /\ result' = p.gives
                                    /\ UNCHANGED fatal
      BY <1>5 DEF Take
    <3> QED
      BY <3>1
  <2> QED
    BY <1>5, <2>1 DEF Take, Unregister
<1>6. CASE Timeout
  BY <1>6 DEF Timeout, Unregister
<1>7. CASE NextServer
  BY <1>7 DEF NextServer
<1>8. CASE Report
  BY <1>8 DEF Report
<1>9. ASSUME NEW m, Lookup(m) \/ Put(m) \/ Reply(m) \/ Lose(m)
      PROVE  TableInv'
  BY <1>9 DEF Lookup, Put, Reply, Lose, caller
<1>10. ASSUME NEW e, Rebind(e) PROVE TableInv'
  BY <1>10 DEF Rebind, caller
<1>11. CASE UNCHANGED vars
  BY <1>11 DEF vars
<1> QED
  BY <1>1, <1>2, <1>3, <1>4, <1>5, <1>6, <1>7, <1>8, <1>9, <1>10, <1>11
     DEF Next, Caller, ReadLoop, Network

(* stunRxTable never holds but the running query's transaction. *)
THEOREM TableOfOne == Spec => []TableIsRunningQuery
<1>1. Init => TableInv
  BY DEF Init, TableInv, TableIsRunningQuery, Querying
<1>2. TableInv => TableIsRunningQuery
  BY DEF TableInv
<1> QED
  BY <1>1, <1>2, NextTable, PTL DEF Spec

-----------------------------------------------------------------------------
LEMMA FaultType ==
  ASSUME TypeOK, NEW kind, Fault(kind)
  PROVE  faults' \in 0 .. MaxFaults
BY StunAssumption DEF TypeOK, Fault, StunAssumption

(* What is taken is the address of the answer, if it has one; only an      *)
(* unpadded answer ends the program.                                       *)
LEMMA TakeReads ==
  ASSUME TypeOK, NEW m \in buf, Take(m)
  PROVE  \/ pc' = "failed" /\ UNCHANGED <<result, fatal>>
         \/ /\ pc' = "found" /\ result' = m.ep
            /\ m.ep \notin {None, Unpadded} /\ UNCHANGED fatal
         \/ pc' = "dead" /\ UNCHANGED result /\ fatal' = Unpadded
<1>1. PICK p \in Parsed :
        /\ p.ep = m.ep
        /\ CASE p.gives = Panic -> /\ pc' = "dead" /\ fatal' = m.ep
                                   /\ UNCHANGED result
             [] p.gives = None  -> /\ pc' = "failed"
                                   /\ UNCHANGED <<result, fatal>>
             [] OTHER           -> /\ pc' = "found" /\ result' = p.gives
                                   /\ UNCHANGED fatal
  BY DEF Take
<1>2. p.gives = IF m.ep = Unpadded THEN Panic ELSE m.ep
  BY <1>1, ParserReads
<1>3. CASE m.ep = Unpadded
  BY <1>1, <1>2, <1>3
<1>4. CASE m.ep # Unpadded
  <2>1. p.gives = m.ep /\ m.ep # Panic
    BY <1>2, <1>4, StunAssumption, MessageAssumption
       DEF TypeOK, Message, StunAssumption
  <2> QED
    BY <1>1, <1>4, <2>1
<1> QED
  BY <1>3, <1>4

LEMMA CallerType ==
  ASSUME TypeOK, Querying, Caller
  PROVE  TypeOK'
<1> USE DEF TypeOK
<1>1. CASE Discover
  BY <1>1 DEF Discover
<1>2. CASE Send
  <2>1. tx \in Tx => [kind |-> "request", tx |-> tx, ep |-> at] \in Message
    BY DEF Message
  <2>2. net' \in SUBSET Message
    BY <1>2, <2>1 DEF Send, Querying
  <2> QED
    BY <1>2, <2>2 DEF Send
<1>3. CASE SendFails
  BY <1>3, FaultType DEF SendFails, Unregister
<1>4. ASSUME NEW t \in Tx, Register(t) PROVE TypeOK'
  BY <1>4 DEF Register
<1>5. ASSUME NEW m \in buf, Take(m) PROVE TypeOK'
  <2>1. m.ep \notin {None, Unpadded} => m.ep \in Endpoint
    BY DEF Message
  <2>2. /\ pc' \in {"failed", "found", "dead"}
        /\ result' \in Endpoint \union {None}
        /\ fatal' \in Endpoint \union {None, Unpadded}
    BY <1>5, <2>1, TakeReads
  <2> QED
    BY <1>5, <2>2 DEF Take, Unregister
<1>6. CASE Timeout
  BY <1>6, FaultType DEF Timeout, Unregister
<1>7. CASE NextServer
  BY <1>7, StunAssumption DEF NextServer, StunAssumption
<1>8. CASE Report
  BY <1>8, StunAssumption DEF Report, StunAssumption
<1> QED
  BY <1>1, <1>2, <1>3, <1>4, <1>5, <1>6, <1>7, <1>8 DEF Caller

LEMMA ReadLoopType ==
  ASSUME TypeOK, ReadLoop
  PROVE  TypeOK'
<1>1. ASSUME NEW m \in net, Lookup(m) PROVE TypeOK'
  <2>1. faults' \in 0 .. MaxFaults
    BY <1>1, FaultType DEF Lookup, TypeOK
  <2> QED
    BY <1>1, <2>1 DEF Lookup, TypeOK, caller
<1>2. ASSUME NEW m \in rx, Put(m) PROVE TypeOK'
  BY <1>2 DEF Put, TypeOK, caller
<1> QED
  BY <1>1, <1>2 DEF ReadLoop

LEMMA NetworkType ==
  ASSUME TypeOK, Network
  PROVE  TypeOK'
<1>1. ASSUME NEW m \in net, Reply(m) PROVE TypeOK'
  <2>1. /\ [m EXCEPT !.kind = "answer"] \in Message
        /\ [m EXCEPT !.kind = "answer", !.ep = None] \in Message
        /\ [m EXCEPT !.kind = "answer", !.ep = Unpadded] \in Message
    BY DEF TypeOK, Message
  <2>2. faults' \in 0 .. MaxFaults
    BY <1>1, FaultType DEF Reply, TypeOK
  <2> QED
    BY <1>1, <2>1, <2>2 DEF Reply, TypeOK, caller
<1>2. ASSUME NEW m \in net, Lose(m) PROVE TypeOK'
  BY <1>2, FaultType DEF Lose, TypeOK, caller
<1> QED
  BY <1>1, <1>2 DEF Network

LEMMA NextType ==
  TypeOK /\ Querying /\ [Next]_vars => TypeOK'
<1> SUFFICES ASSUME TypeOK, Querying, [Next]_vars PROVE TypeOK'
  OBVIOUS
<1>1. ASSUME NEW e \in Endpoint, Rebind(e) PROVE TypeOK'
  BY <1>1, FaultType DEF Rebind, TypeOK, caller
<1>2. CASE UNCHANGED vars
  BY <1>2 DEF vars, TypeOK
<1> QED
  BY <1>1, <1>2, CallerType, ReadLoopType, NetworkType DEF Next

-----------------------------------------------------------------------------
(* What is under way to the running query, and what it has got, carries an *)
(* endpoint the socket has had since it was made.                          *)
Fresh(m) == m.tx = tx => m.ep \in since \union {None, Unpadded}

AnswersAreRecent ==
  tx # None => /\ at \in since
               /\ \A m \in net \union rx \union buf : Fresh(m)
               /\ \A m \in buf : m.tx = tx

RecentInv ==
  /\ TypeOK /\ TableInv /\ AnswersAreRecent /\ ResultIsRecent
  /\ OnlyUnpaddedOverruns

LEMMA CallerRecent ==
  ASSUME RecentInv, Caller
  PROVE  AnswersAreRecent' /\ ResultIsRecent'
<1> USE DEF AnswersAreRecent, ResultIsRecent, Fresh
<1>1. CASE Discover \/ NextServer \/ Report
  BY <1>1 DEF Discover, NextServer, Report, RecentInv, TableInv, Querying
<1>2. CASE Send
  BY <1>2 DEF Send, RecentInv
<1>3. CASE SendFails \/ Timeout
  BY <1>3 DEF SendFails, Timeout, Unregister
<1>4. ASSUME NEW t \in Tx, Register(t)
      PROVE  AnswersAreRecent' /\ ResultIsRecent'
  <2>1. /\ at' \in since' /\ buf' = {} /\ tx' = t /\ pc' = "send"
        /\ \A m \in net' \union rx' : m.tx # t
    BY <1>4 DEF Register
  <2> QED
    BY <2>1
<1>5. ASSUME NEW m \in buf, Take(m)
      PROVE  AnswersAreRecent' /\ ResultIsRecent'
  <2>1. tx' = None /\ since' = since
    BY <1>5 DEF Take, Unregister
  <2>2. m.ep \in since \union {None, Unpadded}
    BY <1>5 DEF Take, RecentInv, TableInv, Querying
  <2>3. \/ pc' \in {"failed", "dead"}
        \/ /\ pc' = "found" /\ result' = m.ep
           /\ m.ep \notin {None, Unpadded}
    BY <1>5, TakeReads DEF RecentInv
  <2> QED
    BY <2>1, <2>2, <2>3
<1> QED
  BY <1>1, <1>2, <1>3, <1>4, <1>5 DEF Caller

LEMMA OthersRecent ==
  ASSUME RecentInv, ReadLoop \/ Network \/ \E e \in Endpoint : Rebind(e)
  PROVE  AnswersAreRecent' /\ ResultIsRecent'
<1> USE DEF AnswersAreRecent, ResultIsRecent, Fresh
<1>1. ASSUME NEW m \in net, Lookup(m)
      PROVE  AnswersAreRecent' /\ ResultIsRecent'
  BY <1>1 DEF Lookup, RecentInv, caller
<1>2. ASSUME NEW m \in rx, Put(m)
      PROVE  AnswersAreRecent' /\ ResultIsRecent'
  BY <1>2 DEF Put, Claimed, RecentInv, TableInv, TableIsRunningQuery, caller
<1>3. ASSUME NEW m \in net, Reply(m)
      PROVE  AnswersAreRecent' /\ ResultIsRecent'
  <2>1. m \in Message
    BY DEF RecentInv, TypeOK
  <2>2. /\ [m EXCEPT !.kind = "answer"].tx = m.tx
        /\ [m EXCEPT !.kind = "answer"].ep = m.ep
        /\ [m EXCEPT !.kind = "answer", !.ep = None].tx = m.tx
        /\ [m EXCEPT !.kind = "answer", !.ep = None].ep = None
        /\ [m EXCEPT !.kind = "answer", !.ep = Unpadded].tx = m.tx
        /\ [m EXCEPT !.kind = "answer", !.ep = Unpadded].ep = Unpadded
    BY <2>1 DEF Message
  <2>3. \A n \in net' \ net : n.tx = m.tx /\ n.ep \in {m.ep, None, Unpadded}
    BY <1>3, <2>2 DEF Reply
  <2> QED
    BY <1>3, <2>3 DEF Reply, RecentInv, caller
<1>4. ASSUME NEW m \in net, Lose(m)
      PROVE  AnswersAreRecent' /\ ResultIsRecent'
  BY <1>4 DEF Lose, RecentInv, caller
<1>5. ASSUME NEW e \in Endpoint, Rebind(e)
      PROVE  AnswersAreRecent' /\ ResultIsRecent'
  BY <1>5 DEF Rebind, RecentInv, caller
<1> QED
  BY <1>1, <1>2, <1>3, <1>4, <1>5 DEF ReadLoop, Network

LEMMA NextAlive ==
  TypeOK /\ OnlyUnpaddedOverruns /\ [Next]_vars => OnlyUnpaddedOverruns'
<1> SUFFICES ASSUME TypeOK, OnlyUnpaddedOverruns, [Next]_vars, pc' = "dead"
             PROVE  fatal' = Unpadded
  BY DEF OnlyUnpaddedOverruns
<1>1. ASSUME NEW m \in buf, Take(m) PROVE fatal' = Unpadded
  BY <1>1, TakeReads
<1>2. CASE ~\E m \in buf : Take(m)
  <2>1. pc' = pc /\ UNCHANGED fatal
    BY <1>2 DEF Next, Caller, ReadLoop, Network, Rebind, Lookup, Put, Reply,
         Lose, Discover, Register, Send, SendFails, Timeout, NextServer,
         Report, caller, vars
  <2> QED
    BY <2>1 DEF OnlyUnpaddedOverruns
<1> QED
  BY <1>1, <1>2

LEMMA NextRecent == RecentInv /\ [Next]_vars => RecentInv'
<1> SUFFICES ASSUME RecentInv, [Next]_vars PROVE RecentInv'
  OBVIOUS
<1>1. TypeOK' /\ TableInv' /\ OnlyUnpaddedOverruns'
  BY NextType, NextTable, NextAlive DEF RecentInv, TableInv
<1>2. CASE UNCHANGED vars
  BY <1>1, <1>2 DEF vars, RecentInv, AnswersAreRecent, ResultIsRecent, Fresh
<1> QED
  BY <1>1, <1>2, CallerRecent, OthersRecent DEF Next, RecentInv

LEMMA RecentInvariant == Spec => []RecentInv
<1>1. Init => RecentInv
  BY StunAssumption
     DEF Init, RecentInv, TypeOK, TableInv, TableIsRunningQuery, Querying,
         AnswersAreRecent, ResultIsRecent, OnlyUnpaddedOverruns, StunAssumption
<1> QED
  BY <1>1, NextRecent, PTL DEF Spec

(* All of the client's state keeps to its types. *)
THEOREM StunType == Spec => []TypeOK
BY RecentInvariant, PTL DEF RecentInv

(* However answers are delayed, duplicated and interleaved with queries, a *)
(* result is an endpoint the socket has had since its query was made.      *)
THEOREM RecentResult == Spec => []ResultIsRecent
BY RecentInvariant, PTL DEF RecentInv

(* Only an answer whose last attribute is not padded ends the program: not *)
(* one that is cut off, nor one with a length near the end of 16 bits.     *)
THEOREM OnlyUnpaddedEnds == Spec => []OnlyUnpaddedOverruns
BY RecentInvariant, PTL DEF RecentInv
=============================================================================
