------------------------ MODULE CircuitBackendProofs ------------------------
(* Proofs about CircuitBackend for every number of registers and slots and     *)
(* every bound: when no two registers stand for the same wire.                 *)
EXTENDS CircuitBackend, SequenceTheorems, TLAPS

------------------------------------------------------------------------------
(* The registers and slots p and s, the table W of the wires of the handles    *)
(* below k, and the next wire v; c says that the program keeps to the rule of  *)
(* SeparateWires.                                                              *)
Holder == Nat \cup {None}
HeldIn(p, s) == (Range(p) \cup Range(s)) \ {None}

(* A handle is in one place only.                                              *)
OnePlace(p, s) ==
    /\ \A a, b \in QRegs : a # b /\ p[a] # None => p[a] # p[b]
    /\ \A a, b \in Slots : a # b /\ s[a] # None => s[a] # s[b]
    /\ \A a \in QRegs, b \in Slots : p[a] # None => p[a] # s[b]

Table(W, k) == \A h \in DOMAIN W : h \in Nat /\ h < k /\ W[h] \in Seq(Nat)

Separate(H, W, v) ==
    /\ \A g, h \in H : g # h => Range(W[g]) \cap Range(W[h]) = {}
    /\ \A h \in H : \A w \in Range(W[h]) : w < v

Sound(p, s, W, k, v, c) ==
    /\ p \in [QRegs -> Holder] /\ s \in [Slots -> Holder]
    /\ k \in Nat /\ v \in Nat
    /\ Table(W, k)
    /\ HeldIn(p, s) \subseteq DOMAIN W
    /\ OnePlace(p, s)
    /\ c => Separate(HeldIn(p, s), W, v)

LEMMA Contents ==
    ASSUME NEW p \in [QRegs -> Holder], NEW s \in [Slots -> Holder]
    PROVE  \A h : h \in HeldIn(p, s) <=>
              h # None /\ ((\E r \in QRegs : p[r] = h) \/ \E m \in Slots : s[m] = h)
BY DEF HeldIn, Range

(* Register r gets the handle k and the registers U are emptied.               *)
Given(p, k, r, U, n) ==
    \A x \in QRegs : n[x] = IF x = r THEN k ELSE IF x \in U THEN None ELSE p[x]

(* What is held besides a new handle was held, and not by what was emptied.    *)
LEMMA Remains ==
    ASSUME NEW p \in [QRegs -> Holder], NEW s \in [Slots -> Holder], OnePlace(p, s), NEW k,
           NEW r \in QRegs, NEW U \in SUBSET QRegs, NEW n \in [QRegs -> Holder],
           Given(p, k, r, U, n), NEW h \in HeldIn(n, s), h # k
    PROVE  h \in HeldIn(p, s) /\ \A x \in U \cup {r} : h # p[x]
<1> USE DEF Given
<1>1. h # None /\ ((\E x \in QRegs : n[x] = h) \/ \E m \in Slots : s[m] = h)
  BY Contents
<1>2. CASE \E x \in QRegs : n[x] = h
  <2>1. PICK x \in QRegs : n[x] = h
    BY <1>2
  <2>2. x # r /\ x \notin U /\ p[x] = h
    BY <1>1, <2>1
  <2>3. h \in HeldIn(p, s)
    BY <1>1, <2>2, Contents
  <2>4. ASSUME NEW y \in U \cup {r} PROVE h # p[y]
    <3>1. y \in QRegs /\ y # x
      BY <2>2
    <3> QED BY <1>1, <2>2, <3>1 DEF OnePlace
  <2> QED BY <2>3, <2>4
<1>3. CASE \E m \in Slots : s[m] = h
  <2>1. h \in HeldIn(p, s)
    BY <1>1, <1>3, Contents
  <2>2. \A x \in QRegs : p[x] # h
    BY <1>1, <1>3 DEF OnePlace
  <2> QED BY <2>1, <2>2
<1> QED BY <1>1, <1>2, <1>3

(* Register r gets the next handle k, for the wires ws: the table W becomes V, *)
(* the registers p become n, and the registers U are empty afterwards.  Under   *)
(* the rule the wires are new or were theirs.                                  *)
Put(p, W, k, v, c, r, U, ws, n, V, u, d) ==
    /\ r \in QRegs /\ U \subseteq QRegs /\ ws \in Seq(Nat) /\ u \in Nat /\ u >= v
    /\ DOMAIN n = QRegs
    /\ Given(p, k, r, U, n)
    /\ n = [x \in QRegs |-> n[x]]
    /\ k \in DOMAIN V /\ V[k] = ws /\ DOMAIN V \subseteq DOMAIN W \cup {k}
    /\ \A h \in DOMAIN V \ {k} : V[h] = W[h]
    /\ \A h \in DOMAIN W : h \in DOMAIN V \/ \E x \in U \cup {r} : h = p[x]
    /\ d => /\ c
            /\ \A w \in Range(ws) :
                  /\ w < u
                  /\ \/ w >= v
                     \/ \E x \in U \cup {r} : p[x] # None /\ w \in Range(W[p[x]])

LEMMA NewHandle ==
    ASSUME NEW p, NEW s, NEW W, NEW k, NEW v, NEW c, Sound(p, s, W, k, v, c),
           NEW r, NEW U, NEW ws, NEW n, NEW V, NEW u, NEW d,
           Put(p, W, k, v, c, r, U, ws, n, V, u, d)
    PROVE  Sound(n, s, V, k + 1, u, d)
<1> USE DEF Put, Given
<1>1. /\ p \in [QRegs -> Holder] /\ s \in [Slots -> Holder] /\ k \in Nat /\ v \in Nat
      /\ Table(W, k) /\ HeldIn(p, s) \subseteq DOMAIN W /\ OnePlace(p, s)
  BY DEF Sound
<1>2. n \in [QRegs -> Holder] /\ k # None
  BY <1>1 DEF Holder, None
<1>3. Table(V, k + 1)
  BY <1>1 DEF Table
<1>4. \A x \in HeldIn(p, s) : x # k
  BY <1>1 DEF Table
<1>5. OnePlace(n, s)
  <2>1. /\ \A x \in QRegs : p[x] # k
        /\ \A x \in Slots : s[x] # k
    BY <1>1, <1>2, <1>4, Contents
  <2> QED BY <1>1, <2>1 DEF OnePlace
<1>6. ASSUME NEW h \in HeldIn(n, s), h # k
      PROVE  /\ h \in HeldIn(p, s) /\ h \in DOMAIN V /\ V[h] = W[h]
             /\ \A x \in U \cup {r} : h # p[x]
  <2>1. r \in QRegs /\ U \in SUBSET QRegs /\ Given(p, k, r, U, n)
    OBVIOUS
  <2> HIDE DEF Put
  <2> HIDE DEF Given
  <2>2. h \in HeldIn(p, s) /\ \A x \in U \cup {r} : h # p[x]
    BY <1>1, <1>2, <1>6, <2>1, Remains
  <2> USE DEF Put
  <2> QED BY <1>1, <1>6, <2>2
<1>7. ASSUME d PROVE Separate(HeldIn(n, s), V, u)
  <2>1. Separate(HeldIn(p, s), W, v)
    BY <1>7 DEF Sound
  <2>2. ASSUME NEW h \in HeldIn(n, s), NEW w \in Range(V[h]) PROVE w < u
    <3>1. CASE h = k
      BY <1>7, <2>2, <3>1
    <3>2. CASE h # k
      <4>1. w < v /\ w \in Nat
        <5>1. w \in Range(W[h]) /\ h \in HeldIn(p, s) /\ W[h] \in Seq(Nat)
          BY <1>1, <1>6, <2>2, <3>2 DEF Table
        <5> QED BY <2>1, <5>1 DEF Separate, Range
      <4> QED BY <1>1, <4>1
    <3> QED BY <3>1, <3>2
  <2>3. ASSUME NEW h \in HeldIn(n, s), h # k, NEW w \in Range(V[h]) PROVE w \notin Range(ws)
    <3>1. w \in Range(W[h]) /\ h \in HeldIn(p, s) /\ w < v /\ W[h] \in Seq(Nat)
      BY <1>1, <1>6, <2>1, <2>3 DEF Separate, Table
    <3>2. w \in Nat
      BY <3>1 DEF Range
    <3>3. ASSUME NEW x \in U \cup {r}, p[x] # None PROVE w \notin Range(W[p[x]])
      <4>1. p[x] \in HeldIn(p, s) /\ p[x] # h
        BY <1>1, <1>6, <2>3, <3>3, Contents
      <4> QED BY <2>1, <3>1, <4>1 DEF Separate
    <3>4. ~(w >= v)
      BY <1>1, <3>1, <3>2
    <3> QED BY <1>7, <3>3, <3>4
  <2>4. ASSUME NEW g \in HeldIn(n, s), NEW h \in HeldIn(n, s), g # h
        PROVE  Range(V[g]) \cap Range(V[h]) = {}
    <3>1. CASE g = k \/ h = k
      BY <2>3, <2>4, <3>1
    <3>2. CASE g # k /\ h # k
      <4>1. g \in HeldIn(p, s) /\ h \in HeldIn(p, s) /\ V[g] = W[g] /\ V[h] = W[h]
        BY <1>6, <3>2
      <4> QED BY <2>1, <2>4, <4>1 DEF Separate
    <3> QED BY <3>1, <3>2
  <2> QED BY <2>2, <2>4 DEF Separate
<1>8. HeldIn(n, s) \subseteq DOMAIN V /\ k + 1 \in Nat
  BY <1>1, <1>6
<1> QED BY <1>1, <1>2, <1>3, <1>5, <1>7, <1>8 DEF Sound

(* Handles move or are released: none is new, and the wires stay.  The next    *)
(* wire may begin again when no handle is left.                                *)
LEMMA Fewer ==
    ASSUME NEW p, NEW s, NEW W, NEW k, NEW v, NEW c, Sound(p, s, W, k, v, c),
           NEW n \in [QRegs -> Holder], NEW m \in [Slots -> Holder],
           HeldIn(n, m) \subseteq HeldIn(p, s), OnePlace(n, m),
           NEW V, HeldIn(n, m) \subseteq DOMAIN V, DOMAIN V \subseteq DOMAIN W,
           \A h \in DOMAIN V : V[h] = W[h],
           NEW u \in Nat, NEW d, d => (c /\ u = v) \/ HeldIn(n, m) = {}
    PROVE  Sound(n, m, V, k, u, d)
<1>1. Table(V, k)
  BY DEF Sound, Table
<1>2. ASSUME d, HeldIn(n, m) # {} PROVE Separate(HeldIn(n, m), V, u)
  <2>1. Separate(HeldIn(p, s), W, u)
    BY <1>2 DEF Sound
  <2>2. \A h \in HeldIn(n, m) : h \in HeldIn(p, s) /\ V[h] = W[h]
    OBVIOUS
  <2> QED BY <2>1, <2>2 DEF Separate
<1>3. HeldIn(n, m) = {} => Separate(HeldIn(n, m), V, u)
  BY DEF Separate
<1> QED BY <1>1, <1>2, <1>3 DEF Sound

------------------------------------------------------------------------------
(* The inductive invariant: a handle has one place, also when the rule is      *)
(* broken, so that an observation that empties the only register leaves none.  *)
Inv == Sound(q, mem, wires, nextHandle, nextWire, clean)

LEMMA HeldThere == Held = HeldIn(q, mem)
BY DEF Held, HeldIn

LEMMA InitSound == Init => Inv
<1> SUFFICES ASSUME Init PROVE Inv
  OBVIOUS
<1>1. q \in [QRegs -> Holder] /\ mem \in [Slots -> Holder]
  BY DEF Init, Holder
<1>2. \A h : h \notin HeldIn(q, mem)
  BY <1>1, Contents DEF Init
<1>3. DOMAIN wires = {}
  BY DEF Init
<1> QED BY <1>1, <1>2, <1>3 DEF Init, Inv, Sound, Table, Separate, OnePlace

LEMMA FaultSound == Inv /\ Fault => Inv'
BY DEF Inv, Fault, registers, handles, history

(* Table operators.                                                            *)
LEMMA OnlyTable ==
    ASSUME NEW f, NEW S
    PROVE  DOMAIN Only(f, S) = S /\ \A h \in S : Only(f, S)[h] = f[h]
BY DEF Only

(* A table with a new entry, from which some others are then removed.          *)
LEMMA PlacedTable ==
    ASSUME NEW f, NEW h, NEW x, NEW G, h \notin G
    PROVE  LET V == Only(With(f, h, x), DOMAIN With(f, h, x) \ G)
           IN  /\ h \in DOMAIN V /\ V[h] = x
               /\ \A g : g \in DOMAIN V <=> g = h \/ (g \in DOMAIN f /\ g \notin G)
               /\ \A g \in DOMAIN V \ {h} : V[g] = f[g]
<1>1. /\ DOMAIN With(f, h, x) = DOMAIN f \cup {h} /\ With(f, h, x)[h] = x
      /\ \A g \in DOMAIN f \ {h} : With(f, h, x)[g] = f[g]
  BY DEF With
<1> DEFINE W == With(f, h, x)
           V == Only(W, DOMAIN W \ G)
<1>2. DOMAIN V = DOMAIN W \ G /\ \A g \in DOMAIN V : V[g] = W[g]
  BY OnlyTable
<1> HIDE DEF W
<1> HIDE DEF V
<1>3. /\ DOMAIN W = DOMAIN f \cup {h} /\ W[h] = x
      /\ \A g \in DOMAIN f \ {h} : W[g] = f[g]
  BY <1>1 DEF W
<1>4. /\ h \in DOMAIN V /\ V[h] = x
      /\ \A g : g \in DOMAIN V <=> g = h \/ (g \in DOMAIN f /\ g \notin G)
      /\ \A g \in DOMAIN V \ {h} : V[g] = f[g]
  BY <1>2, <1>3
<1> QED BY <1>4 DEF V, W

(* The next handle is nowhere yet, and what a register holds has wires.        *)
LEMMA Known ==
    ASSUME Inv, NEW r \in QRegs
    PROVE  /\ q[r] # nextHandle
           /\ q[r] # None => /\ q[r] \in Live /\ q[r] \in Nat
                            /\ wires[q[r]] \in Seq(Nat)
<1>1. /\ q \in [QRegs -> Holder] /\ mem \in [Slots -> Holder] /\ nextHandle \in Nat
      /\ HeldIn(q, mem) \subseteq DOMAIN wires /\ Table(wires, nextHandle)
  BY DEF Inv, Sound
<1>2. q[r] # None => q[r] \in DOMAIN wires
  BY <1>1, Contents
<1> QED BY <1>1, <1>2 DEF Table, Live, None

------------------------------------------------------------------------------
(* The new handle of register r is put down, for the wires ws: the tables lose  *)
(* the old occupants G.                                                        *)
RegsPut(r, U) ==
    /\ DOMAIN q' = QRegs /\ q' = [x \in QRegs |-> q'[x]]
    /\ \A x \in QRegs : q'[x] = IF x = r THEN nextHandle ELSE IF x \in U THEN None ELSE q[x]

TablePut(ws, G) ==
    /\ nextHandle \in DOMAIN wires' /\ wires'[nextHandle] = ws
    /\ \A g : g \in DOMAIN wires' <=> g = nextHandle \/ (g \in Live /\ g \notin G)
    /\ \A g \in DOMAIN wires' \ {nextHandle} : wires'[g] = wires[g]

(* Under the rule the wires are new or those of r or of U.                     *)
RulePut(r, U, ws) ==
    /\ mem' = mem /\ nextHandle' = nextHandle + 1 /\ nextWire' \in Nat /\ nextWire' >= nextWire
    /\ clean' => /\ clean
                 /\ \A w \in Range(ws) :
                       /\ w < nextWire'
                       /\ \/ w >= nextWire
                          \/ \E x \in U \cup {r} : q[x] # None /\ w \in Range(wires[q[x]])

LEMMA OneRegister ==
    ASSUME Inv, NEW r \in QRegs, q' = [q EXCEPT ![r] = nextHandle]
    PROVE  RegsPut(r, {})
BY DEF RegsPut, Inv, Sound

LEMMA OneEntry ==
    ASSUME NEW ws, NEW G, nextHandle \notin G,
           wires' = Only(With(wires, nextHandle, ws), DOMAIN With(wires, nextHandle, ws) \ G)
    PROVE  TablePut(ws, G)
<1> DEFINE V == Only(With(wires, nextHandle, ws), DOMAIN With(wires, nextHandle, ws) \ G)
<1>1. /\ nextHandle \in DOMAIN V /\ V[nextHandle] = ws
      /\ \A g : g \in DOMAIN V <=> g = nextHandle \/ (g \in DOMAIN wires /\ g \notin G)
      /\ \A g \in DOMAIN V \ {nextHandle} : V[g] = wires[g]
  BY PlacedTable
<1>2. wires' = V
  OBVIOUS
<1> HIDE DEF V
<1> QED BY <1>1, <1>2 DEF TablePut, Live

LEMMA Down ==
    ASSUME Inv, NEW r \in QRegs, NEW U \in SUBSET QRegs, NEW ws \in Seq(Nat), NEW G,
           RegsPut(r, U), TablePut(ws, G), RulePut(r, U, ws),
           \A h \in G : h \in Live => \E x \in U \cup {r} : h = q[x]
    PROVE  Inv'
<1>1. Sound(q, mem, wires, nextHandle, nextWire, clean)
  BY DEF Inv
<1>2. Put(q, wires, nextHandle, nextWire, clean, r, U, ws, q', wires', nextWire', clean')
  BY DEF Put, Given, RegsPut, TablePut, RulePut, Live
<1>3. Sound(q', mem, wires', nextHandle + 1, nextWire', clean')
  BY <1>1, <1>2, NewHandle
<1> QED BY <1>3 DEF Inv, RulePut

(* The wires of one handle.                                                    *)
LEMMA AllocWires ==
    ASSUME nextWire \in Nat, NEW n \in Nat
    PROVE  /\ Alloc(n) \in Seq(Nat)
           /\ \A w \in Range(Alloc(n)) : w >= nextWire /\ w < nextWire + n
BY DEF Alloc, Range

LEMMA OwnWires ==
    ASSUME Inv, NEW r \in QRegs, q[r] # None
    PROVE  /\ wires[q[r]] \in Seq(Nat) /\ nextWire \in Nat
           /\ clean => \A w \in Range(wires[q[r]]) : w < nextWire
<1>1. /\ q \in [QRegs -> Holder] /\ mem \in [Slots -> Holder] /\ nextWire \in Nat
      /\ clean => Separate(HeldIn(q, mem), wires, nextWire)
  BY DEF Inv, Sound
<1> QED BY <1>1, Known, Contents DEF Separate

LEMMA PreparedPut ==
    ASSUME Inv, NEW r \in QRegs, NEW n \in Nat, NEW D, Prepared(r, n, D), clean' => clean
    PROVE  /\ RegsPut(r, {}) /\ TablePut(Alloc(n), {q[r]}) /\ RulePut(r, {}, Alloc(n))
           /\ Alloc(n) \in Seq(Nat)
<1>1. nextWire \in Nat
  BY DEF Inv, Sound
<1>2. RegsPut(r, {})
  BY OneRegister DEF Prepared, Placed
<1>3. wires' = Only(With(wires, nextHandle, Alloc(n)),
                    DOMAIN With(wires, nextHandle, Alloc(n)) \ {q[r]})
  BY DEF Prepared, Placed
<1>4. TablePut(Alloc(n), {q[r]})
  BY <1>3, OneEntry, Known
<1>5. RulePut(r, {}, Alloc(n))
  <2>1. mem' = mem /\ nextHandle' = nextHandle + 1 /\ nextWire' = nextWire + n
    BY DEF Prepared
  <2>2. \A w \in Range(Alloc(n)) : w >= nextWire /\ w < nextWire'
    BY <1>1, <2>1, AllocWires
  <2>3. nextWire' \in Nat /\ nextWire' >= nextWire
    BY <1>1, <2>1
  <2> QED BY <2>1, <2>2, <2>3 DEF RulePut
<1>6. Alloc(n) \in Seq(Nat)
  BY <1>1, AllocWires
<1> QED BY <1>2, <1>4, <1>5, <1>6

LEMMA PreparedSound ==
    ASSUME Inv, NEW r \in QRegs, NEW n \in Nat, NEW D, Prepared(r, n, D), clean' => clean
    PROVE  Inv'
<1>1. /\ RegsPut(r, {}) /\ TablePut(Alloc(n), {q[r]}) /\ RulePut(r, {}, Alloc(n))
      /\ Alloc(n) \in Seq(Nat)
  BY PreparedPut
<1> QED BY <1>1, Down

LEMMA QPrepSound == ASSUME Inv, NEW r \in QRegs, QPrep(r), MaxPrep \in Nat PROVE Inv'
BY PreparedSound DEF QPrep

LEMMA CloneSound ==
    ASSUME Inv, NEW a \in QRegs, NEW b \in QRegs, Clone(a, b) PROVE Inv'
<1>1. q[b] # None => Len(wires[q[b]]) \in Nat
  BY Known
<1> QED BY <1>1, PreparedSound, FaultSound DEF Clone

(* A gate on the register it writes passes the wires on.                       *)
LEMMA QGatePut ==
    ASSUME Inv, NEW a \in QRegs, NEW b \in QRegs, QGate(a, b), ~Fault
    PROVE  /\ q[b] # None
           /\ RegsPut(a, {}) /\ TablePut(wires[q[b]], {q[a]}) /\ RulePut(a, {}, wires[q[b]])
<1>1. q[b] # None
  BY DEF QGate
<1>2. RegsPut(a, {})
  BY OneRegister DEF QGate, Placed
<1>3. wires' = Only(With(wires, nextHandle, wires[q[b]]),
                    DOMAIN With(wires, nextHandle, wires[q[b]]) \ {q[a]})
  BY DEF QGate, Placed
<1>4. TablePut(wires[q[b]], {q[a]})
  BY <1>3, OneEntry, Known
<1>5. RulePut(a, {}, wires[q[b]])
  <2>1. /\ mem' = mem /\ nextHandle' = nextHandle + 1 /\ nextWire' = nextWire
        /\ clean' = (clean /\ a = b)
    BY DEF QGate
  <2>2. nextWire \in Nat /\ (clean => \A w \in Range(wires[q[b]]) : w < nextWire)
    BY <1>1, OwnWires
  <2>3. nextWire' \in Nat /\ nextWire' >= nextWire
    BY <2>1, <2>2
  <2> QED BY <1>1, <2>1, <2>2, <2>3 DEF RulePut
<1> QED BY <1>1, <1>2, <1>4, <1>5

LEMMA QGateSound ==
    ASSUME Inv, NEW a \in QRegs, NEW b \in QRegs, QGate(a, b) PROVE Inv'
<1>1. CASE ~Fault
  <2>1. /\ q[b] # None /\ RegsPut(a, {}) /\ TablePut(wires[q[b]], {q[a]})
        /\ RulePut(a, {}, wires[q[b]])
    BY <1>1, QGatePut
  <2>2. wires[q[b]] \in Seq(Nat)
    BY <2>1, OwnWires
  <2> QED BY <2>1, <2>2, Down
<1> QED BY <1>1, FaultSound

(* What QPREPS, QMEAS and QRESET do to a register: its handle is taken.        *)
Displaced(a, b) == IF a = b THEN {} ELSE {q[a]}

LEMMA TakenPut ==
    ASSUME Inv, NEW a \in QRegs, NEW b \in QRegs, q[b] # None,
           NEW name, NEW on, NEW marked, Taken(a, b, name, on, marked)
    PROVE  /\ RegsPut(a, {b}) /\ TablePut(wires[q[b]], Displaced(a, b))
           /\ RulePut(a, {b}, wires[q[b]])
           /\ nextHandle \notin Displaced(a, b) /\ \A h \in Displaced(a, b) : h = q[a]
<1> DEFINE G == Displaced(a, b)
<1>1. RegsPut(a, {b})
  BY DEF Taken, RegsPut, Inv, Sound
<1>2. wires' = Only(With(wires, nextHandle, wires[q[b]]),
                    DOMAIN With(wires, nextHandle, wires[q[b]]) \ G)
  BY DEF Taken, Displaced
<1>3. nextHandle \notin G /\ \A h \in G : h = q[a]
  BY Known DEF Displaced
<1> HIDE DEF G
<1>4. TablePut(wires[q[b]], G)
  BY <1>2, <1>3, OneEntry
<1>5. RulePut(a, {b}, wires[q[b]])
  <2>1. mem' = mem /\ nextHandle' = nextHandle + 1 /\ nextWire' = nextWire /\ clean' = clean
    BY DEF Taken
  <2> QED BY <2>1, OwnWires DEF RulePut
<1> QED BY <1>1, <1>3, <1>4, <1>5 DEF G

LEMMA TakenSound ==
    ASSUME Inv, NEW a \in QRegs, NEW b \in QRegs, q[b] # None,
           NEW name, NEW on, NEW marked, Taken(a, b, name, on, marked)
    PROVE  Inv'
<1> DEFINE G == Displaced(a, b)
<1>1. /\ RegsPut(a, {b}) /\ TablePut(wires[q[b]], G) /\ RulePut(a, {b}, wires[q[b]])
      /\ \A h \in G : h \in Live => \E x \in {b} \cup {a} : h = q[x]
  BY TakenPut
<1>2. wires[q[b]] \in Seq(Nat)
  BY OwnWires
<1> HIDE DEF G
<1> QED BY <1>1, <1>2, Down

LEMMA QPrepsSound == ASSUME Inv, NEW r \in QRegs, QPreps(r) PROVE Inv'
BY TakenSound DEF QPreps
LEMMA QMeasSound == ASSUME Inv, NEW r \in QRegs, QMeas(r) PROVE Inv'
BY TakenSound DEF QMeas
LEMMA QResetSound ==
    ASSUME Inv, NEW a \in QRegs, NEW b \in QRegs, QReset(a, b) PROVE Inv'
BY TakenSound DEF QReset

LEMMA Joined ==
    ASSUME NEW s \in Seq(Nat), NEW t \in Seq(Nat)
    PROVE  /\ s \o t \in Seq(Nat)
           /\ \A w \in Range(s \o t) : w \in Range(s) \/ w \in Range(t)
<1>1. ASSUME NEW i \in 1..Len(s \o t)
      PROVE  (s \o t)[i] \in Range(s) \/ (s \o t)[i] \in Range(t)
  <2>1. CASE i <= Len(s)
    BY <2>1 DEF Range
  <2>2. CASE i > Len(s)
    <3>1. i - Len(s) \in 1..Len(t) /\ (s \o t)[i] = t[i - Len(s)]
      BY <2>2
    <3> QED BY <3>1 DEF Range
  <2> QED BY <2>1, <2>2
<1> QED BY <1>1 DEF Range

LEMMA JoinedTable ==
    ASSUME NEW T, NEW ws, NEW o, nextHandle \notin o, NEW S, DOMAIN T = S,
           \A h \in S : T[h] = wires[h],
           wires' = Only(With(T, nextHandle, ws), DOMAIN With(T, nextHandle, ws) \ o),
           NEW G, S = Live \ G
    PROVE  TablePut(ws, G \cup o)
<1> DEFINE V == Only(With(T, nextHandle, ws), DOMAIN With(T, nextHandle, ws) \ o)
<1>1. /\ nextHandle \in DOMAIN V /\ V[nextHandle] = ws
      /\ \A g : g \in DOMAIN V <=> g = nextHandle \/ (g \in DOMAIN T /\ g \notin o)
      /\ \A g \in DOMAIN V \ {nextHandle} : V[g] = T[g]
  BY PlacedTable
<1>2. wires' = V
  OBVIOUS
<1> HIDE DEF V
<1> QED BY <1>1, <1>2 DEF TablePut

(* QTENSOR: the wires of two registers go to one, and both are empty.          *)
LEMMA QTensorPut ==
    ASSUME Inv, NEW d \in QRegs, NEW a \in QRegs, NEW b \in QRegs, QTensor(d, a, b), ~Fault
    PROVE  LET ws == wires[q[a]] \o wires[q[b]]
               G == {q[a], q[b]} \cup {q[d]}
           IN  /\ q[a] # None /\ q[b] # None
               /\ RegsPut(d, {a, b}) /\ TablePut(ws, G) /\ RulePut(d, {a, b}, ws)
               /\ ws \in Seq(Nat) /\ \A h \in G : \E x \in {a, b} \cup {d} : h = q[x]
<1> DEFINE old == {q[d]}
           ws == wires[q[a]] \o wires[q[b]]
           T == Only(wires, Live \ {q[a], q[b]})
           G == {q[a], q[b]} \cup old
<1>1. q[a] # None /\ q[b] # None
  BY DEF QTensor
<1>2. RegsPut(d, {a, b})
  BY DEF QTensor, RegsPut, Inv, Sound
<1>3. wires' = Only(With(T, nextHandle, ws), DOMAIN With(T, nextHandle, ws) \ old)
  BY DEF QTensor
<1>4. nextHandle \notin old
  BY Known
<1>5. ws \in Seq(Nat) /\ \A w \in Range(ws) : w \in Range(wires[q[a]]) \/ w \in Range(wires[q[b]])
  BY <1>1, OwnWires, Joined
<1>6. DOMAIN T = Live \ {q[a], q[b]} /\ \A h \in DOMAIN T : T[h] = wires[h]
  BY OnlyTable
<1> HIDE DEF T
<1> HIDE DEF ws
<1> HIDE DEF old
<1>7. TablePut(ws, G)
  BY <1>3, <1>4, <1>6, JoinedTable
<1>8. RulePut(d, {a, b}, ws)
  <2>1. mem' = mem /\ nextHandle' = nextHandle + 1 /\ nextWire' = nextWire /\ clean' = clean
    BY DEF QTensor
  <2>2. /\ nextWire \in Nat
        /\ clean => \A w \in Range(wires[q[a]]) : w < nextWire
        /\ clean => \A w \in Range(wires[q[b]]) : w < nextWire
    BY <1>1, OwnWires
  <2>3. nextWire' \in Nat /\ nextWire' >= nextWire
    BY <2>1, <2>2
  <2> QED BY <1>1, <1>5, <2>1, <2>2, <2>3 DEF RulePut
<1>9. \A h \in G : \E x \in {a, b} \cup {d} : h = q[x]
  BY DEF old
<1> HIDE DEF G
<1> QED BY <1>1, <1>2, <1>5, <1>7, <1>8, <1>9 DEF G, old, ws

LEMMA QTensorSound ==
    ASSUME Inv, NEW d \in QRegs, NEW a \in QRegs, NEW b \in QRegs, QTensor(d, a, b)
    PROVE  Inv'
<1>1. CASE ~Fault
  <2> DEFINE ws == wires[q[a]] \o wires[q[b]]
             G == {q[a], q[b]} \cup {q[d]}
  <2>1. /\ RegsPut(d, {a, b}) /\ TablePut(ws, G) /\ RulePut(d, {a, b}, ws)
        /\ ws \in Seq(Nat) /\ \A h \in G : \E x \in {a, b} \cup {d} : h = q[x]
    BY <1>1, QTensorPut
  <2> HIDE DEF ws, G
  <2> QED BY <2>1, Down
<1> QED BY <1>1, FaultSound

------------------------------------------------------------------------------
(* The moves.                                                                  *)
LEMMA Places ==
    ASSUME Inv
    PROVE  /\ q \in [QRegs -> Holder] /\ mem \in [Slots -> Holder] /\ nextWire \in Nat
           /\ HeldIn(q, mem) \subseteq Live /\ OnePlace(q, mem)
BY DEF Inv, Sound, Live

(* What a move does: what is held was, and keeps its wires in the tables.      *)
MovedOnly ==
    /\ q' \in [QRegs -> Holder] /\ mem' \in [Slots -> Holder]
    /\ HeldIn(q', mem') \subseteq HeldIn(q, mem)
    /\ HeldIn(q', mem') \subseteq DOMAIN wires'
    /\ OnePlace(q', mem')
    /\ DOMAIN wires' \subseteq Live /\ \A h \in DOMAIN wires' : wires'[h] = wires[h]
    /\ nextHandle' = nextHandle /\ nextWire' \in Nat
    /\ clean' => (clean /\ nextWire' = nextWire) \/ HeldIn(q', mem') = {}

LEMMA MovedSound == ASSUME Inv, MovedOnly PROVE Inv'
<1>1. Sound(q, mem, wires, nextHandle, nextWire, clean)
  BY DEF Inv
<1>2. Sound(q', mem', wires', nextHandle, nextWire', clean')
  BY <1>1, Fewer DEF MovedOnly, Live
<1> QED BY <1>2 DEF Inv, MovedOnly

(* A register or a slot is emptied, with or without its handle in the tables.  *)
LEMMA QObserveMoved ==
    ASSUME Inv, NEW r \in QRegs, QObserve(r)
    PROVE  MovedOnly /\ (clean' => HeldIn(q', mem') = {})
<1>1. /\ q \in [QRegs -> Holder] /\ mem \in [Slots -> Holder]
      /\ HeldIn(q, mem) \subseteq Live /\ OnePlace(q, mem) /\ q[r] # None
  BY Places DEF QObserve
<1>2. /\ q' \in [QRegs -> Holder] /\ mem' = mem /\ q'[r] = None
      /\ \A x \in QRegs : x # r => q'[x] = q[x]
  BY <1>1 DEF QObserve, Taking, Holder
<1>3. mem' \in [Slots -> Holder] /\ OnePlace(q', mem')
  BY <1>1, <1>2 DEF OnePlace
<1>4. \A h \in HeldIn(q', mem') : h \in HeldIn(q, mem) /\ h # q[r]
  <2> SUFFICES ASSUME NEW h \in HeldIn(q', mem') PROVE h \in HeldIn(q, mem) /\ h # q[r]
    OBVIOUS
  <2>1. h # None /\ ((\E x \in QRegs : q'[x] = h) \/ \E m \in Slots : mem'[m] = h)
    BY <1>2, <1>3, Contents
  <2>2. (\E x \in QRegs : x # r /\ q[x] = h) \/ \E m \in Slots : mem[m] = h
    BY <1>2, <2>1
  <2> QED BY <1>1, <2>1, <2>2, Contents DEF OnePlace
<1>5. nextHandle' = nextHandle /\ nextWire' = 0 /\ clean' = (Held = {q[r]})
  BY DEF QObserve, Taking, handles
<1>6. \/ DOMAIN wires' = Live /\ \A h \in DOMAIN wires' : wires'[h] = wires[h]
      \/ DOMAIN wires' = Live \ {q[r]} /\ \A h \in DOMAIN wires' : wires'[h] = wires[h]
  <2>1. wires' = wires \/ wires' = Only(wires, Live \ {q[r]})
    BY DEF QObserve, handles
  <2> QED BY <2>1, OnlyTable DEF Live
<1>7. clean' => HeldIn(q', mem') = {}
  BY <1>4, <1>5, HeldThere
<1>8. MovedOnly
  BY <1>1, <1>2, <1>3, <1>4, <1>5, <1>6, <1>7 DEF MovedOnly
<1> QED BY <1>8, <1>7
LEMMA QObserveSound == ASSUME Inv, NEW r \in QRegs, QObserve(r) PROVE Inv'
BY QObserveMoved, MovedSound

LEMMA QXchMoved == ASSUME Inv, NEW a \in QRegs, NEW b \in QRegs, QXch(a, b), ~Fault PROVE MovedOnly
<1>1. /\ q \in [QRegs -> Holder] /\ mem \in [Slots -> Holder] /\ nextWire \in Nat
      /\ HeldIn(q, mem) \subseteq Live /\ OnePlace(q, mem)
  BY Places
<1>2. /\ q' \in [QRegs -> Holder] /\ mem' = mem
      /\ \A x \in QRegs : q'[x] = IF x = b THEN q[a] ELSE IF x = a THEN q[b] ELSE q[x]
  BY <1>1 DEF QXch
<1>3. mem' \in [Slots -> Holder] /\ OnePlace(q', mem')
  BY <1>1, <1>2 DEF OnePlace
<1>4. HeldIn(q', mem') \subseteq HeldIn(q, mem)
  <2> SUFFICES ASSUME NEW h \in HeldIn(q', mem') PROVE h \in HeldIn(q, mem)
    OBVIOUS
  <2>1. h # None /\ ((\E x \in QRegs : q'[x] = h) \/ \E m \in Slots : mem'[m] = h)
    BY <1>2, <1>3, Contents
  <2>2. (\E x \in QRegs : q[x] = h) \/ \E m \in Slots : mem[m] = h
    BY <1>2, <2>1
  <2> QED BY <1>1, <2>1, <2>2, Contents
<1>5. wires' = wires /\ nextHandle' = nextHandle /\ nextWire' = nextWire /\ clean' = clean
  BY DEF QXch, handles, history
<1>6. MovedOnly
  BY <1>1, <1>2, <1>3, <1>4, <1>5 DEF MovedOnly, Live
<1> QED BY <1>6
LEMMA QXchSound == ASSUME Inv, NEW a \in QRegs, NEW b \in QRegs, QXch(a, b) PROVE Inv'
BY FaultSound, QXchMoved, MovedSound

LEMMA QStoreMoved == ASSUME Inv, NEW r \in QRegs, NEW s \in Slots, QStore(r, s) PROVE MovedOnly
<1>1. /\ q \in [QRegs -> Holder] /\ mem \in [Slots -> Holder] /\ nextWire \in Nat
      /\ HeldIn(q, mem) \subseteq Live /\ OnePlace(q, mem) /\ q[r] # None
  BY Places DEF QStore
<1>2. /\ q' \in [QRegs -> Holder] /\ q'[r] = None
      /\ \A x \in QRegs : x # r => q'[x] = q[x]
      /\ mem' \in [Slots -> Holder] /\ mem'[s] = q[r]
      /\ \A m \in Slots : m # s => mem'[m] = mem[m]
  BY <1>1 DEF QStore, Holder
<1>3. OnePlace(q', mem')
  BY <1>1, <1>2 DEF OnePlace
<1>4. \A h \in HeldIn(q', mem') : h \in HeldIn(q, mem) /\ h # mem[s]
  <2> SUFFICES ASSUME NEW h \in HeldIn(q', mem') PROVE h \in HeldIn(q, mem) /\ h # mem[s]
    OBVIOUS
  <2>1. h # None /\ ((\E x \in QRegs : q'[x] = h) \/ \E m \in Slots : mem'[m] = h)
    BY <1>2, Contents
  <2>2. (\E x \in QRegs : q[x] = h) \/ \E m \in Slots : m # s /\ mem[m] = h
    BY <1>2, <2>1
  <2> QED BY <1>1, <2>1, <2>2, Contents DEF OnePlace
<1>5. nextHandle' = nextHandle /\ nextWire' = nextWire /\ clean' = clean
  BY DEF QStore
<1>6. DOMAIN wires' = Live \ {mem[s]} /\ \A h \in DOMAIN wires' : wires'[h] = wires[h]
  <2>1. wires' = Only(wires, Live \ {mem[s]})
    BY DEF QStore
  <2> QED BY <2>1, OnlyTable
<1>7. MovedOnly
  BY <1>1, <1>2, <1>3, <1>4, <1>5, <1>6 DEF MovedOnly
<1> QED BY <1>7
LEMMA QStoreSound == ASSUME Inv, NEW r \in QRegs, NEW s \in Slots, QStore(r, s) PROVE Inv'
BY QStoreMoved, MovedSound

LEMMA QLoadMoved == ASSUME Inv, NEW r \in QRegs, NEW s \in Slots, QLoad(r, s) PROVE MovedOnly
<1>1. /\ q \in [QRegs -> Holder] /\ mem \in [Slots -> Holder] /\ nextWire \in Nat
      /\ HeldIn(q, mem) \subseteq Live /\ OnePlace(q, mem) /\ mem[s] # None
  BY Places DEF QLoad
<1>2. /\ q' \in [QRegs -> Holder] /\ q'[r] = mem[s]
      /\ \A x \in QRegs : x # r => q'[x] = q[x]
      /\ mem' \in [Slots -> Holder] /\ mem'[s] = None
      /\ \A m \in Slots : m # s => mem'[m] = mem[m]
  BY <1>1 DEF QLoad, Placed, Holder
<1>3. OnePlace(q', mem')
  BY <1>1, <1>2 DEF OnePlace
<1>4. \A h \in HeldIn(q', mem') : h \in HeldIn(q, mem) /\ h # q[r]
  <2> SUFFICES ASSUME NEW h \in HeldIn(q', mem') PROVE h \in HeldIn(q, mem) /\ h # q[r]
    OBVIOUS
  <2>1. h # None /\ ((\E x \in QRegs : q'[x] = h) \/ \E m \in Slots : mem'[m] = h)
    BY <1>2, Contents
  <2>2. (\E x \in QRegs : x # r /\ q[x] = h) \/ \E m \in Slots : mem[m] = h
    BY <1>2, <2>1
  <2> QED BY <1>1, <2>1, <2>2, Contents DEF OnePlace
<1>5. nextHandle' = nextHandle /\ nextWire' = nextWire /\ clean' = clean
  BY DEF QLoad
<1>6. DOMAIN wires' = Live \ {q[r]} /\ \A h \in DOMAIN wires' : wires'[h] = wires[h]
  <2>1. wires' = Only(wires, Live \ {q[r]})
    BY DEF QLoad, Placed, Live
  <2> QED BY <2>1, OnlyTable
<1>7. MovedOnly
  BY <1>1, <1>2, <1>3, <1>4, <1>5, <1>6 DEF MovedOnly
<1> QED BY <1>7
LEMMA QLoadSound == ASSUME Inv, NEW r \in QRegs, NEW s \in Slots, QLoad(r, s) PROVE Inv'
BY QLoadMoved, MovedSound

LEMMA ForkWorkerMoved == ASSUME Inv, ForkWorker PROVE MovedOnly
<1>1. /\ q \in [QRegs -> Holder] /\ mem \in [Slots -> Holder] /\ nextWire \in Nat
      /\ HeldIn(q, mem) \subseteq Live /\ OnePlace(q, mem)
  BY Places
<1>2. /\ q' \in [QRegs -> Holder] /\ mem' = mem /\ \A x \in QRegs : q'[x] = None
  BY DEF ForkWorker, Holder
<1>3. mem' \in [Slots -> Holder] /\ OnePlace(q', mem')
  BY <1>1, <1>2 DEF OnePlace
<1>4. HeldIn(q', mem') \subseteq HeldIn(q, mem)
  BY <1>1, <1>2, <1>3, Contents
<1>5. wires' = wires /\ nextHandle' = nextHandle /\ nextWire' = nextWire /\ clean' = clean
  BY DEF ForkWorker, handles, history
<1>6. MovedOnly
  BY <1>1, <1>2, <1>3, <1>4, <1>5 DEF MovedOnly, Live
<1> QED BY <1>6
LEMMA ForkWorkerSound == ASSUME Inv, ForkWorker PROVE Inv'
BY ForkWorkerMoved, MovedSound

------------------------------------------------------------------------------
LEMMA NextSound == ASSUME Inv, [Next]_vars, MaxPrep \in Nat PROVE Inv'
<1>1. CASE \E a \in QRegs : QPrep(a) \/ QPreps(a) \/ QMeas(a) \/ QObserve(a)
  BY <1>1, QPrepSound, QPrepsSound, QMeasSound, QObserveSound
<1>2. CASE \E a, b \in QRegs : QGate(a, b) \/ Clone(a, b) \/ QReset(a, b) \/ QXch(a, b)
  BY <1>2, QGateSound, CloneSound, QResetSound, QXchSound
<1>3. CASE \E a, b, c \in QRegs : QTensor(a, b, c)
  BY <1>3, QTensorSound
<1>4. CASE \E a \in QRegs, s \in Slots : QStore(a, s) \/ QLoad(a, s)
  BY <1>4, QStoreSound, QLoadSound
<1>5. CASE ForkWorker
  BY <1>5, ForkWorkerSound
<1>6. CASE UNCHANGED vars
  BY <1>6 DEF vars, registers, handles, history, Inv
<1> QED BY <1>1, <1>2, <1>3, <1>4, <1>5, <1>6 DEF Next

LEMMA Apart == Inv => SeparateWires
BY HeldThere DEF Inv, Sound, Separate, SeparateWires, Shares

(* Whatever is prepared, cloned, joined, measured and moved, no two registers  *)
(* share a wire, as long as every register is observed or used up before the   *)
(* circuit is submitted and no gate leaves its source behind.                  *)
THEOREM WiresSeparate == Spec => []SeparateWires
<1>1. Inv /\ [Next]_vars => Inv'
  BY NextSound, MaxPrepAssumption
<1> QED BY InitSound, <1>1, Apart, PTL DEF Spec

------------------------------------------------------------------------------
(* The story of a handle.  The operations that touch one of the wires are those *)
(* that were put down to it, so the circuit submitted is what the program did.  *)
Op == [name : {"prep", "gate", "product", "measqubit", "reset"}, wires : Seq(Nat), id : Nat]
Touched(ops, ws) == {ops[k].id : k \in {j \in DOMAIN ops : Range(ops[j].wires) \cap ws # {}}}
Below(ops, v) == \A k \in DOMAIN ops : \A w \in Range(ops[k].wires) : w < v

StoryInv ==
    /\ ids \in Nat /\ buffer \in [ops : Seq(Op), wires : Nat]
    /\ DOMAIN story = Live
    /\ \A h \in Live : wires[h] # <<>>
    /\ clean => /\ \A h \in Held : story[h] = Touched(buffer.ops, Range(wires[h]))
                /\ Below(buffer.ops, nextWire)
                /\ ~qf => Held = {}

(* How Touched sees one operation more.                                        *)
LEMMA Appended ==
    ASSUME NEW ops \in Seq(Op), NEW o
    PROVE  /\ DOMAIN Append(ops, o) = DOMAIN ops \cup {Len(ops) + 1}
           /\ \A k \in DOMAIN ops : Append(ops, o)[k] = ops[k]
           /\ Append(ops, o)[Len(ops) + 1] = o
OBVIOUS

LEMMA TouchedPushed ==
    ASSUME NEW ops \in Seq(Op), NEW o, NEW ws
    PROVE  /\ Range(o.wires) \cap ws # {} => Touched(Append(ops, o), ws) = Touched(ops, ws) \cup {o.id}
           /\ Range(o.wires) \cap ws = {} => Touched(Append(ops, o), ws) = Touched(ops, ws)
<1> DEFINE more == Append(ops, o)
           n == Len(ops) + 1
<1>1. /\ DOMAIN more = DOMAIN ops \cup {n} /\ more[n] = o
      /\ \A k \in DOMAIN ops : more[k] = ops[k]
  BY Appended
<1> HIDE DEF more
<1> HIDE DEF n
<1>2. \A x : x \in Touched(more, ws) <=>
        x \in Touched(ops, ws) \/ (x = o.id /\ Range(o.wires) \cap ws # {})
  BY <1>1 DEF Touched
<1>3. Range(o.wires) \cap ws # {} => Touched(more, ws) = Touched(ops, ws) \cup {o.id}
  BY <1>2
<1>4. Range(o.wires) \cap ws = {} => Touched(more, ws) = Touched(ops, ws)
  BY <1>2
<1> QED BY <1>3, <1>4 DEF more

LEMMA TouchedNew ==
    ASSUME NEW ops \in Seq(Op), NEW v \in Nat, Below(ops, v), NEW ws, \A w \in ws : w >= v
    PROVE  Touched(ops, ws) = {}
<1>1. ASSUME NEW k \in DOMAIN ops PROVE Range(ops[k].wires) \cap ws = {}
  <2>1. ops[k] \in Op /\ ops[k].wires \in Seq(Nat)
    <3>1. ops[k] \in Op
      OBVIOUS
    <3> QED BY <3>1 DEF Op
  <2>2. \A w \in Range(ops[k].wires) : w \in Nat /\ w < v
    BY <2>1 DEF Below, Range
  <2> QED BY <2>2
<1> QED BY <1>1 DEF Touched

LEMMA TouchedBoth ==
    ASSUME NEW ops, NEW a, NEW b
    PROVE  Touched(ops, a \cup b) = Touched(ops, a) \cup Touched(ops, b)
BY DEF Touched

LEMMA FirstThere ==
    ASSUME NEW s \in Seq(Nat), s # <<>>
    PROVE  Range(s) # {}
<1>1. 1 \in DOMAIN s
  OBVIOUS
<1> QED BY <1>1 DEF Range

LEMMA JoinedRange ==
    ASSUME NEW s \in Seq(Nat), NEW t \in Seq(Nat)
    PROVE  Range(s \o t) = Range(s) \cup Range(t)
<1>1. ASSUME NEW i \in 1..Len(s) PROVE s[i] \in Range(s \o t)
  <2>1. i \in 1..Len(s \o t) /\ (s \o t)[i] = s[i]
    OBVIOUS
  <2> QED BY <2>1 DEF Range
<1>2. ASSUME NEW i \in 1..Len(t) PROVE t[i] \in Range(s \o t)
  <2>1. Len(s) + i \in 1..Len(s \o t) /\ (s \o t)[Len(s) + i] = t[i]
    OBVIOUS
  <2> QED BY <2>1 DEF Range
<1>3. ASSUME NEW w \in Range(s) PROVE w \in Range(s \o t)
  <2>1. PICK i \in 1..Len(s) : w = s[i]
    BY DEF Range
  <2> QED BY <1>1, <2>1
<1>4. ASSUME NEW w \in Range(t) PROVE w \in Range(s \o t)
  <2>1. PICK i \in 1..Len(t) : w = t[i]
    BY DEF Range
  <2> QED BY <1>2, <2>1
<1> QED BY <1>3, <1>4, Joined

(* The buffer with one operation more, on the wires on.                        *)
Names == {"prep", "gate", "product", "measqubit", "reset"}
OneMore(on) ==
    /\ ids \in Nat /\ buffer' \in [ops : Seq(Op), wires : Nat]
    /\ \A ws : Range(on) \cap ws # {} => Touched(buffer'.ops, ws) = Touched(buffer.ops, ws) \cup {ids}
    /\ \A ws : Range(on) \cap ws = {} => Touched(buffer'.ops, ws) = Touched(buffer.ops, ws)
    /\ \A v, u \in Nat :
          Below(buffer.ops, v) /\ v <= u /\ (\A w \in Range(on) : w < u) => Below(buffer'.ops, u)

LEMMA PushedMore ==
    ASSUME StoryInv, NEW name \in Names, NEW on \in Seq(Nat), NEW n \in Nat,
           buffer' = [Pushed(name, on) EXCEPT !.wires = n]
    PROVE  OneMore(on)
<1> DEFINE o == [name |-> name, wires |-> on, id |-> ids]
           ops == buffer.ops
           more == Append(ops, o)
<1>1. ids \in Nat /\ ops \in Seq(Op) /\ o \in Op /\ o.wires = on /\ o.id = ids
  BY DEF StoryInv, Op, Names
<1>2. buffer' = [[buffer EXCEPT !.ops = more] EXCEPT !.wires = n]
  BY DEF Pushed
<1>3. more \in Seq(Op)
  BY <1>1
<1>4. \A ws : /\ Range(on) \cap ws # {} => Touched(more, ws) = Touched(ops, ws) \cup {ids}
              /\ Range(on) \cap ws = {} => Touched(more, ws) = Touched(ops, ws)
  BY <1>1, TouchedPushed
<1>5. ASSUME NEW v \in Nat, NEW u \in Nat, Below(ops, v), v <= u, \A w \in Range(on) : w < u
      PROVE  Below(more, u)
  <2>1. /\ DOMAIN more = DOMAIN ops \cup {Len(ops) + 1} /\ more[Len(ops) + 1] = o
        /\ \A k \in DOMAIN ops : more[k] = ops[k]
    <3> HIDE DEF o, ops
    <3> QED BY <1>1, Appended
  <2> HIDE DEF more, o
  <2>2. ASSUME NEW k \in DOMAIN ops, NEW w \in Range(ops[k].wires) PROVE w < u
    <3>1. ops[k] \in Op
      BY <1>1
    <3>2. ops[k].wires \in Seq(Nat)
      BY <3>1 DEF Op
    <3>3. w \in Nat /\ w < v
      BY <1>5, <2>2, <3>2 DEF Below, Range
    <3> QED BY <1>5, <3>3
  <2>3. \A k \in DOMAIN more : k \in DOMAIN ops \/ more[k] = o
    BY <2>1
  <2> QED BY <1>1, <1>5, <2>1, <2>2, <2>3 DEF Below
<1> HIDE DEF more
<1>6. buffer' \in [ops : Seq(Op), wires : Nat] /\ buffer'.ops = more
  BY <1>2, <1>3 DEF StoryInv
<1> QED BY <1>1, <1>4, <1>5, <1>6 DEF OneMore

(* The table of stories changes as the table of wires does.                    *)
StoryPut(st, G) ==
    /\ nextHandle \in DOMAIN story' /\ story'[nextHandle] = st
    /\ \A g : g \in DOMAIN story' <=> g = nextHandle \/ (g \in DOMAIN story /\ g \notin G)
    /\ \A g \in DOMAIN story' \ {nextHandle} : story'[g] = story[g]

LEMMA OneStory ==
    ASSUME NEW T, NEW st, NEW o, nextHandle \notin o,
           story' = Only(With(T, nextHandle, st), DOMAIN With(T, nextHandle, st) \ o),
           NEW G, DOMAIN T = DOMAIN story \ G, \A h \in DOMAIN T : T[h] = story[h]
    PROVE  StoryPut(st, G \cup o)
<1> DEFINE V == Only(With(T, nextHandle, st), DOMAIN With(T, nextHandle, st) \ o)
<1>1. /\ nextHandle \in DOMAIN V /\ V[nextHandle] = st
      /\ \A g : g \in DOMAIN V <=> g = nextHandle \/ (g \in DOMAIN T /\ g \notin o)
      /\ \A g \in DOMAIN V \ {nextHandle} : V[g] = T[g]
  BY PlacedTable
<1>2. story' = V
  OBVIOUS
<1> HIDE DEF V
<1> QED BY <1>1, <1>2 DEF StoryPut

LEMMA OwnStory ==
    ASSUME NEW st, NEW G, nextHandle \notin G,
           story' = Only(With(story, nextHandle, st), DOMAIN With(story, nextHandle, st) \ G)
    PROVE  StoryPut(st, G)
<1>1. DOMAIN story = DOMAIN story \ {} /\ {} \cup G = G
  OBVIOUS
<1> QED BY <1>1, OneStory

LEMMA StillHeld ==
    ASSUME Inv, NEW r \in QRegs, NEW U \in SUBSET QRegs, RegsPut(r, U)
    PROVE  \A h \in HeldIn(q', mem) : h # nextHandle =>
              h \in HeldIn(q, mem) /\ \A x \in U \cup {r} : h # q[x]
<1>1. /\ q \in [QRegs -> Holder] /\ mem \in [Slots -> Holder] /\ OnePlace(q, mem)
      /\ nextHandle \in Nat
  BY DEF Inv, Sound
<1>2. q' \in [QRegs -> Holder] /\ Given(q, nextHandle, r, U, q')
  BY <1>1 DEF RegsPut, Given, Holder
<1> QED BY <1>1, <1>2, Remains

(* A new handle for the wires ws with the story st, which took the place of    *)
(* the registers r and U; no other handle has a wire that was touched.         *)
LEMMA StoryDown ==
    ASSUME Inv, StoryInv, NEW r \in QRegs, NEW U \in SUBSET QRegs, NEW ws \in Seq(Nat), ws # <<>>,
           NEW G, \A h \in G : h \in Live => \E x \in U \cup {r} : h = q[x],
           NEW st, RegsPut(r, U), TablePut(ws, G), StoryPut(st, G), RulePut(r, U, ws),
           qf' = TRUE, ids' \in Nat, buffer' \in [ops : Seq(Op), wires : Nat],
           clean' => st = Touched(buffer'.ops, Range(ws)) /\ Below(buffer'.ops, nextWire'),
           clean' => \A h \in Held : (\A x \in U \cup {r} : h # q[x]) =>
                        Touched(buffer'.ops, Range(wires[h])) = Touched(buffer.ops, Range(wires[h]))
    PROVE  StoryInv'
<1>1. /\ q \in [QRegs -> Holder] /\ mem \in [Slots -> Holder] /\ OnePlace(q, mem)
      /\ nextHandle \in Nat /\ HeldIn(q, mem) \subseteq Live /\ mem' = mem
  BY DEF Inv, Sound, Live, RulePut
<1>2. \A h \in HeldIn(q', mem) : h # nextHandle =>
         h \in HeldIn(q, mem) /\ \A x \in U \cup {r} : h # q[x]
  BY StillHeld
<1>3. DOMAIN story' = DOMAIN wires'
  BY DEF StoryPut, TablePut, StoryInv
<1>4. \A h \in DOMAIN wires' : wires'[h] # <<>>
  BY DEF TablePut, StoryInv
<1>5. ASSUME clean', NEW h \in HeldIn(q', mem), h # nextHandle
      PROVE  story'[h] = Touched(buffer'.ops, Range(wires'[h]))
  <2>1. h \in HeldIn(q, mem) /\ \A x \in U \cup {r} : h # q[x]
    BY <1>2, <1>5
  <2>2. h \in DOMAIN wires'
    <3>1. h \in Live /\ h \notin G
      BY <1>1, <2>1
    <3> QED BY <3>1 DEF TablePut
  <2>3. wires'[h] = wires[h] /\ story'[h] = story[h]
    BY <1>3, <1>5, <2>2 DEF TablePut, StoryPut
  <2>4. clean
    BY <1>5 DEF RulePut
  <2>5. story[h] = Touched(buffer.ops, Range(wires[h]))
    BY <2>1, <2>4, HeldThere DEF StoryInv
  <2> QED BY <1>5, <2>1, <2>3, <2>5, HeldThere
<1>6. ASSUME clean', NEW h \in Held'
      PROVE  story'[h] = Touched(buffer'.ops, Range(wires'[h]))
  <2>1. h \in HeldIn(q', mem)
    BY <1>1, <1>6 DEF Held, HeldIn
  <2>2. CASE h = nextHandle
    BY <1>6, <2>2 DEF StoryPut, TablePut
  <2> QED BY <1>5, <1>6, <2>1, <2>2
<1> QED BY <1>3, <1>4, <1>6 DEF StoryInv, Live

(* The wires of different registers are different, under the rule.             *)
LEMMA HeldApart ==
    ASSUME Inv, clean
    PROVE  /\ \A g, h \in Held : g # h => Range(wires[g]) \cap Range(wires[h]) = {}
           /\ \A h \in Held : \A w \in Range(wires[h]) : w \in Nat /\ w < nextWire
           /\ nextWire \in Nat
<1>1. Separate(Held, wires, nextWire) /\ nextWire \in Nat
  BY HeldThere DEF Inv, Sound
<1>2. \A h \in Held : wires[h] \in Seq(Nat)
  BY HeldThere DEF Inv, Sound, Table
<1>3. ASSUME NEW h \in Held, NEW w \in Range(wires[h]) PROVE w \in Nat
  <2>1. PICK i \in DOMAIN wires[h] : w = wires[h][i]
    BY DEF Range
  <2> QED BY <1>2, <2>1
<1> QED BY <1>1, <1>3 DEF Separate

LEMMA InHeld ==
    ASSUME Inv, NEW r \in QRegs, q[r] # None
    PROVE  q[r] \in Held
BY HeldThere, Contents DEF Inv, Sound

LEMMA PreparedStory ==
    ASSUME Inv, StoryInv, NEW r \in QRegs, NEW n \in Nat, n >= 1, NEW D, Prepared(r, n, D), clean' => clean
    PROVE  StoryInv'
<1> DEFINE on == Alloc(n)
<1>1. RegsPut(r, {}) /\ TablePut(on, {q[r]}) /\ RulePut(r, {}, on) /\ on \in Seq(Nat)
  BY PreparedPut
<1>2. nextWire \in Nat /\ \A w \in Range(on) : w >= nextWire /\ w < nextWire + n
  BY AllocWires DEF Inv, Sound
<1>3. nextWire \in Range(on) /\ on # <<>>
  <2>1. 1 \in 1..n /\ on[1] = nextWire /\ DOMAIN on = 1..n
    BY <1>2 DEF Alloc
  <2> QED BY <2>1 DEF Range
<1>4. /\ qf' = TRUE /\ ids' = ids + 1 /\ nextWire' = nextWire + n
      /\ buffer' = [Pushed("prep", on) EXCEPT !.wires = Greater(@, nextWire + n)]
  BY DEF Prepared
<1>5. StoryPut({ids}, {q[r]})
  <2>1. story' = Only(With(story, nextHandle, {ids}), DOMAIN With(story, nextHandle, {ids}) \ {q[r]})
    BY DEF Prepared, Placed
  <2> QED BY <2>1, OwnStory, Known
<1> HIDE DEF on
<1>6. OneMore(on)
  <2> DEFINE m == Greater(buffer.wires, nextWire + n)
  <2>1. m \in Nat
    BY <1>2 DEF Greater, StoryInv
  <2>2. buffer' = [Pushed("prep", on) EXCEPT !.wires = m]
    BY <1>4 DEF Pushed, StoryInv
  <2> HIDE DEF m
  <2> QED BY <1>1, <2>1, <2>2, PushedMore DEF Names
<1>7. buffer' \in [ops : Seq(Op), wires : Nat] /\ ids' \in Nat
  BY <1>4, <1>6 DEF OneMore
<1>8. ASSUME clean'
      PROVE  {ids} = Touched(buffer'.ops, Range(on)) /\ Below(buffer'.ops, nextWire')
  <2>1. Below(buffer.ops, nextWire) /\ buffer.ops \in Seq(Op)
    BY <1>8 DEF StoryInv
  <2>2. Touched(buffer.ops, Range(on)) = {}
    BY <1>2, <2>1, TouchedNew
  <2>3. Touched(buffer'.ops, Range(on)) = Touched(buffer.ops, Range(on)) \cup {ids}
    BY <1>3, <1>6 DEF OneMore
  <2>4. nextWire' \in Nat /\ nextWire <= nextWire' /\ \A w \in Range(on) : w < nextWire'
    BY <1>2, <1>4
  <2>5. Below(buffer'.ops, nextWire')
    BY <1>2, <1>6, <2>1, <2>4 DEF OneMore
  <2> QED BY <2>2, <2>3, <2>5
<1>9. ASSUME clean', NEW h \in Held
      PROVE  Touched(buffer'.ops, Range(wires[h])) = Touched(buffer.ops, Range(wires[h]))
  <2>1. \A w \in Range(wires[h]) : w \in Nat /\ w < nextWire
    BY <1>9, HeldApart
  <2>2. Range(on) \cap Range(wires[h]) = {}
    BY <1>2, <2>1
  <2> QED BY <1>6, <2>2 DEF OneMore
<1> QED BY <1>1, <1>3, <1>4, <1>5, <1>7, <1>8, <1>9, StoryDown

(* A gate on the wires on of register b, whose place the new handle takes.     *)
LEMMA GateStory ==
    ASSUME Inv, StoryInv, NEW r \in QRegs, NEW U \in SUBSET QRegs, NEW b \in QRegs, q[b] # None,
           NEW G, \A h \in G : h \in Live => \E x \in U \cup {r} : h = q[x],
           NEW name \in Names, NEW on \in Seq(Nat), on # <<>>, Range(on) \subseteq Range(wires[q[b]]),
           RegsPut(r, U), TablePut(wires[q[b]], G), StoryPut(story[q[b]] \cup {ids}, G),
           RulePut(r, U, wires[q[b]]), buffer' = Pushed(name, on),
           qf' = TRUE, ids' = ids + 1, nextWire' = nextWire, clean' => b \in U \cup {r}
    PROVE  StoryInv'
<1> DEFINE ws == wires[q[b]]
           st == story[q[b]] \cup {ids}
<1>1. ws \in Seq(Nat) /\ ws # <<>>
  BY OwnWires, Known DEF StoryInv
<1>2. OneMore(on)
  <2>1. buffer' = [Pushed(name, on) EXCEPT !.wires = buffer.wires]
    BY DEF Pushed, StoryInv
  <2> QED BY <2>1, PushedMore DEF StoryInv
<1>3. buffer' \in [ops : Seq(Op), wires : Nat] /\ ids' \in Nat
  BY <1>2 DEF OneMore
<1>4. ASSUME clean'
      PROVE  st = Touched(buffer'.ops, Range(ws)) /\ Below(buffer'.ops, nextWire')
  <2>1. clean
    BY <1>4 DEF RulePut
  <2>2. Below(buffer.ops, nextWire) /\ story[q[b]] = Touched(buffer.ops, Range(ws))
    BY <2>1, InHeld DEF StoryInv
  <2>3. Range(on) \cap Range(ws) # {}
    BY FirstThere
  <2>4. Touched(buffer'.ops, Range(ws)) = Touched(buffer.ops, Range(ws)) \cup {ids}
    BY <1>2, <2>3 DEF OneMore
  <2>5. nextWire \in Nat /\ nextWire <= nextWire /\ \A w \in Range(on) : w < nextWire
    BY <2>1, HeldApart, InHeld
  <2>6. Below(buffer'.ops, nextWire)
    BY <1>2, <2>2, <2>5 DEF OneMore
  <2> QED BY <2>2, <2>4, <2>6
<1>5. ASSUME clean', NEW h \in Held, \A x \in U \cup {r} : h # q[x]
      PROVE  Touched(buffer'.ops, Range(wires[h])) = Touched(buffer.ops, Range(wires[h]))
  <2>1. clean /\ h # q[b] /\ q[b] \in Held
    BY <1>5, InHeld DEF RulePut
  <2>2. Range(ws) \cap Range(wires[h]) = {}
    BY <1>5, <2>1, HeldApart
  <2>3. Range(on) \cap Range(wires[h]) = {}
    BY <2>2
  <2> QED BY <1>2, <2>3 DEF OneMore
<1> HIDE DEF ws, st
<1>6. TablePut(ws, G) /\ StoryPut(st, G) /\ RulePut(r, U, ws)
  BY DEF ws, st
<1> QED BY <1>1, <1>3, <1>4, <1>5, <1>6, StoryDown

LEMMA OneWire ==
    ASSUME Inv, NEW b \in QRegs, q[b] # None, NEW w \in Range(wires[q[b]])
    PROVE  <<w>> \in Seq(Nat) /\ <<w>> # <<>> /\ Range(<<w>>) \subseteq Range(wires[q[b]])
<1>1. wires[q[b]] \in Seq(Nat)
  BY OwnWires
<1>2. w \in Nat
  BY <1>1 DEF Range
<1>3. \A x \in Range(<<w>>) : x = w
  BY DEF Range
<1>4. <<w>> \in Seq(Nat) /\ <<w>> # <<>>
  <2>1. Len(<<w>>) = 1 /\ Len(<<>>) = 0
    OBVIOUS
  <2> QED BY <1>2, <2>1
<1> QED BY <1>3, <1>4

LEMMA QGateStory ==
    ASSUME Inv, StoryInv, NEW a \in QRegs, NEW b \in QRegs, QGate(a, b), ~Fault
    PROVE  StoryInv'
<1>1. /\ q[b] # None
      /\ RegsPut(a, {}) /\ TablePut(wires[q[b]], {q[a]}) /\ RulePut(a, {}, wires[q[b]])
  BY QGatePut
<1>2. StoryPut(story[q[b]] \cup {ids}, {q[a]})
  <2> DEFINE st == story[q[b]] \cup {ids}
  <2>1. story' = Only(With(story, nextHandle, st), DOMAIN With(story, nextHandle, st) \ {q[a]})
    BY DEF QGate, Placed
  <2> HIDE DEF st
  <2>2. StoryPut(st, {q[a]})
    BY <2>1, OwnStory, Known
  <2> QED BY <2>2 DEF st
<1>3. PICK on \in {wires[q[b]]} \cup {<<w>> : w \in Range(wires[q[b]])} : buffer' = Pushed("gate", on)
  BY DEF QGate
<1>4. on \in Seq(Nat) /\ on # <<>> /\ Range(on) \subseteq Range(wires[q[b]])
  <2>1. CASE on = wires[q[b]]
    BY <1>1, <2>1, Known DEF StoryInv
  <2>2. CASE on # wires[q[b]]
    <3>1. PICK w \in Range(wires[q[b]]) : on = <<w>>
      BY <2>2
    <3> QED BY <1>1, <3>1, OneWire
  <2> QED BY <2>1, <2>2
<1>5. qf' = TRUE /\ ids' = ids + 1 /\ nextWire' = nextWire /\ (clean' => b = a)
  BY DEF QGate
<1>6. \A h \in {q[a]} : \E x \in {} \cup {a} : h = q[x]
  OBVIOUS
<1>7. "gate" \in Names /\ (clean' => b \in {} \cup {a})
  BY <1>5 DEF Names
<1> QED BY <1>1, <1>2, <1>3, <1>4, <1>5, <1>6, <1>7, GateStory

LEMMA TakenStory ==
    ASSUME Inv, StoryInv, NEW a \in QRegs, NEW b \in QRegs, q[b] # None,
           NEW name \in Names, NEW on \in Seq(Nat), on # <<>>, Range(on) \subseteq Range(wires[q[b]]),
           NEW marked, Taken(a, b, name, on, marked)
    PROVE  StoryInv'
<1> DEFINE G == Displaced(a, b)
<1>1. /\ RegsPut(a, {b}) /\ TablePut(wires[q[b]], G) /\ RulePut(a, {b}, wires[q[b]])
      /\ nextHandle \notin G /\ \A h \in G : h \in Live => \E x \in {b} \cup {a} : h = q[x]
  BY TakenPut
<1>2. StoryPut(story[q[b]] \cup {ids}, G)
  <2> DEFINE st == story[q[b]] \cup {ids}
  <2>1. story' = Only(With(story, nextHandle, st), DOMAIN With(story, nextHandle, st) \ G)
    BY DEF Taken, Displaced
  <2> HIDE DEF st, G
  <2>2. StoryPut(st, G)
    BY <1>1, <2>1, OwnStory
  <2> QED BY <2>2 DEF st
<1>3. qf' = TRUE /\ ids' = ids + 1 /\ nextWire' = nextWire /\ buffer' = Pushed(name, on)
  BY DEF Taken
<1> HIDE DEF G
<1>4. b \in {b} \cup {a}
  OBVIOUS
<1> QED BY <1>1, <1>2, <1>3, <1>4, GateStory

LEMMA QPrepsStory == ASSUME Inv, StoryInv, NEW r \in QRegs, QPreps(r) PROVE StoryInv'
<1> DEFINE ws == wires[q[r]]
<1>1. q[r] # None /\ ws \in Seq(Nat)
  BY OwnWires DEF QPreps
<1>2. PICK n \in 1..Len(ws) : Taken(r, r, "product", SubSeq(ws, 1, n), {q[r]})
  BY DEF QPreps
<1> DEFINE on == SubSeq(ws, 1, n)
<1>3. on \in Seq(Nat) /\ on # <<>> /\ Range(on) \subseteq Range(ws)
  <2> HIDE DEF ws
  <2>1. n \in Nat /\ n >= 1 /\ n <= Len(ws) /\ \A i \in 1..n : ws[i] \in Nat
    BY <1>1, <1>2
  <2>2. /\ on \in Seq(Nat) /\ Len(on) = IF 1 <= n THEN n - 1 + 1 ELSE 0
        /\ \A i \in 1..(n - 1 + 1) : on[i] = ws[1 + i - 1]
    BY <2>1, SubSeqProperties
  <2>3. Len(on) = n /\ \A i \in 1..n : on[i] = ws[i]
    BY <2>1, <2>2
  <2> HIDE DEF on
  <2>4. ASSUME NEW w \in Range(on) PROVE w \in Range(ws)
    <3>1. PICK i \in 1..n : w = on[i]
      BY <2>2, <2>3 DEF Range
    <3>2. i \in 1..Len(ws) /\ w = ws[i]
      BY <2>1, <2>3, <3>1
    <3> QED BY <1>1, <3>2 DEF Range
  <2> QED BY <2>1, <2>2, <2>3, <2>4
<1> HIDE DEF on
<1>4. "product" \in Names
  BY DEF Names
<1> QED BY <1>1, <1>2, <1>3, <1>4, TakenStory DEF on

LEMMA MeasStory ==
    ASSUME Inv, StoryInv, NEW a \in QRegs, NEW b \in QRegs, q[b] # None, NEW w \in Range(wires[q[b]]),
           NEW name \in Names, Taken(a, b, name, <<w>>, {})
    PROVE  StoryInv'
<1>1. <<w>> \in Seq(Nat) /\ <<w>> # <<>> /\ Range(<<w>>) \subseteq Range(wires[q[b]])
  BY OneWire
<1> QED BY <1>1, TakenStory

LEMMA QMeasStory == ASSUME Inv, StoryInv, NEW r \in QRegs, QMeas(r) PROVE StoryInv'
<1>1. "measqubit" \in Names
  BY DEF Names
<1> QED BY <1>1, MeasStory DEF QMeas
LEMMA QResetStory ==
    ASSUME Inv, StoryInv, NEW a \in QRegs, NEW b \in QRegs, QReset(a, b) PROVE StoryInv'
<1>1. "reset" \in Names
  BY DEF Names
<1> QED BY <1>1, MeasStory DEF QReset

(* QTENSOR: what touched the one or the other register touches both together.  *)
LEMMA QTensorStory ==
    ASSUME Inv, StoryInv, NEW d \in QRegs, NEW a \in QRegs, NEW b \in QRegs, QTensor(d, a, b), ~Fault
    PROVE  StoryInv'
<1> DEFINE ws == wires[q[a]] \o wires[q[b]]
           old == {q[d]}
           G == {q[a], q[b]} \cup old
           T == Only(story, Live \ {q[a], q[b]})
           st == story[q[a]] \cup story[q[b]]
<1>1. /\ q[a] # None /\ q[b] # None
      /\ RegsPut(d, {a, b}) /\ TablePut(ws, G) /\ RulePut(d, {a, b}, ws)
      /\ ws \in Seq(Nat) /\ \A h \in G : h \in Live => \E x \in {a, b} \cup {d} : h = q[x]
  BY QTensorPut
<1>2. /\ wires[q[a]] \in Seq(Nat) /\ wires[q[a]] # <<>> /\ wires[q[b]] \in Seq(Nat)
      /\ Range(ws) = Range(wires[q[a]]) \cup Range(wires[q[b]])
  BY <1>1, Known, JoinedRange DEF StoryInv
<1>3. ws # <<>>
  BY <1>2
<1>4. StoryPut(st, G)
  <2>1. story' = Only(With(T, nextHandle, st), DOMAIN With(T, nextHandle, st) \ old)
    BY DEF QTensor
  <2>2. DOMAIN T = DOMAIN story \ {q[a], q[b]} /\ \A h \in DOMAIN T : T[h] = story[h]
    BY OnlyTable DEF StoryInv
  <2>3. nextHandle \notin old
    BY Known
  <2> HIDE DEF T, st, old
  <2> QED BY <2>1, <2>2, <2>3, OneStory
<1>5. qf' = TRUE /\ ids' = ids /\ nextWire' = nextWire /\ buffer' = buffer /\ clean' = clean
  BY DEF QTensor
<1>6. ASSUME clean'
      PROVE  st = Touched(buffer'.ops, Range(ws)) /\ Below(buffer'.ops, nextWire')
  <2>1. /\ story[q[a]] = Touched(buffer.ops, Range(wires[q[a]]))
        /\ story[q[b]] = Touched(buffer.ops, Range(wires[q[b]]))
        /\ Below(buffer.ops, nextWire)
    BY <1>1, <1>5, <1>6, InHeld DEF StoryInv
  <2>2. Touched(buffer.ops, Range(ws)) = st
    BY <1>2, <2>1, TouchedBoth
  <2> QED BY <1>5, <2>1, <2>2
<1>7. ids' \in Nat /\ buffer' \in [ops : Seq(Op), wires : Nat]
  BY <1>5 DEF StoryInv
<1> HIDE DEF ws, G, st
<1> QED BY <1>1, <1>3, <1>4, <1>5, <1>6, <1>7, StoryDown

------------------------------------------------------------------------------
(* The moves: no story is told anew, and what is held was held.                *)
LEMMA MovedStory ==
    ASSUME Inv, StoryInv, MovedOnly, buffer' = buffer, ids' = ids, nextWire' = nextWire, clean' = clean,
           qf' = qf \/ qf' = TRUE,
           DOMAIN story' = DOMAIN wires', \A h \in DOMAIN story' : story'[h] = story[h]
    PROVE  StoryInv'
<1>1. /\ Held' \subseteq Held /\ Held' \subseteq DOMAIN wires'
      /\ DOMAIN wires' \subseteq Live /\ \A h \in DOMAIN wires' : wires'[h] = wires[h]
  BY DEF MovedOnly, Held, HeldIn
<1>2. ASSUME clean', NEW h \in Held'
      PROVE  story'[h] = Touched(buffer'.ops, Range(wires'[h]))
  <2>1. wires'[h] = wires[h] /\ story'[h] = story[h] /\ h \in Held
    BY <1>1
  <2> QED BY <1>2, <2>1 DEF StoryInv
<1>3. clean' => (~qf' => Held' = {})
  BY <1>1 DEF StoryInv
<1> QED BY <1>1, <1>2, <1>3 DEF StoryInv, Live, Below

LEMMA QXchStory ==
    ASSUME Inv, StoryInv, NEW a \in QRegs, NEW b \in QRegs, QXch(a, b), ~Fault
    PROVE  StoryInv'
<1>1. /\ buffer' = buffer /\ ids' = ids /\ nextWire' = nextWire /\ clean' = clean /\ qf' = qf
      /\ wires' = wires /\ story' = story
  BY DEF QXch, handles, history
<1> QED BY <1>1, QXchMoved, MovedStory DEF StoryInv, Live

LEMMA QStoreStory ==
    ASSUME Inv, StoryInv, NEW r \in QRegs, NEW s \in Slots, QStore(r, s)
    PROVE  StoryInv'
<1>1. /\ buffer' = buffer /\ ids' = ids /\ nextWire' = nextWire /\ clean' = clean /\ qf' = qf
      /\ wires' = Only(wires, Live \ {mem[s]}) /\ story' = Only(story, Live \ {mem[s]})
  BY DEF QStore
<1>2. DOMAIN story' = DOMAIN wires' /\ \A h \in DOMAIN story' : story'[h] = story[h]
  BY <1>1, OnlyTable
<1> QED BY <1>1, <1>2, QStoreMoved, MovedStory

LEMMA QLoadStory ==
    ASSUME Inv, StoryInv, NEW r \in QRegs, NEW s \in Slots, QLoad(r, s)
    PROVE  StoryInv'
<1>1. /\ buffer' = buffer /\ ids' = ids /\ nextWire' = nextWire /\ clean' = clean /\ qf' = TRUE
      /\ wires' = Only(wires, Live \ {q[r]}) /\ story' = Only(story, DOMAIN story \ {q[r]})
  BY DEF QLoad, Placed, Live
<1>2. DOMAIN story' = DOMAIN wires' /\ \A h \in DOMAIN story' : story'[h] = story[h]
  BY <1>1, OnlyTable DEF StoryInv
<1> QED BY <1>1, <1>2, QLoadMoved, MovedStory

(* The buffer is empty: no handle may be held under the rule.                  *)
LEMMA Emptied ==
    ASSUME Inv, StoryInv, MovedOnly, buffer' = NoProgram, ids' = ids, clean' => HeldIn(q', mem') = {},
           DOMAIN story' = DOMAIN wires'
    PROVE  StoryInv'
<1>1. \A h \in DOMAIN wires' : wires'[h] # <<>>
  BY DEF MovedOnly, StoryInv
<1>2. clean' => Held' = {}
  BY DEF Held, HeldIn
<1>3. buffer' \in [ops : Seq(Op), wires : Nat] /\ Below(buffer'.ops, nextWire')
  BY DEF NoProgram, Below
<1> QED BY <1>1, <1>2, <1>3 DEF StoryInv, Live

LEMMA QObserveStory ==
    ASSUME Inv, StoryInv, NEW r \in QRegs, QObserve(r)
    PROVE  StoryInv'
<1>1. buffer' = NoProgram /\ ids' = ids
  BY DEF QObserve, Taking
<1>2. \/ wires' = wires /\ story' = story
      \/ wires' = Only(wires, Live \ {q[r]}) /\ story' = Only(story, Live \ {q[r]})
  BY DEF QObserve, handles
<1>3. DOMAIN story' = DOMAIN wires'
  BY <1>2, OnlyTable DEF StoryInv, Live
<1> QED BY <1>1, <1>3, QObserveMoved, Emptied

(* A worker inherits QMEM without the buffer; under the rule nothing is there   *)
(* when QF is clear.                                                           *)
LEMMA ForkWorkerStory ==
    ASSUME Inv, StoryInv, ForkWorker
    PROVE  StoryInv'
<1>1. buffer' = NoProgram /\ ids' = ids /\ wires' = wires /\ story' = story /\ clean' = clean /\ ~qf
  BY DEF ForkWorker, handles, history
<1>2. clean' => HeldIn(q', mem') = {}
  <2>1. clean => HeldIn(q, mem) = {}
    BY <1>1, HeldThere DEF StoryInv
  <2> QED BY <1>1, <2>1, ForkWorkerMoved DEF MovedOnly
<1> QED BY <1>1, <1>2, ForkWorkerMoved, Emptied DEF StoryInv, Live

LEMMA FaultStory == StoryInv /\ Fault => StoryInv'
BY DEF StoryInv, Fault, registers, handles, history, Held, Live

LEMMA InitStory == Init => StoryInv
<1> SUFFICES ASSUME Init PROVE StoryInv
  OBVIOUS
<1>1. Held = {}
  <2>1. q \in [QRegs -> Holder] /\ mem \in [Slots -> Holder]
    BY DEF Init, Holder
  <2> QED BY <2>1, HeldThere, Contents DEF Init
<1>2. buffer \in [ops : Seq(Op), wires : Nat] /\ Below(buffer.ops, nextWire)
  BY DEF Init, NoProgram, Below
<1> QED BY <1>1, <1>2 DEF Init, StoryInv, Live

LEMMA NextStory == ASSUME Inv, StoryInv, [Next]_vars PROVE StoryInv'
<1>1. CASE Fault
  BY <1>1, FaultStory
<1>2. CASE ~Fault
  <2>1. ASSUME NEW a \in QRegs, QPrep(a) PROVE StoryInv'
    BY <2>1, PreparedStory, MaxPrepAssumption DEF QPrep
  <2>2. ASSUME NEW a \in QRegs, NEW b \in QRegs, Clone(a, b) PROVE StoryInv'
    <3>1. /\ q[b] # None /\ Prepared(a, Len(wires[q[b]]), fresh) /\ (clean' => clean)
      BY <1>2, <2>2 DEF Clone
    <3>2. Len(wires[q[b]]) \in Nat /\ Len(wires[q[b]]) >= 1
      <4>1. wires[q[b]] \in Seq(Nat) /\ wires[q[b]] # <<>>
        BY <3>1, Known DEF StoryInv
      <4> QED BY <4>1
    <3> QED BY <3>1, <3>2, PreparedStory
  <2>3. CASE \E a \in QRegs : QPrep(a) \/ QPreps(a) \/ QMeas(a) \/ QObserve(a)
    BY <2>1, <2>3, QPrepsStory, QMeasStory, QObserveStory
  <2>4. CASE \E a, b \in QRegs : QGate(a, b) \/ Clone(a, b) \/ QReset(a, b) \/ QXch(a, b)
    BY <1>2, <2>2, <2>4, QGateStory, QResetStory, QXchStory
  <2>5. CASE \E a, b, c \in QRegs : QTensor(a, b, c)
    BY <1>2, <2>5, QTensorStory
  <2>6. CASE \E a \in QRegs, s \in Slots : QStore(a, s) \/ QLoad(a, s)
    BY <2>6, QStoreStory, QLoadStory
  <2>7. CASE ForkWorker
    BY <2>7, ForkWorkerStory
  <2>8. CASE UNCHANGED vars
    BY <2>8 DEF vars, registers, handles, history, StoryInv, Held, Live
  <2> QED BY <2>3, <2>4, <2>5, <2>6, <2>7, <2>8 DEF Next
<1> QED BY <1>1, <1>2

------------------------------------------------------------------------------
(* The circuit handed over is the buffer with the measurement behind it.       *)
LEMMA ObservedStep ==
    ASSUME Inv, StoryInv, NEW r \in QRegs, QObserve(r)
    PROVE  ObservedWhole'
<1> SUFFICES ASSUME clean
             PROVE  ObservedWhole'
  BY DEF QObserve, Taking, ObservedWhole
<1> DEFINE on == wires[q[r]]
           ops == buffer.ops
           o == [name |-> "measure", wires |-> on, id |-> ids]
           more == Append(ops, o)
           n == Greater(buffer.wires, Greater(nextWire, Last(on) + 1))
<1>1. /\ submitted'.program.ops = more /\ submitted'.program.wires = n
      /\ submitted'.observed = on /\ submitted'.story = story[q[r]] /\ q[r] # None
  BY DEF QObserve, Taking
<1>2. q[r] \in Held /\ nextWire \in Nat /\ \A w \in Range(on) : w \in Nat /\ w < nextWire
  BY <1>1, InHeld, HeldApart
<1>3. ops \in Seq(Op) /\ Below(ops, nextWire) /\ story[q[r]] = Touched(ops, Range(on)) /\ buffer.wires \in Nat
  BY <1>2 DEF StoryInv
<1>4. n \in Int /\ n >= nextWire
  <2>1. on \in Seq(Nat) /\ on # <<>>
    BY <1>1, Known DEF StoryInv
  <2>2. Last(on) \in Nat
    BY <2>1 DEF Last
  <2> HIDE DEF on
  <2> QED BY <1>2, <1>3, <2>2 DEF Greater
<1>5. /\ DOMAIN more = DOMAIN ops \cup {Len(ops) + 1} /\ more[Len(ops) + 1] = o
      /\ \A k \in DOMAIN ops : more[k] = ops[k]
  BY <1>3, Appended
<1>6. o.name = "measure" /\ o.wires = on
  OBVIOUS
<1> HIDE DEF more, o, n
<1>7. \A k \in DOMAIN ops : /\ ops[k].name # "measure"
                            /\ \A w \in Range(ops[k].wires) : w \in Nat /\ w < nextWire
  <2> SUFFICES ASSUME NEW k \in DOMAIN ops
               PROVE  /\ ops[k].name # "measure"
                      /\ \A w \in Range(ops[k].wires) : w \in Nat /\ w < nextWire
    OBVIOUS
  <2>1. ops[k] \in Op
    BY <1>3
  <2>2. ops[k].name # "measure" /\ ops[k].wires \in Seq(Nat)
    BY <2>1 DEF Op
  <2>3. \A w \in Range(ops[k].wires) : w \in Nat
    BY <2>2 DEF Range
  <2> QED BY <1>3, <2>2, <2>3 DEF Below
<1> DEFINE touching == {k \in DOMAIN more :
                more[k].name # "measure" /\ Range(more[k].wires) \cap Range(on) # {}}
<1>8. {more[k].id : k \in touching} = Touched(ops, Range(on))
  <2>1. \A k : k \in touching <=> k \in DOMAIN ops /\ Range(ops[k].wires) \cap Range(on) # {}
    BY <1>5, <1>6, <1>7
  <2> HIDE DEF touching
  <2> QED BY <1>5, <2>1 DEF Touched
<1>9. \A k \in DOMAIN more : \A w \in Range(more[k].wires) : w < n
  <2> SUFFICES ASSUME NEW k \in DOMAIN more, NEW w \in Range(more[k].wires)
               PROVE  w < n
    OBVIOUS
  <2>1. w \in Nat /\ w < nextWire
    BY <1>2, <1>5, <1>6, <1>7
  <2> QED BY <1>2, <1>4, <2>1
<1> QED BY <1>1, <1>3, <1>8, <1>9 DEF ObservedWhole, NumWiresCover

LEMMA NotSubmitted ==
    ASSUME [Next]_vars, \A r \in QRegs : ~QObserve(r)
    PROVE  submitted' = submitted
<1>1. CASE Fault
  BY <1>1 DEF Fault
<1>2. ASSUME NEW a \in QRegs, QPrep(a) \/ QPreps(a) \/ QMeas(a)
      PROVE  submitted' = submitted
  BY <1>2 DEF QPrep, QPreps, QMeas, Prepared, Taken
<1>3. ASSUME NEW a \in QRegs, NEW b \in QRegs, QGate(a, b) \/ Clone(a, b) \/ QReset(a, b) \/ QXch(a, b)
      PROVE  submitted' = submitted
  <2>1. CASE QGate(a, b) \/ Clone(a, b)
    BY <1>1, <2>1 DEF QGate, Clone, Prepared
  <2>2. CASE QReset(a, b) \/ QXch(a, b)
    BY <1>1, <2>2 DEF QReset, Taken, QXch
  <2> QED BY <1>3, <2>1, <2>2
<1>4. ASSUME NEW a \in QRegs, NEW b \in QRegs, NEW c \in QRegs, QTensor(a, b, c)
      PROVE  submitted' = submitted
  BY <1>1, <1>4 DEF QTensor
<1>5. ASSUME NEW a \in QRegs, NEW s \in Slots, QStore(a, s) \/ QLoad(a, s)
      PROVE  submitted' = submitted
  BY <1>5 DEF QStore, QLoad
<1>6. CASE ForkWorker \/ UNCHANGED vars
  BY <1>6 DEF ForkWorker, vars
<1> QED BY <1>2, <1>3, <1>4, <1>5, <1>6 DEF Next

(* Under the same rule every circuit that is submitted does to the qubits that *)
(* are observed what the program did to them, and nothing else.                *)
THEOREM ObservationsWhole == Spec => []ObservedWhole
<1>1. Init => Inv /\ StoryInv /\ ObservedWhole
  BY InitSound, InitStory DEF Init, Nothing, ObservedWhole
<1>2. Inv /\ [Next]_vars => Inv'
  BY NextSound, MaxPrepAssumption
<1>3. Inv /\ StoryInv /\ [Next]_vars => StoryInv'
  BY NextStory
<1>4. Inv /\ StoryInv /\ ObservedWhole /\ [Next]_vars => ObservedWhole'
  BY ObservedStep, NotSubmitted DEF ObservedWhole, NumWiresCover
<1> QED BY <1>1, <1>2, <1>3, <1>4, PTL DEF Spec
=============================================================================
