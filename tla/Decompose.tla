------------------------------- MODULE Decompose ------------------------------
(* cqam-micro, decompose: kernels and preparations as standard gates.         *)
EXTENDS Circuits

None == -1                      \* no ancilla wire
Even(n) == n % 2 = 0
BitOf(v, b) == (v \div 2^b) % 2

------------------------------------------------------------------------------
(* Multiply controlled gates (grover.rs, controlled.rs)                       *)

Toffoli(a, b, t) ==
    <<H(t), Cx(b, t), Tdg(t), Cx(a, t), T(t), Cx(b, t), Tdg(t), Cx(a, t),
      T(b), T(t), H(t), Cx(a, b), T(a), Tdg(b), Cx(a, b)>>

(* A Toffoli up to a phase.                                                   *)
Rccx(a, b, t) ==
    <<H(t), T(t), Cx(b, t), Tdg(t), Cx(a, t), T(t), Cx(b, t), Tdg(t), H(t)>>
ActionGadget(a, b, t) == <<H(t), T(t), Cx(a, t), Tdg(t), Cx(b, t)>>
ResetGadget(a, b, t) == <<Cx(b, t), T(t), Cx(a, t), Tdg(t), H(t)>>

(* Dirty ancillas: whatever state they are in, they are returned to it.       *)
McxDirty(c, t, dirty) ==
    LET m == Len(c)
        pass == Toffoli(c[m], dirty[m - 2], t)
                \o Concat(m - 3, [i \in 1..(m - 3) |->
                     ActionGadget(c[m - i], dirty[m - 2 - i], dirty[m - 1 - i])])
                \o Rccx(c[1], c[2], dirty[1])
                \o Concat(m - 3, [i \in 1..(m - 3) |-> ResetGadget(c[i + 2], dirty[i], dirty[i + 1])])
    IN  CASE m = 2 -> Toffoli(c[1], c[2], t)
          [] m = 3 -> LET half == Toffoli(c[1], c[2], dirty[1]) \o Toffoli(c[3], dirty[1], t)
                      IN  half \o half
          [] OTHER -> pass \o pass

McxClean(c, t, ancilla) ==
    LET m == Len(c)
        k == (m + 1) \div 2
        first == SubSeq(c, 1, k)
        second == SubSeq(c, k + 1, m)
        half == McxDirty(first, ancilla, second) \o McxDirty(Append(second, ancilla), t, first)
        dressing == Rccx(c[1], c[2], ancilla)
    IN  IF m = 3 THEN dressing \o Toffoli(c[3], ancilla, t) \o dressing ELSE half \o half

(* Without the ancilla wire four wires or more are a panic.                   *)
Mcz(w, ancilla) ==
    LET n == Len(w)
        t == w[n]
        c == Front(w)
    IN  CASE n = 1 -> <<Rz(w[1], Pi)>>
          [] n = 2 -> <<Cz(w[1], w[2])>>
          [] n = 3 -> <<H(t)>> \o Toffoli(w[1], w[2], t) \o <<H(t)>>
          [] n > 3 /\ ancilla = None -> Fail
      [] n > 3 /\ ancilla # None -> <<H(t)>> \o McxClean(c, t, ancilla) \o <<H(t)>>

------------------------------------------------------------------------------
(* Diagonals: the phases' Walsh-Hadamard coefficients as rotations of parities *)

Sign(j, k, n) == IF Even(Cardinality({b \in 0..(n - 1) : BitOf(j, b) = 1 /\ BitOf(k, b) = 1}))
                 THEN 1 ELSE -1
Coefficient(phases, k, n) ==
    LET sum[j \in 0..2^n] == IF j = 0 THEN 0 ELSE sum[j - 1] + Sign(j - 1, k, n) * phases[j]
    IN  sum[2^n]
Parity(w, phases, k) ==
    LET n == Len(w)
        bits == Ascending(n, {b \in 0..(n - 1) : BitOf(k, b) = 1})
        t == w[n - bits[1]]
        angle == -((2 * Coefficient(phases, k, n)) \div 2^n)
        flips == [i \in 1..(Len(bits) - 1) |-> Cx(w[n - bits[i + 1]], t)]
    IN  IF angle = 0 THEN <<>> ELSE flips \o <<Rz(t, angle)>> \o flips
DiagonalGates(w, phases) ==
    Concat(2^Len(w) - 1, [k \in 1..(2^Len(w) - 1) |-> Parity(w, phases, k)])

MultiCx(c, t, ancilla) ==
    LET all == Append(c, t)
    IN  CASE c = <<>> -> <<X(t)>>
          [] Len(c) = 1 -> <<Cx(c[1], t)>>
          [] Len(c) = 2 -> Toffoli(c[1], c[2], t)
          [] Len(c) > 2 /\ ancilla # None -> McxClean(c, t, ancilla)
          [] OTHER -> <<H(t)>> \o DiagonalGates(all, [k \in 1..2^Len(all) |->
                                      IF k = 2^Len(all) THEN Pi ELSE 0]) \o <<H(t)>>

------------------------------------------------------------------------------
(* Diffuse, GroverIter                                                        *)

Hs(w) == [k \in DOMAIN w |-> H(w[k])]
Xs(w) == [k \in DOMAIN w |-> X(w[k])]
DiffuseGates(w, ancilla) ==
    Hs(w) \o Xs(w) \o Mcz(w, ancilla) \o Xs(w) \o Hs(w)

(* Every listed target is marked, one listed twice twice.                     *)
Mark(w, target, ancilla) ==
    LET n == Len(w)
        zeros == Ascending(n, {i \in 0..(n - 1) : BitOf(target, n - 1 - i) = 0})
        flips == [k \in DOMAIN zeros |-> X(w[zeros[k] + 1])]
    IN  flips \o Mcz(w, ancilla) \o flips
GroverGates(w, targets, ancilla) ==
    IF \E k \in DOMAIN targets : targets[k] >= 2^Len(w) THEN Fail
    ELSE Concat(Len(targets), [k \in DOMAIN targets |-> Mark(w, targets[k], ancilla)])
         \o DiffuseGates(w, ancilla)

------------------------------------------------------------------------------
(* Rotate, PhaseShift, Fourier                                                *)

RotateGates(w, angle) == [j \in DOMAIN w |-> Rz(w[j], angle * 2^(Len(w) - j))]

ControlledPhaseGates(c, t, angle) ==
    <<Rz(t, angle \div 2), Cx(c, t), Rz(t, -(angle \div 2)), Cx(c, t), Rz(c, angle \div 2)>>
SwapEnds(w) == [i \in 1..(Len(w) \div 2) |-> Swap(w[i], w[Len(w) + 1 - i])]
FourierStep(w, j) ==
    LET rest == Len(w) - j
    IN  <<H(w[j])>> \o Concat(rest, [m \in 1..rest |->
                          ControlledPhaseGates(w[j + m], w[j], (2 * Pi) \div 2^m)])
FourierGates(w) == Concat(Len(w), [j \in DOMAIN w |-> FourierStep(w, j)]) \o SwapEnds(w)
FourierInvStep(w, i) ==
    LET t == Len(w) + 1 - i
    IN  Concat(i - 1, [m \in 1..(i - 1) |->
            ControlledPhaseGates(w[Len(w) + 1 - m], w[t], -((2 * Pi) \div 2^(i - m)))])
        \o <<H(w[t])>>
FourierInvGates(w) == SwapEnds(w) \o Concat(Len(w), [i \in DOMAIN w |-> FourierInvStep(w, i)])

------------------------------------------------------------------------------
(* Permutation.  The control wires of a shift's carry are the lower wires.    *)

Carry(w, i, coin, ancilla) == MultiCx(coin \o SubSeq(w, i + 1, Len(w)), w[i], ancilla)
Increment(w, coin, ancilla) == Concat(Len(w), [i \in DOMAIN w |-> Carry(w, i, coin, ancilla)])
Decrement(w, coin, ancilla) ==
    Concat(Len(w), [i \in DOMAIN w |-> Carry(w, Len(w) + 1 - i, coin, ancilla)])
Shift(w, by, coin, ancilla) ==
    CASE by = 0 -> <<>>
      [] by = 1 -> Increment(w, coin, ancilla)
      [] by = -1 -> Decrement(w, coin, ancilla)

(* The shift of a sector of half the table, in -half/2 .. half/2.             *)
Signed(by, half) == IF by <= half \div 2 THEN by ELSE by - half
SectorShift(table, from, half) ==
    LET by == (table[from + 1] - from) % half
    IN  IF \A k \in 0..(half - 1) : table[from + k + 1] = from + ((k + by) % half)
        THEN {Signed(by, half)} ELSE {}
SectorShifts(table, half) ==
    {<<a, b>> : a \in SectorShift(table, 0, half), b \in SectorShift(table, half, half)}
Shifted(table, by) == \A k \in DOMAIN table : table[k] = (k - 1 + by) % Len(table)

CoinShift(w, shifts, ancilla) ==
    LET coin == w[1]
    IN  (IF shifts[1] = 0 THEN <<>>
         ELSE <<X(coin)>> \o Shift(Tail(w), shifts[1], <<coin>>, ancilla) \o <<X(coin)>>)
        \o Shift(Tail(w), shifts[2], <<coin>>, ancilla)

(* From every number a walk along the table to the first that was seen before; *)
(* its first number is exchanged with the others in turn, each transposition   *)
(* by way of the bits in which the two numbers differ.                         *)
Walk(table, start) ==
    LET walk[k \in 0..Len(table)] == IF k = 0 THEN start ELSE table[walk[k - 1] + 1]
    IN  walk
Visited(table, start) == UNION {Range(Walk(table, j)) : j \in 0..(start - 1)}
Cycle(table, start) ==
    LET walk == Walk(table, start)
        visited(k) == walk[k] \in Visited(table, start) \cup {walk[j] : j \in 0..(k - 1)}
        length == CHOOSE n \in 0..Len(table) : /\ n = Len(table) \/ visited(n)
                                               /\ \A k \in 0..(n - 1) : ~visited(k)
    IN  [k \in 1..length |-> walk[k - 1]]
Exchanges(cycle) ==
    IF Len(cycle) < 2 THEN <<>> ELSE [k \in 1..(Len(cycle) - 1) |-> <<cycle[1], cycle[k + 1]>>]
Transpositions(table) ==
    Concat(Len(table), [i \in DOMAIN table |-> Exchanges(Cycle(table, i - 1))])

OneBit(w, a, bit, ancilla) ==
    LET n == Len(w)
        others == Ascending(n, (0..(n - 1)) \ {bit})
        zeros == Ascending(n, {b \in (0..(n - 1)) \ {bit} : BitOf(a, b) = 0})
        flips == [k \in DOMAIN zeros |-> X(w[n - zeros[k]])]
    IN  flips \o MultiCx([k \in DOMAIN others |-> w[n - others[k]]], w[n - bit], ancilla) \o flips
(* From a to b the bits change from the lowest up, and all but the last back. *)
Transposition(w, a, b, ancilla) ==
    LET differ == Ascending(Len(w), {i \in 0..(Len(w) - 1) : BitOf(a, i) # BitOf(b, i)})
        m == Len(differ)
        changed(bit) == OneBit(w, (a - (a % 2^bit)) + (b % 2^bit), bit, ancilla)
    IN  IF m = 0 THEN <<>>
        ELSE Concat(2 * m - 1, [k \in 1..(2 * m - 1) |->
                                    changed(differ[IF k <= m THEN k ELSE 2 * m - k])])
(* A number beyond the table is a panic.                                      *)
Generic(w, table, ancilla) ==
    LET t == Transpositions(table)
    IN  IF \E k \in DOMAIN table : table[k] \notin 0..(Len(table) - 1) THEN Fail
        ELSE Concat(Len(t), [i \in DOMAIN t |-> Transposition(w, t[i][1], t[i][2], ancilla)])

PermutationGates(w, table, ancilla) ==
    LET n == Len(w)
        shifts == IF n >= 2 THEN SectorShifts(table, 2^(n - 1)) ELSE {}
        simple == {s \in shifts : \A i \in 1..2 : s[i] \in {-1, 0, 1}}
    IN  CASE n > 10 \/ Len(table) # 2^n -> Fail
          [] n = 1 -> IF table = <<1, 0>> THEN <<X(w[1])>> ELSE <<>>
          [] n > 1 /\ Shifted(table, 0) -> <<>>
          [] n > 1 /\ Shifted(table, 1) -> Increment(w, <<>>, ancilla)
          [] n > 1 /\ Shifted(table, -1) -> Decrement(w, <<>>, ancilla)
          [] OTHER -> IF simple # {} THEN CoinShift(w, CHOOSE s \in simple : TRUE, ancilla)
                                     ELSE Generic(w, table, ancilla)

------------------------------------------------------------------------------
(* A control added to every gate (controlled.rs).  A controlled rotation      *)
(* about z has no phase of its own.                                           *)

ControlledRz(c, t, a) == <<Rz(t, a \div 2), Cx(c, t), Rz(t, -(a \div 2)), Cx(c, t)>>
ControlledRy(c, t, a) ==
    <<Turn("Ry", t, <<a \div 2>>), Cx(c, t), Turn("Ry", t, <<-(a \div 2)>>), Cx(c, t)>>

Controlled1(c, g) ==
    LET t == g.wires[1]
        a == g.args
        angle == [Z |-> Pi, S |-> Pi \div 2, Sdg |-> -(Pi \div 2), T |-> Pi \div 4, Tdg |-> -(Pi \div 4)]
    IN  CASE g.name = "X" -> <<Cx(c, t)>>
          [] g.name = "Y" -> <<Gate("Sdg", t), Cx(c, t), Gate("S", t)>>
          [] g.name = "Z" -> <<Cz(c, t)>>
          [] g.name = "H" -> <<Gate("Sdg", t), H(t), Tdg(t), Cx(c, t), T(t), H(t), Gate("S", t)>>
          [] g.name \in {"S", "Sdg", "T", "Tdg"} -> ControlledRz(c, t, angle[g.name])
          [] g.name = "Rz" -> ControlledRz(c, t, a[1])
          [] g.name = "Ry" -> ControlledRy(c, t, a[1])
          [] g.name = "Rx" -> <<Rz(t, Pi \div 2)>> \o ControlledRy(c, t, a[1]) \o <<Rz(t, -(Pi \div 2))>>
          [] g.name = "U3" ->
                <<Rz(t, (a[3] - a[2]) \div 2), Cx(c, t), Rz(t, -((a[3] + a[2]) \div 2)),
                  Turn("Ry", t, <<-(a[1] \div 2)>>), Cx(c, t), Turn("Ry", t, <<a[1] \div 2>>),
                  Rz(t, a[2])>>
          [] OTHER -> Fail
Controlled2(c, g) ==
    LET a == g.wires[1]
        b == g.wires[2]
    IN  CASE g.name = "Cx" -> Toffoli(c, a, b)
          [] g.name = "Cz" -> <<H(b)>> \o Toffoli(c, a, b) \o <<H(b)>>
          [] g.name = "Swap" -> <<Cx(b, a)>> \o Toffoli(c, a, b) \o <<Cx(b, a)>>
          [] OTHER -> Fail
ControlledOp(c, o) ==
    CASE o.op = "gate" /\ Len(o.wires) = 1 -> Controlled1(c, o)
      [] o.op = "gate" /\ Len(o.wires) = 2 -> Controlled2(c, o)
      [] OTHER -> Fail
AddControl(c, ops) == Concat(Len(ops), [k \in DOMAIN ops |-> ControlledOp(c, ops[k])])

------------------------------------------------------------------------------
(* The kernel under control is repeated 2^power times; a rotation's angle is   *)
(* multiplied instead.                                                         *)

KernelGates(w, name, args, ancilla) ==
    CASE name = "Init" -> Hs(w)
      [] name = "Entangle" -> IF Len(w) < 2 THEN Fail ELSE <<Cx(w[1], w[2])>>
      [] name = "Fourier" -> FourierGates(w)
      [] name = "FourierInv" -> FourierInvGates(w)
      [] name = "Diffuse" -> DiffuseGates(w, ancilla)
      [] name = "GroverIter" -> GroverGates(w, args, ancilla)
      [] name \in {"Rotate", "PhaseShift"} -> RotateGates(w, args[1])
      [] name = "DiagonalUnitary" ->
            IF Len(w) > 4 \/ Len(args) # 2^Len(w) THEN Fail ELSE DiagonalGates(w, args)
      [] name = "Permutation" -> PermutationGates(w, args, ancilla)
      [] OTHER -> Fail

ControlledRotations(c, w, angle) ==
    Concat(Len(w), [j \in DOMAIN w |-> ControlledPhaseGates(c, w[j], angle * 2^(Len(w) - j))])
ControlledGates(o) ==
    LET n == Len(o.wires)
        c == o.wires[o.args[1] + 1]
        others == RemoveAt(o.wires, o.args[1] + 1)
        t == IF o.args[4] \in 1..(n - 1) THEN o.args[4] ELSE n - 1
        targets == SubSeq(others, n - t, n - 1)
        times == 2^o.args[2]
        angle == times * o.args[3]
        table == SubSeq(o.args, 5, IF o.sub = "GroverIter" THEN 5 ELSE Len(o.args))
        sub == KernelGates(targets, o.sub, table, None)
    IN  IF n < 2 \/ o.args[1] \notin 0..(n - 1) \/ o.sub \in {"ControlledU", "DiagonalUnitary"} THEN Fail
        ELSE CASE o.sub = "Rotate" -> ControlledRotations(c, targets, angle)
               [] o.sub = "PhaseShift" -> ControlledRotations(c, targets, IF angle < 0 THEN -angle ELSE angle)
               [] OTHER -> AddControl(c, Concat(times, [i \in 1..times |-> sub]))

------------------------------------------------------------------------------
(* Preparations and custom gates                                              *)

PrepGates(w, dist) ==
    CASE dist = "Zero" \/ (dist = "Bell" /\ Len(w) < 2) -> <<>>
      [] dist = "Uniform" -> Hs(w)
      [] dist = "Bell" /\ Len(w) > 1 -> <<H(w[1]), Cx(w[1], w[2])>>
      [] dist = "Ghz" -> <<H(w[1])>> \o [k \in 1..(Len(w) - 1) |-> Cx(w[1], w[k + 1])]

(* The angle and the two phases read off a matrix; its global phase is left.  *)
ZYZ(a) ==
    CASE a[1] = 0 -> <<0, a[5] - a[2], 0>>
      [] a[1] = Pi -> <<Pi, a[4] - a[3] - Pi, 0>>
      [] OTHER -> <<a[1], a[4] - a[2], a[3] - a[2] - Pi>>

ProductGates(o) ==
    [q \in DOMAIN o.wires |->
        LET theta == o.args[3 * q - 2]
            lambda == -o.args[3 * q - 1]
            phi == o.args[3 * q]
        IN  Turn("U3", o.wires[q], IF theta = Pi THEN <<Pi, phi, 0>> ELSE <<theta, phi, lambda>>)]

Larger == {"Diffuse", "GroverIter", "Permutation"}
NeedsAncilla(o) == o.op = "kernel" /\ o.name \in Larger /\ Len(o.wires) >= 4

StandardGates(o, ancilla) ==
    CASE o.op = "prep" -> <<Prep("Zero", o.wires)>> \o PrepGates(o.wires, o.name)
      [] o.op = "kernel" /\ o.name = "ControlledU" -> ControlledGates(o)
      [] o.op = "kernel" /\ o.name # "ControlledU" ->
            KernelGates(o.wires, o.name, o.args, IF Len(o.wires) >= 4 THEN ancilla ELSE None)
      [] o.op = "unitary" ->
            IF Len(o.wires) = 1 THEN <<Turn("U3", o.wires[1], ZYZ(o.args))>> ELSE Fail
      [] o.op = "product" -> ProductGates(o)
      [] OTHER -> <<o>>

(* One wire more, shared by all the kernels that need it.                     *)
Standard(program) ==
    LET more == \E k \in DOMAIN program.ops : NeedsAncilla(program.ops[k])
        ancilla == IF more THEN program.wires ELSE None
    IN  Program(program.wires + (IF more THEN 1 ELSE 0),
                Concat(Len(program.ops), [k \in DOMAIN program.ops |-> StandardGates(program.ops[k], ancilla)]))
=============================================================================
