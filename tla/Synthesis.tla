------------------------------- MODULE Synthesis ------------------------------
(* cqam-micro, the stages after decompose: route the standard gates on the    *)
(* device's couplings, map them to its gates (rz, sx, x, cx), and optimize.   *)
EXTENDS Decompose

------------------------------------------------------------------------------
(* Routing.  A device has qubits 0..size-1 and its couplings, a set of pairs. *)

Coupled(device, a, b) == {<<a, b>>, <<b, a>>} \cap device.edges # {}
Neighbours(device, a) == {b \in 0..(device.size - 1) : Coupled(device, a, b)}

(* shortest_path: breadth first, the lower neighbour first, so that of the    *)
(* shortest paths the first in the order of their qubits is found.            *)
Within(device, b) ==        \* the qubits at most so many couplings away from b
    LET within[d \in Nat] == IF d = 0 THEN {b}
            ELSE within[d - 1] \cup UNION {Neighbours(device, c) : c \in within[d - 1]}
    IN  within
Distance(device, a, b) ==
    LET within == Within(device, b)
    IN  IF \E d \in 0..device.size : a \in within[d]
        THEN CHOOSE d \in 0..device.size : a \in within[d] /\ \A e \in 0..(d - 1) : a \notin within[e]
        ELSE device.size + 1
Closer(device, a, b) ==
    {c \in Neighbours(device, a) : Distance(device, c, b) = Distance(device, a, b) - 1}
ShortestPath(device, a, b) ==
    LET hop[i \in Nat] == IF i = 0 THEN a ELSE Min(Closer(device, hop[i - 1], b))
    IN  [i \in 1..(Distance(device, a, b) + 1) |-> hop[i - 1]]

(* is_fully_connected: the device has as many couplings as the wires have     *)
(* pairs, whichever they are.                                                 *)
FullyConnected(device, n) == n <= 1 \/ Cardinality(device.edges) >= (n * (n - 1)) \div 2

(* at[w + 1] is the qubit wire w is on.  swap exchanges what two qubits hold: *)
(* a qubit beyond the program's wires holds nothing the table knows.          *)
Swapped(at, a, b) == [w \in DOMAIN at |-> IF at[w] = a THEN b ELSE IF at[w] = b THEN a ELSE at[w]]
SwapsAlong(path) == [i \in 1..(Len(path) - 2) |-> Swap(path[i], path[i + 1])]
(* Faulty: the table keeps the places wires had before the swaps.             *)
PlacesKept(at, path) == at
AfterSwaps(at, path) ==
    LET after[i \in Nat] == IF i < 2 THEN at ELSE Swapped(after[i - 1], path[i - 1], path[i])
    IN  after[Len(path) - 1]
Moved(o, at) == [o EXCEPT !.wires = [i \in DOMAIN @ |-> at[@[i] + 1]]]

PathOf(device, at, o) == ShortestPath(device, at[o.wires[1] + 1], at[o.wires[2] + 1])
NeedsSwaps(device, at, o) ==
    /\ o.op = "gate" /\ Len(o.wires) = 2
    /\ ~Coupled(device, at[o.wires[1] + 1], at[o.wires[2] + 1])
(* No path is an error; one over a qubit without a wire (p2v) is a panic.     *)
NoWay(device, at, o) ==
    \/ Distance(device, at[o.wires[1] + 1], at[o.wires[2] + 1]) > device.size
    \/ LET path == PathOf(device, at, o)
       IN  \E i \in 1..(Len(path) - 2) : path[i + 1] >= Len(at)

RouteSwaps(device, at, o) ==
    IF ~NeedsSwaps(device, at, o) THEN <<>>
    ELSE IF NoWay(device, at, o) THEN Fail ELSE SwapsAlong(PathOf(device, at, o))
PlacesAfter(device, at, o) ==
    IF NeedsSwaps(device, at, o) /\ ~NoWay(device, at, o) THEN AfterSwaps(at, PathOf(device, at, o)) ELSE at
RouteStep(device, at, o) ==
    RouteSwaps(device, at, o) \o <<Moved(o, PlacesAfter(device, at, o))>>

(* The places after each of the operations, put together by halves.           *)
Places(device, program) ==
    LET n == program.wires
        L == Len(program.ops)
        places[s \in [1..n -> 0..(n - 1)] \X (1..(L + 1)) \X (0..L)] ==
            IF s[2] > s[3] THEN <<>>
            ELSE IF s[2] = s[3] THEN <<PlacesAfter(device, s[1], program.ops[s[2]])>>
            ELSE LET mid == (s[2] + s[3]) \div 2
                     first == places[<<s[1], s[2], mid>>]
                 IN  first \o places[<<Last(first), mid + 1, s[3]>>]
    IN  <<Upto(n)>> \o places[<<Upto(n), 1, L>>]

Route(device, program) ==
    LET L == Len(program.ops)
        at == Places(device, program)
        swaps == [k \in 1..L |-> RouteSwaps(device, at[k], program.ops[k])]
        steps == [k \in 1..L |-> RouteStep(device, at[k], program.ops[k])]
    IN  IF FullyConnected(device, program.wires)
        THEN [at |-> Upto(program.wires), ops |-> program.ops, swaps |-> 0]
        ELSE [at |-> at[L + 1], ops |-> Concat(L, steps), swaps |-> Len(Concat(L, swaps))]

------------------------------------------------------------------------------
(* The gates of a superconducting device                                      *)

NRz(q, a) == Turn("rz", q, <<a>>)
NSx(q) == Gate("sx", q)
NX(q) == Gate("x", q)
NCx(a, b) == Gate2("cx", a, b)
Quarter == Pi \div 2

Hadamard(q) == <<NRz(q, Quarter), NSx(q), NRz(q, Quarter)>>
Native1(o) ==
    LET q == o.wires[1]
        a == o.args
        turn == [Z |-> Pi, S |-> Quarter, Sdg |-> -Quarter, T |-> Pi \div 4, Tdg |-> -(Pi \div 4)]
    IN  CASE o.name = "H" -> Hadamard(q)
          [] o.name = "X" -> <<NX(q)>>
          [] o.name = "Y" -> <<NRz(q, Pi), NX(q)>>
          [] o.name \in DOMAIN turn -> <<NRz(q, turn[o.name])>>
          [] o.name = "Rz" -> <<NRz(q, a[1])>>
          [] o.name = "Rx" -> <<NRz(q, -Quarter), NSx(q), NRz(q, Pi - a[1]), NSx(q), NRz(q, -Quarter)>>
          [] o.name = "Ry" -> <<NRz(q, Quarter), NSx(q), NRz(q, a[1] - Pi), NSx(q), NRz(q, -Quarter)>>
          [] o.name = "U3" -> <<NRz(q, a[3]), NSx(q), NRz(q, a[1] + Pi), NSx(q), NRz(q, a[2] + Pi)>>
          [] OTHER -> Fail
Native2(o) ==
    LET a == o.wires[1]
        b == o.wires[2]
    IN  CASE o.name = "Cx" -> <<NCx(a, b)>>
          [] o.name = "Cz" -> Hadamard(b) \o <<NCx(a, b)>> \o Hadamard(b)
          [] o.name = "Swap" -> <<NCx(a, b), NCx(b, a), NCx(a, b)>>
          [] OTHER -> Fail

(* A measurement of wires numbers the bits it fills from 0; the measurement   *)
(* of one wire fills the bit with the number of the qubit the wire is on.     *)
NativeOps(o) ==
    CASE o.op = "gate" -> IF Len(o.wires) = 1 THEN Native1(o) ELSE Native2(o)
      [] o.op = "prep" -> <<>>
      [] o.op = "measure" -> [i \in DOMAIN o.wires |-> Op("bit", "", <<o.wires[i]>>, <<i - 1>>)]
      [] o.op = "measqubit" -> <<Op("bit", "", o.wires, o.wires)>>
      [] o.op \in {"barrier", "reset"} -> <<o>>
      [] OTHER -> Fail
Native(ops) == Concat(Len(ops), [k \in DOMAIN ops |-> NativeOps(ops[k])])

(* What native_ir.rs has as operations.                                       *)
NativeGates == [rz |-> 1, sx |-> 1, x |-> 1, cx |-> 2]
IsNativeOp(o) ==
    \/ o.op = "barrier"
    \/ o.op = "reset" /\ Len(o.wires) = 1
    \/ o.op = "bit" /\ Len(o.wires) = 1 /\ Len(o.args) = 1
    \/ /\ o.op = "gate" /\ o.name \in DOMAIN NativeGates
       /\ Len(o.wires) = NativeGates[o.name]
       /\ Len(o.args) = IF o.name = "rz" THEN 1 ELSE 0
NativeOperations == {o \in Operations : IsNativeOp(o)}

------------------------------------------------------------------------------
(* Optimization                                                               *)

Touches(o, q) == q \in Range(o.wires)

NextOn(ops, i, q) ==
    CHOOSE j \in i..(Len(ops) + 1) :
        /\ j = Len(ops) + 1 \/ Touches(ops[j], q)
        /\ \A k \in i..(j - 1) : ~Touches(ops[k], q)
PrevOn(ops, i, q) ==
    i - CHOOSE d \in 0..i : /\ d = i \/ Touches(ops[i - d], q)
                            /\ \A e \in 0..(d - 1) : ~Touches(ops[i - e], q)

NoBarrier(ops, i, j) == \A k \in (i + 1)..(j - 1) : ops[k].op # "barrier"
Alike(a, b) == a.op = "gate" /\ b.op = "gate" /\ a.name = b.name /\ a.wires = b.wires

(* Faulty: only the control of a cx is followed to the next gate.             *)
LinkedOnControl(ops, i) ==
    LET j == NextOn(ops, i + 1, ops[i].wires[1])
    IN  /\ ops[i].op = "gate"
        /\ j <= Len(ops)
        /\ Alike(ops[i], ops[j])
        /\ NoBarrier(ops, i, j)
(* i and the next gate on its qubit (for a cx, on both its qubits) are alike. *)
Linked(ops, i) ==
    LET q == ops[i].wires[1]
        j == NextOn(ops, i + 1, q)
    IN  /\ ops[i].op = "gate"
        /\ j <= Len(ops)
        /\ Alike(ops[i], ops[j])
        /\ IF ops[i].name = "cx" THEN NextOn(ops, i + 1, ops[i].wires[2]) = j
                                 ELSE NoBarrier(ops, i, j)
Mate(ops, i) == NextOn(ops, i + 1, ops[i].wires[1])

(* In a row of alike gates the first is taken with the second, and so on.     *)
First(ops, i) ==
    LET first[j \in DOMAIN ops] ==
            LET p == PrevOn(ops, j - 1, ops[j].wires[1])
            IN  ~(p > 0 /\ Linked(ops, p) /\ Mate(ops, p) = j /\ first[p])
    IN  first[i]
Second(ops, j) ==
    LET p == PrevOn(ops, j - 1, ops[j].wires[1])
    IN  p > 0 /\ Linked(ops, p) /\ Mate(ops, p) = j /\ First(ops, p)
Opens(ops, i) == Linked(ops, i) /\ First(ops, i)

(* Two x or two cx are nothing, two sx are an x.                              *)
Cancelled(ops, k) ==
    CASE ops[k].op # "gate" -> <<ops[k]>>
      [] ops[k].op = "gate" /\ ops[k].name \in {"x", "cx"} ->
            IF Opens(ops, k) \/ Second(ops, k) THEN <<>> ELSE <<ops[k]>>
      [] ops[k].op = "gate" /\ ops[k].name = "sx" ->
            IF Opens(ops, k) THEN <<NX(ops[k].wires[1])>>
            ELSE IF Second(ops, k) THEN <<>> ELSE <<ops[k]>>
      [] OTHER -> <<ops[k]>>
Cancel(ops) == Concat(Len(ops), [k \in DOMAIN ops |-> Cancelled(ops, k)])

(* Two rz are one, of the sum; none when the sum is a whole turn.             *)
Merged(ops, k) ==
    LET rz == ops[k].op = "gate" /\ ops[k].name = "rz"
        sum == ops[k].args[1] + ops[Mate(ops, k)].args[1]
    IN  IF ~rz THEN <<ops[k]>>
        ELSE IF Opens(ops, k)
        THEN IF sum % (2 * Pi) = 0 THEN <<>> ELSE <<NRz(ops[k].wires[1], sum)>>
        ELSE IF Second(ops, k) THEN <<>> ELSE <<ops[k]>>
MergeRz(ops) == Concat(Len(ops), [k \in DOMAIN ops |-> Merged(ops, k)])

(* An rz before cxs it controls moves behind them.                            *)
CxFrom(o, q) == o.op = "gate" /\ o.name = "cx" /\ o.wires[1] = q
BeforeCxs(ops, k, q) ==
    k - CHOOSE d \in 0..k : /\ d = k \/ ~CxFrom(ops[k - d], q)
                            /\ \A e \in 0..(d - 1) : CxFrom(ops[k - e], q)
RzOn(ops, k, q) == k > 0 /\ ops[k].op = "gate" /\ ops[k].name = "rz" /\ ops[k].wires[1] = q
Commuted(ops, k) ==
    LET q == ops[k].wires[1]
        last == k = Len(ops) \/ ~CxFrom(ops[k + 1], q)
        behind == BeforeCxs(ops, k, q)
    IN  CASE RzOn(ops, k, q) /\ k < Len(ops) /\ CxFrom(ops[k + 1], q) -> <<>>
          [] CxFrom(ops[k], q) /\ last /\ RzOn(ops, behind, q) -> <<ops[k], ops[behind]>>
          [] OTHER -> <<ops[k]>>
Commute(ops) == Concat(Len(ops), [k \in DOMAIN ops |-> Commuted(ops, k)])

Settled(ops) ==
    LET settled[c \in Seq(NativeOperations)] ==
            LET shorter == MergeRz(Cancel(c))
            IN  IF Len(shorter) = Len(c) THEN shorter ELSE settled[shorter]
    IN  settled[ops]
Optimized(ops) == Settled(Commute(Settled(ops)))
=============================================================================
