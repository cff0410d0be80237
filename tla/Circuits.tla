------------------------------- MODULE Circuits -------------------------------
(* The circuits the compiler reads and writes (circuit_ir.rs, native_ir.rs).  *)
(* An operation has its kind, the name of its gate, kernel or distribution,   *)
(* its wires (numbered from 0), its numbers and, for a controlled kernel, the *)
(* kernel it controls.  An angle is an integer: Pi of them make half a turn.  *)
EXTENDS Integers, Sequences, SequencesExt

Pi == 32

Distributions == {"Zero", "Uniform", "Bell", "Ghz"}
GateNames == {"H", "X", "Y", "Z", "S", "Sdg", "T", "Tdg", "Rx", "Ry", "Rz", "U3", "Cx", "Cz", "Swap", "Ecr"}
KernelNames == {"Init", "Entangle", "Fourier", "FourierInv", "Diffuse", "GroverIter", "Rotate",
                "PhaseShift", "DiagonalUnitary", "Permutation", "ControlledU"}
Kinds == {"prep", "gate", "kernel", "unitary", "product", "measure", "measqubit", "reset", "barrier",
          "bit", "fail"}
(* Of the native gates and of operations without a name, too.                 *)
Names == Distributions \cup GateNames \cup KernelNames \cup {"rz", "sx", "x", "cx", "all", ""}
Operations == [op : Kinds, name : Names, wires : Seq(Nat), args : Seq(Int), sub : Names]

Op(kind, name, wires, args) ==
    [op |-> kind, name |-> name, wires |-> wires, args |-> args, sub |-> ""]

Prep(dist, wires) == Op("prep", dist, wires, <<>>)
Gate(name, w) == Op("gate", name, <<w>>, <<>>)
Turn(name, w, angles) == Op("gate", name, <<w>>, angles)
Gate2(name, a, b) == Op("gate", name, <<a, b>>, <<>>)
Kernel(name, wires, args) == Op("kernel", name, wires, args)
Measure(wires) == Op("measure", "all", wires, <<>>)
Barrier(wires) == Op("barrier", "", wires, <<>>)
Reset(w) == Op("reset", "", <<w>>, <<>>)
MeasQubit(w) == Op("measqubit", "", <<w>>, <<>>)

(* A matrix [[cos w^a, sin w^b], [sin w^c, cos w^d]] of half the angle theta, *)
(* and for each wire an amplitude pair cos w^a, sin w^b (w^a: a turn by a).   *)
CustomUnitary(w, theta, a, b, c, d) == Op("unitary", "", <<w>>, <<theta, a, b, c, d>>)
PrepProduct(wires, pairs) == Op("product", "", wires, pairs)

(* ControlledU: the control, the power, the angle, the number of targets (0:  *)
(* all), and what is left of the table for the kernel under control.          *)
ControlledU(sub, wires, control, power, angle, targets, table) ==
    [Op("kernel", "ControlledU", wires, <<control, power, angle, targets>> \o table)
        EXCEPT !.sub = sub]

H(w) == Gate("H", w)
X(w) == Gate("X", w)
T(w) == Gate("T", w)
Tdg(w) == Gate("Tdg", w)
Rz(w, a) == Turn("Rz", w, <<a>>)
Cx(c, t) == Gate2("Cx", c, t)
Cz(a, b) == Gate2("Cz", a, b)
Swap(a, b) == Gate2("Swap", a, b)

(* An operation that cannot be compiled: the error the stage returns.         *)
Fail == <<Op("fail", "", <<>>, <<>>)>>
Failed(ops) == \E k \in DOMAIN ops : ops[k].op = "fail"

Program(n, ops) == [wires |-> n, ops |-> ops]

(* What the circuit backend records: an operation has wires of the program,   *)
(* each once (a gate on one qubit twice traps, the wires of registers are     *)
(* distinct), and the numbers its kind goes with.                             *)
IsOperation(o, n) ==
    /\ o \in Operations
    /\ o.wires # <<>> /\ IsInjective(o.wires) /\ Range(o.wires) \subseteq 0..(n - 1)
    /\ \/ o.op = "prep" /\ o.name \in Distributions
       \/ /\ o.op = "gate" /\ Len(o.wires) \in 1..2
          /\ o.name \in {"Rx", "Ry", "Rz"} => Len(o.args) > 0
          /\ o.name = "U3" => Len(o.args) > 2
       \/ /\ o.op = "kernel"
          /\ o.name \in {"Rotate", "PhaseShift"} => Len(o.args) > 0
          /\ o.name = "ControlledU" => Len(o.args) > 3 /\ o.args[2] >= 0
          /\ o.name = "ControlledU" /\ o.sub = "GroverIter" => Len(o.args) > 4
       \/ o.op = "unitary" /\ Len(o.args) = 5
       \/ o.op = "product" /\ Len(o.args) = 3 * Len(o.wires)
       \/ o.op \in {"measqubit", "reset"} /\ Len(o.wires) = 1
       \/ o.op \in {"measure", "barrier"}
IsProgram(p) ==
    /\ p \in [wires : Nat \ {0}, ops : Seq(Operations)]
    /\ \A k \in DOMAIN p.ops : IsOperation(p.ops[k], p.wires)

(* parts[1], parts[2], ... parts[n] in a row, put together by halves.         *)
Concat(n, parts) ==
    LET span[s \in (1..(n + 1)) \X (0..n)] ==
            IF s[1] > s[2] THEN <<>>
            ELSE IF s[1] = s[2] THEN parts[s[1]]
            ELSE LET mid == (s[1] + s[2]) \div 2
                 IN  span[<<s[1], mid>>] \o span[<<mid + 1, s[2]>>]
    IN  span[<<1, n>>]
Upto(n) == [k \in 1..n |-> k - 1]
(* The numbers of S below n, the lowest first.                                *)
Ascending(n, S) == Concat(n, [k \in 1..n |-> IF k - 1 \in S THEN <<k - 1>> ELSE <<>>])

------------------------------------------------------------------------------
(* compute_structure_key: of the numbers in a program only the amplitudes of  *)
(* a product preparation are part of its key.                                 *)
StructureKey(program) ==
    <<program.wires, [k \in DOMAIN program.ops |->
        [program.ops[k] EXCEPT !.args = IF program.ops[k].op = "product" THEN @ ELSE <<>>,
                               !.sub = ""]]>>
=============================================================================
