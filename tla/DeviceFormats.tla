----------------------------- MODULE DeviceFormats -----------------------------
(* What the clients of the two services send of a compiled circuit: IBM's      *)
(* client a Qiskit circuit, written as QASM (convert.rs, transpile.rs,         *)
(* qasm.rs), IonQ's a list of gates (circuit.rs).  The Qiskit transpiler is    *)
(* left out: a circuit is sent as it is (without_transpiler).                  *)
EXTENDS Circuits

------------------------------------------------------------------------------
(* A Qiskit circuit has as many classical bits as qubits.                      *)
Instruction(kind, name, qubits, clbits, params) ==
    [kind |-> kind, name |-> name, qubits |-> qubits, clbits |-> clbits, params |-> params]

ConvertedGate1(o) == Instruction("gate", o.name, o.wires, <<>>, IF o.name = "rz" THEN o.args ELSE <<>>)
ConvertedGate2(o) == Instruction("gate", o.name, o.wires, <<>>, <<>>)
Converted(o) ==
    CASE o.op = "gate" -> IF Len(o.wires) = 1 THEN ConvertedGate1(o) ELSE ConvertedGate2(o)
      [] o.op = "bit" -> Instruction("measure", "measure", o.wires, o.args, <<>>)
      [] OTHER -> Instruction(o.op, o.op, o.wires, <<>>, <<>>)
QiskitCircuit(circuit) ==
    [qubits |-> circuit.wires, clbits |-> circuit.wires,
     ops |-> [k \in DOMAIN circuit.ops |-> Converted(circuit.ops[k])]]

------------------------------------------------------------------------------
(* A device's target: the gates it has by name, each on the qubits it may be   *)
(* used on (none: on any).  A name Qiskit's interface does not know is passed  *)
(* over; a gate of two qubits is on the couplings, if there are any.           *)
OneQubitGates == {"id", "h", "x", "y", "z", "s", "sdg", "t", "tdg", "sx", "sxdg", "rx", "ry", "rz",
                  "r", "p", "phase", "u", "u1", "u2", "u3"}
KnownGates == OneQubitGates \cup {"cx", "cnot", "cz", "rzz"}
TwoQubitGates == {"cx", "cnot", "cz", "rzz", "ecr", "iswap"}
Entry(gate, on) == [gate |-> gate, on |-> on]
Anywhere == {Entry("measure", {}), Entry("reset", {})}

DeviceTarget(device, basis) ==
    {Entry(g, IF g \in TwoQubitGates THEN device.edges ELSE {<<q>> : q \in 0..(device.size - 1)}) :
        g \in basis \cap KnownGates} \cup Anywhere

(* Without a list of gates: IBM's, on any qubits.                              *)
IbmTarget == {Entry(g, {}) : g \in {"sx", "x", "rz", "id", "cx"}} \cup Anywhere
TargetOf(device, basis) == IF basis = {} THEN IbmTarget ELSE DeviceTarget(device, basis)
DefaultBasis == {"sx", "x", "rz", "cx"}

(* A coupling works in both directions.                                        *)
Takes(target, i) ==
    \/ i.kind = "barrier"
    \/ \E e \in target : /\ e.gate = i.name
                         /\ e.on = {} \/ {i.qubits, Reverse(i.qubits)} \cap e.on # {}

------------------------------------------------------------------------------
(* The statements of the QASM program; a delay has none.                       *)
Statements(i) ==
    CASE i.kind = "gate" -> <<i>>
      [] i.kind = "measure" ->
            [k \in DOMAIN i.qubits \cap DOMAIN i.clbits |->
                Instruction("measure", "measure", <<i.qubits[k]>>, <<i.clbits[k]>>, <<>>)]
      [] i.kind = "reset" ->
            [k \in DOMAIN i.qubits |-> Instruction("reset", "reset", <<i.qubits[k]>>, <<>>, <<>>)]
      [] i.kind = "barrier" -> <<i>>
      [] i.kind = "delay" -> <<>>
Qasm(qk) == [qubits |-> qk.qubits, clbits |-> qk.clbits,
             ops |-> Concat(Len(qk.ops), [k \in DOMAIN qk.ops |-> Statements(qk.ops[k])])]

(* The circuit a reader of the QASM program sees.                              *)
Read(i) == CASE i.kind = "gate" -> Op("gate", i.name, i.qubits, i.params)
             [] i.kind = "measure" -> Op("bit", "", i.qubits, i.clbits)
             [] OTHER -> Op(i.kind, "", i.qubits, <<>>)
Received(qasm) == [wires |-> qasm.qubits, ops |-> [k \in DOMAIN qasm.ops |-> Read(qasm.ops[k])]]
SentToIbm(circuit) == Qasm(QiskitCircuit(circuit))

------------------------------------------------------------------------------
(* IonQ's gates.  Measurements, resets and barriers are left out: all qubits   *)
(* are measured at the end.                                                    *)
IonqGate(gate, control, target, rotation) ==
    [gate |-> gate, control |-> control, target |-> target, rotation |-> rotation]
(* Faulty: the target is written where the control belongs.                    *)
IonqCnotBackwards(o) == <<IonqGate("cnot", <<o.wires[2]>>, o.wires[1], <<>>)>>
IonqCnot(o) == <<IonqGate("cnot", <<o.wires[1]>>, o.wires[2], <<>>)>>
Ionq(o) ==
    CASE o.op = "gate" /\ o.name = "sx" -> <<IonqGate("v", <<>>, o.wires[1], <<>>)>>
      [] o.op = "gate" /\ o.name = "x" -> <<IonqGate("x", <<>>, o.wires[1], <<>>)>>
      [] o.op = "gate" /\ o.name = "rz" -> <<IonqGate("rz", <<>>, o.wires[1], o.args)>>
      [] o.op = "gate" /\ o.name = "cx" -> IonqCnot(o)
      [] OTHER -> <<>>                                            \* id, too
SentToIonq(circuit) == Concat(Len(circuit.ops), [k \in DOMAIN circuit.ops |-> Ionq(circuit.ops[k])])
=============================================================================
