-------------------------- MODULE CompilationMeaning --------------------------
(* What a compiled circuit must mean.                                          *)
EXTENDS CompilationPipeline, Kernels

(* The state the circuit leaves the device in, read through its classical     *)
(* bits, is the state the simulator's kernels reach; ancillas end as they     *)
(* began.                                                                     *)
BitsOf(ops) == SelectSeq(ops, LAMBDA o : o.op = "bit")
Means(program, circuit) ==
    LET n == program.wires
        size == circuit.wires
        read == Last(program.ops).wires
        bits == BitsOf(circuit.ops)
        qubit == [i \in DOMAIN read |->
                    bits[CHOOSE b \in DOMAIN bits : read[bits[b].args[1] + 1] = i - 1].wires[1]]
        other == SelectSeq(Upto(size), LAMBDA q : q \notin Range(qubit))
        wanted == Meaning(n, program.ops)
        got == Meaning(size, circuit.ops)
        value(k) == Number([i \in 1..n |-> Bit(k, size, qubit[i])])
        clean(k) == \A i \in DOMAIN other : Bit(k, size, other[i]) = 0
    IN  SameRay(Vector(size, LAMBDA k : IF clean(k) THEN At(wanted, value(k)) ELSE 0), got)

(* What is sent does what the program says, whatever the kernels, the         *)
(* couplings and the optimizer; and so does a circuit found again for the     *)
(* very program it was compiled from, when that has no angle to write.        *)
AnswersMeanTheProgram ==
    \/ answer.kind \in {"none", "error"}
    \/ answer.kind = "cached" /\ (answer.filler # answer.program \/ Params(answer.program) # <<>>)
    \/ Means(answer.program, Received(SentToIbm(answer.circuit)))

------------------------------------------------------------------------------
(* circuit_ir.rs: "Two circuits with the same structure_key differ only in    *)
(* Param::Resolved values": so a circuit found for a key means the program    *)
(* once its angles are written into it.                                       *)
FoundMeansTheProgram == answer.kind = "cached" => Means(answer.program, answer.circuit)

=============================================================================
