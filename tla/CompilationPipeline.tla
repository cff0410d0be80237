-------------------------- MODULE CompilationPipeline -------------------------
(* CompilationPipeline::synthesize: look the program's structure up among the  *)
(* circuits compiled before and write its angles into the one found, or        *)
(* compile it stage by stage and keep the circuit.                             *)
EXTENDS Synthesis, DeviceFormats, CircuitCache

CONSTANTS
    Programs,   \* sets of programs: a caller compiles those of one of them
    Devices,    \* [size, edges]
    MaxCalls(_) \* synthesize is called so often with the programs of a caller

ASSUME ProgramsAssumption == \A p \in UNION Programs : IsProgram(p)

(* ConnectivityGraph: couplings of two qubits, the lower one first.           *)
IsDevice(d) ==
    /\ d.size \in Nat \ {0}
    /\ d.edges \subseteq {e \in (0..(d.size - 1)) \X (0..(d.size - 1)) : e[1] < e[2]}
ASSUME DevicesAssumption == \A d \in Devices : IsDevice(d)

VARIABLES
    programs,   \* the programs of this caller
    device,     \* the device's couplings
    metrics,    \* QpuMetrics
    answer      \* what the last call returned, and for which program

vars == <<programs, device, metrics, answer, cacheVars>>

NoCircuit == [wires |-> 0, ops |-> <<>>, swaps |-> 0, at |-> <<>>]

(* Every stage, in order; the first that fails ends it.                       *)
Finished(standard, routed, native) ==
    IF Failed(standard.ops) \/ Failed(routed.ops) \/ Failed(native) THEN NoCircuit
    ELSE [wires |-> standard.wires, ops |-> Optimized(native), swaps |-> routed.swaps, at |-> routed.at]
Synthesized(standard, routed) == Finished(standard, routed, Native(routed.ops))
Placed(standard) == Synthesized(standard, Route(device, standard))
Compiled(program) == Placed(Standard(program))

(* The angles of the program's own gates, and the rz of a circuit, in order.  *)
Params(program) ==
    Concat(Len(program.ops), [k \in DOMAIN program.ops |->
        IF program.ops[k].name \in {"Rx", "Ry", "Rz", "U3"} THEN program.ops[k].args ELSE <<>>])
Slots(ops) ==
    Ascending(Len(ops) + 1, {k \in DOMAIN ops : ops[k].op = "gate" /\ ops[k].name = "rz"})

(* rebind: the first slots take the program's angles as they are.             *)
Rebound(circuit, params) ==
    LET slots == Slots(circuit.ops)
        slot(k) == CHOOSE i \in DOMAIN slots : slots[i] = k
        bound == {slots[i] : i \in DOMAIN slots \cap DOMAIN params}
    IN  [circuit EXCEPT !.ops = [k \in DOMAIN @ |->
            IF k \in bound THEN [@[k] EXCEPT !.args = <<params[slot(k)]>>] ELSE @[k]]]

Init ==
    /\ programs \in Programs
    /\ device \in Devices
    /\ EmptyCache
    /\ metrics = [hits |-> 0, compilations |-> 0, swaps |-> 0, qubits |-> 0]
    /\ answer = [kind |-> "none", program |-> Program(0, <<>>), filler |-> Program(0, <<>>),
                 circuit |-> NoCircuit]

(* The template of a structure is a circuit, and here also the program it was *)
(* compiled from.                                                             *)
SynthesizeCached(program) ==
    LET key == StructureKey(program)
        template == cache[Position(cache, key)].template
    IN  /\ Hit(key)
        /\ metrics' = [metrics EXCEPT !.hits = @ + 1, !.compilations = @ + 1]
        /\ answer' = [kind |-> "cached", program |-> program, filler |-> template.filler,
                      circuit |-> Rebound(template.circuit, Params(program))]
        /\ UNCHANGED <<programs, device>>

(* Faulty: keeps the circuit before it looks whether a stage failed.          *)
KeptAnyway(key, program, circuit) ==
    /\ answer' = [kind |-> IF circuit = NoCircuit THEN "error" ELSE "compiled", program |-> program,
                  filler |-> program, circuit |-> circuit]
    /\ Insert(key, [circuit |-> circuit, filler |-> program])
    /\ metrics' = [metrics EXCEPT !.compilations = @ + 1]
Kept(key, program, circuit) ==
    IF circuit = NoCircuit
    THEN /\ answer' = [kind |-> "error", program |-> program, filler |-> program,
                       circuit |-> NoCircuit]
         /\ UNCHANGED <<cache, metrics, served, turn>>
    ELSE /\ answer' = [kind |-> "compiled", program |-> program, filler |-> program,
                       circuit |-> circuit]
         /\ Insert(key, [circuit |-> circuit, filler |-> program])
         /\ metrics' = [metrics EXCEPT !.swaps = @ + circuit.swaps, !.qubits = circuit.wires,
                                       !.compilations = @ + 1]
SynthesizeCompiled(program) ==
    /\ Miss(StructureKey(program))
    /\ Kept(StructureKey(program), program, Compiled(program))
    /\ UNCHANGED <<programs, device>>

(* Clone: a worker's copy has the metrics and an empty cache.                 *)
Clone ==
    /\ cache # <<>>
    /\ NewCache
    /\ UNCHANGED <<programs, device, metrics, answer>>

Next ==
    \/ /\ hits + misses < MaxCalls(programs)
       /\ \E program \in programs : SynthesizeCached(program) \/ SynthesizeCompiled(program)
    \/ /\ metrics.compilations < MaxCalls(programs)
       /\ Clone

Spec == Init /\ [][Next]_vars

------------------------------------------------------------------------------
(* A compiled circuit has only operations of the device, on qubits it has, a  *)
(* cx on two.                                                                 *)
IsNative(o, n) ==
    o \in NativeOperations /\ Range(o.wires) \subseteq 0..(n - 1) /\ IsInjective(o.wires)

(* What compiling a program gives, unless it fails.                           *)
NativeCircuits ==
    {c \in [wires : Nat \ {0}, ops : Seq(Operations), swaps : Nat, at : Seq(Nat)] :
        Len(c.at) = c.wires /\ \A k \in DOMAIN c.ops : IsNative(c.ops[k], c.wires)}

(* The pipeline is a caller of its cache that keeps whole native circuits     *)
(* only: a compilation that fails at any stage counts a miss and leaves no    *)
(* trace in the list, a hit changes nothing but the order, and a clone starts *)
(* from an empty cache.                                                       *)
KeysOfPrograms == {StructureKey(p) : p \in UNION Programs}
NativeTemplates == [circuit : NativeCircuits, filler : UNION Programs]
Calls == INSTANCE CacheCalls WITH Keys <- KeysOfPrograms, Templates <- NativeTemplates
ImplementsCache == Calls!CacheSpec

(* IonQ is sent the gates IBM is sent, by their names there, in their order:   *)
(* the two services run the same circuit, if it resets nothing.                *)
QisName == [v |-> "sx", x |-> "x", rz |-> "rz", cnot |-> "cx"]
GatesOf(statements) ==
    Concat(Len(statements), [k \in DOMAIN statements |->
        IF statements[k].kind = "gate" /\ statements[k].name # "id" THEN <<statements[k]>> ELSE <<>>])
BothServicesRunTheSame ==
    LET ionq == SentToIonq(answer.circuit)
        ibm == GatesOf(SentToIbm(answer.circuit).ops)
    IN  /\ Len(ionq) = Len(ibm)
        /\ \A k \in DOMAIN ionq :
               Op("gate", QisName[ionq[k].gate], ionq[k].control \o <<ionq[k].target>>, ionq[k].rotation)
                  = Read(ibm[k])

(* Of a program that uses every qubit of the device every instruction sent is *)
(* one that the device's target has, a cx on a coupling: it runs as it is,     *)
(* with the default list of gates and with none.                              *)
OnlyCoupledPairs ==
    answer.circuit.wires = device.size =>
        LET sent == QiskitCircuit(answer.circuit).ops
        IN  \A basis \in {DefaultBasis, {}}, k \in DOMAIN sent :
                Takes(TargetOf(device, basis), sent[k])

=============================================================================
