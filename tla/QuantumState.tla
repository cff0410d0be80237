---------------------------- MODULE QuantumState ----------------------------
(***************************************************************************)
(* Quantum states as far as ownership can tell them apart: the number of   *)
(* qubits, which decides which instructions are refused, and an abstract   *)
(* value in place of the amplitudes.                                       *)
(***************************************************************************)
EXTENDS Naturals

CONSTANTS
    QubitLimit,     \* most qubits that a register can have
    Values,         \* what the amplitudes are reduced to
    Noisy,          \* a noise model with imperfect Bell pairs is active
    None            \* no handle, no state

ASSUME QubitLimitAssumption == QubitLimit \in Nat \ {0}
ASSUME NoneAssumption == None \notin Nat /\ None \notin [qubits : Nat, val : Values]

State == [qubits : 1 .. QubitLimit, val : Values]
Of(n) == {s \in State : s.qubits = n}

\* apply_teleportation_noise changes the amplitudes and nothing else.
Teleported(s) == IF Noisy THEN Of(s.qubits) ELSE {s}
=============================================================================
