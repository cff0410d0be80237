---------------------------- MODULE MCCircuitBackend ---------------------------
(* Two registers, which are interchangeable, and a memory slot.               *)
EXTENDS CircuitBackend, TLC

Symmetry == Permutations(QRegs)
=============================================================================
