------------------------- MODULE MCQuantumRegisters -------------------------
(***************************************************************************)
(* Symmetry for model-checking QuantumRegisters: registers are only        *)
(* compared and quantified over.                                           *)
(***************************************************************************)
EXTENDS QuantumRegisters, TLC

Symmetry == Permutations(QRegs)
=============================================================================
