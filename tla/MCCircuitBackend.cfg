CONSTANTS
    QRegs = {q0, q1}
    Slots = {m0}
    MaxPrep = 2
    MaxQubits = 3
    MaxOps = 4
SPECIFICATION Spec
CHECK_DEADLOCK FALSE
SYMMETRY Symmetry
INVARIANTS SeparateWires ObservedWhole
