----------------------------- MODULE MCProcessor -----------------------------
(***************************************************************************)
(* Programs for model-checking Processor.                                  *)
(***************************************************************************)
EXTENDS Processor

R1 == 1
R2 == 2

RRR(op) == [op |-> op, d |-> R1, a |-> R1, b |-> R2]
Bare(op) == [op |-> op]
To(op, n) == [op |-> op, to |-> n]
Handler(trap, n) == [op |-> "SETIV", trap |-> trap, to |-> n]
DivZero == [op |-> "IDIV", d |-> R1, a |-> R1, imm |-> 0]

\* Every instruction with a result, and every branch to a label that nobody defined.
Ordinary ==
    {RRR(op) : op \in {"IADD", "ISUB", "IMUL", "IDIV", "IMOD", "IAND", "ILDX", "ISTRX",
                       "IINC", "IDEC", "FLDX", "FSTRX",
                       "IEQ", "ILT", "IGT", "FEQ", "IQCFG", "CVTFI"}}
    \cup {[op |-> op, d |-> R1, a |-> R2, imm |-> k] : op \in {"ILDI", "ISHL", "ISHR", "ICMP"}, k \in {0, 1}}
    \cup {Bare(op) : op \in {"FADD", "FMOV", "FSIN", "FDIV", "ZDIV", "FSQRT", "FLDI", "CVTIF", "QKERNEL", "QLOAD", "NOP", "ECALL"}}
    \cup {[op |-> "HREDUCE", d |-> R1, fun |-> f] : f \in {"round", "real", "conj_z", "mean", "mode", "expect"}}
    \cup {[op |-> "JMPF", flag |-> "of", to |-> n] : n \in {6, None}}
    \cup {[op |-> "JMPFN", flag |-> "nf", to |-> n] : n \in {6, None}}
    \cup {[op |-> "JIF", a |-> r, to |-> n] : r \in {R1, R2}, n \in {6, None}}
    \cup {To(op, None) : op \in {"JMP", "JGT", "JLE", "CALL"}}
    \cup {Handler("arith", None)}

\* A comparison of any two words, something in between, and a branch.
Load(r, x) == [op |-> "ILDI", d |-> r, imm |-> x]
Comparisons ==
    {<<Handler("quantum", 9), Load(R1, a), Load(R2, b), RRR("ICMP"), x, To(j, 8),
       Bare("HALT"), Bare("NOP"), Bare("RETI")>> :
        a, b \in Word, x \in {Bare("NOP"), Bare("QKERNEL")}, j \in {"JGT", "JLE"}}
    \cup {<<Load(R1, a), Load(R2, b), RRR("ICMP"), x, To("JGT", 7), Bare("HALT"), Bare("NOP")>> :
        a \in Word, b \in {-1, 0, 2}, x \in Ordinary}

\* Handlers of the arithmetic and the quantum trap; the program, the subroutine and the handlers
\* fault, call each other and return in the right way and in the wrong one.
Steps == {DivZero, Bare("QKERNEL"), To("CALL", 6), Bare("RETI"), To("JMP", 3)}
Handlers ==
    {<<Handler("arith", 8), Handler(t, n), x, y, Bare("HALT"), z, Bare("RET"), w, Bare("RETI")>> :
        <<t, n>> \in {<<"quantum", 6>>, <<"quantum", 8>>, <<"sync", 8>>}, x, y, z, w \in Steps}

MCPrograms == Comparisons \cup Handlers
=============================================================================
